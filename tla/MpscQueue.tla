------------------------------ MODULE MpscQueue ------------------------------
(* What the loop's remote queue promises (spec 4.3, 8.2-8.4), with no      *)
(* pointers: producers on other threads enqueue operations; enqueue tells  *)
(* the producer whether the loop had marked the queue inactive (and so     *)
(* must be woken); the loop takes everything enqueued so far in enqueue    *)
(* order onto its local FIFO, or marks the queue inactive when nothing is  *)
(* there; it runs its local FIFO in order, and an operation it runs may    *)
(* schedule an operation locally behind the others.                        *)
EXTENDS Sequences

CONSTANTS Producers, Items, None

VARIABLES
  remote,     \* operations enqueued and not yet taken, oldest first
  local,      \* the loop's local FIFO
  inactive,   \* the loop has marked the queue inactive
  ret,        \* ret[p]: what p's last enqueue returned (None before)
  executed    \* the operations the loop has run, in order

vars == <<remote, local, inactive, ret, executed>>

Init ==
  /\ remote = <<>>
  /\ local = <<>>
  /\ inactive = FALSE
  /\ ret = [p \in Producers |-> None]
  /\ executed = <<>>

\* enqueue(i) by p: returns whether the queue was inactive, and activates it.
Enqueue(p, i) ==
  /\ remote' = Append(remote, i)
  /\ ret' = [ret EXCEPT ![p] = inactive]
  /\ inactive' = FALSE
  /\ UNCHANGED <<local, executed>>

\* dequeue_all, or mark_inactive_or_dequeue_all finding items: everything
\* enqueued moves, in order, behind the local FIFO.
TakeAll ==
  /\ ~inactive
  /\ local' = local \o remote
  /\ remote' = <<>>
  /\ UNCHANGED <<inactive, ret, executed>>

\* mark_inactive_or_dequeue_all finding nothing.
MarkInactive ==
  /\ ~inactive /\ remote = <<>>
  /\ inactive' = TRUE
  /\ UNCHANGED <<remote, local, ret, executed>>

\* The loop runs the head of its FIFO, which may schedule one operation.
Execute ==
  /\ local # <<>>
  /\ executed' = Append(executed, Head(local))
  /\ \/ local' = Tail(local)
     \/ \E i \in Items : local' = Append(Tail(local), i)
  /\ UNCHANGED <<remote, inactive, ret>>

\* A completion the loop reaps from the ring is scheduled locally.
Complete(i) ==
  /\ local' = Append(local, i)
  /\ UNCHANGED <<remote, inactive, ret, executed>>

Next ==
  \/ \E p \in Producers, i \in Items : Enqueue(p, i)
  \/ \E i \in Items : Complete(i)
  \/ TakeAll
  \/ MarkInactive
  \/ Execute

Spec == Init /\ [][Next]_vars
====
