----------------------------- MODULE RemoteQueue -----------------------------
(* The loop's queues at the level of next pointers: remote_queue_, an      *)
(* atomic_intrusive_queue (src/include/atomic_intrusive_queue.hpp) that    *)
(* threads other than the loop push onto with a load and a CAS retry loop, *)
(* and the loop's local queues, intrusive_queues                           *)
(* (src/include/intrusive_queue.hpp) linked through operation_base::next.  *)
(* The loop (io_uring_context.hpp) takes the remote items, reversed, onto  *)
(* local_queue, or, when idle, marks the remote queue inactive and arms a *)
(* POLL_ADD on the eventfd that the first producer to find it inactive     *)
(* writes.  execute_pending_local moves local_queue into a pending batch   *)
(* and runs it; an operation it runs may schedule itself locally again or  *)
(* submit IO whose completion is reaped back onto local_queue.  The loop's *)
(* other work (timers, submission room) is in EventLoop and TimerLoop.     *)
(* A weak CAS that fails spuriously is a retry of the same step, so it is  *)
(* not a separate action.                                                  *)
EXTENDS Integers, Sequences, FiniteSets, SequencesExt

CONSTANTS
  Producers,   \* threads calling schedule_remote
  Items,       \* operations (operation_base objects)
  Script,      \* Script[p]: the operations p posts, in order (all distinct)
  MaxReuse,    \* bound on operations run again (rescheduled or resubmitted)
  Null,        \* nullptr
  Inactive,    \* produce_inactive_value()
  None         \* no value returned yet

ASSUME Script \in [Producers -> Seq(Items)] /\ MaxReuse \in Nat

Ptr == Items \cup {Null}
Fuel == Cardinality(Items) + 1
EmptyQ == [head |-> Null, tail |-> Null]

VARIABLES
  head,          \* remote_queue_.head
  next,          \* next[i]: operation_base::next of i
  lq,            \* local_queue: [head, tail]
  pq,            \* execute_pending_local's pending batch: [head, tail]
  armed,         \* remote_queue_read_submitted
  efd,           \* the eventfd's counter
  ppc,           \* ppc[p]: where producer p is in enqueue / schedule_remote
  pk,            \* pk[p]: index in Script[p] of the operation p is posting
  old,           \* old[p]: enqueue's old_value
  was_inactive,  \* was_inactive[p]: what p's last enqueue returned
  cpc,           \* where the loop is in mark_inactive_or_dequeue_all
  cold,          \* mark_inactive's old_value
  inflight,      \* operations whose IO is in the kernel
  reuses,        \* operations run again so far
  executed,      \* history: the operations the loop has run, in order
  posted         \* history: the operations enqueued so far

vars == <<head, next, lq, pq, armed, efd, ppc, pk, old, was_inactive, cpc, cold,
          inflight, reuses, executed, posted>>
prod_vars == <<ppc, pk, old, was_inactive, posted>>

-----------------------------------------------------------------------------
(* intrusive_queue, as a [head, tail] record over the next function.       *)

\* The items from h along next, up to and including t (or to the end).
RECURSIVE walk(_, _, _, _)
walk(h, t, nx, fuel) ==
  IF h \notin Items \/ fuel = 0 THEN <<>>
  ELSE IF h = t THEN <<h>> ELSE <<h>> \o walk(nx[h], t, nx, fuel - 1)

\* make_reversed's loop: relink each item to the one before it.
RECURSIVE reverse_links(_, _, _, _)
reverse_links(list, new_head, nx, fuel) ==
  IF list \notin Items \/ fuel = 0 THEN [head |-> new_head, next |-> nx]
  ELSE reverse_links(nx[list], list, [nx EXCEPT ![list] = new_head], fuel - 1)

\* Mutant: the chain is adopted as it is, newest first.
make_reversed_unreversed(list, nx) ==
  LET r == reverse_links(list, Null, nx, Fuel) IN
  [q |-> [head |-> list, tail |-> r.head], next |-> nx]

\* make_reversed(list): the queue of the chain list, oldest first.
make_reversed(list, nx) ==
  LET r == reverse_links(list, Null, nx, Fuel) IN
  [q |-> [head |-> r.head, tail |-> IF list \in Items THEN list ELSE Null], next |-> r.next]

\* Mutant: push_back leaves the item's old next in place.
push_back_stale(q, item, nx) ==
  IF q.tail = Null THEN [q |-> [head |-> item, tail |-> item], next |-> nx]
  ELSE [q |-> [head |-> q.head, tail |-> item], next |-> [nx EXCEPT ![q.tail] = item]]

\* push_back(item)
push_back(q, item, nx) ==
  LET nx1 == [nx EXCEPT ![item] = Null] IN
  IF q.tail = Null THEN [q |-> [head |-> item, tail |-> item], next |-> nx1]
  ELSE [q |-> [head |-> q.head, tail |-> item], next |-> [nx1 EXCEPT ![q.tail] = item]]

\* append(other)
append(q, o, nx) ==
  IF o.head = Null THEN [q |-> q, next |-> nx]
  ELSE IF q.head = Null THEN [q |-> o, next |-> nx]
  ELSE [q |-> [head |-> q.head, tail |-> o.tail], next |-> [nx EXCEPT ![q.tail] = o.head]]

\* pop_front(): the queue without its head.
pop_front(q, nx) ==
  LET h == nx[q.head] IN [head |-> h, tail |-> IF h = Null THEN Null ELSE q.tail]

-----------------------------------------------------------------------------
(* Producers: schedule_remote(op) = enqueue(op), then signal_remote_queue *)
(* if the queue was inactive.                                             *)

\* Mutant: the inactive marker is linked as the item's next.
enqueue_next_kept(o) == o

\* item->next = (old_value == inactive) ? nullptr : old_value
enqueue_next(o) == IF o = Inactive THEN Null ELSE o

Item(p) == Script[p][pk[p]]

\* p moves on to its next operation, or is done.
Proceed(p) ==
  IF pk[p] = Len(Script[p])
  THEN ppc' = [ppc EXCEPT ![p] = "done"] /\ UNCHANGED pk
  ELSE ppc' = [ppc EXCEPT ![p] = "load"] /\ pk' = [pk EXCEPT ![p] = @ + 1]

\* old_value = head.load()
EnqueueLoad(p) ==
  /\ ppc[p] = "load"
  /\ old' = [old EXCEPT ![p] = head]
  /\ ppc' = [ppc EXCEPT ![p] = "cas"]
  /\ UNCHANGED <<head, next, lq, pq, armed, efd, pk, was_inactive, cpc, cold, inflight,
                 reuses, executed, posted>>

\* item->next = ...; compare_exchange_weak(old_value, item): on failure
\* old_value is reloaded and the loop repeats; on success enqueue returns
\* old_value == inactive and schedule_remote signals if it is true.
EnqueueCas(p) ==
  /\ ppc[p] = "cas"
  /\ next' = [next EXCEPT ![Item(p)] = enqueue_next(old[p])]
  /\ IF head = old[p]
     THEN /\ head' = Item(p)
          /\ was_inactive' = [was_inactive EXCEPT ![p] = (old[p] = Inactive)]
          /\ posted' = posted \cup {Item(p)}
          /\ IF old[p] = Inactive
             THEN ppc' = [ppc EXCEPT ![p] = "signal"] /\ UNCHANGED pk
             ELSE Proceed(p)
          /\ UNCHANGED old
     ELSE /\ old' = [old EXCEPT ![p] = head]
          /\ UNCHANGED <<head, was_inactive, posted, ppc, pk>>
  /\ UNCHANGED <<lq, pq, armed, efd, cpc, cold, inflight, reuses, executed>>

\* signal_remote_queue: write 1 to the eventfd.
Signal(p) ==
  /\ ppc[p] = "signal"
  /\ efd' = efd + 1
  /\ Proceed(p)
  /\ UNCHANGED <<head, next, lq, pq, armed, old, was_inactive, cpc, cold, inflight,
                 reuses, executed, posted>>

-----------------------------------------------------------------------------
(* The loop thread.  Its steps between batches require the pending batch  *)
(* to be empty: run_impl calls them after execute_pending_local returns.  *)

Between == cpc = "loop" /\ pq = EmptyQ

\* acquire_remote_queued_items: dequeue_all and schedule_local(items), when
\* no POLL_ADD is armed.  dequeue_all returns an empty queue on nullptr,
\* otherwise exchanges head with nullptr and reverses the chain.
AcquireRemote ==
  /\ Between /\ ~armed /\ head # Null
  /\ LET r == make_reversed(head, next)
         a == append(lq, r.q, r.next)
     IN /\ head' = Null
        /\ lq' = a.q
        /\ next' = a.next
  /\ UNCHANGED <<pq, armed, efd, prod_vars, cpc, cold, inflight, reuses, executed>>

\* register_remote_queue_notification when the loop is idle and nothing is
\* armed (is_idle: local_queue empty; IO may be in flight): mark_inactive
\* loads the head ...
RegisterLoad ==
  /\ Between /\ ~armed /\ lq = EmptyQ
  /\ cold' = head
  /\ cpc' = IF head = Null THEN "mark_cas" ELSE "exchange"
  /\ UNCHANGED <<head, next, lq, pq, armed, efd, prod_vars, inflight, reuses, executed>>

\* Mutant: the CAS is a plain store.
mark_succeeds_store(h) == TRUE

\* compare_exchange_strong(old_value = nullptr, inactive)
mark_succeeds(h) == h = Null

\* ... and, having read nullptr, CASes it to inactive: on success fill
\* returns true, the POLL_ADD is submitted and remote_queue_read_submitted
\* becomes true; on failure mark_inactive_or_dequeue_all exchanges.
RegisterCas ==
  /\ cpc = "mark_cas"
  /\ IF mark_succeeds(head)
     THEN head' = Inactive /\ armed' = TRUE /\ cpc' = "loop"
     ELSE cpc' = "exchange" /\ UNCHANGED <<head, armed>>
  /\ UNCHANGED <<next, lq, pq, efd, prod_vars, cold, inflight, reuses, executed>>

\* head.exchange(nullptr), make_reversed, and fill's schedule_local of the
\* items (fill returns false: nothing is armed).
RegisterExchange ==
  /\ cpc = "exchange"
  /\ LET r == make_reversed(head, next)
         a == append(lq, r.q, r.next)
     IN /\ head' = Null
        /\ lq' = a.q
        /\ next' = a.next
  /\ cpc' = "loop"
  /\ UNCHANGED <<pq, armed, efd, prod_vars, cold, inflight, reuses, executed>>

\* Mutant: the eventfd is not read when the POLL_ADD completes.
efd_after_read_kept(e) == e

\* read(remote_queue_event_fd) takes the whole counter.
efd_after_read(e) == 0

\* acquire_completion_queue_items, the POLL_ADD's CQE (the kernel posts it
\* once the counter is non-zero): read the eventfd and clear
\* remote_queue_read_submitted.
PollComplete ==
  /\ Between /\ armed /\ efd > 0
  /\ efd' = efd_after_read(efd)
  /\ armed' = FALSE
  /\ UNCHANGED <<head, next, lq, pq, prod_vars, cpc, cold, inflight, reuses, executed>>

\* acquire_completion_queue_items, an IO's CQE: the operation is pushed on
\* the batch's completion_queue, which is appended to local_queue.
Reap ==
  /\ Between
  /\ \E i \in inflight :
       LET c == push_back(EmptyQ, i, next)
           a == append(lq, c.q, c.next)
       IN /\ lq' = a.q
          /\ next' = a.next
          /\ inflight' = inflight \ {i}
  /\ UNCHANGED <<head, pq, armed, efd, prod_vars, cpc, cold, reuses, executed>>

\* execute_pending_local: pending = std::move(local_queue) ...
StartBatch ==
  /\ Between /\ lq # EmptyQ
  /\ pq' = lq
  /\ lq' = EmptyQ
  /\ UNCHANGED <<head, next, armed, efd, prod_vars, cpc, cold, inflight, reuses, executed>>

\* ... then pop_front and execute_ each item.  The operation finishes,
\* schedules itself locally (push_back onto local_queue), or submits IO.
ExecuteItem ==
  /\ pq # EmptyQ
  /\ LET i == pq.head IN
     /\ pq' = pop_front(pq, next)
     /\ executed' = Append(executed, i)
     /\ \/ UNCHANGED <<lq, next, inflight, reuses>>
        \/ /\ reuses < MaxReuse
           /\ LET b == push_back(lq, i, next) IN lq' = b.q /\ next' = b.next
           /\ reuses' = reuses + 1
           /\ UNCHANGED inflight
        \/ /\ reuses < MaxReuse
           /\ inflight' = inflight \cup {i}
           /\ reuses' = reuses + 1
           /\ UNCHANGED <<lq, next>>
  /\ UNCHANGED <<head, armed, efd, prod_vars, cpc, cold>>

\* Everything posted has run and the loop waits on its armed POLL_ADD.
Sleeping ==
  /\ Between /\ armed /\ efd = 0 /\ lq = EmptyQ /\ inflight = {}
  /\ \A p \in Producers : ppc[p] = "done"
  /\ UNCHANGED vars

-----------------------------------------------------------------------------

\* The queue is constructed active (head(nullptr)); queues are empty.
Init ==
  /\ head = Null
  /\ next = [i \in Items |-> Null]
  /\ lq = EmptyQ /\ pq = EmptyQ
  /\ armed = FALSE /\ efd = 0
  /\ ppc = [p \in Producers |-> IF Script[p] = <<>> THEN "done" ELSE "load"]
  /\ pk = [p \in Producers |-> 1]
  /\ old = [p \in Producers |-> Null]
  /\ was_inactive = [p \in Producers |-> None]
  /\ cpc = "loop" /\ cold = Null
  /\ inflight = {} /\ reuses = 0
  /\ executed = <<>> /\ posted = {}

Next ==
  \/ \E p \in Producers : EnqueueLoad(p) \/ EnqueueCas(p) \/ Signal(p)
  \/ AcquireRemote
  \/ RegisterLoad
  \/ RegisterCas
  \/ RegisterExchange
  \/ PollComplete
  \/ Reap
  \/ StartBatch
  \/ ExecuteItem
  \/ Sleeping

\* Producer threads run; the loop, never blocked except on its armed
\* POLL_ADD, takes each of its steps while it is enabled.
Fairness ==
  /\ \A p \in Producers : WF_vars(EnqueueLoad(p) \/ EnqueueCas(p) \/ Signal(p))
  /\ WF_vars(AcquireRemote) /\ WF_vars(RegisterLoad) /\ WF_vars(RegisterCas)
  /\ WF_vars(RegisterExchange) /\ WF_vars(PollComplete) /\ WF_vars(Reap)
  /\ WF_vars(StartBatch) /\ WF_vars(ExecuteItem)

Spec == Init /\ [][Next]_vars /\ Fairness
-----------------------------------------------------------------------------
(* Properties.                                                             *)

\* The chain from remote_queue_.head, newest first.
chain == walk(head, Null, next, Fuel)

\* The items of a local queue from head to tail.
seq_of(q) == walk(q.head, q.tail, next, Fuel)

\* The refinement mapping: the remote items are the chain reversed; the
\* loop's FIFO is the pending batch followed by local_queue.
AQ == INSTANCE MpscQueue WITH
        remote <- IF head \in Items THEN Reverse(chain) ELSE <<>>,
        local <- seq_of(pq) \o seq_of(lq),
        inactive <- head = Inactive,
        ret <- was_inactive,
        executed <- executed

TypeOK ==
  /\ head \in Ptr \cup {Inactive}
  /\ next \in [Items -> Ptr]
  /\ lq \in [head : Ptr, tail : Ptr] /\ pq \in [head : Ptr, tail : Ptr]
  /\ armed \in BOOLEAN /\ efd \in Nat
  /\ ppc \in [Producers -> {"load", "cas", "signal", "done"}]
  /\ was_inactive \in [Producers -> BOOLEAN \cup {None}]
  /\ cpc \in {"loop", "mark_cas", "exchange"}
  /\ inflight \subseteq Items

\* The shape pop_front and append rely on, kept by every producer of
\* queues (enqueue, make_reversed, push_back, append): the remote chain and
\* each local queue end in nullptr at their tail, a queue's head reaches its
\* tail, and no operation is linked in two places (or twice in one, or
\* while its IO is in the kernel).
QueuesWellFormed ==
  LET all == chain \o seq_of(pq) \o seq_of(lq) IN
  /\ head \in Items => next[Last(chain)] = Null
  /\ \A q \in {lq, pq} :
       /\ (q.head = Null) = (q.tail = Null)
       /\ q.tail # Null => next[q.tail] = Null /\ Last(seq_of(q)) = q.tail
  /\ Len(all) = Cardinality(ToSet(all))
  /\ ToSet(all) \cap inflight = {}

\* The queue is inactive only while the loop has a POLL_ADD armed on the
\* eventfd: otherwise acquire_remote_queued_items would call dequeue_all on
\* an inactive queue (its assertion) and no producer would signal again.
InactiveOnlyWhenArmed == head = Inactive => armed

\* The pointer-level queues implement the MPSC queue: enqueue is atomic at
\* its successful CAS and returns whether the loop had gone inactive, the
\* loop takes remote items in the order they were enqueued, and it runs its
\* operations in FIFO order.
QueueRefinement == AQ!Spec

\* Every operation posted from another thread is eventually run by the
\* loop: no wake-up is lost between mark_inactive and a producer's enqueue.
ItemsRun == \A i \in Items : i \in posted ~> i \in ToSet(executed)
====
