----------------------------- MODULE EventLoop -----------------------------
(***************************************************************************)
(* The io_uring_context event loop (src/include/io_uring_context.hpp):     *)
(* one loop thread running run_impl, other threads scheduling operations  *)
(* onto the lock-free remote queue (atomic_intrusive_queue.hpp) and        *)
(* waking the loop through the eventfd, and the kernel consuming the       *)
(* submission ring and posting to the completion ring.                     *)
(*                                                                         *)
(* Operations are post operations (io_uring_post.hpp) and I/O operations   *)
(* following the common start / start_io / on_io_complete protocol of     *)
(* connect, accept, socket, read and write.  The stop_operation installed  *)
(* by run() is the model value StopOp.  Timers are modelled elsewhere:     *)
(* with no timer ever inserted, timers_are_dirty stays FALSE and           *)
(* update_timers is never called.                                          *)
(***************************************************************************)
EXTENDS Naturals, Sequences, SequencesExt, FiniteSets

CONSTANTS
  PostOps,      \* post_operation instances
  IoOps,        \* completion_base operations that submit one SQE each
  StopOp,       \* the stop_operation of run()
  Inactive,     \* produce_inactive_value(): the address of the queue head
  RemoteWake,   \* remote_queue_event_user_data (0): the eventfd POLL_ADD
  SqEntries,    \* sq_entry_count
  CqEntries     \* cq_entry_count

ASSUME PostOps \cap IoOps = {}
ASSUME SqEntries \in Nat \ {0} /\ CqEntries \in Nat \ {0}

Ops == PostOps \cup IoOps

VARIABLES
  pc,                           \* where the loop thread is in run_impl
  local_queue,                  \* operation_queue local_queue
  batch,                        \* the snapshot taken by execute_pending_local
  pending_io_queue,             \* operation_queue pending_io_queue
  remote_head,                  \* remote_queue_.head: Inactive or the pushed chain, newest first
  signals_owed,                 \* producers whose enqueue returned true and that have not yet written the eventfd
  event_fd,                     \* the eventfd counter
  sq,                           \* SQEs filled but not yet consumed by io_uring_enter
  in_flight,                    \* SQEs the kernel has consumed and not yet completed
  cq,                           \* CQEs posted and not yet reaped
  sq_unflushed_count,
  cq_pending_count,
  remote_queue_read_submitted,
  should_stop,                  \* stop_operation::should_stop
  stop_requested,               \* the stop source has run the stop callback
  execute_,                     \* operation_base::execute_ of each operation
  started,                      \* history: start() has been called
  delivered,                    \* history: the receiver has been invoked
  enqueue_order,                \* history: post operations in remote enqueue order
  run_order                     \* history: post operations in the order their receivers ran

loop_vars == <<pc, local_queue, batch, pending_io_queue, sq_unflushed_count,
               cq_pending_count, remote_queue_read_submitted, should_stop>>
ring_vars == <<sq, in_flight, cq>>
remote_vars == <<remote_head, signals_owed, event_fd, stop_requested>>
hist_vars == <<started, delivered, enqueue_order, run_order>>
vars == <<loop_vars, ring_vars, remote_vars, execute_, hist_vars>>

Handlers == {"unset", "on_schedule_complete", "on_io_complete", "execute_impl"}

-----------------------------------------------------------------------------
(* Ring accounting of io_uring_context.                                    *)

pending_operation_count == cq_pending_count + sq_unflushed_count

\* can_submit_io(): the guard of the pending-IO replay loop.
can_submit_io ==
  /\ sq_unflushed_count < SqEntries
  /\ pending_operation_count < CqEntries

\* The two capacity checks of submit_io: the CQE budget, then the SQ ring
\* (used_count = tail - head; the kernel consumes every flushed SQE).
\* Mutant: the budget check admits one SQE too many.
submit_io_has_room_overcommit ==
  /\ pending_operation_count <= CqEntries
  /\ Len(sq) < SqEntries

submit_io_has_room ==
  /\ pending_operation_count < CqEntries
  /\ Len(sq) < SqEntries

\* Mutant: the POLL_ADD fill (mark_inactive_or_dequeue_all) runs before
\* submit_io has checked for room.
poll_fill_ran_unchecked(register) == register

\* register_remote_queue_notification: submit_io runs the fill only once
\* both capacity checks have passed.
poll_fill_ran(register) == register /\ submit_io_has_room

-----------------------------------------------------------------------------
(* atomic_intrusive_queue, as seen by producers and by the loop.           *)

\* Mutant: the producer never writes the eventfd.
schedule_remote_unsignalled(op) ==
  /\ remote_head' = IF remote_head = Inactive THEN <<op>>
                    ELSE <<op>> \o remote_head
  /\ UNCHANGED signals_owed

\* Mutant: enqueue links the new item to the inactive sentinel instead of
\* to nullptr, so the sentinel ends up in the chain.
schedule_remote_links_sentinel(op) ==
  /\ remote_head' = IF remote_head = Inactive THEN <<op, Inactive>>
                    ELSE <<op>> \o remote_head
  /\ signals_owed' = IF remote_head = Inactive THEN signals_owed + 1
                     ELSE signals_owed

\* enqueue(op) followed by schedule_remote's signal when it returned TRUE:
\* the item becomes the new head, its next the old head (nullptr when the
\* queue was inactive).  The eventfd write is a separate step
\* (SignalRemoteQueue).
schedule_remote(op) ==
  IF remote_head = Inactive
  THEN /\ remote_head' = <<op>>
       /\ signals_owed' = signals_owed + 1
  ELSE /\ remote_head' = <<op>> \o remote_head
       /\ UNCHANGED signals_owed

\* Mutant: the chain is handed over as pushed, newest first.
dequeue_all_unreversed == remote_head

\* dequeue_all() and mark_inactive_or_dequeue_all() exchange the head for
\* nullptr and return intrusive_queue::make_reversed of the chain: it is
\* relinked from newest first to oldest first.
dequeue_all == Reverse(remote_head)

-----------------------------------------------------------------------------
(* start_io of an I/O operation: submit_io(fill), or park on pending_io;  *)
(* pq is the pending-IO queue the step leaves before start_io runs.       *)

start_io(op, pq) ==
  IF submit_io_has_room
  THEN /\ sq' = Append(sq, op)
       /\ sq_unflushed_count' = sq_unflushed_count + 1
       /\ execute_' = [execute_ EXCEPT ![op] = "on_io_complete"]
       /\ pending_io_queue' = pq
  ELSE /\ execute_' = [execute_ EXCEPT ![op] = "on_schedule_complete"]
       /\ pending_io_queue' = Append(pq, op)
       /\ UNCHANGED <<sq, sq_unflushed_count>>

\* start_io as reached through on_schedule_complete.
on_schedule_complete(op, pq) == start_io(op, pq)

\* The receiver of a finished operation runs on the loop thread and may
\* start one more operation there: start() on the io thread calls start_io
\* for an I/O operation and schedule_local for a post.
receiver_may_start ==
  \/ /\ UNCHANGED <<started, local_queue, sq, sq_unflushed_count, execute_,
                    pending_io_queue>>
  \/ \E op \in PostOps :
       /\ ~started[op]
       /\ started' = [started EXCEPT ![op] = TRUE]
       /\ local_queue' = Append(local_queue, op)
       /\ UNCHANGED <<sq, sq_unflushed_count, execute_, pending_io_queue>>
  \/ \E op \in IoOps :
       /\ ~started[op]
       /\ started' = [started EXCEPT ![op] = TRUE]
       /\ on_schedule_complete(op, pending_io_queue)
       /\ UNCHANGED local_queue

\* The receiver of a finished operation runs: post_operation::execute_impl
\* calls receiver(), an I/O operation's completion handler calls its own.
deliver(op) ==
  /\ delivered' = [delivered EXCEPT ![op] = TRUE]
  /\ receiver_may_start

-----------------------------------------------------------------------------
(* The loop thread: one action per step of run_impl.                       *)

\* execute_pending_local: move the whole local queue into a snapshot.
ExecutePendingLocal ==
  /\ pc = "tick"
  /\ batch' = local_queue
  /\ local_queue' = <<>>
  /\ pc' = "exec"
  /\ UNCHANGED <<pending_io_queue, sq_unflushed_count, cq_pending_count,
                 remote_queue_read_submitted, should_stop, ring_vars,
                 remote_vars, execute_, hist_vars>>

\* One iteration of the while loop of execute_pending_local: item->execute_(item).
ExecuteItem ==
  /\ pc = "exec"
  /\ batch # <<>>
  /\ batch' = Tail(batch)
  /\ LET op == Head(batch) IN
       IF op = StopOp
       THEN /\ should_stop' = TRUE
            /\ UNCHANGED <<local_queue, pending_io_queue, sq, sq_unflushed_count,
                           execute_, hist_vars>>
       ELSE /\ UNCHANGED should_stop
            /\ CASE execute_[op] = "execute_impl" ->
                      /\ deliver(op)
                      /\ run_order' = Append(run_order, op)
                      /\ UNCHANGED enqueue_order
                 [] execute_[op] = "on_io_complete" ->
                      /\ deliver(op)
                      /\ UNCHANGED <<run_order, enqueue_order>>
                 [] execute_[op] = "on_schedule_complete" ->
                      /\ on_schedule_complete(op, pending_io_queue)
                      /\ UNCHANGED <<local_queue, started, delivered,
                                     run_order, enqueue_order>>
  /\ UNCHANGED <<pc, cq_pending_count, remote_queue_read_submitted,
                 in_flight, cq, remote_vars>>

\* if (should_stop) break;  -- run_impl returns.
Stop ==
  /\ pc = "exec"
  /\ batch = <<>>
  /\ should_stop
  /\ pc' = "stopped"
  /\ UNCHANGED <<local_queue, batch, pending_io_queue, sq_unflushed_count,
                 cq_pending_count, remote_queue_read_submitted, should_stop,
                 ring_vars, remote_vars, execute_, hist_vars>>

\* Mutant: the RemoteWake CQE does not clear remote_queue_read_submitted.
read_submitted_after_reap_kept == remote_queue_read_submitted

\* Reaping the RemoteWake CQE clears remote_queue_read_submitted.
read_submitted_after_reap ==
  IF RemoteWake \in Range(cq) THEN FALSE ELSE remote_queue_read_submitted

\* acquire_completion_queue_items: reap every CQE between head and tail.
\* A RemoteWake CQE reads the eventfd (resetting it) and clears
\* remote_queue_read_submitted; an operation's CQE schedules it locally.
AcquireCompletionQueueItems ==
  /\ pc = "exec"
  /\ batch = <<>>
  /\ ~should_stop
  /\ LET wake == RemoteWake \in Range(cq)
         completed == SelectSeq(cq, LAMBDA e : e # RemoteWake)
     IN /\ local_queue' = local_queue \o completed
        /\ event_fd' = IF wake THEN 0 ELSE event_fd
        /\ remote_queue_read_submitted' = read_submitted_after_reap
  /\ cq' = <<>>
  /\ cq_pending_count' = cq_pending_count - Len(cq)
  /\ pc' = "remote"
  /\ UNCHANGED <<batch, pending_io_queue, sq_unflushed_count, should_stop,
                 sq, in_flight, remote_head, signals_owed, stop_requested,
                 execute_, hist_vars>>

\* if (!remote_queue_read_submitted) acquire_remote_queued_items();
AcquireRemoteQueuedItems ==
  /\ pc = "remote"
  /\ IF remote_queue_read_submitted
     THEN UNCHANGED <<local_queue, remote_head>>
     ELSE /\ local_queue' = local_queue \o dequeue_all
          /\ remote_head' = <<>>
  /\ pc' = "replay"
  /\ UNCHANGED <<batch, pending_io_queue, sq_unflushed_count, cq_pending_count,
                 remote_queue_read_submitted, should_stop, ring_vars,
                 signals_owed, event_fd, stop_requested, execute_, hist_vars>>

\* while (!pending_io_queue.empty() && can_submit_io()): pop and execute.
ReplayPendingIo ==
  /\ pc = "replay"
  /\ pending_io_queue # <<>>
  /\ can_submit_io
  /\ on_schedule_complete(Head(pending_io_queue), Tail(pending_io_queue))
  /\ UNCHANGED <<pc, local_queue, batch, cq_pending_count,
                 remote_queue_read_submitted, should_stop, in_flight, cq,
                 remote_vars, started, delivered, enqueue_order, run_order>>

\* cq_pending_count += result, where result is every SQE submitted.
cq_pending_after_enter(n) == cq_pending_count + n

\* The end of run_impl's loop body: if the local queue is empty or SQEs are
\* unflushed, register the eventfd POLL_ADD when idle (its fill calls
\* mark_inactive_or_dequeue_all and bails out if items were queued), decide
\* whether to wait for a completion, and io_uring_enter every unflushed SQE.
EnterRing ==
  /\ pc = "replay"
  /\ pending_io_queue = <<>> \/ ~can_submit_io
  /\ IF local_queue = <<>> \/ sq_unflushed_count > 0
     THEN LET is_idle  == sq_unflushed_count = 0 /\ local_queue = <<>>
              register == is_idle /\ ~remote_queue_read_submitted
              fill_ran == poll_fill_ran(register)
              marked   == fill_ran /\ remote_head = <<>>
              drained  == fill_ran /\ remote_head # <<>>
              armed    == marked /\ submit_io_has_room
              new_sq   == IF armed THEN Append(sq, RemoteWake) ELSE sq
              submitted_flag == IF register THEN armed ELSE remote_queue_read_submitted
              block == is_idle /\ (submitted_flag \/ cq_pending_count + Len(new_sq) = CqEntries)
          IN /\ remote_head' = IF marked THEN Inactive
                               ELSE IF drained THEN <<>> ELSE remote_head
             /\ local_queue' = IF drained THEN local_queue \o dequeue_all ELSE local_queue
             /\ remote_queue_read_submitted' = submitted_flag
             /\ in_flight' = in_flight \cup Range(new_sq)
             /\ sq' = <<>>
             /\ sq_unflushed_count' = 0
             /\ cq_pending_count' = cq_pending_after_enter(Len(new_sq))
             /\ pc' = IF block THEN "wait" ELSE "tick"
     ELSE /\ pc' = "tick"
          /\ UNCHANGED <<remote_head, local_queue, remote_queue_read_submitted,
                         in_flight, sq, sq_unflushed_count, cq_pending_count>>
  /\ UNCHANGED <<batch, pending_io_queue, should_stop, cq, signals_owed,
                 event_fd, stop_requested, execute_, hist_vars>>

\* io_uring_enter with IORING_ENTER_GETEVENTS and min_complete = 1 returns
\* once a CQE is available.
WaitCompletion ==
  /\ pc = "wait"
  /\ cq # <<>>
  /\ pc' = "tick"
  /\ UNCHANGED <<local_queue, batch, pending_io_queue, sq_unflushed_count,
                 cq_pending_count, remote_queue_read_submitted, should_stop,
                 ring_vars, remote_vars, execute_, hist_vars>>

-----------------------------------------------------------------------------
(* The kernel: a consumed SQE completes into the CQ ring.  The eventfd    *)
(* POLL_ADD completes only once the eventfd is readable.                   *)

KernelComplete(e) ==
  /\ e \in in_flight
  /\ e = RemoteWake => event_fd > 0
  /\ in_flight' = in_flight \ {e}
  /\ cq' = Append(cq, e)
  /\ UNCHANGED <<loop_vars, sq, remote_vars, execute_, hist_vars>>

-----------------------------------------------------------------------------
(* Other threads.                                                          *)

\* start() of an operation off the loop thread: an I/O operation sets
\* execute_ = on_schedule_complete, a post keeps execute_impl; both go
\* through schedule_remote.
RemoteStart(op) ==
  /\ ~started[op]
  /\ started' = [started EXCEPT ![op] = TRUE]
  /\ execute_' = IF op \in IoOps
                 THEN [execute_ EXCEPT ![op] = "on_schedule_complete"]
                 ELSE execute_
  /\ enqueue_order' = IF op \in PostOps THEN Append(enqueue_order, op)
                      ELSE enqueue_order
  /\ schedule_remote(op)
  /\ UNCHANGED <<loop_vars, ring_vars, event_fd, stop_requested, delivered,
                 run_order>>

\* inplace_stop_source::request_stop on another thread runs run()'s stop
\* callback, upon_stop, which calls schedule_impl(&stop_op).
RequestStop ==
  /\ ~stop_requested
  /\ stop_requested' = TRUE
  /\ schedule_remote(StopOp)
  /\ UNCHANGED <<loop_vars, ring_vars, event_fd, execute_, hist_vars>>

\* signal_remote_queue: write 1 to the eventfd.
SignalRemoteQueue ==
  /\ signals_owed > 0
  /\ signals_owed' = signals_owed - 1
  /\ event_fd' = event_fd + 1
  /\ UNCHANGED <<loop_vars, ring_vars, remote_head, stop_requested,
                 execute_, hist_vars>>

-----------------------------------------------------------------------------

Init ==
  /\ pc = "tick"
  /\ local_queue = <<>>
  /\ batch = <<>>
  /\ pending_io_queue = <<>>
  /\ remote_head = <<>>
  /\ signals_owed = 0
  /\ event_fd = 0
  /\ sq = <<>>
  /\ in_flight = {}
  /\ cq = <<>>
  /\ sq_unflushed_count = 0
  /\ cq_pending_count = 0
  /\ remote_queue_read_submitted = FALSE
  /\ should_stop = FALSE
  /\ stop_requested = FALSE
  /\ execute_ = [op \in Ops |-> IF op \in PostOps THEN "execute_impl" ELSE "unset"]
  /\ started = [op \in Ops |-> FALSE]
  /\ delivered = [op \in Ops |-> FALSE]
  /\ enqueue_order = <<>>
  /\ run_order = <<>>

LoopStep ==
  \/ ExecutePendingLocal
  \/ ExecuteItem
  \/ Stop
  \/ AcquireCompletionQueueItems
  \/ AcquireRemoteQueuedItems
  \/ ReplayPendingIo
  \/ EnterRing
  \/ WaitCompletion

\* run_impl has returned; the loop thread does nothing more.
Returned ==
  /\ pc = "stopped"
  /\ UNCHANGED vars

\* The loop thread asleep in io_uring_enter with no CQE to wake it: a server
\* with nothing to do stays here for good.
Sleeping ==
  /\ pc = "wait"
  /\ cq = <<>>
  /\ UNCHANGED vars

Next ==
  \/ LoopStep
  \/ Sleeping
  \/ \E e \in in_flight : KernelComplete(e)
  \/ \E op \in Ops : RemoteStart(op)
  \/ RequestStop
  \/ SignalRemoteQueue
  \/ Returned

\* The loop thread never parks except inside io_uring_enter; the kernel
\* completes every consumed SQE (the modelled operations all finish) and
\* posts the POLL_ADD completion once the eventfd is readable; a producer
\* that owes a signal finishes its write.  Producers and the stop request
\* are not obliged to act.
Fairness ==
  /\ WF_vars(LoopStep)
  /\ \A e \in IoOps \cup {RemoteWake} : WF_vars(KernelComplete(e))
  /\ WF_vars(SignalRemoteQueue)

Spec == Init /\ [][Next]_vars /\ Fairness

-----------------------------------------------------------------------------

TypeOK ==
  /\ pc \in {"tick", "exec", "remote", "replay", "wait", "stopped"}
  /\ local_queue \in Seq(Ops \cup {StopOp})
  /\ batch \in Seq(Ops \cup {StopOp})
  /\ pending_io_queue \in Seq(IoOps)
  /\ remote_head \in Seq(Ops \cup {StopOp}) \cup {Inactive}
  /\ signals_owed \in Nat /\ event_fd \in Nat
  /\ sq \in Seq(IoOps \cup {RemoteWake})
  /\ in_flight \subseteq IoOps \cup {RemoteWake}
  /\ cq \in Seq(IoOps \cup {RemoteWake})
  /\ sq_unflushed_count \in Nat /\ cq_pending_count \in Nat
  /\ remote_queue_read_submitted \in BOOLEAN
  /\ should_stop \in BOOLEAN /\ stop_requested \in BOOLEAN
  /\ execute_ \in [Ops -> Handlers]
  /\ started \in [Ops -> BOOLEAN] /\ delivered \in [Ops -> BOOLEAN]

\* Position of x in a sequence that holds it once.
PosIn(s, x) == CHOOSE i \in 1..Len(s) : s[i] = x

\* The elements of s that also occur in ref appear in s in ref's order.
InOrderOf(s, ref) ==
  \A i, j \in 1..Len(s) :
    (i < j /\ s[i] \in Range(ref) /\ s[j] \in Range(ref))
      => PosIn(ref, s[i]) < PosIn(ref, s[j])

-----------------------------------------------------------------------------
(* Properties.                                                             *)

\* The counters submit_io, io_uring_enter and acquire_completion_queue_items
\* maintain agree with what is really in the rings, and every SQE handed to
\* the kernel has a CQ slot waiting for its completion: the budget check
\* pending_operation_count() < cq_entry_count keeps the CQ from overflowing.
RingBudget ==
  /\ sq_unflushed_count = Len(sq)
  /\ cq_pending_count = Cardinality(in_flight) + Len(cq)
  /\ Len(sq) + Cardinality(in_flight) + Len(cq) <= CqEntries

\* Whenever a producer would find the remote queue marked inactive (and so
\* be the one to signal), the loop has a POLL_ADD on the eventfd queued or
\* in the kernel, and remote_queue_read_submitted keeps the loop from
\* draining the queue underneath it: no wake-up is lost and
\* dequeue_all never meets the inactive sentinel.  Only the one producer
\* that found the queue inactive writes the eventfd, so it never counts
\* past one.
WakeupArmed ==
  /\ remote_head = Inactive =>
       /\ remote_queue_read_submitted
       /\ RemoteWake \in Range(sq) \cup in_flight
  /\ event_fd + signals_owed <= 1

\* Posts made from other threads run on the loop thread in the order their
\* enqueue CAS succeeded: enqueue pushes newest first, both drains
\* (acquire_remote_queued_items and the POLL_ADD fill) reverse the chain and
\* append it behind the local queue, and each batch runs a snapshot of it in
\* order, while completions and locally started posts interleave.
PostFifo == InOrderOf(run_order, enqueue_order)

\* Every operation started, locally or from another thread, has its
\* receiver invoked unless run() returns first: no lost eventfd wake-up,
\* no operation stranded on the pending-IO queue, no stall at a full ring.
StartedOpsComplete ==
  \A op \in Ops : started[op] ~> (delivered[op] \/ pc = "stopped")

\* A stop request makes run() return.
StopHonoured == stop_requested ~> pc = "stopped"
=============================================================================
