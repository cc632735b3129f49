----------------------------- MODULE TimerLoop -----------------------------
(***************************************************************************)
(* Timers on the io_uring_context event loop.                              *)
(*                                                                         *)
(* The loop thread runs run_impl (src/include/io_uring_context.hpp) with  *)
(* its timer maintenance: the sorted timer list (intrusive_heap.hpp),      *)
(* update_timers with the single armed kernel TIMEOUT, and the timer CQEs  *)
(* reaped by acquire_completion_queue_items.  timer_impl objects           *)
(* (io_uring_timer.hpp) are driven through steady_timer handles, as the   *)
(* examples do: the main thread calls async_wait / cancel and requests    *)
(* stop, and a timer's callback may request stop on the loop thread, as   *)
(* async_wait.cpp's second callback does.                                  *)
(* The remote queue and its eventfd wake-up are those of EventLoop.  No    *)
(* I/O operation is started, so the pending-IO queue stays empty.          *)
(*                                                                         *)
(* The kernel's clock counts ticks of one microsecond, the unit of       *)
(* update_timers' threshold; deadlines and clock readings are the         *)
(* time_points of MonotonicClock.                                         *)
(***************************************************************************)
EXTENDS Integers, Sequences, SequencesExt, FiniteSets, Bitwise, MonotonicClock

CONSTANTS
  Handles,       \* steady_timer objects
  Timers,        \* timer_impl objects the program may allocate
  None,          \* an empty shared_ptr / an unset optional
  StopOp,        \* the stop_operation of run()
  Inactive,      \* the inactive sentinel of the remote queue
  SqEntries,     \* sq_entry_count
  CqEntries,     \* cq_entry_count
  MaxTime,       \* the last instant the clock reaches
  MainScript     \* the main thread's calls, in order: [call, handle, dur, stops]

\* A call of the script; stops: the callback given to async_wait calls
\* source.request_stop().
Calls == [call : {"async_wait", "cancel", "stop", "sleep"}, handle : Handles,
          dur : Nat, stops : BOOLEAN]
ASSUME MainScript \in Seq(Calls)
\* Every async_wait allocates a timer_impl.
ASSUME Cardinality(Timers) >= Len(SelectSeq(MainScript, LAMBDA c : c.call = "async_wait"))

Time == 0..MaxTime

\* The time_points of the instants the clock reaches.
TimePoint == {clock_now(k) : k \in Time}

\* timespec64_to_ktime: the instant, in ticks, the kernel reads from the
\* timespec of a TIMEOUT.
ktime(tp) == tp.seconds * nanoseconds_per_second + tp.nanoseconds

\* timer.expires_at(timer.now() + dur) with the clock read at instant k.
expiry(k, dur) == plus(clock_now(k), dur)

\* The deadline read at instant k plus dur lies within the clock's horizon.
in_horizon(k, dur) == k + dur <= MaxTime

\* timer_operation's state flags.
timer_elapsed_flag == 1
cancel_pending_flag == 2

\* std::chrono::microseconds(1) in update_timers.
threshold == 1

\* SQEs the loop fills, and the CQEs the kernel posts for them.
PollSqe == [kind |-> "poll", due |-> epoch]
TimeoutSqe(d) == [kind |-> "timeout", due |-> d]
RemoveSqe == [kind |-> "remove", due |-> epoch]
Sqes == {PollSqe, RemoveSqe} \cup {TimeoutSqe(d) : d \in TimePoint}
\* errno values; a CQE's res is 0 or a negated errno.
ETIME == 62
ECANCELED == 125
ENOENT == 2
WakeCqe == [ud |-> "wake", due |-> epoch, res |-> 1]   \* POLLIN
TimerCqe(d, r) == [ud |-> "timer", due |-> d, res |-> r]
RemoveCqe(r) == [ud |-> "remove", due |-> epoch, res |-> r]

VARIABLES
  pc,                           \* where the loop thread is in run_impl
  local_queue, batch,
  remote_head, signals_owed, event_fd,
  sq,                           \* SQEs filled, not yet submitted
  poll_armed,                   \* the eventfd POLL_ADD is in the kernel
  kernel_timeouts,              \* deadlines of TIMEOUTs in the kernel, oldest first
  cq,                           \* CQEs posted, not yet reaped
  sq_unflushed_count, cq_pending_count,
  remote_queue_read_submitted,
  should_stop, stop_requested,
  timers,                       \* the timer list, head first
  timers_are_dirty,
  current_duetime,              \* the armed deadline, or None
  active_timer_count,
  now,                          \* monotonic_clock::now()
  due,                          \* timer_operation::duetime
  state,                        \* timer_operation::state
  execute_,                     \* operation_base::execute_
  mi,                           \* the main thread's position in MainScript
  mpc,                          \* where the main thread is in a steady_timer call
  p,                            \* steady_timer::p of each handle
  duetime,                      \* steady_timer::duetime of each handle
  owner,                        \* the steady_timer that allocated each timer_impl
  requests_stop,                \* the callback of each timer_impl calls source.request_stop()
  used,                         \* timer_impl objects allocated so far
  freed,                        \* timer_impl objects destroyed by replacing p
  receiver_calls,               \* history: receiver invocations per timer
  result,                       \* history: the last result a receiver got
  cancel_won,                   \* history: a cancel found the timer not elapsed
  cancelled_early,              \* history: cancel() ran while p held this waiting timer
  heap_misuse                   \* history: remove() was called on an unlinked timer

loop_vars == <<pc, local_queue, batch, sq_unflushed_count, cq_pending_count,
               remote_queue_read_submitted, should_stop>>
ring_vars == <<sq, poll_armed, kernel_timeouts, cq>>
remote_vars == <<remote_head, signals_owed, event_fd, stop_requested>>
timer_vars == <<timers, timers_are_dirty, current_duetime, active_timer_count>>
op_vars == <<due, state, execute_>>
user_vars == <<mi, mpc, p, duetime, owner, requests_stop, used, freed>>
hist_vars == <<receiver_calls, result, cancel_won, cancelled_early, heap_misuse>>
vars == <<loop_vars, ring_vars, remote_vars, timer_vars, now, op_vars,
          user_vars, hist_vars>>

Handlers == {"unset", "on_schedule_complete", "on_timeout", "on_cancel",
             "remove_timer"}

-----------------------------------------------------------------------------
(* Ring accounting: submit_io's capacity checks, k SQEs into this step.    *)

pending_operation_count == cq_pending_count + sq_unflushed_count

\* Mutant: the CQE budget check admits one SQE too many.
has_room_overcommit(k) ==
  /\ pending_operation_count + k <= CqEntries
  /\ Len(sq) + k < SqEntries

has_room(k) ==
  /\ pending_operation_count + k < CqEntries
  /\ Len(sq) + k < SqEntries

-----------------------------------------------------------------------------
(* intrusive_heap: the timer list, sorted by duetime.                      *)

\* insert(): in front of the head if strictly earlier, otherwise after the
\* last of the run of items from the head whose key is <= the new key.
heap_insert(h, t, key) ==
  LET k == IF h = <<>> \/ less(key[t], key[h[1]]) THEN 0
           ELSE Max({j \in 1..Len(h) : \A i \in 2..j : less_eq(key[h[i]], key[t])})
  IN SubSeq(h, 1, k) \o <<t>> \o SubSeq(h, k + 1, Len(h))

\* The number of items update_timers pops: the run from the head due by now.
due_run(h, t_now) ==
  Max({0} \cup {j \in 1..Len(h) : \A i \in 1..j : less_eq(due[h[i]], t_now)})

\* remove(): unlink t through its prev and next pointers (the caller
\* records, as heap_misuse, a removal of a t that is not linked).
heap_remove(h, t) == Remove(h, t)

\* context.remove_timer(op): the list is dirty if op was its top.
removes_top(h, t) == h # <<>> /\ h[1] = t

-----------------------------------------------------------------------------
(* The remote queue (atomic_intrusive_queue), as in EventLoop.             *)

\* enqueue(op) pushes op as the new head of the chain (newest first), and
\* the eventfd write it makes schedule_remote owe.
schedule_remote(op) ==
  IF remote_head = Inactive
  THEN /\ remote_head' = <<op>>
       /\ signals_owed' = signals_owed + 1
  ELSE /\ remote_head' = <<op>> \o remote_head
       /\ UNCHANGED signals_owed

\* dequeue_all / mark_inactive_or_dequeue_all: make_reversed of the chain.
dequeue_all == Reverse(remote_head)

-----------------------------------------------------------------------------
(* A timer's receiver.  h, lq, dirty and misuse are the timer list, local  *)
(* queue, timers_are_dirty and heap_misuse the handler leaves before       *)
(* calling it; run is the timer whose receiver is running.                 *)

\* receiver(ec) of timer run: timer_impl::async_wait's lambda calls the
\* program's callback f(ec).  The examples' callbacks print, and the last
\* one of async_wait.cpp calls source.request_stop() on the loop thread:
\* unless stop was already requested, run()'s stop callback upon_stop
\* runs inline and schedule_impl(&stop_op) is schedule_local there.
receiver(run, res, h, lq, dirty, misuse) ==
  /\ receiver_calls' = [receiver_calls EXCEPT ![run] = @ + 1]
  /\ result' = [result EXCEPT ![run] = res]
  /\ timers' = h
  /\ timers_are_dirty' = dirty
  /\ heap_misuse' = misuse
  /\ IF requests_stop[run] /\ ~stop_requested
     THEN /\ local_queue' = Append(lq, StopOp)
          /\ stop_requested' = TRUE
     ELSE /\ local_queue' = lq
          /\ UNCHANGED stop_requested
  /\ UNCHANGED <<due, execute_, user_vars, cancel_won, cancelled_early>>

-----------------------------------------------------------------------------
(* timer_impl's handlers, as execute_pending_local calls them.             *)

\* context.insert_timer(t): the list is dirty if t became its top.
insert_timer(t) ==
  LET h == heap_insert(timers, t, due) IN
  /\ timers' = h
  /\ timers_are_dirty' = (timers_are_dirty \/ h[1] = t)

\* on_schedule_complete -> start_local: execute_ = on_timeout; insert_timer.
start_local(t) ==
  /\ insert_timer(t)
  /\ execute_' = [execute_ EXCEPT ![t] = "on_timeout"]
  /\ UNCHANGED <<local_queue, stop_requested, due, user_vars, hist_vars>>

\* remove_timer (the remote cancel message): unlink the timer unless it has
\* elapsed, then report ECANCELED.
remove_timer(t) ==
  LET rm == (state[t] & timer_elapsed_flag) = 0 IN
  receiver(t, "cancelled",
           IF rm THEN heap_remove(timers, t) ELSE timers,
           local_queue,
           timers_are_dirty \/ (rm /\ removes_top(timers, t)),
           heap_misuse \/ (rm /\ t \notin Range(timers)))

run_handler(t) ==
  CASE execute_[t] = "on_schedule_complete" -> start_local(t)
    [] execute_[t] = "on_timeout" ->
         receiver(t, "value", timers, local_queue, timers_are_dirty, heap_misuse)
    [] execute_[t] = "on_cancel" ->
         receiver(t, "cancelled", timers, local_queue, timers_are_dirty, heap_misuse)
    [] execute_[t] = "remove_timer" -> remove_timer(t)

-----------------------------------------------------------------------------
(* update_timers: after popping the due run, reconcile the kernel timeout  *)
(* with the new head.  The result is the SQEs filled, the armed deadline   *)
(* and timers_are_dirty; each fill passes submit_io's checks first.        *)

\* Mutant: after a successful TIMEOUT_REMOVE whose replacement TIMEOUT could
\* not be submitted, current_duetime is not reset.
arm_plan_keeps_current(h) ==
  IF h = <<>>
  THEN IF current_duetime # None /\ has_room(0)
       THEN [sqes |-> <<RemoveSqe>>, cur |-> None, dirty |-> FALSE]
       ELSE [sqes |-> <<>>, cur |-> current_duetime, dirty |-> timers_are_dirty]
  ELSE LET e == due[h[1]] IN
       CASE current_duetime = None ->
              IF has_room(0) THEN [sqes |-> <<TimeoutSqe(e)>>, cur |-> e, dirty |-> FALSE]
              ELSE [sqes |-> <<>>, cur |-> None, dirty |-> timers_are_dirty]
         [] less(e, minus(current_duetime, threshold)) ->
              IF ~has_room(0) THEN [sqes |-> <<>>, cur |-> current_duetime, dirty |-> timers_are_dirty]
              ELSE IF has_room(1) THEN [sqes |-> <<RemoveSqe, TimeoutSqe(e)>>, cur |-> e, dirty |-> FALSE]
              ELSE [sqes |-> <<RemoveSqe>>, cur |-> current_duetime, dirty |-> timers_are_dirty]
         [] OTHER -> [sqes |-> <<>>, cur |-> current_duetime, dirty |-> FALSE]

arm_plan(h) ==
  IF h = <<>>
  THEN IF current_duetime # None /\ has_room(0)
       THEN [sqes |-> <<RemoveSqe>>, cur |-> None, dirty |-> FALSE]
       ELSE [sqes |-> <<>>, cur |-> current_duetime, dirty |-> timers_are_dirty]
  ELSE LET e == due[h[1]] IN
       CASE current_duetime = None ->
              IF has_room(0) THEN [sqes |-> <<TimeoutSqe(e)>>, cur |-> e, dirty |-> FALSE]
              ELSE [sqes |-> <<>>, cur |-> None, dirty |-> timers_are_dirty]
         [] less(e, minus(current_duetime, threshold)) ->
              IF ~has_room(0) THEN [sqes |-> <<>>, cur |-> current_duetime, dirty |-> timers_are_dirty]
              ELSE IF has_room(1) THEN [sqes |-> <<RemoveSqe, TimeoutSqe(e)>>, cur |-> e, dirty |-> FALSE]
              ELSE [sqes |-> <<RemoveSqe>>, cur |-> None, dirty |-> timers_are_dirty]
         [] OTHER -> [sqes |-> <<>>, cur |-> current_duetime, dirty |-> FALSE]

\* Mutant: an elapsing timer is delivered even if a cancel is pending.
skips_cancelled_ignored(t) == FALSE

\* update_timers' loop: the fetch_add of timer_elapsed_flag returned a
\* state with cancel_pending_flag, so the timer is dropped.
skips_cancelled(t) == (state[t] & cancel_pending_flag) # 0

\* if (timers_are_dirty) update_timers();
UpdateTimers ==
  /\ pc = "timers"
  /\ pc' = "remote"
  /\ IF ~timers_are_dirty
     THEN UNCHANGED <<local_queue, sq, sq_unflushed_count, timer_vars, state>>
     ELSE LET k      == due_run(timers, clock_now(now))
              popped == SubSeq(timers, 1, k)
              h      == SubSeq(timers, k + 1, Len(timers))
              plan   == arm_plan(h)
          IN /\ timers' = h
             /\ state' = [t \in Timers |->
                            IF t \in Range(popped) THEN state[t] + timer_elapsed_flag
                            ELSE state[t]]
             /\ local_queue' = local_queue \o
                                 SelectSeq(popped, LAMBDA t : ~skips_cancelled(t))
             /\ sq' = sq \o plan.sqes
             /\ sq_unflushed_count' = sq_unflushed_count + Len(plan.sqes)
             /\ current_duetime' = plan.cur
             /\ timers_are_dirty' = plan.dirty
             /\ active_timer_count' =
                  active_timer_count + Len(SelectSeq(plan.sqes, LAMBDA e : e.kind = "timeout"))
  /\ UNCHANGED <<batch, cq_pending_count, remote_queue_read_submitted,
                 should_stop, poll_armed, kernel_timeouts, cq, remote_vars, now,
                 due, execute_, user_vars, hist_vars>>

-----------------------------------------------------------------------------
(* The loop thread: the other steps of run_impl.                           *)

ExecutePendingLocal ==
  /\ pc = "tick"
  /\ batch' = local_queue
  /\ local_queue' = <<>>
  /\ pc' = "exec"
  /\ UNCHANGED <<sq_unflushed_count, cq_pending_count, remote_queue_read_submitted,
                 should_stop, ring_vars, remote_vars, timer_vars, now, op_vars,
                 user_vars, hist_vars>>

\* item->execute_(item) for the next item of the snapshot.
ExecuteItem ==
  /\ pc = "exec"
  /\ batch # <<>>
  /\ batch' = Tail(batch)
  /\ IF Head(batch) = StopOp
     THEN /\ should_stop' = TRUE
          /\ UNCHANGED <<local_queue, stop_requested, timer_vars, op_vars,
                         user_vars, hist_vars>>
     ELSE /\ run_handler(Head(batch))
          /\ UNCHANGED <<should_stop, current_duetime, active_timer_count, state>>
  /\ UNCHANGED <<pc, sq_unflushed_count, cq_pending_count,
                 remote_queue_read_submitted, ring_vars, remote_head,
                 signals_owed, event_fd, now>>

Stop ==
  /\ pc = "exec"
  /\ batch = <<>>
  /\ should_stop
  /\ pc' = "stopped"
  /\ UNCHANGED <<local_queue, batch, sq_unflushed_count, cq_pending_count,
                 remote_queue_read_submitted, should_stop, ring_vars,
                 remote_vars, timer_vars, now, op_vars, user_vars, hist_vars>>

\* Mutant: the remove ack (remove_timer_user_data) is taken for a timer
\* CQE (timer_user_data).
timer_cqes_with_acks == Len(SelectSeq(cq, LAMBDA e : e.ud # "wake"))

\* The CQEs that carry timer_user_data().
timer_cqes == Len(SelectSeq(cq, LAMBDA e : e.ud = "timer"))

\* Mutant: current_duetime is kept when the last TIMEOUT completes.
current_after_reap_kept(fired) == current_duetime

\* if (active_timer_count == 0) current_duetime.reset();
current_after_reap(fired) ==
  IF fired > 0 /\ active_timer_count = fired THEN None ELSE current_duetime

\* Mutant: the wake CQE leaves remote_queue_read_submitted set.
read_submitted_after_reap_kept(wake) == remote_queue_read_submitted

read_submitted_after_reap(wake) == remote_queue_read_submitted /\ ~wake

\* acquire_completion_queue_items: a wake CQE reads the eventfd and clears
\* remote_queue_read_submitted; a timer CQE decrements active_timer_count,
\* dirties the timers unless its res equals ECANCELED (the kernel reports
\* -ECANCELED, so every timer CQE dirties them) and forgets the armed
\* deadline once no TIMEOUT is outstanding; a remove ack is ignored.
AcquireCompletionQueueItems ==
  /\ pc = "exec"
  /\ batch = <<>>
  /\ ~should_stop
  /\ LET wake   == WakeCqe \in Range(cq)
         fired  == timer_cqes
         dirty  == \E i \in 1..Len(cq) : cq[i].ud = "timer" /\ cq[i].res # ECANCELED
     IN /\ event_fd' = IF wake THEN 0 ELSE event_fd
        /\ remote_queue_read_submitted' = read_submitted_after_reap(wake)
        /\ active_timer_count' = active_timer_count - fired
        /\ timers_are_dirty' = (timers_are_dirty \/ dirty)
        /\ current_duetime' = current_after_reap(fired)
  /\ cq' = <<>>
  /\ cq_pending_count' = cq_pending_count - Len(cq)
  /\ pc' = "timers"
  /\ UNCHANGED <<local_queue, batch, sq_unflushed_count, should_stop, sq,
                 poll_armed, kernel_timeouts, remote_head, signals_owed,
                 stop_requested, timers, now, op_vars, user_vars, hist_vars>>

\* if (!remote_queue_read_submitted) acquire_remote_queued_items();
AcquireRemoteQueuedItems ==
  /\ pc = "remote"
  /\ IF remote_queue_read_submitted
     THEN UNCHANGED <<local_queue, remote_head>>
     ELSE /\ local_queue' = local_queue \o dequeue_all
          /\ remote_head' = <<>>
  /\ pc' = "enter"
  /\ UNCHANGED <<batch, sq_unflushed_count, cq_pending_count,
                 remote_queue_read_submitted, should_stop, ring_vars,
                 signals_owed, event_fd, stop_requested, timer_vars, now,
                 op_vars, user_vars, hist_vars>>

\* The kernel consumes one SQE at io_uring_enter: a POLL_ADD is armed, a
\* TIMEOUT is queued, and a TIMEOUT_REMOVE cancels the oldest outstanding
\* TIMEOUT (which completes with -ECANCELED) or fails with -ENOENT.
submit_sqe(k, e) ==
  CASE e.kind = "poll" -> [k EXCEPT !.poll = TRUE]
    [] e.kind = "timeout" -> [k EXCEPT !.kt = Append(@, e.due)]
    [] e.kind = "remove" ->
         IF k.kt = <<>>
         THEN [k EXCEPT !.cq = Append(@, RemoveCqe(-ENOENT))]
         ELSE [k EXCEPT !.kt = Tail(@),
                        !.cq = @ \o <<TimerCqe(Head(k.kt), -ECANCELED), RemoveCqe(0)>>]

kernel_after(sqes) ==
  FoldLeft(submit_sqe, [poll |-> poll_armed, kt |-> kernel_timeouts, cq |-> cq], sqes)

\* The end of run_impl's loop body, as in EventLoop: register the eventfd
\* POLL_ADD when idle, decide whether to block, io_uring_enter.
EnterRing ==
  /\ pc = "enter"
  /\ IF local_queue = <<>> \/ sq_unflushed_count > 0
     THEN LET is_idle  == sq_unflushed_count = 0 /\ local_queue = <<>>
              register == is_idle /\ ~remote_queue_read_submitted
              fill_ran == register /\ has_room(0)
              marked   == fill_ran /\ remote_head = <<>>
              drained  == fill_ran /\ remote_head # <<>>
              new_sq   == IF marked THEN Append(sq, PollSqe) ELSE sq
              submitted_flag == IF register THEN marked ELSE remote_queue_read_submitted
              block    == is_idle /\ (submitted_flag \/ cq_pending_count + Len(new_sq) = CqEntries)
              k        == kernel_after(new_sq)
          IN /\ remote_head' = IF marked THEN Inactive
                               ELSE IF drained THEN <<>> ELSE remote_head
             /\ local_queue' = IF drained THEN local_queue \o dequeue_all ELSE local_queue
             /\ remote_queue_read_submitted' = submitted_flag
             /\ poll_armed' = k.poll
             /\ kernel_timeouts' = k.kt
             /\ cq' = k.cq
             /\ sq' = <<>>
             /\ sq_unflushed_count' = 0
             /\ cq_pending_count' = cq_pending_count + Len(new_sq)
             /\ pc' = IF block THEN "wait" ELSE "tick"
     ELSE /\ pc' = "tick"
          /\ UNCHANGED <<remote_head, local_queue, remote_queue_read_submitted,
                         ring_vars, sq_unflushed_count, cq_pending_count>>
  /\ UNCHANGED <<batch, should_stop, signals_owed, event_fd, stop_requested,
                 timer_vars, now, op_vars, user_vars, hist_vars>>

\* io_uring_enter with IORING_ENTER_GETEVENTS returns once a CQE is posted.
WaitCompletion ==
  /\ pc = "wait"
  /\ cq # <<>>
  /\ pc' = "tick"
  /\ UNCHANGED <<local_queue, batch, sq_unflushed_count, cq_pending_count,
                 remote_queue_read_submitted, should_stop, ring_vars,
                 remote_vars, timer_vars, now, op_vars, user_vars, hist_vars>>

-----------------------------------------------------------------------------
(* The kernel and the clock.                                               *)

\* An outstanding TIMEOUT whose deadline has passed completes with -ETIME.
KernelTimeout(i) ==
  /\ i \in 1..Len(kernel_timeouts)
  /\ ktime(kernel_timeouts[i]) <= now
  /\ kernel_timeouts' = RemoveAt(kernel_timeouts, i)
  /\ cq' = Append(cq, TimerCqe(kernel_timeouts[i], -ETIME))
  /\ UNCHANGED <<loop_vars, sq, poll_armed, remote_vars, timer_vars, now,
                 op_vars, user_vars, hist_vars>>

\* The POLL_ADD completes once the eventfd is readable.
KernelPoll ==
  /\ poll_armed
  /\ event_fd > 0
  /\ poll_armed' = FALSE
  /\ cq' = Append(cq, WakeCqe)
  /\ UNCHANGED <<loop_vars, sq, kernel_timeouts, remote_vars, timer_vars, now,
                 op_vars, user_vars, hist_vars>>

Tick ==
  /\ now < MaxTime
  /\ now' = now + 1
  /\ UNCHANGED <<loop_vars, ring_vars, remote_vars, timer_vars, op_vars,
                 user_vars, hist_vars>>

-----------------------------------------------------------------------------
(* The main thread runs MainScript against one steady_timer.               *)

\* The handle the call in progress works on.
this_handle == MainScript[mi - 1].handle

\* steady_timer::cancel() off the loop thread: if the context's timer list
\* is not empty and p is set, request_stop_remote fetch_adds
\* cancel_pending_flag; if the old state had not elapsed, the thread goes
\* on to post the remove message (to_enqueue), else to after.
main_cancel(s, to_enqueue, after) ==
  LET t       == p[s]
      cancels == timers # <<>> /\ t # None
      enq     == cancels /\ (state[t] & timer_elapsed_flag) = 0
  IN /\ state' = IF cancels THEN [state EXCEPT ![t] = @ + cancel_pending_flag]
                 ELSE state
     /\ cancel_won' = IF enq THEN [cancel_won EXCEPT ![t] = TRUE] ELSE cancel_won
     /\ cancelled_early' =
          IF t # None /\ receiver_calls[t] = 0 /\ now < ktime(due[t])
          THEN [cancelled_early EXCEPT ![t] = TRUE] ELSE cancelled_early
     /\ mpc' = IF enq THEN to_enqueue ELSE after

\* The next call of the script: expires_at(now() + dur) then async_wait,
\* whose first step is cancel().
MainAsyncWait ==
  /\ mpc = "idle"
  /\ mi <= Len(MainScript) /\ MainScript[mi].call = "async_wait"
  /\ mi' = mi + 1
  /\ in_horizon(now, MainScript[mi].dur)
  /\ LET s == MainScript[mi].handle IN
       /\ duetime' = [duetime EXCEPT ![s] = expiry(now, MainScript[mi].dur)]
       /\ main_cancel(s, "aw_enqueue", "aw_new")
  /\ UNCHANGED <<loop_vars, ring_vars, remote_vars, timer_vars, now, due,
                 execute_, p, owner, requests_stop, used, freed, receiver_calls,
                 result, heap_misuse>>

MainCancel ==
  /\ mpc = "idle"
  /\ mi <= Len(MainScript) /\ MainScript[mi].call = "cancel"
  /\ mi' = mi + 1
  /\ main_cancel(MainScript[mi].handle, "c_enqueue", "idle")
  /\ UNCHANGED <<loop_vars, ring_vars, remote_vars, timer_vars, now, due,
                 execute_, p, duetime, owner, requests_stop, used, freed,
                 receiver_calls, result, heap_misuse>>

\* request_stop_remote, second half: execute_ = remove_timer and
\* schedule_remote(this).
MainEnqueueRemove ==
  /\ mpc \in {"aw_enqueue", "c_enqueue"}
  /\ LET t == p[this_handle] IN
       /\ execute_' = [execute_ EXCEPT ![t] = "remove_timer"]
       /\ schedule_remote(t)
  /\ mpc' = IF mpc = "aw_enqueue" THEN "aw_new" ELSE "idle"
  /\ UNCHANGED <<loop_vars, ring_vars, event_fd, stop_requested, timer_vars,
                 now, due, state, mi, p, duetime, owner, requests_stop, used, freed,
                 hist_vars>>

\* p = std::make_shared<timer_impl>(context, duetime), destroying the old
\* timer_impl; then start() off the loop thread: start_remote sets
\* execute_ = on_schedule_complete and calls schedule_remote.
MainStartTimer ==
  /\ mpc = "aw_new"
  /\ LET s == this_handle
         t == CHOOSE x \in Timers : ~used[x]
     IN /\ p' = [p EXCEPT ![s] = t]
        /\ owner' = [owner EXCEPT ![t] = s]
        /\ used' = [used EXCEPT ![t] = TRUE]
        /\ freed' = [x \in Timers |-> freed[x] \/ x = p[s]]
        /\ due' = [due EXCEPT ![t] = duetime[s]]
        /\ requests_stop' = [requests_stop EXCEPT ![t] = MainScript[mi - 1].stops]
        /\ execute_' = [execute_ EXCEPT ![t] = "on_schedule_complete"]
        /\ schedule_remote(t)
  /\ mpc' = "idle"
  /\ UNCHANGED <<loop_vars, ring_vars, event_fd, stop_requested, timer_vars,
                 now, state, mi, duetime, hist_vars>>

\* inplace_stop_source::request_stop off the loop thread: unless a timer's
\* callback has already requested stop, run()'s stop callback calls
\* schedule_impl(&stop_op), which is schedule_remote here.
RequestStop ==
  /\ mpc = "idle"
  /\ mi <= Len(MainScript) /\ MainScript[mi].call = "stop"
  /\ mi' = mi + 1
  /\ IF stop_requested
     THEN UNCHANGED <<stop_requested, remote_head, signals_owed>>
     ELSE /\ stop_requested' = TRUE
          /\ schedule_remote(StopOp)
  /\ UNCHANGED <<loop_vars, ring_vars, event_fd, timer_vars, now, op_vars,
                 mpc, p, duetime, owner, requests_stop, used, freed, hist_vars>>

\* std::this_thread::sleep_for in the examples: long enough for the loop to
\* have taken in every timer started from this thread.
MainSleep ==
  /\ mpc = "idle"
  /\ mi <= Len(MainScript) /\ MainScript[mi].call = "sleep"
  /\ \A s \in Handles : p[s] = None \/ execute_[p[s]] # "on_schedule_complete"
  /\ mi' = mi + 1
  /\ UNCHANGED <<loop_vars, ring_vars, remote_vars, timer_vars, now, op_vars,
                 mpc, p, duetime, owner, requests_stop, used, freed, hist_vars>>

\* signal_remote_queue: the eventfd write schedule_remote owes.
SignalRemoteQueue ==
  /\ signals_owed > 0
  /\ signals_owed' = signals_owed - 1
  /\ event_fd' = event_fd + 1
  /\ UNCHANGED <<loop_vars, ring_vars, remote_head, stop_requested,
                 timer_vars, now, op_vars, user_vars, hist_vars>>

-----------------------------------------------------------------------------

Init ==
  /\ pc = "tick"
  /\ local_queue = <<>> /\ batch = <<>>
  /\ remote_head = <<>> /\ signals_owed = 0 /\ event_fd = 0
  /\ sq = <<>> /\ poll_armed = FALSE /\ kernel_timeouts = <<>> /\ cq = <<>>
  /\ sq_unflushed_count = 0 /\ cq_pending_count = 0
  /\ remote_queue_read_submitted = FALSE
  /\ should_stop = FALSE /\ stop_requested = FALSE
  /\ timers = <<>> /\ timers_are_dirty = FALSE
  /\ current_duetime = None /\ active_timer_count = 0
  /\ now = 0
  /\ due = [t \in Timers |-> epoch]
  /\ state = [t \in Timers |-> 0]
  /\ execute_ = [t \in Timers |-> "unset"]
  /\ mi = 1 /\ mpc = "idle"
  /\ requests_stop = [t \in Timers |-> FALSE]
  /\ p = [s \in Handles |-> None]
  /\ duetime = [s \in Handles |-> epoch]
  /\ owner = [t \in Timers |-> None]
  /\ used = [t \in Timers |-> FALSE]
  /\ freed = [t \in Timers |-> FALSE]
  /\ receiver_calls = [t \in Timers |-> 0]
  /\ result = [t \in Timers |-> "none"]
  /\ cancel_won = [t \in Timers |-> FALSE]
  /\ cancelled_early = [t \in Timers |-> FALSE]
  /\ heap_misuse = FALSE

LoopStep ==
  \/ ExecutePendingLocal
  \/ ExecuteItem
  \/ Stop
  \/ AcquireCompletionQueueItems
  \/ UpdateTimers
  \/ AcquireRemoteQueuedItems
  \/ EnterRing
  \/ WaitCompletion

MainStep ==
  \/ MainAsyncWait
  \/ MainCancel
  \/ MainEnqueueRemove
  \/ MainStartTimer
  \/ RequestStop
  \/ MainSleep

Returned ==
  /\ pc = "stopped"
  /\ UNCHANGED vars

\* Asleep in io_uring_enter with no CQE to wake the loop.
Sleeping ==
  /\ pc = "wait"
  /\ cq = <<>>
  /\ UNCHANGED vars

Next ==
  \/ LoopStep
  \/ Sleeping
  \/ Returned
  \/ \E i \in 1..Len(kernel_timeouts) : KernelTimeout(i)
  \/ KernelPoll
  \/ Tick
  \/ MainStep
  \/ SignalRemoteQueue

\* The loop thread, the kernel and the clock keep going; the main thread
\* finishes a call it has begun and the signal it owes, but need not start
\* its next call.
Fairness ==
  /\ WF_vars(LoopStep)
  /\ WF_vars(\E i \in 1..Len(kernel_timeouts) : KernelTimeout(i))
  /\ WF_vars(KernelPoll)
  /\ WF_vars(Tick)
  /\ WF_vars(MainEnqueueRemove)
  /\ WF_vars(MainStartTimer)
  /\ WF_vars(SignalRemoteQueue)

Spec == Init /\ [][Next]_vars /\ Fairness

-----------------------------------------------------------------------------
(* Properties.                                                             *)

TypeOK ==
  /\ pc \in {"tick", "exec", "timers", "remote", "enter", "wait", "stopped"}
  /\ local_queue \in Seq(Timers \cup {StopOp})
  /\ batch \in Seq(Timers \cup {StopOp})
  /\ remote_head \in Seq(Timers \cup {StopOp}) \cup {Inactive}
  /\ signals_owed \in Nat /\ event_fd \in Nat
  /\ sq \in Seq(Sqes) /\ poll_armed \in BOOLEAN
  /\ kernel_timeouts \in Seq(TimePoint)
  /\ sq_unflushed_count \in Nat /\ cq_pending_count \in Nat
  /\ timers \in Seq(Timers)
  /\ current_duetime \in TimePoint \cup {None}
  /\ active_timer_count \in Nat
  /\ now \in Time
  /\ due \in [Timers -> TimePoint] /\ state \in [Timers -> Nat]
  /\ execute_ \in [Timers -> Handlers]
  /\ p \in [Handles -> Timers \cup {None}]
  /\ receiver_calls \in [Timers -> Nat]
  /\ result \in [Timers -> {"none", "value", "cancelled"}]

\* The items linked through operation_base::next: the remote chain, the
\* local queue and the snapshot being executed.
linked == (IF remote_head = Inactive THEN <<>> ELSE remote_head) \o local_queue \o batch

\* The ring counters match the rings once timers take part: TIMEOUT and
\* TIMEOUT_REMOVE SQEs pass the same CQE budget as any other, and a
\* removal's two CQEs (the cancelled TIMEOUT and the ack) never overflow it.
TimerRingBudget ==
  /\ sq_unflushed_count = Len(sq)
  /\ cq_pending_count = (IF poll_armed THEN 1 ELSE 0) + Len(kernel_timeouts) + Len(cq)
  /\ Len(sq) + cq_pending_count <= CqEntries

\* active_timer_count counts the TIMEOUTs filled, outstanding or completed
\* but not reaped; and whenever update_timers believes a deadline is armed
\* (current_duetime), a TIMEOUT for it survives the TIMEOUT_REMOVEs already
\* queued, or it has fired and its CQE is waiting: the loop never relies on
\* a kernel timeout that is gone.
ArmedDeadlineBacked ==
  /\ active_timer_count =
       Len(SelectSeq(sq, LAMBDA e : e.kind = "timeout")) + Len(kernel_timeouts)
         + Len(SelectSeq(cq, LAMBDA e : e.ud = "timer"))
  /\ current_duetime # None =>
       \/ current_duetime \in Range(kernel_after(sq).kt)
       \/ TimerCqe(current_duetime, -ETIME) \in Range(cq)

\* The elapse/cancel race of update_timers and request_stop_remote is
\* decided once: each timer's receiver runs at most once, and never with
\* success after a cancel found the timer not yet elapsed.
TimerResultOnce ==
  \A t \in Timers :
    /\ receiver_calls[t] <= 1
    /\ result[t] = "value" => ~cancel_won[t]

\* update_timers hands a timer to its receiver with success only once the
\* clock has reached its deadline: the comparisons of time_points in
\* intrusive_heap::insert and update_timers' duetime <= now agree with the
\* instant the kernel reads from the timespec, across the carries of
\* operator+ in expires_at(now() + dur).
TimerNotEarly ==
  \A t \in Timers : result[t] = "value" => ktime(due[t]) <= now

\* An operation is linked into at most one intrusive queue at a time, once
\* (a second enqueue or push_back of a linked node makes a cycle or cuts
\* the chain), and intrusive_heap::remove is only applied to a timer in
\* the list (its stale prev/next would be written through otherwise).
IntrusiveLinksSound ==
  /\ IsInjective(linked)
  /\ ~heap_misuse

\* A timer_impl destroyed by steady_timer::async_wait's p = make_shared
\* is no longer reachable from the loop: not in the timer list, not in
\* the local queue, the executing snapshot or the remote queue.
NoUseAfterFree ==
  \A t \in Timers : freed[t] => t \notin Range(timers) \cup Range(linked)

\* steady_timer::cancel() issued before the deadline makes the pending
\* wait's callback report a cancellation, never success.
CancelReported ==
  \A t \in Timers : cancelled_early[t] => result[t] # "value"

\* Every timer_impl started has its receiver invoked unless run() returns:
\* the single kernel TIMEOUT is always re-armed for the earliest timer.
TimerCompletes ==
  \A t \in Timers : used[t] ~> (receiver_calls[t] > 0 \/ pc = "stopped")

\* A stop request makes run() return.
StopHonoured == stop_requested ~> pc = "stopped"
=============================================================================
