----------------------------- MODULE StopToken -----------------------------
(* inplace_stop_source, inplace_stop_token and inplace_stop_callback       *)
(* (src/include/inplace_stop_token.hpp).  Threads run scripts of calls:   *)
(* construct a callback (register_callback / add_callback), destroy it     *)
(* (remove_callback), request_stop.  The source's state byte is a spin     *)
(* lock (locked_flag) with the stop_requested_flag; the callback list is   *)
(* a sequence, head first.  Every step that another thread can observe is  *)
(* an action of its own: request_stop releases the lock around each        *)
(* callback, so it is split at each unlock and at each write to a          *)
(* callback node made without the lock.                                    *)
EXTENDS Integers, Sequences, SequencesExt, FiniteSets, Bitwise

CONSTANTS
  Threads,       \* the threads that use the source
  Callbacks,     \* the inplace_stop_callback objects
  None,          \* nullptr / no thread
  Script,        \* Script[t]: the calls thread t makes, in order
  SelfRemoving   \* callbacks whose body destroys their own callback object

Calls == [op : {"register", "destroy", "stop"}, cb : Callbacks \cup {None}]

ASSUME /\ None \notin Threads \cup Callbacks
       /\ \A t \in Threads : Script[t] \in Seq(Calls)
       /\ SelfRemoving \subseteq Callbacks

locked_flag == 2
stop_requested_flag == 1

VARIABLES
  state,               \* inplace_stop_source::state
  callbacks,           \* the callback list, head first
  notifying_thread_id, \* inplace_stop_source::notifying_thread_id
  prev_ptr,            \* prev_ptr[c]: callback->prev_ptr != nullptr
  source_set,          \* source_set[c]: callback->source != nullptr
  rdc,                 \* rdc[c]: whose request_stop local removed_during_callback points to
  callback_completed,  \* callback->callback_completed
  tpc,                 \* per thread: where it is in its current call
  ti,                  \* per thread: index of the current call in Script[t]
  cur,                 \* per thread: the callback request_stop is delivering
  removed,             \* per thread: request_stop's local removed_during_callback
  ret,                 \* per thread: where a spinning remove_callback returns to
  executed,            \* history: how often each callback's body ran
  running,             \* history: the callbacks whose body is executing
  freed,               \* history: the callback objects destroyed
  registered,          \* history: the callbacks whose constructor returned
  uaf                  \* history: a destroyed callback node was accessed

src_vars == <<state, callbacks, notifying_thread_id>>
cb_vars == <<prev_ptr, source_set, rdc, callback_completed>>
thr_vars == <<tpc, ti, cur, removed, ret>>
hist_vars == <<executed, running, freed, registered, uaf>>
vars == <<src_vars, cb_vars, thr_vars, hist_vars>>

\* The call thread t is making.
call(t) == Script[t][ti[t]]

\* A thread's next call, or "done".
next_call(t) == IF ti[t] < Len(Script[t]) THEN "call" ELSE "done"

finish(t) == /\ tpc' = [tpc EXCEPT ![t] = next_call(t)]
             /\ ti' = [ti EXCEPT ![t] = @ + 1]

\* An access to the node of callback c.
touch(c) == uaf' = (uaf \/ freed[c])

-----------------------------------------------------------------------------
(* lock() and lock_unless_stop_requested(): the spin loops are the guard.  *)

\* Mutant: lock_unless_stop_requested only waits for the lock to be free.
stop_seen_ignored(s) == FALSE

\* lock_unless_stop_requested fails as soon as it sees stop_requested_flag.
stop_seen(s) == (s & stop_requested_flag) # 0

\* lock() succeeds once locked_flag is clear.
lock_free(s) == (s & locked_flag) = 0

-----------------------------------------------------------------------------
(* remove_callback(c) by thread t, as one step under the lock.  A node     *)
(* still linked is unlinked; otherwise delivery has popped it: on the     *)
(* notifying thread, the node tells request_stop it was removed; on any   *)
(* other thread, the destructor spins on callback_completed.              *)

\* Mutant: the destructor of a popped callback never waits.
must_wait_never(t) == FALSE

\* The destructor must wait for the callback running on another thread.
must_wait(t) == notifying_thread_id # t

remove_callback(t, c, after) ==
  /\ lock_free(state)
  /\ touch(c)
  /\ cur' = [cur EXCEPT ![t] = c]
  /\ IF prev_ptr[c]
     THEN /\ callbacks' = Remove(callbacks, c)
          /\ prev_ptr' = [prev_ptr EXCEPT ![c] = FALSE]
          /\ freed' = [freed EXCEPT ![c] = TRUE]
          /\ tpc' = [tpc EXCEPT ![t] = after]
          /\ UNCHANGED <<removed, ret>>
     ELSE /\ UNCHANGED <<callbacks, prev_ptr>>
          /\ IF must_wait(t)
             THEN /\ tpc' = [tpc EXCEPT ![t] = "rm_wait"]
                  /\ ret' = [ret EXCEPT ![t] = after]
                  /\ UNCHANGED <<removed, freed>>
             ELSE /\ removed' = IF rdc[c] # None
                                THEN [removed EXCEPT ![rdc[c]] = TRUE]
                                ELSE removed
                  /\ freed' = [freed EXCEPT ![c] = TRUE]
                  /\ tpc' = [tpc EXCEPT ![t] = after]
                  /\ UNCHANGED ret

-----------------------------------------------------------------------------
(* The calls a thread makes.                                               *)

\* register_callback when add_callback fails because stop was requested:
\* source = nullptr, then the callback runs inline (a self-removing body
\* ends the callback's lifetime).
execute_inline(c) ==
  /\ source_set' = [source_set EXCEPT ![c] = FALSE]
  /\ executed' = [executed EXCEPT ![c] = @ + 1]
  /\ freed' = IF c \in SelfRemoving THEN [freed EXCEPT ![c] = TRUE] ELSE freed

\* The inplace_stop_callback constructor: register_callback.  add_callback
\* takes the lock unless stop was requested, splices the node at the head
\* and stores 0; if stop was requested, source = nullptr and the callback
\* runs inline (a self-removing one then destroys itself, a no-op since
\* source is null).
Register(t) ==
  /\ tpc[t] = "call" /\ call(t).op = "register"
  /\ LET c == call(t).cb IN
       /\ stop_seen(state) \/ state = 0
       /\ IF stop_seen(state)
          THEN /\ execute_inline(c)
               /\ UNCHANGED <<callbacks, prev_ptr>>
          ELSE /\ callbacks' = <<c>> \o callbacks
               /\ prev_ptr' = [prev_ptr EXCEPT ![c] = TRUE]
               /\ UNCHANGED <<source_set, executed, freed>>
       /\ registered' = [registered EXCEPT ![c] = TRUE]
  /\ finish(t)
  /\ UNCHANGED <<state, notifying_thread_id, rdc, callback_completed, cur,
                 removed, ret, running, uaf>>

\* The destructor: remove_callback if source is set.
Destroy(t) ==
  /\ tpc[t] = "call" /\ call(t).op = "destroy"
  /\ LET c == call(t).cb IN
       IF source_set[c]
       THEN /\ remove_callback(t, c, next_call(t))
            /\ ti' = [ti EXCEPT ![t] = @ + 1]
       ELSE /\ freed' = [freed EXCEPT ![c] = TRUE]
            /\ finish(t)
            /\ UNCHANGED <<callbacks, prev_ptr, cur, removed, ret, uaf>>
  /\ UNCHANGED <<state, notifying_thread_id, source_set, rdc,
                 callback_completed, executed, running, registered>>

\* remove_callback's spin on callback_completed.
RemoveWait(t) ==
  /\ tpc[t] = "rm_wait"
  /\ callback_completed[cur[t]]
  /\ freed' = [freed EXCEPT ![cur[t]] = TRUE]
  /\ tpc' = [tpc EXCEPT ![t] = ret[t]]
  /\ UNCHANGED <<src_vars, cb_vars, ti, cur, removed, ret, executed, running,
                 registered, uaf>>

\* request_stop: lock_unless_stop_requested(true) returns false (request_stop
\* returns at once) if stop was already requested; otherwise it takes the
\* lock with both flags set and records the notifying thread.
RequestStop(t) ==
  /\ tpc[t] = "call" /\ call(t).op = "stop"
  /\ stop_seen(state) \/ state = 0
  /\ IF stop_seen(state)
     THEN /\ finish(t)
          /\ UNCHANGED <<state, notifying_thread_id>>
     ELSE /\ state' = locked_flag + stop_requested_flag
          /\ notifying_thread_id' = t
          /\ tpc' = [tpc EXCEPT ![t] = "rs_loop"]
          /\ UNCHANGED ti
  /\ UNCHANGED <<callbacks, cb_vars, cur, removed, ret, hist_vars>>

\* Mutant: the popped node keeps its prev_ptr.
prev_after_pop_kept(c) == prev_ptr[c]

prev_after_pop(c) == FALSE

\* Mutant: the head is read but not unlinked.
pop_head_kept(l) == l

pop_head(l) == Tail(l)

\* while (callbacks != nullptr): pop the head (its prev_ptr = nullptr, the
\* next node's prev_ptr = &callbacks) and release the lock keeping
\* stop_requested_flag; with the list empty, store stop_requested_flag and
\* return.
RequestStopLoop(t) ==
  /\ tpc[t] = "rs_loop"
  /\ state' = stop_requested_flag
  /\ IF callbacks = <<>>
     THEN /\ finish(t)
          /\ UNCHANGED <<callbacks, prev_ptr, cur, uaf>>
     ELSE LET c == Head(callbacks) IN
          /\ prev_ptr' = [prev_ptr EXCEPT ![c] = prev_after_pop(c)]
          /\ callbacks' = pop_head(callbacks)
          /\ cur' = [cur EXCEPT ![t] = c]
          /\ uaf' = (uaf \/ freed[c] \/
                     (Len(callbacks) > 1 /\ freed[callbacks[2]]))
          /\ tpc' = [tpc EXCEPT ![t] = "rs_set"]
          /\ UNCHANGED ti
  /\ UNCHANGED <<notifying_thread_id, source_set, rdc, callback_completed,
                 removed, ret, executed, running, freed, registered>>

\* removed_during_callback = false; callback->removed_during_callback =
\* &removed_during_callback (written after the lock is released).
RequestStopSet(t) ==
  /\ tpc[t] = "rs_set"
  /\ removed' = [removed EXCEPT ![t] = FALSE]
  /\ rdc' = [rdc EXCEPT ![cur[t]] = t]
  /\ touch(cur[t])
  /\ tpc' = [tpc EXCEPT ![t] = "rs_exec"]
  /\ UNCHANGED <<src_vars, prev_ptr, source_set, callback_completed, ti, cur,
                 ret, executed, running, freed, registered>>

\* callback->execute(): the body starts; a self-removing body destroys its
\* own callback object before it ends.
RequestStopExecute(t) ==
  /\ tpc[t] = "rs_exec"
  /\ LET c == cur[t] IN
       /\ executed' = [executed EXCEPT ![c] = @ + 1]
       /\ running' = running \cup {c}
       /\ touch(c)
       /\ tpc' = [tpc EXCEPT ![t] = IF c \in SelfRemoving THEN "rs_self" ELSE "rs_after"]
  /\ UNCHANGED <<src_vars, cb_vars, ti, cur, removed, ret, freed, registered>>

\* The self-removing body: ~inplace_stop_callback, i.e. remove_callback on
\* the notifying thread.
RequestStopSelfRemove(t) ==
  /\ tpc[t] = "rs_self"
  /\ remove_callback(t, cur[t], "rs_after")
  /\ UNCHANGED <<state, notifying_thread_id, source_set, rdc,
                 callback_completed, ti, executed, running, registered>>

\* Mutant: request_stop publishes completion even if the callback removed
\* itself.
publish_needed_always(t) == TRUE

\* Mutant: request_stop never publishes callback_completed.
publish_needed_never(t) == FALSE

\* if (!removed_during_callback): the node still exists.
publish_needed(t) == ~removed[t]

\* The body has returned: unless it removed itself, the node's
\* removed_during_callback = nullptr (line 94); otherwise straight to lock().
RequestStopAfter(t) ==
  /\ tpc[t] = "rs_after"
  /\ LET c == cur[t] IN
       /\ running' = running \ {c}
       /\ IF publish_needed(t)
          THEN /\ rdc' = [rdc EXCEPT ![c] = None]
               /\ touch(c)
               /\ tpc' = [tpc EXCEPT ![t] = "rs_publish"]
          ELSE /\ tpc' = [tpc EXCEPT ![t] = "rs_relock"]
               /\ UNCHANGED <<rdc, uaf>>
  /\ UNCHANGED <<src_vars, prev_ptr, source_set, callback_completed, ti, cur,
                 removed, ret, executed, freed, registered>>

\* callback_completed.store(true) (line 95), the last access to the node: a
\* destructor spinning on it may free the node right after.
RequestStopPublish(t) ==
  /\ tpc[t] = "rs_publish"
  /\ callback_completed' = [callback_completed EXCEPT ![cur[t]] = TRUE]
  /\ touch(cur[t])
  /\ tpc' = [tpc EXCEPT ![t] = "rs_relock"]
  /\ UNCHANGED <<src_vars, prev_ptr, source_set, rdc, ti, cur, removed, ret,
                 executed, running, freed, registered>>

\* lock() before looking at the list again.
RequestStopRelock(t) ==
  /\ tpc[t] = "rs_relock"
  /\ lock_free(state)
  /\ state' = state + locked_flag
  /\ tpc' = [tpc EXCEPT ![t] = "rs_loop"]
  /\ UNCHANGED <<callbacks, notifying_thread_id, cb_vars, ti, cur, removed,
                 ret, hist_vars>>

-----------------------------------------------------------------------------

Init ==
  /\ state = 0
  /\ callbacks = <<>>
  /\ notifying_thread_id = None
  /\ prev_ptr = [c \in Callbacks |-> FALSE]
  /\ source_set = [c \in Callbacks |-> TRUE]
  /\ rdc = [c \in Callbacks |-> None]
  /\ callback_completed = [c \in Callbacks |-> FALSE]
  /\ tpc = [t \in Threads |-> IF Script[t] = <<>> THEN "done" ELSE "call"]
  /\ ti = [t \in Threads |-> 1]
  /\ cur = [t \in Threads |-> None]
  /\ removed = [t \in Threads |-> FALSE]
  /\ ret = [t \in Threads |-> "done"]
  /\ executed = [c \in Callbacks |-> 0]
  /\ running = {}
  /\ freed = [c \in Callbacks |-> FALSE]
  /\ registered = [c \in Callbacks |-> FALSE]
  /\ uaf = FALSE

Step(t) ==
  \/ Register(t)
  \/ Destroy(t)
  \/ RemoveWait(t)
  \/ RequestStop(t)
  \/ RequestStopLoop(t)
  \/ RequestStopSet(t)
  \/ RequestStopExecute(t)
  \/ RequestStopSelfRemove(t)
  \/ RequestStopAfter(t)
  \/ RequestStopPublish(t)
  \/ RequestStopRelock(t)

\* Every thread has run its script to the end.
Terminated ==
  /\ \A t \in Threads : tpc[t] = "done"
  /\ UNCHANGED vars

Next == (\E t \in Threads : Step(t)) \/ Terminated

\* Each thread is scheduled: a thread spinning on the lock or on
\* callback_completed gets to retry once the other threads, which run
\* finite scripts, have released them.
Fairness == \A t \in Threads : WF_vars(Step(t))

Spec == Init /\ [][Next]_vars /\ Fairness

-----------------------------------------------------------------------------
(* Properties.                                                             *)

TypeOK ==
  /\ state \in 0..3
  /\ callbacks \in Seq(Callbacks)
  /\ notifying_thread_id \in Threads \cup {None}
  /\ prev_ptr \in [Callbacks -> BOOLEAN]
  /\ source_set \in [Callbacks -> BOOLEAN]
  /\ rdc \in [Callbacks -> Threads \cup {None}]
  /\ callback_completed \in [Callbacks -> BOOLEAN]
  /\ removed \in [Threads -> BOOLEAN]
  /\ executed \in [Callbacks -> 0..1]
  /\ running \subseteq Callbacks
  /\ uaf \in BOOLEAN

\* The doubly linked list and the nodes' prev_ptr agree: a node is linked
\* exactly when its prev_ptr is set, at most once, and only while it is
\* alive, registered with the source and not yet delivered.  remove_callback
\* decides between unlinking and waiting on prev_ptr alone.
ListSound ==
  /\ IsInjective(callbacks)
  /\ \A c \in Callbacks :
       /\ prev_ptr[c] <=> c \in Range(callbacks)
       /\ c \in Range(callbacks) =>
            ~freed[c] /\ source_set[c] /\ registered[c] /\ executed[c] = 0

\* No callback node is touched after its destructor returned, and no
\* callback body is still running once its callback object is destroyed:
\* a thread deregistering a callback that another thread is delivering
\* waits for callback_completed, and request_stop does not publish
\* completion into a callback that destroyed itself.
NoAccessAfterFree ==
  /\ ~uaf
  /\ \A c \in Callbacks : freed[c] => c \notin running \/ c \in SelfRemoving

\* Once stop is requested, every callback constructed, or being
\* constructed, is eventually delivered, unless it was destroyed first.
StopDelivered ==
  \A c \in Callbacks :
    ((state & stop_requested_flag) # 0 /\
     (registered[c] \/ \E t \in Threads : tpc[t] = "call" /\ call(t) = [op |-> "register", cb |-> c]))
    ~> (executed[c] = 1 \/ freed[c])

\* A thread deregistering a callback that is being delivered on another
\* thread is released: request_stop publishes callback_completed.
DeregisterReturns == \A t \in Threads : tpc[t] = "rm_wait" ~> tpc[t] # "rm_wait"
====
