---------------------------- MODULE MCTimerLoop ----------------------------
(* TimerLoop instantiated for TLC: two steady_timer handles, up to two    *)
(* timer_impl objects, a clock of a few ticks, and main-thread scripts   *)
(* modelled on the examples async_wait.cpp and timer_cancel.cpp, their   *)
(* durations scaled to the model's second.                              *)
EXTENDS TimerLoop, TLC

CONSTANTS a, b, t1, t2

MCHandles == {a, b}
MCTimers == {t1, t2}

\* expires_at(now() + dur) then async_wait; dur in ticks, three to a second.
AsyncWait(s, dur) == [call |-> "async_wait", handle |-> s, dur |-> dur, stops |-> FALSE]
\* The same, with a callback that calls source.request_stop().
AsyncWaitThenStop(s, dur) == [AsyncWait(s, dur) EXCEPT !.stops = TRUE]
Cancel(s) == [call |-> "cancel", handle |-> s, dur |-> 0, stops |-> FALSE]
RequestStopCall == [call |-> "stop", handle |-> a, dur |-> 0, stops |-> FALSE]
Sleep == [call |-> "sleep", handle |-> a, dur |-> 0, stops |-> FALSE]

\* Two timers, the second due before the first (the armed TIMEOUT is
\* replaced) and cancelled from the main thread after a sleep, then stop;
\* the first timer's callback requests stop too, so either request may
\* come first.
TwoTimerScript ==
  <<AsyncWaitThenStop(a, 3), AsyncWait(b, 1), Sleep, Cancel(b), RequestStopCall>>

\* The same without the sleep: the cancel may overtake b's start.
TwoTimerRaceScript == <<AsyncWait(a, 3), AsyncWait(b, 1), Cancel(b)>>

\* timer_cancel.cpp: async_wait on now() + 3s, cancel, request_stop.
CancelScript == <<AsyncWait(a, 3), Cancel(a), RequestStopCall>>

\* async_wait.cpp: async_wait on now() + 3s, then expires_after(10ms) and
\* async_wait again on the same timer, whose callback requests stop.
RewaitScript == <<AsyncWait(a, 3), AsyncWaitThenStop(a, 0)>>

=============================================================================
