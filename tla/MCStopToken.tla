---------------------------- MODULE MCStopToken ----------------------------
(* StopToken instantiated for TLC: three threads and three callbacks.     *)
(* Thread n registers a callback, requests stop and then destroys its      *)
(* callback (the run() pattern, where the thread that stops may own a      *)
(* callback); o1 registers and destroys a callback, racing delivery; o2    *)
(* registers a callback whose body destroys it and requests stop as well.  *)
EXTENDS StopToken, TLC

CONSTANTS n, o1, o2, c0, c1, c2

MCThreads == {n, o1, o2}
MCCallbacks == {c0, c1, c2}
MCSelfRemoving == {c2}

Reg(c) == [op |-> "register", cb |-> c]
Del(c) == [op |-> "destroy", cb |-> c]
StopCall == [op |-> "stop", cb |-> None]

MCScript ==
  [t \in MCThreads |->
     CASE t = n  -> <<Reg(c0), StopCall, Del(c0)>>
       [] t = o1 -> <<Reg(c1), Del(c1)>>
       [] t = o2 -> <<Reg(c2), StopCall>>]
====
