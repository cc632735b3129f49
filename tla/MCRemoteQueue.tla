---------------------------- MODULE MCRemoteQueue ----------------------------
(* Two producer threads, one posting two operations in order and one      *)
(* posting one, with one operation run again (rescheduled or resubmitted). *)
EXTENDS RemoteQueue

CONSTANTS p1, p2, a, b, c

MCScript == [p \in {p1, p2} |-> IF p = p1 THEN <<a, b>> ELSE <<c>>]
====
