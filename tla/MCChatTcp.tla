----------------------------- MODULE MCChatTcp -----------------------------
(* Two chat clients; A's user types two lines, B's one.                   *)
EXTENDS ChatTcp

CONSTANTS A, B, m1, m2, m3

MCLines == [c \in {A, B} |-> IF c = A THEN <<m1, m2>> ELSE <<m3>>]
====
