------------------------------ MODULE MCEchoUdp ------------------------------
(* An IPv6 echo server and two clients; each user types one line.          *)
EXTENDS EchoUdp

CONSTANTS A, B, m1, m2

MCLines == [c \in {A, B} |-> IF c = A THEN <<m1>> ELSE <<m2>>]
====
