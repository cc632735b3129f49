----------------------------- MODULE MCReadWrite -----------------------------
(* Instances of ReadWrite: the read operations async_read (B = 1) and     *)
(* async_read_some, each on a socket and on a file.                        *)
EXTENDS ReadWrite

AllModes == [fully : BOOLEAN, seekable : BOOLEAN]

\* async_read on a socket, as the chat examples read header and body.
SocketRead == {[fully |-> TRUE, seekable |-> FALSE]}
====
