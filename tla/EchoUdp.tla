------------------------------- MODULE EchoUdp -------------------------------
(* The UDP echo example: echo_server_udp (src/example/echo_server_udp.cpp) *)
(* and echo_client_udp processes (src/example/echo_client_udp.cpp) over    *)
(* datagram sockets (io_uring_datagram.hpp), whose async_receive_from and  *)
(* async_send_to are rw_type operations with IORING_OP_RECVMSG and         *)
(* IORING_OP_SENDMSG (io_uring_read_write.hpp).  The peer's address is a   *)
(* udp::endpoint (basic_endpoint.hpp over endpoint.hpp): a sockaddr union  *)
(* whose size() follows the family stored in it.                          *)
(*                                                                         *)
(* A sockaddr is abstracted to its family and two blocks of bytes: head,  *)
(* bytes [0, 16) (the whole of a sockaddr_in; family, port, flow info and  *)
(* the first half of sin6_addr in a sockaddr_in6), and tail, bytes         *)
(* [16, 28) (the second half of sin6_addr and the scope id).  Every host  *)
(* is a model value; Zero stands for zeroed bytes.  Each process's loop    *)
(* runs one handler at a time, and the ring always has room (parking is    *)
(* EventLoop's subject).  The network loses and reorders datagrams.        *)
(* Receives never fail (no error is queued on an unconnected UDP socket)   *)
(* and the clients never send an empty line, so no_message does not occur.*)
EXTENDS Integers, Sequences, FiniteSets

CONSTANTS
  Family,       \* the family of the server's address (make_address(argv[1]))
  Server,       \* the server's host address
  Clients,      \* echo_client processes, named by their host address
  Lines,        \* Lines[c]: the non-empty lines c's user types, as messages
  Msgs,         \* datagram payloads
  Zero,         \* zeroed bytes in a sockaddr
  SendMayFail   \* sendmsg can fail (e.g. ENETUNREACH, EINVAL)

ASSUME Family \in {"AF_INET", "AF_INET6"}
ASSUME Lines \in [Clients -> Seq(Msgs)]
ASSUME Zero \notin Clients \cup {Server} /\ Server \notin Clients
ASSUME SendMayFail \in BOOLEAN

VARIABLES
  \* the server process
  srv,          \* its one operation: "queued" (the constructor's receive in the
                \* remote queue), "receiving", "sending", or "idle" (none)
  sender,       \* echo_server::sender, the sockaddr storage
  rlen,         \* msg_namelen of the pending RECVMSG
  data,         \* echo_server::data: the datagram being echoed
  sto,          \* the pending SENDMSG: [addr |-> msg_name, len |-> msg_namelen]
  echo_from,    \* history: the client whose datagram is in data
  \* the client processes
  crq,          \* crq[c]: the client loop's remote queue
  crecv,        \* crecv[c]: the client's RECVMSG is in flight
  typed,        \* typed[c]: lines the user has typed
  send_msgs,    \* send_msgs[c]: echo_client::send_msgs
  csend,        \* csend[c]: the client's SENDMSG is in flight
  received,     \* received[c]: what the client printed
  \* the network
  to_server,    \* datagrams in flight to the server: [from, to (a sockaddr), msg]
  to_clients    \* datagrams in flight from the server: [to (a sockaddr), msg]

server_vars == <<srv, sender, rlen, data, sto, echo_from>>
client_vars == <<crq, crecv, typed, send_msgs, csend, received>>
net_vars == <<to_server, to_clients>>
vars == <<server_vars, client_vars, net_vars>>

-----------------------------------------------------------------------------
(* Endpoints.                                                              *)

\* End offsets of the two blocks.
head_end == 16
tail_end == 28

\* endpoint(): the union is zeroed, then set to AF_INET, port 0, INADDR_ANY.
default_endpoint == [family |-> "AF_INET", head |-> Zero, tail |-> Zero]

\* endpoint::is_v4(): sa_family == AF_INET.
is_v4(ep) == ep.family = "AF_INET"

\* endpoint::size(): sizeof(sockaddr_in) or sizeof(sockaddr_in6), by family.
size(ep) == IF is_v4(ep) THEN 16 ELSE 28

\* endpoint(address, port): a v4 address fills sin_addr, within the head;
\* a v6 address fills all 16 bytes of sin6_addr and the scope id.
endpoint_of(host) ==
  IF Family = "AF_INET"
  THEN [family |-> "AF_INET", head |-> host, tail |-> Zero]
  ELSE [family |-> "AF_INET6", head |-> host, tail |-> host]

\* The source address the kernel reports for a datagram from host c, in
\* the layout endpoint_of writes.
source_addr(c) == endpoint_of(c)

\* recvmsg stores the source address into msg_name: min(msg_namelen, its
\* length) bytes are copied, the rest of the storage keeps what it held.
copy_name(dst, src, namelen) ==
  LET n == IF namelen < size(src) THEN namelen ELSE size(src) IN
  [family |-> src.family,
   head   |-> IF n >= head_end THEN src.head ELSE dst.head,
   tail   |-> IF n >= tail_end THEN src.tail ELSE dst.tail]

\* The address sendmsg reads from msg_name: its first msg_namelen bytes.
dest(s) ==
  [s.addr EXCEPT !.tail = IF s.len >= tail_end THEN @ ELSE Zero]

\* rw_type::init() for RECVMSG / SENDMSG: msg_name = seekable.data(),
\* msg_namelen = seekable.size(), taken when the operation is constructed.
init_namelen(ep) == size(ep)

\* datagram_socket::async_send_to(buffer, ep, f): a send_to_type made on
\* the socket's fd with ep by reference; its constructor runs init().
send_to(ep) == [addr |-> ep, len |-> init_namelen(ep)]

-----------------------------------------------------------------------------
(* The server.                                                             *)

\* The constructor's receive was started from main, off the loop thread:
\* the loop runs on_schedule_complete -> start_io: RECVMSG is submitted.
ServerOnScheduleComplete ==
  /\ srv = "queued"
  /\ srv' = "receiving"
  /\ UNCHANGED <<sender, rlen, data, sto, echo_from, client_vars, net_vars>>

\* The RECVMSG completes with a datagram sent to the server's address
\* (the socket is bound to endpoint(address, port)): the kernel writes its source into
\* sender and its payload into data; on_receive with no error calls
\* do_send(length): async_send_to(data, sender) builds a SENDMSG whose
\* msg_namelen is sender.size() now, and starts it on the loop thread.
ServerOnReceive ==
  /\ srv = "receiving"
  /\ \E d \in to_server :
       LET ep == copy_name(sender, source_addr(d.from), rlen) IN
       /\ d.to = endpoint_of(Server)
       /\ sender' = ep
       /\ data' = d.msg
       /\ echo_from' = d.from
       /\ sto' = send_to(ep)
       /\ to_server' = to_server \ {d}
  /\ srv' = "sending"
  /\ UNCHANGED <<rlen, client_vars, to_clients>>

\* The SENDMSG completes.  On success the datagram leaves for dest(sto) and
\* on_send calls do_receive: a RECVMSG with msg_namelen = sender.size().
\* On failure on_send prints the error and returns: no receive is started.
ServerOnSend ==
  /\ srv = "sending"
  /\ \/ /\ to_clients' = to_clients \cup {[to |-> dest(sto), msg |-> data]}
        /\ rlen' = init_namelen(sender)
        /\ srv' = "receiving"
     \/ /\ SendMayFail
        /\ srv' = "idle"
        /\ UNCHANGED <<rlen, to_clients>>
  /\ UNCHANGED <<sender, data, sto, echo_from, client_vars, to_server>>

-----------------------------------------------------------------------------
(* The clients.                                                            *)

\* The user types a line: echo_client::write posts a lambda to the loop.
UserWrite(c) ==
  /\ typed[c] < Len(Lines[c])
  /\ crq' = [crq EXCEPT ![c] = Append(@, Lines[c][typed[c] + 1])]
  /\ typed' = [typed EXCEPT ![c] = @ + 1]
  /\ UNCHANGED <<server_vars, crecv, send_msgs, csend, received, net_vars>>

\* The client's loop runs the next remotely scheduled operation: the
\* constructor's receive (on_schedule_complete -> start_io: RECVMSG), or a
\* posted write lambda: push the line and do_send if none was queued.
ClientOnScheduleComplete(c) ==
  /\ crq[c] # <<>>
  /\ LET item == Head(crq[c]) IN
     IF item = "receive"
     THEN /\ crecv' = [crecv EXCEPT ![c] = TRUE]
          /\ UNCHANGED <<send_msgs, csend>>
     ELSE /\ send_msgs' = [send_msgs EXCEPT ![c] = Append(@, item)]
          /\ csend' = [csend EXCEPT ![c] = IF send_msgs[c] = <<>> THEN TRUE ELSE @]
          /\ UNCHANGED crecv
  /\ crq' = [crq EXCEPT ![c] = Tail(@)]
  /\ UNCHANGED <<server_vars, typed, received, net_vars>>

\* The client's SENDMSG of send_msgs.front() to receiver, the endpoint
\* main built from the server's address (async_send_to), completes.  On success: pop_front, do_send again if more are queued.
\* On failure on_send prints "server closed" and returns, leaving the line
\* at the front of send_msgs.
ClientOnSend(c) ==
  /\ csend[c]
  /\ \/ /\ to_server' = to_server \cup
             {[from |-> c, to |-> dest(send_to(endpoint_of(Server))), msg |-> Head(send_msgs[c])]}
        /\ send_msgs' = [send_msgs EXCEPT ![c] = Tail(@)]
        /\ csend' = [csend EXCEPT ![c] = Tail(send_msgs[c]) # <<>>]
     \/ /\ SendMayFail
        /\ csend' = [csend EXCEPT ![c] = FALSE]
        /\ UNCHANGED <<to_server, send_msgs>>
  /\ UNCHANGED <<server_vars, crq, crecv, typed, received, to_clients>>

\* A datagram addressed to the client's host arrives on its RECVMSG:
\* on_receive prints it and calls do_receive (a new RECVMSG).
ClientOnReceive(c) ==
  /\ crecv[c]
  /\ \E r \in to_clients :
       /\ r.to = source_addr(c)
       /\ received' = [received EXCEPT ![c] = Append(@, r.msg)]
       /\ to_clients' = to_clients \ {r}
  /\ UNCHANGED <<server_vars, crq, crecv, typed, send_msgs, csend, to_server>>

\* The network loses a datagram.
Lose ==
  \/ \E d \in to_server : to_server' = to_server \ {d} /\ UNCHANGED to_clients
  \/ \E r \in to_clients : to_clients' = to_clients \ {r} /\ UNCHANGED to_server

\* Every line typed, the processes wait on their sockets and stdin.
Waiting ==
  /\ \A c \in Clients : typed[c] = Len(Lines[c])
  /\ UNCHANGED vars

-----------------------------------------------------------------------------

\* echo_server's constructor has queued a receive whose msg_namelen is that
\* of the default sender; each echo_client's constructor has queued its
\* receive.
Init ==
  /\ srv = "queued"
  /\ sender = default_endpoint
  /\ rlen = init_namelen(default_endpoint)
  /\ data = Zero
  /\ sto = [addr |-> default_endpoint, len |-> 0]
  /\ echo_from = Zero
  /\ crq = [c \in Clients |-> <<"receive">>]
  /\ crecv = [c \in Clients |-> FALSE]
  /\ typed = [c \in Clients |-> 0]
  /\ send_msgs = [c \in Clients |-> <<>>]
  /\ csend = [c \in Clients |-> FALSE]
  /\ received = [c \in Clients |-> <<>>]
  /\ to_server = {} /\ to_clients = {}

ClientStep(c) ==
  \/ UserWrite(c) \/ ClientOnScheduleComplete(c) \/ ClientOnSend(c) \/ ClientOnReceive(c)

Next ==
  \/ ServerOnScheduleComplete \/ ServerOnReceive \/ ServerOnSend
  \/ \E c \in Clients : ClientStep(c)
  \/ (Lose /\ UNCHANGED <<server_vars, client_vars>>)
  \/ Waiting

Spec == Init /\ [][Next]_vars

-----------------------------------------------------------------------------
(* Properties.                                                             *)

\* The echo goes back where the datagram came from: whenever the server
\* has a SENDMSG pending, it is addressed to the source of the datagram it
\* echoes (on_receive -> do_send(length) -> async_send_to(..., sender)).
EchoToSender ==
  srv = "sending" => dest(sto) = source_addr(echo_from)
====
