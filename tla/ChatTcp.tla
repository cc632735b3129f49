------------------------------- MODULE ChatTcp -------------------------------
(* The chat example of spec 8.12: chat_server_tcp (src/example/             *)
(* chat_server_tcp.cpp), with its acceptor (io_uring_accept.hpp), room and *)
(* sessions, and chat_client_tcp processes (src/example/chat_client_tcp.cpp)*)
(* whose connect is a SOCKET then a CONNECT operation (io_uring_socket.hpp, *)
(* io_uring_connect.hpp) and whose main thread posts every line it reads    *)
(* to the client's loop (io_uring_post.hpp).  Each process's loop runs one  *)
(* handler at a time; an operation started from a thread other than the   *)
(* loop's (a constructor, a post) goes through the loop's remote queue,    *)
(* which runs them in enqueue order (RemoteQueue refines MpscQueue).       *)
(* A TCP stream carries whole chat messages (async_read and async_write    *)
(* transfer the whole buffer; partial transfers are ReadWrite's subject). *)
(* No peer closes or resets a connection and no syscall fails, so the      *)
(* handlers' error branches are not taken here.                           *)
EXTENDS Integers, Sequences, SequencesExt

CONSTANTS
  Clients,   \* chat_client processes (one connection each)
  Lines,     \* Lines[c]: the lines c's user types, as messages
  Msgs       \* chat messages

ASSUME Lines \in [Clients -> Seq(Msgs)]

\* chat_room::max_recent_msgs
max_recent_msgs == 100

VARIABLES
  \* the server process
  srq,           \* its loop's remote queue (the acceptor's socket start)
  acc,           \* the acceptor's operation: "queued", "socket", "accept"
  listening,     \* the acceptor's socket is bound and listening
  backlog,       \* connections the kernel completed, not yet accepted
  participants,  \* chat_room::participants (sessions, by client)
  recent_msgs,   \* chat_room::recent_msgs
  srd,           \* srd[c]: the session's read: "none", "header", "body"
  swq,           \* swq[c]: the session's write_msgs
  sw,            \* sw[c]: the session's async_write is in flight
  \* the client processes
  crq,           \* crq[c]: the client loop's remote queue
  conn,          \* conn[c]: the connect: "queued", "socket", "connect", "done"
  fd_open,       \* fd_open[c]: the client's socket holds the connected fd
  typed,         \* typed[c]: lines the user has typed
  write_msgs,    \* write_msgs[c]: chat_client::write_msgs
  wr,            \* wr[c]: in-flight async_write: "none", or the fd it was given
  crd,           \* crd[c]: the client's read: "none", "header", "body"
  received,      \* received[c]: the bodies the client printed
  \* the network
  up,            \* up[c]: messages on the stream from c to its session
  down           \* down[c]: messages on the stream from c's session to c

server_vars == <<srq, acc, listening, backlog, participants, recent_msgs, srd, swq, sw>>
client_vars == <<crq, conn, fd_open, typed, write_msgs, wr, crd, received>>
net_vars == <<up, down>>
vars == <<server_vars, client_vars, net_vars>>

-----------------------------------------------------------------------------
(* Helpers shared by the handlers.                                         *)

\* async_io gives the operation stream.get_fd() when it is called: WRITEV
\* runs on that fd, -1 (EBADF) while the socket is not open.
fd_captured(c) == IF fd_open[c] THEN "fd" ELSE "ebadf"

\* chat_session::deliver(msg): queue it and start writing if no write was
\* in flight.  Applied to a list of messages, in order.
deliver(q, writing, msgs) ==
  [q |-> q \o msgs, writing |-> writing \/ (q = <<>> /\ msgs # <<>>)]

\* recent_msgs.push_back(msg), then pop_front while over max_recent_msgs.
trim_recent(r) ==
  IF Len(r) > max_recent_msgs THEN SubSeq(r, Len(r) - max_recent_msgs + 1, Len(r)) ELSE r

\* chat_room::join(c): c becomes a participant and is delivered every
\* recent message, oldest first.
join(c) == deliver(swq[c], sw[c], recent_msgs)

\* chat_room::deliver(m): every participant (the sender included) is
\* delivered m; the others' queues are left as they are.
room_deliver(m) ==
  [p \in Clients |-> IF p \in participants THEN deliver(swq[p], sw[p], <<m>>)
                                           ELSE [q |-> swq[p], writing |-> sw[p]]]

\* post(ioc, f) from the main thread: post_operation::start ->
\* schedule_impl, not on the loop thread -> schedule_remote.
post(q, f) == Append(q, f)

-----------------------------------------------------------------------------
(* The server.                                                             *)

\* chat_server's constructor ran do_accept from main: async_accept with no
\* socket yet calls async_socket, whose start is not on the loop thread and
\* goes to the remote queue; the loop runs on_schedule_complete -> start_io
\* and submits IORING_OP_SOCKET.
ServerOnScheduleComplete ==
  /\ srq # <<>>
  /\ srq' = Tail(srq)
  /\ acc' = "socket"
  /\ UNCHANGED <<listening, backlog, participants, recent_msgs, srd, swq, sw, client_vars,
                 net_vars>>

\* on_socket -> the accept lambda: open_socket (setsockopt, bind, listen)
\* and do_accept: receiver = f, start() on the loop: IORING_OP_ACCEPT.
ServerOnSocket ==
  /\ acc = "socket"
  /\ listening' = TRUE
  /\ acc' = "accept"
  /\ UNCHANGED <<srq, backlog, participants, recent_msgs, srd, swq, sw, client_vars, net_vars>>

\* chat_session::start: join the room, then do_read_header.
start_session(c) ==
  LET d == join(c) IN
  /\ participants' = participants \cup {c}
  /\ swq' = [swq EXCEPT ![c] = d.q]
  /\ sw' = [sw EXCEPT ![c] = d.writing]
  /\ srd' = [srd EXCEPT ![c] = "header"]

\* acceptor::on_accept with a connection -> chat_server::on_accept: a
\* chat_session is made and started; then do_accept again (the acceptor
\* has its fd: ACCEPT is resubmitted).
ServerOnAccept ==
  /\ acc = "accept" /\ backlog # <<>>
  /\ start_session(Head(backlog))
  /\ backlog' = Tail(backlog)
  /\ UNCHANGED <<srq, acc, listening, recent_msgs, client_vars, net_vars>>

\* The session's header read completes (decode_header accepts the client's
\* encoded header) -> do_read_body.
SessionOnReadHeader(c) ==
  /\ srd[c] = "header" /\ up[c] # <<>>
  /\ srd' = [srd EXCEPT ![c] = "body"]
  /\ UNCHANGED <<srq, acc, listening, backlog, participants, recent_msgs, swq, sw,
                 client_vars, net_vars>>

\* The body read completes -> room.deliver(read_msg): keep it in recent_msgs
\* and deliver it to every participant (the sender included); then
\* do_read_header.
SessionOnReadBody(c) ==
  /\ srd[c] = "body"
  /\ LET m == Head(up[c])
         r == room_deliver(m)
     IN /\ recent_msgs' = trim_recent(Append(recent_msgs, m))
        /\ swq' = [p \in Clients |-> r[p].q]
        /\ sw' = [p \in Clients |-> r[p].writing]
  /\ up' = [up EXCEPT ![c] = Tail(@)]
  /\ srd' = [srd EXCEPT ![c] = "header"]
  /\ UNCHANGED <<srq, acc, listening, backlog, participants, client_vars, down>>

\* The session's write completes: pop the message, write the next if any.
SessionOnWrite(c) ==
  /\ sw[c]
  /\ down' = [down EXCEPT ![c] = Append(@, Head(swq[c]))]
  /\ swq' = [swq EXCEPT ![c] = Tail(@)]
  /\ sw' = [sw EXCEPT ![c] = Tail(swq[c]) # <<>>]
  /\ UNCHANGED <<srq, acc, listening, backlog, participants, recent_msgs, srd, client_vars, up>>

-----------------------------------------------------------------------------
(* The clients, started once the server listens.                          *)

\* The user types a line: chat_client::write posts a lambda to the loop.
UserWrite(c) ==
  /\ listening /\ typed[c] < Len(Lines[c])
  /\ crq' = [crq EXCEPT ![c] = post(@, Lines[c][typed[c] + 1])]
  /\ typed' = [typed EXCEPT ![c] = @ + 1]
  /\ UNCHANGED <<server_vars, conn, fd_open, write_msgs, wr, crd, received, net_vars>>

\* The client's loop runs the next remotely scheduled operation: the
\* socket operation of async_connect (on_schedule_complete -> start_io:
\* IORING_OP_SOCKET), or a posted write lambda: queue the message and
\* do_write if no write was in progress.
ClientOnScheduleComplete(c) ==
  /\ listening /\ crq[c] # <<>>
  /\ LET item == Head(crq[c]) IN
     IF item = "socket"
     THEN /\ conn' = [conn EXCEPT ![c] = "socket"]
          /\ UNCHANGED <<write_msgs, wr>>
     ELSE /\ write_msgs' = [write_msgs EXCEPT ![c] = Append(@, item)]
          /\ IF write_msgs[c] = <<>>
             THEN wr' = [wr EXCEPT ![c] = fd_captured(c)]
             ELSE UNCHANGED wr
          /\ UNCHANGED conn
  /\ crq' = [crq EXCEPT ![c] = Tail(@)]
  /\ UNCHANGED <<server_vars, fd_open, typed, crd, received, net_vars>>

\* on_socket -> async_connect's lambda: open_socket(fd) and do_connect:
\* receiver = f, start() on the loop: IORING_OP_CONNECT.
ClientOnSocket(c) ==
  /\ conn[c] = "socket"
  /\ conn' = [conn EXCEPT ![c] = "connect"]
  /\ UNCHANGED <<server_vars, crq, fd_open, typed, write_msgs, wr, crd, received, net_vars>>

\* connect_impl's lambda: stream.reset(fd), the socket now holds the fd.
reset_stream(c) == fd_open' = [fd_open EXCEPT ![c] = TRUE]

\* chat_client::on_connect with no error: do_read_header.
on_connect(c) == crd' = [crd EXCEPT ![c] = "header"]

\* The CONNECT completes (the kernel queues the connection on the server's
\* listening socket) -> connector::on_connect -> the receiver.
ClientOnConnect(c) ==
  /\ conn[c] = "connect"
  /\ backlog' = Append(backlog, c)
  /\ conn' = [conn EXCEPT ![c] = "done"]
  /\ reset_stream(c)
  /\ on_connect(c)
  /\ UNCHANGED <<srq, acc, listening, participants, recent_msgs, srd, swq, sw, crq, typed,
                 write_msgs, wr, received, net_vars>>

\* The client's write completes.  On success the message is on the stream:
\* pop it and write the next if any.  WRITEV on fd -1 fails with EBADF:
\* on_write prints the error and returns, leaving write_msgs as it is.
ClientOnWrite(c) ==
  /\ wr[c] # "none"
  /\ IF wr[c] = "fd"
     THEN /\ up' = [up EXCEPT ![c] = Append(@, Head(write_msgs[c]))]
          /\ write_msgs' = [write_msgs EXCEPT ![c] = Tail(@)]
          /\ wr' = [wr EXCEPT ![c] = IF Tail(write_msgs[c]) # <<>> THEN fd_captured(c) ELSE "none"]
     ELSE /\ wr' = [wr EXCEPT ![c] = "none"]
          /\ UNCHANGED <<up, write_msgs>>
  /\ UNCHANGED <<server_vars, crq, conn, fd_open, typed, crd, received, down>>

\* The client's header read completes -> do_read_body.
ClientOnReadHeader(c) ==
  /\ crd[c] = "header" /\ down[c] # <<>>
  /\ crd' = [crd EXCEPT ![c] = "body"]
  /\ UNCHANGED <<server_vars, crq, conn, fd_open, typed, write_msgs, wr, received, net_vars>>

\* The body read completes: print it, do_read_header.
ClientOnReadBody(c) ==
  /\ crd[c] = "body"
  /\ received' = [received EXCEPT ![c] = Append(@, Head(down[c]))]
  /\ down' = [down EXCEPT ![c] = Tail(@)]
  /\ crd' = [crd EXCEPT ![c] = "header"]
  /\ UNCHANGED <<server_vars, crq, conn, fd_open, typed, write_msgs, wr, up>>

\* Every line typed, the processes wait on their sockets and stdin.
Waiting ==
  /\ \A c \in Clients : typed[c] = Len(Lines[c])
  /\ UNCHANGED vars

-----------------------------------------------------------------------------

\* chat_server's constructor has queued the acceptor's socket operation;
\* each chat_client's constructor has queued its connect's socket operation.
Init ==
  /\ srq = <<"socket">> /\ acc = "queued" /\ listening = FALSE
  /\ backlog = <<>> /\ participants = {} /\ recent_msgs = <<>>
  /\ srd = [c \in Clients |-> "none"]
  /\ swq = [c \in Clients |-> <<>>] /\ sw = [c \in Clients |-> FALSE]
  /\ crq = [c \in Clients |-> <<"socket">>]
  /\ conn = [c \in Clients |-> "queued"]
  /\ fd_open = [c \in Clients |-> FALSE]
  /\ typed = [c \in Clients |-> 0]
  /\ write_msgs = [c \in Clients |-> <<>>]
  /\ wr = [c \in Clients |-> "none"]
  /\ crd = [c \in Clients |-> "none"]
  /\ received = [c \in Clients |-> <<>>]
  /\ up = [c \in Clients |-> <<>>] /\ down = [c \in Clients |-> <<>>]

ClientStep(c) ==
  \/ UserWrite(c) \/ ClientOnScheduleComplete(c) \/ ClientOnSocket(c) \/ ClientOnConnect(c)
  \/ ClientOnWrite(c) \/ ClientOnReadHeader(c) \/ ClientOnReadBody(c)

ServerStep ==
  \/ ServerOnScheduleComplete \/ ServerOnSocket \/ ServerOnAccept
  \/ \E c \in Clients : SessionOnReadHeader(c) \/ SessionOnReadBody(c) \/ SessionOnWrite(c)

Next == ServerStep \/ (\E c \in Clients : ClientStep(c)) \/ Waiting

\* Each loop runs the handlers that are ready, the kernel completes what
\* can complete, and each user goes on typing the lines it has.
Fairness ==
  /\ WF_vars(ServerOnScheduleComplete) /\ WF_vars(ServerOnSocket) /\ WF_vars(ServerOnAccept)
  /\ \A c \in Clients :
       /\ WF_vars(SessionOnReadHeader(c)) /\ WF_vars(SessionOnReadBody(c))
       /\ WF_vars(SessionOnWrite(c))
       /\ WF_vars(UserWrite(c)) /\ WF_vars(ClientOnScheduleComplete(c))
       /\ WF_vars(ClientOnSocket(c)) /\ WF_vars(ClientOnConnect(c)) /\ WF_vars(ClientOnWrite(c))
       /\ WF_vars(ClientOnReadHeader(c)) /\ WF_vars(ClientOnReadBody(c))

Spec == Init /\ [][Next]_vars /\ Fairness

-----------------------------------------------------------------------------
(* Properties.                                                             *)

\* Spec 8.12, Chat-TCP: a line one client types is received by the other
\* client: chat_client::write's post, do_write, the session's read and
\* room.deliver, and the other session's write all happen.
ChatDelivered ==
  \A c, d \in Clients :
    c # d => \A i \in 1..Len(Lines[c]) :
               typed[c] >= i ~> Lines[c][i] \in ToSet(received[d])
====
