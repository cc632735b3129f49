------------------------------ MODULE ReadWrite ------------------------------
(* One read operation, rw_type<std::byte, IORING_OP_READV, B>              *)
(* (src/include/io_uring_read_write.hpp), against a peer that writes a     *)
(* stream in pieces and may close it.  B (Fully) is async_read's "read the *)
(* whole buffer" flag; with it, on_io_complete restarts the read after a   *)
(* partial transfer.  buffer_ is an offset buf_off into the user's buffer *)
(* of Size bytes; advance() moves data() and shrinks size() by the same n, *)
(* so the span always ends where the buffer ends and its size is          *)
(* Size - buf_off, a negative value standing for the size_t it wraps to.  *)
(* All offsets past Size + 1 behave alike (every byte lands outside, the   *)
(* iov is longer than any read), so buf_off is kept at most Size + 1.      *)
(* The user's buffer records which stream byte                            *)
(* landed in each position.  The event loop is abstracted to what this     *)
(* operation sees of it: submit_io has room or not, a parked operation is  *)
(* replayed when there is room, a completion is reaped and its handler run.*)
EXTENDS Integers, FiniteSets

CONSTANTS
  Size,        \* buffer.size()
  Modes,       \* the operations: [fully |-> B, seekable |-> the stream has an offset]
  StreamLens,  \* the bytes the peer writes (the file's length) in all
  MayClose,    \* the peer closes after writing them
  MayFail      \* a read can fail (e.g. ECONNRESET)

ASSUME Size \in Nat \ {0} /\ StreamLens \subseteq Nat
ASSUME Modes \subseteq [fully : BOOLEAN, seekable : BOOLEAN]
ASSUME {MayClose, MayFail} \subseteq BOOLEAN

ECONNRESET == 104

\* execute_ and where the operation is: not started, in the remote queue
\* (on_schedule_complete), parked on pending_io_queue (on_schedule_complete),
\* submitted (on_io_complete), reaped, or finished (receiver called).
Phases == {"unstarted", "remote", "pending", "inflight", "completed", "done"}

VARIABLES
  Fully,              \* B: async_read rather than async_read_some
  Seekable,           \* a file (async_read on a stream with an offset)
  StreamLen,          \* what the peer writes, or the file's length
  phase,
  buf_off,            \* buffer_.data() as an offset into the user's buffer
  bytes,              \* rw_type::bytes
  offset,             \* rw_type::offset (advanced by seekable * result)
  result,             \* completion_base::result
  written,            \* peer: bytes written so far
  closed,             \* peer: stream closed
  consumed,           \* kernel: socket bytes already delivered
  placed,             \* placed[i]: the stream byte in user buffer position i, or -1
  oob,                \* history: the kernel wrote outside the user's buffer
  delivered,          \* history: the bytes the kernel returned in all
  receiver_calls,     \* history: receiver invocations
  reported            \* history: the receiver's (ec, bytes)

vars == <<Fully, Seekable, StreamLen, phase, buf_off, bytes, offset, result, written, closed,
          consumed, placed, oob, delivered, receiver_calls, reported>>
op_vars == <<buf_off, bytes, offset>>
peer_vars == <<written, closed>>
mode_vars == <<Fully, Seekable, StreamLen>>

-----------------------------------------------------------------------------

\* buffer_.size(): negative when size_t wrapped.
buf_len == Size - buf_off

\* unp::advance(buffer_, n): data() + n, size() - n.
advance(off, n) == IF off + n > Size + 1 THEN Size + 1 ELSE off + n

\* start_io(): submit_io(fill) sets execute_ = on_io_complete if there is
\* room, otherwise execute_ = on_schedule_complete and schedule_pending_io.
start_io ==
  \/ phase' = "inflight"
  \/ phase' = "pending"

\* Mutant: the handler stays installed after the receiver is called.
receiver_kept(ec, n) ==
  /\ receiver_calls' = receiver_calls + 1
  /\ reported' = [ec |-> ec, bytes |-> n]
  /\ phase' = phase

\* receiver(ec, n): the callback of async_io.
receiver(ec, n) ==
  /\ receiver_calls' = receiver_calls + 1
  /\ reported' = [ec |-> ec, bytes |-> n]
  /\ phase' = "done"

\* async_io: start() from another thread posts the operation to the remote
\* queue; from the loop thread it calls start_io.
Start ==
  /\ phase = "unstarted"
  /\ \/ phase' = "remote"
     \/ start_io
  /\ UNCHANGED <<mode_vars, op_vars, result, peer_vars, consumed, placed, oob, delivered,
                 receiver_calls, reported>>

\* on_schedule_complete -> start_io, from the remote queue drain; from the
\* pending-IO replay, which runs only while can_submit_io() holds.
OnScheduleComplete ==
  \/ /\ phase = "remote"
     /\ start_io
  \/ /\ phase = "pending"
     /\ phase' = "inflight"
  /\ UNCHANGED <<mode_vars, op_vars, result, peer_vars, consumed, placed, oob, delivered,
                 receiver_calls, reported>>

\* The peer writes one more byte.
PeerWrite ==
  /\ ~Seekable /\ written < StreamLen
  /\ written' = written + 1
  /\ UNCHANGED <<mode_vars, phase, op_vars, result, closed, consumed, placed, oob,
                 delivered, receiver_calls, reported>>

\* The peer closes the stream once it has written everything.
PeerClose ==
  /\ ~Seekable /\ MayClose /\ ~closed /\ written = StreamLen
  /\ closed' = TRUE
  /\ UNCHANGED <<mode_vars, phase, op_vars, result, written, consumed, placed, oob,
                 delivered, receiver_calls, reported>>

\* The kernel's readv into iov (buf_off, buf_len) at the stream position:
\* an empty iov reads 0; otherwise 1..min(available, iov_len) bytes if any
\* are available, 0 at end of stream, and nothing yet (the SQE waits) on an
\* open socket with no data.  Byte j of the read goes to buf_off + j.
KernelRead ==
  /\ phase = "inflight"
  /\ LET pos   == IF Seekable THEN offset ELSE consumed
         avail == written - pos
         cap   == IF buf_len < 0 THEN avail ELSE buf_len
     IN \/ /\ cap > 0 /\ avail > 0
           /\ \E k \in 1..IF avail < cap THEN avail ELSE cap :
                /\ result' = k
                /\ placed' = [i \in DOMAIN placed |->
                                IF i >= buf_off /\ i < buf_off + k
                                THEN pos + (i - buf_off) ELSE placed[i]]
                /\ oob' = (oob \/ buf_off + k > Size)
                /\ consumed' = IF Seekable THEN consumed ELSE consumed + k
        \/ /\ buf_len = 0 \/ (avail = 0 /\ closed)
           /\ result' = 0
           /\ UNCHANGED <<placed, oob, consumed>>
  /\ phase' = "completed"
  /\ UNCHANGED <<mode_vars, op_vars, peer_vars, delivered, receiver_calls, reported>>

\* The read fails instead (e.g. the peer reset the connection).
KernelFail ==
  /\ MayFail /\ phase = "inflight"
  /\ result' = -ECONNRESET
  /\ phase' = "completed"
  /\ UNCHANGED <<mode_vars, op_vars, peer_vars, consumed, placed, oob, delivered,
                 receiver_calls, reported>>

\* Mutant: the bytes counter takes this completion's result only.
bytes_after_last(b, r) == r

\* self.bytes += self.result
bytes_after(b, r) == b + r

\* Mutant: the offset is not advanced for a seekable stream.
offset_after_unseekable(o, r) == o

\* self.offset += self.seekable * self.result
offset_after(o, r) == IF Seekable THEN o + r ELSE o

\* Mutant: an empty read does not finish a full read.
done_reading_exact(b) == (Fully /\ b = Size) \/ ~Fully

\* (B && (!bytes || bytes == size)) || !B
done_reading(b) == (Fully /\ (b = 0 \/ b = Size)) \/ ~Fully

\* on_io_complete, reaped from the completion queue: on success, count the
\* bytes and advance the offset; finish with no_message for 0 bytes, with
\* success otherwise, unless a full read is still short: then advance
\* buffer_ by bytes, init() and start() again (on the loop thread, i.e.
\* start_io).  A failure reports the error and the (negative) result.
OnIoComplete ==
  /\ phase = "completed"
  /\ IF result >= 0
     THEN LET b == bytes_after(bytes, result) IN
          /\ bytes' = b
          /\ offset' = offset_after(offset, result)
          /\ delivered' = delivered + result
          /\ IF done_reading(b)
             THEN /\ receiver(IF b = 0 THEN "no_message" ELSE "ok", b)
                  /\ UNCHANGED buf_off
             ELSE /\ buf_off' = advance(buf_off, b)
                  /\ start_io
                  /\ UNCHANGED <<receiver_calls, reported>>
     ELSE /\ receiver("error", result)
          /\ UNCHANGED <<op_vars, delivered>>
  /\ UNCHANGED <<mode_vars, result, peer_vars, consumed, placed, oob>>

-----------------------------------------------------------------------------

\* The constructor: buffer_ is the whole user buffer, bytes = 0, the offset
\* the stream's (0 here); a file has all its bytes from the start.
Init ==
  /\ \E m \in Modes : Fully = m.fully /\ Seekable = m.seekable
  /\ StreamLen \in StreamLens
  /\ phase = "unstarted"
  /\ buf_off = 0
  /\ bytes = 0 /\ offset = 0 /\ result = 0
  /\ written = IF Seekable THEN StreamLen ELSE 0
  /\ closed = Seekable
  /\ consumed = 0
  /\ placed = [i \in 0..Size - 1 |-> -1]
  /\ oob = FALSE
  /\ delivered = 0
  /\ receiver_calls = 0
  /\ reported = [ec |-> "none", bytes |-> 0]

\* The operation has finished and the peer has nothing left to do.
Finished ==
  /\ phase = "done"
  /\ UNCHANGED vars

Next ==
  \/ Start
  \/ OnScheduleComplete
  \/ PeerWrite
  \/ PeerClose
  \/ KernelRead
  \/ KernelFail
  \/ OnIoComplete
  \/ Finished

\* The loop thread runs its steps (weak fairness on each handler), the
\* kernel completes a read that can complete, and the peer eventually
\* writes what it writes and closes if it closes.  A failure is possible,
\* never forced.
Fairness ==
  /\ WF_vars(PeerWrite)
  /\ WF_vars(PeerClose)
  /\ WF_vars(Start)
  /\ WF_vars(OnScheduleComplete)
  /\ WF_vars(KernelRead)
  /\ WF_vars(OnIoComplete)

Spec == Init /\ [][Next]_vars /\ Fairness

-----------------------------------------------------------------------------
(* Properties.                                                             *)

TypeOK ==
  /\ phase \in Phases
  /\ buf_off \in 0..Size + 1
  /\ bytes \in Nat /\ offset \in Nat
  /\ result \in Int
  /\ placed \in [0..Size - 1 -> -1..StreamLen]
  /\ written \in 0..StreamLen
  /\ oob \in BOOLEAN
  /\ receiver_calls \in 0..1

\* Across restarts of a partial read, the receiver is called once, and
\* reports what the kernel delivered: on success the sum of all results,
\* no_message exactly when nothing was delivered, and the file offset is
\* advanced by exactly the bytes delivered.
ResultAccounted ==
  /\ phase = "done" <=> receiver_calls = 1
  /\ reported.ec \in {"ok", "no_message"} =>
       /\ reported.bytes = delivered
       /\ reported.ec = "no_message" <=> delivered = 0
  /\ Seekable => offset = delivered

ReadCompletes == phase # "unstarted" ~> phase = "done"
====
