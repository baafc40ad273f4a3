--------------------------- MODULE OutputBuffers ---------------------------
(***************************************************************************)
(* The two output buffers of a channel and the loop that sends them, call  *)
(* by call: write, flush, begin_write, send_socket.  Everything here runs  *)
(* on the loop thread; only the peer acts between two sends.  Handlers run *)
(* while pc is "idle": on_error comes last in begin_write, so what it does *)
(* is done as if begin_write had returned.                                 *)
(***************************************************************************)
EXTENDS ByteBuffer, SendOutcome

CONSTANTS
  Bytes,       \* values of a byte
  Inputs,      \* the buffers handlers write
  Room,        \* capacity of the socket's send buffer
  MaxBytes,    \* bound: bytes written to the channel
  Resets       \* whether the peer may reset the connection

ASSUME OutputAssumption ==
  /\ Inputs \subseteq Buffers(Bytes)
  /\ Room \in Nat \ {0}
  /\ MaxBytes \in Nat
  /\ Resets \in BOOLEAN

VARIABLES
  pc,              \* "idle", or "sending" in the loop of begin_write
  written, flushed,    \* written_buf and flushed_buf
  spin,            \* spin_count
  writeInterest, finished, outClosed,   \* the channel's flags
  room,            \* free space in the socket's send buffer
  broken,          \* the connection was reset
  accepted,        \* history: the bytes write took
  wire,            \* history: the bytes the socket took
  start,           \* history: size, room and broken when begin_write was entered
  result           \* history: what the last begin_write came to

bufferVars == <<written, flushed, accepted, wire>>
flagVars == <<writeInterest, finished, outClosed>>
socketVars == <<room, broken>>
callVars == <<pc, spin, start, result>>
vars == <<bufferVars, flagVars, socketVars, callVars>>

Start == [size : Nat, room : Nat, broken : BOOLEAN]

Init ==
  /\ pc = "idle"
  /\ written = NewBuffer
  /\ flushed = NewBuffer
  /\ spin = WriteSpin
  /\ writeInterest = TRUE
  /\ finished = FALSE
  /\ outClosed = FALSE
  /\ room = Room
  /\ broken = FALSE
  /\ accepted = <<>>
  /\ wire = <<>>
  /\ start = [size |-> 0, room |-> Room, broken |-> FALSE]
  /\ result = [n |-> 0, more |-> FALSE, failed |-> FALSE]

-----------------------------------------------------------------------------

Write(b) ==
  /\ pc = "idle"
  /\ ~finished
  /\ Len(accepted) + Size(b) <= MaxBytes
  /\ written' = AppendFrom(written, b)
  /\ accepted' = accepted \o Contents(b)
  /\ UNCHANGED <<flushed, wire, flagVars, socketVars, callVars>>

\* A send fails: the connection was reset, or the output was shut down before.
SendsFail == broken \/ outClosed

\* begin_write is entered with f as flushed_buf.
BeginWrite(f) ==
  /\ pc' = "sending"
  /\ flushed' = f
  /\ spin' = WriteSpin
  /\ start' = [size |-> Size(f), room |-> room, broken |-> SendsFail]
  /\ UNCHANGED <<accepted, wire, flagVars, socketVars, result>>

Flush ==
  /\ pc = "idle"
  /\ ~finished
  /\ BeginWrite(AppendFrom(flushed, written))
  /\ written' = Clear(written)

\* An event, which may be of a time when the interest was another.
TriggerWrite ==
  /\ pc = "idle"
  /\ BeginWrite(flushed)
  /\ UNCHANGED written

\* One send takes n bytes.
Send(n) ==
  /\ pc = "sending"
  /\ spin > 0
  /\ n <= Size(flushed)
  /\ ~SendsFail
  /\ n <= room
  /\ wire' = wire \o SubSeq(Contents(flushed), 1, n)
  /\ flushed' = RemoveFront(flushed, n)
  /\ spin' = spin - 1
  /\ room' = room - n
  /\ UNCHANGED <<pc, start, result, written, accepted, flagVars, broken>>

Sent == start.size - Size(flushed)

\* The end of begin_write, after the loop.
Complete(more) ==
  /\ pc' = "idle"
  /\ flushed' = Discard(flushed)
  /\ IF finished /\ ~writeInterest
     THEN outClosed' = TRUE /\ UNCHANGED writeInterest
     ELSE writeInterest' = more /\ UNCHANGED outClosed
  /\ result' = [n |-> Sent, more |-> more, failed |-> FALSE]
  /\ UNCHANGED <<written, accepted, wire, finished, socketVars, spin, start>>

\* (a loop that has spun out ends as if it had sent everything)
DrainedOrSpun == spin = 0 \/ IsEmpty(flushed)
\* The loop's condition: once spun out, it is not evaluated again.
Drained == spin > 0 /\ IsEmpty(flushed)

Finished ==
  /\ pc = "sending"
  /\ Drained
  /\ Complete(FALSE)

SpunOut ==
  /\ pc = "sending"
  /\ spin = 0
  /\ Complete(TRUE)

\* EAGAIN
SocketFull ==
  /\ pc = "sending"
  /\ spin > 0 /\ ~IsEmpty(flushed)
  /\ ~SendsFail
  /\ room = 0
  /\ Complete(TRUE)

\* Any other error: on_error, and the rest of begin_write is skipped.
SendFails ==
  /\ pc = "sending"
  /\ spin > 0 /\ ~IsEmpty(flushed)
  /\ SendsFail
  /\ pc' = "idle"
  /\ result' = [n |-> Sent, more |-> FALSE, failed |-> TRUE]
  /\ UNCHANGED <<bufferVars, flagVars, socketVars, spin, start>>

Finish ==
  /\ pc = "idle"
  /\ finished' = TRUE
  /\ UNCHANGED <<bufferVars, writeInterest, outClosed, socketVars, callVars>>

\* From on_disconnect.
ShutdownOutput ==
  /\ pc = "idle"
  /\ outClosed' = TRUE
  /\ writeInterest' = FALSE
  /\ UNCHANGED <<bufferVars, finished, socketVars, callVars>>

PeerReads ==
  /\ room < Room
  /\ room' = room + 1
  /\ UNCHANGED <<bufferVars, flagVars, broken, callVars>>

PeerResets ==
  /\ Resets
  /\ broken' = TRUE
  /\ UNCHANGED <<bufferVars, flagVars, room, callVars>>

Next ==
  \/ \E b \in Inputs : Write(b)
  \/ Flush
  \/ TriggerWrite
  \/ \E n \in 1 .. Room : Send(n)
  \/ Finished
  \/ SpunOut
  \/ SocketFull
  \/ SendFails
  \/ Finish
  \/ ShutdownOutput
  \/ PeerReads
  \/ PeerResets

Spec == Init /\ [][Next]_vars

-----------------------------------------------------------------------------
(* Properties. *)

\* Every variable keeps its type; in particular no byte_buffer assertion fails.
TypeOK ==
  /\ pc \in {"idle", "sending"}
  /\ written \in Buffers(Bytes)
  /\ flushed \in Buffers(Bytes)
  /\ spin \in 0 .. WriteSpin
  /\ writeInterest \in BOOLEAN /\ finished \in BOOLEAN
  /\ outClosed \in BOOLEAN /\ broken \in BOOLEAN
  /\ room \in 0 .. Room
  /\ accepted \in Seq(Bytes)
  /\ wire \in Seq(Bytes)
  /\ start \in Start
  /\ result \in Outcome

\* The bytes on the wire, then what is flushed, then what is only written, are the
\* bytes that write took: none lost, doubled or out of order at any partial send,
\* error, or write in between.
StreamIntact ==
  (wire \o Contents(flushed)) \o Contents(written) = accepted

\* When begin_write has not failed, no byte already sent takes up memory.
SpaceReclaimed ==
  pc = "idle" /\ ~result.failed => flushed.position = 0 /\ written.position = 0

\* Whatever the socket does between the sends, begin_write comes to one of the
\* outcomes EventChannel reckons with.
LoopOutcomes ==
  [][pc = "sending" /\ pc' = "idle" =>
       result' \in SendOutcomes(start.size, start.room, start.broken, Resets)]_vars
=============================================================================
