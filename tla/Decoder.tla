------------------------------ MODULE Decoder ------------------------------
(***************************************************************************)
(* bytes_decoder and object_decoder: what is read is gathered, decode is   *)
(* called until it takes nothing more, and what it puts out goes to the    *)
(* next handler, which may throw.  decode is the application's: here the   *)
(* items are those of frames, each the number of items that follow and     *)
(* then the items, and it takes the first frame or all complete ones.      *)
(***************************************************************************)
EXTENDS ByteBuffer

CONSTANTS
  Items,       \* values of a byte, or objects
  Inputs,      \* the buffers on_read is given
  MaxItems,    \* bound: items read
  MaxThrows    \* bound: exceptions

ASSUME DecoderAssumption ==
  /\ Items \subseteq Nat
  /\ Inputs \subseteq Buffers(Items)
  /\ {MaxItems, MaxThrows} \subseteq Nat

VARIABLES
  kind,         \* which of the two decoders this is
  pc,           \* "idle", in the loop before "decode", or handing on: "notify"
  cumulative,   \* cumulative_buf, or cumulative_obj with position 0
  output,       \* what is in `output`, from the iterator on
  arrived,      \* history: all that was read
  seen,         \* history: frames handed on, or dropped by an exception
  throws,       \* history: exceptions
  threw         \* history: the last on_read ended in one

vars == <<kind, pc, cumulative, output, arrived, seen, throws, threw>>

Init ==
  /\ kind \in {"bytes", "objects"}
  /\ pc = "idle"
  /\ cumulative = NewBuffer
  /\ output = <<>>
  /\ arrived = <<>>
  /\ seen = <<>>
  /\ throws = 0
  /\ threw = FALSE

-----------------------------------------------------------------------------
(* Frames.  One without items is a keep-alive: it is taken and puts out nothing. *)

\* Size of the frame at the front of s, 0 if it is not complete.
FrameSize(s) == IF s # <<>> /\ s[1] < Len(s) THEN s[1] + 1 ELSE 0

After(s, n) == SubSeq(s, n + 1, Len(s))

Frames[s \in Seq(Items)] ==
  LET n == FrameSize(s) IN
  IF n = 0 THEN <<>>
  ELSE (IF n = 1 THEN <<>> ELSE <<SubSeq(s, 2, n)>>) \o Frames[After(s, n)]

\* How many items the complete frames at the front of s have.
Complete[s \in Seq(Items)] ==
  LET n == FrameSize(s) IN IF n = 0 THEN 0 ELSE n + Complete[After(s, n)]

-----------------------------------------------------------------------------
(* on_read.  A definition whose comment is in parentheses is a faulty variant *)
(* of the one after it, which nothing uses.                                   *)

\* A buffer that is empty is replaced, position and all.
Gathered(b) == IF IsEmpty(cumulative) THEN b ELSE AppendFrom(cumulative, b)

ReadBytes(b) == kind = "bytes" /\ cumulative' = Gathered(b)

ReadObject(b) == kind = "objects" /\ Size(b) = 1 /\ cumulative' = Put(cumulative, Contents(b))

Read(b) ==
  /\ pc = "idle"
  /\ Len(arrived) + Size(b) <= MaxItems
  /\ ReadBytes(b) \/ ReadObject(b)
  /\ arrived' = arrived \o Contents(b)
  /\ pc' = "decode"
  /\ threw' = FALSE
  /\ UNCHANGED <<kind, output, seen, throws>>

\* (what an exception left there stays, and is handed on again)
StaleOutput == output
\* The list is cleared before each decode.
ClearedOutput == <<>>

\* decode takes n items: remove moves the position, pop_front frees.
Taken(n) ==
  IF kind = "bytes" THEN RemoveFront(cumulative, n) ELSE Discard(RemoveFront(cumulative, n))

Decode(n) ==
  /\ pc = "decode"
  /\ n \in {FrameSize(Contents(cumulative)), Complete[Contents(cumulative)]}
  /\ n > 0
  /\ cumulative' = Taken(n)
  /\ output' = ClearedOutput \o Frames[SubSeq(Contents(cumulative), 1, n)]
  /\ pc' = "notify"
  /\ UNCHANGED <<kind, arrived, seen, throws, threw>>

\* decode takes nothing: on_read returns.
NothingTaken ==
  /\ pc = "decode"
  /\ FrameSize(Contents(cumulative)) = 0
  /\ output' = <<>>
  /\ pc' = "idle"
  /\ UNCHANGED <<kind, cumulative, arrived, seen, throws, threw>>

Notify ==
  /\ pc = "notify"
  /\ output # <<>>
  /\ seen' = Append(seen, Head(output))
  /\ output' = Tail(output)
  /\ UNCHANGED <<kind, pc, cumulative, arrived, throws, threw>>

\* (decode is called once)
Returns == "idle"
LoopsOn == "decode"

Notified ==
  /\ pc = "notify"
  /\ output = <<>>
  /\ pc' = LoopsOn
  /\ UNCHANGED <<kind, cumulative, output, arrived, seen, throws, threw>>

\* The next handler throws at the frame handed on last, or decode does, before or after
\* it took something.  What was put out is not handed on; what was not taken waits for
\* the next read.
Throw ==
  /\ pc \in {"decode", "notify"}
  /\ throws < MaxThrows
  /\ throws' = throws + 1
  /\ threw' = TRUE
  /\ seen' = IF pc = "notify" THEN seen \o output ELSE seen
  /\ pc' = "idle"
  /\ UNCHANGED <<kind, cumulative, output, arrived>>

\* bytes_decoder::on_read_complete; object_decoder has none of its own.
ReadComplete ==
  /\ pc = "idle"
  /\ kind = "bytes"
  /\ cumulative' = Discard(cumulative)
  /\ UNCHANGED <<kind, pc, output, arrived, seen, throws, threw>>

Next ==
  \/ \E b \in Inputs : Read(b)
  \/ \E n \in 1 .. MaxItems : Decode(n)
  \/ NothingTaken \/ Notify \/ Notified \/ Throw \/ ReadComplete

Spec == Init /\ [][Next]_vars

-----------------------------------------------------------------------------
(* Properties. *)

\* Every variable keeps its type; in particular no byte_buffer assertion fails.
TypeOK ==
  /\ kind \in {"bytes", "objects"}
  /\ pc \in {"idle", "decode", "notify"}
  /\ cumulative \in Buffers(Items)
  /\ output \in Seq(Seq(Items))
  /\ arrived \in Seq(Items)
  /\ seen \in Seq(Seq(Items))
  /\ throws \in 0 .. MaxThrows
  /\ threw \in BOOLEAN

\* The frames of what was read are handed on to the next handler, or dropped by an
\* exception, in order and each once, however the input was cut: none comes twice, none
\* with a later read, and none is skipped that no exception dropped.
FramesInOrder ==
  /\ Len(seen) <= Len(Frames[arrived])
  /\ seen = SubSeq(Frames[arrived], 1, Len(seen))

\* on_read does not return with a frame complete, unless by an exception.
NothingWaits == pc = "idle" /\ ~threw => seen = Frames[arrived]
=============================================================================
