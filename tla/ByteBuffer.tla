----------------------------- MODULE ByteBuffer -----------------------------
(***************************************************************************)
(* byte_buffer: a vector of bytes, and how many at its front were removed. *)
(* Removing only moves the position; the space is given back by discard    *)
(* and clear.  A definition whose comment is in parentheses is a faulty     *)
(* variant of the one after it, which nothing uses: PROJECT.json names the *)
(* property it breaks.                                                     *)
(***************************************************************************)
EXTENDS Integers, Sequences

\* The buffers over the bytes B that keep what the class asserts.
Buffers(B) ==
  {b \in [buffer : Seq(B), position : Nat] : b.position <= Len(b.buffer)}

NewBuffer == [buffer |-> <<>>, position |-> 0]

Size(b) == Len(b.buffer) - b.position
IsEmpty(b) == Len(b.buffer) = b.position

\* What get() and size() give access to.
Contents(b) == SubSeq(b.buffer, b.position + 1, Len(b.buffer))

Put(b, d) == [b EXCEPT !.buffer = @ \o d]

\* (everything ever put is copied, removed or not)
AppendRaw(b, t) == Put(b, t.buffer)
AppendFrom(b, t) == Put(b, Contents(t))

\* Asserts n <= Size(b).
RemoveFront(b, n) == [b EXCEPT !.position = @ + n]

\* (the bytes go, the position stays)
DiscardOnly(b) == [b EXCEPT !.buffer = Contents(b)]
Discard(b) == [buffer |-> Contents(b), position |-> 0]

Clear(b) == NewBuffer
=============================================================================
