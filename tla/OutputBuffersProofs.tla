------------------------ MODULE OutputBuffersProofs ------------------------
(***************************************************************************)
(* What the operations of byte_buffer do to the bytes it holds, and what   *)
(* holds of OutputBuffers for all bytes, inputs and bounds.                *)
(***************************************************************************)
EXTENDS OutputBuffers, SequenceTheorems, TLAPS

-----------------------------------------------------------------------------
(* byte_buffer *)

\* The bytes a buffer holds.
LEMMA ContentsType ==
  ASSUME NEW B, NEW b \in Buffers(B)
  PROVE  /\ b.buffer \in Seq(B) /\ b.position \in Nat /\ b.position <= Len(b.buffer)
         /\ Size(b) \in Nat
         /\ Contents(b) \in Seq(B)
         /\ Len(Contents(b)) = Size(b)
         /\ \A i \in 1 .. Size(b) : Contents(b)[i] = b.buffer[b.position + i]
<1>1. b.buffer \in Seq(B) /\ b.position \in Nat /\ b.position <= Len(b.buffer)
  BY DEF Buffers
<1>2. Size(b) \in Nat /\ Len(b.buffer) \in Nat /\ Size(b) = Len(b.buffer) - b.position
  BY <1>1, LenProperties DEF Size
<1>3. \A i \in b.position + 1 .. Len(b.buffer) : b.buffer[i] \in B
  BY <1>1, ElementOfSeq
<1>4. /\ Contents(b) \in Seq(B)
      /\ Len(Contents(b)) = IF b.position + 1 <= Len(b.buffer)
                            THEN Len(b.buffer) - (b.position + 1) + 1 ELSE 0
      /\ \A i \in 1 .. Len(b.buffer) - (b.position + 1) + 1 :
           Contents(b)[i] = b.buffer[b.position + 1 + i - 1]
  <2> DEFINE q == b.buffer
             m == b.position + 1
             n == Len(b.buffer)
  <2>1. m \in Int /\ n \in Int /\ \A i \in m .. n : q[i] \in B
    BY <1>1, <1>2, <1>3
  <2> HIDE DEF q, m, n
  <2>2. /\ SubSeq(q, m, n) \in Seq(B)
        /\ Len(SubSeq(q, m, n)) = IF m <= n THEN n - m + 1 ELSE 0
        /\ \A i \in 1 .. n - m + 1 : SubSeq(q, m, n)[i] = q[m + i - 1]
    BY <2>1, SubSeqProperties
  <2> QED
    BY <2>2 DEF Contents, q, m, n
<1>5. Len(Contents(b)) = Size(b)
  BY <1>1, <1>2, <1>4
<1>6. ASSUME NEW i \in 1 .. Size(b) PROVE Contents(b)[i] = b.buffer[b.position + i]
  <2>1. i \in 1 .. Len(b.buffer) - (b.position + 1) + 1
    BY <1>1, <1>2
  <2>2. Contents(b)[i] = b.buffer[b.position + 1 + i - 1]
    BY <1>4, <2>1
  <2>3. b.position + 1 + i - 1 = b.position + i
    BY <1>1, <2>1
  <2> QED
    BY <2>2, <2>3
<1>7. Contents(b) \in Seq(B)
  BY <1>4
<1> QED
  BY <1>1, <1>2, <1>5, <1>6, <1>7

\* put adds at the end, whatever was removed at the front.
LEMMA PutContents ==
  ASSUME NEW B, NEW b \in Buffers(B), NEW d \in Seq(B)
  PROVE  /\ Put(b, d) \in Buffers(B)
         /\ Contents(Put(b, d)) = Contents(b) \o d
<1> DEFINE p == Put(b, d)
<1>1. p = [buffer |-> b.buffer \o d, position |-> b.position]
  <2>1. b = [buffer |-> b.buffer, position |-> b.position]
    BY DEF Buffers
  <2> DEFINE e == b.buffer \o d
  <2>2. p = [b EXCEPT !.buffer = e]
    BY DEF Put
  <2> HIDE DEF e, p
  <2>3. p = [buffer |-> e, position |-> b.position]
    BY <2>1, <2>2
  <2> QED
    BY <2>3 DEF e
<1>2. b.buffer \o d \in Seq(B) /\ Len(b.buffer \o d) = Len(b.buffer) + Len(d)
  BY ContentsType, ConcatProperties
<1>3. p \in Buffers(B)
  BY <1>1, <1>2, ContentsType, LenProperties DEF Buffers
<1>4. p.buffer = b.buffer \o d /\ p.position = b.position
  BY <1>1
<1> HIDE DEF p
<1>5. /\ Contents(b) \o d \in Seq(B) /\ Len(Contents(b) \o d) = Size(b) + Len(d)
      /\ \A i \in 1 .. Size(b) + Len(d) :
           (Contents(b) \o d)[i] = IF i <= Size(b) THEN Contents(b)[i] ELSE d[i - Size(b)]
  <2> DEFINE c == Contents(b)
  <2>1. c \in Seq(B) /\ Len(c) = Size(b)
    BY ContentsType
  <2> HIDE DEF c
  <2>2. /\ c \o d \in Seq(B) /\ Len(c \o d) = Len(c) + Len(d)
        /\ \A i \in 1 .. Len(c) + Len(d) :
             (c \o d)[i] = IF i <= Len(c) THEN c[i] ELSE d[i - Len(c)]
    BY <2>1, ConcatProperties
  <2> QED
    BY <2>1, <2>2 DEF c
<1>6. Contents(p) \in Seq(B) /\ Len(Contents(p)) = Size(p) /\ Size(p) = Size(b) + Len(d)
  BY <1>2, <1>3, <1>4, ContentsType, LenProperties DEF Size
<1>7. ASSUME NEW i \in 1 .. Size(p) PROVE Contents(p)[i] = (Contents(b) \o d)[i]
  <2>1. Contents(p)[i] = (b.buffer \o d)[b.position + i]
    BY <1>3, <1>4, ContentsType
  <2>2. b.position + i \in 1 .. Len(b.buffer) + Len(d)
    BY <1>6, ContentsType, LenProperties DEF Size
  <2>3. (b.buffer \o d)[b.position + i] =
          IF b.position + i <= Len(b.buffer) THEN b.buffer[b.position + i]
          ELSE d[b.position + i - Len(b.buffer)]
    BY <2>2, ContentsType, ConcatProperties
  <2>4. (Contents(b) \o d)[i] = IF i <= Size(b) THEN Contents(b)[i] ELSE d[i - Size(b)]
    BY <1>5, <1>6
  <2>5. i <= Size(b) => Contents(b)[i] = b.buffer[b.position + i]
    BY ContentsType
  <2>6. Size(b) = Len(b.buffer) - b.position /\ b.position \in Nat /\ Len(b.buffer) \in Nat
    BY ContentsType, LenProperties DEF Size
  <2> QED
    BY <2>1, <2>3, <2>4, <2>5, <2>6
<1>8. Contents(p) = Contents(b) \o d
  <2> DEFINE u == Contents(p)
             v == Contents(b) \o d
  <2>1. u \in Seq(B) /\ Len(u) = Size(p)
    BY <1>6
  <2>2. v \in Seq(B) /\ Len(v) = Size(p)
    BY <1>5, <1>6
  <2>3. \A i \in 1 .. Size(p) : u[i] = v[i]
    BY <1>7
  <2> HIDE DEF u, v
  <2>4. u = v
    BY <2>1, <2>2, <2>3, SeqEqual
  <2> QED
    BY <2>4 DEF u, v
<1> QED
  BY <1>3, <1>8 DEF p

\* remove takes from the front.
LEMMA RemoveContents ==
  ASSUME NEW B, NEW b \in Buffers(B), NEW n \in 0 .. Size(b)
  PROVE  /\ RemoveFront(b, n) \in Buffers(B)
         /\ Size(RemoveFront(b, n)) = Size(b) - n
         /\ SubSeq(Contents(b), 1, n) \in Seq(B)
         /\ SubSeq(Contents(b), 1, n) \o Contents(RemoveFront(b, n)) = Contents(b)
<1> DEFINE r == RemoveFront(b, n)
           s == SubSeq(Contents(b), 1, n)
<1>1. r = [buffer |-> b.buffer, position |-> b.position + n]
  BY DEF RemoveFront, Buffers
<1>2. Size(b) = Len(b.buffer) - b.position /\ b.position \in Nat /\ Len(b.buffer) \in Nat
  BY ContentsType, LenProperties DEF Size
<1>3. r \in Buffers(B) /\ Size(r) = Size(b) - n
  BY <1>1, <1>2, ContentsType DEF Buffers, Size
<1>4. r.buffer = b.buffer /\ r.position = b.position + n
  BY <1>1
<1> HIDE DEF r
<1>5. \A i \in 1 .. n : Contents(b)[i] \in B
  BY <1>2, ContentsType, ElementOfSeq
<1>6. s \in Seq(B) /\ Len(s) = n /\ \A i \in 1 .. n : s[i] = Contents(b)[i]
  BY <1>2, <1>5, SubSeqProperties
<1> HIDE DEF s
<1>7. /\ Contents(r) \in Seq(B) /\ Len(Contents(r)) = Size(r)
      /\ \A i \in 1 .. Size(r) : Contents(r)[i] = b.buffer[b.position + n + i]
  BY <1>3, <1>4, ContentsType
<1>8. /\ s \o Contents(r) \in Seq(B) /\ Len(s \o Contents(r)) = n + Size(r)
      /\ \A i \in 1 .. n + Size(r) :
           (s \o Contents(r))[i] = IF i <= n THEN s[i] ELSE Contents(r)[i - n]
  <2> DEFINE c == Contents(r)
  <2>1. s \in Seq(B) /\ c \in Seq(B) /\ Len(s) = n /\ Len(c) = Size(r)
    BY <1>6, <1>7
  <2> HIDE DEF c
  <2>2. /\ s \o c \in Seq(B) /\ Len(s \o c) = Len(s) + Len(c)
        /\ \A i \in 1 .. Len(s) + Len(c) :
             (s \o c)[i] = IF i <= Len(s) THEN s[i] ELSE c[i - Len(s)]
    BY <2>1, ConcatProperties
  <2> QED
    BY <2>1, <2>2 DEF c
<1>9. ASSUME NEW i \in 1 .. Size(b) PROVE (s \o Contents(r))[i] = Contents(b)[i]
  <2>1. (s \o Contents(r))[i] = IF i <= n THEN s[i] ELSE Contents(r)[i - n]
    BY <1>2, <1>3, <1>8
  <2>2. Contents(b)[i] = b.buffer[b.position + i]
    BY ContentsType
  <2>3. i > n => Contents(r)[i - n] = b.buffer[b.position + n + (i - n)]
    BY <1>2, <1>3, <1>7
  <2> QED
    BY <1>2, <1>6, <2>1, <2>2, <2>3
<1>10. s \o Contents(r) = Contents(b)
  <2> DEFINE u == s \o Contents(r)
             v == Contents(b)
  <2>1. n + Size(r) = Size(b)
    BY <1>2, <1>3
  <2>2. u \in Seq(B) /\ Len(u) = Size(b)
    BY <2>1, <1>8
  <2>3. v \in Seq(B) /\ Len(v) = Size(b)
    BY ContentsType
  <2>4. \A i \in 1 .. Size(b) : u[i] = v[i]
    BY <1>9
  <2> HIDE DEF u, v
  <2>5. u = v
    BY <2>2, <2>3, <2>4, SeqEqual
  <2> QED
    BY <2>5 DEF u, v
<1> QED
  BY <1>3, <1>6, <1>10 DEF r, s

\* discard changes nothing but the position.
LEMMA DiscardContents ==
  ASSUME NEW B, NEW b \in Buffers(B)
  PROVE  /\ Discard(b) \in Buffers(B)
         /\ Discard(b).position = 0
         /\ Size(Discard(b)) = Size(b)
         /\ Contents(Discard(b)) = Contents(b)
<1>1. Contents(b) \in Seq(B) /\ Len(Contents(b)) = Size(b) /\ Size(b) \in Nat
  BY ContentsType
<1>2. SubSeq(Contents(b), 1, Len(Contents(b))) = Contents(b)
  BY <1>1, SubSeqFull
<1>3. Discard(b).buffer = Contents(b) /\ Discard(b).position = 0
  BY DEF Discard
<1>4. Discard(b) \in Buffers(B)
  BY <1>1 DEF Discard, Buffers
<1>5. Size(Discard(b)) = Size(b)
  <2>1. Size(Discard(b)) = Len(Contents(b)) - 0
    BY <1>3 DEF Size
  <2> QED
    BY <1>1, <2>1
<1>6. Contents(Discard(b)) = SubSeq(Contents(b), 0 + 1, Len(Contents(b)))
  <2> DEFINE q == Discard(b)
  <2>1. Contents(q) = SubSeq(q.buffer, q.position + 1, Len(q.buffer))
    BY DEF Contents
  <2> QED
    BY <1>3, <2>1
<1> QED
  BY <1>2, <1>3, <1>4, <1>5, <1>6

\* A new buffer holds nothing.
LEMMA NewContents ==
  ASSUME NEW B
  PROVE  /\ NewBuffer \in Buffers(B)
         /\ NewBuffer.position = 0
         /\ Contents(NewBuffer) = <<>>
<1>1. SubSeq(<<>>, 1, 0) = <<>>
  BY SubSeqEmpty
<1>2. Len(<<>>) = 0 /\ <<>> \in Seq(B)
  BY EmptySeq
<1> QED
  BY <1>1, <1>2 DEF NewBuffer, Buffers, Contents

-----------------------------------------------------------------------------
(* Types, and how far the send loop has come. *)

\* What the loop has sent since begin_write was entered, against its counters.
LoopInv ==
  pc = "sending" =>
    /\ Size(flushed) <= start.size
    /\ start.size - Size(flushed) >= WriteSpin - spin
    /\ room + (start.size - Size(flushed)) >= start.room
    /\ start.broken => SendsFail /\ Size(flushed) = start.size /\ spin = WriteSpin
    /\ SendsFail => start.broken \/ Resets

\* append_from adds what the other buffer holds.
LEMMA AppendContents ==
  ASSUME NEW B, NEW b \in Buffers(B), NEW t \in Buffers(B)
  PROVE  /\ AppendFrom(b, t) \in Buffers(B)
         /\ AppendFrom(b, t).position = b.position
         /\ Contents(AppendFrom(b, t)) = Contents(b) \o Contents(t)
<1>1. Contents(t) \in Seq(B)
  BY ContentsType
<1>2. AppendFrom(b, t).position = b.position
  BY DEF AppendFrom, Put, Buffers
<1> QED
  BY <1>1, <1>2, PutContents DEF AppendFrom

\* Initially nothing is written, and the channel is idle.
LEMMA OutputInit == Init => TypeOK /\ LoopInv
<1> SUFFICES ASSUME Init PROVE TypeOK /\ LoopInv
  OBVIOUS
<1>1. NewBuffer \in Buffers(Bytes)
  BY NewContents
<1>2. <<>> \in Seq(Bytes)
  OBVIOUS
<1>3. [size |-> 0, room |-> Room, broken |-> FALSE] \in Start
  BY OutputAssumption DEF Start
<1>4. [n |-> 0, more |-> FALSE, failed |-> FALSE] \in Outcome
  BY DEF Outcome
<1>5. /\ spin \in 0 .. WriteSpin /\ room \in 0 .. Room /\ pc = "idle"
      /\ accepted \in Seq(Bytes) /\ wire \in Seq(Bytes)
  BY <1>2, SpinAssumption, OutputAssumption DEF Init
<1> QED
  BY <1>1, <1>3, <1>4, <1>5 DEF Init, TypeOK, LoopInv

\* begin_write starts its counts anew.
LEMMA BeginStep ==
  ASSUME TypeOK, NEW f \in Buffers(Bytes), BeginWrite(f), written' \in Buffers(Bytes)
  PROVE  TypeOK' /\ LoopInv'
<1>1. Size(f) \in Nat
  BY ContentsType
<1>2. TypeOK'
  BY <1>1, SpinAssumption, OutputAssumption
     DEF BeginWrite, TypeOK, Start, SendsFail, flagVars, socketVars
<1>3. LoopInv'
  BY <1>1, SpinAssumption, OutputAssumption
     DEF BeginWrite, TypeOK, LoopInv, SendsFail, flagVars, socketVars
<1> QED
  BY <1>2, <1>3

\* The end of begin_write leaves a result of the right type.
LEMMA CompleteStep ==
  ASSUME TypeOK, LoopInv, pc = "sending", NEW more \in BOOLEAN, Complete(more)
  PROVE  TypeOK' /\ LoopInv'
<1>1. Discard(flushed) \in Buffers(Bytes)
  BY DiscardContents DEF TypeOK
<1>2. Sent \in Nat
  <2>1. Size(flushed) \in Nat
    BY ContentsType DEF TypeOK
  <2> QED
    BY <2>1 DEF LoopInv, TypeOK, Start, Sent
<1>3. TypeOK'
  BY <1>1, <1>2 DEF Complete, TypeOK, Outcome, socketVars
<1> QED
  BY <1>3 DEF Complete, LoopInv

\* Types and counts are kept by every step.
LEMMA OutputStep == TypeOK /\ LoopInv /\ [Next]_vars => TypeOK' /\ LoopInv'
<1> SUFFICES ASSUME TypeOK, LoopInv, [Next]_vars PROVE TypeOK' /\ LoopInv'
  OBVIOUS
<1>1. ASSUME NEW b \in Inputs, Write(b)
      PROVE  TypeOK' /\ LoopInv'
  <2>1. b \in Buffers(Bytes)
    BY OutputAssumption
  <2>2. AppendFrom(written, b) \in Buffers(Bytes) /\ Contents(b) \in Seq(Bytes)
    BY <2>1, AppendContents, ContentsType DEF TypeOK
  <2>3. accepted \o Contents(b) \in Seq(Bytes)
    BY <2>2, ConcatProperties DEF TypeOK
  <2> QED
    BY <1>1, <2>2, <2>3 DEF Write, TypeOK, LoopInv, flagVars, socketVars, callVars
<1>2. CASE Flush
  <2>1. AppendFrom(flushed, written) \in Buffers(Bytes) /\ Clear(written) \in Buffers(Bytes)
    BY AppendContents, NewContents DEF TypeOK, Clear
  <2> QED
    BY <1>2, <2>1, BeginStep DEF Flush
<1>3. CASE TriggerWrite
  BY <1>3, BeginStep DEF TriggerWrite, TypeOK
<1>4. ASSUME NEW n \in 1 .. Room, Send(n)
      PROVE  TypeOK' /\ LoopInv'
  <2>1. n \in 0 .. Size(flushed) /\ Size(flushed) \in Nat
    BY <1>4, ContentsType, OutputAssumption DEF Send, TypeOK
  <2>2. /\ flushed' \in Buffers(Bytes)
        /\ Size(flushed') = Size(flushed) - n
        /\ SubSeq(Contents(flushed), 1, n) \in Seq(Bytes)
    BY <1>4, <2>1, RemoveContents DEF Send, TypeOK
  <2>3. wire' \in Seq(Bytes)
    BY <1>4, <2>2, ConcatProperties DEF Send, TypeOK
  <2>4. TypeOK'
    BY <1>4, <2>2, <2>3, OutputAssumption, SpinAssumption DEF Send, TypeOK, flagVars
  <2>5. LoopInv'
    BY <1>4, <2>1, <2>2, OutputAssumption, SpinAssumption
       DEF Send, TypeOK, LoopInv, SendsFail, Start, flagVars
  <2> QED
    BY <2>4, <2>5
<1>5. CASE Finished \/ SpunOut \/ SocketFull
  BY <1>5, CompleteStep DEF Finished, SpunOut, SocketFull
<1>6. CASE SendFails
  <2>1. Sent \in Nat
    <3>1. Size(flushed) \in Nat
      BY ContentsType DEF TypeOK
    <3> QED
      BY <1>6, <3>1 DEF LoopInv, TypeOK, Start, Sent, SendFails
  <2> QED
    BY <1>6, <2>1 DEF SendFails, TypeOK, LoopInv, Outcome, bufferVars, flagVars, socketVars
<1>7. CASE Finish \/ ShutdownOutput
  BY <1>7 DEF Finish, ShutdownOutput, TypeOK, LoopInv, bufferVars, socketVars, callVars
<1>8. CASE PeerReads
  <2>1. Size(flushed) \in Nat
    BY ContentsType DEF TypeOK
  <2>2. TypeOK'
    BY <1>8, OutputAssumption DEF PeerReads, TypeOK, bufferVars, flagVars, callVars
  <2> QED
    BY <1>8, <2>1, <2>2
       DEF PeerReads, TypeOK, LoopInv, SendsFail, Start, bufferVars, flagVars, callVars
<1>9. CASE PeerResets
  BY <1>9 DEF PeerResets, TypeOK, LoopInv, SendsFail, bufferVars, flagVars, callVars
<1>10. CASE UNCHANGED vars
  BY <1>10 DEF vars, TypeOK, LoopInv, SendsFail, bufferVars, flagVars, socketVars, callVars
<1> QED
  BY <1>1, <1>2, <1>3, <1>4, <1>5, <1>6, <1>7, <1>8, <1>9, <1>10 DEF Next

\* Types and counts hold throughout.
LEMMA OutputCorrect == Spec => [](TypeOK /\ LoopInv)
  BY OutputInit, OutputStep, PTL DEF Spec

\* The buffers keep what byte_buffer asserts of them, and the rest its types.
THEOREM OutputTypeCorrect == Spec => []TypeOK
  BY OutputCorrect, PTL

-----------------------------------------------------------------------------
(* What begin_write comes to. *)

\* However the sends are cut and whatever the peer does between them, the loop comes
\* to one of the outcomes that EventChannel uses for the whole of begin_write.
THEOREM OutcomesCover == Spec => LoopOutcomes
<1>1. ASSUME TypeOK, LoopInv, [Next]_vars, pc = "sending", pc' = "idle"
      PROVE  result' \in SendOutcomes(start.size, start.room, start.broken, Resets)
  <2>1. /\ Size(flushed) \in Nat
        /\ Size(flushed) = Len(flushed.buffer) - flushed.position
        /\ Len(flushed.buffer) \in Nat /\ flushed.position \in Nat
    <3>1. flushed \in Buffers(Bytes)
      BY <1>1 DEF TypeOK
    <3> QED
      BY <3>1, ContentsType, LenProperties DEF Size
  <2>2. Sent \in 0 .. start.size /\ Sent = start.size - Size(flushed)
    BY <1>1, <2>1 DEF LoopInv, TypeOK, Start, Sent
  <2>3. IsEmpty(flushed) <=> Size(flushed) = 0
    BY <2>1 DEF IsEmpty
  <2>4. Finished \/ SpunOut \/ SocketFull \/ SendFails
    BY <1>1 DEF Next, Write, Flush, TriggerWrite, BeginWrite, Send, Finish, ShutdownOutput,
                PeerReads, PeerResets, vars, callVars
  <2>5. /\ start.size \in Nat /\ start.room \in Nat /\ start.broken \in BOOLEAN
        /\ spin \in 0 .. WriteSpin /\ room \in Nat /\ WriteSpin \in Nat \ {0, 1}
        /\ Resets \in BOOLEAN
    BY <1>1, OutputAssumption, SpinAssumption DEF TypeOK, Start
  <2>6. CASE Finished
    <3>1. Sent = start.size
      BY <2>2, <2>3, <2>5, <2>6 DEF Finished, Drained
    <3>2. result' = [n |-> start.size, more |-> FALSE, failed |-> FALSE]
      BY <2>6, <3>1 DEF Finished, Complete
    <3>3. start.broken => start.size = 0
      BY <1>1, <2>1, <2>3, <2>6 DEF LoopInv, Finished, Drained
    <3>4. CASE start.size = 0
      <4>1. SendOutcomes(start.size, start.room, start.broken, Resets)
              = {[n |-> 0, more |-> FALSE, failed |-> FALSE]}
        BY <3>4 DEF SendOutcomes
      <4>2. result' = [n |-> 0, more |-> FALSE, failed |-> FALSE]
        BY <3>2, <3>4
      <4> QED
        BY <4>1, <4>2
    <3>5. CASE start.size # 0
      <4>1. ~start.broken /\ start.size \in 0 .. start.size
        BY <3>3, <3>5, <2>5
      <4> QED
        BY <3>2, <3>5, <4>1 DEF SendOutcomes
    <3> QED
      BY <3>4, <3>5
  <2>7. CASE SpunOut
    <3>1. result' = [n |-> Sent, more |-> TRUE, failed |-> FALSE]
      BY <2>7 DEF SpunOut, Complete
    <3>2. Sent >= WriteSpin /\ ~start.broken /\ start.size # 0
      BY <1>1, <2>1, <2>2, <2>5, <2>7 DEF LoopInv, SpunOut
    <3> QED
      BY <3>1, <3>2, <2>2, <2>5 DEF SendOutcomes
  <2>8. CASE SocketFull
    <3>1. result' = [n |-> Sent, more |-> TRUE, failed |-> FALSE]
      BY <2>8 DEF SocketFull, Complete
    <3>2. Sent >= start.room /\ Sent < start.size /\ ~start.broken /\ start.size # 0
      BY <1>1, <2>1, <2>2, <2>3, <2>5, <2>8 DEF LoopInv, SocketFull
    <3> QED
      BY <3>1, <3>2, <2>2, <2>5 DEF SendOutcomes
  <2>9. CASE SendFails
    <3>1. result' = [n |-> Sent, more |-> FALSE, failed |-> TRUE]
      BY <2>9 DEF SendFails
    <3>2. /\ Sent < start.size /\ start.size # 0
          /\ start.broken => Sent = 0
          /\ start.broken \/ Resets
      BY <1>1, <2>1, <2>2, <2>3, <2>5, <2>9 DEF LoopInv, SendFails
    <3> QED
      BY <3>1, <3>2, <2>2, <2>5 DEF SendOutcomes
  <2> QED
    BY <2>4, <2>6, <2>7, <2>8, <2>9
<1>2. TypeOK /\ LoopInv /\ [Next]_vars =>
        [pc = "sending" /\ pc' = "idle" =>
           result' \in SendOutcomes(start.size, start.room, start.broken, Resets)]_vars
  BY <1>1
<1> QED
  BY <1>2, OutputCorrect, PTL DEF Spec, LoopOutcomes

-----------------------------------------------------------------------------
(* The stream. *)

\* The stream with what makes the reclaimed space inductive.
StreamInv ==
  /\ StreamIntact
  /\ written.position = 0
  /\ SpaceReclaimed

\* Initially no byte was written.
LEMMA StreamInit == Init => StreamInv
<1> SUFFICES ASSUME Init PROVE StreamInv
  OBVIOUS
<1>1. Contents(NewBuffer) = <<>> /\ NewBuffer.position = 0
  BY NewContents
<1>2. (<<>> \o <<>>) \o <<>> = <<>>
  BY ConcatEmptySeq, EmptySeq
<1> QED
  BY <1>1, <1>2 DEF Init, StreamInv, StreamIntact, SpaceReclaimed

\* Bytes move from one end to the other: a write appends, a flush moves the seam
\* between the buffers, a send the one between buffer and wire.
LEMMA StreamStep == TypeOK /\ StreamInv /\ [Next]_vars => StreamInv'
<1> SUFFICES ASSUME TypeOK, StreamInv, [Next]_vars PROVE StreamInv'
  OBVIOUS
<1> DEFINE f == Contents(flushed)
           w == Contents(written)
<1>1. /\ f \in Seq(Bytes) /\ w \in Seq(Bytes) /\ wire \in Seq(Bytes) /\ wire \o f \in Seq(Bytes)
  <2>1. f \in Seq(Bytes) /\ w \in Seq(Bytes) /\ wire \in Seq(Bytes)
    BY ContentsType DEF TypeOK
  <2> HIDE DEF f, w
  <2> QED
    BY <2>1, ConcatProperties
<1>2. (wire \o f) \o w = accepted
  BY DEF StreamInv, StreamIntact
<1>3. ASSUME NEW b \in Inputs, Write(b)
      PROVE  StreamInv'
  <2>1. b \in Buffers(Bytes)
    BY OutputAssumption
  <2> DEFINE d == Contents(b)
  <2>2. d \in Seq(Bytes)
    BY <2>1, ContentsType
  <2>3. Contents(AppendFrom(written, b)) = w \o d
        /\ AppendFrom(written, b).position = written.position
    BY <2>1, AppendContents DEF TypeOK
  <2>4. (wire \o f) \o (w \o d) = ((wire \o f) \o w) \o d
    <3> HIDE DEF f, w, d
    <3> DEFINE wf == wire \o f
    <3>1. wf \in Seq(Bytes)
      BY <1>1
    <3> HIDE DEF wf
    <3>2. (wf \o w) \o d = wf \o (w \o d)
      BY <1>1, <2>2, <3>1, ConcatAssociative
    <3> QED
      BY <3>2 DEF wf
  <2>5. StreamIntact'
    BY <1>2, <1>3, <2>3, <2>4 DEF Write, StreamIntact
  <2> QED
    BY <1>3, <2>3, <2>5 DEF Write, StreamInv, SpaceReclaimed, callVars
<1>4. CASE Flush
  <2>1. Contents(AppendFrom(flushed, written)) = f \o w
    BY AppendContents DEF TypeOK
  <2>2. Contents(Clear(written)) = <<>> /\ Clear(written).position = 0
    BY NewContents DEF Clear
  <2>3. (wire \o (f \o w)) \o <<>> = (wire \o f) \o w
    <3> HIDE DEF f, w
    <3>1. (wire \o f) \o w = wire \o (f \o w)
      BY <1>1, ConcatAssociative
    <3> DEFINE all == wire \o (f \o w)
    <3>2. all \in Seq(Bytes)
      <4>1. f \o w \in Seq(Bytes)
        BY <1>1, ConcatProperties
      <4> QED
        BY <1>1, <4>1, ConcatProperties
    <3> HIDE DEF all
    <3>3. all \o <<>> = all
      BY <3>2, ConcatEmptySeq
    <3> QED
      BY <3>1, <3>3 DEF all
  <2>4. StreamIntact'
    BY <1>2, <1>4, <2>1, <2>2, <2>3 DEF Flush, BeginWrite, StreamIntact
  <2> QED
    BY <1>4, <2>2, <2>4 DEF Flush, BeginWrite, StreamInv, SpaceReclaimed
<1>5. CASE TriggerWrite
  BY <1>5 DEF TriggerWrite, BeginWrite, StreamInv, StreamIntact, SpaceReclaimed
<1>6. ASSUME NEW n \in 1 .. Room, Send(n)
      PROVE  StreamInv'
  <2>1. n \in 0 .. Size(flushed)
    <3>1. Size(flushed) \in Nat
      BY ContentsType DEF TypeOK
    <3> QED
      BY <1>6, <3>1, OutputAssumption DEF Send
  <2> DEFINE s == SubSeq(f, 1, n)
             r == Contents(RemoveFront(flushed, n))
  <2>2. s \in Seq(Bytes) /\ s \o r = f /\ RemoveFront(flushed, n) \in Buffers(Bytes)
    BY <2>1, RemoveContents DEF TypeOK
  <2>3. r \in Seq(Bytes)
    BY <2>2, ContentsType
  <2>4. (wire \o s) \o r = wire \o f
    <3>1. s \in Seq(Bytes) /\ r \in Seq(Bytes) /\ wire \in Seq(Bytes)
      BY <1>1, <2>2, <2>3
    <3> HIDE DEF s, r, f
    <3>2. (wire \o s) \o r = wire \o (s \o r)
      BY <3>1, ConcatAssociative
    <3> QED
      BY <2>2, <3>2
  <2>5. StreamIntact'
    BY <1>2, <1>6, <2>4 DEF Send, StreamIntact
  <2> QED
    BY <1>6, <2>5 DEF Send, StreamInv, SpaceReclaimed
<1>7. ASSUME NEW more \in BOOLEAN, Complete(more)
      PROVE  StreamInv'
  <2>1. Contents(Discard(flushed)) = f /\ Discard(flushed).position = 0
    BY DiscardContents DEF TypeOK
  <2> QED
    BY <1>2, <1>7, <2>1 DEF Complete, StreamInv, StreamIntact, SpaceReclaimed
<1>8. CASE SendFails
  BY <1>8 DEF SendFails, StreamInv, StreamIntact, SpaceReclaimed, bufferVars
<1>9. CASE Finish \/ ShutdownOutput \/ PeerReads \/ PeerResets
  BY <1>9 DEF Finish, ShutdownOutput, PeerReads, PeerResets, StreamInv, StreamIntact,
              SpaceReclaimed, bufferVars, callVars
<1>10. CASE UNCHANGED vars
  BY <1>10 DEF vars, StreamInv, StreamIntact, SpaceReclaimed, bufferVars, callVars
<1> QED
  BY <1>3, <1>4, <1>5, <1>6, <1>7, <1>8, <1>9, <1>10 DEF Next, Finished, SpunOut, SocketFull

\* The stream's invariant holds throughout.
LEMMA StreamCorrect == Spec => []StreamInv
  BY StreamInit, StreamStep, OutputTypeCorrect, PTL DEF Spec

\* No byte that write took is lost, doubled or out of order, for every way of cutting
\* the writes, flushes and sends.
THEOREM StreamKept == Spec => []StreamIntact
<1>1. StreamInv => StreamIntact
  BY DEF StreamInv
<1> QED
  BY <1>1, StreamCorrect, PTL

\* A begin_write that has not failed leaves no sent byte in memory.
THEOREM NoSpaceHeld == Spec => []SpaceReclaimed
<1>1. StreamInv => SpaceReclaimed
  BY DEF StreamInv
<1> QED
  BY <1>1, StreamCorrect, PTL
=============================================================================
