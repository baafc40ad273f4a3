---------------------------- MODULE DecoderProofs ----------------------------
(***************************************************************************)
(* What holds of Decoder for all inputs, however long and however cut: the *)
(* frames that are handed on are those of what was read.                   *)
(***************************************************************************)
EXTENDS Decoder, SequenceTheorems, WellFoundedInduction, TLAPS

-----------------------------------------------------------------------------
(* Induction.  The library's induction theorems take a predicate, so the least *)
(* element of a set stands for them.                                          *)

\* A set of numbers that is not empty has a least element.
LEMMA Least ==
  ASSUME NEW T \in SUBSET Nat, T # {}
  PROVE  \E x \in T : \A y \in T : x <= y
<1> DEFINE R == OpToRel(<, Nat)
<1>1. IsWellFoundedOn(R, Nat)
  BY NatLessThanWellFounded
<1>2. R = {ss \in Nat \X Nat : ss[1] < ss[2]}
  BY DEF OpToRel
<1>3. \A x, y \in Nat : y < x => <<y, x>> \in R
  BY <1>2
<1> HIDE DEF R
<1>4. PICK x \in T : \A y \in T : ~ (<<y, x>> \in R)
  BY <1>1, WFMin
<1>5. \A y \in T : ~ (y < x)
  BY <1>3, <1>4
<1>6. \A y \in Nat : ~ (y < x) => x <= y
  OBVIOUS
<1> QED
  BY <1>5, <1>6

\* A set with 0 and the successor of each of its numbers has them all.
LEMMA Inductive ==
  ASSUME NEW T, 0 \in T, \A n \in Nat : n \in T => n + 1 \in T
  PROVE  Nat \subseteq T
<1> DEFINE U == Nat \ T
<1> SUFFICES ASSUME U # {} PROVE FALSE
  OBVIOUS
<1>1. PICK x \in U : \A y \in U : x <= y
  BY Least
<1>2. x - 1 \in Nat /\ x - 1 \notin U
  BY <1>1
<1> QED
  BY <1>1, <1>2

-----------------------------------------------------------------------------
(* byte_buffer, as in OutputBuffersProofs, whose variables are others. *)

\* The bytes a buffer holds.
LEMMA ContentsType ==
  ASSUME NEW B, NEW b \in Buffers(B)
  PROVE  /\ b.buffer \in Seq(B) /\ b.position \in Nat /\ b.position <= Len(b.buffer)
         /\ Size(b) \in Nat
         /\ Contents(b) \in Seq(B)
         /\ Len(Contents(b)) = Size(b)
         /\ \A i \in 1 .. Size(b) : Contents(b)[i] = b.buffer[b.position + i]
<1>1. b.buffer \in Seq(B) /\ b.position \in Nat /\ b.position <= Len(b.buffer)
  BY DEF Buffers
<1>2. Size(b) \in Nat /\ Len(b.buffer) \in Nat /\ Size(b) = Len(b.buffer) - b.position
  BY <1>1, LenProperties DEF Size
<1>3. \A i \in b.position + 1 .. Len(b.buffer) : b.buffer[i] \in B
  BY <1>1, ElementOfSeq
<1>4. /\ Contents(b) \in Seq(B)
      /\ Len(Contents(b)) = IF b.position + 1 <= Len(b.buffer)
                            THEN Len(b.buffer) - (b.position + 1) + 1 ELSE 0
      /\ \A i \in 1 .. Len(b.buffer) - (b.position + 1) + 1 :
           Contents(b)[i] = b.buffer[b.position + 1 + i - 1]
  <2> DEFINE q == b.buffer
             m == b.position + 1
             n == Len(b.buffer)
  <2>1. m \in Int /\ n \in Int /\ \A i \in m .. n : q[i] \in B
    BY <1>1, <1>2, <1>3
  <2> HIDE DEF q, m, n
  <2>2. /\ SubSeq(q, m, n) \in Seq(B)
        /\ Len(SubSeq(q, m, n)) = IF m <= n THEN n - m + 1 ELSE 0
        /\ \A i \in 1 .. n - m + 1 : SubSeq(q, m, n)[i] = q[m + i - 1]
    BY <2>1, SubSeqProperties
  <2> QED
    BY <2>2 DEF Contents, q, m, n
<1>5. Len(Contents(b)) = Size(b)
  BY <1>1, <1>2, <1>4
<1>6. ASSUME NEW i \in 1 .. Size(b) PROVE Contents(b)[i] = b.buffer[b.position + i]
  <2>1. i \in 1 .. Len(b.buffer) - (b.position + 1) + 1
    BY <1>1, <1>2
  <2>2. Contents(b)[i] = b.buffer[b.position + 1 + i - 1]
    BY <1>4, <2>1
  <2>3. b.position + 1 + i - 1 = b.position + i
    BY <1>1, <2>1
  <2> QED
    BY <2>2, <2>3
<1>7. Contents(b) \in Seq(B)
  BY <1>4
<1> QED
  BY <1>1, <1>2, <1>5, <1>6, <1>7

\* put adds at the end, whatever was removed at the front.
LEMMA PutContents ==
  ASSUME NEW B, NEW b \in Buffers(B), NEW d \in Seq(B)
  PROVE  /\ Put(b, d) \in Buffers(B)
         /\ Contents(Put(b, d)) = Contents(b) \o d
<1> DEFINE p == Put(b, d)
<1>1. p = [buffer |-> b.buffer \o d, position |-> b.position]
  <2>1. b = [buffer |-> b.buffer, position |-> b.position]
    BY DEF Buffers
  <2> DEFINE e == b.buffer \o d
  <2>2. p = [b EXCEPT !.buffer = e]
    BY DEF Put
  <2> HIDE DEF e, p
  <2>3. p = [buffer |-> e, position |-> b.position]
    BY <2>1, <2>2
  <2> QED
    BY <2>3 DEF e
<1>2. b.buffer \o d \in Seq(B) /\ Len(b.buffer \o d) = Len(b.buffer) + Len(d)
  BY ContentsType, ConcatProperties
<1>3. p \in Buffers(B)
  BY <1>1, <1>2, ContentsType, LenProperties DEF Buffers
<1>4. p.buffer = b.buffer \o d /\ p.position = b.position
  BY <1>1
<1> HIDE DEF p
<1>5. /\ Contents(b) \o d \in Seq(B) /\ Len(Contents(b) \o d) = Size(b) + Len(d)
      /\ \A i \in 1 .. Size(b) + Len(d) :
           (Contents(b) \o d)[i] = IF i <= Size(b) THEN Contents(b)[i] ELSE d[i - Size(b)]
  <2> DEFINE c == Contents(b)
  <2>1. c \in Seq(B) /\ Len(c) = Size(b)
    BY ContentsType
  <2> HIDE DEF c
  <2>2. /\ c \o d \in Seq(B) /\ Len(c \o d) = Len(c) + Len(d)
        /\ \A i \in 1 .. Len(c) + Len(d) :
             (c \o d)[i] = IF i <= Len(c) THEN c[i] ELSE d[i - Len(c)]
    BY <2>1, ConcatProperties
  <2> QED
    BY <2>1, <2>2 DEF c
<1>6. Contents(p) \in Seq(B) /\ Len(Contents(p)) = Size(p) /\ Size(p) = Size(b) + Len(d)
  BY <1>2, <1>3, <1>4, ContentsType, LenProperties DEF Size
<1>7. ASSUME NEW i \in 1 .. Size(p) PROVE Contents(p)[i] = (Contents(b) \o d)[i]
  <2>1. Contents(p)[i] = (b.buffer \o d)[b.position + i]
    BY <1>3, <1>4, ContentsType
  <2>2. b.position + i \in 1 .. Len(b.buffer) + Len(d)
    BY <1>6, ContentsType, LenProperties DEF Size
  <2>3. (b.buffer \o d)[b.position + i] =
          IF b.position + i <= Len(b.buffer) THEN b.buffer[b.position + i]
          ELSE d[b.position + i - Len(b.buffer)]
    BY <2>2, ContentsType, ConcatProperties
  <2>4. (Contents(b) \o d)[i] = IF i <= Size(b) THEN Contents(b)[i] ELSE d[i - Size(b)]
    BY <1>5, <1>6
  <2>5. i <= Size(b) => Contents(b)[i] = b.buffer[b.position + i]
    BY ContentsType
  <2>6. Size(b) = Len(b.buffer) - b.position /\ b.position \in Nat /\ Len(b.buffer) \in Nat
    BY ContentsType, LenProperties DEF Size
  <2> QED
    BY <2>1, <2>3, <2>4, <2>5, <2>6
<1>8. Contents(p) = Contents(b) \o d
  <2> DEFINE u == Contents(p)
             v == Contents(b) \o d
  <2>1. u \in Seq(B) /\ Len(u) = Size(p)
    BY <1>6
  <2>2. v \in Seq(B) /\ Len(v) = Size(p)
    BY <1>5, <1>6
  <2>3. \A i \in 1 .. Size(p) : u[i] = v[i]
    BY <1>7
  <2> HIDE DEF u, v
  <2>4. u = v
    BY <2>1, <2>2, <2>3, SeqEqual
  <2> QED
    BY <2>4 DEF u, v
<1> QED
  BY <1>3, <1>8 DEF p

\* remove takes from the front.
LEMMA RemoveContents ==
  ASSUME NEW B, NEW b \in Buffers(B), NEW n \in 0 .. Size(b)
  PROVE  /\ RemoveFront(b, n) \in Buffers(B)
         /\ Size(RemoveFront(b, n)) = Size(b) - n
         /\ SubSeq(Contents(b), 1, n) \in Seq(B)
         /\ SubSeq(Contents(b), 1, n) \o Contents(RemoveFront(b, n)) = Contents(b)
<1> DEFINE r == RemoveFront(b, n)
           s == SubSeq(Contents(b), 1, n)
<1>1. r = [buffer |-> b.buffer, position |-> b.position + n]
  BY DEF RemoveFront, Buffers
<1>2. Size(b) = Len(b.buffer) - b.position /\ b.position \in Nat /\ Len(b.buffer) \in Nat
  BY ContentsType, LenProperties DEF Size
<1>3. r \in Buffers(B) /\ Size(r) = Size(b) - n
  BY <1>1, <1>2, ContentsType DEF Buffers, Size
<1>4. r.buffer = b.buffer /\ r.position = b.position + n
  BY <1>1
<1> HIDE DEF r
<1>5. \A i \in 1 .. n : Contents(b)[i] \in B
  BY <1>2, ContentsType, ElementOfSeq
<1>6. s \in Seq(B) /\ Len(s) = n /\ \A i \in 1 .. n : s[i] = Contents(b)[i]
  BY <1>2, <1>5, SubSeqProperties
<1> HIDE DEF s
<1>7. /\ Contents(r) \in Seq(B) /\ Len(Contents(r)) = Size(r)
      /\ \A i \in 1 .. Size(r) : Contents(r)[i] = b.buffer[b.position + n + i]
  BY <1>3, <1>4, ContentsType
<1>8. /\ s \o Contents(r) \in Seq(B) /\ Len(s \o Contents(r)) = n + Size(r)
      /\ \A i \in 1 .. n + Size(r) :
           (s \o Contents(r))[i] = IF i <= n THEN s[i] ELSE Contents(r)[i - n]
  <2> DEFINE c == Contents(r)
  <2>1. s \in Seq(B) /\ c \in Seq(B) /\ Len(s) = n /\ Len(c) = Size(r)
    BY <1>6, <1>7
  <2> HIDE DEF c
  <2>2. /\ s \o c \in Seq(B) /\ Len(s \o c) = Len(s) + Len(c)
        /\ \A i \in 1 .. Len(s) + Len(c) :
             (s \o c)[i] = IF i <= Len(s) THEN s[i] ELSE c[i - Len(s)]
    BY <2>1, ConcatProperties
  <2> QED
    BY <2>1, <2>2 DEF c
<1>9. ASSUME NEW i \in 1 .. Size(b) PROVE (s \o Contents(r))[i] = Contents(b)[i]
  <2>1. (s \o Contents(r))[i] = IF i <= n THEN s[i] ELSE Contents(r)[i - n]
    BY <1>2, <1>3, <1>8
  <2>2. Contents(b)[i] = b.buffer[b.position + i]
    BY ContentsType
  <2>3. i > n => Contents(r)[i - n] = b.buffer[b.position + n + (i - n)]
    BY <1>2, <1>3, <1>7
  <2> QED
    BY <1>2, <1>6, <2>1, <2>2, <2>3
<1>10. s \o Contents(r) = Contents(b)
  <2> DEFINE u == s \o Contents(r)
             v == Contents(b)
  <2>1. n + Size(r) = Size(b)
    BY <1>2, <1>3
  <2>2. u \in Seq(B) /\ Len(u) = Size(b)
    BY <2>1, <1>8
  <2>3. v \in Seq(B) /\ Len(v) = Size(b)
    BY ContentsType
  <2>4. \A i \in 1 .. Size(b) : u[i] = v[i]
    BY <1>9
  <2> HIDE DEF u, v
  <2>5. u = v
    BY <2>2, <2>3, <2>4, SeqEqual
  <2> QED
    BY <2>5 DEF u, v
<1> QED
  BY <1>3, <1>6, <1>10 DEF r, s

\* discard changes nothing but the position.
LEMMA DiscardContents ==
  ASSUME NEW B, NEW b \in Buffers(B)
  PROVE  /\ Discard(b) \in Buffers(B)
         /\ Discard(b).position = 0
         /\ Size(Discard(b)) = Size(b)
         /\ Contents(Discard(b)) = Contents(b)
<1>1. Contents(b) \in Seq(B) /\ Len(Contents(b)) = Size(b) /\ Size(b) \in Nat
  BY ContentsType
<1>2. SubSeq(Contents(b), 1, Len(Contents(b))) = Contents(b)
  BY <1>1, SubSeqFull
<1>3. Discard(b).buffer = Contents(b) /\ Discard(b).position = 0
  BY DEF Discard
<1>4. Discard(b) \in Buffers(B)
  BY <1>1 DEF Discard, Buffers
<1>5. Size(Discard(b)) = Size(b)
  <2>1. Size(Discard(b)) = Len(Contents(b)) - 0
    BY <1>3 DEF Size
  <2> QED
    BY <1>1, <2>1
<1>6. Contents(Discard(b)) = SubSeq(Contents(b), 0 + 1, Len(Contents(b)))
  <2> DEFINE q == Discard(b)
  <2>1. Contents(q) = SubSeq(q.buffer, q.position + 1, Len(q.buffer))
    BY DEF Contents
  <2> QED
    BY <1>3, <2>1
<1> QED
  BY <1>2, <1>3, <1>4, <1>5, <1>6

\* A new buffer holds nothing.
LEMMA NewContents ==
  ASSUME NEW B
  PROVE  /\ NewBuffer \in Buffers(B)
         /\ NewBuffer.position = 0
         /\ Contents(NewBuffer) = <<>>
<1>1. SubSeq(<<>>, 1, 0) = <<>>
  BY SubSeqEmpty
<1>2. Len(<<>>) = 0 /\ <<>> \in Seq(B)
  BY EmptySeq
<1> QED
  BY <1>1, <1>2 DEF NewBuffer, Buffers, Contents

\* append_from adds what the other buffer holds.
LEMMA AppendContents ==
  ASSUME NEW B, NEW b \in Buffers(B), NEW t \in Buffers(B)
  PROVE  /\ AppendFrom(b, t) \in Buffers(B)
         /\ AppendFrom(b, t).position = b.position
         /\ Contents(AppendFrom(b, t)) = Contents(b) \o Contents(t)
<1>1. Contents(t) \in Seq(B)
  BY ContentsType
<1>2. AppendFrom(b, t).position = b.position
  BY DEF AppendFrom, Put, Buffers
<1> QED
  BY <1>1, <1>2, PutContents DEF AppendFrom

-----------------------------------------------------------------------------
(* Frames and Complete, which are defined by recursion, exist. *)

\* The frame at the front is no longer than what there is.
LEMMA FrameFacts ==
  ASSUME NEW s \in Seq(Items)
  PROVE  /\ FrameSize(s) \in 0 .. Len(s) /\ Len(s) \in Nat
         /\ FrameSize(s) # 0 => s # <<>> /\ s[1] \in Nat /\ FrameSize(s) = s[1] + 1
<1>1. Len(s) \in Nat
  BY LenProperties
<1>2. CASE s # <<>> /\ s[1] < Len(s)
  <2>1. s[1] \in Items
    BY <1>2, ElementOfSeq, EmptySeq
  <2>2. s[1] \in Nat
    BY <2>1, DecoderAssumption
  <2> QED
    BY <1>1, <1>2, <2>2 DEF FrameSize
<1>3. CASE ~(s # <<>> /\ s[1] < Len(s))
  <2>1. FrameSize(s) = 0
    BY <1>3 DEF FrameSize
  <2> QED
    BY <1>1, <2>1
<1> QED
  BY <1>2, <1>3

LEMMA AfterFacts ==
  ASSUME NEW s \in Seq(Items), NEW n \in 0 .. Len(s)
  PROVE  /\ After(s, n) \in Seq(Items) /\ Len(After(s, n)) = Len(s) - n
         /\ \A i \in 1 .. Len(s) - n : After(s, n)[i] = s[n + i]
<1>1. Len(s) \in Nat /\ n \in Nat /\ n <= Len(s)
  BY LenProperties
<1>2. \A i \in n + 1 .. Len(s) : s[i] \in Items
  BY <1>1, ElementOfSeq
<1>3. PICK m, l : m = n + 1 /\ l = Len(s)
  OBVIOUS
<1>4. m \in Int /\ l \in Int /\ \A i \in m .. l : s[i] \in Items
  BY <1>1, <1>2, <1>3
<1>5. /\ SubSeq(s, m, l) \in Seq(Items)
      /\ Len(SubSeq(s, m, l)) = IF m <= l THEN l - m + 1 ELSE 0
      /\ \A i \in 1 .. l - m + 1 : SubSeq(s, m, l)[i] = s[m + i - 1]
  BY <1>4, SubSeqProperties
<1>6. PICK a : a = After(s, n)
  OBVIOUS
<1>7. a = SubSeq(s, m, l)
  BY <1>3, <1>6 DEF After
<1>8. a \in Seq(Items) /\ Len(a) = Len(s) - n
  BY <1>1, <1>3, <1>5, <1>7
<1>9. ASSUME NEW i \in 1 .. Len(s) - n PROVE a[i] = s[n + i]
  <2>1. i \in 1 .. l - m + 1 /\ m + i - 1 = n + i
    BY <1>1, <1>3
  <2> QED
    BY <1>5, <1>7, <2>1
<1> QED
  BY <1>6, <1>8, <1>9

\* The rest, behind the frame.
Rest(s) == After(s, FrameSize(s))

LEMMA RestFacts ==
  ASSUME NEW s \in Seq(Items)
  PROVE  /\ Rest(s) \in Seq(Items) /\ Len(Rest(s)) = Len(s) - FrameSize(s)
         /\ FrameSize(s) # 0 => Len(Rest(s)) < Len(s)
<1>1. FrameSize(s) \in 0 .. Len(s) /\ Len(s) \in Nat
  BY FrameFacts
<1>2. Rest(s) \in Seq(Items) /\ Len(Rest(s)) = Len(s) - FrameSize(s)
  BY <1>1, AfterFacts DEF Rest
<1> QED
  BY <1>1, <1>2

\* The bodies of both, of the value v of the rest.
Body(what, s, v) ==
  IF what = "frames"
  THEN IF FrameSize(s) = 0 THEN <<>>
       ELSE (IF FrameSize(s) = 1 THEN <<>> ELSE <<SubSeq(s, 2, FrameSize(s))>>) \o v
  ELSE IF FrameSize(s) = 0 THEN 0 ELSE FrameSize(s) + v

\* g is the function on the sequences of up to n items.
UpTo(n) == {s \in Seq(Items) : Len(s) <= n}
IsRec(what, g, n) == g = [s \in UpTo(n) |-> Body(what, s, g[Rest(s)])]

\* A value does not depend on the rest when there is no frame.
LEMMA BodySame ==
  ASSUME NEW what, NEW s, NEW v, NEW w, FrameSize(s) # 0 => v = w
  PROVE  Body(what, s, v) = Body(what, s, w)
BY DEF Body

LEMMA RecExists ==
  ASSUME NEW what, NEW n \in Nat
  PROVE  \E g : IsRec(what, g, n)
<1> DEFINE T == {m \in Nat : \E g : IsRec(what, g, m)}
<1>1. 0 \in T
  <2> DEFINE g == [s \in UpTo(0) |-> Body(what, s, 0)]
  <2>1. ASSUME NEW s \in UpTo(0) PROVE g[s] = Body(what, s, g[Rest(s)])
    <3>1. FrameSize(s) = 0
      BY FrameFacts DEF UpTo
    <3> QED
      BY <3>1, BodySame
  <2>2. g = [s \in UpTo(0) |-> Body(what, s, g[Rest(s)])]
    BY <2>1
  <2> HIDE DEF g
  <2>3. IsRec(what, g, 0)
    BY <2>2 DEF IsRec
  <2> QED
    BY <2>3
<1>2. ASSUME NEW m \in Nat, NEW g, IsRec(what, g, m) PROVE \E e : IsRec(what, e, m + 1)
  <2> DEFINE e == [s \in UpTo(m + 1) |-> Body(what, s, g[Rest(s)])]
  <2>1. ASSUME NEW s \in UpTo(m + 1) PROVE e[s] = Body(what, s, e[Rest(s)])
    <3>1. ASSUME FrameSize(s) # 0 PROVE g[Rest(s)] = e[Rest(s)]
      <4>1. PICK t : t = Rest(s)
        OBVIOUS
      <4>2. t \in UpTo(m) /\ t \in UpTo(m + 1)
        <5>1. s \in Seq(Items) /\ Len(s) \in Nat /\ Len(s) <= m + 1
          BY LenProperties DEF UpTo
        <5>2. t \in Seq(Items) /\ Len(t) \in Nat /\ Len(t) < Len(s)
          BY <3>1, <4>1, <5>1, RestFacts, LenProperties
        <5> QED
          BY <5>1, <5>2 DEF UpTo
      <4>3. g[t] = Body(what, t, g[Rest(t)])
        BY <1>2, <4>2 DEF IsRec
      <4>4. e[t] = Body(what, t, g[Rest(t)])
        BY <4>2
      <4> QED
        BY <4>1, <4>3, <4>4
    <3>2. e[s] = Body(what, s, g[Rest(s)])
      OBVIOUS
    <3> HIDE DEF e
    <3>3. PICK v, w : v = g[Rest(s)] /\ w = e[Rest(s)]
      OBVIOUS
    <3>4. Body(what, s, v) = Body(what, s, w)
      BY <3>1, <3>3, BodySame
    <3> QED
      BY <3>2, <3>3, <3>4
  <2>2. e = [s \in UpTo(m + 1) |-> Body(what, s, e[Rest(s)])]
    BY <2>1
  <2> HIDE DEF e
  <2>3. IsRec(what, e, m + 1)
    BY <2>2 DEF IsRec
  <2> QED
    BY <2>3
<1>3. ASSUME NEW m \in Nat, m \in T PROVE m + 1 \in T
  BY <1>2, <1>3
<1>4. Nat \subseteq T
  <2>1. \A m \in Nat : m \in T => m + 1 \in T
    BY <1>3
  <2> HIDE DEF T
  <2> QED
    BY <1>1, <2>1, Inductive
<1> QED
  BY <1>4

LEMMA RecUnique ==
  ASSUME NEW what, NEW m \in Nat, NEW n \in Nat, NEW g, NEW h,
         IsRec(what, g, m), IsRec(what, h, n), NEW s \in UpTo(m), s \in UpTo(n)
  PROVE  g[s] = h[s]
<1> DEFINE T == {k \in Nat : \A r \in UpTo(m) \cap UpTo(n) : Len(r) <= k => g[r] = h[r]}
<1>1. ASSUME NEW r \in UpTo(m) \cap UpTo(n), FrameSize(r) # 0 => g[Rest(r)] = h[Rest(r)]
      PROVE  g[r] = h[r]
  <2>1. g[r] = Body(what, r, g[Rest(r)]) /\ h[r] = Body(what, r, h[Rest(r)])
    BY DEF IsRec
  <2>2. PICK v, w : v = g[Rest(r)] /\ w = h[Rest(r)]
    OBVIOUS
  <2>3. Body(what, r, v) = Body(what, r, w)
    BY <1>1, <2>2, BodySame
  <2> QED
    BY <2>1, <2>2, <2>3
<1>2. 0 \in T
  <2>1. ASSUME NEW r \in UpTo(m) \cap UpTo(n), Len(r) <= 0 PROVE FrameSize(r) = 0
    BY <2>1, FrameFacts DEF UpTo
  <2> QED
    BY <1>1, <2>1
<1>3. ASSUME NEW k \in Nat, k \in T PROVE k + 1 \in T
  <2> SUFFICES ASSUME NEW r \in UpTo(m) \cap UpTo(n), Len(r) <= k + 1 PROVE g[r] = h[r]
    OBVIOUS
  <2>1. ASSUME FrameSize(r) # 0 PROVE g[Rest(r)] = h[Rest(r)]
    <3>1. PICK t : t = Rest(r)
      OBVIOUS
    <3>2. t \in UpTo(m) \cap UpTo(n) /\ Len(t) <= k
      <4>1. r \in Seq(Items) /\ Len(r) \in Nat /\ Len(r) <= m /\ Len(r) <= n
        BY LenProperties DEF UpTo
      <4>2. t \in Seq(Items) /\ Len(t) \in Nat /\ Len(t) < Len(r)
        BY <2>1, <3>1, <4>1, RestFacts, LenProperties
      <4> QED
        BY <4>1, <4>2 DEF UpTo
    <3> QED
      BY <1>3, <3>1, <3>2
  <2> QED
    BY <1>1, <2>1
<1>4. Nat \subseteq T
  <2>1. \A k \in Nat : k \in T => k + 1 \in T
    BY <1>3
  <2> HIDE DEF T
  <2> QED
    BY <1>2, <2>1, Inductive
<1>5. Len(s) \in Nat
  BY LenProperties DEF UpTo
<1> QED
  BY <1>4, <1>5

LEMMA Recursion ==
  ASSUME NEW what
  PROVE  \E g : g = [s \in Seq(Items) |-> Body(what, s, g[Rest(s)])]
<1> DEFINE P(n) == CHOOSE g : IsRec(what, g, n)
           F == [s \in Seq(Items) |-> P(Len(s))[s]]
<1>1. \A n \in Nat : IsRec(what, P(n), n)
  BY RecExists
<1> HIDE DEF P
<1>2. ASSUME NEW s \in Seq(Items) PROVE F[s] = Body(what, s, F[Rest(s)])
  <2>1. PICK g : g = P(Len(s))
    OBVIOUS
  <2>2. Len(s) \in Nat /\ s \in UpTo(Len(s)) /\ IsRec(what, g, Len(s))
    BY <1>1, <2>1, LenProperties DEF UpTo
  <2>3. F[s] = Body(what, s, g[Rest(s)])
    BY <2>1, <2>2 DEF IsRec
  <2>4. ASSUME FrameSize(s) # 0 PROVE g[Rest(s)] = F[Rest(s)]
    <3>1. PICK t : t = Rest(s)
      OBVIOUS
    <3>2. t \in Seq(Items) /\ Len(t) \in Nat /\ Len(t) < Len(s)
      BY <2>4, <3>1, RestFacts, LenProperties
    <3>3. t \in UpTo(Len(t)) /\ t \in UpTo(Len(s))
      BY <2>2, <3>2 DEF UpTo
    <3>4. PICK h : h = P(Len(t))
      OBVIOUS
    <3>5. IsRec(what, h, Len(t))
      BY <1>1, <3>2, <3>4
    <3>6. g[t] = h[t]
      BY <2>2, <3>2, <3>3, <3>5, RecUnique
    <3> QED
      BY <3>1, <3>2, <3>4, <3>6
  <2> HIDE DEF F
  <2>5. PICK v, w : v = g[Rest(s)] /\ w = F[Rest(s)]
    OBVIOUS
  <2>6. Body(what, s, v) = Body(what, s, w)
    BY <2>4, <2>5, BodySame
  <2> QED
    BY <2>3, <2>5, <2>6
<1>3. F = [s \in Seq(Items) |-> Body(what, s, F[Rest(s)])]
  BY <1>2
<1> QED
  BY <1>3

\* What the definitions say of a sequence.
LEMMA FramesOf ==
  ASSUME NEW s \in Seq(Items)
  PROVE  Frames[s] =
           IF FrameSize(s) = 0 THEN <<>>
           ELSE (IF FrameSize(s) = 1 THEN <<>> ELSE <<SubSeq(s, 2, FrameSize(s))>>)
                  \o Frames[Rest(s)]
<1> DEFINE Eq(g) ==
      g = [r \in Seq(Items) |->
             IF FrameSize(r) = 0 THEN <<>>
             ELSE (IF FrameSize(r) = 1 THEN <<>> ELSE <<SubSeq(r, 2, FrameSize(r))>>)
                    \o g[After(r, FrameSize(r))]]
<1>1. \E g : Eq(g)
  <2>1. PICK g : g = [r \in Seq(Items) |-> Body("frames", r, g[Rest(r)])]
    BY Recursion
  <2>2. Eq(g)
    BY <2>1 DEF Body, Rest
  <2> QED
    BY <2>2
<1>2. Frames = CHOOSE g : Eq(g)
  BY DEF Frames
<1>3. Eq(Frames)
  BY <1>1, <1>2
<1> QED
  BY <1>3 DEF Rest

LEMMA CompleteOf ==
  ASSUME NEW s \in Seq(Items)
  PROVE  Complete[s] = IF FrameSize(s) = 0 THEN 0 ELSE FrameSize(s) + Complete[Rest(s)]
<1> DEFINE Eq(g) ==
      g = [r \in Seq(Items) |->
             IF FrameSize(r) = 0 THEN 0 ELSE FrameSize(r) + g[After(r, FrameSize(r))]]
<1>1. \E g : Eq(g)
  <2>1. PICK g : g = [r \in Seq(Items) |-> Body("size", r, g[Rest(r)])]
    BY Recursion
  <2>2. Eq(g)
    BY <2>1 DEF Body, Rest
  <2> QED
    BY <2>2
<1>2. Complete = CHOOSE g : Eq(g)
  BY DEF Complete
<1>3. Eq(Complete)
  BY <1>1, <1>2
<1> QED
  BY <1>3 DEF Rest

-----------------------------------------------------------------------------
(* Sequences taken apart into frames. *)

\* Induction over the frames of a sequence.
LEMMA FrameInduction ==
  ASSUME NEW U,
         \A s \in Seq(Items) : (FrameSize(s) # 0 => Rest(s) \in U) => s \in U
  PROVE  Seq(Items) \subseteq U
<1> DEFINE T == {k \in Nat : \A s \in Seq(Items) : Len(s) <= k => s \in U}
<1>1. 0 \in T
  <2>1. ASSUME NEW s \in Seq(Items), Len(s) <= 0 PROVE s \in U
    <3>1. FrameSize(s) = 0
      BY <2>1, FrameFacts
    <3> QED
      BY <3>1
  <2> QED
    BY <2>1
<1>2. ASSUME NEW k \in Nat, k \in T PROVE k + 1 \in T
  <2>1. ASSUME NEW s \in Seq(Items), Len(s) <= k + 1 PROVE s \in U
    <3>1. ASSUME FrameSize(s) # 0 PROVE Rest(s) \in U
      <4>1. PICK t : t = Rest(s)
        OBVIOUS
      <4>2. t \in Seq(Items) /\ Len(t) < Len(s) /\ Len(t) \in Nat /\ Len(s) \in Nat
        BY <3>1, <4>1, RestFacts, LenProperties
      <4>3. Len(t) <= k
        BY <2>1, <4>2
      <4> QED
        BY <1>2, <4>1, <4>2, <4>3
    <3> QED
      BY <3>1
  <2> QED
    BY <2>1
<1>3. Nat \subseteq T
  <2>1. \A k \in Nat : k \in T => k + 1 \in T
    BY <1>2
  <2> HIDE DEF T
  <2> QED
    BY <1>1, <2>1, Inductive
<1>4. ASSUME NEW s \in Seq(Items) PROVE s \in U
  <2>1. Len(s) \in Nat
    BY LenProperties
  <2> QED
    BY <1>3, <2>1
<1> QED
  BY <1>4

\* What the first frame puts out.
First(s) == IF FrameSize(s) = 1 THEN <<>> ELSE <<SubSeq(s, 2, FrameSize(s))>>

LEMMA FirstType ==
  ASSUME NEW s \in Seq(Items), FrameSize(s) # 0
  PROVE  First(s) \in Seq(Seq(Items))
<1>1. FrameSize(s) \in 0 .. Len(s) /\ Len(s) \in Nat
  BY FrameFacts
<1>2. \A i \in 2 .. FrameSize(s) : s[i] \in Items
  BY <1>1, ElementOfSeq
<1>3. SubSeq(s, 2, FrameSize(s)) \in Seq(Items)
  BY <1>1, <1>2, SubSeqProperties
<1>4. PICK x : x = SubSeq(s, 2, FrameSize(s))
  OBVIOUS
<1>5. <<x>> \in Seq(Seq(Items)) /\ <<>> \in Seq(Seq(Items))
  BY <1>3, <1>4, EmptySeq
<1> QED
  BY <1>4, <1>5 DEF First

LEMMA FramesType ==
  ASSUME NEW s \in Seq(Items)
  PROVE  Frames[s] \in Seq(Seq(Items)) /\ Complete[s] \in 0 .. Len(s)
<1> DEFINE U == {r \in Seq(Items) : Frames[r] \in Seq(Seq(Items)) /\ Complete[r] \in 0 .. Len(r)}
<1>1. ASSUME NEW r \in Seq(Items), FrameSize(r) # 0 => Rest(r) \in U PROVE r \in U
  <2>1. FrameSize(r) \in 0 .. Len(r) /\ Len(r) \in Nat
    BY FrameFacts
  <2>2. CASE FrameSize(r) = 0
    <3>1. Frames[r] = <<>> /\ Complete[r] = 0
      BY <2>2, FramesOf, CompleteOf
    <3>2. Frames[r] \in Seq(Seq(Items))
      BY <3>1, EmptySeq
    <3>3. Complete[r] \in 0 .. Len(r)
      BY <2>1, <3>1
    <3> QED
      BY <3>2, <3>3
  <2>3. CASE FrameSize(r) # 0
    <3>1. PICK t : t = Rest(r)
      OBVIOUS
    <3>2. Frames[r] = First(r) \o Frames[t] /\ Complete[r] = FrameSize(r) + Complete[t]
      BY <2>3, <3>1, FramesOf, CompleteOf DEF First
    <3>3. Len(t) = Len(r) - FrameSize(r)
      BY <3>1, RestFacts
    <3>4. Frames[t] \in Seq(Seq(Items)) /\ Complete[t] \in 0 .. Len(t)
      BY <1>1, <2>3, <3>1
    <3>5. Frames[r] \in Seq(Seq(Items))
      BY <2>3, <3>2, <3>4, FirstType, ConcatProperties
    <3>6. Complete[r] \in 0 .. Len(r)
      BY <2>1, <3>2, <3>3, <3>4
    <3> QED
      BY <3>5, <3>6
  <2> QED
    BY <2>2, <2>3
<1>2. \A r \in Seq(Items) : (FrameSize(r) # 0 => Rest(r) \in U) => r \in U
  BY <1>1
<1> HIDE DEF U
<1>3. s \in U
  BY <1>2, FrameInduction
<1> QED
  BY <1>3 DEF U

LEMMA AfterConcat ==
  ASSUME NEW a \in Seq(Items), NEW t \in Seq(Items), NEW n \in 0 .. Len(a)
  PROVE  After(a \o t, n) = After(a, n) \o t
<1>1. Len(a) \in Nat /\ Len(t) \in Nat /\ n \in Nat /\ n <= Len(a)
  BY LenProperties
<1>2. /\ a \o t \in Seq(Items) /\ Len(a \o t) = Len(a) + Len(t)
      /\ \A i \in 1 .. Len(a) + Len(t) : (a \o t)[i] = IF i <= Len(a) THEN a[i] ELSE t[i - Len(a)]
  BY ConcatProperties
<1>3. PICK c, u, v : c = a \o t /\ u = After(c, n) /\ v = After(a, n)
  OBVIOUS
<1>4. c \in Seq(Items) /\ n \in 0 .. Len(c) /\ Len(c) = Len(a) + Len(t)
  BY <1>1, <1>2, <1>3
<1>5. /\ u \in Seq(Items) /\ Len(u) = Len(a) + Len(t) - n
      /\ \A i \in 1 .. Len(a) + Len(t) - n : u[i] = c[n + i]
  <2>1. /\ After(c, n) \in Seq(Items) /\ Len(After(c, n)) = Len(c) - n
        /\ \A i \in 1 .. Len(c) - n : After(c, n)[i] = c[n + i]
    BY <1>4, AfterFacts
  <2> QED
    BY <1>3, <1>4, <2>1
<1>6. /\ v \in Seq(Items) /\ Len(v) = Len(a) - n
      /\ \A i \in 1 .. Len(a) - n : v[i] = a[n + i]
  BY <1>3, AfterFacts
<1>7. /\ v \o t \in Seq(Items) /\ Len(v \o t) = Len(v) + Len(t)
      /\ \A i \in 1 .. Len(v) + Len(t) : (v \o t)[i] = IF i <= Len(v) THEN v[i] ELSE t[i - Len(v)]
  BY <1>6, ConcatProperties
<1>8. ASSUME NEW i \in 1 .. Len(u) PROVE u[i] = (v \o t)[i]
  <2>1. i \in 1 .. Len(a) + Len(t) - n /\ i \in 1 .. Len(v) + Len(t)
    BY <1>1, <1>5, <1>6
  <2>2. n + i \in 1 .. Len(a) + Len(t) /\ (n + i <= Len(a) <=> i <= Len(v))
        /\ (n + i) - Len(a) = i - Len(v)
    BY <1>1, <1>6, <2>1
  <2>3. u[i] = IF n + i <= Len(a) THEN a[n + i] ELSE t[n + i - Len(a)]
    BY <1>2, <1>3, <1>5, <2>1, <2>2
  <2>4. (v \o t)[i] = IF i <= Len(v) THEN v[i] ELSE t[i - Len(v)]
    BY <1>7, <2>1
  <2>5. i <= Len(v) => v[i] = a[n + i]
    BY <1>6, <2>1
  <2> QED
    BY <2>2, <2>3, <2>4, <2>5
<1>9. PICK w : w = v \o t
  OBVIOUS
<1>10. u = w
  <2>1. Len(u) = Len(w)
    BY <1>1, <1>5, <1>6, <1>7, <1>9
  <2> QED
    BY <1>5, <1>7, <1>8, <1>9, <2>1, SeqEqual
<1> QED
  BY <1>3, <1>9, <1>10

\* What follows does not change the first frame.
LEMMA FrameKept ==
  ASSUME NEW a \in Seq(Items), NEW t \in Seq(Items), FrameSize(a) # 0
  PROVE  /\ FrameSize(a \o t) = FrameSize(a)
         /\ Rest(a \o t) = Rest(a) \o t
         /\ First(a \o t) = First(a)
<1>1. PICK c, n : c = a \o t /\ n = FrameSize(a)
  OBVIOUS
<1>2. Len(a) \in Nat /\ Len(t) \in Nat /\ n \in 1 .. Len(a) /\ a # <<>>
      /\ a[1] \in Nat /\ n = a[1] + 1
  BY <1>1, FrameFacts, LenProperties
<1>3. c \in Seq(Items) /\ Len(c) = Len(a) + Len(t) /\ c[1] = a[1] /\ c # <<>>
  <2>1. /\ c \in Seq(Items) /\ Len(c) = Len(a) + Len(t)
        /\ \A i \in 1 .. Len(a) + Len(t) : c[i] = IF i <= Len(a) THEN a[i] ELSE t[i - Len(a)]
    BY <1>1, ConcatProperties
  <2>2. 1 \in 1 .. Len(a) + Len(t) /\ 1 <= Len(a)
    BY <1>2
  <2>3. c[1] = a[1]
    BY <2>1, <2>2
  <2>4. Len(c) # 0
    BY <1>2, <2>1
  <2> QED
    BY <2>1, <2>3, <2>4, EmptySeq
<1>4. FrameSize(c) = n
  BY <1>2, <1>3 DEF FrameSize
<1>5. Rest(c) = Rest(a) \o t
  <2>1. n \in 0 .. Len(a)
    BY <1>2
  <2>2. After(a \o t, n) = After(a, n) \o t
    BY <2>1, AfterConcat
  <2> QED
    BY <1>1, <1>4, <2>2 DEF Rest
<1>6. First(c) = First(a)
  <2>1. ASSUME n # 1 PROVE SubSeq(c, 2, n) = SubSeq(a, 2, n)
    <3>1. 2 \in 1 .. Len(a) /\ n \in 1 .. Len(a)
      BY <1>2, <2>1
    <3> QED
      BY <1>1, <3>1, SubSeqOfConcat1
  <2> QED
    BY <1>1, <1>4, <2>1 DEF First
<1> QED
  BY <1>1, <1>4, <1>5, <1>6

\* Nothing of s is left when its complete frames are taken.
Whole(s) == Complete[s] = Len(s)

LEMMA EmptyWhole == <<>> \in Seq(Items) /\ Whole(<<>>) /\ Frames[<<>>] = <<>>
<1>1. PICK e : e = <<>>
  OBVIOUS
<1>2. e \in Seq(Items) /\ Len(e) = 0
  BY <1>1, EmptySeq
<1>3. FrameSize(e) = 0
  BY <1>1 DEF FrameSize
<1>4. Complete[e] = 0 /\ Frames[e] = <<>>
  BY <1>2, <1>3, CompleteOf, FramesOf
<1> QED
  BY <1>1, <1>2, <1>4 DEF Whole

\* Appending lists of frames is associative.
LEMMA FramesAssociative ==
  \A x, y, z \in Seq(Seq(Items)) : (x \o y) \o z = x \o (y \o z)
<1> DEFINE F == Seq(Items)
<1> HIDE DEF F
<1>1. \A x, y, z \in Seq(F) : (x \o y) \o z = x \o (y \o z)
  BY ConcatAssociative
<1> QED
  BY <1>1 DEF F

\* Frames that are whole are the same whatever follows, and what follows is taken apart
\* as if it stood alone.
LEMMA Ahead ==
  ASSUME NEW a \in Seq(Items), Whole(a), NEW t \in Seq(Items)
  PROVE  Frames[a \o t] = Frames[a] \o Frames[t] /\ Complete[a \o t] = Len(a) + Complete[t]
<1> DEFINE U == {r \in Seq(Items) : Whole(r) =>
                   /\ Frames[r \o t] = Frames[r] \o Frames[t]
                   /\ Complete[r \o t] = Len(r) + Complete[t]}
<1>1. ASSUME NEW r \in Seq(Items), FrameSize(r) # 0 => Rest(r) \in U PROVE r \in U
  <2> SUFFICES ASSUME Whole(r)
               PROVE  /\ Frames[r \o t] = Frames[r] \o Frames[t]
                      /\ Complete[r \o t] = Len(r) + Complete[t]
    OBVIOUS
  <2>1. FrameSize(r) \in 0 .. Len(r) /\ Len(r) \in Nat
    BY FrameFacts
  <2>2. Frames[t] \in Seq(Seq(Items)) /\ Complete[t] \in Nat
    BY FramesType, LenProperties
  <2>3. CASE FrameSize(r) = 0
    <3>1. Complete[r] = 0 /\ Frames[r] = <<>>
      BY <2>3, CompleteOf, FramesOf
    <3>2. Len(r) = 0
      BY <3>1 DEF Whole
    <3>3. r = <<>>
      BY <3>2, EmptySeq
    <3>4. r \o t = t
      BY <3>3, ConcatEmptySeq
    <3>5. <<>> \o Frames[t] = Frames[t]
      BY <2>2, ConcatEmptySeq
    <3> QED
      BY <2>2, <3>1, <3>2, <3>4, <3>5
  <2>4. CASE FrameSize(r) # 0
    <3>1. PICK c, q, n : c = r \o t /\ q = Rest(r) /\ n = FrameSize(r)
      OBVIOUS
    <3>2. q \in Seq(Items) /\ Len(q) = Len(r) - n /\ q \in U
      BY <1>1, <2>4, <3>1, RestFacts
    <3>3. c \in Seq(Items) /\ q \o t \in Seq(Items)
      BY <3>1, <3>2, ConcatProperties
    <3>4. FrameSize(c) = n /\ Rest(c) = q \o t /\ First(c) = First(r)
      BY <2>4, <3>1, FrameKept
    <3>5. /\ Frames[r] = First(r) \o Frames[q] /\ Complete[r] = n + Complete[q]
          /\ Frames[c] = First(r) \o Frames[q \o t] /\ Complete[c] = n + Complete[q \o t]
      <4>1. Frames[r] = First(r) \o Frames[q] /\ Complete[r] = n + Complete[q]
        BY <2>4, <3>1, FramesOf, CompleteOf DEF First
      <4>2. Frames[c] = First(c) \o Frames[Rest(c)] /\ Complete[c] = FrameSize(c) + Complete[Rest(c)]
        BY <2>4, <3>1, <3>3, <3>4, FramesOf, CompleteOf DEF First
      <4> QED
        BY <3>4, <4>1, <4>2
    <3>6. Frames[q] \in Seq(Seq(Items)) /\ Complete[q] \in 0 .. Len(q) /\ Len(q) \in Nat
      BY <3>2, FramesType, LenProperties
    <3>7. Whole(q)
      <4>1. n + Complete[q] = Len(r)
        BY <3>5 DEF Whole
      <4> QED
        BY <2>1, <3>1, <3>2, <3>6, <4>1 DEF Whole
    <3>8. Frames[q \o t] = Frames[q] \o Frames[t] /\ Complete[q \o t] = Len(q) + Complete[t]
      BY <3>2, <3>7
    <3>9. Complete[c] = Len(r) + Complete[t]
      BY <2>1, <2>2, <3>1, <3>2, <3>5, <3>8
    <3>10. Frames[c] = Frames[r] \o Frames[t]
      <4>1. PICK x, y, z : x = First(r) /\ y = Frames[q] /\ z = Frames[t]
        OBVIOUS
      <4>2. x \in Seq(Seq(Items)) /\ y \in Seq(Seq(Items)) /\ z \in Seq(Seq(Items))
        BY <2>2, <2>4, <3>6, <4>1, FirstType
      <4>3. (x \o y) \o z = x \o (y \o z)
        BY <4>2, FramesAssociative
      <4> QED
        BY <3>5, <3>8, <4>1, <4>3
    <3> QED
      BY <3>1, <3>9, <3>10
  <2> QED
    BY <2>3, <2>4
<1>2. \A r \in Seq(Items) : (FrameSize(r) # 0 => Rest(r) \in U) => r \in U
  BY <1>1
<1> HIDE DEF U
<1>3. a \in U
  BY <1>2, FrameInduction
<1> QED
  BY <1>3 DEF U

LEMMA WholeConcat ==
  ASSUME NEW a \in Seq(Items), Whole(a), NEW t \in Seq(Items), Whole(t)
  PROVE  Whole(a \o t)
<1>1. Complete[a \o t] = Len(a) + Complete[t]
  BY Ahead
<1>2. Len(a \o t) = Len(a) + Len(t)
  BY ConcatProperties
<1> QED
  BY <1>1, <1>2 DEF Whole

\* What stands in front.
LEMMA FrontFacts ==
  ASSUME NEW s \in Seq(Items), NEW n \in 0 .. Len(s)
  PROVE  /\ SubSeq(s, 1, n) \in Seq(Items) /\ Len(SubSeq(s, 1, n)) = n
         /\ \A i \in 1 .. n : SubSeq(s, 1, n)[i] = s[i]
<1>1. Len(s) \in Nat /\ n \in Nat /\ n <= Len(s)
  BY LenProperties
<1>2. \A i \in 1 .. n : s[i] \in Items
  BY <1>1, ElementOfSeq
<1>3. /\ SubSeq(s, 1, n) \in Seq(Items) /\ Len(SubSeq(s, 1, n)) = IF 1 <= n THEN n - 1 + 1 ELSE 0
      /\ \A i \in 1 .. n - 1 + 1 : SubSeq(s, 1, n)[i] = s[1 + i - 1]
  BY <1>1, <1>2, SubSeqProperties
<1>4. PICK f : f = SubSeq(s, 1, n)
  OBVIOUS
<1>5. Len(f) = n
  BY <1>1, <1>3, <1>4
<1>6. ASSUME NEW i \in 1 .. n PROVE f[i] = s[i]
  <2>1. i \in 1 .. n - 1 + 1 /\ 1 + i - 1 = i
    BY <1>1
  <2> QED
    BY <1>3, <1>4, <2>1
<1> QED
  BY <1>3, <1>4, <1>5, <1>6

\* The first frame, cut off, is whole.
LEMMA FrameWhole ==
  ASSUME NEW s \in Seq(Items)
  PROVE  Whole(SubSeq(s, 1, FrameSize(s)))
<1>1. PICK n, f : n = FrameSize(s) /\ f = SubSeq(s, 1, n)
  OBVIOUS
<1>2. n \in 0 .. Len(s) /\ Len(s) \in Nat
  BY <1>1, FrameFacts
<1>3. f \in Seq(Items) /\ Len(f) = n /\ \A i \in 1 .. n : f[i] = s[i]
  BY <1>1, <1>2, FrontFacts
<1>4. CASE n = 0
  <2>1. f = <<>>
    BY <1>3, <1>4, EmptySeq
  <2> QED
    BY <1>1, <2>1, EmptyWhole
<1>5. CASE n # 0
  <2>1. s[1] \in Nat /\ n = s[1] + 1
    BY <1>1, <1>5, FrameFacts
  <2>2. f[1] = s[1] /\ f # <<>>
    BY <1>2, <1>3, <1>5, EmptySeq
  <2>3. FrameSize(f) = n
    BY <1>3, <2>1, <2>2 DEF FrameSize
  <2>4. PICK r : r = Rest(f)
    OBVIOUS
  <2>5. r \in Seq(Items) /\ Len(r) = 0
    BY <1>2, <1>3, <2>3, <2>4, RestFacts
  <2>6. r = <<>>
    BY <2>5, EmptySeq
  <2>7. Complete[r] = 0
    BY <2>5, <2>6, EmptyWhole DEF Whole
  <2>8. Complete[f] = n
    BY <1>2, <1>3, <1>5, <2>3, <2>4, <2>7, CompleteOf
  <2> QED
    BY <1>1, <1>3, <2>8 DEF Whole
<1> QED
  BY <1>4, <1>5

\* So are all complete frames at the front.
LEMMA CompleteWhole ==
  ASSUME NEW s \in Seq(Items)
  PROVE  Whole(SubSeq(s, 1, Complete[s]))
<1> DEFINE U == {r \in Seq(Items) : Whole(SubSeq(r, 1, Complete[r]))}
<1>1. ASSUME NEW r \in Seq(Items), FrameSize(r) # 0 => Rest(r) \in U PROVE r \in U
  <2>1. PICK n, q, k : n = FrameSize(r) /\ q = Rest(r) /\ k = Complete[q]
    OBVIOUS
  <2>2. n \in 0 .. Len(r) /\ Len(r) \in Nat
    BY <2>1, FrameFacts
  <2>3. q \in Seq(Items) /\ Len(q) = Len(r) - n
    BY <2>1, RestFacts
  <2>4. k \in 0 .. Len(q)
    BY <2>1, <2>3, FramesType
  <2>5. CASE n = 0
    <3>1. Complete[r] = 0
      BY <2>1, <2>5, CompleteOf
    <3>2. SubSeq(r, 1, Complete[r]) = <<>>
      BY <3>1, SubSeqEmpty
    <3> QED
      BY <3>2, EmptyWhole
  <2>6. CASE n # 0
    <3>1. Complete[r] = n + k
      BY <2>1, <2>6, CompleteOf
    <3>2. PICK f, h, g : f = SubSeq(r, 1, n) /\ h = SubSeq(q, 1, k) /\ g = SubSeq(r, 1, n + k)
      OBVIOUS
    <3>3. f \in Seq(Items) /\ Len(f) = n /\ \A i \in 1 .. n : f[i] = r[i]
      BY <2>2, <3>2, FrontFacts
    <3>4. h \in Seq(Items) /\ Len(h) = k /\ \A i \in 1 .. k : h[i] = q[i]
      BY <2>3, <2>4, <3>2, FrontFacts
    <3>5. g \in Seq(Items) /\ Len(g) = n + k /\ \A i \in 1 .. n + k : g[i] = r[i]
      <4>1. PICK m : m = n + k
        OBVIOUS
      <4>2. m \in 0 .. Len(r)
        BY <2>2, <2>3, <2>4, <4>1
      <4> QED
        BY <3>2, <4>1, <4>2, FrontFacts
    <3>6. \A i \in 1 .. Len(r) - n : q[i] = r[n + i]
      BY <2>1, <2>2, AfterFacts DEF Rest
    <3>7. /\ f \o h \in Seq(Items) /\ Len(f \o h) = n + k
          /\ \A i \in 1 .. n + k : (f \o h)[i] = IF i <= n THEN f[i] ELSE h[i - n]
      BY <3>3, <3>4, ConcatProperties
    <3>8. ASSUME NEW i \in 1 .. n + k PROVE g[i] = (f \o h)[i]
      <4>1. CASE i <= n
        <5>1. i \in 1 .. n
          BY <4>1
        <5>2. g[i] = r[i] /\ f[i] = r[i]
          BY <3>3, <3>5, <5>1
        <5>3. (f \o h)[i] = f[i]
          BY <3>7, <4>1
        <5> QED
          BY <5>2, <5>3
      <4>2. CASE i > n
        <5>1. i - n \in 1 .. k /\ i - n \in 1 .. Len(r) - n /\ n + (i - n) = i
          BY <2>2, <2>3, <2>4, <4>2
        <5>2. (f \o h)[i] = h[i - n]
          BY <2>2, <3>7, <4>2
        <5> QED
          BY <3>4, <3>5, <3>6, <5>1, <5>2
      <4> QED
        <5>1. n \in Int /\ i \in Int
          BY <2>2, <2>4
        <5>2. i <= n \/ i > n
          BY <5>1
        <5> QED
          BY <4>1, <4>2, <5>2
    <3>9. PICK w : w = f \o h
      OBVIOUS
    <3>10. g = w
      <4>1. Len(g) = Len(w)
        BY <3>5, <3>7, <3>9
      <4> QED
        BY <3>5, <3>7, <3>8, <3>9, <4>1, SeqEqual
    <3>11. Whole(f) /\ Whole(h)
      BY <1>1, <2>1, <2>6, <3>2, FrameWhole
    <3>12. Whole(w)
      BY <3>3, <3>4, <3>9, <3>11, WholeConcat
    <3> QED
      BY <3>1, <3>2, <3>10, <3>12
  <2> QED
    BY <2>5, <2>6
<1>2. \A r \in Seq(Items) : (FrameSize(r) # 0 => Rest(r) \in U) => r \in U
  BY <1>1
<1> HIDE DEF U
<1>3. s \in U
  BY <1>2, FrameInduction
<1> QED
  BY <1>3 DEF U

-----------------------------------------------------------------------------
(* The invariant.  What was read is frames that were taken, and what is held: *)
(* the frames of the former have been handed on, or are being handed on.      *)

Progress(a) ==
  /\ Whole(a)
  /\ arrived = a \o Contents(cumulative)
  /\ Frames[a] = IF pc = "notify" THEN seen \o output ELSE seen

DecoderInv ==
  /\ TypeOK
  /\ \E a \in Seq(Items) : Progress(a)
  /\ pc = "idle" /\ ~threw => FrameSize(Contents(cumulative)) = 0

LEMMA DecoderInit == Init => DecoderInv
<1> SUFFICES ASSUME Init PROVE DecoderInv
  OBVIOUS
<1>1. Contents(cumulative) = <<>> /\ cumulative \in Buffers(Items)
  BY NewContents DEF Init
<1>2. <<>> \in Seq(Items) /\ <<>> \in Seq(Seq(Items)) /\ 0 \in 0 .. MaxThrows
  BY EmptySeq, DecoderAssumption
<1>3. TypeOK
  BY <1>1, <1>2 DEF Init, TypeOK
<1>4. <<>> = <<>> \o <<>>
  BY <1>2, ConcatEmptySeq
<1>5. Progress(<<>>)
  BY <1>1, <1>4, EmptyWhole DEF Init, Progress
<1>6. FrameSize(Contents(cumulative)) = 0
  BY <1>1 DEF FrameSize
<1> QED
  BY <1>2, <1>3, <1>5, <1>6 DEF DecoderInv

\* One more buffer is gathered.
LEMMA ReadInv ==
  ASSUME NEW b \in Inputs, DecoderInv, Read(b)
  PROVE  DecoderInv'
<1>1. b \in Buffers(Items) /\ cumulative \in Buffers(Items)
  BY DecoderAssumption DEF DecoderInv, TypeOK
<1>2. PICK c, d, q : c = Contents(cumulative) /\ d = Contents(b) /\ q = cumulative'
  OBVIOUS
<1>3. c \in Seq(Items) /\ d \in Seq(Items)
  BY <1>1, <1>2, ContentsType
<1>4. q \in Buffers(Items) /\ Contents(q) = c \o d
  <2>1. CASE ReadBytes(b) /\ IsEmpty(cumulative)
    <3>1. q = b
      BY <1>2, <2>1 DEF ReadBytes, Gathered
    <3>2. Len(c) = 0
      BY <1>1, <1>2, <2>1, ContentsType, LenProperties DEF IsEmpty, Size
    <3>3. c = <<>>
      BY <1>3, <3>2, EmptySeq
    <3>4. <<>> \o d = d
      BY <1>3, ConcatEmptySeq
    <3> QED
      BY <1>1, <1>2, <3>1, <3>3, <3>4
  <2>2. CASE ReadBytes(b) /\ ~IsEmpty(cumulative)
    <3>1. q = AppendFrom(cumulative, b)
      BY <1>2, <2>2 DEF ReadBytes, Gathered
    <3> QED
      BY <1>1, <1>2, <3>1, AppendContents
  <2>3. CASE ReadObject(b)
    <3>1. q = Put(cumulative, d)
      BY <1>2, <2>3 DEF ReadObject
    <3> QED
      BY <1>1, <1>2, <1>3, <3>1, PutContents
  <2> QED
    BY <2>1, <2>2, <2>3 DEF Read
<1>5. PICK a \in Seq(Items) : Progress(a)
  BY DEF DecoderInv
<1>6. arrived' = a \o (c \o d) /\ arrived' \in Seq(Items)
  <2>1. arrived' = (a \o c) \o d
    BY <1>2, <1>5 DEF Progress, Read
  <2>2. (a \o c) \o d = a \o (c \o d)
    BY <1>3, ConcatAssociative
  <2>3. c \o d \in Seq(Items) /\ a \o (c \o d) \in Seq(Items)
    <3>1. c \o d \in Seq(Items)
      BY <1>3, ConcatProperties
    <3>2. PICK e : e = c \o d
      OBVIOUS
    <3> QED
      BY <3>1, <3>2, ConcatProperties
  <2> QED
    BY <2>1, <2>2, <2>3
<1>7. TypeOK'
  BY <1>2, <1>4, <1>6 DEF DecoderInv, TypeOK, Read
<1>8. Progress(a)'
  BY <1>2, <1>4, <1>5, <1>6 DEF Progress, Read
<1> QED
  BY <1>7, <1>8 DEF DecoderInv, Read

\* What decode takes is whole.
LEMMA DecodeInv ==
  ASSUME NEW n \in 1 .. MaxItems, DecoderInv, Decode(n)
  PROVE  DecoderInv'
<1>1. cumulative \in Buffers(Items)
  BY DEF DecoderInv, TypeOK
<1>2. PICK c, f, q : c = Contents(cumulative) /\ f = SubSeq(c, 1, n) /\ q = cumulative'
  OBVIOUS
<1>3. c \in Seq(Items) /\ Len(c) = Size(cumulative)
  BY <1>1, <1>2, ContentsType
<1>4. n \in 0 .. Len(c) /\ Whole(f)
  <2>1. n = FrameSize(c) \/ n = Complete[c]
    BY <1>2 DEF Decode
  <2> QED
    BY <1>2, <1>3, <2>1, FrameFacts, FramesType, FrameWhole, CompleteWhole
<1>5. f \in Seq(Items)
  BY <1>2, <1>3, <1>4, FrontFacts
<1>6. q \in Buffers(Items) /\ f \o Contents(q) = c /\ Contents(q) \in Seq(Items)
  <2>1. PICK r : r = RemoveFront(cumulative, n)
    OBVIOUS
  <2>2. r \in Buffers(Items) /\ f \o Contents(r) = c
    BY <1>1, <1>2, <1>3, <1>4, <2>1, RemoveContents
  <2>3. Discard(r) \in Buffers(Items) /\ Contents(Discard(r)) = Contents(r)
    BY <2>2, DiscardContents
  <2>4. q = r \/ q = Discard(r)
    BY <1>2, <2>1 DEF Decode, Taken
  <2>5. q \in Buffers(Items) /\ Contents(q) = Contents(r)
    BY <2>2, <2>3, <2>4
  <2> QED
    BY <2>2, <2>5, ContentsType
<1>7. PICK a \in Seq(Items) : Progress(a)
  BY DEF DecoderInv
<1>8. PICK e : e = a \o f
  OBVIOUS
<1>9. e \in Seq(Items) /\ Whole(e)
  BY <1>4, <1>5, <1>7, <1>8, ConcatProperties, WholeConcat DEF Progress
<1>10. arrived = e \o Contents(q)
  <2>1. PICK d : d = Contents(q)
    OBVIOUS
  <2>2. (a \o f) \o d = a \o (f \o d)
    BY <1>5, <1>6, <2>1, ConcatAssociative
  <2> QED
    BY <1>2, <1>6, <1>7, <1>8, <2>1, <2>2 DEF Progress
<1>11. output' = Frames[f] /\ Frames[f] \in Seq(Seq(Items))
  <2>1. Frames[f] \in Seq(Seq(Items))
    BY <1>5, FramesType
  <2>2. PICK x : x = Frames[f]
    OBVIOUS
  <2>3. <<>> \o x = x
    BY <2>1, <2>2, ConcatEmptySeq
  <2> QED
    BY <1>2, <2>1, <2>2, <2>3 DEF Decode, ClearedOutput
<1>12. Frames[e] = seen \o output'
  BY <1>5, <1>7, <1>8, <1>11, Ahead DEF Progress, Decode
<1>13. TypeOK'
  BY <1>2, <1>6, <1>11 DEF DecoderInv, TypeOK, Decode
<1>14. Progress(e)'
  BY <1>2, <1>9, <1>10, <1>12 DEF Progress, Decode
<1> QED
  BY <1>9, <1>13, <1>14 DEF DecoderInv, Decode

\* Steps that leave what was read, and what is held, alone.
LEMMA HandOnInv ==
  ASSUME DecoderInv, Notify \/ Notified \/ Throw \/ NothingTaken
  PROVE  DecoderInv'
<1>1. PICK a \in Seq(Items) : Progress(a)
  BY DEF DecoderInv
<1>2. output \in Seq(Seq(Items)) /\ seen \in Seq(Seq(Items)) /\ <<>> \in Seq(Seq(Items))
  BY EmptySeq DEF DecoderInv, TypeOK
<1>3. CASE Notify
  <2>1. PICK h, t : h = Head(output) /\ t = Tail(output)
    OBVIOUS
  <2>2. h \in Seq(Items) /\ t \in Seq(Seq(Items))
    BY <1>2, <1>3, <2>1, HeadTailProperties DEF Notify
  <2>3. output = <<h>> \o t
    <3>1. output # <<>> /\ Len(output) \in Nat \ {0}
      BY <1>2, <1>3, EmptySeq DEF Notify
    <3>2. SubSeq(output, 1, Len(output)) = <<output[1]>> \o SubSeq(output, 1 + 1, Len(output))
      <4>1. 1 \in 1 .. Len(output) /\ Len(output) \in 1 .. Len(output)
        BY <3>1
      <4> QED
        BY <1>2, <4>1, SubSeqRecursiveFirst
    <3>3. SubSeq(output, 1, Len(output)) = output
      BY <1>2, SubSeqFull
    <3>4. t = SubSeq(output, 2, Len(output))
      BY <1>2, <2>1, <3>1, TailIsSubSeq
    <3>5. h = output[1]
      BY <2>1
    <3> QED
      BY <3>2, <3>3, <3>4, <3>5
  <2>4. <<h>> \in Seq(Seq(Items))
    BY <2>2
  <2>5. Append(seen, h) = seen \o <<h>> /\ Append(seen, h) \in Seq(Seq(Items))
    BY <1>2, <2>2, AppendIsConcat, AppendProperties
  <2>6. Append(seen, h) \o t = seen \o output
    <3>1. PICK w : w = <<h>>
      OBVIOUS
    <3>2. (seen \o w) \o t = seen \o (w \o t)
      BY <1>2, <2>2, <2>4, <3>1, ConcatAssociative
    <3> QED
      BY <2>3, <2>5, <3>1, <3>2
  <2>7. TypeOK'
    BY <1>3, <2>1, <2>2, <2>5 DEF DecoderInv, TypeOK, Notify
  <2>8. Progress(a)'
    BY <1>1, <1>3, <2>1, <2>6 DEF Progress, Notify
  <2> QED
    BY <1>3, <2>7, <2>8 DEF DecoderInv, Notify
<1>4. CASE Notified
  <2>1. seen \o <<>> = seen
    BY <1>2, ConcatEmptySeq
  <2>2. TypeOK'
    BY <1>4 DEF DecoderInv, TypeOK, Notified, LoopsOn
  <2>3. Progress(a)'
    BY <1>1, <1>4, <2>1 DEF Progress, Notified, LoopsOn
  <2> QED
    BY <1>4, <2>2, <2>3 DEF DecoderInv, Notified, LoopsOn
<1>5. CASE Throw
  <2>1. seen \o output \in Seq(Seq(Items))
    BY <1>2, ConcatProperties
  <2>2. throws' \in 0 .. MaxThrows
    BY <1>5, DecoderAssumption DEF DecoderInv, TypeOK, Throw
  <2>3. TypeOK'
    BY <1>2, <1>5, <2>1, <2>2 DEF DecoderInv, TypeOK, Throw
  <2>4. Progress(a)'
    BY <1>1, <1>5 DEF Progress, Throw
  <2> QED
    BY <1>5, <2>3, <2>4 DEF DecoderInv, Throw
<1>6. CASE NothingTaken
  <2>1. TypeOK'
    BY <1>2, <1>6 DEF DecoderInv, TypeOK, NothingTaken
  <2>2. Progress(a)'
    BY <1>1, <1>6 DEF Progress, NothingTaken
  <2> QED
    BY <1>6, <2>1, <2>2 DEF DecoderInv, NothingTaken
<1> QED
  BY <1>3, <1>4, <1>5, <1>6

\* on_read_complete gives space back and keeps what is held.
LEMMA ReadCompleteInv ==
  ASSUME DecoderInv, ReadComplete
  PROVE  DecoderInv'
<1>1. cumulative' \in Buffers(Items) /\ Contents(cumulative') = Contents(cumulative)
  BY DiscardContents DEF DecoderInv, TypeOK, ReadComplete
<1>2. TypeOK'
  BY <1>1 DEF DecoderInv, TypeOK, ReadComplete
<1>3. ASSUME NEW a \in Seq(Items), Progress(a) PROVE Progress(a)'
  BY <1>1, <1>3 DEF Progress, ReadComplete
<1>4. FrameSize(Contents(cumulative')) = FrameSize(Contents(cumulative))
  BY <1>1
<1> QED
  BY <1>2, <1>3, <1>4 DEF DecoderInv, ReadComplete

LEMMA DecoderStep == DecoderInv /\ [Next]_vars => DecoderInv'
<1> SUFFICES ASSUME DecoderInv, [Next]_vars PROVE DecoderInv'
  OBVIOUS
<1>1. CASE UNCHANGED vars
  BY <1>1 DEF vars, DecoderInv, TypeOK, Progress
<1> QED
  BY <1>1, ReadInv, DecodeInv, HandOnInv, ReadCompleteInv DEF Next

\* The decoder's invariant holds throughout.
LEMMA DecoderCorrect == Spec => []DecoderInv
  BY DecoderInit, DecoderStep, PTL DEF Spec

-----------------------------------------------------------------------------
(* What follows from it. *)

\* A sequence is the front of itself and what follows.
LEMMA FrontOfConcat ==
  ASSUME NEW S, NEW p \in Seq(S), NEW r \in Seq(S)
  PROVE  Len(p) <= Len(p \o r) /\ p = SubSeq(p \o r, 1, Len(p))
<1>1. Len(p) \in Nat /\ Len(r) \in Nat /\ Len(p \o r) = Len(p) + Len(r)
  BY ConcatProperties, LenProperties
<1>2. CASE Len(p) = 0
  <2>1. p = <<>>
    BY <1>2, EmptySeq
  <2>2. SubSeq(p \o r, 1, Len(p)) = <<>>
    BY <1>2, SubSeqEmpty
  <2> QED
    BY <1>1, <2>1, <2>2
<1>3. CASE Len(p) # 0
  <2>1. 1 \in 1 .. Len(p) /\ Len(p) \in 1 .. Len(p)
    BY <1>1, <1>3
  <2>2. SubSeq(p \o r, 1, Len(p)) = SubSeq(p, 1, Len(p))
    BY <2>1, SubSeqOfConcat1
  <2> QED
    BY <1>1, <2>2, SubSeqFull
<1> QED
  BY <1>2, <1>3

LEMMA HandedOn == DecoderInv => FramesInOrder /\ NothingWaits
<1> SUFFICES ASSUME DecoderInv PROVE FramesInOrder /\ NothingWaits
  OBVIOUS
<1>1. PICK a \in Seq(Items) : Progress(a)
  BY DEF DecoderInv
<1>2. PICK c : c = Contents(cumulative)
  OBVIOUS
<1>3. c \in Seq(Items)
  BY <1>2, ContentsType DEF DecoderInv, TypeOK
<1>4. Frames[arrived] = Frames[a] \o Frames[c]
  BY <1>1, <1>2, <1>3, Ahead DEF Progress
<1>5. PICK m : m = IF pc = "notify" THEN output ELSE <<>>
  OBVIOUS
<1>6. seen \in Seq(Seq(Items)) /\ m \in Seq(Seq(Items)) /\ Frames[c] \in Seq(Seq(Items))
  BY <1>3, <1>5, FramesType, EmptySeq DEF DecoderInv, TypeOK
<1>7. Frames[a] = seen \o m
  BY <1>1, <1>5, <1>6, ConcatEmptySeq DEF Progress
<1>8. FramesInOrder
  <2>1. PICK x, y : x = Frames[c] /\ y = m \o x
    OBVIOUS
  <2>2. y \in Seq(Seq(Items))
    BY <1>6, <2>1, ConcatProperties
  <2>3. (seen \o m) \o x = seen \o (m \o x)
    <3>1. PICK p : p = seen
      OBVIOUS
    <3>2. p \in Seq(Seq(Items)) /\ x \in Seq(Seq(Items))
      BY <1>6, <2>1, <3>1
    <3>3. (p \o m) \o x = p \o (m \o x)
      BY <1>6, <3>2, ConcatAssociative
    <3> QED
      BY <3>1, <3>3
  <2>4. Frames[arrived] = seen \o y
    BY <1>4, <1>7, <2>1, <2>3
  <2> QED
    BY <1>6, <2>2, <2>4, FrontOfConcat DEF FramesInOrder
<1>9. ASSUME pc = "idle", ~threw PROVE seen = Frames[arrived]
  <2>1. Frames[c] = <<>>
    BY <1>2, <1>3, <1>9, FramesOf DEF DecoderInv
  <2>2. Frames[a] = seen
    BY <1>1, <1>9 DEF Progress
  <2> QED
    BY <1>4, <1>6, <2>1, <2>2, ConcatEmptySeq
<1> QED
  BY <1>8, <1>9 DEF NothingWaits

\* No byte_buffer assertion fails in a decoder, and each variable keeps its type,
\* whatever is read and thrown.
THEOREM DecoderTypeCorrect == Spec => []TypeOK
<1>1. DecoderInv => TypeOK
  BY DEF DecoderInv
<1> QED
  BY <1>1, DecoderCorrect, PTL

\* The frames of what was read are handed on or dropped by an exception, in order and each
\* once, for every way of cutting the input, taking one frame or all, and throwing in
\* between.
THEOREM FramesKept == Spec => []FramesInOrder
<1>1. DecoderInv => FramesInOrder
  BY HandedOn
<1> QED
  BY <1>1, DecoderCorrect, PTL

\* on_read returns with no complete frame held, unless by an exception.
THEOREM NoFrameHeld == Spec => []NothingWaits
<1>1. DecoderInv => NothingWaits
  BY HandedOn
<1> QED
  BY <1>1, DecoderCorrect, PTL
=============================================================================
