--------------------------- MODULE PipelineProofs ---------------------------
(***************************************************************************)
(* What holds of Pipeline for all handlers and any number of calls: the    *)
(* two chains are one list, and a call takes each handler once, in order.  *)
(***************************************************************************)
EXTENDS Pipeline, SequenceTheorems, TLAPS

-----------------------------------------------------------------------------
(* The layers as a sequence. *)

\* Whole, for any list of handlers.
W(s) == <<"head">> \o s \o <<"tail">>

\* A list in which no handler comes twice.
Distinct(s) == \A i, j \in DOMAIN s : s[i] = s[j] => i = j

\* The head, the handlers, the tail.
LEMMA WholeFacts ==
  ASSUME NEW s \in Seq(Handlers)
  PROVE  /\ W(s) \in Seq(Layers)
         /\ Len(s) \in Nat
         /\ Len(W(s)) = Len(s) + 2
         /\ W(s)[1] = "head"
         /\ W(s)[Len(s) + 2] = "tail"
         /\ \A k \in 1 .. Len(s) : W(s)[k + 1] = s[k] /\ s[k] \in Handlers
<1>1. <<"head">> \in Seq(Layers) /\ <<"tail">> \in Seq(Layers) /\ s \in Seq(Layers)
  BY DEF Layers
<1>2. /\ Len(s) \in Nat /\ DOMAIN s = 1 .. Len(s)
      /\ Len(<<"head">>) = 1 /\ Len(<<"tail">>) = 1
      /\ <<"head">>[1] = "head" /\ <<"tail">>[1] = "tail"
  BY LenProperties
<1>3. /\ <<"head">> \o s \in Seq(Layers)
      /\ Len(<<"head">> \o s) = 1 + Len(s)
      /\ \A i \in 1 .. 1 + Len(s) :
           (<<"head">> \o s)[i] = IF i <= 1 THEN <<"head">>[i] ELSE s[i - 1]
  BY <1>1, <1>2, ConcatProperties
<1>4. /\ W(s) \in Seq(Layers)
      /\ Len(W(s)) = 1 + Len(s) + 1
      /\ \A i \in 1 .. 1 + Len(s) + 1 :
           W(s)[i] = IF i <= 1 + Len(s) THEN (<<"head">> \o s)[i] ELSE <<"tail">>[i - (1 + Len(s))]
  <2> DEFINE q == <<"head">> \o s
  <2>1. q \in Seq(Layers) /\ <<"tail">> \in Seq(Layers) /\ Len(q) = 1 + Len(s)
    BY <1>1, <1>3
  <2>2. W(s) = q \o <<"tail">>
    BY DEF W
  <2> HIDE DEF q
  <2>3. /\ q \o <<"tail">> \in Seq(Layers)
        /\ Len(q \o <<"tail">>) = Len(q) + 1
        /\ \A i \in 1 .. Len(q) + 1 :
             (q \o <<"tail">>)[i] = IF i <= Len(q) THEN q[i] ELSE <<"tail">>[i - Len(q)]
    BY <2>1, <1>2, ConcatProperties
  <2>4. /\ W(s) \in Seq(Layers)
        /\ Len(W(s)) = 1 + Len(s) + 1
        /\ \A i \in 1 .. 1 + Len(s) + 1 :
             W(s)[i] = IF i <= 1 + Len(s) THEN q[i] ELSE <<"tail">>[i - (1 + Len(s))]
    BY <2>1, <2>2, <2>3, <1>2
  <2> QED
    BY <2>4 DEF q
<1>5. W(s)[1] = "head"
  BY <1>2, <1>3, <1>4
<1>6. W(s)[Len(s) + 2] = "tail"
  <2>1. W(s)[Len(s) + 2] = <<"tail">>[Len(s) + 2 - (1 + Len(s))]
    BY <1>2, <1>4
  <2>2. Len(s) + 2 - (1 + Len(s)) = 1
    BY <1>2
  <2> QED
    BY <2>1, <2>2, <1>2
<1>7. ASSUME NEW k \in 1 .. Len(s)
      PROVE  W(s)[k + 1] = s[k] /\ s[k] \in Handlers
  <2>1. W(s)[k + 1] = (<<"head">> \o s)[k + 1]
    BY <1>2, <1>4
  <2>2. (<<"head">> \o s)[k + 1] = s[k + 1 - 1] /\ k + 1 - 1 = k
    BY <1>2, <1>3
  <2>3. s[k] \in Handlers
    BY ElementOfSeq
  <2> QED
    BY <2>1, <2>2, <2>3
<1> QED
  BY <1>2, <1>4, <1>5, <1>6, <1>7

\* No layer comes twice.
LEMMA WholeDistinct ==
  ASSUME NEW s \in Seq(Handlers), Distinct(s),
         NEW i \in 1 .. Len(s) + 2, NEW j \in 1 .. Len(s) + 2, W(s)[i] = W(s)[j]
  PROVE  i = j
<1>1. ASSUME NEW k \in 1 .. Len(s) + 2
      PROVE  /\ k = 1 => W(s)[k] = "head"
             /\ k = Len(s) + 2 => W(s)[k] = "tail"
             /\ k # 1 /\ k # Len(s) + 2 =>
                  k - 1 \in 1 .. Len(s) /\ W(s)[k] = s[k - 1] /\ W(s)[k] \in Handlers
  <2>1. k # 1 /\ k # Len(s) + 2 => k - 1 \in 1 .. Len(s) /\ k - 1 + 1 = k
    BY WholeFacts
  <2> QED
    BY <2>1, WholeFacts
<1>2. DOMAIN s = 1 .. Len(s) /\ Len(s) \in Nat
  BY LenProperties
<1>3. "head" \notin Handlers /\ "tail" \notin Handlers /\ "head" # "tail"
  BY PipelineAssumption
<1>4. CASE i = 1 \/ j = 1
  BY <1>1, <1>2, <1>3, <1>4
<1>5. CASE i = Len(s) + 2 \/ j = Len(s) + 2
  BY <1>1, <1>2, <1>3, <1>5
<1>6. CASE i # 1 /\ j # 1 /\ i # Len(s) + 2 /\ j # Len(s) + 2
  <2>1. s[i - 1] = s[j - 1] /\ i - 1 \in DOMAIN s /\ j - 1 \in DOMAIN s
    BY <1>1, <1>2, <1>6
  <2>2. i - 1 = j - 1
    BY <2>1 DEF Distinct
  <2> QED
    BY <2>2, <1>2
<1> QED
  BY <1>4, <1>5, <1>6

\* A handler that is added first is the second layer, and moves the others up.
LEMMA AddedFirst ==
  ASSUME NEW s \in Seq(Handlers), NEW h \in Handlers, Distinct(s), h \notin Range(s)
  PROVE  LET t == <<h>> \o s IN
         /\ t \in Seq(Handlers) /\ Len(t) = Len(s) + 1
         /\ Distinct(t)
         /\ W(t)[1] = "head" /\ W(t)[2] = h
         /\ \A k \in 2 .. Len(s) + 2 : W(t)[k + 1] = W(s)[k]
<1> DEFINE t == <<h>> \o s
<1>1. <<h>> \in Seq(Handlers) /\ Len(<<h>>) = 1 /\ <<h>>[1] = h /\ Len(s) \in Nat
  BY LenProperties
<1>2. /\ t \in Seq(Handlers) /\ Len(t) = 1 + Len(s)
      /\ \A i \in 1 .. 1 + Len(s) : t[i] = IF i <= 1 THEN <<h>>[i] ELSE s[i - 1]
  BY <1>1, ConcatProperties
<1> HIDE DEF t
<1>3. DOMAIN t = 1 .. Len(s) + 1 /\ DOMAIN s = 1 .. Len(s) /\ Len(t) = Len(s) + 1
  BY <1>1, <1>2, LenProperties
<1>4. t[1] = h /\ \A i \in 1 .. Len(s) : t[i + 1] = s[i]
  BY <1>1, <1>2
<1>5. Distinct(t)
  <2> SUFFICES ASSUME NEW i \in DOMAIN t, NEW j \in DOMAIN t, t[i] = t[j]
               PROVE  i = j
    BY DEF Distinct
  <2>1. \A k \in DOMAIN t : k # 1 => k - 1 \in DOMAIN s /\ t[k] = s[k - 1] /\ t[k] # h
    BY <1>1, <1>3, <1>4 DEF Range
  <2> QED
    BY <2>1, <1>1, <1>3, <1>4 DEF Distinct
<1>6. W(t)[1] = "head" /\ W(t)[Len(t) + 2] = "tail" /\ \A k \in 1 .. Len(t) : W(t)[k + 1] = t[k]
  BY <1>2, WholeFacts
<1>7. W(s)[Len(s) + 2] = "tail" /\ \A k \in 1 .. Len(s) : W(s)[k + 1] = s[k]
  BY WholeFacts
<1>8. W(t)[2] = h
  BY <1>1, <1>3, <1>4, <1>6
<1>9. ASSUME NEW k \in 2 .. Len(s) + 2
      PROVE  W(t)[k + 1] = W(s)[k]
  <2>1. CASE k = Len(s) + 2
    BY <2>1, <1>1, <1>3, <1>6, <1>7
  <2>2. CASE k # Len(s) + 2
    <3>1. k - 1 \in 1 .. Len(s) /\ k \in 1 .. Len(t) /\ k - 1 + 1 = k
      BY <2>2, <1>1, <1>3
    <3>2. W(s)[k] = s[k - 1] /\ W(t)[k + 1] = t[k] /\ t[k] = s[k - 1]
      BY <3>1, <1>4, <1>6, <1>7
    <3> QED
      BY <3>2
  <2> QED
    BY <2>1, <2>2
<1> QED
  BY <1>2, <1>3, <1>5, <1>6, <1>8, <1>9 DEF t

\* A handler that is added last is the last before the tail, and moves only that.
LEMMA AddedLast ==
  ASSUME NEW s \in Seq(Handlers), NEW h \in Handlers, Distinct(s), h \notin Range(s)
  PROVE  LET t == Append(s, h) IN
         /\ t \in Seq(Handlers) /\ Len(t) = Len(s) + 1
         /\ Distinct(t)
         /\ W(t)[Len(s) + 2] = h /\ W(t)[Len(s) + 3] = "tail"
         /\ \A k \in 1 .. Len(s) + 1 : W(t)[k] = W(s)[k]
<1> DEFINE t == Append(s, h)
<1>1. /\ t \in Seq(Handlers) /\ Len(t) = Len(s) + 1
      /\ \A i \in 1 .. Len(s) : t[i] = s[i]
      /\ t[Len(s) + 1] = h
  BY AppendProperties
<1> HIDE DEF t
<1>2. Len(s) \in Nat /\ DOMAIN t = 1 .. Len(s) + 1 /\ DOMAIN s = 1 .. Len(s)
  BY <1>1, LenProperties
<1>3. Distinct(t)
  <2> SUFFICES ASSUME NEW i \in DOMAIN t, NEW j \in DOMAIN t, t[i] = t[j]
               PROVE  i = j
    BY DEF Distinct
  <2>1. \A k \in DOMAIN t : k # Len(s) + 1 => k \in DOMAIN s /\ t[k] = s[k] /\ t[k] # h
    BY <1>1, <1>2 DEF Range
  <2> QED
    BY <2>1, <1>1, <1>2 DEF Distinct
<1>4. W(t)[1] = "head" /\ W(t)[Len(t) + 2] = "tail" /\ \A k \in 1 .. Len(t) : W(t)[k + 1] = t[k]
  BY <1>1, WholeFacts
<1>5. W(s)[1] = "head" /\ \A k \in 1 .. Len(s) : W(s)[k + 1] = s[k]
  BY WholeFacts
<1>6. W(t)[Len(s) + 3] = "tail"
  BY <1>1, <1>2, <1>4
<1>7. W(t)[Len(s) + 2] = h
  <2>1. Len(s) + 1 \in 1 .. Len(t) /\ Len(s) + 1 + 1 = Len(s) + 2
    BY <1>1, <1>2
  <2> QED
    BY <2>1, <1>1, <1>4
<1>8. ASSUME NEW k \in 1 .. Len(s) + 1
      PROVE  W(t)[k] = W(s)[k]
  <2>1. CASE k = 1
    BY <2>1, <1>4, <1>5
  <2>2. CASE k # 1
    <3>1. k - 1 \in 1 .. Len(s) /\ k - 1 \in 1 .. Len(t) /\ k - 1 + 1 = k
      BY <2>2, <1>1, <1>2
    <3>2. W(s)[k] = s[k - 1] /\ W(t)[k] = t[k - 1] /\ t[k - 1] = s[k - 1]
      BY <3>1, <1>1, <1>4, <1>5
    <3> QED
      BY <3>2
  <2> QED
    BY <2>1, <2>2
<1> QED
  BY <1>1, <1>3, <1>6, <1>7, <1>8 DEF t

-----------------------------------------------------------------------------
(* The chains. *)

\* next and prev read the sequence of the layers from its two ends.
Chained(s, nxt, prv) ==
  /\ \A k \in 1 .. Len(s) + 1 : nxt[W(s)[k]] = W(s)[k + 1] /\ prv[W(s)[k + 1]] = W(s)[k]
  /\ nxt["tail"] = NoLayer /\ prv["head"] = NoLayer

Pointers == [Layers -> Layers \cup {NoLayer}]

\* The handlers that were added are distinct, and the chains are their sequence.
ChainInv ==
  /\ list \in Seq(Handlers)
  /\ Distinct(list)
  /\ next \in Pointers /\ prev \in Pointers
  /\ Chained(list, next, prev)

\* Chained is what ChainsMirror says of the list.
LEMMA ChainedIsMirror == ASSUME ChainInv PROVE ChainsMirror
<1>1. Whole = W(list)
  BY DEF Whole, W
<1>2. Len(list) \in Nat /\ Len(Whole) - 1 = Len(list) + 1
  BY <1>1, WholeFacts DEF ChainInv
<1> QED
  BY <1>1, <1>2 DEF ChainInv, Chained, ChainsMirror

\* set_next on the head.
LEMMA SetNextChains ==
  ASSUME ChainInv, NEW h \in Handlers, h \notin Range(list), SetNext("head", h)
  PROVE  next' \in Pointers /\ prev' \in Pointers /\ Chained(<<h>> \o list, next', prev')
<1> DEFINE s == list
           t == <<h>> \o s
           n == Len(s)
<1>1. /\ s \in Seq(Handlers) /\ Distinct(s) /\ n \in Nat
      /\ W(s)[1] = "head" /\ W(s)[n + 2] = "tail" /\ W(s) \in Seq(Layers) /\ Len(W(s)) = n + 2
      /\ \A k \in 1 .. n : W(s)[k + 1] = s[k]
      /\ DOMAIN s = 1 .. n
  BY WholeFacts, LenProperties DEF ChainInv
<1>2. /\ Len(t) = n + 1 /\ W(t)[1] = "head" /\ W(t)[2] = h
      /\ \A k \in 2 .. n + 2 : W(t)[k + 1] = W(s)[k]
  BY <1>1, AddedFirst
<1>3. \A i, j \in 1 .. n + 2 : W(s)[i] = W(s)[j] => i = j
  BY <1>1, WholeDistinct
<1>4. "head" \in Layers /\ "tail" \in Layers /\ h \in Layers /\ h # "head" /\ h # "tail"
  BY PipelineAssumption DEF Layers
<1>5. \A k \in 1 .. n + 2 : W(s)[k] \in Layers /\ W(s)[k] # h
  <2> SUFFICES ASSUME NEW k \in 1 .. n + 2 PROVE W(s)[k] \in Layers /\ W(s)[k] # h
    OBVIOUS
  <2>1. W(s)[k] \in Layers
    BY <1>1, ElementOfSeq
  <2>2. CASE k = 1 \/ k = n + 2
    BY <2>1, <2>2, <1>1, <1>4
  <2>3. CASE k # 1 /\ k # n + 2
    <3>1. k - 1 \in 1 .. n /\ k - 1 + 1 = k
      BY <2>3, <1>1
    <3>2. W(s)[k] = s[k - 1] /\ k - 1 \in DOMAIN s
      BY <3>1, <1>1
    <3> QED
      BY <2>1, <3>2 DEF Range
  <2> QED
    BY <2>2, <2>3
<1>6. next \in Pointers /\ prev \in Pointers /\ next["tail"] = NoLayer /\ prev["head"] = NoLayer
      /\ \A k \in 1 .. n + 1 : next[W(s)[k]] = W(s)[k + 1] /\ prev[W(s)[k + 1]] = W(s)[k]
  BY DEF ChainInv, Chained
<1>7. next["head"] = W(s)[2] /\ prev[W(s)[2]] = "head" /\ W(s)[2] \in Layers /\ W(s)[2] # h
      /\ W(s)[2] # "head"
  <2>1. 1 \in 1 .. n + 1 /\ 2 \in 1 .. n + 2 /\ 1 \in 1 .. n + 2 /\ 1 + 1 = 2
    BY <1>1
  <2> QED
    BY <2>1, <1>1, <1>3, <1>5, <1>6
<1>8. /\ next' = [next EXCEPT ![h] = W(s)[2], !["head"] = h]
      /\ prev' = [prev EXCEPT ![h] = "head", ![W(s)[2]] = h]
  BY <1>7 DEF SetNext
<1> DEFINE w == W(s)
           v == W(t)
           second == W(s)[2]
<1>9. /\ next' \in Pointers /\ prev' \in Pointers
      /\ next'["head"] = h /\ next'[h] = second
      /\ \A l \in Layers : l # h /\ l # "head" => next'[l] = next[l]
      /\ prev'[h] = "head" /\ prev'[second] = h
      /\ \A l \in Layers : l # h /\ l # second => prev'[l] = prev[l]
  <2>1. second \in Layers /\ second # h
    BY <1>7
  <2>2. next' = [next EXCEPT ![h] = second, !["head"] = h]
        /\ prev' = [prev EXCEPT ![h] = "head", ![second] = h]
    BY <1>8
  <2> HIDE DEF second
  <2> QED
    BY <2>1, <2>2, <1>4, <1>6 DEF Pointers
<1>10. ASSUME NEW k \in 1 .. n + 2
       PROVE  next'[v[k]] = v[k + 1] /\ prev'[v[k + 1]] = v[k]
  <2>1. CASE k = 1
    <3>1. v[k] = "head" /\ v[k + 1] = h
      BY <2>1, <1>2
    <3> QED
      BY <3>1, <1>9
  <2>2. CASE k = 2
    <3>1. 2 \in 2 .. n + 2 /\ 2 + 1 = k + 1
      BY <2>2, <1>1
    <3>2. v[k] = h /\ v[k + 1] = second
      BY <2>2, <3>1, <1>2
    <3> QED
      BY <3>2, <1>9
  <2>3. CASE k # 1 /\ k # 2
    <3>1. k - 1 \in 2 .. n + 2 /\ k \in 2 .. n + 2 /\ k - 1 + 1 = k /\ k - 1 \in 1 .. n + 1
          /\ k - 1 \in 1 .. n + 2 /\ k \in 1 .. n + 2 /\ 1 \in 1 .. n + 2 /\ 2 \in 1 .. n + 2
      BY <2>3, <1>1
    <3>2. v[k] = w[k - 1] /\ v[k + 1] = w[k]
      BY <3>1, <1>2
    <3>3. w[k - 1] # "head" /\ w[k] # second /\ w[k - 1] # h /\ w[k] # h
          /\ w[k - 1] \in Layers /\ w[k] \in Layers
      BY <2>3, <3>1, <1>1, <1>3, <1>5
    <3>4. next[w[k - 1]] = w[k] /\ prev[w[k]] = w[k - 1]
      BY <3>1, <1>6
    <3> QED
      BY <3>2, <3>3, <3>4, <1>9
  <2> QED
    BY <2>1, <2>2, <2>3
<1>11. next'["tail"] = NoLayer /\ prev'["head"] = NoLayer
  BY <1>4, <1>6, <1>7, <1>9, PipelineAssumption
<1>12. Len(t) + 1 = n + 2
  BY <1>1, <1>2
<1> QED
  BY <1>9, <1>10, <1>11, <1>12 DEF Chained

\* set_prev on the tail.
LEMMA SetPrevChains ==
  ASSUME ChainInv, NEW h \in Handlers, h \notin Range(list), SetPrev("tail", h)
  PROVE  next' \in Pointers /\ prev' \in Pointers /\ Chained(Append(list, h), next', prev')
<1> DEFINE s == list
           t == Append(s, h)
           n == Len(s)
<1>1. /\ s \in Seq(Handlers) /\ Distinct(s) /\ n \in Nat
      /\ W(s)[1] = "head" /\ W(s)[n + 2] = "tail" /\ W(s) \in Seq(Layers) /\ Len(W(s)) = n + 2
      /\ \A k \in 1 .. n : W(s)[k + 1] = s[k]
      /\ DOMAIN s = 1 .. n
  BY WholeFacts, LenProperties DEF ChainInv
<1>2. /\ Len(t) = n + 1 /\ W(t)[n + 2] = h /\ W(t)[n + 3] = "tail"
      /\ \A k \in 1 .. n + 1 : W(t)[k] = W(s)[k]
  BY <1>1, AddedLast
<1>3. \A i, j \in 1 .. n + 2 : W(s)[i] = W(s)[j] => i = j
  BY <1>1, WholeDistinct
<1>4. "head" \in Layers /\ "tail" \in Layers /\ h \in Layers /\ h # "head" /\ h # "tail"
  BY PipelineAssumption DEF Layers
<1>5. \A k \in 1 .. n + 2 : W(s)[k] \in Layers /\ W(s)[k] # h
  <2> SUFFICES ASSUME NEW k \in 1 .. n + 2 PROVE W(s)[k] \in Layers /\ W(s)[k] # h
    OBVIOUS
  <2>1. W(s)[k] \in Layers
    BY <1>1, ElementOfSeq
  <2>2. CASE k = 1 \/ k = n + 2
    BY <2>1, <2>2, <1>1, <1>4
  <2>3. CASE k # 1 /\ k # n + 2
    <3>1. k - 1 \in 1 .. n /\ k - 1 + 1 = k
      BY <2>3, <1>1
    <3>2. W(s)[k] = s[k - 1] /\ k - 1 \in DOMAIN s
      BY <3>1, <1>1
    <3> QED
      BY <2>1, <3>2 DEF Range
  <2> QED
    BY <2>2, <2>3
<1>6. next \in Pointers /\ prev \in Pointers /\ next["tail"] = NoLayer /\ prev["head"] = NoLayer
      /\ \A k \in 1 .. n + 1 : next[W(s)[k]] = W(s)[k + 1] /\ prev[W(s)[k + 1]] = W(s)[k]
  BY DEF ChainInv, Chained
<1> DEFINE w == W(s)
           v == W(t)
           last == W(s)[n + 1]
<1>7. prev["tail"] = last /\ next[last] = "tail" /\ last \in Layers /\ last # h /\ last # "tail"
  <2>1. n + 1 \in 1 .. n + 1 /\ n + 1 \in 1 .. n + 2 /\ n + 2 \in 1 .. n + 2 /\ n + 1 + 1 = n + 2
        /\ n + 1 # n + 2
    BY <1>1
  <2> QED
    BY <2>1, <1>1, <1>3, <1>5, <1>6
<1>8. /\ prev' = [prev EXCEPT ![h] = last, !["tail"] = h]
      /\ next' = [next EXCEPT ![h] = "tail", ![last] = h]
  BY <1>7 DEF SetPrev
<1>9. /\ next' \in Pointers /\ prev' \in Pointers
      /\ prev'["tail"] = h /\ prev'[h] = last
      /\ \A l \in Layers : l # h /\ l # "tail" => prev'[l] = prev[l]
      /\ next'[h] = "tail" /\ next'[last] = h
      /\ \A l \in Layers : l # h /\ l # last => next'[l] = next[l]
  <2>1. last \in Layers /\ last # h
    BY <1>7
  <2>2. prev' = [prev EXCEPT ![h] = last, !["tail"] = h]
        /\ next' = [next EXCEPT ![h] = "tail", ![last] = h]
    BY <1>8
  <2> HIDE DEF last
  <2> QED
    BY <2>1, <2>2, <1>4, <1>6 DEF Pointers
<1>10. ASSUME NEW k \in 1 .. n + 2
       PROVE  next'[v[k]] = v[k + 1] /\ prev'[v[k + 1]] = v[k]
  <2>1. CASE k = n + 2
    <3>1. v[k] = h /\ v[k + 1] = "tail"
      BY <2>1, <1>1, <1>2
    <3> QED
      BY <3>1, <1>9
  <2>2. CASE k = n + 1
    <3>1. v[k] = last /\ v[k + 1] = h
      BY <2>2, <1>1, <1>2
    <3> QED
      BY <3>1, <1>9
  <2>3. CASE k # n + 1 /\ k # n + 2
    <3>1. k \in 1 .. n + 1 /\ k + 1 \in 1 .. n + 1 /\ k \in 1 .. n + 2 /\ k + 1 \in 1 .. n + 2
          /\ n + 1 \in 1 .. n + 2 /\ n + 2 \in 1 .. n + 2 /\ k + 1 # n + 2
      BY <2>3, <1>1
    <3>2. v[k] = w[k] /\ v[k + 1] = w[k + 1]
      BY <3>1, <1>2
    <3>3. w[k] # last /\ w[k] # h /\ w[k + 1] # "tail" /\ w[k + 1] # h
          /\ w[k] \in Layers /\ w[k + 1] \in Layers
      BY <2>3, <3>1, <1>1, <1>3, <1>5
    <3>4. next[w[k]] = w[k + 1] /\ prev[w[k + 1]] = w[k]
      BY <3>1, <1>6
    <3> QED
      BY <3>2, <3>3, <3>4, <1>9
  <2> QED
    BY <2>1, <2>2, <2>3
<1>11. next'["tail"] = NoLayer /\ prev'["head"] = NoLayer
  BY <1>4, <1>6, <1>7, <1>9, PipelineAssumption
<1>12. Len(t) + 1 = n + 2
  BY <1>1, <1>2
<1> QED
  BY <1>9, <1>10, <1>11, <1>12 DEF Chained

\* Initially there are the head and the tail.
LEMMA ChainInit == Init => ChainInv
<1> SUFFICES ASSUME Init PROVE ChainInv
  OBVIOUS
<1>1. list = <<>> /\ list \in Seq(Handlers) /\ Len(list) = 0 /\ Distinct(list)
  BY DEF Init, Distinct
<1>2. W(list)[1] = "head" /\ W(list)[2] = "tail"
  <2>1. W(list)[1] = "head" /\ W(list)[Len(list) + 2] = "tail"
    BY <1>1, WholeFacts
  <2> QED
    BY <2>1, <1>1
<1>3. "head" \in Layers /\ "tail" \in Layers /\ "head" # "tail"
  BY DEF Layers
<1>4. next \in Pointers /\ prev \in Pointers
  BY <1>3 DEF Init, Pointers
<1>5. next["head"] = "tail" /\ prev["tail"] = "head" /\ next["tail"] = NoLayer /\ prev["head"] = NoLayer
  BY <1>3 DEF Init
<1>6. \A k \in 1 .. Len(list) + 1 : k = 1
  BY <1>1
<1> QED
  BY <1>1, <1>2, <1>4, <1>5, <1>6 DEF ChainInv, Chained

\* Only the additions touch the chains.
LEMMA ChainStep == ChainInv /\ [Next]_vars => ChainInv'
<1> SUFFICES ASSUME ChainInv, [Next]_vars PROVE ChainInv'
  OBVIOUS
<1>1. ASSUME NEW h \in Handlers, AddFirst(h) PROVE ChainInv'
  <2>1. list' \in Seq(Handlers) /\ Distinct(list')
    BY <1>1, AddedFirst DEF AddFirst, ChainInv
  <2>2. next' \in Pointers /\ prev' \in Pointers /\ Chained(list', next', prev')
    BY <1>1, SetNextChains DEF AddFirst
  <2> QED
    BY <2>1, <2>2 DEF ChainInv, Chained
<1>2. ASSUME NEW h \in Handlers, AddLast(h) PROVE ChainInv'
  <2>1. list' \in Seq(Handlers) /\ Distinct(list')
    BY <1>2, AddedLast DEF AddLast, ChainInv
  <2>2. next' \in Pointers /\ prev' \in Pointers /\ Chained(list', next', prev')
    BY <1>2, SetPrevChains DEF AddLast
  <2> QED
    BY <2>1, <2>2 DEF ChainInv, Chained
<1>3. ASSUME UNCHANGED <<next, prev, list>> PROVE ChainInv'
  BY <1>3 DEF ChainInv, Chained, W
<1> QED
  BY <1>1, <1>2, <1>3 DEF Next, Begin, RunTask, CallHandler, PassOn, EndCall, vars

\* The chain read by next and the chain read by prev are one list, whatever was added
\* at either end (event_layer::set_next, set_prev).
THEOREM ChainsAgree == Spec => []ChainsMirror
<1>1. Init => ChainInv
  BY ChainInit
<1>2. ChainInv /\ [Next]_vars => ChainInv'
  BY ChainStep
<1>3. ChainInv => ChainsMirror
  BY ChainedIsMirror
<1> QED
  BY <1>1, <1>2, <1>3, PTL DEF Spec

-----------------------------------------------------------------------------
(* Positions. *)

\* Position, for any list of handlers.
Pos(s, l) == CHOOSE k \in DOMAIN W(s) : W(s)[k] = l

\* The k-th layer is at k, and every layer is at its position.
LEMMA PosFacts ==
  ASSUME NEW s \in Seq(Handlers), Distinct(s)
  PROVE  /\ \A k \in 1 .. Len(s) + 2 : W(s)[k] \in Range(W(s)) /\ Pos(s, W(s)[k]) = k
         /\ \A l \in Range(W(s)) : Pos(s, l) \in 1 .. Len(s) + 2 /\ W(s)[Pos(s, l)] = l
<1>1. W(s) \in Seq(Layers) /\ Len(W(s)) = Len(s) + 2
  BY WholeFacts
<1>2. DOMAIN W(s) = 1 .. Len(s) + 2
  BY <1>1, LenProperties
<1>3. ASSUME NEW l \in Range(W(s))
      PROVE  Pos(s, l) \in 1 .. Len(s) + 2 /\ W(s)[Pos(s, l)] = l
  <2>1. \E k \in DOMAIN W(s) : W(s)[k] = l
    BY <1>3 DEF Range
  <2>2. Pos(s, l) \in DOMAIN W(s) /\ W(s)[Pos(s, l)] = l
    BY <2>1 DEF Pos
  <2> QED
    BY <2>2, <1>2
<1>4. ASSUME NEW k \in 1 .. Len(s) + 2
      PROVE  W(s)[k] \in Range(W(s)) /\ Pos(s, W(s)[k]) = k
  <2>1. W(s)[k] \in Range(W(s))
    BY <1>2 DEF Range
  <2>2. Pos(s, W(s)[k]) \in 1 .. Len(s) + 2 /\ W(s)[Pos(s, W(s)[k])] = W(s)[k]
    BY <2>1, <1>3
  <2>3. Pos(s, W(s)[k]) = k
    BY <2>2, WholeDistinct
  <2> QED
    BY <2>1, <2>3
<1> QED
  BY <1>3, <1>4

\* The handlers, the head and the tail are the layers, and only handlers of the list
\* are between the head and the tail.
LEMMA WholeRange ==
  ASSUME NEW s \in Seq(Handlers)
  PROVE  Range(W(s)) = {"head", "tail"} \cup Range(s) /\ Range(s) \subseteq Handlers
<1>1. /\ W(s) \in Seq(Layers) /\ Len(W(s)) = Len(s) + 2 /\ Len(s) \in Nat
      /\ W(s)[1] = "head" /\ W(s)[Len(s) + 2] = "tail"
      /\ \A k \in 1 .. Len(s) : W(s)[k + 1] = s[k] /\ s[k] \in Handlers
  BY WholeFacts
<1>2. DOMAIN W(s) = 1 .. Len(s) + 2 /\ DOMAIN s = 1 .. Len(s)
  BY <1>1, LenProperties
<1>3. ASSUME NEW l \in Range(W(s)) PROVE l \in {"head", "tail"} \cup Range(s)
  <2>1. PICK k \in 1 .. Len(s) + 2 : W(s)[k] = l
    BY <1>2, <1>3 DEF Range
  <2>2. CASE k = 1 \/ k = Len(s) + 2
    BY <2>1, <2>2, <1>1
  <2>3. CASE k # 1 /\ k # Len(s) + 2
    <3>1. k - 1 \in 1 .. Len(s) /\ k - 1 + 1 = k
      BY <2>1, <2>3, <1>1
    <3>2. l = s[k - 1]
      BY <3>1, <2>1, <1>1
    <3> QED
      BY <3>1, <3>2, <1>2 DEF Range
  <2> QED
    BY <2>2, <2>3
<1>4. "head" \in Range(W(s)) /\ "tail" \in Range(W(s))
  <2>1. 1 \in 1 .. Len(s) + 2 /\ Len(s) + 2 \in 1 .. Len(s) + 2
    BY <1>1
  <2> QED
    BY <2>1, <1>1, <1>2 DEF Range
<1>5. ASSUME NEW l \in Range(s) PROVE l \in Range(W(s)) /\ l \in Handlers
  <2>1. PICK k \in 1 .. Len(s) : s[k] = l
    BY <1>2, <1>5 DEF Range
  <2>2. k + 1 \in 1 .. Len(s) + 2 /\ W(s)[k + 1] = l /\ l \in Handlers
    BY <2>1, <1>1
  <2> QED
    BY <2>2, <1>2 DEF Range
<1> QED
  BY <1>3, <1>4, <1>5

\* s may be replaced by t under the calls: nothing goes, and nothing changes places.
Grows(s, t) ==
  /\ Range(s) \subseteq Range(t)
  /\ \A a, b \in Range(W(s)) : Pos(s, a) < Pos(s, b) => Pos(t, a) < Pos(t, b)

\* A handler that is added first changes no order.
LEMMA GrowsFirst ==
  ASSUME NEW s \in Seq(Handlers), NEW h \in Handlers, Distinct(s), h \notin Range(s)
  PROVE  Grows(s, <<h>> \o s)
<1> DEFINE t == <<h>> \o s
<1>1. /\ t \in Seq(Handlers) /\ Len(t) = Len(s) + 1 /\ Distinct(t)
      /\ W(t)[1] = "head" /\ W(t)[2] = h /\ \A k \in 2 .. Len(s) + 2 : W(t)[k + 1] = W(s)[k]
  BY AddedFirst
<1>2. W(s)[1] = "head" /\ Len(s) \in Nat
  BY WholeFacts
<1> HIDE DEF t
<1>3. ASSUME NEW l \in Range(W(s))
      PROVE  /\ Pos(s, l) \in 1 .. Len(s) + 2
             /\ l \in Range(W(t))
             /\ Pos(t, l) = IF Pos(s, l) = 1 THEN 1 ELSE Pos(s, l) + 1
  <2> DEFINE k == Pos(s, l)
  <2>1. k \in 1 .. Len(s) + 2 /\ W(s)[k] = l
    BY PosFacts
  <2> HIDE DEF k
  <2>2. CASE k = 1
    <3>1. W(t)[1] = l /\ 1 \in 1 .. Len(t) + 2
      BY <2>1, <2>2, <1>1, <1>2
    <3>2. l \in Range(W(t)) /\ Pos(t, l) = 1
      BY <3>1, <1>1, PosFacts
    <3> QED
      BY <2>1, <2>2, <3>2 DEF k
  <2>3. CASE k # 1
    <3>1. W(t)[k + 1] = l /\ k + 1 \in 1 .. Len(t) + 2
      BY <2>1, <2>3, <1>1, <1>2
    <3>2. l \in Range(W(t)) /\ Pos(t, l) = k + 1
      BY <3>1, <1>1, PosFacts
    <3> QED
      BY <2>1, <2>3, <3>2 DEF k
  <2> QED
    BY <2>2, <2>3
<1>4. \A a, b \in Range(W(s)) : Pos(s, a) < Pos(s, b) => Pos(t, a) < Pos(t, b)
  <2> SUFFICES ASSUME NEW a \in Range(W(s)), NEW b \in Range(W(s)), Pos(s, a) < Pos(s, b)
               PROVE  Pos(t, a) < Pos(t, b)
    OBVIOUS
  <2>1. Pos(s, a) \in Int /\ Pos(s, b) \in Int /\ Pos(s, a) >= 1
    BY <1>2, <1>3
  <2> QED
    BY <2>1, <1>3
<1>5. Range(s) \subseteq Range(t)
  <2>1. "head" \notin Handlers /\ "tail" \notin Handlers
    BY PipelineAssumption
  <2>2. Range(W(s)) \subseteq Range(W(t))
    BY <1>3
  <2> QED
    BY <2>1, <2>2, <1>1, WholeRange
<1>6. Grows(s, t)
  BY <1>4, <1>5 DEF Grows
<1> QED
  BY <1>6 DEF t

\* Nor does one that is added last.
LEMMA GrowsLast ==
  ASSUME NEW s \in Seq(Handlers), NEW h \in Handlers, Distinct(s), h \notin Range(s)
  PROVE  Grows(s, Append(s, h))
<1> DEFINE t == Append(s, h)
<1>1. /\ t \in Seq(Handlers) /\ Len(t) = Len(s) + 1 /\ Distinct(t)
      /\ W(t)[Len(s) + 3] = "tail" /\ \A k \in 1 .. Len(s) + 1 : W(t)[k] = W(s)[k]
  BY AddedLast
<1>2. W(s)[Len(s) + 2] = "tail" /\ Len(s) \in Nat
  BY WholeFacts
<1> HIDE DEF t
<1>3. ASSUME NEW l \in Range(W(s))
      PROVE  /\ Pos(s, l) \in 1 .. Len(s) + 2
             /\ l \in Range(W(t))
             /\ Pos(t, l) = IF Pos(s, l) = Len(s) + 2 THEN Len(s) + 3 ELSE Pos(s, l)
  <2> DEFINE k == Pos(s, l)
  <2>1. k \in 1 .. Len(s) + 2 /\ W(s)[k] = l
    BY PosFacts
  <2> HIDE DEF k
  <2>2. CASE k = Len(s) + 2
    <3>1. W(t)[Len(s) + 3] = l /\ Len(s) + 3 \in 1 .. Len(t) + 2
      BY <2>1, <2>2, <1>1, <1>2
    <3>2. l \in Range(W(t)) /\ Pos(t, l) = Len(s) + 3
      BY <3>1, <1>1, PosFacts
    <3> QED
      BY <2>1, <2>2, <3>2 DEF k
  <2>3. CASE k # Len(s) + 2
    <3>1. W(t)[k] = l /\ k \in 1 .. Len(t) + 2
      BY <2>1, <2>3, <1>1, <1>2
    <3>2. l \in Range(W(t)) /\ Pos(t, l) = k
      BY <3>1, <1>1, PosFacts
    <3> QED
      BY <2>1, <2>3, <3>2 DEF k
  <2> QED
    BY <2>2, <2>3
<1>4. \A a, b \in Range(W(s)) : Pos(s, a) < Pos(s, b) => Pos(t, a) < Pos(t, b)
  <2> SUFFICES ASSUME NEW a \in Range(W(s)), NEW b \in Range(W(s)), Pos(s, a) < Pos(s, b)
               PROVE  Pos(t, a) < Pos(t, b)
    OBVIOUS
  <2>1. Pos(s, a) \in Int /\ Pos(s, b) \in Int /\ Pos(s, b) <= Len(s) + 2
    BY <1>2, <1>3
  <2> QED
    BY <2>1, <1>2, <1>3
<1>5. Range(s) \subseteq Range(t)
  <2>1. "head" \notin Handlers /\ "tail" \notin Handlers
    BY PipelineAssumption
  <2>2. Range(W(s)) \subseteq Range(W(t))
    BY <1>3
  <2> QED
    BY <2>1, <2>2, <1>1, WholeRange
<1>6. Grows(s, t)
  BY <1>4, <1>5 DEF Grows
<1> QED
  BY <1>6 DEF t

-----------------------------------------------------------------------------
(* The calls. *)

Bef(s, way, a, b) == IF way = "in" THEN Pos(s, a) < Pos(s, b) ELSE Pos(s, a) > Pos(s, b)

\* A call is at a layer, was given to layers, and has handlers to come to.
Located(s, c) ==
  /\ c \in Call
  /\ c.at \in Range(W(s))
  /\ \A i \in DOMAIN c.seen : c.seen[i] \in Range(W(s))
  /\ c.due \subseteq Range(s)

\* What EachOnceInOrder says of a call.
Ordered(s, c) ==
  /\ \A i, j \in DOMAIN c.seen : i < j => Bef(s, c.way, c.seen[i], c.seen[j])
  /\ \A h \in c.due \ Range(c.seen) : h = c.at \/ Bef(s, c.way, c.at, h)
  /\ \A i \in DOMAIN c.seen : c.seen[i] = c.at \/ Bef(s, c.way, c.seen[i], c.at)

\* A call stays in order when handlers are added.
LEMMA CallKept ==
  ASSUME NEW s \in Seq(Handlers), NEW t \in Seq(Handlers), Grows(s, t),
         NEW c, Located(s, c), Ordered(s, c)
  PROVE  Located(t, c) /\ Ordered(t, c)
<1>1. Range(W(s)) \subseteq Range(W(t)) /\ Range(s) \subseteq Range(t) /\ Range(s) \subseteq Range(W(s))
  BY WholeRange DEF Grows
<1>2. \A a, b \in Range(W(s)) : Bef(s, c.way, a, b) => Bef(t, c.way, a, b)
  <2> SUFFICES ASSUME NEW a \in Range(W(s)), NEW b \in Range(W(s)), Bef(s, c.way, a, b)
               PROVE  Bef(t, c.way, a, b)
    OBVIOUS
  <2>1. /\ Pos(s, a) < Pos(s, b) => Pos(t, a) < Pos(t, b)
        /\ Pos(s, b) < Pos(s, a) => Pos(t, b) < Pos(t, a)
    BY DEF Grows
  <2> QED
    BY <2>1 DEF Bef
<1>3. Located(t, c)
  BY <1>1 DEF Located
<1>4. Ordered(t, c)
  <2>1. ASSUME NEW i \in DOMAIN c.seen, NEW j \in DOMAIN c.seen, i < j
        PROVE  Bef(t, c.way, c.seen[i], c.seen[j])
    BY <2>1, <1>2 DEF Located, Ordered
  <2>2. ASSUME NEW h \in c.due \ Range(c.seen)
        PROVE  h = c.at \/ Bef(t, c.way, c.at, h)
    <3>1. h \in Range(W(s)) /\ c.at \in Range(W(s))
      BY <1>1 DEF Located
    <3> QED
      BY <3>1, <1>2 DEF Ordered
  <2>3. ASSUME NEW i \in DOMAIN c.seen
        PROVE  c.seen[i] = c.at \/ Bef(t, c.way, c.seen[i], c.at)
    BY <1>2 DEF Located, Ordered
  <2> QED
    BY <2>1, <2>2, <2>3 DEF Ordered
<1> QED
  BY <1>3, <1>4

\* The end of the way.
End(way) == IF way = "in" THEN "tail" ELSE "head"

\* The next layer on the way is the one at the next position.
LEMMA OnwardFacts ==
  ASSUME ChainInv, NEW way \in {"in", "out"}, NEW l \in Range(W(list)), l # End(way)
  PROVE  /\ Onward(way, l) \in Range(W(list))
         /\ Onward(way, l) \in Layers
         /\ Pos(list, Onward(way, l)) = IF way = "in" THEN Pos(list, l) + 1 ELSE Pos(list, l) - 1
<1> DEFINE k == Pos(list, l)
           n == Len(list)
<1>1. list \in Seq(Handlers) /\ Distinct(list) /\ n \in Nat /\ W(list) \in Seq(Layers)
      /\ Len(W(list)) = n + 2 /\ W(list)[1] = "head" /\ W(list)[n + 2] = "tail"
  BY WholeFacts DEF ChainInv
<1>2. k \in 1 .. n + 2 /\ W(list)[k] = l
  BY <1>1, PosFacts
<1>3. \A j \in 1 .. n + 2 :
        W(list)[j] \in Range(W(list)) /\ W(list)[j] \in Layers /\ Pos(list, W(list)[j]) = j
  BY <1>1, PosFacts, ElementOfSeq
<1> HIDE DEF k
<1>4. CASE way = "in"
  <2>1. k \in 1 .. n + 1
    BY <1>1, <1>2, <1>4 DEF End
  <2>2. Onward(way, l) = W(list)[k + 1]
    BY <2>1, <1>2, <1>4 DEF Onward, ChainInv, Chained
  <2>3. k + 1 \in 1 .. n + 2
    BY <2>1, <1>1
  <2> QED
    BY <2>2, <2>3, <1>3, <1>4 DEF k
<1>5. CASE way = "out"
  <2>1. k - 1 \in 1 .. n + 1 /\ k - 1 + 1 = k /\ k - 1 \in 1 .. n + 2
    BY <1>1, <1>2, <1>5 DEF End
  <2>2. Onward(way, l) = W(list)[k - 1]
    BY <2>1, <1>2, <1>5 DEF Onward, ChainInv, Chained
  <2> QED
    BY <2>1, <2>2, <1>3, <1>5 DEF k
<1> QED
  BY <1>4, <1>5

\* A new call has before it what is ahead of where it begins.
LEMMA NewCall ==
  ASSUME ChainInv, NEW way \in {"in", "out"}, NEW stepwise \in BOOLEAN,
         NEW l \in Range(W(list)), l # End(way)
  PROVE  LET c == [way |-> way, stepwise |-> stepwise, at |-> Onward(way, l),
                   seen |-> <<>>, due |-> Ahead(way, l)]
         IN Located(list, c) /\ Ordered(list, c)
<1> DEFINE at == Onward(way, l)
           due == Ahead(way, l)
           c == [way |-> way, stepwise |-> stepwise, at |-> at, seen |-> <<>>, due |-> due]
<1>1. list \in Seq(Handlers) /\ Distinct(list)
  BY DEF ChainInv
<1>2. /\ at \in Range(W(list)) /\ at \in Layers
      /\ Pos(list, at) = IF way = "in" THEN Pos(list, l) + 1 ELSE Pos(list, l) - 1
  BY OnwardFacts
<1>3. Range(list) \subseteq Handlers /\ Range(list) \subseteq Range(W(list))
  BY <1>1, WholeRange
<1>4. due \subseteq Range(list)
      /\ \A h \in due : IF way = "in" THEN Pos(list, h) > Pos(list, l) ELSE Pos(list, h) < Pos(list, l)
  <2>1. \A x : Position(x) = Pos(list, x)
    BY DEF Position, Pos, Whole, W
  <2> QED
    BY <2>1 DEF Ahead
<1>5. c \in Call
  <2>1. <<>> \in Seq(Layers) /\ due \in SUBSET Handlers
    BY <1>3, <1>4
  <2> HIDE DEF due, at
  <2> QED
    BY <2>1, <1>2 DEF Call
<1>6. \A h \in due : h = at \/ Bef(list, way, at, h)
  <2> SUFFICES ASSUME NEW h \in due PROVE h = at \/ Bef(list, way, at, h)
    OBVIOUS
  <2>1. h \in Range(W(list))
    BY <1>3, <1>4
  <2>2. Pos(list, h) \in Int /\ Pos(list, l) \in Int /\ Pos(list, at) \in Int
        /\ W(list)[Pos(list, h)] = h /\ W(list)[Pos(list, at)] = at
    <3>1. Len(list) \in Nat
      BY <1>1, LenProperties
    <3> QED
      BY <2>1, <3>1, <1>1, <1>2, PosFacts
  <2>3. CASE Pos(list, h) = Pos(list, at)
    BY <2>2, <2>3
  <2>4. CASE Pos(list, h) # Pos(list, at)
    <3>1. IF way = "in" THEN Pos(list, h) > Pos(list, l) ELSE Pos(list, h) < Pos(list, l)
      BY <1>4
    <3> QED
      BY <3>1, <2>2, <2>4, <1>2 DEF Bef
  <2> QED
    BY <2>3, <2>4
<1> HIDE DEF at, due
<1>7. DOMAIN c.seen = {} /\ c.at = at /\ c.due = due /\ c.way = way
  OBVIOUS
<1> HIDE DEF c
<1>8. Located(list, c) /\ Ordered(list, c)
  BY <1>2, <1>4, <1>5, <1>6, <1>7 DEF Located, Ordered
<1> QED
  BY <1>8 DEF c, at, due

\* Of two layers of a list at most one is before the other, and none is before itself.
LEMMA BeforeIsStrict ==
  ASSUME NEW s \in Seq(Handlers), Distinct(s), NEW way,
         NEW a \in Range(W(s)), NEW b \in Range(W(s)), Bef(s, way, a, b)
  PROVE  a # b /\ ~Bef(s, way, b, a)
<1>1. Pos(s, a) \in Int /\ Pos(s, b) \in Int
  <2>1. Len(s) \in Nat
    BY LenProperties
  <2> QED
    BY <2>1, PosFacts
<1> QED
  BY <1>1 DEF Bef

\* A call stays in order when the handler of its layer is called, which has not been
\* called before.
LEMMA CalledInOrder ==
  ASSUME ChainInv, NEW c, Located(list, c), Ordered(list, c), ~Called(c)
  PROVE  LET d == [c EXCEPT !.seen = Append(@, c.at)]
         IN Located(list, d) /\ Ordered(list, d)
<1> DEFINE old == c.seen
           new == Append(old, c.at)
           n == Len(old)
           d == [c EXCEPT !.seen = new]
<1>1. /\ old \in Seq(Layers) /\ c.at \in Layers /\ c \in Call /\ d \in Call
      /\ d.seen = new /\ d.at = c.at /\ d.way = c.way /\ d.due = c.due
  <2>1. old \in Seq(Layers) /\ c.at \in Layers /\ c \in Call
    BY DEF Located, Call
  <2>2. new \in Seq(Layers)
    BY <2>1, AppendProperties
  <2> HIDE DEF new
  <2> QED
    BY <2>1, <2>2 DEF Call
<1>2. /\ n \in Nat /\ DOMAIN old = 1 .. n /\ DOMAIN new = 1 .. n + 1
      /\ \A i \in 1 .. n : new[i] = old[i]
      /\ new[n + 1] = c.at
  <2>1. /\ new \in Seq(Layers) /\ Len(new) = n + 1
        /\ \A i \in 1 .. n : new[i] = old[i]
        /\ new[n + 1] = c.at
    BY <1>1, AppendProperties
  <2> HIDE DEF new
  <2> QED
    BY <1>1, <2>1, LenProperties
<1>3. list \in Seq(Handlers) /\ Distinct(list)
  BY DEF ChainInv
<1>4. n > 0 => old[n] # c.at
  BY <1>1, <1>2 DEF Called, Last
<1> HIDE DEF new, old, n
<1>5. ASSUME NEW i \in 1 .. n
      PROVE  Bef(list, c.way, old[i], c.at)
  <2>1. /\ old[i] \in Range(W(list)) /\ old[n] \in Range(W(list)) /\ c.at \in Range(W(list))
        /\ n \in 1 .. n /\ n > 0
    BY <1>2 DEF Located, old
  <2>2. old[n] # c.at /\ Bef(list, c.way, old[n], c.at)
    BY <2>1, <1>2, <1>4 DEF Ordered, old
  <2>3. CASE i = n
    BY <2>2, <2>3
  <2>4. CASE i # n
    <3>1. i < n
      BY <2>4, <1>2
    <3>2. Bef(list, c.way, old[i], old[n])
      BY <2>1, <3>1, <1>2 DEF Ordered, old
    <3>3. old[i] # c.at
      BY <2>1, <2>2, <3>2, <1>3, BeforeIsStrict
    <3> QED
      BY <3>3, <1>2 DEF Ordered, old
  <2> QED
    BY <2>3, <2>4
<1>6. Located(list, d)
  <2>1. \A i \in DOMAIN new : new[i] \in Range(W(list))
    <3>1. \A i \in 1 .. n : old[i] \in Range(W(list))
      BY <1>2 DEF Located, old
    <3>2. c.at \in Range(W(list))
      BY DEF Located
    <3>3. \A i \in DOMAIN new : i \in 1 .. n \/ i = n + 1
      BY <1>2
    <3> QED
      BY <3>1, <3>2, <3>3, <1>2
  <2> HIDE DEF d
  <2> QED
    BY <2>1, <1>1 DEF Located
<1>7. \A i, j \in DOMAIN new : i < j => Bef(list, c.way, new[i], new[j])
  <2> SUFFICES ASSUME NEW i \in DOMAIN new, NEW j \in DOMAIN new, i < j
               PROVE  Bef(list, c.way, new[i], new[j])
    OBVIOUS
  <2>1. i \in 1 .. n /\ new[i] = old[i]
    BY <1>2
  <2>2. CASE j = n + 1
    BY <2>1, <2>2, <1>2, <1>5
  <2>3. CASE j # n + 1
    <3>1. j \in 1 .. n /\ new[j] = old[j]
      BY <2>3, <1>2
    <3> QED
      BY <2>1, <3>1, <1>2 DEF Ordered, old
  <2> QED
    BY <2>2, <2>3
<1>8. \A h \in c.due \ Range(new) : h = c.at \/ Bef(list, c.way, c.at, h)
  <2>1. Range(old) \subseteq Range(new)
    <3>1. \A i \in DOMAIN old : i \in DOMAIN new /\ new[i] = old[i]
      BY <1>2
    <3> QED
      BY <3>1 DEF Range
  <2> QED
    BY <2>1 DEF Ordered, old
<1>9. \A i \in DOMAIN new : new[i] = c.at \/ Bef(list, c.way, new[i], c.at)
  <2>1. \A i \in DOMAIN new : i \in 1 .. n \/ i = n + 1
    BY <1>2
  <2> QED
    BY <2>1, <1>2, <1>5
<1>10. Ordered(list, d)
  <2> HIDE DEF d
  <2> QED
    BY <1>1, <1>7, <1>8, <1>9 DEF Ordered
<1> QED
  BY <1>6, <1>10 DEF d, new, old

\* A call stays in order when a handler that was called passes it on.
LEMMA PassedInOrder ==
  ASSUME ChainInv, NEW c, Located(list, c), Ordered(list, c), Called(c), ~Ends(c)
  PROVE  Located(list, Passed(c)) /\ Ordered(list, Passed(c))
<1> DEFINE to == Onward(c.way, c.at)
           d == [c EXCEPT !.at = to]
<1>1. list \in Seq(Handlers) /\ Distinct(list) /\ Len(list) \in Nat
  BY LenProperties DEF ChainInv
<1>2. c \in Call /\ c.way \in {"in", "out"} /\ c.at \in Range(W(list)) /\ c.at # End(c.way)
  BY DEF Located, Call, Ends, End
<1>3. /\ to \in Range(W(list)) /\ to \in Layers
      /\ Pos(list, to) = IF c.way = "in" THEN Pos(list, c.at) + 1 ELSE Pos(list, c.at) - 1
  BY <1>2, OnwardFacts
<1> HIDE DEF to
<1>4. d \in Call /\ d.at = to /\ d.way = c.way /\ d.seen = c.seen /\ d.due = c.due
  BY <1>2, <1>3 DEF Call
<1>5. \A l \in Range(W(list)) : Pos(list, l) \in Int /\ W(list)[Pos(list, l)] = l
  BY <1>1, PosFacts
<1>6. c.at \in Range(c.seen)
  <2>1. c.seen \in Seq(Layers) /\ c.seen # <<>> /\ c.seen[Len(c.seen)] = c.at
    BY DEF Located, Call, Called, Last
  <2>2. Len(c.seen) \in DOMAIN c.seen
    BY <2>1, LenProperties
  <2> QED
    BY <2>1, <2>2 DEF Range
<1>7. ASSUME NEW h \in c.due \ Range(c.seen)
      PROVE  h = to \/ Bef(list, c.way, to, h)
  <2>1. h \in Range(W(list))
    BY <1>1, WholeRange DEF Located
  <2>2. Bef(list, c.way, c.at, h)
    BY <1>6 DEF Ordered
  <2>3. CASE Pos(list, h) = Pos(list, to)
    BY <2>1, <2>3, <1>3, <1>5
  <2>4. CASE Pos(list, h) # Pos(list, to)
    BY <2>1, <2>2, <2>4, <1>2, <1>3, <1>5 DEF Bef
  <2> QED
    BY <2>3, <2>4
<1>8. ASSUME NEW i \in DOMAIN c.seen
      PROVE  Bef(list, c.way, c.seen[i], to)
  <2>1. c.seen[i] \in Range(W(list)) /\ (c.seen[i] = c.at \/ Bef(list, c.way, c.seen[i], c.at))
    BY DEF Located, Ordered
  <2> QED
    BY <2>1, <1>2, <1>3, <1>5 DEF Bef
<1> HIDE DEF d
<1>9. Located(list, d)
  BY <1>3, <1>4 DEF Located
<1>10. Ordered(list, d)
  BY <1>4, <1>7, <1>8 DEF Ordered
<1> QED
  BY <1>9, <1>10 DEF d, to, Passed

\* The calls that are in order in s.
InOrder(s) == {c \in Call : Located(s, c) /\ Ordered(s, c)}

\* Every call under way is in order in the list as it is.
CallsInv ==
  /\ walk \in Seq(InOrder(list))
  /\ tasks \in Seq(InOrder(list))
  /\ calls \in 0 .. MaxCalls

\* The calls of a sequence stay in order when handlers are added.
LEMMA SeqKept ==
  ASSUME NEW s \in Seq(Handlers), NEW t \in Seq(Handlers), Grows(s, t),
         NEW q \in Seq(InOrder(s))
  PROVE  q \in Seq(InOrder(t))
<1>1. InOrder(s) \subseteq InOrder(t)
  BY CallKept DEF InOrder
<1> HIDE DEF Grows
<1> QED
  BY <1>1, SeqDef

\* At first no call is under way.
LEMMA CallsInit == Init => CallsInv
BY PipelineAssumption DEF Init, CallsInv

\* Every action keeps the calls in order.
LEMMA CallsStep == ChainInv /\ CallsInv /\ [Next]_vars => CallsInv'
<1> SUFFICES ASSUME ChainInv, CallsInv, [Next]_vars PROVE CallsInv'
  OBVIOUS
<1> DEFINE Good == InOrder(list)
<1>1. ASSUME NEW h \in Handlers, AddFirst(h) PROVE CallsInv'
  <2>1. list' \in Seq(Handlers) /\ Grows(list, list') /\ list \in Seq(Handlers)
    BY <1>1, AddedFirst, GrowsFirst DEF AddFirst, ChainInv
  <2> QED
    BY <2>1, <1>1, SeqKept DEF AddFirst, CallsInv
<1>2. ASSUME NEW h \in Handlers, AddLast(h) PROVE CallsInv'
  <2>1. list' \in Seq(Handlers) /\ Grows(list, list') /\ list \in Seq(Handlers)
    BY <1>2, AddedLast, GrowsLast DEF AddLast, ChainInv
  <2> QED
    BY <2>1, <1>2, SeqKept DEF AddLast, CallsInv
<1>3. ASSUME NEW way \in {"in", "out"}, NEW stepwise \in BOOLEAN, NEW onLoop \in BOOLEAN,
             NEW l \in Layers, Begin(way, stepwise, l, onLoop)
      PROVE  CallsInv'
  <2> DEFINE c == [way |-> way, stepwise |-> stepwise, at |-> Onward(way, l),
                   seen |-> <<>>, due |-> Ahead(way, l)]
  <2>1. l \in Range(W(list)) /\ l # End(way)
    BY <1>3 DEF Begin, Whole, W, End
  <2>2. c \in Good
    BY <2>1, NewCall DEF InOrder, Located
  <2>3. calls' \in 0 .. MaxCalls /\ list' = list
    BY <1>3, PipelineAssumption DEF Begin, CallsInv
  <2>4. \/ walk' = <<c>> \o walk /\ tasks' = tasks
        \/ tasks' = Append(tasks, c) /\ walk' = walk
    BY <1>3 DEF Begin
  <2> HIDE DEF c, Good
  <2>5. walk \in Seq(Good) /\ tasks \in Seq(Good) /\ <<c>> \in Seq(Good)
    BY <2>2 DEF CallsInv, Good
  <2>6. <<c>> \o walk \in Seq(Good)
    BY <2>5, ConcatProperties
  <2>7. Append(tasks, c) \in Seq(Good)
    BY <2>2, <2>5, AppendProperties
  <2>8. walk' \in Seq(Good) /\ tasks' \in Seq(Good)
    BY <2>4, <2>5, <2>6, <2>7
  <2> QED
    BY <2>3, <2>8 DEF CallsInv, Good
<1>4. CASE RunTask
  <2>1. tasks \in Seq(Good) /\ tasks # <<>> /\ calls \in 0 .. MaxCalls
    BY <1>4 DEF RunTask, CallsInv
  <2> HIDE DEF Good
  <2>2. <<Head(tasks)>> \in Seq(Good) /\ Tail(tasks) \in Seq(Good)
    BY <2>1, HeadTailProperties
  <2> QED
    BY <2>1, <2>2, <1>4 DEF RunTask, CallsInv, Good
<1>5. CASE CallHandler
  <2> DEFINE c == Head(walk)
             d == [c EXCEPT !.seen = Append(@, c.at)]
  <2>1. walk \in Seq(Good) /\ walk # <<>> /\ ~Called(c)
    BY <1>5 DEF CallHandler, CallsInv
  <2>2. c \in Good /\ Tail(walk) \in Seq(Good)
    BY <2>1, HeadTailProperties
  <2>3. d \in Good
    BY <2>1, <2>2, CalledInOrder DEF InOrder, Located
  <2>4. walk' = <<d>> \o Tail(walk) /\ tasks' = tasks /\ list' = list /\ calls' = calls
    BY <1>5 DEF CallHandler
  <2> HIDE DEF c, d, Good
  <2>5. walk' \in Seq(Good)
    BY <2>2, <2>3, <2>4, ConcatProperties
  <2> QED
    BY <2>4, <2>5 DEF CallsInv, Good
<1>6. CASE PassOn
  <2> DEFINE c == Head(walk)
  <2>1. walk \in Seq(Good) /\ tasks \in Seq(Good) /\ walk # <<>> /\ Called(c) /\ ~Ends(c)
    BY <1>6 DEF PassOn, CallsInv
  <2>2. c \in Good /\ Tail(walk) \in Seq(Good)
    BY <2>1, HeadTailProperties
  <2>3. Passed(c) \in Good
    BY <2>1, <2>2, PassedInOrder DEF InOrder, Located
  <2>4. /\ list' = list /\ calls' = calls
        /\ \/ walk' = Tail(walk) /\ tasks' = Append(tasks, Passed(c))
           \/ walk' = <<Passed(c)>> \o Tail(walk) /\ tasks' = tasks
    BY <1>6 DEF PassOn
  <2> HIDE DEF c, Good
  <2>5. <<Passed(c)>> \o Tail(walk) \in Seq(Good)
    BY <2>2, <2>3, ConcatProperties
  <2>6. Append(tasks, Passed(c)) \in Seq(Good)
    BY <2>1, <2>3, AppendProperties
  <2>7. walk' \in Seq(Good) /\ tasks' \in Seq(Good)
    BY <2>1, <2>2, <2>4, <2>5, <2>6
  <2> QED
    BY <2>4, <2>7 DEF CallsInv, Good
<1>7. CASE EndCall
  <2>1. walk \in Seq(Good) /\ walk # <<>>
    BY <1>7 DEF EndCall, CallsInv
  <2> HIDE DEF Good
  <2>2. Tail(walk) \in Seq(Good)
    BY <2>1, HeadTailProperties
  <2> QED
    BY <2>2, <1>7 DEF EndCall, CallsInv, Good
<1>8. CASE UNCHANGED vars
  BY <1>8 DEF vars, CallsInv
<1> QED
  BY <1>1, <1>2, <1>3, <1>4, <1>5, <1>6, <1>7, <1>8 DEF Next

\* A call in order is what EachOnceInOrder asks of it.
LEMMA InOrderIsEnough == ChainInv /\ CallsInv => TypeOK /\ EachOnceInOrder
<1> SUFFICES ASSUME ChainInv, CallsInv PROVE TypeOK /\ EachOnceInOrder
  OBVIOUS
<1> DEFINE Good == InOrder(list)
<1>1. Good \subseteq Call
  BY DEF InOrder
<1>2. walk \in Seq(Good) /\ tasks \in Seq(Good)
  BY DEF CallsInv
<1>3. TypeOK
  <2> HIDE DEF Good
  <2>1. walk \in Seq(Call) /\ tasks \in Seq(Call)
    BY <1>1, <1>2, SeqDef
  <2> QED
    BY <2>1 DEF TypeOK, ChainInv, CallsInv, Pointers
<1>4. ASSUME NEW c \in Range(walk) \cup Range(tasks)
      PROVE  Ordered(list, c)
  <2> HIDE DEF Good
  <2>1. c \in Good
    BY <1>2, <1>4, RangeOfSeq DEF Range
  <2> QED
    BY <2>1 DEF Good, InOrder
<1>5. \A way, a, b : Before(way, a, b) <=> Bef(list, way, a, b)
  <2>1. \A x : Position(x) = Pos(list, x)
    BY DEF Position, Pos, Whole, W
  <2> QED
    BY <2>1 DEF Before, Bef
<1>6. EachOnceInOrder
  BY <1>4, <1>5 DEF EachOnceInOrder, Ordered
<1> QED
  BY <1>3, <1>6

\* The two invariants together hold of every state.
LEMMA PipelineInvariant == Spec => [](ChainInv /\ CallsInv)
<1>1. Init => ChainInv /\ CallsInv
  BY ChainInit, CallsInit
<1>2. ChainInv /\ CallsInv /\ [Next]_vars => ChainInv' /\ CallsInv'
  BY ChainStep, CallsStep
<1> QED
  BY <1>1, <1>2, PTL DEF Spec

\* The pointers name layers, and the calls under way are calls (event_layer,
\* event_handler_base).
THEOREM PipelineTypeCorrect == Spec => []TypeOK
<1>1. ChainInv /\ CallsInv => TypeOK
  BY InOrderIsEnough
<1> QED
  BY <1>1, PipelineInvariant, PTL

\* A call takes each handler at most once and in the order of the list, and misses none
\* that was ahead when it began, however handlers are added and calls nested meanwhile
\* (event_handler_base passing on, event_layer::add_first and add_last).
THEOREM CallsInOrder == Spec => []EachOnceInOrder
<1>1. ChainInv /\ CallsInv => EachOnceInOrder
  BY InOrderIsEnough
<1> QED
  BY <1>1, PipelineInvariant, PTL
=============================================================================
