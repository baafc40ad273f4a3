------------------------- MODULE KqueueWorkerProofs -------------------------
(***************************************************************************)
(* What holds of KqueueWorker for every set of descriptors, size of a      *)
(* socket and bound: the kernel's filters agree with what the channels     *)
(* want however late the change list is applied, and no event is lost.     *)
(***************************************************************************)
EXTENDS KqueueWorker, SequenceTheorems, WellFoundedInduction, TLAPS

-----------------------------------------------------------------------------
(* Induction.  The library's induction theorems take a predicate, so the least *)
(* element of a set stands for them.                                          *)

\* A set of numbers that is not empty has a least element.
LEMMA Least ==
  ASSUME NEW T \in SUBSET Nat, T # {}
  PROVE  \E x \in T : \A y \in T : x <= y
<1> DEFINE R == OpToRel(<, Nat)
<1>1. IsWellFoundedOn(R, Nat)
  BY NatLessThanWellFounded
<1>2. R = {ss \in Nat \X Nat : ss[1] < ss[2]}
  BY DEF OpToRel
<1>3. \A x, y \in Nat : y < x => <<y, x>> \in R
  BY <1>2
<1> HIDE DEF R
<1>4. PICK x \in T : \A y \in T : ~ (<<y, x>> \in R)
  BY <1>1, WFMin
<1>5. \A y \in T : ~ (y < x)
  BY <1>3, <1>4
<1>6. \A y \in Nat : ~ (y < x) => x <= y
  OBVIOUS
<1> QED
  BY <1>5, <1>6

\* A set with 0 and the successor of each of its numbers has them all.
LEMMA Inductive ==
  ASSUME NEW T, 0 \in T, \A n \in Nat : n \in T => n + 1 \in T
  PROVE  Nat \subseteq T
<1> DEFINE U == Nat \ T
<1> SUFFICES ASSUME U # {} PROVE FALSE
  OBVIOUS
<1>1. PICK x \in U : \A y \in U : x <= y
  BY Least
<1>2. x - 1 \in Nat /\ x - 1 \notin U
  BY <1>1
<1> QED
  BY <1>1, <1>2

\* A bounded set of numbers that is not empty has a greatest element.
LEMMA Greatest ==
  ASSUME NEW n \in Nat, NEW s \in SUBSET (1 .. n), s # {}
  PROVE  Max(s) \in s /\ \A y \in s : y <= Max(s)
<1> DEFINE T == {b \in Nat : \A y \in s : y <= b}
<1>1. n \in T
  OBVIOUS
<1>2. T # {} /\ T \in SUBSET Nat
  BY <1>1
<1> HIDE DEF T
<1>3. PICK b \in T : \A c \in T : b <= c
  BY <1>2, Least
<1>4. b \in Nat /\ \A y \in s : y <= b
  BY <1>3 DEF T
<1>5. b \in s
  <2> SUFFICES ASSUME b \notin s PROVE FALSE
    OBVIOUS
  <2>1. PICK y \in s : TRUE
    OBVIOUS
  <2>2. b # 0
    BY <1>4, <2>1
  <2>3. b - 1 \in Nat /\ \A z \in s : z <= b - 1
    BY <1>4, <2>2
  <2>4. b - 1 \in T
    BY <2>3 DEF T
  <2> QED
    BY <1>3, <1>4, <2>4
<1>6. \A y \in s : b >= y
  BY <1>4, <1>5
<1>7. Max(s) \in s /\ \A y \in s : Max(s) >= y
  BY <1>5, <1>6 DEF Max
<1> QED
  BY <1>7

-----------------------------------------------------------------------------
(* The change list, one change at a time. *)

\* h goes from k through the list q.
Applies(h, k, q) ==
  /\ h[0] = k
  /\ \A m \in 1 .. Len(q) : h[m] = Apply(h[m - 1], q[m])

\* The fold over the sets of the first n places of the list q.
IsFold(g, k, q, n) ==
  g = [s \in SUBSET (1 .. n) |->
         IF s = {} THEN k ELSE Apply(g[s \ {Max(s)}], q[Max(s)])]

\* It exists.
LEMMA FoldExists ==
  ASSUME NEW k, NEW q, NEW n \in Nat
  PROVE  \E g : IsFold(g, k, q, n)
<1> DEFINE Rec(g, m) == IsFold(g, k, q, m)
           T == {m \in Nat : \E g : Rec(g, m)}
<1>1. 0 \in T
  <2> DEFINE g == [s \in SUBSET (1 .. 0) |-> k]
  <2>1. SUBSET (1 .. 0) = {{}}
    OBVIOUS
  <2>2. Rec(g, 0)
    BY <2>1 DEF IsFold
  <2> QED
    BY <2>2
<1>2. ASSUME NEW m \in Nat, NEW g, Rec(g, m) PROVE \E e : Rec(e, m + 1)
  <2> DEFINE e == [s \in SUBSET (1 .. m + 1) |->
                     IF m + 1 \in s THEN Apply(g[s \ {m + 1}], q[m + 1]) ELSE g[s]]
             V(s) == IF s = {} THEN k ELSE Apply(e[s \ {Max(s)}], q[Max(s)])
  <2>1. ASSUME NEW s \in SUBSET (1 .. m + 1), m + 1 \in s PROVE e[s] = V(s)
    <3>1. Max(s) \in s /\ \A y \in s : y <= Max(s)
      <4>1. m + 1 \in Nat /\ s # {}
        BY <2>1
      <4> QED
        BY <4>1, Greatest
    <3>2. Max(s) = m + 1
      <4>1. Max(s) \in 1 .. m + 1 /\ m + 1 <= Max(s)
        BY <2>1, <3>1
      <4> QED
        BY <4>1
    <3>3. s \ {m + 1} \in SUBSET (1 .. m) /\ s \ {m + 1} \in SUBSET (1 .. m + 1)
      OBVIOUS
    <3>4. e[s \ {m + 1}] = g[s \ {m + 1}]
      BY <3>3
    <3>5. e[s] = Apply(g[s \ {m + 1}], q[m + 1])
      BY <2>1
    <3> QED
      BY <2>1, <3>2, <3>4, <3>5
  <2>2. ASSUME NEW s \in SUBSET (1 .. m + 1), m + 1 \notin s PROVE e[s] = V(s)
    <3>1. s \in SUBSET (1 .. m)
      BY <2>2
    <3>2. e[s] = g[s]
      BY <2>2
    <3>3. g[s] = IF s = {} THEN k ELSE Apply(g[s \ {Max(s)}], q[Max(s)])
      BY <1>2, <3>1 DEF IsFold
    <3>4. s \ {Max(s)} \in SUBSET (1 .. m + 1) /\ m + 1 \notin s \ {Max(s)}
      BY <2>2
    <3>5. e[s \ {Max(s)}] = g[s \ {Max(s)}]
      BY <3>4
    <3> QED
      BY <3>2, <3>3, <3>5
  <2>3. \A s \in SUBSET (1 .. m + 1) : e[s] = V(s)
    BY <2>1, <2>2
  <2>4. e = [s \in SUBSET (1 .. m + 1) |-> V(s)]
    BY <2>3
  <2> QED
    BY <2>4 DEF IsFold
<1>3. ASSUME NEW m \in Nat, m \in T PROVE m + 1 \in T
  <2>1. PICK g : Rec(g, m)
    BY <1>3
  <2>2. \E e : Rec(e, m + 1)
    BY <1>2, <2>1
  <2> QED
    BY <2>2
<1>4. Nat \subseteq T
  <2>1. \A m \in Nat : m \in T => m + 1 \in T
    BY <1>3
  <2> HIDE DEF T
  <2> QED
    BY <1>1, <2>1, Inductive
<1> QED
  BY <1>4

\* FoldLeft goes through the list from left to right.
LEMMA Folding ==
  ASSUME NEW k, NEW q \in Seq(Change)
  PROVE  \E h : Applies(h, k, q) /\ FoldLeft(Apply, k, q) = h[Len(q)]
<1> DEFINE Rec(g) == g = [s \in SUBSET (DOMAIN q) |->
                            IF s = {} THEN k ELSE Apply(g[s \ {Max(s)}], q[Max(s)])]
           g == CHOOSE g : Rec(g)
           h == [m \in 0 .. Len(q) |-> g[1 .. m]]
<1>1. Len(q) \in Nat /\ DOMAIN q = 1 .. Len(q)
  BY LenProperties
<1>2. \E e : Rec(e)
  <2>1. \E e : IsFold(e, k, q, Len(q))
    BY <1>1, FoldExists
  <2> QED
    BY <1>1, <2>1 DEF IsFold
<1>3. Rec(g)
  BY <1>2
<1>4. FoldLeft(Apply, k, q) = g[DOMAIN q]
  BY DEF FoldLeft, MapThenFoldSet
<1> HIDE DEF g
<1>5. h[0] = k
  <2>1. 1 .. 0 = {} /\ {} \in SUBSET (DOMAIN q)
    OBVIOUS
  <2>2. g[{}] = k
    BY <1>3, <2>1
  <2> QED
    BY <1>1, <2>1, <2>2
<1>6. ASSUME NEW m \in 1 .. Len(q) PROVE h[m] = Apply(h[m - 1], q[m])
  <2>1. m - 1 \in 0 .. Len(q) /\ m \in 0 .. Len(q) /\ m \in 1 .. m
    BY <1>1
  <2>6. 1 .. m \in SUBSET (1 .. Len(q)) /\ 1 .. m # {}
    <3>1. m <= Len(q) /\ m \in Nat
      BY <1>1
    <3>2. \A j \in 1 .. m : j \in 1 .. Len(q)
      BY <1>1, <3>1
    <3> QED
      BY <2>1, <3>2
  <2>2. Max(1 .. m) \in 1 .. m /\ m <= Max(1 .. m)
    BY <1>1, <2>1, <2>6, Greatest
  <2>3. Max(1 .. m) = m
    BY <1>1, <2>2
  <2>4. (1 .. m) \ {m} = 1 .. m - 1
    BY <1>1
  <2>5. g[1 .. m] = Apply(g[(1 .. m) \ {Max(1 .. m)}], q[Max(1 .. m)])
    BY <1>1, <1>3, <2>6
  <2> QED
    BY <2>1, <2>3, <2>4, <2>5
<1>7. FoldLeft(Apply, k, q) = h[Len(q)]
  BY <1>1, <1>4
<1> HIDE DEF h
<1> QED
  BY <1>5, <1>6, <1>7 DEF Applies
-----------------------------------------------------------------------------
(* What the list does to one filter. *)

AnyKnote == [here : BOOLEAN, on : BOOLEAN, active : BOOLEAN, error : BOOLEAN]

\* Changed, for a filter whose descriptor is closed or not and that is ready or not.
After(k, flag, shut, ready) ==
  LET on == flag \in {"add", "enable"} \/ (k.on /\ flag # "disable")
  IN IF shut \/ (~k.here /\ flag # "add") THEN [k EXCEPT !.error = TRUE]
     ELSE IF flag = "delete" THEN [NoKnote EXCEPT !.error = k.error]
     ELSE [here |-> TRUE, on |-> on, error |-> k.error, active |-> k.active \/ (on /\ ready)]

Of(c, i, f) == c.ident = i /\ c.filter = f

\* h goes from k through what q has for filter f of i.
Path(h, k, q, i, f, shut, ready) ==
  /\ h[0] = k
  /\ \A m \in 0 .. Len(q) : h[m] \in AnyKnote
  /\ \A m \in 1 .. Len(q) :
       h[m] = IF Of(q[m], i, f) THEN After(h[m - 1], q[m].flag, shut, ready) ELSE h[m - 1]

\* The list q makes k1 of the filter k.
Leads(k, q, i, f, shut, ready, k1) ==
  \E h : Path(h, k, q, i, f, shut, ready) /\ h[Len(q)] = k1

Shut(i) == chan[i].life = "closed"

\* A change makes a filter of a filter.
LEMMA AfterType ==
  ASSUME NEW k \in AnyKnote, NEW flag \in Flags, NEW shut \in BOOLEAN, NEW ready \in BOOLEAN
  PROVE  After(k, flag, shut, ready) \in AnyKnote
BY DEF AnyKnote, After, NoKnote

\* ... and Changed is After.
LEMMA ChangedAfter ==
  ASSUME NEW k, NEW c \in Change
  PROVE  Changed(k, c) = After(k, c.flag, Shut(c.ident), Ready(c.ident, c.filter))
BY DEF Changed, After, Refused, Shut

AnyKnotes == [Idents -> [Filters -> AnyKnote]]

\* One change, seen from one filter.
LEMMA ApplyFacts ==
  ASSUME NEW k \in AnyKnotes, NEW c \in Change
  PROVE  /\ Apply(k, c) \in AnyKnotes
         /\ \A i \in Idents, f \in Filters :
              Apply(k, c)[i][f] =
                IF Of(c, i, f) THEN After(k[i][f], c.flag, Shut(i), Ready(i, f)) ELSE k[i][f]
<1> DEFINE v == After(k[c.ident][c.filter], c.flag, Shut(c.ident), Ready(c.ident, c.filter))
<1>1. c.ident \in Idents /\ c.filter \in Filters /\ c.flag \in Flags
  BY DEF Change
<1>2. k[c.ident] \in [Filters -> AnyKnote] /\ k[c.ident][c.filter] \in AnyKnote
  BY <1>1 DEF AnyKnotes
<1>3. Shut(c.ident) \in BOOLEAN /\ Ready(c.ident, c.filter) \in BOOLEAN
  BY DEF Shut, Ready
<1>4. v \in AnyKnote
  BY <1>1, <1>2, <1>3, AfterType
<1>5. Changed(k[c.ident][c.filter], c) = v
  BY ChangedAfter
<1>6. Apply(k, c) = [k EXCEPT ![c.ident] = [k[c.ident] EXCEPT ![c.filter] = v]]
  BY <1>5 DEF Apply
<1> HIDE DEF v
<1>7. Apply(k, c) \in AnyKnotes
  BY <1>1, <1>2, <1>4, <1>6 DEF AnyKnotes
<1>8. ASSUME NEW i \in Idents, NEW f \in Filters
      PROVE  Apply(k, c)[i][f] = IF Of(c, i, f) THEN v ELSE k[i][f]
  BY <1>1, <1>2, <1>6 DEF AnyKnotes, Of
<1>9. ASSUME NEW i \in Idents, NEW f \in Filters, Of(c, i, f)
      PROVE  v = After(k[i][f], c.flag, Shut(i), Ready(i, f))
  BY <1>9 DEF Of, v
<1> QED
  BY <1>7, <1>8, <1>9

\* The list leads from every filter to what Applied has of it.
LEMMA AppliedLeads ==
  TypeOK => \A i \in Idents, f \in Filters :
    Leads(knote[i][f], changes, i, f, Shut(i), Ready(i, f), Applied[i][f])
<1> SUFFICES ASSUME TypeOK, NEW i \in Idents, NEW f \in Filters
             PROVE  Leads(knote[i][f], changes, i, f, Shut(i), Ready(i, f), Applied[i][f])
  OBVIOUS
<1>1. changes \in Seq(Change) /\ knote \in AnyKnotes
  <2>1. Knote \subseteq AnyKnote
    BY DEF Knote, AnyKnote
  <2>2. knote \in [Idents -> [Filters -> Knote]] /\ changes \in Seq(Change)
    BY DEF TypeOK
  <2> HIDE DEF TypeOK
  <2> QED
    BY <2>1, <2>2 DEF AnyKnotes
<1>2. PICK h : Applies(h, knote, changes) /\ Applied = h[Len(changes)]
  BY <1>1, Folding DEF Applied
<1>3. /\ h[0] = knote
      /\ \A m \in 1 .. Len(changes) : h[m] = Apply(h[m - 1], changes[m])
  BY <1>2 DEF Applies
<1>4. Len(changes) \in Nat /\ \A m \in 1 .. Len(changes) : changes[m] \in Change
  BY <1>1, LenProperties, ElementOfSeq
<1> DEFINE T == {m \in Nat : m <= Len(changes) => h[m] \in AnyKnotes}
<1>5. 0 \in T
  BY <1>1, <1>3
<1>6. ASSUME NEW m \in Nat, m \in T PROVE m + 1 \in T
  <2> SUFFICES ASSUME m + 1 <= Len(changes) PROVE h[m + 1] \in AnyKnotes
    OBVIOUS
  <2>1. h[m] \in AnyKnotes
    BY <1>4, <1>6
  <2>2. m + 1 \in 1 .. Len(changes) /\ (m + 1) - 1 = m
    BY <1>4
  <2>3. h[m + 1] = Apply(h[m], changes[m + 1]) /\ changes[m + 1] \in Change
    BY <1>3, <1>4, <2>2
  <2> QED
    BY <2>1, <2>3, ApplyFacts
<1>7. Nat \subseteq T
  <2> HIDE DEF T
  <2> QED
    BY <1>5, <1>6, Inductive
<1>8. \A m \in 0 .. Len(changes) : h[m] \in AnyKnotes
  BY <1>4, <1>7
<1> DEFINE e == [m \in 0 .. Len(changes) |-> h[m][i][f]]
<1>9. e[0] = knote[i][f] /\ e[Len(changes)] = Applied[i][f]
  BY <1>2, <1>3, <1>4
<1>10. \A m \in 0 .. Len(changes) : e[m] \in AnyKnote
  BY <1>8 DEF AnyKnotes
<1>11. ASSUME NEW m \in 1 .. Len(changes)
       PROVE  e[m] = IF Of(changes[m], i, f)
                     THEN After(e[m - 1], changes[m].flag, Shut(i), Ready(i, f)) ELSE e[m - 1]
  <2>1. m \in 0 .. Len(changes) /\ m - 1 \in 0 .. Len(changes)
    BY <1>4
  <2>2. e[m] = h[m][i][f] /\ e[m - 1] = h[m - 1][i][f]
    BY <2>1
  <2>3. h[m] = Apply(h[m - 1], changes[m]) /\ changes[m] \in Change /\ h[m - 1] \in AnyKnotes
    BY <1>3, <1>4, <1>8, <2>1
  <2> HIDE DEF e
  <2> QED
    BY <2>2, <2>3, ApplyFacts
<1> HIDE DEF e
<1>12. Path(e, knote[i][f], changes, i, f, Shut(i), Ready(i, f))
  BY <1>9, <1>10, <1>11 DEF Path
<1> QED
  BY <1>9, <1>12 DEF Leads

\* The same of the next state.
LEMMA AppliedLeadsNext ==
  TypeOK' => \A i \in Idents, f \in Filters :
    Leads(knote'[i][f], changes', i, f, Shut(i)', Ready(i, f)', Applied'[i][f])
<1>1. (TypeOK => \A i \in Idents, f \in Filters :
         Leads(knote[i][f], changes, i, f, Shut(i), Ready(i, f), Applied[i][f]))'
  BY AppliedLeads, PTL
<1> QED
  BY <1>1
-----------------------------------------------------------------------------
(* What the list leaves of a filter depends on what it begins with. *)

\* Two filters that are there and on alike stay so; and if they are ready and active
\* alike, they stay active alike.
LEMMA Alike ==
  ASSUME NEW a \in AnyKnote, NEW b \in AnyKnote, NEW q, Len(q) \in Nat, NEW i, NEW f,
         NEW shut \in BOOLEAN, NEW r \in BOOLEAN, NEW s \in BOOLEAN, NEW a1, NEW b1,
         Leads(a, q, i, f, shut, r, a1), Leads(b, q, i, f, shut, s, b1),
         a.here = b.here, a.on = b.on
  PROVE  /\ a1 \in AnyKnote /\ b1 \in AnyKnote
         /\ a1.here = b1.here /\ a1.on = b1.on
         /\ r = s /\ a.active = b.active => a1.active = b1.active
<1>1. PICK g : Path(g, a, q, i, f, shut, r) /\ g[Len(q)] = a1
  BY DEF Leads
<1>2. PICK h : Path(h, b, q, i, f, shut, s) /\ h[Len(q)] = b1
  BY DEF Leads
<1>3. /\ g[0] = a /\ h[0] = b
      /\ \A m \in 0 .. Len(q) : g[m] \in AnyKnote /\ h[m] \in AnyKnote
      /\ \A m \in 1 .. Len(q) :
           /\ g[m] = IF Of(q[m], i, f) THEN After(g[m - 1], q[m].flag, shut, r) ELSE g[m - 1]
           /\ h[m] = IF Of(q[m], i, f) THEN After(h[m - 1], q[m].flag, shut, s) ELSE h[m - 1]
  BY <1>1, <1>2 DEF Path
<1> DEFINE Same(x, y) == /\ x.here = y.here /\ x.on = y.on
                         /\ r = s /\ a.active = b.active => x.active = y.active
           T == {m \in Nat : m <= Len(q) => Same(g[m], h[m])}
<1>4. ASSUME NEW x \in AnyKnote, NEW y \in AnyKnote, NEW flag, Same(x, y)
      PROVE  Same(After(x, flag, shut, r), After(y, flag, shut, s))
  BY <1>4 DEF AnyKnote, After, NoKnote
<1>5. 0 \in T
  BY <1>3
<1>6. ASSUME NEW m \in Nat, m \in T PROVE m + 1 \in T
  <2> SUFFICES ASSUME m + 1 <= Len(q) PROVE Same(g[m + 1], h[m + 1])
    OBVIOUS
  <2>1. Same(g[m], h[m]) /\ m \in 0 .. Len(q)
    BY <1>6
  <2>2. m + 1 \in 1 .. Len(q) /\ (m + 1) - 1 = m
    OBVIOUS
  <2>3. g[m + 1] = IF Of(q[m + 1], i, f) THEN After(g[m], q[m + 1].flag, shut, r) ELSE g[m]
    BY <1>3, <2>2
  <2>4. h[m + 1] = IF Of(q[m + 1], i, f) THEN After(h[m], q[m + 1].flag, shut, s) ELSE h[m]
    BY <1>3, <2>2
  <2>5. g[m] \in AnyKnote /\ h[m] \in AnyKnote
    BY <1>3, <2>1
  <2> HIDE DEF Same
  <2> QED
    BY <1>4, <2>1, <2>3, <2>4, <2>5
<1>7. Nat \subseteq T
  <2> HIDE DEF T
  <2> QED
    BY <1>5, <1>6, Inductive
<1>8. Same(a1, b1) /\ a1 \in AnyKnote /\ b1 \in AnyKnote
  BY <1>1, <1>2, <1>3, <1>7
<1> QED
  BY <1>8

\* A filter that is active if it is there stays so when it is ready: whatever adds or
\* enables it finds it ready.
LEMMA StaysActive ==
  ASSUME NEW a \in AnyKnote, NEW q, Len(q) \in Nat, NEW i, NEW f,
         NEW shut \in BOOLEAN, NEW a1, Leads(a, q, i, f, shut, TRUE, a1),
         a.here => a.active
  PROVE  a1.here => a1.active
<1>1. PICK h : Path(h, a, q, i, f, shut, TRUE) /\ h[Len(q)] = a1
  BY DEF Leads
<1>2. /\ h[0] = a
      /\ \A m \in 0 .. Len(q) : h[m] \in AnyKnote
      /\ \A m \in 1 .. Len(q) :
           h[m] = IF Of(q[m], i, f) THEN After(h[m - 1], q[m].flag, shut, TRUE) ELSE h[m - 1]
  BY <1>1 DEF Path
<1> DEFINE Good(x) == x.here => x.active
           T == {m \in Nat : m <= Len(q) => Good(h[m])}
<1>3. ASSUME NEW x \in AnyKnote, NEW flag, Good(x)
      PROVE  Good(After(x, flag, shut, TRUE))
  BY <1>3 DEF AnyKnote, After, NoKnote
<1>4. 0 \in T
  BY <1>2
<1>5. ASSUME NEW m \in Nat, m \in T PROVE m + 1 \in T
  <2> SUFFICES ASSUME m + 1 <= Len(q) PROVE Good(h[m + 1])
    OBVIOUS
  <2>1. Good(h[m]) /\ m \in 0 .. Len(q)
    BY <1>5
  <2>2. m + 1 \in 1 .. Len(q) /\ (m + 1) - 1 = m
    OBVIOUS
  <2>3. h[m + 1] = IF Of(q[m + 1], i, f) THEN After(h[m], q[m + 1].flag, shut, TRUE) ELSE h[m]
    BY <1>2, <2>2
  <2>4. h[m] \in AnyKnote
    BY <1>2, <2>1
  <2> HIDE DEF Good
  <2> QED
    BY <1>3, <2>1, <2>3, <2>4
<1>6. Nat \subseteq T
  <2> HIDE DEF T
  <2> QED
    BY <1>4, <1>5, Inductive
<1> QED
  BY <1>1, <1>6

\* Every addition of filter f of i is followed by its deletion.
Undone(q, i, f) ==
  \A j \in 1 .. Len(q) : Of(q[j], i, f) /\ q[j].flag = "add" =>
    \E n \in j + 1 .. Len(q) : Of(q[n], i, f) /\ q[n].flag = "delete"

\* Such a list leaves nothing behind, whosever the descriptor is when it is applied.
LEMMA UndoneLeaves ==
  ASSUME NEW a \in AnyKnote, NEW q, Len(q) \in Nat, NEW i, NEW f,
         NEW shut \in BOOLEAN, NEW r \in BOOLEAN, NEW a1, Leads(a, q, i, f, shut, r, a1),
         ~a.here, Undone(q, i, f)
  PROVE  ~a1.here
<1>1. PICK h : Path(h, a, q, i, f, shut, r) /\ h[Len(q)] = a1
  BY DEF Leads
<1>2. /\ h[0] = a
      /\ \A m \in 0 .. Len(q) : h[m] \in AnyKnote
      /\ \A m \in 1 .. Len(q) :
           h[m] = IF Of(q[m], i, f) THEN After(h[m - 1], q[m].flag, shut, r) ELSE h[m - 1]
  BY <1>1 DEF Path
<1> DEFINE Has(j, flag) == Of(q[j], i, f) /\ q[j].flag = flag
           Left(m) == \E j \in 1 .. m : Has(j, "add") /\ \A n \in j + 1 .. m : ~Has(n, "delete")
           T == {m \in Nat : m <= Len(q) => (h[m].here => Left(m))}
<1>3. ASSUME NEW x \in AnyKnote, NEW flag
      PROVE  /\ flag = "delete" /\ After(x, flag, shut, r).here => shut /\ x.here
             /\ flag # "add" /\ After(x, flag, shut, r).here => x.here
  BY DEF AnyKnote, After, NoKnote
<1>4. 0 \in T
  BY <1>2
<1>5. ASSUME NEW m \in Nat, m \in T, m + 1 <= Len(q), h[m + 1].here, ~shut PROVE Left(m + 1)
  <2>1. (h[m].here => Left(m)) /\ m \in 0 .. Len(q) /\ m \in Nat
    BY <1>5
  <2>2. m + 1 \in 1 .. Len(q) /\ (m + 1) - 1 = m
    BY <1>5
  <2>3. h[m + 1] = IF Of(q[m + 1], i, f) THEN After(h[m], q[m + 1].flag, shut, r) ELSE h[m]
    BY <1>2, <2>2
  <2>4. h[m] \in AnyKnote
    BY <1>2, <2>1
  <2>5. CASE Has(m + 1, "add")
    <3>1. \A n \in (m + 1) + 1 .. m + 1 : ~Has(n, "delete")
      BY <2>1
    <3>2. m + 1 \in 1 .. m + 1
      BY <2>1
    <3> QED
      BY <2>5, <3>1, <3>2
  <2>6. CASE ~Has(m + 1, "add")
    <3>1. h[m].here /\ ~Has(m + 1, "delete")
      BY <1>3, <1>5, <2>3, <2>4, <2>6
    <3>2. PICK j \in 1 .. m : Has(j, "add") /\ \A n \in j + 1 .. m : ~Has(n, "delete")
      BY <2>1, <3>1
    <3>3. \A n \in j + 1 .. m + 1 : n \in j + 1 .. m \/ n = m + 1
      BY <2>1, <3>2
    <3>4. j \in 1 .. m + 1
      BY <2>1, <3>2
    <3> QED
      BY <3>1, <3>2, <3>3, <3>4
  <2> QED
    BY <2>5, <2>6
<1>6. ASSUME NEW m \in Nat, m \in T, ~shut PROVE m + 1 \in T
  <2>1. m + 1 <= Len(q) /\ h[m + 1].here => Left(m + 1)
    <3> HIDE DEF Left, T
    <3> QED
      BY <1>5, <1>6
  <2>2. m + 1 \in Nat
    OBVIOUS
  <2> HIDE DEF Left
  <2> QED
    BY <2>1, <2>2
<1>7. ~shut => ~a1.here
  <2> SUFFICES ASSUME ~shut, a1.here PROVE FALSE
    OBVIOUS
  <2>1. Nat \subseteq T
    <3>1. \A m \in Nat : m \in T => m + 1 \in T
      BY <1>6
    <3> HIDE DEF T
    <3> QED
      BY <1>4, <3>1, Inductive
  <2>2. Left(Len(q))
    BY <1>1, <2>1
  <2> QED
    BY <2>2 DEF Undone
<1>8. shut => ~a1.here
  <2> SUFFICES ASSUME shut PROVE ~a1.here
    OBVIOUS
  <2> DEFINE U == {m \in Nat : m <= Len(q) => ~h[m].here}
  <2>1. ASSUME NEW x \in AnyKnote, NEW flag, ~x.here
        PROVE  ~After(x, flag, shut, r).here
    BY <2>1 DEF AnyKnote, After
  <2>2. 0 \in U
    BY <1>2
  <2>3. ASSUME NEW m \in Nat, m \in U PROVE m + 1 \in U
    <3> SUFFICES ASSUME m + 1 <= Len(q) PROVE ~h[m + 1].here
      OBVIOUS
    <3>1. ~h[m].here /\ m \in 0 .. Len(q) /\ m + 1 \in 1 .. Len(q) /\ (m + 1) - 1 = m
      BY <2>3
    <3>2. h[m + 1] = IF Of(q[m + 1], i, f) THEN After(h[m], q[m + 1].flag, shut, r) ELSE h[m]
      BY <1>2, <3>1
    <3>3. h[m] \in AnyKnote
      BY <1>2, <3>1
    <3> QED
      BY <2>1, <3>1, <3>2, <3>3
  <2>4. Nat \subseteq U
    <3> HIDE DEF U
    <3> QED
      BY <2>2, <2>3, Inductive
  <2> QED
    BY <1>1, <2>4
<1> QED
  BY <1>7, <1>8
-----------------------------------------------------------------------------
(* Lists that are put behind the list. *)

\* What is listed behind comes after.
LEMMA LeadsBehind ==
  ASSUME NEW k, NEW q \in Seq(Change), NEW p \in Seq(Change), NEW i, NEW f,
         NEW shut, NEW r, NEW k2, Leads(k, q \o p, i, f, shut, r, k2)
  PROVE  \E k1 : Leads(k, q, i, f, shut, r, k1) /\ Leads(k1, p, i, f, shut, r, k2)
<1> DEFINE w == q \o p
<1>1. Len(q) \in Nat /\ Len(p) \in Nat
  BY LenProperties
<1>2. /\ Len(w) = Len(q) + Len(p)
      /\ \A m \in 1 .. Len(q) + Len(p) : w[m] = IF m <= Len(q) THEN q[m] ELSE p[m - Len(q)]
  BY ConcatProperties
<1>3. PICK h : Path(h, k, w, i, f, shut, r) /\ h[Len(w)] = k2
  BY DEF Leads
<1> HIDE DEF w
<1>4. /\ h[0] = k
      /\ \A m \in 0 .. Len(w) : h[m] \in AnyKnote
      /\ \A m \in 1 .. Len(w) :
           h[m] = IF Of(w[m], i, f) THEN After(h[m - 1], w[m].flag, shut, r) ELSE h[m - 1]
  BY <1>3 DEF Path
<1> DEFINE g == [m \in 0 .. Len(p) |-> h[Len(q) + m]]
<1>5. Path(h, k, q, i, f, shut, r)
  <2>1. \A m \in 0 .. Len(q) : m \in 0 .. Len(w)
    BY <1>1, <1>2
  <2>2. \A m \in 1 .. Len(q) : m \in 1 .. Len(w) /\ w[m] = q[m]
    BY <1>1, <1>2
  <2> QED
    BY <1>4, <2>1, <2>2 DEF Path
<1>6. g[0] = h[Len(q)] /\ g[Len(p)] = k2
  BY <1>1, <1>2, <1>3
<1>7. \A m \in 0 .. Len(p) : g[m] \in AnyKnote
  <2>1. \A m \in 0 .. Len(p) : Len(q) + m \in 0 .. Len(w)
    BY <1>1, <1>2
  <2> QED
    BY <1>4, <2>1
<1>8. ASSUME NEW m \in 1 .. Len(p)
      PROVE  g[m] = IF Of(p[m], i, f) THEN After(g[m - 1], p[m].flag, shut, r) ELSE g[m - 1]
  <2>1. Len(q) + m \in 1 .. Len(w) /\ ~(Len(q) + m <= Len(q)) /\ (Len(q) + m) - Len(q) = m
    BY <1>1, <1>2
  <2>2. w[Len(q) + m] = p[m]
    BY <1>1, <1>2, <2>1
  <2>3. (Len(q) + m) - 1 = Len(q) + (m - 1) /\ m \in 0 .. Len(p) /\ m - 1 \in 0 .. Len(p)
    BY <1>1
  <2>4. g[m] = h[Len(q) + m] /\ g[m - 1] = h[(Len(q) + m) - 1]
    BY <2>3
  <2> HIDE DEF g
  <2> QED
    BY <1>4, <2>1, <2>2, <2>4
<1> HIDE DEF g
<1>9. Path(g, h[Len(q)], p, i, f, shut, r)
  BY <1>6, <1>7, <1>8 DEF Path
<1> QED
  BY <1>5, <1>6, <1>9 DEF Leads

\* A list without a change of the filter leaves it as it is.
LEMMA Untouched ==
  ASSUME NEW k, NEW q, Len(q) \in Nat, NEW i, NEW f, NEW shut, NEW r, NEW k1,
         Leads(k, q, i, f, shut, r, k1), \A m \in 1 .. Len(q) : ~Of(q[m], i, f)
  PROVE  k1 = k /\ k \in AnyKnote
<1>1. PICK h : Path(h, k, q, i, f, shut, r) /\ h[Len(q)] = k1
  BY DEF Leads
<1>2. /\ h[0] = k
      /\ \A m \in 0 .. Len(q) : h[m] \in AnyKnote
      /\ \A m \in 1 .. Len(q) : h[m] = h[m - 1]
  BY <1>1 DEF Path
<1> DEFINE T == {m \in Nat : m <= Len(q) => h[m] = k}
<1>3. 0 \in T
  BY <1>2
<1>4. ASSUME NEW m \in Nat, m \in T PROVE m + 1 \in T
  <2> SUFFICES ASSUME m + 1 <= Len(q) PROVE h[m + 1] = k
    OBVIOUS
  <2>1. h[m] = k /\ m + 1 \in 1 .. Len(q) /\ (m + 1) - 1 = m
    BY <1>4
  <2> QED
    BY <1>2, <2>1
<1>5. Nat \subseteq T
  <2> HIDE DEF T
  <2> QED
    BY <1>3, <1>4, Inductive
<1> QED
  BY <1>1, <1>2, <1>5

\* A list of one change of the filter.
LEMMA One ==
  ASSUME NEW k, NEW c, NEW i, NEW f, NEW shut, NEW r, NEW k1,
         Leads(k, <<c>>, i, f, shut, r, k1), Of(c, i, f)
  PROVE  k1 = After(k, c.flag, shut, r) /\ k \in AnyKnote
<1>1. PICK h : Path(h, k, <<c>>, i, f, shut, r) /\ h[Len(<<c>>)] = k1
  BY DEF Leads
<1>2. Len(<<c>>) = 1 /\ <<c>>[1] = c
  OBVIOUS
<1> QED
  BY <1>1, <1>2 DEF Path

\* What the changes of channel r of i make of its filters.
Wished(k, f, r, add, del, shut, ready) ==
  IF (f \in r.wants) # (f \in r.enabled) \/ "none" \in {add, del}
  THEN After(k, IF f \in r.wants THEN add ELSE del, shut, ready)
  ELSE k

\* The change of a filter, as a list of one or none.
Asked(i, f, r, add, del) ==
  IF (f \in r.wants) # (f \in r.enabled) \/ "none" \in {add, del}
  THEN <<[ident |-> i, filter |-> f, flag |-> IF f \in r.wants THEN add ELSE del]>>
  ELSE <<>>

LEMMA ChangesAsked ==
  ASSUME NEW i, NEW r, NEW add, NEW del
  PROVE  ChangesOf(i, r, add, del) = Asked(i, "read", r, add, del) \o Asked(i, "write", r, add, del)
BY DEF ChangesOf, Asked

LEMMA AskedFacts ==
  ASSUME NEW i \in Idents, NEW f \in Filters, NEW r, NEW add \in Flags, NEW del \in Flags
  PROVE  /\ Asked(i, f, r, add, del) \in Seq(Change)
         /\ Len(Asked(i, f, r, add, del)) \in {0, 1}
         /\ \A m \in 1 .. Len(Asked(i, f, r, add, del)) :
              LET c == Asked(i, f, r, add, del)[m] IN
              c.ident = i /\ c.filter = f /\ c.flag \in {add, del}
<1> DEFINE c == [ident |-> i, filter |-> f, flag |-> IF f \in r.wants THEN add ELSE del]
<1>1. c \in Change /\ c.ident = i /\ c.filter = f /\ c.flag \in {add, del}
  BY DEF Change
<1> HIDE DEF c
<1>2. <<c>> \in Seq(Change) /\ Len(<<c>>) = 1 /\ <<c>>[1] = c
  BY <1>1
<1>3. <<>> \in Seq(Change) /\ Len(<<>>) = 0
  OBVIOUS
<1>4. PICK q : q = Asked(i, f, r, add, del)
  OBVIOUS
<1>5. q = <<c>> \/ q = <<>>
  BY <1>4 DEF Asked, c
<1>6. /\ q \in Seq(Change) /\ Len(q) \in {0, 1}
      /\ \A m \in 1 .. Len(q) : q[m].ident = i /\ q[m].filter = f /\ q[m].flag \in {add, del}
  <2>1. CASE q = <<>>
    BY <1>3, <2>1
  <2>2. CASE q = <<c>>
    <3>1. \A m \in 1 .. Len(q) : q[m] = c
      BY <1>2, <2>2
    <3> QED
      BY <1>1, <1>2, <2>2, <3>1
  <2> QED
    BY <1>5, <2>1, <2>2
<1> QED
  BY <1>4, <1>6

LEMMA AskedLeads ==
  ASSUME NEW i \in Idents, NEW f \in Filters, NEW r, NEW add \in Flags, NEW del \in Flags,
         NEW j, NEW e, NEW k, NEW shut, NEW ready, NEW k1,
         Leads(k, Asked(i, f, r, add, del), j, e, shut, ready, k1)
  PROVE  k1 = IF j = i /\ e = f THEN Wished(k, f, r, add, del, shut, ready) ELSE k
<1> DEFINE q == Asked(i, f, r, add, del)
<1>1. Len(q) \in Nat /\ \A m \in 1 .. Len(q) : q[m].ident = i /\ q[m].filter = f
  BY AskedFacts
<1>2. CASE ~(j = i /\ e = f)
  <2>1. \A m \in 1 .. Len(q) : ~Of(q[m], j, e)
    BY <1>1, <1>2 DEF Of
  <2>3. PICK p : p = q
    OBVIOUS
  <2>4. Leads(k, p, j, e, shut, ready, k1) /\ Len(p) \in Nat /\ \A m \in 1 .. Len(p) : ~Of(p[m], j, e)
    BY <1>1, <2>1, <2>3
  <2>2. k1 = k /\ k \in AnyKnote
    BY <2>4, Untouched, Zenon
  <2> QED
    BY <1>2, <2>2
<1>3. CASE j = i /\ e = f
  <2>1. CASE (f \in r.wants) # (f \in r.enabled) \/ "none" \in {add, del}
    <3> DEFINE c == [ident |-> i, filter |-> f, flag |-> IF f \in r.wants THEN add ELSE del]
    <3>1. q = <<c>>
      BY <2>1 DEF Asked
    <3>2. Of(c, j, e) /\ c.flag = IF f \in r.wants THEN add ELSE del
      BY <1>3 DEF Of
    <3> HIDE DEF c
    <3>3. Leads(k, <<c>>, j, e, shut, ready, k1)
      BY <3>1
    <3>4. k1 = After(k, c.flag, shut, ready)
      BY <3>2, <3>3, One
    <3> QED
      BY <1>3, <2>1, <3>2, <3>4 DEF Wished
  <2>2. CASE ~((f \in r.wants) # (f \in r.enabled) \/ "none" \in {add, del})
    <3>1. q = <<>>
      BY <2>2 DEF Asked
    <3>2. Leads(k, <<>>, j, e, shut, ready, k1)
      BY <3>1
    <3>4. PICK p : p = <<>>
      OBVIOUS
    <3>5. Leads(k, p, j, e, shut, ready, k1) /\ Len(p) \in Nat /\ \A m \in 1 .. Len(p) : ~Of(p[m], j, e)
      BY <3>2, <3>4
    <3>3. k1 = k /\ k \in AnyKnote
      BY <3>5, Untouched, Zenon
    <3> QED
      BY <1>3, <2>2, <3>3 DEF Wished
  <2> QED
    BY <2>1, <2>2
<1> QED
  BY <1>2, <1>3

\* ... as ChangesOf lists them, to its own filters and no others.
LEMMA ChangesLead ==
  ASSUME NEW i \in Idents, NEW f \in Filters, NEW j \in Idents, NEW r,
         NEW add \in Flags, NEW del \in Flags, NEW k, NEW shut, NEW ready, NEW k1,
         Leads(k, ChangesOf(i, r, add, del), j, f, shut, ready, k1)
  PROVE  k1 = IF j = i THEN Wished(k, f, r, add, del, shut, ready) ELSE k
<1>1. PICK a : a = Asked(i, "read", r, add, del)
  OBVIOUS
<1>2. PICK b : b = Asked(i, "write", r, add, del)
  OBVIOUS
<1>3. a \in Seq(Change) /\ b \in Seq(Change)
  BY <1>1, <1>2, AskedFacts DEF Filters
<1>4. Leads(k, a \o b, j, f, shut, ready, k1)
  BY <1>1, <1>2, ChangesAsked
<1>5. PICK k0 : Leads(k, a, j, f, shut, ready, k0) /\ Leads(k0, b, j, f, shut, ready, k1)
  BY <1>3, <1>4, LeadsBehind
<1>6. k0 = IF j = i /\ f = "read" THEN Wished(k, "read", r, add, del, shut, ready) ELSE k
  <2>1. Leads(k, Asked(i, "read", r, add, del), j, f, shut, ready, k0)
    BY <1>1, <1>5
  <2> QED
    BY <2>1, AskedLeads DEF Filters
<1>7. k1 = IF j = i /\ f = "write" THEN Wished(k0, "write", r, add, del, shut, ready) ELSE k0
  <2>1. Leads(k0, Asked(i, "write", r, add, del), j, f, shut, ready, k1)
    BY <1>2, <1>5
  <2> QED
    BY <2>1, AskedLeads DEF Filters
<1>8. f = "read" \/ f = "write"
  BY DEF Filters
<1> QED
  BY <1>6, <1>7, <1>8

\* The list has changes of this channel only.
LEMMA ChangesFacts ==
  ASSUME NEW i \in Idents, NEW r, NEW add \in Flags, NEW del \in Flags
  PROVE  /\ ChangesOf(i, r, add, del) \in Seq(Change)
         /\ \A m \in 1 .. Len(ChangesOf(i, r, add, del)) :
              /\ ChangesOf(i, r, add, del)[m].ident = i
              /\ ChangesOf(i, r, add, del)[m].flag \in {add, del}
<1>1. PICK a : a = Asked(i, "read", r, add, del)
  OBVIOUS
<1>2. PICK b : b = Asked(i, "write", r, add, del)
  OBVIOUS
<1>3. /\ a \in Seq(Change) /\ b \in Seq(Change) /\ Len(a) \in Nat /\ Len(b) \in Nat
      /\ \A m \in 1 .. Len(a) : a[m].ident = i /\ a[m].flag \in {add, del}
      /\ \A m \in 1 .. Len(b) : b[m].ident = i /\ b[m].flag \in {add, del}
  BY <1>1, <1>2, AskedFacts DEF Filters
<1>4. /\ a \o b \in Seq(Change) /\ Len(a \o b) = Len(a) + Len(b)
      /\ \A m \in 1 .. Len(a) + Len(b) : (a \o b)[m] = IF m <= Len(a) THEN a[m] ELSE b[m - Len(a)]
  BY <1>3, ConcatProperties
<1>5. \A m \in 1 .. Len(a) + Len(b) : m \in 1 .. Len(a) \/ (m > Len(a) /\ m - Len(a) \in 1 .. Len(b))
  BY <1>3
<1>6. \A m \in 1 .. Len(a \o b) : (a \o b)[m].ident = i /\ (a \o b)[m].flag \in {add, del}
  BY <1>3, <1>4, <1>5
<1> QED
  BY <1>1, <1>2, <1>4, <1>6, ChangesAsked
-----------------------------------------------------------------------------
(* What a step makes of what is to become of a filter. *)

\* There, and on, alike.
Like(k, l) == k.here = l.here /\ k.on = l.on

\* Applied has filters.
LEMMA AppliedType ==
  ASSUME TypeOK, NEW i \in Idents, NEW f \in Filters
  PROVE  Applied[i][f] \in AnyKnote /\ knote[i][f] \in AnyKnote
<1>1. Leads(knote[i][f], changes, i, f, Shut(i), Ready(i, f), Applied[i][f])
  BY AppliedLeads
<1>2. PICK h : /\ Path(h, knote[i][f], changes, i, f, Shut(i), Ready(i, f))
               /\ h[Len(changes)] = Applied[i][f]
  BY <1>1 DEF Leads
<1>3. Len(changes) \in Nat
  BY LenProperties DEF TypeOK
<1>4. h[0] = knote[i][f] /\ \A m \in 0 .. Len(changes) : h[m] \in AnyKnote
  BY <1>2 DEF Path
<1> QED
  BY <1>2, <1>3, <1>4

\* What p was put behind finds the filter as it was to become before the step, if the
\* step itself left it there and on alike.
LEMMA Behind ==
  ASSUME TypeOK, TypeOK', NEW i \in Idents, NEW f \in Filters, NEW p \in Seq(Change),
         changes' = changes \o p, Like(knote'[i][f], knote[i][f]), Shut(i)' = Shut(i)
  PROVE  \E k \in AnyKnote :
           /\ Like(k, Applied[i][f])
           /\ Ready(i, f)' = Ready(i, f) /\ knote'[i][f].active = knote[i][f].active =>
                k.active = Applied[i][f].active
           /\ Leads(k, p, i, f, Shut(i), Ready(i, f)', Applied'[i][f])
<1>1. PICK q : q = changes
  OBVIOUS
<1>2. PICK a, a1, b, b1 : a = knote[i][f] /\ a1 = Applied[i][f] /\ b = knote'[i][f] /\ b1 = Applied'[i][f]
  OBVIOUS
<1>3. PICK shut \in BOOLEAN, r \in BOOLEAN, s \in BOOLEAN :
        shut = Shut(i) /\ r = Ready(i, f) /\ s = Ready(i, f)'
  BY DEF Shut, Ready
<1>4. q \in Seq(Change) /\ Len(q) \in Nat
  BY <1>1, LenProperties DEF TypeOK
<1>5. Leads(a, q, i, f, shut, r, a1)
  BY <1>1, <1>2, <1>3, AppliedLeads
<1>6. Leads(b, q \o p, i, f, shut, s, b1)
  <2>1. Leads(knote'[i][f], changes', i, f, Shut(i)', Ready(i, f)', Applied'[i][f])
    BY AppliedLeadsNext
  <2> QED
    BY <2>1, <1>1, <1>2, <1>3
<1>7. PICK k : Leads(b, q, i, f, shut, s, k) /\ Leads(k, p, i, f, shut, s, b1)
  BY <1>4, <1>6, LeadsBehind
<1>8. a \in AnyKnote
  BY <1>2, AppliedType
<1>9. b \in AnyKnote
  <2>1. Knote \subseteq AnyKnote
    BY DEF Knote, AnyKnote
  <2>2. knote' \in [Idents -> [Filters -> Knote]]
    BY DEF TypeOK
  <2> QED
    BY <1>2, <2>1, <2>2
<1>10. a.here = b.here /\ a.on = b.on
  BY <1>2 DEF Like
<1>11. /\ k \in AnyKnote
       /\ a1.here = k.here /\ a1.on = k.on
       /\ r = s /\ a.active = b.active => a1.active = k.active
  BY <1>4, <1>5, <1>7, <1>8, <1>9, <1>10, Alike
<1>12. /\ Like(k, Applied[i][f])
       /\ Ready(i, f)' = Ready(i, f) /\ knote'[i][f].active = knote[i][f].active =>
            k.active = Applied[i][f].active
  BY <1>2, <1>3, <1>11 DEF Like
<1>13. Leads(k, p, i, f, Shut(i), Ready(i, f)', Applied'[i][f])
  BY <1>2, <1>3, <1>7
<1> QED
  BY <1>11, <1>12, <1>13

\* If p has nothing for the filter, it is to become what it was to become.
LEMMA BehindNothing ==
  ASSUME TypeOK, TypeOK', NEW i \in Idents, NEW f \in Filters, NEW p \in Seq(Change),
         changes' = changes \o p, Like(knote'[i][f], knote[i][f]), Shut(i)' = Shut(i),
         \A m \in 1 .. Len(p) : ~Of(p[m], i, f)
  PROVE  /\ Like(Applied'[i][f], Applied[i][f])
         /\ Ready(i, f)' = Ready(i, f) /\ knote'[i][f].active = knote[i][f].active =>
              Applied'[i][f].active = Applied[i][f].active
<1>1. PICK k \in AnyKnote :
        /\ Like(k, Applied[i][f])
        /\ Ready(i, f)' = Ready(i, f) /\ knote'[i][f].active = knote[i][f].active =>
             k.active = Applied[i][f].active
        /\ Leads(k, p, i, f, Shut(i), Ready(i, f)', Applied'[i][f])
  BY Behind
<1>2. PICK b, shut, s : b = Applied'[i][f] /\ shut = Shut(i) /\ s = Ready(i, f)'
  OBVIOUS
<1>5. PICK q : q = p
  OBVIOUS
<1>3. Leads(k, q, i, f, shut, s, b) /\ Len(q) \in Nat /\ \A m \in 1 .. Len(q) : ~Of(q[m], i, f)
  BY <1>1, <1>2, <1>5, LenProperties
<1>6. PICK l : l = k
  OBVIOUS
<1>7. Leads(l, q, i, f, shut, s, b)
  BY <1>3, <1>6
<1>4. b = l /\ l \in AnyKnote
  <2> HIDE <1>6
  <2> QED
    BY <1>3, <1>7, Untouched, Zenon
<1> QED
  BY <1>1, <1>2, <1>4, <1>6

\* If p is a list of changes of channel r of i, it makes of it what r wishes.
LEMMA BehindChanges ==
  ASSUME TypeOK, TypeOK', NEW i \in Idents, NEW f \in Filters, NEW r,
         NEW add \in Flags, NEW del \in Flags,
         changes' = changes \o ChangesOf(i, r, add, del),
         Like(knote'[i][f], knote[i][f]), Shut(i)' = Shut(i)
  PROVE  \E k \in AnyKnote :
           /\ Like(k, Applied[i][f])
           /\ Ready(i, f)' = Ready(i, f) /\ knote'[i][f].active = knote[i][f].active =>
                k.active = Applied[i][f].active
           /\ Applied'[i][f] = Wished(k, f, r, add, del, Shut(i), Ready(i, f)')
<1>1. PICK p : p = ChangesOf(i, r, add, del)
  OBVIOUS
<1>2. p \in Seq(Change)
  BY <1>1, ChangesFacts
<1>3. PICK k \in AnyKnote :
        /\ Like(k, Applied[i][f])
        /\ Ready(i, f)' = Ready(i, f) /\ knote'[i][f].active = knote[i][f].active =>
             k.active = Applied[i][f].active
        /\ Leads(k, p, i, f, Shut(i), Ready(i, f)', Applied'[i][f])
  BY <1>1, <1>2, Behind
<1>4. PICK b, shut, s : b = Applied'[i][f] /\ shut = Shut(i) /\ s = Ready(i, f)'
  OBVIOUS
<1>5. Leads(k, ChangesOf(i, r, add, del), i, f, shut, s, b)
  BY <1>1, <1>3, <1>4
<1>6. b = Wished(k, f, r, add, del, shut, s)
  BY <1>5, ChangesLead
<1>7. Applied'[i][f] = Wished(k, f, r, add, del, Shut(i), Ready(i, f)')
  BY <1>4, <1>6
<1> QED
  BY <1>3, <1>7

\* A filter that is ready and active in the kernel is to become active.
LEMMA WillBeActive ==
  ASSUME TypeOK', NEW i \in Idents, NEW f \in Filters, Ready(i, f)',
         knote'[i][f].here => knote'[i][f].active
  PROVE  Applied'[i][f].here => Applied'[i][f].active
<1>1. PICK q : q = changes'
  OBVIOUS
<1>2. PICK b, b1 : b = knote'[i][f] /\ b1 = Applied'[i][f]
  OBVIOUS
<1>3. PICK shut \in BOOLEAN : shut = Shut(i)'
  BY DEF Shut
<1>4. Len(q) \in Nat
  BY <1>1, LenProperties DEF TypeOK
<1>5. Leads(b, q, i, f, shut, TRUE, b1)
  <2>1. Leads(knote'[i][f], changes', i, f, Shut(i)', Ready(i, f)', Applied'[i][f])
    BY AppliedLeadsNext
  <2>2. Ready(i, f)' = TRUE
    BY DEF Ready
  <2> QED
    BY <2>1, <2>2, <1>1, <1>2, <1>3
<1>6. b \in AnyKnote
  <2>1. Knote \subseteq AnyKnote
    BY DEF Knote, AnyKnote
  <2>2. knote' \in [Idents -> [Filters -> Knote]]
    BY DEF TypeOK
  <2> QED
    BY <1>2, <2>1, <2>2
<1>8. b.here => b.active
  BY <1>2
<1>7. b1.here => b1.active
  BY <1>4, <1>5, <1>6, <1>8, StaysActive
<1> QED
  BY <1>2, <1>7

\* An empty list leaves the kernel's filters.
LEMMA NothingListed ==
  ASSUME TypeOK', NEW i \in Idents, NEW f \in Filters, changes' = <<>>
  PROVE  Applied'[i][f] = knote'[i][f]
<1>1. PICK q : q = changes'
  OBVIOUS
<1>2. PICK b, b1, shut, s : b = knote'[i][f] /\ b1 = Applied'[i][f] /\ shut = Shut(i)' /\ s = Ready(i, f)'
  OBVIOUS
<1>3. Leads(b, q, i, f, shut, s, b1)
  <2>1. Leads(knote'[i][f], changes', i, f, Shut(i)', Ready(i, f)', Applied'[i][f])
    BY AppliedLeadsNext
  <2> QED
    BY <2>1, <1>1, <1>2
<1>4. Len(q) \in Nat /\ \A m \in 1 .. Len(q) : ~Of(q[m], i, f)
  BY <1>1
<1>5. b1 = b /\ b \in AnyKnote
  BY <1>3, <1>4, Untouched, Zenon
<1> QED
  BY <1>2, <1>5

\* Undone lists stay so behind which nothing is added ...
LEMMA StaysUndone ==
  ASSUME NEW q \in Seq(Change), NEW p \in Seq(Change), NEW i, NEW f, Undone(q, i, f),
         \A m \in 1 .. Len(p) : ~(Of(p[m], i, f) /\ p[m].flag = "add")
  PROVE  Undone(q \o p, i, f)
<1>1. Len(q) \in Nat /\ Len(p) \in Nat
  BY LenProperties
<1>2. PICK w : w = q \o p
  OBVIOUS
<1>3. /\ Len(w) = Len(q) + Len(p)
      /\ \A m \in 1 .. Len(q) + Len(p) : w[m] = IF m <= Len(q) THEN q[m] ELSE p[m - Len(q)]
  BY <1>2, ConcatProperties
<1>4. ASSUME NEW j \in 1 .. Len(w), Of(w[j], i, f), w[j].flag = "add"
      PROVE  \E n \in j + 1 .. Len(w) : Of(w[n], i, f) /\ w[n].flag = "delete"
  <2>1. j <= Len(q)
    <3> SUFFICES ASSUME ~(j <= Len(q)) PROVE FALSE
      OBVIOUS
    <3>1. j - Len(q) \in 1 .. Len(p) /\ w[j] = p[j - Len(q)]
      BY <1>1, <1>3
    <3> QED
      BY <1>4, <3>1
  <2>2. j \in 1 .. Len(q) /\ w[j] = q[j]
    BY <1>1, <1>3, <2>1
  <2>3. PICK n \in j + 1 .. Len(q) : Of(q[n], i, f) /\ q[n].flag = "delete"
    BY <1>4, <2>2 DEF Undone
  <2>4. n \in 1 .. Len(q) /\ n \in j + 1 .. Len(w)
    BY <1>1, <1>3, <2>2
  <2>5. w[n] = q[n]
    BY <1>1, <1>3, <2>4
  <2> QED
    BY <2>3, <2>4, <2>5
<1> QED
  BY <1>2, <1>4 DEF Undone

\* ... and all become so behind which there is a deletion.
LEMMA BecomesUndone ==
  ASSUME NEW q \in Seq(Change), NEW p \in Seq(Change), NEW i, NEW f,
         \A m \in 1 .. Len(p) : ~(Of(p[m], i, f) /\ p[m].flag = "add"),
         NEW d \in 1 .. Len(p), Of(p[d], i, f), p[d].flag = "delete"
  PROVE  Undone(q \o p, i, f)
<1>1. Len(q) \in Nat /\ Len(p) \in Nat
  BY LenProperties
<1>2. PICK w : w = q \o p
  OBVIOUS
<1>3. /\ Len(w) = Len(q) + Len(p)
      /\ \A m \in 1 .. Len(q) + Len(p) : w[m] = IF m <= Len(q) THEN q[m] ELSE p[m - Len(q)]
  BY <1>2, ConcatProperties
<1>4. ASSUME NEW j \in 1 .. Len(w), Of(w[j], i, f), w[j].flag = "add"
      PROVE  \E n \in j + 1 .. Len(w) : Of(w[n], i, f) /\ w[n].flag = "delete"
  <2>1. j <= Len(q)
    <3> SUFFICES ASSUME ~(j <= Len(q)) PROVE FALSE
      OBVIOUS
    <3>1. j - Len(q) \in 1 .. Len(p) /\ w[j] = p[j - Len(q)]
      BY <1>1, <1>3
    <3> QED
      BY <1>4, <3>1
  <2>2. Len(q) + d \in j + 1 .. Len(w) /\ ~(Len(q) + d <= Len(q)) /\ (Len(q) + d) - Len(q) = d
    BY <1>1, <1>3, <2>1
  <2>3. w[Len(q) + d] = p[d]
    BY <1>1, <1>3, <2>1, <2>2
  <2> QED
    BY <2>2, <2>3
<1> QED
  BY <1>2, <1>4 DEF Undone
-----------------------------------------------------------------------------
(* Types. *)

\* What the send loop can come to.
LEMMA Outcomes ==
  ASSUME NEW d \in Nat, NEW room \in Nat, NEW broken \in BOOLEAN, NEW resets \in BOOLEAN,
         NEW o \in SendOutcomes(d, room, broken, resets)
  PROVE  /\ o.n \in 0 .. d /\ o.more \in BOOLEAN /\ o.failed \in BOOLEAN
         /\ o.more => ~broken /\ ~o.failed
         /\ ~o.failed /\ o.n < d => o.more /\ (o.n >= 1 \/ room = 0)
         /\ d > 0 /\ broken => o.failed
<1>1. WriteSpin \in Nat /\ WriteSpin >= 1
  BY SpinAssumption
<1>2. CASE d = 0
  <2>1. o = [n |-> 0, more |-> FALSE, failed |-> FALSE]
    BY <1>2 DEF SendOutcomes
  <2>2. o.n = 0 /\ o.more \in BOOLEAN /\ o.failed \in BOOLEAN /\ ~o.more /\ ~o.failed
    BY <2>1
  <2>3. o.n \in 0 .. d
    BY <2>2
  <2> QED
    BY <1>2, <2>2, <2>3
<1>3. CASE d # 0 /\ broken
  <2>1. o = [n |-> 0, more |-> FALSE, failed |-> TRUE]
    BY <1>3 DEF SendOutcomes
  <2>2. o.n = 0 /\ o.more \in BOOLEAN /\ o.failed \in BOOLEAN /\ ~o.more /\ o.failed
    BY <2>1
  <2>3. o.n \in 0 .. d
    BY <2>2
  <2> QED
    BY <1>3, <2>2, <2>3
<1>4. CASE d # 0 /\ ~broken
  <2>1. /\ o \in [n : 0 .. d, more : BOOLEAN, failed : BOOLEAN]
        /\ o.failed => resets /\ o.n < d /\ ~o.more
        /\ ~o.failed /\ o.more => o.n >= WriteSpin \/ (o.n >= room /\ o.n < d)
        /\ ~o.failed /\ ~o.more => o.n = d
    BY <1>4 DEF SendOutcomes
  <2>2. o.n \in 0 .. d /\ o.more \in BOOLEAN /\ o.failed \in BOOLEAN
    BY <2>1
  <2>3. o.n >= WriteSpin => o.n >= 1
    BY <1>1, <2>2
  <2>4. o.n >= room => o.n >= 1 \/ room = 0
    BY <2>2
  <2> QED
    BY <1>4, <2>1, <2>2, <2>3, <2>4
<1> QED
  BY <1>2, <1>3, <1>4

\* An operation of a channel leaves a channel and lists changes.
LEMMA BecomeType ==
  ASSUME TypeOK, NEW i \in Idents, NEW r \in Channel, NEW new \in Seq(Change), Become(i, r, new)
  PROVE  chan' \in [Idents -> Channel] /\ changes' \in Seq(Change)
<1>1. chan \in [Idents -> Channel] /\ changes \in Seq(Change)
  BY DEF TypeOK
<1> QED
  BY <1>1, ConcatProperties DEF Become, Listed

LEMMA StoredType == ASSUME NEW r \in Channel PROVE Stored(r) \in Channel
BY DEF Stored, Channel

LEMMA ShutType ==
  ASSUME NEW r \in Channel
  PROVE  InputShut(r) \in Channel /\ OutputShut(r) \in Channel
BY DEF InputShut, OutputShut, Channel

LEMMA ChangesType ==
  ASSUME NEW i \in Idents, NEW r
  PROVE  /\ WatchChanges(i, r) \in Seq(Change) /\ AddChanges(i, r) \in Seq(Change)
         /\ RemoveChanges(i, r) \in Seq(Change)
BY ChangesFacts DEF WatchChanges, AddChanges, RemoveChanges, Flags

LEMMA ShutdownHalfType ==
  ASSUME TypeOK, NEW i \in Idents, NEW r \in Channel, ShutdownHalf(i, r)
  PROVE  chan' \in [Idents -> Channel] /\ changes' \in Seq(Change)
<1>1. [r EXCEPT !.life = "left"] \in Channel
  BY DEF Channel
<1>2. CASE r.inClosed /\ r.outClosed
  BY <1>1, <1>2, StoredType, ChangesType, BecomeType DEF ShutdownHalf
<1>3. CASE ~(r.inClosed /\ r.outClosed)
  BY <1>3, StoredType, ChangesType, BecomeType DEF ShutdownHalf
<1> QED
  BY <1>2, <1>3

LEMMA ActivatedType ==
  ASSUME TypeOK, NEW i \in Idents, NEW F PROVE Activated(i, F) \in [Idents -> [Filters -> Knote]]
<1>1. knote \in [Idents -> [Filters -> Knote]]
  BY DEF TypeOK
<1>2. ASSUME NEW f \in Filters
      PROVE  [knote[i][f] EXCEPT !.active = @ \/ (f \in F /\ knote[i][f].here)] \in Knote
  <2>1. PICK k \in Knote : k = knote[i][f]
    BY <1>1
  <2>2. PICK b \in BOOLEAN : b = (k.active \/ (f \in F /\ k.here))
    OBVIOUS
  <2>3. [k EXCEPT !.active = b] \in Knote
    BY DEF Knote
  <2> QED
    BY <2>1, <2>2, <2>3
<1> DEFINE v == [f \in Filters |-> [knote[i][f] EXCEPT !.active = @ \/ (f \in F /\ knote[i][f].here)]]
<1>3. v \in [Filters -> Knote]
  BY <1>2
<1>4. Activated(i, F) = [knote EXCEPT ![i] = v]
  BY Zenon DEF Activated
<1> HIDE DEF v
<1> QED
  BY <1>1, <1>3, <1>4

\* What begin_write leaves, by the outcome of the send loop.
Sent(r, o) ==
  [r EXCEPT !.out = Unsent(r, o.n), !.failed = @ \/ o.failed,
            !.wants = IF o.failed THEN @
                      ELSE IF o.more THEN @ \cup {"write"} ELSE @ \ {"write"}]
Flushed(r, n) == [r EXCEPT !.out = @ + n, !.flushed = @ + n]
IsBroken(i) == chan[i].outClosed \/ sock[i].reset # "no"

LEMMA SentType ==
  ASSUME NEW r \in Channel, NEW o, o.n \in 0 .. r.out, o.failed \in BOOLEAN
  PROVE  Sent(r, o) \in Channel
<1>1. r.out - o.n \in Nat
  BY DEF Channel
<1>2. /\ r.wants \cup {"write"} \in SUBSET Filters /\ r.wants \ {"write"} \in SUBSET Filters
  BY DEF Channel, Filters
<1>3. (r.failed \/ o.failed) \in BOOLEAN
  OBVIOUS
<1> QED
  BY <1>1, <1>2, <1>3 DEF Sent, Unsent, Channel

\* BeginWrite, by what it does to the channel, its socket and its filters.
LEMMA BeginWriteFacts ==
  ASSUME TypeOK, NEW i \in Idents, NEW n \in Nat, BeginWrite(i, n)
  PROVE  \E o \in SendOutcomes(chan[i].out + n, sock[i].room, IsBroken(i), Resets) :
           LET s == Sent(Flushed(chan[i], n), o)
               lost == o.failed /\ ~chan[i].outClosed
           IN /\ IF o.failed THEN Become(i, s, <<>>) ELSE Become(i, Stored(s), WatchChanges(i, s))
              /\ sock' = [sock EXCEPT ![i].room = IF o.n <= @ THEN @ - o.n ELSE 0,
                                      ![i].reset = IF lost THEN "reported" ELSE @]
              /\ knote' = IF lost THEN Activated(i, Filters) ELSE knote
<1>1. chan[i] \in Channel
  BY DEF TypeOK
<1>2. /\ Flushed(chan[i], n).out = chan[i].out + n
      /\ Flushed(chan[i], n).outClosed = chan[i].outClosed
  BY <1>1 DEF Flushed, Channel
<1> QED
  BY <1>2 DEF BeginWrite, Sent, Flushed, IsBroken

LEMMA BeginWriteType ==
  ASSUME TypeOK, NEW i \in Idents, NEW n \in Nat, BeginWrite(i, n)
  PROVE  /\ chan' \in [Idents -> Channel] /\ changes' \in Seq(Change)
         /\ sock' \in [Idents -> Socket] /\ knote' \in [Idents -> [Filters -> Knote]]
<1>1. /\ chan \in [Idents -> Channel] /\ sock \in [Idents -> Socket]
      /\ knote \in [Idents -> [Filters -> Knote]]
  BY DEF TypeOK
<1>2. chan[i] \in Channel /\ chan[i].out \in Nat /\ sock[i] \in Socket /\ sock[i].room \in Nat
  BY <1>1 DEF Channel, Socket
<1>3. Flushed(chan[i], n) \in Channel /\ Flushed(chan[i], n).out = chan[i].out + n
  <2>1. PICK r \in Channel : r = chan[i]
    BY <1>2
  <2>2. r.out + n \in Nat /\ r.flushed + n \in Nat
    BY DEF Channel
  <2>3. Flushed(r, n) \in Channel /\ Flushed(r, n).out = r.out + n
    BY <2>2 DEF Flushed, Channel
  <2> QED
    BY <2>1, <2>3
<1>4. PICK o \in SendOutcomes(chan[i].out + n, sock[i].room, IsBroken(i), Resets) :
           LET s == Sent(Flushed(chan[i], n), o)
               lost == o.failed /\ ~chan[i].outClosed
           IN /\ IF o.failed THEN Become(i, s, <<>>) ELSE Become(i, Stored(s), WatchChanges(i, s))
              /\ sock' = [sock EXCEPT ![i].room = IF o.n <= @ THEN @ - o.n ELSE 0,
                                      ![i].reset = IF lost THEN "reported" ELSE @]
              /\ knote' = IF lost THEN Activated(i, Filters) ELSE knote
  BY BeginWriteFacts
<1> DEFINE s == Sent(Flushed(chan[i], n), o)
<1>5. IsBroken(i) \in BOOLEAN /\ Resets \in BOOLEAN /\ chan[i].out + n \in Nat
  BY <1>2, KqueueAssumption DEF IsBroken, Channel
<1>6. o.n \in 0 .. (chan[i].out + n) /\ o.failed \in BOOLEAN
  BY <1>2, <1>5, Outcomes
<1>7. s \in Channel
  BY <1>3, <1>6, SentType
<1>8. <<>> \in Seq(Change) /\ Stored(s) \in Channel /\ WatchChanges(i, s) \in Seq(Change)
  BY <1>7, StoredType, ChangesType
<1>9. chan' \in [Idents -> Channel] /\ changes' \in Seq(Change)
  <2> HIDE DEF s
  <2>1. CASE o.failed
    <3>1. Become(i, s, <<>>)
      BY <1>4, <2>1 DEF s
    <3> QED
      BY <1>7, <1>8, <3>1, BecomeType
  <2>2. CASE ~o.failed
    <3>1. Become(i, Stored(s), WatchChanges(i, s))
      BY <1>4, <2>2 DEF s
    <3> QED
      BY <1>8, <3>1, BecomeType
  <2> QED
    BY <2>1, <2>2
<1> HIDE DEF s
<1>10. sock' \in [Idents -> Socket]
  <2>1. (IF o.n <= sock[i].room THEN sock[i].room - o.n ELSE 0) \in Nat
    BY <1>2, <1>5, <1>6
  <2>2. sock' = [sock EXCEPT ![i].room = IF o.n <= @ THEN @ - o.n ELSE 0,
                             ![i].reset = IF o.failed /\ ~chan[i].outClosed THEN "reported" ELSE @]
    BY <1>4
  <2>3. PICK a, b : /\ a = IF o.n <= sock[i].room THEN sock[i].room - o.n ELSE 0
                    /\ b = IF o.failed /\ ~chan[i].outClosed THEN "reported" ELSE sock[i].reset
    OBVIOUS
  <2>4. a \in Nat /\ b \in {"no", "pending", "reported"}
    BY <1>2, <2>1, <2>3 DEF Socket
  <2>5. sock' = [sock EXCEPT ![i] = [sock[i] EXCEPT !.room = a, !.reset = b]]
    BY <1>1, <2>2, <2>3
  <2>6. [sock[i] EXCEPT !.room = a, !.reset = b] \in Socket
    BY <1>2, <2>4 DEF Socket
  <2> QED
    BY <1>1, <2>5, <2>6
<1>11. knote' \in [Idents -> [Filters -> Knote]]
  BY <1>1, <1>4, ActivatedType
<1> QED
  BY <1>9, <1>10, <1>11

\* What the list makes of the kernel's filters, when it is reported or cleared.
LEMMA FilterTypes ==
  ASSUME TypeOK
  PROVE  /\ Reported(Applied) \in [Idents -> [Filters -> Knote]]
         /\ ~Errors(Applied) => Cleared(Applied) \in [Idents -> [Filters -> Knote]]
<1>1. \A k \in AnyKnote : [k EXCEPT !.error = FALSE] \in Knote
  BY DEF AnyKnote, Knote
<1>2. \A k \in AnyKnote : ~k.error => [k EXCEPT !.active = @ /\ ~k.on] \in Knote
  BY DEF AnyKnote, Knote
<1>3. \A i \in Idents, f \in Filters : Applied[i][f] \in AnyKnote
  BY AppliedType
<1>4. PICK a : a = Applied
  OBVIOUS
<1>5. \A i \in Idents, f \in Filters : a[i][f] \in AnyKnote
  BY <1>3, <1>4
<1>6. Reported(a) \in [Idents -> [Filters -> Knote]]
  BY <1>1, <1>5 DEF Reported
<1>7. ~Errors(a) => Cleared(a) \in [Idents -> [Filters -> Knote]]
  BY <1>2, <1>5 DEF Errors, Cleared
<1> QED
  BY <1>4, <1>6, <1>7

LEMMA InitType == Init => TypeOK
<1> SUFFICES ASSUME Init PROVE TypeOK
  OBVIOUS
<1>1. NoKnote \in Knote
  BY DEF NoKnote, Knote
<1>2. NewChannel("closed", 0, 0) \in Channel
  BY DEF NewChannel, Channel
<1>3. NewSocket \in Socket
  BY KqueueAssumption DEF NewSocket, Socket
<1>4. <<>> \in Seq(Change)
  OBVIOUS
<1> QED
  BY <1>1, <1>2, <1>3, <1>4 DEF Init, TypeOK

\* The loop's steps.
LEMMA LoopType ==
  ASSUME TypeOK, LoopStep \/ KeventInterrupted PROVE TypeOK'
<1>1. /\ pc \in {"kevent", "dispatch", "read", "run", "stopped"} /\ active \in BOOLEAN
      /\ changes \in Seq(Change) /\ batch \subseteq Idents \X Filters
      /\ signals \subseteq UserEvents /\ cur \subseteq Idents /\ user \subseteq UserEvents
      /\ knote \in [Idents -> [Filters -> Knote]]
      /\ chan \in [Idents -> Channel] /\ sock \in [Idents -> Socket]
  BY DEF TypeOK
<1>2. <<>> \in Seq(Change)
  OBVIOUS
<1>3. ASSUME NEW i \in Idents, NEW cut \in BOOLEAN
      PROVE  [chan EXCEPT ![i].cut = cut] \in [Idents -> Channel]
  <2>1. [chan[i] EXCEPT !.cut = cut] \in Channel
    BY <1>1 DEF Channel
  <2> QED
    BY <1>1, <2>1
<1>4. \A i \in Idents : (sock[i].fin \/ sock[i].reset # "no") \in BOOLEAN
  OBVIOUS
<1>5. ASSUME Kevent PROVE TypeOK'
  <2>1. Pending(Applied) \subseteq Idents \X Filters
    BY DEF Pending
  <2>2. knote' \in [Idents -> [Filters -> Knote]]
    BY <1>5, FilterTypes DEF Kevent
  <2>3. batch' \subseteq Idents \X Filters /\ signals' \subseteq UserEvents /\ user' \subseteq UserEvents
    BY <1>1, <1>5, <2>1 DEF Kevent
  <2> QED
    BY <1>1, <1>2, <1>5, <2>2, <2>3 DEF Kevent, TypeOK
<1>6. ASSUME KeventInterrupted PROVE TypeOK'
  <2>1. knote' \in [Idents -> [Filters -> Knote]]
    BY <1>6, FilterTypes DEF KeventInterrupted
  <2> QED
    BY <1>1, <1>2, <1>6, <2>1 DEF KeventInterrupted, loopVars, TypeOK
<1>7. ASSUME SeeWakeUp PROVE TypeOK'
  BY <1>1, <1>7 DEF SeeWakeUp, AfterWakeUp, TypeOK
<1>8. ASSUME SeeShutdown PROVE TypeOK'
  BY <1>1, <1>8 DEF SeeShutdown, TypeOK
<1>9. ASSUME SwapTasks PROVE TypeOK'
  <2>1. \A i \in Idents : [chan[i] EXCEPT !.life = "leaving"] \in Channel
    BY <1>1 DEF Channel
  <2>2. chan' \in [Idents -> Channel]
    BY <1>1, <1>9, <2>1 DEF SwapTasks
  <2> QED
    BY <1>1, <1>9, <2>2 DEF SwapTasks, TypeOK
<1>10. ASSUME EndRun PROVE TypeOK'
  BY <1>1, <1>10 DEF EndRun, TypeOK
<1>11. ASSUME NEW i \in Idents, NEW f \in Filters, SkipEvent(i, f) PROVE TypeOK'
  BY <1>1, <1>11 DEF SkipEvent, TypeOK
<1>12. ASSUME NEW i \in Idents, TriggerWrite(i) PROVE TypeOK'
  <2>1. /\ chan' \in [Idents -> Channel] /\ changes' \in Seq(Change)
        /\ sock' \in [Idents -> Socket] /\ knote' \in [Idents -> [Filters -> Knote]]
    BY <1>12, BeginWriteType DEF TriggerWrite
  <2> QED
    BY <1>1, <1>12, <2>1 DEF TriggerWrite, TypeOK
<1>13. ASSUME NEW i \in Idents, TriggerRead(i) PROVE TypeOK'
  BY <1>1, <1>13 DEF TriggerRead, TypeOK
<1>14. ASSUME NEW i \in Idents, ReadData(i) PROVE TypeOK'
  <2>1. sock[i].input - 1 \in Nat
    BY <1>1, <1>14 DEF ReadData, Socket
  <2>2. [sock[i] EXCEPT !.input = @ - 1] \in Socket
    BY <1>1, <2>1 DEF Socket
  <2>3. sock' \in [Idents -> Socket]
    BY <1>1, <1>14, <2>2 DEF ReadData
  <2>4. pc' \in {"kevent", "dispatch", "read", "run", "stopped"} /\ cur' \subseteq Idents
    BY <1>1, <1>14 DEF ReadData, ReturnFromRead
  <2>5. chan' \in [Idents -> Channel]
    BY <1>1, <1>3, <1>14 DEF ReadData, ReturnFromRead
  <2> QED
    BY <1>1, <1>14, <2>3, <2>4, <2>5 DEF ReadData, TypeOK
<1>15. ASSUME NEW i \in Idents, ReadError(i) PROVE TypeOK'
  <2>1. [sock[i] EXCEPT !.reset = "reported"] \in Socket
    BY <1>1 DEF Socket
  <2>2. sock' \in [Idents -> Socket]
    BY <1>1, <1>15, <2>1 DEF ReadError
  <2>3. chan' \in [Idents -> Channel]
    BY <1>3, <1>15 DEF ReadError, ReturnFromRead
  <2> QED
    BY <1>1, <1>15, <2>2, <2>3 DEF ReadError, ReturnFromRead, TypeOK
<1>16. ASSUME NEW i \in Idents, ReadComplete(i) PROVE TypeOK'
  <2>1. pc' \in {"kevent", "dispatch", "read", "run", "stopped"} /\ cur' \subseteq Idents
    BY <1>16 DEF ReadComplete, ReturnFromRead
  <2>2. chan' \in [Idents -> Channel]
    BY <1>3, <1>4, <1>16 DEF ReadComplete, ReturnFromRead
  <2> QED
    BY <1>1, <1>16, <2>1, <2>2 DEF ReadComplete, TypeOK
<1>17. ASSUME NEW i \in Idents, EndOfInput(i) PROVE TypeOK'
  <2>1. [chan[i] EXCEPT !.cut = FALSE] \in Channel
    BY <1>1 DEF Channel
  <2>2. InputShut([chan[i] EXCEPT !.cut = FALSE]) \in Channel
    BY <2>1, ShutType
  <2>3. chan' \in [Idents -> Channel] /\ changes' \in Seq(Change)
    BY <1>1, <1>17, <2>2, ShutdownHalfType DEF EndOfInput
  <2> QED
    BY <1>1, <1>17, <2>3 DEF EndOfInput, TypeOK
<1>18. ASSUME NEW i \in Idents, RunInactive(i) PROVE TypeOK'
  <2>1. [chan[i] EXCEPT !.life = "free"] \in Channel
    BY <1>1 DEF Channel
  <2>2. chan' \in [Idents -> Channel]
    BY <1>1, <1>18, <2>1 DEF RunInactive
  <2> QED
    BY <1>1, <1>18, <2>2 DEF RunInactive, loopVars, TypeOK
<1> QED
  BY <1>5, <1>6, <1>7, <1>8, <1>9, <1>10, <1>11, <1>12, <1>13, <1>14, <1>15, <1>16, <1>17, <1>18
  DEF LoopStep

\* What handlers do.
LEMMA HandlerType ==
  ASSUME TypeOK, HandlerStep PROVE TypeOK'
<1>1. /\ pc \in {"kevent", "dispatch", "read", "run", "stopped"} /\ active \in BOOLEAN
      /\ changes \in Seq(Change) /\ batch \subseteq Idents \X Filters
      /\ signals \subseteq UserEvents /\ cur \subseteq Idents /\ user \subseteq UserEvents
      /\ knote \in [Idents -> [Filters -> Knote]]
      /\ chan \in [Idents -> Channel] /\ sock \in [Idents -> Socket]
  BY DEF TypeOK
<1>2. ASSUME NEW i \in Idents, Register(i) PROVE TypeOK'
  <2> DEFINE r == [chan[i] EXCEPT !.life = "member", !.wants = Filters]
  <2>1. r \in Channel
    BY <1>1 DEF Channel
  <2>2. Become(i, Stored(r), AddChanges(i, r))
    BY <1>2 DEF Register
  <2> HIDE DEF r
  <2>3. chan' \in [Idents -> Channel] /\ changes' \in Seq(Change)
    BY <2>1, <2>2, StoredType, ChangesType, BecomeType
  <2> QED
    BY <1>1, <1>2, <2>3 DEF Register, loopVars, TypeOK
<1>3. ASSUME NEW i \in Idents, HandlerFlush(i) PROVE TypeOK'
  <2>1. PICK n \in 0 .. MaxBytes - chan[i].flushed : BeginWrite(i, n)
    BY <1>3 DEF HandlerFlush
  <2>2. n \in Nat
    BY <1>1, KqueueAssumption DEF Channel
  <2>3. /\ chan' \in [Idents -> Channel] /\ changes' \in Seq(Change)
        /\ sock' \in [Idents -> Socket] /\ knote' \in [Idents -> [Filters -> Knote]]
    BY <2>1, <2>2, BeginWriteType
  <2> QED
    BY <1>1, <1>3, <2>3 DEF HandlerFlush, loopVars, TypeOK
<1>4. ASSUME NEW i \in Idents, CloseOutput(i) PROVE TypeOK'
  <2>1. chan' \in [Idents -> Channel] /\ changes' \in Seq(Change)
    BY <1>1, <1>4, ShutType, ShutdownHalfType DEF CloseOutput
  <2> QED
    BY <1>1, <1>4, <2>1 DEF CloseOutput, loopVars, TypeOK
<1>5. ASSUME NEW i \in Idents, RunDisconnect(i) PROVE TypeOK'
  <2> DEFINE r == OutputShut(chan[i])
             s == InputShut(Stored(r))
             first == IF chan[i].outClosed THEN <<>> ELSE WatchChanges(i, r)
             last == RemoveChanges(i, s)
             t == Stored([s EXCEPT !.life = "left"])
  <2>1. r \in Channel /\ s \in Channel
    BY <1>1, ShutType, StoredType
  <2>2. t \in Channel
    <3>1. [s EXCEPT !.life = "left"] \in Channel
      BY <2>1 DEF Channel
    <3> QED
      BY <3>1, StoredType
  <2>3. first \o last \in Seq(Change)
    <3>1. first \in Seq(Change) /\ last \in Seq(Change)
      BY ChangesType
    <3> HIDE DEF first, last
    <3> QED
      BY <3>1, ConcatProperties
  <2>4. IF chan[i].inClosed THEN ShutdownHalf(i, r) ELSE Become(i, t, first \o last)
    BY <1>5 DEF RunDisconnect
  <2> HIDE DEF r, s, first, last, t
  <2>5. chan' \in [Idents -> Channel] /\ changes' \in Seq(Change)
    BY <2>1, <2>2, <2>3, <2>4, BecomeType, ShutdownHalfType
  <2> QED
    BY <1>1, <1>5, <2>5 DEF RunDisconnect, loopVars, TypeOK
<1> QED
  BY <1>2, <1>3, <1>4, <1>5 DEF HandlerStep

\* Other threads, descriptors and peers.
LEMMA OutsideType ==
  ASSUME TypeOK, OutsideStep PROVE TypeOK'
<1>1. /\ pc \in {"kevent", "dispatch", "read", "run", "stopped"} /\ active \in BOOLEAN
      /\ changes \in Seq(Change) /\ batch \subseteq Idents \X Filters
      /\ signals \subseteq UserEvents /\ cur \subseteq Idents /\ user \subseteq UserEvents
      /\ knote \in [Idents -> [Filters -> Knote]]
      /\ chan \in [Idents -> Channel] /\ sock \in [Idents -> Socket]
  BY DEF TypeOK
<1>2. ASSUME WakeUp \/ ShutdownLoop PROVE TypeOK'
  BY <1>1, <1>2 DEF WakeUp, ShutdownLoop, Trigger, UserEvents, loopVars, TypeOK
<1>3. ASSUME NEW i \in Idents, OpenDescriptor(i) PROVE TypeOK'
  <2>1. chan[i].flushed \in Nat /\ chan[i].opens + 1 \in Nat
    BY <1>1 DEF Channel
  <2>2. NewChannel("made", chan[i].flushed, chan[i].opens + 1) \in Channel
    BY <2>1 DEF NewChannel, Channel
  <2>3. chan' \in [Idents -> Channel]
    BY <1>1, <1>3, <2>2 DEF OpenDescriptor
  <2> QED
    BY <1>1, <1>3, <2>3 DEF OpenDescriptor, loopVars, TypeOK
<1>4. ASSUME NEW i \in Idents, CloseDescriptor(i) PROVE TypeOK'
  <2>1. chan[i].flushed \in Nat /\ chan[i].opens \in Nat /\ sock[i].arrived \in Nat
    BY <1>1 DEF Channel, Socket
  <2>2. NewChannel("closed", chan[i].flushed, chan[i].opens) \in Channel
    BY <2>1 DEF NewChannel, Channel
  <2>3. [NewSocket EXCEPT !.arrived = sock[i].arrived] \in Socket
    BY <2>1, KqueueAssumption DEF NewSocket, Socket
  <2>4. NoKnote \in Knote
    BY DEF NoKnote, Knote
  <2>5. chan' \in [Idents -> Channel]
    BY <1>1, <1>4, <2>2 DEF CloseDescriptor
  <2>6. sock' \in [Idents -> Socket]
    BY <1>1, <1>4, <2>3 DEF CloseDescriptor
  <2>7. knote' \in [Idents -> [Filters -> Knote]]
    BY <1>1, <1>4, <2>4 DEF CloseDescriptor
  <2> QED
    BY <1>1, <1>4, <2>5, <2>6, <2>7 DEF CloseDescriptor, loopVars, TypeOK
<1>5. ASSUME NEW i \in Idents, PeerSends(i) \/ PeerCloses(i) \/ PeerResets(i) \/ PeerReads(i)
      PROVE  TypeOK'
  <2>1. \A F : Activated(i, F) \in [Idents -> [Filters -> Knote]]
    BY ActivatedType
  <2>2. knote' \in [Idents -> [Filters -> Knote]]
    BY <1>5, <2>1 DEF PeerSends, PeerCloses, PeerResets, PeerReads
  <2>3. /\ [sock[i] EXCEPT !.input = @ + 1, !.arrived = @ + 1] \in Socket
        /\ [sock[i] EXCEPT !.fin = TRUE] \in Socket
        /\ [sock[i] EXCEPT !.reset = "pending"] \in Socket
        /\ [sock[i] EXCEPT !.room = @ + 1] \in Socket
    <3>1. PICK s \in Socket : s = sock[i]
      BY <1>1
    <3>2. s.input + 1 \in Nat /\ s.arrived + 1 \in Nat /\ s.room + 1 \in Nat
      BY DEF Socket
    <3>3. [s EXCEPT !.input = @ + 1, !.arrived = @ + 1] \in Socket
      BY <3>2 DEF Socket
    <3>4. [s EXCEPT !.fin = TRUE] \in Socket /\ [s EXCEPT !.reset = "pending"] \in Socket
      BY DEF Socket
    <3>5. [s EXCEPT !.room = @ + 1] \in Socket
      BY <3>2 DEF Socket
    <3> QED
      BY <3>1, <3>3, <3>4, <3>5
  <2>4. sock' \in [Idents -> Socket]
    BY <1>1, <1>5, <2>3 DEF PeerSends, PeerCloses, PeerResets, PeerReads
  <2>5. UNCHANGED <<pc, batch, signals, cur, active, changes, user, chan>>
    BY <1>5 DEF PeerSends, PeerCloses, PeerResets, PeerReads, loopVars
  <2> QED
    BY <1>1, <2>2, <2>4, <2>5 DEF TypeOK
<1> QED
  BY <1>2, <1>3, <1>4, <1>5 DEF OutsideStep

LEMMA TypeStep ==
  ASSUME TypeOK, [Next]_vars PROVE TypeOK'
<1>1. CASE UNCHANGED vars
  BY <1>1 DEF vars, loopVars, TypeOK
<1> QED
  BY <1>1, LoopType, HandlerType, OutsideType DEF Next
-----------------------------------------------------------------------------
(* The inductive invariant. *)

\* The loop's place: what it has of the batch and of begin_read.
PlaceInv ==
  /\ pc = "kevent" => active
  /\ pc \in {"kevent", "run", "stopped"} => batch = {}
  /\ cur # {} => pc = "read"
  /\ \A i, j \in cur : i = j
  /\ \A i \in cur : chan[i].life \in {"member", "left"}

\* A channel, from the construction to the close: what it wants has been put on the list,
\* a closed half wants nothing, and it leaves when both are closed.
LifeOK(i) ==
  LET r == chan[i] IN
  /\ r.enabled = r.wants
  /\ r.inClosed => "read" \notin r.wants
  /\ r.outClosed => "write" \notin r.wants
  /\ r.life \in {"closed", "made"} => r.wants = {} /\ ~r.inClosed /\ ~r.outClosed /\ r.out = 0
  /\ r.life = "member" => ~(r.inClosed /\ r.outClosed)
  /\ r.life \in {"left", "leaving", "free"} => r.inClosed /\ r.outClosed
  /\ r.life = "closed" => \A f \in Filters : ~knote[i][f].here
  /\ sock[i].room <= Room

\* KernelAgrees; and the list of one that the worker does not have would leave nothing
\* behind on another's descriptor either.
ListOK(i, f) ==
  IF chan[i].life = "member"
  THEN Applied[i][f].here /\ (Applied[i][f].on <=> f \in chan[i].wants)
  ELSE ~Applied[i][f].here /\ Undone(changes, i, f)

\* Input, or its end, that was not read up has an event to come or in the batch, or is
\* being read, ...
ReadOK(i) ==
  Ready(i, "read") /\ ~chan[i].inClosed /\ ~chan[i].cut =>
    Applied[i]["read"].active \/ <<i, "read">> \in batch \/ i \in cur

\* ... and so have bytes that were not sent, unless the peer has yet to read.
WriteOK(i) ==
  chan[i].out > 0 /\ ~chan[i].failed /\ ~chan[i].outClosed =>
    /\ "write" \in chan[i].wants
    /\ Applied[i]["write"].active \/ <<i, "write">> \in batch \/ sock[i].room < Room

EventOK(i) == active /\ chan[i].life = "member" => ReadOK(i) /\ WriteOK(i)

OK(i) == LifeOK(i) /\ (\A f \in Filters : ListOK(i, f)) /\ EventOK(i)

KqInv == TypeOK /\ PlaceInv /\ \A i \in Idents : OK(i)

-----------------------------------------------------------------------------
(* What leaves a descriptor alone. *)

\* The list stays right for a filter that is to be there and on as before.
LEMMA ListKept ==
  ASSUME KqInv, TypeOK', NEW i \in Idents, NEW f \in Filters, NEW p \in Seq(Change),
         changes' = changes \o p, \A m \in 1 .. Len(p) : ~Of(p[m], i, f),
         Like(knote'[i][f], knote[i][f]), Shut(i)' = Shut(i),
         chan'[i].life = "member" <=> chan[i].life = "member",
         f \in chan'[i].wants <=> f \in chan[i].wants
  PROVE  ListOK(i, f)'
<1>1. TypeOK /\ ListOK(i, f) /\ changes \in Seq(Change)
  BY DEF KqInv, OK, TypeOK
<1>2. Like(Applied'[i][f], Applied[i][f])
  BY <1>1, BehindNothing
<1>3. PICK q : q = changes
  OBVIOUS
<1>4. \A m \in 1 .. Len(p) : ~(Of(p[m], i, f) /\ p[m].flag = "add")
  OBVIOUS
<1>5. Undone(q, i, f) => Undone(q \o p, i, f)
  BY <1>1, <1>3, <1>4, StaysUndone
<1>6. Undone(changes, i, f) => Undone(changes', i, f)
  BY <1>3, <1>5
<1>7. CASE chan[i].life = "member"
  BY <1>1, <1>2, <1>7 DEF ListOK, Like
<1>8. CASE chan[i].life # "member"
  BY <1>1, <1>2, <1>6, <1>8 DEF ListOK, Like
<1> QED
  BY <1>7, <1>8

\* Ready depends on the descriptor's own socket and channel.
LEMMA ReadySame ==
  ASSUME NEW i \in Idents, chan'[i] = chan[i], sock'[i] = sock[i]
  PROVE  /\ Shut(i)' = Shut(i)
         /\ \A f \in Filters : Ready(i, f)' = Ready(i, f)
BY DEF Shut, Ready

\* A step that is about other descriptors.
LEMMA Elsewhere ==
  ASSUME KqInv, TypeOK', NEW j \in Idents, NEW p \in Seq(Change), changes' = changes \o p,
         \A m \in 1 .. Len(p) : p[m].ident # j,
         chan'[j] = chan[j], sock'[j] = sock[j], knote'[j] = knote[j],
         active' => /\ active
                    /\ \A f \in Filters : <<j, f>> \in batch => <<j, f>> \in batch'
                    /\ j \in cur => j \in cur'
  PROVE  OK(j)'
<1>1. TypeOK /\ LifeOK(j) /\ EventOK(j)
  BY DEF KqInv, OK
<1>2. \A f \in Filters, m \in 1 .. Len(p) : ~Of(p[m], j, f)
  BY DEF Of
<1>3. Shut(j)' = Shut(j) /\ \A f \in Filters : Ready(j, f)' = Ready(j, f)
  BY ReadySame
<1>4. \A f \in Filters : Like(knote'[j][f], knote[j][f])
  BY DEF Like
<1>5. \A f \in Filters : ListOK(j, f)'
  BY <1>2, <1>3, <1>4, ListKept
<1>6. ASSUME NEW f \in Filters PROVE Applied'[j][f].active = Applied[j][f].active
  <2>1. \A m \in 1 .. Len(p) : ~Of(p[m], j, f)
    BY <1>2
  <2>2. Ready(j, f)' = Ready(j, f) /\ knote'[j][f].active = knote[j][f].active
    BY <1>3
  <2> QED
    BY <1>1, <1>3, <1>4, <2>1, <2>2, BehindNothing
<1>7. LifeOK(j)'
  BY <1>1 DEF LifeOK
<1>8. EventOK(j)'
  <2> SUFFICES ASSUME active', chan'[j].life = "member" PROVE ReadOK(j)' /\ WriteOK(j)'
    BY DEF EventOK
  <2>1. ReadOK(j) /\ WriteOK(j)
    BY <1>1 DEF EventOK
  <2>2. /\ Ready(j, "read")' = Ready(j, "read")
        /\ Applied'[j]["read"].active = Applied[j]["read"].active
        /\ Applied'[j]["write"].active = Applied[j]["write"].active
        /\ <<j, "read">> \in batch => <<j, "read">> \in batch'
        /\ <<j, "write">> \in batch => <<j, "write">> \in batch'
    BY <1>3, <1>6 DEF Filters
  <2>3. ReadOK(j)'
    BY <2>1, <2>2 DEF ReadOK
  <2>4. WriteOK(j)'
    BY <2>1, <2>2 DEF WriteOK
  <2> QED
    BY <2>3, <2>4
<1> QED
  BY <1>5, <1>7, <1>8 DEF OK

\* A step that lists nothing, and is not about j.
LEMMA Idle ==
  ASSUME KqInv, TypeOK', NEW j \in Idents, changes' = changes,
         chan'[j] = chan[j], sock'[j] = sock[j], knote'[j] = knote[j],
         active' => /\ active
                    /\ \A f \in Filters : <<j, f>> \in batch => <<j, f>> \in batch'
                    /\ j \in cur => j \in cur'
  PROVE  OK(j)'
<1>1. PICK p : p = <<>>
  OBVIOUS
<1>2. p \in Seq(Change) /\ \A m \in 1 .. Len(p) : p[m].ident # j
  BY <1>1
<1>3. changes' = changes \o p
  BY <1>1, ConcatEmptySeq DEF KqInv, TypeOK
<1> QED
  BY <1>2, <1>3, Elsewhere

\* ListKept, when nothing is listed.
LEMMA ListIdle ==
  ASSUME KqInv, TypeOK', NEW i \in Idents, NEW f \in Filters, changes' = changes,
         Like(knote'[i][f], knote[i][f]), Shut(i)' = Shut(i),
         chan'[i].life = "member" <=> chan[i].life = "member",
         f \in chan'[i].wants <=> f \in chan[i].wants
  PROVE  /\ ListOK(i, f)'
         /\ Ready(i, f)' = Ready(i, f) /\ knote'[i][f].active = knote[i][f].active =>
              Applied'[i][f].active = Applied[i][f].active
<1>1. PICK p : p = <<>>
  OBVIOUS
<1>2. p \in Seq(Change) /\ \A m \in 1 .. Len(p) : ~Of(p[m], i, f)
  BY <1>1
<1>3. changes' = changes \o p
  BY <1>1, ConcatEmptySeq DEF KqInv, TypeOK
<1>4. TypeOK
  BY DEF KqInv
<1>5. ListOK(i, f)'
  BY <1>2, <1>3, ListKept
<1>6. Ready(i, f)' = Ready(i, f) /\ knote'[i][f].active = knote[i][f].active =>
        Applied'[i][f].active = Applied[i][f].active
  BY <1>2, <1>3, <1>4, BehindNothing
<1> QED
  BY <1>5, <1>6
-----------------------------------------------------------------------------
(* kevent. *)

\* What kevent leaves of the filters: there and on, as the list made them.
LEMMA FiltersLeft ==
  ASSUME KqInv, Kevent \/ KeventInterrupted, NEW i \in Idents, NEW f \in Filters
  PROVE  /\ Like(knote'[i][f], Applied[i][f])
         /\ \/ knote'[i][f].active = Applied[i][f].active
            \/ /\ Applied[i][f].active => knote'[i][f].active \/ Applied[i][f].on
               /\ Applied[i][f].on /\ Applied[i][f].active /\ Ready(i, f) => <<i, f>> \in batch'
<1>1. PICK a : a = Applied
  OBVIOUS
<1>2. a[i][f] \in AnyKnote
  BY <1>1, AppliedType DEF KqInv
<1>3. ASSUME knote' = Reported(a)
      PROVE  Like(knote'[i][f], a[i][f]) /\ knote'[i][f].active = a[i][f].active
  <2>1. knote'[i][f] = [a[i][f] EXCEPT !.error = FALSE]
    BY <1>3 DEF Reported
  <2> QED
    BY <1>2, <2>1 DEF Like, AnyKnote
<1>4. ASSUME knote' = Cleared(a), batch' = Pending(a)
      PROVE  /\ Like(knote'[i][f], a[i][f])
             /\ a[i][f].active => knote'[i][f].active \/ a[i][f].on
             /\ a[i][f].on /\ a[i][f].active /\ Ready(i, f) => <<i, f>> \in batch'
  <2>1. knote'[i][f] = [a[i][f] EXCEPT !.active = @ /\ ~a[i][f].on]
    BY <1>4 DEF Cleared
  <2>2. PICK k \in AnyKnote : k = a[i][f]
    BY <1>2
  <2>3. PICK l : l = knote'[i][f]
    OBVIOUS
  <2>4. l = [k EXCEPT !.active = @ /\ ~k.on]
    BY <2>1, <2>2, <2>3
  <2>5. l.here = k.here /\ l.on = k.on /\ (k.active => l.active \/ k.on)
    BY <2>4 DEF AnyKnote
  <2>6. k.on /\ k.active /\ Ready(i, f) => <<i, f>> \in batch'
    BY <1>4, <2>2 DEF Pending
  <2> QED
    BY <2>2, <2>3, <2>5, <2>6 DEF Like
<1>5. knote' = Reported(a) \/ (knote' = Cleared(a) /\ batch' = Pending(a))
  BY <1>1 DEF Kevent, KeventInterrupted
<1> QED
  BY <1>1, <1>3, <1>4, <1>5

LEMMA KeventStep ==
  ASSUME KqInv, TypeOK', Kevent \/ KeventInterrupted PROVE KqInv'
<1>1. /\ pc = "kevent" /\ active /\ batch = {} /\ cur = {}
      /\ changes' = <<>> /\ chan' = chan /\ sock' = sock /\ cur' = {} /\ active' = active
  BY DEF KqInv, PlaceInv, Kevent, KeventInterrupted, loopVars
<1>2. pc' = "dispatch" \/ (pc' = "kevent" /\ batch' = {})
  BY <1>1 DEF Kevent, KeventInterrupted, loopVars
<1>3. PlaceInv'
  BY <1>1, <1>2 DEF PlaceInv
<1>4. ASSUME NEW i \in Idents PROVE OK(i)'
  <2>2. LifeOK(i) /\ (\A f \in Filters : ListOK(i, f)) /\ EventOK(i)
    BY DEF KqInv, OK
  <2>3. \A f \in Filters : Applied'[i][f] = knote'[i][f]
    BY <1>1, NothingListed
  <2>4. \A f \in Filters : Like(Applied'[i][f], Applied[i][f])
    BY <2>3, FiltersLeft
  <2>5. \A f \in Filters : Undone(changes', i, f)
    <3>1. Len(<<>>) = 0
      OBVIOUS
    <3> QED
      BY <1>1, <3>1 DEF Undone
  <2>6. \A f \in Filters : ListOK(i, f)'
    BY <1>1, <2>2, <2>4, <2>5 DEF ListOK, Like
  <2>7. LifeOK(i)'
    <3>1. chan[i].life = "closed" => \A f \in Filters : ~knote'[i][f].here
      BY <2>2, <2>3, <2>4 DEF ListOK, Like
    <3> QED
      BY <1>1, <2>2, <3>1 DEF LifeOK
  <2>8. EventOK(i)'
    <3> SUFFICES ASSUME chan[i].life = "member" PROVE ReadOK(i)' /\ WriteOK(i)'
      BY <1>1 DEF EventOK
    <3>1. ReadOK(i) /\ WriteOK(i)
      BY <1>1, <2>2 DEF EventOK
    <3>2. \A f \in Filters : Ready(i, f)' = Ready(i, f)
      BY <1>1 DEF Ready
    <3>3. \A f \in Filters :
            Applied[i][f].active => knote'[i][f].active \/ <<i, f>> \in batch' \/ ~Ready(i, f)
      BY FiltersLeft
    <3>4. ReadOK(i)'
      BY <1>1, <2>3, <3>1, <3>2, <3>3 DEF ReadOK, Filters
    <3>5. ~Ready(i, "write") => sock[i].room < Room
      <4>1. sock[i].room \in Nat /\ Room \in Nat \ {0}
        BY KqueueAssumption DEF KqInv, TypeOK, Socket
      <4> QED
        BY <4>1 DEF Ready
    <3>6. WriteOK(i)'
      BY <1>1, <2>3, <3>1, <3>3, <3>5 DEF WriteOK, Filters
    <3> QED
      BY <3>4, <3>6
  <2> QED
    BY <2>6, <2>7, <2>8 DEF OK
<1> QED
  BY <1>3, <1>4 DEF KqInv

-----------------------------------------------------------------------------
(* The peers. *)

\* What happens activates the filters that are there, and changes nothing else of them.
LEMMA ActivatedFacts ==
  ASSUME TypeOK, NEW i \in Idents, NEW F \in SUBSET Filters, knote' = Activated(i, F)
  PROVE  /\ \A j \in Idents : j # i => knote'[j] = knote[j]
         /\ \A f \in Filters : Like(knote'[i][f], knote[i][f])
         /\ \A f \in F : knote'[i][f].here => knote'[i][f].active
         /\ \A f \in Filters \ F : knote'[i][f].active = knote[i][f].active
<1>1. knote \in [Idents -> [Filters -> Knote]]
  BY DEF TypeOK
<1>2. \A j \in Idents : j # i => knote'[j] = knote[j]
  BY <1>1 DEF Activated
<1>3. ASSUME NEW f \in Filters
      PROVE  /\ Like(knote'[i][f], knote[i][f])
             /\ f \in F => (knote'[i][f].here => knote'[i][f].active)
             /\ f \notin F => knote'[i][f].active = knote[i][f].active
  <2>1. knote'[i] = [e \in Filters |-> [knote[i][e] EXCEPT !.active = @ \/ (e \in F /\ knote[i][e].here)]]
    BY <1>1 DEF Activated
  <2>2. knote'[i][f] = [knote[i][f] EXCEPT !.active = @ \/ (f \in F /\ knote[i][f].here)]
    BY <2>1
  <2>3. PICK k \in Knote : k = knote[i][f]
    BY <1>1
  <2>4. PICK l : l = knote'[i][f]
    OBVIOUS
  <2>5. PICK b \in BOOLEAN : b = (k.active \/ (f \in F /\ k.here))
    OBVIOUS
  <2>6. l = [k EXCEPT !.active = b]
    BY <2>2, <2>3, <2>4, <2>5
  <2>7. l.here = k.here /\ l.on = k.on /\ l.active = b /\ k.active \in BOOLEAN
    BY <2>6 DEF Knote
  <2>8. f \in F => (l.here => l.active)
    BY <2>5, <2>7
  <2>9. f \notin F => l.active = k.active
    BY <2>5, <2>7
  <2> QED
    BY <2>3, <2>4, <2>7, <2>8, <2>9 DEF Like
<1> QED
  BY <1>2, <1>3

\* What peers do to a socket: whatever becomes ready by it is activated.
LEMMA PeerStep ==
  ASSUME KqInv, TypeOK', NEW i \in Idents, NEW F \in SUBSET Filters,
         knote' = Activated(i, F), chan' = chan, changes' = changes, UNCHANGED loopVars,
         \A j \in Idents : j # i => sock'[j] = sock[j],
         sock'[i].room <= Room,
         "read" \in F \/ Ready(i, "read")' = Ready(i, "read"),
         \/ "write" \in F /\ Ready(i, "write")'
         \/ Ready(i, "write")' = Ready(i, "write") /\ sock'[i].room = sock[i].room
  PROVE  KqInv'
<1>1. TypeOK
  BY DEF KqInv
<1>2. /\ pc' = pc /\ batch' = batch /\ cur' = cur /\ active' = active
  BY DEF loopVars
<1>3. /\ \A j \in Idents : j # i => knote'[j] = knote[j]
      /\ \A f \in Filters : Like(knote'[i][f], knote[i][f])
      /\ \A f \in F : knote'[i][f].here => knote'[i][f].active
      /\ \A f \in Filters \ F : knote'[i][f].active = knote[i][f].active
  BY <1>1, ActivatedFacts
<1>4. PlaceInv'
  BY <1>2 DEF KqInv, PlaceInv
<1>5. ASSUME NEW j \in Idents, j # i PROVE OK(j)'
  BY <1>2, <1>3, <1>5, Idle
<1>6. OK(i)'
  <2>1. LifeOK(i) /\ EventOK(i) /\ \A f \in Filters : ListOK(i, f)
    BY DEF KqInv, OK
  <2>2. Shut(i)' = Shut(i)
    BY DEF Shut
  <2>3. \A f \in Filters :
          /\ ListOK(i, f)'
          /\ Ready(i, f)' = Ready(i, f) /\ knote'[i][f].active = knote[i][f].active =>
               Applied'[i][f].active = Applied[i][f].active
    BY <1>3, <2>2, ListIdle
  <2>4. LifeOK(i)'
    BY <1>3, <2>1 DEF LifeOK, Like
  <2>5. ASSUME chan[i].life = "member", NEW f \in Filters, Ready(i, f)', f \in F
        PROVE  Applied'[i][f].active
    <3>1. Applied'[i][f].here
      BY <2>3, <2>5 DEF ListOK
    <3> QED
      BY <1>3, <2>5, <3>1, WillBeActive
  <2>6. EventOK(i)'
    <3> SUFFICES ASSUME active, chan[i].life = "member" PROVE ReadOK(i)' /\ WriteOK(i)'
      BY <1>2 DEF EventOK
    <3>1. ReadOK(i) /\ WriteOK(i)
      BY <2>1 DEF EventOK
    <3>2. "read" \in Filters /\ "write" \in Filters
      BY DEF Filters
    <3>3. ReadOK(i)'
      <4>1. CASE "read" \in F
        BY <2>5, <3>2, <4>1 DEF ReadOK
      <4>2. CASE "read" \notin F
        <5>1. Ready(i, "read")' = Ready(i, "read") /\ Applied'[i]["read"].active = Applied[i]["read"].active
          BY <1>3, <2>3, <3>2, <4>2
        <5> QED
          BY <1>2, <3>1, <5>1 DEF ReadOK
      <4> QED
        BY <4>1, <4>2
    <3>4. WriteOK(i)'
      <4>1. CASE "write" \in F /\ Ready(i, "write")'
        <5>1. Applied'[i]["write"].active
          BY <2>5, <3>2, <4>1
        <5> QED
          BY <1>2, <3>1, <5>1 DEF WriteOK
      <4>2. CASE "write" \notin F
        <5>1. Applied'[i]["write"].active = Applied[i]["write"].active
          BY <1>3, <2>3, <3>2, <4>2
        <5> QED
          BY <1>2, <3>1, <4>2, <5>1 DEF WriteOK
      <4>3. CASE "write" \in F /\ ~Ready(i, "write")'
        <5>1. sock'[i].room < Room
          <6>1. sock'[i].room \in Nat /\ Room \in Nat \ {0}
            BY KqueueAssumption DEF TypeOK, Socket
          <6> QED
            BY <4>3, <6>1 DEF Ready
        <5> QED
          BY <1>2, <3>1, <5>1 DEF WriteOK
      <4> QED
        BY <4>1, <4>2, <4>3
    <3> QED
      BY <3>3, <3>4
  <2> QED
    BY <2>3, <2>4, <2>6 DEF OK
<1> QED
  BY <1>4, <1>5, <1>6 DEF KqInv

LEMMA PeersStep ==
  ASSUME KqInv, TypeOK', NEW i \in Idents,
         PeerSends(i) \/ PeerCloses(i) \/ PeerResets(i) \/ PeerReads(i)
  PROVE  KqInv'
<1>1. sock \in [Idents -> Socket] /\ sock[i].room \in Nat /\ Room \in Nat /\ sock[i].room <= Room
  BY KqueueAssumption DEF KqInv, OK, LifeOK, TypeOK, Socket
<1>2. /\ chan' = chan /\ changes' = changes /\ UNCHANGED loopVars
      /\ \A j \in Idents : j # i => sock'[j] = sock[j]
  BY <1>1 DEF PeerSends, PeerCloses, PeerResets, PeerReads
<1>3. {"read"} \in SUBSET Filters /\ {"write"} \in SUBSET Filters /\ Filters \in SUBSET Filters
  BY DEF Filters
<1>4. CASE PeerSends(i) \/ PeerCloses(i)
  <2>1. knote' = Activated(i, {"read"})
    BY <1>4 DEF PeerSends, PeerCloses
  <2>2. sock'[i].room = sock[i].room /\ sock'[i].reset = sock[i].reset
    BY <1>1, <1>4 DEF PeerSends, PeerCloses, Socket
  <2>3. Ready(i, "write")' = Ready(i, "write")
    BY <1>2, <2>2 DEF Ready
  <2> QED
    BY <1>1, <1>2, <1>3, <2>1, <2>2, <2>3, PeerStep
<1>5. CASE PeerResets(i)
  <2>1. knote' = Activated(i, Filters)
    BY <1>5 DEF PeerResets
  <2>2. sock'[i].room = sock[i].room /\ sock'[i].reset = "pending"
    BY <1>1, <1>5 DEF PeerResets, Socket
  <2>3. Ready(i, "write")'
    BY <2>2 DEF Ready
  <2>4. "read" \in Filters /\ "write" \in Filters
    BY DEF Filters
  <2> QED
    BY <1>1, <1>2, <1>3, <2>1, <2>2, <2>3, <2>4, PeerStep
<1>6. CASE PeerReads(i)
  <2>1. knote' = Activated(i, {"write"}) /\ sock[i].room < Room
    BY <1>6 DEF PeerReads
  <2>2. sock'[i] = [sock[i] EXCEPT !.room = @ + 1]
    BY <1>1, <1>6 DEF PeerReads
  <2>3. sock'[i].room = sock[i].room + 1 /\ sock'[i].reset = sock[i].reset
        /\ sock'[i].input = sock[i].input /\ sock'[i].fin = sock[i].fin
    BY <1>1, <2>2 DEF Socket
  <2>4. sock'[i].room <= Room /\ sock'[i].room > 0
    BY <1>1, <2>1, <2>3
  <2>5. Ready(i, "write")'
    BY <2>4 DEF Ready
  <2>6. Ready(i, "read")' = Ready(i, "read")
    BY <2>3 DEF Ready
  <2> QED
    BY <1>2, <1>3, <2>1, <2>4, <2>5, <2>6, PeerStep
<1> QED
  BY <1>4, <1>5, <1>6
-----------------------------------------------------------------------------
(* Channels. *)

\* A step about descriptor i and its part of the list.
LEMMA Around ==
  ASSUME KqInv, TypeOK', NEW i \in Idents, NEW p \in Seq(Change), changes' = changes \o p,
         \A m \in 1 .. Len(p) : p[m].ident = i, active' = active,
         \A j \in Idents : j # i =>
           /\ chan'[j] = chan[j] /\ sock'[j] = sock[j] /\ knote'[j] = knote[j]
           /\ \A f \in Filters : <<j, f>> \in batch => <<j, f>> \in batch'
           /\ j \in cur => j \in cur',
         PlaceInv', OK(i)'
  PROVE  KqInv'
<1>1. ASSUME NEW j \in Idents, j # i PROVE OK(j)'
  <2>1. \A m \in 1 .. Len(p) : p[m].ident # j
    BY <1>1
  <2> QED
    BY <1>1, <2>1, Elsewhere
<1> QED
  BY <1>1 DEF KqInv

\* The same, when nothing is listed.
LEMMA AroundIdle ==
  ASSUME KqInv, TypeOK', NEW i \in Idents, changes' = changes, active' = active,
         \A j \in Idents : j # i =>
           /\ chan'[j] = chan[j] /\ sock'[j] = sock[j] /\ knote'[j] = knote[j]
           /\ \A f \in Filters : <<j, f>> \in batch => <<j, f>> \in batch'
           /\ j \in cur => j \in cur',
         PlaceInv', OK(i)'
  PROVE  KqInv'
<1>1. PICK p : p = <<>>
  OBVIOUS
<1>2. p \in Seq(Change) /\ \A m \in 1 .. Len(p) : p[m].ident = i
  BY <1>1
<1>3. changes' = changes \o p
  BY <1>1, ConcatEmptySeq DEF KqInv, TypeOK
<1> QED
  BY <1>2, <1>3, Around

\* The loop goes on where it was, or leaves begin_read.
LEMMA PlaceKept ==
  ASSUME PlaceInv, batch' \subseteq batch, cur' \subseteq cur, active' = active,
         pc' = pc \/ (pc' = "dispatch" /\ cur' = {}),
         \A j \in cur' : chan'[j].life \in {"member", "left"}
  PROVE  PlaceInv'
BY DEF PlaceInv

\* The ends of a path are filters.
LEMMA LeadsType ==
  ASSUME NEW k, NEW q, Len(q) \in Nat, NEW i, NEW f, NEW shut, NEW r, NEW k1,
         Leads(k, q, i, f, shut, r, k1)
  PROVE  k \in AnyKnote /\ k1 \in AnyKnote
BY DEF Leads, Path

\* What is watched changes: the filters are on as wanted, and none that was to be
\* active is lost.
LEMMA WatchedList ==
  ASSUME KqInv, TypeOK', NEW i \in Idents, NEW f \in Filters, NEW r,
         changes' = changes \o WatchChanges(i, r),
         Like(knote'[i][f], knote[i][f]), Shut(i)' = Shut(i),
         chan'[i].life = "member" <=> chan[i].life = "member",
         r.enabled = chan[i].wants, r.wants = chan'[i].wants
  PROVE  /\ ListOK(i, f)'
         /\ chan[i].life = "member" /\ Ready(i, f)' = Ready(i, f) /\ Applied[i][f].active
            /\ knote'[i][f].active = knote[i][f].active => Applied'[i][f].active
<1>1. TypeOK /\ ListOK(i, f) /\ changes \in Seq(Change)
  BY DEF KqInv, OK, TypeOK
<1>2. "enable" \in Flags /\ "disable" \in Flags
  BY DEF Flags
<1>3. PICK k \in AnyKnote :
        /\ Like(k, Applied[i][f])
        /\ Ready(i, f)' = Ready(i, f) /\ knote'[i][f].active = knote[i][f].active =>
             k.active = Applied[i][f].active
        /\ Applied'[i][f] = Wished(k, f, r, "enable", "disable", Shut(i), Ready(i, f)')
  BY <1>1, <1>2, BehindChanges DEF WatchChanges
<1>4. PICK b, s : b = Applied'[i][f] /\ s = Ready(i, f)'
  OBVIOUS
<1>5. b = Wished(k, f, r, "enable", "disable", Shut(i), s)
  BY <1>3, <1>4
<1>6. CASE chan[i].life = "member"
  <2>1. ~Shut(i)
    BY <1>6 DEF Shut
  <2>2. k.here /\ (k.on <=> f \in r.enabled)
    BY <1>1, <1>3, <1>6 DEF ListOK, Like
  <2>3. b.here /\ (b.on <=> f \in r.wants) /\ (k.active => b.active)
    <3>1. CASE (f \in r.wants) # (f \in r.enabled)
      BY <1>5, <2>1, <2>2, <3>1 DEF Wished, After
    <3>2. CASE (f \in r.wants) = (f \in r.enabled)
      BY <1>5, <2>1, <2>2, <3>2 DEF Wished, After
    <3> QED
      BY <3>1, <3>2
  <2> QED
    BY <1>3, <1>4, <1>6, <2>3 DEF ListOK
<1>7. CASE chan[i].life # "member"
  <2>1. ~k.here
    BY <1>1, <1>3, <1>7 DEF ListOK, Like
  <2>2. ~b.here
    BY <1>5, <2>1 DEF Wished, After, AnyKnote
  <2>3. PICK p : p = WatchChanges(i, r)
    OBVIOUS
  <2>4. p \in Seq(Change) /\ \A m \in 1 .. Len(p) : p[m].flag \in {"enable", "disable"}
    BY <1>2, <2>3, ChangesFacts DEF WatchChanges
  <2>5. \A m \in 1 .. Len(p) : ~(Of(p[m], i, f) /\ p[m].flag = "add")
    BY <2>4
  <2>6. Undone(changes, i, f)
    BY <1>1, <1>7 DEF ListOK
  <2>7. Undone(changes \o p, i, f)
    BY <1>1, <2>4, <2>5, <2>6, StaysUndone
  <2>8. Undone(changes', i, f)
    BY <2>3, <2>7
  <2> QED
    BY <1>4, <1>7, <2>2, <2>8 DEF ListOK
<1> QED
  BY <1>6, <1>7

\* remove_channel puts the deletion of both filters on the list.
LEMMA RemoveHas ==
  ASSUME NEW i \in Idents, NEW f \in Filters, NEW s, f \notin s.wants
  PROVE  \E d \in 1 .. Len(RemoveChanges(i, s)) :
           Of(RemoveChanges(i, s)[d], i, f) /\ RemoveChanges(i, s)[d].flag = "delete"
<1> DEFINE C(e) == [ident |-> i, filter |-> e, flag |-> IF e \in s.wants THEN "none" ELSE "delete"]
<1>1. \A e : Asked(i, e, s, "none", "delete") = <<C(e)>>
  BY DEF Asked
<1>2. RemoveChanges(i, s) = <<C("read")>> \o <<C("write")>>
  <2>1. /\ Asked(i, "read", s, "none", "delete") = <<C("read")>>
        /\ Asked(i, "write", s, "none", "delete") = <<C("write")>>
    BY <1>1
  <2>2. RemoveChanges(i, s) = Asked(i, "read", s, "none", "delete") \o Asked(i, "write", s, "none", "delete")
    BY ChangesAsked DEF RemoveChanges
  <2> HIDE DEF C
  <2> QED
    BY <2>1, <2>2
<1>3. PICK a, b : a = C("read") /\ b = C("write")
  OBVIOUS
<1>4. PICK p : p = <<a>> \o <<b>>
  OBVIOUS
<1>5. Len(p) = 2 /\ p[1] = a /\ p[2] = b
  BY <1>4
<1>6. f = "read" => Of(p[1], i, f) /\ p[1].flag = "delete"
  BY <1>3, <1>5 DEF Of
<1>7. f = "write" => Of(p[2], i, f) /\ p[2].flag = "delete"
  BY <1>3, <1>5 DEF Of
<1>8. 1 \in 1 .. Len(p) /\ 2 \in 1 .. Len(p) /\ (f = "read" \/ f = "write")
  BY <1>5 DEF Filters
<1>9. \E d \in 1 .. Len(p) : Of(p[d], i, f) /\ p[d].flag = "delete"
  BY <1>6, <1>7, <1>8
<1>10. RemoveChanges(i, s) = p
  BY <1>2, <1>3, <1>4
<1> QED
  BY <1>9, <1>10

\* A channel that is removed while it wants nothing leaves nothing.
LEMMA RemovedList ==
  ASSUME TypeOK', NEW i \in Idents, NEW f \in Filters, NEW s, NEW q \in Seq(Change),
         changes' = q \o RemoveChanges(i, s), f \notin s.wants, ~Shut(i)',
         chan'[i].life # "member"
  PROVE  ListOK(i, f)'
<1>1. PICK p : p = RemoveChanges(i, s)
  OBVIOUS
<1>2. "none" \in Flags /\ "delete" \in Flags
  BY DEF Flags
<1>3. p \in Seq(Change) /\ \A m \in 1 .. Len(p) : p[m].flag \in {"none", "delete"}
  BY <1>1, <1>2, ChangesFacts DEF RemoveChanges
<1>4. PICK d \in 1 .. Len(p) : Of(p[d], i, f) /\ p[d].flag = "delete"
  BY <1>1, RemoveHas
<1>5. \A m \in 1 .. Len(p) : ~(Of(p[m], i, f) /\ p[m].flag = "add")
  BY <1>3
<1>6. Undone(q \o p, i, f)
  BY <1>3, <1>4, <1>5, BecomesUndone
<1>7. PICK a, b, shut, r : a = knote'[i][f] /\ b = Applied'[i][f] /\ shut = Shut(i)' /\ r = Ready(i, f)'
  OBVIOUS
<1>8. Leads(a, q \o p, i, f, shut, r, b)
  <2>1. Leads(knote'[i][f], changes', i, f, Shut(i)', Ready(i, f)', Applied'[i][f])
    BY AppliedLeadsNext
  <2> QED
    BY <2>1, <1>1, <1>7
<1>9. PICK k : Leads(a, q, i, f, shut, r, k) /\ Leads(k, p, i, f, shut, r, b)
  BY <1>3, <1>8, LeadsBehind
<1>10. Len(q) \in Nat
  BY LenProperties
<1>11. k \in AnyKnote
  BY <1>9, <1>10, LeadsType
<1>12. Leads(k, ChangesOf(i, s, "none", "delete"), i, f, shut, r, b)
  BY <1>1, <1>9 DEF RemoveChanges
<1>13. b = Wished(k, f, s, "none", "delete", shut, r)
  BY <1>2, <1>12, ChangesLead
<1>14. b = After(k, "delete", shut, r)
  BY <1>13 DEF Wished
<1>15. ~shut
  BY <1>7
<1>16. ~b.here
  BY <1>11, <1>14, <1>15 DEF After, AnyKnote, NoKnote
<1>17. Undone(changes', i, f)
  BY <1>1, <1>6
<1> QED
  BY <1>7, <1>16, <1>17 DEF ListOK
-----------------------------------------------------------------------------
(* begin_write. *)

\* What a flush of n bytes, and a send with outcome o, make of descriptor i.
Flushes(i, n, o) ==
  /\ chan'[i].life = chan[i].life /\ chan'[i].cut = chan[i].cut
  /\ chan'[i].inClosed = chan[i].inClosed /\ chan'[i].outClosed = chan[i].outClosed
  /\ chan'[i].out = (chan[i].out + n) - o.n
  /\ chan'[i].failed = (chan[i].failed \/ o.failed)
  /\ chan'[i].enabled = chan'[i].wants
  /\ IF o.failed THEN chan'[i].wants = chan[i].wants /\ changes' = changes
     ELSE /\ chan'[i].wants =
               IF o.more THEN chan[i].wants \cup {"write"} ELSE chan[i].wants \ {"write"}
          /\ \E r : /\ r.enabled = chan[i].wants /\ r.wants = chan'[i].wants
                    /\ changes' = changes \o WatchChanges(i, r)
  /\ sock'[i].input = sock[i].input /\ sock'[i].fin = sock[i].fin
  /\ sock'[i].room = IF o.n <= sock[i].room THEN sock[i].room - o.n ELSE 0
  /\ LET lost == o.failed /\ ~chan[i].outClosed IN
       /\ sock'[i].reset = IF lost THEN "reported" ELSE sock[i].reset
       /\ knote' = IF lost THEN Activated(i, Filters) ELSE knote
  /\ \A j \in Idents : j # i => chan'[j] = chan[j] /\ sock'[j] = sock[j]

LEMMA FlushFacts ==
  ASSUME KqInv, NEW i \in Idents, NEW n \in Nat, BeginWrite(i, n)
  PROVE  \E o \in SendOutcomes(chan[i].out + n, sock[i].room, IsBroken(i), Resets) :
           Flushes(i, n, o)
<1>1. TypeOK /\ chan \in [Idents -> Channel] /\ sock \in [Idents -> Socket] /\ changes \in Seq(Change)
  BY DEF KqInv, TypeOK
<1>2. PICK o \in SendOutcomes(chan[i].out + n, sock[i].room, IsBroken(i), Resets) :
           LET s == Sent(Flushed(chan[i], n), o)
               lost == o.failed /\ ~chan[i].outClosed
           IN /\ IF o.failed THEN Become(i, s, <<>>) ELSE Become(i, Stored(s), WatchChanges(i, s))
              /\ sock' = [sock EXCEPT ![i].room = IF o.n <= @ THEN @ - o.n ELSE 0,
                                      ![i].reset = IF lost THEN "reported" ELSE @]
              /\ knote' = IF lost THEN Activated(i, Filters) ELSE knote
  BY <1>1, BeginWriteFacts
<1>3. PICK c \in Channel : c = chan[i]
  BY <1>1
<1>4. PICK s : s = Sent(Flushed(chan[i], n), o)
  OBVIOUS
<1>5. /\ DOMAIN s = DOMAIN c
      /\ s.life = c.life /\ s.cut = c.cut /\ s.inClosed = c.inClosed /\ s.outClosed = c.outClosed
      /\ s.out = (c.out + n) - o.n /\ s.failed = (c.failed \/ o.failed) /\ s.enabled = c.enabled
      /\ s.wants = IF o.failed THEN c.wants
                   ELSE IF o.more THEN c.wants \cup {"write"} ELSE c.wants \ {"write"}
  <2>1. PICK u : u = Flushed(c, n)
    OBVIOUS
  <2>2. /\ u.life = c.life /\ u.cut = c.cut /\ u.inClosed = c.inClosed /\ u.outClosed = c.outClosed
        /\ u.out = c.out + n /\ u.failed = c.failed /\ u.enabled = c.enabled /\ u.wants = c.wants
        /\ DOMAIN u = {"life", "wants", "enabled", "inClosed", "outClosed", "out", "failed",
                       "cut", "flushed", "opens"}
        /\ DOMAIN u = DOMAIN c
    BY <2>1 DEF Flushed, Channel
  <2>3. s = Sent(u, o)
    BY <1>3, <1>4, <2>1
  <2>4. /\ s.life = u.life /\ s.cut = u.cut /\ s.inClosed = u.inClosed /\ s.outClosed = u.outClosed
        /\ s.out = u.out - o.n /\ s.failed = (u.failed \/ o.failed) /\ s.enabled = u.enabled
        /\ s.wants = IF o.failed THEN u.wants
                     ELSE IF o.more THEN u.wants \cup {"write"} ELSE u.wants \ {"write"}
        /\ DOMAIN s = DOMAIN u
    BY <2>2, <2>3 DEF Sent, Unsent
  <2> QED
    BY <2>2, <2>4
<1>6. PICK t : t = Stored(s)
  OBVIOUS
<1>7. /\ t.life = c.life /\ t.cut = c.cut /\ t.inClosed = c.inClosed /\ t.outClosed = c.outClosed
      /\ t.out = (c.out + n) - o.n /\ t.failed = (c.failed \/ o.failed)
      /\ t.wants = s.wants /\ t.enabled = s.wants
  BY <1>5, <1>6 DEF Stored, Channel
<1>8. c.enabled = c.wants
  BY <1>3 DEF KqInv, OK, LifeOK
<1>9. IF o.failed THEN chan' = [chan EXCEPT ![i] = s] /\ changes' = changes \o <<>>
      ELSE chan' = [chan EXCEPT ![i] = t] /\ changes' = changes \o WatchChanges(i, s)
  BY <1>2, <1>4, <1>6 DEF Become, Listed
<1>10. /\ chan'[i] = IF o.failed THEN s ELSE t
       /\ changes' = IF o.failed THEN changes ELSE changes \o WatchChanges(i, s)
       /\ \A j \in Idents : j # i => chan'[j] = chan[j]
  BY <1>1, <1>9, ConcatEmptySeq
<1>11. PICK e \in Socket : e = sock[i]
  BY <1>1
<1>12. PICK a, b : /\ a = IF o.n <= e.room THEN e.room - o.n ELSE 0
                   /\ b = IF o.failed /\ ~c.outClosed THEN "reported" ELSE e.reset
  OBVIOUS
<1>13. sock' = [sock EXCEPT ![i] = [e EXCEPT !.room = a, !.reset = b]]
  <2>1. sock' = [sock EXCEPT ![i].room = IF o.n <= @ THEN @ - o.n ELSE 0,
                             ![i].reset = IF o.failed /\ ~chan[i].outClosed THEN "reported" ELSE @]
    BY <1>2
  <2> QED
    BY <1>1, <1>3, <1>11, <1>12, <2>1
<1>14. PICK g : g = [e EXCEPT !.room = a, !.reset = b]
  OBVIOUS
<1>15. g.input = e.input /\ g.fin = e.fin /\ g.room = a /\ g.reset = b
  BY <1>14 DEF Socket
<1>16. sock'[i] = g /\ \A j \in Idents : j # i => sock'[j] = sock[j]
  BY <1>1, <1>13, <1>14
<1>17. knote' = IF o.failed /\ ~c.outClosed THEN Activated(i, Filters) ELSE knote
  BY <1>2, <1>3
<1>18. /\ chan'[i].life = c.life /\ chan'[i].cut = c.cut
       /\ chan'[i].inClosed = c.inClosed /\ chan'[i].outClosed = c.outClosed
       /\ chan'[i].out = (c.out + n) - o.n /\ chan'[i].failed = (c.failed \/ o.failed)
       /\ chan'[i].wants = s.wants /\ chan'[i].enabled = s.wants
  <2>1. CASE o.failed
    BY <1>5, <1>8, <1>10, <2>1
  <2>2. CASE ~o.failed
    BY <1>7, <1>10, <2>2
  <2> QED
    BY <2>1, <2>2
<1>19. /\ o.failed => chan'[i].wants = c.wants /\ changes' = changes
       /\ ~o.failed =>
            /\ chan'[i].wants = IF o.more THEN c.wants \cup {"write"} ELSE c.wants \ {"write"}
            /\ \E r : /\ r.enabled = c.wants /\ r.wants = chan'[i].wants
                      /\ changes' = changes \o WatchChanges(i, r)
  BY <1>5, <1>8, <1>10, <1>18
<1>20. Flushes(i, n, o)
  <2>1. /\ sock'[i].input = sock[i].input /\ sock'[i].fin = sock[i].fin
        /\ sock'[i].room = IF o.n <= sock[i].room THEN sock[i].room - o.n ELSE 0
        /\ sock'[i].reset = IF o.failed /\ ~chan[i].outClosed THEN "reported" ELSE sock[i].reset
    BY <1>3, <1>11, <1>12, <1>15, <1>16
  <2>2. \A j \in Idents : j # i => chan'[j] = chan[j] /\ sock'[j] = sock[j]
    BY <1>10, <1>16
  <2> QED
    BY <1>3, <1>17, <1>18, <1>19, <2>1, <2>2 DEF Flushes
<1> QED
  BY <1>20

LEMMA FlushStep ==
  ASSUME KqInv, TypeOK', NEW i \in Idents, NEW n \in Nat, BeginWrite(i, n),
         chan[i].life \in {"member", "left", "leaving", "free"},
         batch' \subseteq batch,
         \A j \in Idents, f \in Filters :
           <<j, f>> \in batch => <<j, f>> \in batch' \/ (j = i /\ f = "write"),
         pc' = pc, cur' = cur, active' = active
  PROVE  KqInv'
<1>1. TypeOK /\ LifeOK(i) /\ EventOK(i) /\ (\A f \in Filters : ListOK(i, f)) /\ PlaceInv
  BY DEF KqInv, OK
<1>2. PICK o \in SendOutcomes(chan[i].out + n, sock[i].room, IsBroken(i), Resets) : Flushes(i, n, o)
  BY FlushFacts
<1>3. /\ chan'[i].life = chan[i].life /\ chan'[i].cut = chan[i].cut
      /\ chan'[i].inClosed = chan[i].inClosed /\ chan'[i].outClosed = chan[i].outClosed
      /\ chan'[i].out = (chan[i].out + n) - o.n
      /\ chan'[i].failed = (chan[i].failed \/ o.failed)
      /\ chan'[i].enabled = chan'[i].wants
      /\ sock'[i].input = sock[i].input /\ sock'[i].fin = sock[i].fin
      /\ sock'[i].room = IF o.n <= sock[i].room THEN sock[i].room - o.n ELSE 0
      /\ sock'[i].reset = IF o.failed /\ ~chan[i].outClosed THEN "reported" ELSE sock[i].reset
      /\ knote' = IF o.failed /\ ~chan[i].outClosed THEN Activated(i, Filters) ELSE knote
      /\ \A j \in Idents : j # i => chan'[j] = chan[j] /\ sock'[j] = sock[j]
  BY <1>2 DEF Flushes
<1>4. /\ o.failed => chan'[i].wants = chan[i].wants /\ changes' = changes
      /\ ~o.failed =>
           /\ chan'[i].wants = IF o.more THEN chan[i].wants \cup {"write"} ELSE chan[i].wants \ {"write"}
           /\ \E r : /\ r.enabled = chan[i].wants /\ r.wants = chan'[i].wants
                     /\ changes' = changes \o WatchChanges(i, r)
  BY <1>2 DEF Flushes
<1>5. /\ chan[i].out \in Nat /\ sock[i].room \in Nat /\ Room \in Nat \ {0} /\ Resets \in BOOLEAN
      /\ chan[i].outClosed \in BOOLEAN
  BY <1>1, KqueueAssumption DEF TypeOK, Channel, Socket
<1>6. chan[i].out + n \in Nat /\ IsBroken(i) \in BOOLEAN
  BY <1>5 DEF IsBroken
<1>7. /\ o.n \in 0 .. (chan[i].out + n) /\ o.more \in BOOLEAN /\ o.failed \in BOOLEAN
      /\ o.more => ~IsBroken(i) /\ ~o.failed
      /\ ~o.failed /\ o.n < chan[i].out + n => o.more /\ (o.n >= 1 \/ sock[i].room = 0)
  BY <1>5, <1>6, Outcomes
<1>8. Shut(i)' = Shut(i)
  BY <1>3 DEF Shut
<1>9. /\ \A j \in Idents : j # i => knote'[j] = knote[j]
      /\ \A f \in Filters : Like(knote'[i][f], knote[i][f])
      /\ o.failed /\ ~chan[i].outClosed =>
           \A f \in Filters : knote'[i][f].here => knote'[i][f].active
      /\ ~(o.failed /\ ~chan[i].outClosed) => \A f \in Filters : knote'[i][f].active = knote[i][f].active
  <2>1. CASE o.failed /\ ~chan[i].outClosed
    <3>1. knote' = Activated(i, Filters) /\ Filters \in SUBSET Filters
      BY <1>3, <2>1
    <3> QED
      BY <1>1, <2>1, <3>1, ActivatedFacts
  <2>2. CASE ~(o.failed /\ ~chan[i].outClosed)
    BY <1>3, <2>2 DEF Like
  <2> QED
    BY <2>1, <2>2
<1>10. LifeOK(i)'
  <2>1. sock'[i].room <= Room
    BY <1>1, <1>3, <1>5, <1>7 DEF LifeOK
  <2>2. chan[i].outClosed => "write" \notin chan'[i].wants
    BY <1>1, <1>4, <1>7 DEF LifeOK, IsBroken
  <2>3. chan[i].inClosed => "read" \notin chan'[i].wants
    BY <1>1, <1>4, <1>7 DEF LifeOK
  <2> QED
    BY <1>1, <1>3, <2>1, <2>2, <2>3 DEF LifeOK
<1>11. ASSUME NEW f \in Filters
       PROVE  /\ ListOK(i, f)'
              /\ chan[i].life = "member" /\ Ready(i, f)' = Ready(i, f) /\ Applied[i][f].active
                 /\ knote'[i][f].active = knote[i][f].active => Applied'[i][f].active
  <2>1. Like(knote'[i][f], knote[i][f])
    BY <1>9
  <2>2. CASE o.failed
    BY <1>3, <1>4, <1>8, <2>1, <2>2, ListIdle
  <2>3. CASE ~o.failed
    <3>1. PICK r : /\ r.enabled = chan[i].wants /\ r.wants = chan'[i].wants
                   /\ changes' = changes \o WatchChanges(i, r)
      BY <1>4, <2>3
    <3> QED
      BY <1>3, <1>8, <2>1, <3>1, WatchedList
  <2> QED
    BY <1>7, <2>2, <2>3
<1>12. EventOK(i)'
  <2> SUFFICES ASSUME active, chan[i].life = "member" PROVE ReadOK(i)' /\ WriteOK(i)'
    BY <1>3 DEF EventOK
  <2>1. ReadOK(i) /\ WriteOK(i)
    BY <1>1 DEF EventOK
  <2>2. "read" \in Filters /\ "write" \in Filters
    BY DEF Filters
  <2>3. ReadOK(i)'
    <3>1. CASE o.failed /\ ~chan[i].outClosed
      <4>1. Ready(i, "read")'
        BY <1>3, <3>1 DEF Ready
      <4>2. Applied'[i]["read"].here
        BY <1>3, <1>11, <2>2 DEF ListOK
      <4>3. Applied'[i]["read"].active
        BY <1>9, <2>2, <3>1, <4>1, <4>2, WillBeActive
      <4> QED
        BY <4>3 DEF ReadOK
    <3>2. CASE ~(o.failed /\ ~chan[i].outClosed)
      <4>1. Ready(i, "read")' = Ready(i, "read")
        BY <1>3, <3>2 DEF Ready
      <4>2. Applied[i]["read"].active => Applied'[i]["read"].active
        BY <1>9, <1>11, <2>2, <3>2, <4>1
      <4>3. <<i, "read">> \in batch => <<i, "read">> \in batch'
        BY <2>2
      <4> QED
        BY <1>3, <2>1, <4>1, <4>2, <4>3 DEF ReadOK
    <3> QED
      BY <3>1, <3>2
  <2>4. WriteOK(i)'
    <3> SUFFICES ASSUME chan'[i].out > 0, ~o.failed
                 PROVE  "write" \in chan'[i].wants /\ sock'[i].room < Room
      BY <1>3 DEF WriteOK
    <3>1. o.more /\ (o.n >= 1 \/ sock[i].room = 0)
      BY <1>3, <1>5, <1>7
    <3>2. sock[i].room <= Room
      BY <1>1 DEF LifeOK
    <3>3. sock'[i].room < Room
      BY <1>3, <1>5, <1>7, <3>1, <3>2
    <3> QED
      BY <1>4, <3>1, <3>3
  <2> QED
    BY <2>3, <2>4
<1>13. OK(i)'
  BY <1>10, <1>11, <1>12 DEF OK
<1>14. PlaceInv'
  <2>1. \A j \in cur' : chan'[j].life \in {"member", "left"}
    BY <1>1, <1>3 DEF PlaceInv, TypeOK
  <2> QED
    BY <1>1, <2>1, PlaceKept
<1>15. \A j \in Idents : j # i =>
         /\ chan'[j] = chan[j] /\ sock'[j] = sock[j] /\ knote'[j] = knote[j]
         /\ \A f \in Filters : <<j, f>> \in batch => <<j, f>> \in batch'
         /\ j \in cur => j \in cur'
  BY <1>3, <1>9
<1>16. CASE o.failed
  BY <1>4, <1>13, <1>14, <1>15, <1>16, AroundIdle
<1>17. CASE ~o.failed
  <2>1. PICK r : changes' = changes \o WatchChanges(i, r)
    BY <1>4, <1>17
  <2>2. PICK p : p = WatchChanges(i, r)
    OBVIOUS
  <2>3. "enable" \in Flags /\ "disable" \in Flags
    BY DEF Flags
  <2>4. p \in Seq(Change) /\ \A m \in 1 .. Len(p) : p[m].ident = i
    BY <2>2, <2>3, ChangesFacts DEF WatchChanges
  <2> QED
    BY <1>13, <1>14, <1>15, <2>1, <2>2, <2>4, Around
<1> QED
  BY <1>7, <1>16, <1>17

-----------------------------------------------------------------------------
(* begin_read. *)

\* A step of begin_read, or into it: it goes on, or was cut short, or has read all.
LEMMA ReadStep ==
  ASSUME KqInv, TypeOK', NEW i \in Idents, changes' = changes, knote' = knote,
         active' = active,
         \A j \in Idents, f \in Filters :
           <<j, f>> \in batch => <<j, f>> \in batch' \/ (j = i /\ f = "read"),
         \A j \in Idents : j # i => chan'[j] = chan[j] /\ sock'[j] = sock[j] /\ (j \in cur => j \in cur'),
         \E c : chan'[i] = [chan[i] EXCEPT !.cut = c],
         sock'[i].room = sock[i].room, sock'[i].reset # "no" <=> sock[i].reset # "no",
         Ready(i, "read")' /\ ~chan'[i].inClosed /\ ~chan'[i].cut => i \in cur',
         PlaceInv'
  PROVE  KqInv'
<1>1. TypeOK /\ LifeOK(i) /\ EventOK(i) /\ (\A f \in Filters : ListOK(i, f)) /\ chan[i] \in Channel
  BY DEF KqInv, OK, TypeOK
<1>2. /\ chan'[i].life = chan[i].life /\ chan'[i].wants = chan[i].wants
      /\ chan'[i].enabled = chan[i].enabled
      /\ chan'[i].inClosed = chan[i].inClosed /\ chan'[i].outClosed = chan[i].outClosed
      /\ chan'[i].out = chan[i].out /\ chan'[i].failed = chan[i].failed
  BY <1>1 DEF Channel
<1>3. Shut(i)' = Shut(i) /\ Ready(i, "write")' = Ready(i, "write")
  BY <1>2 DEF Shut, Ready
<1>4. \A f \in Filters : Like(knote'[i][f], knote[i][f]) /\ knote'[i][f].active = knote[i][f].active
  BY DEF Like
<1>5. ASSUME NEW f \in Filters
      PROVE  /\ ListOK(i, f)'
             /\ Ready(i, f)' = Ready(i, f) => Applied'[i][f].active = Applied[i][f].active
  <2>1. /\ Like(knote'[i][f], knote[i][f]) /\ knote'[i][f].active = knote[i][f].active
        /\ chan'[i].life = "member" <=> chan[i].life = "member"
        /\ f \in chan'[i].wants <=> f \in chan[i].wants
    BY <1>2, <1>4
  <2> QED
    BY <1>3, <2>1, ListIdle
<1>6. LifeOK(i)'
  BY <1>1, <1>2 DEF LifeOK
<1>7. EventOK(i)'
  <2> SUFFICES ASSUME active, chan[i].life = "member" PROVE ReadOK(i)' /\ WriteOK(i)'
    BY <1>2 DEF EventOK
  <2>1. ReadOK(i)'
    BY DEF ReadOK
  <2>2. WriteOK(i) /\ "write" \in Filters
    BY <1>1 DEF EventOK, Filters
  <2>3. Applied'[i]["write"].active = Applied[i]["write"].active
    BY <1>3, <1>5, <2>2
  <2>4. <<i, "write">> \in batch => <<i, "write">> \in batch'
    BY <2>2
  <2>5. WriteOK(i)'
    BY <1>2, <2>2, <2>3, <2>4 DEF WriteOK
  <2> QED
    BY <2>1, <2>5
<1>8. OK(i)'
  BY <1>5, <1>6, <1>7 DEF OK
<1>9. \A j \in Idents : j # i =>
        /\ chan'[j] = chan[j] /\ sock'[j] = sock[j] /\ knote'[j] = knote[j]
        /\ \A f \in Filters : <<j, f>> \in batch => <<j, f>> \in batch'
        /\ j \in cur => j \in cur'
  OBVIOUS
<1> QED
  BY <1>8, <1>9, AroundIdle

\* The steps of begin_read that close nothing.
LEMMA ReadsStep ==
  ASSUME KqInv, TypeOK', NEW i \in Idents,
         \/ TriggerRead(i) \/ ReadData(i) \/ ReadError(i) \/ ReadComplete(i)
         \/ EndOfInput(i) /\ chan[i].inClosed
  PROVE  KqInv'
<1>1. /\ TypeOK /\ PlaceInv
      /\ chan \in [Idents -> Channel] /\ sock \in [Idents -> Socket] /\ cur \subseteq Idents
      /\ \A j \in Idents : chan[j] \in Channel /\ sock[j] \in Socket
  BY DEF KqInv, TypeOK
<1>2. \A j \in Idents : chan[j] = [chan[j] EXCEPT !.cut = chan[j].cut]
  BY <1>1 DEF Channel
<1>3. CASE TriggerRead(i)
  <2>1. /\ pc = "dispatch" /\ pc' = "read" /\ cur' = {i} /\ chan[i].life = "member"
        /\ batch' = batch \ {<<i, "read">>} /\ active' = active
        /\ changes' = changes /\ knote' = knote /\ chan' = chan /\ sock' = sock
    BY <1>3 DEF TriggerRead
  <2>2. cur = {}
    BY <1>1, <2>1 DEF PlaceInv
  <2>3. PlaceInv'
    BY <1>1, <2>1 DEF PlaceInv
  <2>4. \A j \in Idents, f \in Filters :
          <<j, f>> \in batch => <<j, f>> \in batch' \/ (j = i /\ f = "read")
    BY <2>1
  <2>5. \A j \in Idents : j # i => chan'[j] = chan[j] /\ sock'[j] = sock[j] /\ (j \in cur => j \in cur')
    BY <2>1, <2>2
  <2>6. \E c : chan'[i] = [chan[i] EXCEPT !.cut = c]
    BY <1>2, <2>1
  <2>7. i \in cur' /\ sock'[i].room = sock[i].room /\ (sock'[i].reset # "no" <=> sock[i].reset # "no")
    BY <2>1
  <2> QED
    BY <2>1, <2>3, <2>4, <2>5, <2>6, <2>7, ReadStep
<1>4. CASE ReadData(i) \/ ReadError(i) \/ ReadComplete(i) \/ (EndOfInput(i) /\ chan[i].inClosed)
  <2>1. /\ pc = "read" /\ i \in cur /\ batch' = batch /\ active' = active
        /\ changes' = changes /\ knote' = knote
    BY <1>4 DEF ReadData, ReadError, ReadComplete, EndOfInput
  <2>2. \A j \in cur : j = i
    BY <1>1, <2>1 DEF PlaceInv
  <2>3. \/ chan' = chan /\ pc' = pc /\ cur' = cur
        \/ chan' = chan /\ pc' = "dispatch" /\ cur' = {} /\ chan[i].inClosed
        \/ \E c : chan' = [chan EXCEPT ![i].cut = c] /\ pc' = "dispatch" /\ cur' = {}
    BY <1>4 DEF ReadData, ReadError, ReadComplete, EndOfInput, ReturnFromRead
  <2>4. \E c : chan'[i] = [chan[i] EXCEPT !.cut = c]
    BY <1>1, <1>2, <2>3
  <2>5. \A j \in Idents : j # i => chan'[j] = chan[j] /\ (j \in cur => j \in cur')
    BY <1>1, <2>2, <2>3
  <2>6. chan'[i].life = chan[i].life /\ chan'[i].inClosed = chan[i].inClosed
        /\ chan'[i].outClosed = chan[i].outClosed
    BY <1>1, <2>4 DEF Channel
  <2>7. PlaceInv'
    <3>1. \A j \in cur' : chan'[j].life \in {"member", "left"}
      BY <1>1, <2>2, <2>3, <2>6 DEF PlaceInv
    <3> QED
      BY <1>1, <2>1, <2>3, <3>1, PlaceKept
  <2>8. /\ sock'[i].room = sock[i].room /\ (sock'[i].reset # "no" <=> sock[i].reset # "no")
        /\ \A j \in Idents : j # i => sock'[j] = sock[j]
    <3>1. CASE ReadData(i)
      <4>1. sock' = [sock EXCEPT ![i].input = @ - 1]
        BY <3>1 DEF ReadData
      <4> QED
        BY <1>1, <4>1 DEF Socket
    <3>2. CASE ReadError(i)
      <4>1. sock' = [sock EXCEPT ![i].reset = "reported"] /\ sock[i].reset = "pending"
        BY <3>2 DEF ReadError
      <4> QED
        BY <1>1, <4>1 DEF Socket
    <3>3. CASE ReadComplete(i) \/ EndOfInput(i)
      BY <3>3 DEF ReadComplete, EndOfInput
    <3> QED
      BY <1>4, <3>1, <3>2, <3>3
  <2>9. Ready(i, "read")' /\ ~chan'[i].inClosed /\ ~chan'[i].cut => i \in cur'
    <3>1. CASE ReadData(i)
      <4>1. cur' = cur \/ chan' = [chan EXCEPT ![i].cut = TRUE]
        BY <3>1 DEF ReadData, ReturnFromRead, ReadsOn
      <4> QED
        BY <1>1, <2>1, <4>1 DEF Channel
    <3>2. CASE ReadError(i)
      <4>1. chan' = [chan EXCEPT ![i].cut = TRUE]
        BY <3>2 DEF ReadError, ReturnFromRead
      <4> QED
        BY <1>1, <4>1 DEF Channel
    <3>3. CASE ReadComplete(i)
      <4>1. PICK c : /\ chan' = [chan EXCEPT ![i].cut = c] /\ sock' = sock /\ sock[i].input = 0
                     /\ ~c => ~sock[i].fin /\ sock[i].reset = "no"
        BY <3>3 DEF ReadComplete, ReturnFromRead
      <4>2. chan'[i].cut = c
        BY <1>1, <4>1 DEF Channel
      <4>3. ~c => ~Ready(i, "read")'
        <5>1. ~(0 > 0)
          OBVIOUS
        <5> QED
          BY <4>1, <5>1 DEF Ready
      <4> QED
        BY <4>2, <4>3
    <3>4. CASE chan[i].inClosed
      BY <2>6, <3>4
    <3> QED
      BY <1>4, <3>1, <3>2, <3>3, <3>4
  <2>10. \A j \in Idents, f \in Filters :
           <<j, f>> \in batch => <<j, f>> \in batch' \/ (j = i /\ f = "read")
    BY <2>1
  <2>11. \A j \in Idents : j # i => chan'[j] = chan[j] /\ sock'[j] = sock[j] /\ (j \in cur => j \in cur')
    BY <2>5, <2>8
  <2> QED
    BY <2>1, <2>4, <2>7, <2>8, <2>9, <2>10, <2>11, ReadStep
<1> QED
  BY <1>3, <1>4

-----------------------------------------------------------------------------
(* Closing. *)

\* A channel that left is right whenever the list is.
LEMMA Gone ==
  ASSUME KqInv, NEW i \in Idents, chan'[i].life \in {"left", "leaving", "free"},
         chan'[i].inClosed, chan'[i].outClosed, chan'[i].wants = {}, chan'[i].enabled = {},
         sock'[i].room = sock[i].room, \A f \in Filters : ListOK(i, f)'
  PROVE  OK(i)'
<1>1. LifeOK(i)
  BY DEF KqInv, OK
<1>2. LifeOK(i)'
  BY <1>1 DEF LifeOK
<1>3. EventOK(i)'
  BY DEF EventOK
<1> QED
  BY <1>2, <1>3 DEF OK

\* shutdown_half.
LEMMA HalfStep ==
  ASSUME KqInv, TypeOK', NEW i \in Idents, NEW r \in Channel, ShutdownHalf(i, r),
         chan[i].life = "member", r.life = "member", r.enabled = chan[i].wants,
         r.out = chan[i].out, r.failed = chan[i].failed,
         chan[i].inClosed => r.inClosed, chan[i].outClosed => r.outClosed,
         r.inClosed => "read" \notin r.wants, r.outClosed => "write" \notin r.wants,
         ~r.outClosed => ("write" \in chan[i].wants => "write" \in r.wants),
         ~r.inClosed => r.cut = chan[i].cut /\ cur' = cur,
         knote' = knote, sock' = sock, batch' = batch, active' = active,
         \A j \in Idents : j # i /\ j \in cur => j \in cur',
         cur' \subseteq cur, pc' = pc \/ (pc' = "dispatch" /\ cur' = {})
  PROVE  KqInv'
<1>1. /\ TypeOK /\ PlaceInv /\ LifeOK(i) /\ EventOK(i) /\ \A f \in Filters : ListOK(i, f)
      /\ chan \in [Idents -> Channel] /\ changes \in Seq(Change) /\ cur \subseteq Idents
  BY DEF KqInv, OK, TypeOK
<1>2. "read" \in Filters /\ "write" \in Filters /\ Filters = {"read", "write"}
  BY DEF Filters
<1>3. PICK t, p : /\ chan' = [chan EXCEPT ![i] = t] /\ changes' = changes \o p
                  /\ IF r.inClosed /\ r.outClosed
                     THEN t = Stored([r EXCEPT !.life = "left"]) /\ p = RemoveChanges(i, r)
                     ELSE t = Stored(r) /\ p = WatchChanges(i, r)
  BY DEF ShutdownHalf, Become, Listed
<1>4. chan'[i] = t /\ \A j \in Idents : j # i => chan'[j] = chan[j]
  BY <1>1, <1>3
<1>5. "enable" \in Flags /\ "disable" \in Flags /\ "none" \in Flags /\ "delete" \in Flags
  BY DEF Flags
<1>6. p \in Seq(Change) /\ \A m \in 1 .. Len(p) : p[m].ident = i
  BY <1>3, <1>5, ChangesFacts DEF WatchChanges, RemoveChanges
<1>7. /\ t.life = IF r.inClosed /\ r.outClosed THEN "left" ELSE "member"
      /\ t.wants = r.wants /\ t.enabled = r.wants
      /\ t.inClosed = r.inClosed /\ t.outClosed = r.outClosed
      /\ t.out = r.out /\ t.failed = r.failed /\ t.cut = r.cut
  <2>1. CASE r.inClosed /\ r.outClosed
    BY <1>3, <2>1 DEF Stored, Channel
  <2>2. CASE ~(r.inClosed /\ r.outClosed)
    BY <1>3, <2>2 DEF Stored, Channel
  <2> QED
    BY <2>1, <2>2
<1>8. Shut(i)' = Shut(i) /\ ~Shut(i) /\ ~Shut(i)'
  BY <1>4, <1>7 DEF Shut
<1>9. PlaceInv'
  <2>1. \A j \in cur' : chan'[j].life \in {"member", "left"}
    BY <1>1, <1>4, <1>7 DEF PlaceInv
  <2> QED
    BY <1>1, <2>1, PlaceKept
<1>10. ASSUME r.inClosed, r.outClosed PROVE OK(i)'
  <2>1. r.wants = {}
    <3>1. r.wants \subseteq Filters
      BY DEF Channel
    <3> QED
      BY <1>2, <1>10, <3>1
  <2>2. ASSUME NEW f \in Filters PROVE ListOK(i, f)'
    <3>1. chan'[i].life # "member" /\ f \notin r.wants /\ changes' = changes \o RemoveChanges(i, r)
      BY <1>3, <1>4, <1>7, <1>10, <2>1
    <3> QED
      BY <1>1, <1>8, <3>1, RemovedList
  <2> QED
    BY <1>4, <1>7, <1>10, <2>1, <2>2, Gone
<1>11. ASSUME ~(r.inClosed /\ r.outClosed) PROVE OK(i)'
  <2>1. t.life = "member" /\ p = WatchChanges(i, r)
    BY <1>3, <1>7, <1>11
  <2>2. ASSUME NEW f \in Filters
        PROVE  /\ ListOK(i, f)'
               /\ Ready(i, f)' = Ready(i, f) /\ Applied[i][f].active => Applied'[i][f].active
    <3>1. Like(knote'[i][f], knote[i][f]) /\ knote'[i][f].active = knote[i][f].active
      BY DEF Like
    <3>2. /\ chan'[i].life = "member" <=> chan[i].life = "member"
          /\ r.wants = chan'[i].wants /\ changes' = changes \o WatchChanges(i, r)
      BY <1>3, <1>4, <1>7, <2>1
    <3> QED
      BY <1>8, <3>1, <3>2, WatchedList
  <2>3. LifeOK(i)'
    BY <1>1, <1>4, <1>7, <1>11, <2>1 DEF LifeOK
  <2>4. EventOK(i)'
    <3> SUFFICES ASSUME active PROVE ReadOK(i)' /\ WriteOK(i)'
      BY DEF EventOK
    <3>1. ReadOK(i) /\ WriteOK(i)
      BY <1>1 DEF EventOK
    <3>2. ReadOK(i)'
      <4> SUFFICES ASSUME Ready(i, "read")', ~r.inClosed, ~r.cut
                   PROVE  Applied'[i]["read"].active \/ <<i, "read">> \in batch \/ i \in cur
        BY <1>4, <1>7 DEF ReadOK
      <4>1. Ready(i, "read")' = Ready(i, "read")
        BY DEF Ready
      <4> QED
        BY <1>2, <2>2, <3>1, <4>1 DEF ReadOK
    <3>3. WriteOK(i)'
      <4> SUFFICES ASSUME chan'[i].out > 0, ~chan'[i].failed, ~chan'[i].outClosed
                   PROVE  /\ "write" \in chan'[i].wants
                          /\ \/ Applied'[i]["write"].active \/ <<i, "write">> \in batch
                             \/ sock[i].room < Room
        BY DEF WriteOK
      <4>1. ~r.outClosed /\ ~chan[i].outClosed /\ chan[i].out > 0 /\ ~chan[i].failed
        BY <1>4, <1>7
      <4>2. Ready(i, "write")' = Ready(i, "write")
        BY <1>4, <1>7, <4>1 DEF Ready
      <4>3. "write" \in chan'[i].wants
        BY <1>4, <1>7, <3>1, <4>1 DEF WriteOK
      <4> QED
        BY <1>2, <2>2, <3>1, <4>1, <4>2, <4>3 DEF WriteOK
    <3> QED
      BY <3>2, <3>3
  <2> QED
    BY <2>2, <2>3, <2>4 DEF OK
<1>12. OK(i)'
  BY <1>10, <1>11
<1>13. \A j \in Idents : j # i =>
         /\ chan'[j] = chan[j] /\ sock'[j] = sock[j] /\ knote'[j] = knote[j]
         /\ \A f \in Filters : <<j, f>> \in batch => <<j, f>> \in batch'
         /\ j \in cur => j \in cur'
  BY <1>4
<1>14. changes' = changes \o p
  BY <1>3
<1> QED
  BY <1>6, <1>9, <1>12, <1>13, <1>14, Around

\* A half is closed by a handler, by the end of the input, or by on_disconnect after the
\* input was closed.
LEMMA HalvesStep ==
  ASSUME KqInv, TypeOK', NEW i \in Idents,
         \/ CloseOutput(i)
         \/ EndOfInput(i) /\ ~chan[i].inClosed
         \/ RunDisconnect(i) /\ chan[i].inClosed
  PROVE  KqInv'
<1>1. /\ PlaceInv /\ LifeOK(i) /\ cur \subseteq Idents /\ chan[i] \in Channel
  BY DEF KqInv, OK, TypeOK
<1>2. CASE CloseOutput(i) \/ (RunDisconnect(i) /\ chan[i].inClosed)
  <2>1. PICK r : r = OutputShut(chan[i])
    OBVIOUS
  <2>2. /\ r \in Channel /\ r.life = chan[i].life /\ r.enabled = chan[i].enabled
        /\ r.out = chan[i].out /\ r.failed = chan[i].failed /\ r.cut = chan[i].cut
        /\ r.inClosed = chan[i].inClosed /\ r.outClosed /\ r.wants = chan[i].wants \ {"write"}
    BY <1>1, <2>1, ShutType DEF OutputShut, Channel
  <2>3. /\ ShutdownHalf(i, r) /\ chan[i].life = "member"
        /\ knote' = knote /\ sock' = sock /\ UNCHANGED loopVars
    BY <1>2, <2>1 DEF CloseOutput, RunDisconnect
  <2>4. pc' = pc /\ batch' = batch /\ cur' = cur /\ active' = active
    BY <2>3 DEF loopVars
  <2>5. /\ r.enabled = chan[i].wants /\ (r.inClosed => "read" \notin r.wants)
        /\ r.outClosed => "write" \notin r.wants
    BY <1>1, <2>2 DEF LifeOK
  <2> QED
    BY <2>2, <2>3, <2>4, <2>5, HalfStep
<1>3. CASE EndOfInput(i) /\ ~chan[i].inClosed
  <2>1. PICK r : r = InputShut([chan[i] EXCEPT !.cut = FALSE])
    OBVIOUS
  <2>2. [chan[i] EXCEPT !.cut = FALSE] \in Channel
    BY <1>1 DEF Channel
  <2>3. /\ r \in Channel /\ r.life = chan[i].life /\ r.enabled = chan[i].enabled
        /\ r.out = chan[i].out /\ r.failed = chan[i].failed
        /\ r.inClosed /\ r.outClosed = chan[i].outClosed /\ r.wants = chan[i].wants \ {"read"}
    <3>1. PICK c \in Channel : c = [chan[i] EXCEPT !.cut = FALSE]
      BY <2>2
    <3>2. /\ c.life = chan[i].life /\ c.enabled = chan[i].enabled /\ c.wants = chan[i].wants
          /\ c.out = chan[i].out /\ c.failed = chan[i].failed /\ c.outClosed = chan[i].outClosed
      BY <1>1, <3>1 DEF Channel
    <3>3. r = InputShut(c)
      BY <2>1, <3>1
    <3>4. /\ r.life = c.life /\ r.enabled = c.enabled /\ r.wants = c.wants \ {"read"}
          /\ r.out = c.out /\ r.failed = c.failed /\ r.outClosed = c.outClosed /\ r.inClosed
      BY <3>3 DEF InputShut, Channel
    <3> QED
      BY <3>2, <3>3, <3>4, ShutType
  <2>4. /\ ShutdownHalf(i, r) /\ pc = "read" /\ i \in cur /\ cur' = {} /\ pc' = "dispatch"
        /\ knote' = knote /\ sock' = sock /\ batch' = batch /\ active' = active
    BY <1>3, <2>1 DEF EndOfInput
  <2>5. chan[i].life = "member"
    BY <1>1, <1>3, <2>4 DEF PlaceInv, LifeOK
  <2>6. \A j \in Idents : j # i /\ j \in cur => j \in cur'
    BY <1>1, <2>4 DEF PlaceInv
  <2>7. /\ r.enabled = chan[i].wants /\ "read" \notin r.wants
        /\ r.outClosed => "write" \notin r.wants
        /\ "write" \in chan[i].wants => "write" \in r.wants
        /\ cur' \subseteq cur
    BY <1>1, <2>3, <2>4 DEF LifeOK
  <2> QED
    BY <2>3, <2>4, <2>5, <2>6, <2>7, HalfStep
<1> QED
  BY <1>2, <1>3

\* on_disconnect closes both halves.
LEMMA DisconnectStep ==
  ASSUME KqInv, TypeOK', NEW i \in Idents, RunDisconnect(i), ~chan[i].inClosed
  PROVE  KqInv'
<1>1. /\ TypeOK /\ PlaceInv /\ LifeOK(i) /\ cur \subseteq Idents /\ chan[i] \in Channel
      /\ chan \in [Idents -> Channel] /\ changes \in Seq(Change)
  BY DEF KqInv, OK, TypeOK
<1>2. PICK c \in Channel : c = chan[i]
  BY <1>1
<1>3. PICK r : r = OutputShut(c)
  OBVIOUS
<1>4. PICK u : u = Stored(r)
  OBVIOUS
<1>5. PICK s : s = InputShut(u)
  OBVIOUS
<1>6. PICK v : v = [s EXCEPT !.life = "left"]
  OBVIOUS
<1>7. PICK t : t = Stored(v)
  OBVIOUS
<1>8. r \in Channel /\ u \in Channel /\ s \in Channel /\ v \in Channel
  <2>1. r \in Channel /\ u \in Channel /\ s \in Channel
    BY <1>3, <1>4, <1>5, ShutType, StoredType
  <2> QED
    BY <1>6, <2>1 DEF Channel
<1>9. s.wants = {} /\ s.inClosed /\ s.outClosed
  <2>1. r.outClosed /\ r.wants = c.wants \ {"write"}
    BY <1>3 DEF OutputShut, Channel
  <2>2. u.outClosed = r.outClosed /\ u.wants = r.wants
    BY <1>4, <1>8 DEF Stored, Channel
  <2>3. s.outClosed = u.outClosed /\ s.inClosed /\ s.wants = u.wants \ {"read"}
    BY <1>5, <1>8 DEF InputShut, Channel
  <2>4. c.wants \subseteq {"read", "write"}
    BY DEF Channel, Filters
  <2> QED
    BY <2>1, <2>2, <2>3, <2>4
<1>10. t.life = "left" /\ t.wants = {} /\ t.enabled = {} /\ t.inClosed /\ t.outClosed
  <2>1. v.life = "left" /\ v.wants = s.wants /\ v.inClosed = s.inClosed /\ v.outClosed = s.outClosed
    BY <1>6, <1>8 DEF Channel
  <2>2. t.life = v.life /\ t.wants = v.wants /\ t.enabled = v.wants
        /\ t.inClosed = v.inClosed /\ t.outClosed = v.outClosed
    BY <1>7, <1>8 DEF Stored, Channel
  <2> QED
    BY <1>9, <2>1, <2>2
<1>11. PICK a, b : /\ a = IF c.outClosed THEN <<>> ELSE WatchChanges(i, r)
                   /\ b = RemoveChanges(i, s)
  OBVIOUS
<1>12. /\ chan' = [chan EXCEPT ![i] = t] /\ changes' = changes \o (a \o b)
       /\ pc = "run" /\ chan[i].life = "member" /\ UNCHANGED loopVars /\ knote' = knote /\ sock' = sock
  BY <1>2, <1>3, <1>4, <1>5, <1>6, <1>7, <1>11 DEF RunDisconnect, Become, Listed
<1>13. "enable" \in Flags /\ "disable" \in Flags /\ "none" \in Flags /\ "delete" \in Flags
  BY DEF Flags
<1>14. a \in Seq(Change) /\ \A m \in 1 .. Len(a) : a[m].ident = i
  <2>1. CASE c.outClosed
    BY <1>11, <2>1
  <2>2. CASE ~c.outClosed
    BY <1>11, <1>13, <2>2, ChangesFacts DEF WatchChanges
  <2> QED
    BY <2>1, <2>2
<1>15. b \in Seq(Change) /\ \A m \in 1 .. Len(b) : b[m].ident = i
  BY <1>11, <1>13, ChangesFacts DEF RemoveChanges
<1>16. a \o b \in Seq(Change) /\ \A m \in 1 .. Len(a \o b) : (a \o b)[m].ident = i
  <2>1. Len(a) \in Nat /\ Len(b) \in Nat
    BY <1>14, <1>15, LenProperties
  <2>2. /\ a \o b \in Seq(Change) /\ Len(a \o b) = Len(a) + Len(b)
        /\ \A m \in 1 .. Len(a) + Len(b) : (a \o b)[m] = IF m <= Len(a) THEN a[m] ELSE b[m - Len(a)]
    BY <1>14, <1>15, ConcatProperties
  <2>3. \A m \in 1 .. Len(a) + Len(b) : m \in 1 .. Len(a) \/ (m > Len(a) /\ m - Len(a) \in 1 .. Len(b))
    BY <2>1
  <2> QED
    BY <1>14, <1>15, <2>1, <2>2, <2>3
<1>17. PICK q : q = changes \o a
  OBVIOUS
<1>18. q \in Seq(Change) /\ changes' = q \o b
  BY <1>1, <1>12, <1>14, <1>15, <1>17, ConcatProperties, ConcatAssociative
<1>19. chan'[i] = t /\ \A j \in Idents : j # i => chan'[j] = chan[j]
  BY <1>1, <1>12
<1>20. ASSUME NEW f \in Filters PROVE ListOK(i, f)'
  <2>1. changes' = q \o RemoveChanges(i, s) /\ f \notin s.wants
    BY <1>9, <1>11, <1>18
  <2>2. ~Shut(i)' /\ chan'[i].life # "member"
    BY <1>10, <1>19 DEF Shut
  <2> QED
    BY <1>18, <2>1, <2>2, RemovedList
<1>21. OK(i)'
  BY <1>10, <1>12, <1>19, <1>20, Gone
<1>22. pc' = pc /\ batch' = batch /\ cur' = cur /\ active' = active
  BY <1>12 DEF loopVars
<1>23. PlaceInv'
  <2>1. cur = {}
    BY <1>1, <1>12 DEF PlaceInv
  <2> QED
    BY <1>1, <1>22, <2>1, PlaceKept
<1>24. \A j \in Idents : j # i =>
         /\ chan'[j] = chan[j] /\ sock'[j] = sock[j] /\ knote'[j] = knote[j]
         /\ \A f \in Filters : <<j, f>> \in batch => <<j, f>> \in batch'
         /\ j \in cur => j \in cur'
  BY <1>12, <1>19, <1>22
<1> QED
  BY <1>12, <1>16, <1>21, <1>22, <1>23, <1>24, Around

-----------------------------------------------------------------------------
(* The life of a descriptor. *)

\* A channel that left goes on leaving.
LEMMA Retires ==
  ASSUME KqInv, TypeOK', NEW i \in Idents, NEW l \in {"leaving", "free"},
         chan[i].life \in {"left", "leaving"}, chan'[i] = [chan[i] EXCEPT !.life = l],
         changes' = changes, knote'[i] = knote[i], sock'[i] = sock[i]
  PROVE  OK(i)'
<1>1. LifeOK(i) /\ chan[i] \in Channel
  BY DEF KqInv, OK, TypeOK
<1>2. /\ chan'[i].life = l /\ chan'[i].wants = chan[i].wants /\ chan'[i].enabled = chan[i].enabled
      /\ chan'[i].inClosed = chan[i].inClosed /\ chan'[i].outClosed = chan[i].outClosed
  BY <1>1 DEF Channel
<1>3. Shut(i)' = Shut(i)
  BY <1>2 DEF Shut
<1>4. ASSUME NEW f \in Filters PROVE ListOK(i, f)'
  <2>1. /\ Like(knote'[i][f], knote[i][f])
        /\ chan'[i].life = "member" <=> chan[i].life = "member"
        /\ f \in chan'[i].wants <=> f \in chan[i].wants
    BY <1>2 DEF Like
  <2> QED
    BY <1>3, <2>1, ListIdle
<1>5. chan'[i].wants = {} /\ chan'[i].enabled = {} /\ chan'[i].inClosed /\ chan'[i].outClosed
  BY <1>1, <1>2 DEF LifeOK, Channel, Filters
<1> QED
  BY <1>2, <1>4, <1>5, Gone

LEMMA LeavingStep ==
  ASSUME KqInv, TypeOK', SwapTasks \/ \E i \in Idents : RunInactive(i)
  PROVE  KqInv'
<1>1. PlaceInv /\ chan \in [Idents -> Channel]
  BY DEF KqInv, TypeOK
<1>2. CASE SwapTasks
  <2>1. /\ pc = "dispatch" /\ pc' = "run" /\ batch = {} /\ batch' = batch /\ cur' = cur
        /\ active' = active /\ changes' = changes /\ knote' = knote /\ sock' = sock
    BY <1>2 DEF SwapTasks
  <2>2. cur = {}
    BY <1>1, <2>1 DEF PlaceInv
  <2>3. PlaceInv'
    BY <2>1, <2>2 DEF PlaceInv
  <2>4. ASSUME NEW i \in Idents PROVE OK(i)'
    <3>1. CASE chan[i].life = "left"
      <4>1. chan'[i] = [chan[i] EXCEPT !.life = "leaving"]
        BY <1>2, <3>1 DEF SwapTasks
      <4> QED
        BY <2>1, <3>1, <4>1, Retires
    <3>2. CASE chan[i].life # "left"
      <4>1. chan'[i] = chan[i]
        BY <1>2, <3>2 DEF SwapTasks
      <4> QED
        BY <2>1, <4>1, Idle
    <3> QED
      BY <3>1, <3>2
  <2> QED
    BY <2>3, <2>4 DEF KqInv
<1>3. ASSUME NEW i \in Idents, RunInactive(i) PROVE KqInv'
  <2>1. /\ pc = "run" /\ UNCHANGED loopVars /\ chan[i].life = "leaving"
        /\ changes' = changes /\ knote' = knote /\ sock' = sock
    BY <1>3 DEF RunInactive
  <2>2. pc' = pc /\ batch' = batch /\ cur' = cur /\ active' = active
    BY <2>1 DEF loopVars
  <2>3. /\ chan'[i] = [chan[i] EXCEPT !.life = "free"]
        /\ \A j \in Idents : j # i => chan'[j] = chan[j]
    BY <1>1, <1>3 DEF RunInactive
  <2>4. cur = {}
    BY <1>1, <2>1 DEF PlaceInv
  <2>5. PlaceInv'
    BY <1>1, <2>2, <2>4, PlaceKept
  <2>6. OK(i)'
    BY <2>1, <2>3, Retires
  <2> QED
    BY <2>1, <2>2, <2>3, <2>5, <2>6, AroundIdle
<1> QED
  BY <1>2, <1>3

\* add_channel puts both filters on the list.
LEMMA RegisterStep ==
  ASSUME KqInv, TypeOK', NEW i \in Idents, Register(i) PROVE KqInv'
<1>1. /\ TypeOK /\ PlaceInv /\ LifeOK(i) /\ (\A f \in Filters : ListOK(i, f))
      /\ cur \subseteq Idents /\ chan[i] \in Channel /\ chan \in [Idents -> Channel]
  BY DEF KqInv, OK, TypeOK
<1>2. PICK r : r = [chan[i] EXCEPT !.life = "member", !.wants = Filters]
  OBVIOUS
<1>3. PICK t, p : t = Stored(r) /\ p = AddChanges(i, r)
  OBVIOUS
<1>4. /\ chan[i].life = "made" /\ chan' = [chan EXCEPT ![i] = t] /\ changes' = changes \o p
      /\ UNCHANGED loopVars /\ knote' = knote /\ sock' = sock
  BY <1>2, <1>3 DEF Register, Become, Listed
<1>5. chan[i].wants = {} /\ ~chan[i].inClosed /\ ~chan[i].outClosed /\ chan[i].out = 0
  BY <1>1, <1>4 DEF LifeOK
<1>6. r \in Channel /\ r.wants = Filters /\ r.enabled = chan[i].enabled
  BY <1>1, <1>2 DEF Channel
<1>7. /\ t.life = "member" /\ t.wants = Filters /\ t.enabled = Filters
      /\ ~t.inClosed /\ ~t.outClosed /\ t.out = 0
  <2>1. r.life = "member" /\ r.inClosed = chan[i].inClosed /\ r.outClosed = chan[i].outClosed
        /\ r.out = chan[i].out
    BY <1>1, <1>2 DEF Channel
  <2>2. /\ t.life = r.life /\ t.wants = r.wants /\ t.enabled = r.wants
        /\ t.inClosed = r.inClosed /\ t.outClosed = r.outClosed /\ t.out = r.out
    BY <1>3, <1>6 DEF Stored, Channel
  <2> QED
    BY <1>5, <1>6, <2>1, <2>2
<1>8. chan'[i] = t /\ \A j \in Idents : j # i => chan'[j] = chan[j]
  BY <1>1, <1>4
<1>9. "add" \in Flags /\ "none" \in Flags
  BY DEF Flags
<1>10. p \in Seq(Change) /\ \A m \in 1 .. Len(p) : p[m].ident = i
  BY <1>3, <1>9, ChangesFacts DEF AddChanges
<1>11. Shut(i)' = Shut(i) /\ ~Shut(i)
  BY <1>4, <1>7, <1>8 DEF Shut
<1>12. ASSUME NEW f \in Filters
       PROVE  ListOK(i, f)' /\ (Ready(i, f)' => Applied'[i][f].active)
  <2>1. changes' = changes \o ChangesOf(i, r, "add", "none")
    BY <1>3, <1>4 DEF AddChanges
  <2>2. Like(knote'[i][f], knote[i][f])
    BY <1>4 DEF Like
  <2>3. PICK k \in AnyKnote :
          /\ Like(k, Applied[i][f])
          /\ Applied'[i][f] = Wished(k, f, r, "add", "none", Shut(i), Ready(i, f)')
    BY <1>1, <1>9, <1>11, <2>1, <2>2, BehindChanges
  <2>4. PICK b, e : b = Applied'[i][f] /\ e = Ready(i, f)'
    OBVIOUS
  <2>5. b = After(k, "add", FALSE, e)
    <3>2. Shut(i) = FALSE
      BY <1>11 DEF Shut
    <3>1. b = Wished(k, f, r, "add", "none", FALSE, e)
      BY <2>3, <2>4, <3>2
    <3> QED
      BY <1>6, <3>1 DEF Wished
  <2>6. b.here /\ b.on /\ (e => b.active)
    BY <2>5 DEF After
  <2> QED
    BY <1>7, <1>8, <2>4, <2>6 DEF ListOK
<1>13. LifeOK(i)'
  BY <1>1, <1>4, <1>7, <1>8 DEF LifeOK
<1>14. EventOK(i)'
  <2>1. ReadOK(i)'
    BY <1>12 DEF ReadOK, Filters
  <2>2. WriteOK(i)'
    <3>1. ~(0 > 0)
      OBVIOUS
    <3> QED
      BY <1>7, <1>8, <3>1 DEF WriteOK
  <2> QED
    BY <2>1, <2>2 DEF EventOK
<1>15. OK(i)'
  BY <1>12, <1>13, <1>14 DEF OK
<1>16. pc' = pc /\ batch' = batch /\ cur' = cur /\ active' = active
  BY <1>4 DEF loopVars
<1>17. PlaceInv'
  <2>1. \A j \in cur' : chan'[j].life \in {"member", "left"}
    BY <1>1, <1>7, <1>8, <1>16 DEF PlaceInv
  <2> QED
    BY <1>1, <1>16, <2>1, PlaceKept
<1>18. \A j \in Idents : j # i =>
         /\ chan'[j] = chan[j] /\ sock'[j] = sock[j] /\ knote'[j] = knote[j]
         /\ \A f \in Filters : <<j, f>> \in batch => <<j, f>> \in batch'
         /\ j \in cur => j \in cur'
  BY <1>4, <1>8, <1>16
<1> QED
  BY <1>4, <1>10, <1>15, <1>16, <1>17, <1>18, Around

\* A descriptor is opened, or closed with its filters, while the list may still have
\* changes of the channel it was.
LEMMA DescriptorStep ==
  ASSUME KqInv, TypeOK', NEW i \in Idents, OpenDescriptor(i) \/ CloseDescriptor(i) PROVE KqInv'
<1>1. /\ TypeOK /\ PlaceInv /\ LifeOK(i) /\ (\A f \in Filters : ListOK(i, f))
      /\ changes \in Seq(Change) /\ cur \subseteq Idents
      /\ chan \in [Idents -> Channel] /\ knote \in [Idents -> [Filters -> Knote]]
      /\ sock \in [Idents -> Socket] /\ Room \in Nat
  BY KqueueAssumption DEF KqInv, OK, TypeOK
<1>2. /\ changes' = changes /\ UNCHANGED loopVars /\ chan[i].life \in {"closed", "free"}
      /\ \A j \in Idents : j # i => chan'[j] = chan[j] /\ sock'[j] = sock[j] /\ knote'[j] = knote[j]
  BY <1>1 DEF OpenDescriptor, CloseDescriptor
<1>3. pc' = pc /\ batch' = batch /\ cur' = cur /\ active' = active
  BY <1>2 DEF loopVars
<1>4. \E l \in {"made", "closed"} : \E m, n : chan'[i] = NewChannel(l, m, n)
  BY <1>1 DEF OpenDescriptor, CloseDescriptor
<1>5. /\ chan'[i].life \in {"made", "closed"} /\ chan'[i].wants = {} /\ chan'[i].enabled = {}
      /\ ~chan'[i].inClosed /\ ~chan'[i].outClosed /\ chan'[i].out = 0
  BY <1>4 DEF NewChannel
<1>6. ASSUME NEW f \in Filters PROVE ~knote'[i][f].here
  <2>1. CASE OpenDescriptor(i)
    BY <1>1, <2>1 DEF OpenDescriptor, LifeOK
  <2>2. CASE CloseDescriptor(i)
    <3>1. knote'[i] = [e \in Filters |-> NoKnote]
      BY <1>1, <2>2 DEF CloseDescriptor
    <3> QED
      BY <3>1 DEF NoKnote
  <2> QED
    BY <2>1, <2>2
<1>7. sock'[i].room <= Room
  <2>1. CASE OpenDescriptor(i)
    BY <1>1, <2>1 DEF OpenDescriptor, LifeOK
  <2>2. CASE CloseDescriptor(i)
    <3>1. sock'[i] = [NewSocket EXCEPT !.arrived = sock[i].arrived]
      BY <1>1, <2>2 DEF CloseDescriptor
    <3>2. sock'[i].room = Room
      BY <3>1 DEF NewSocket
    <3> QED
      BY <1>1, <3>2
  <2> QED
    BY <2>1, <2>2
<1>8. ASSUME NEW f \in Filters PROVE ListOK(i, f)'
  <2>1. PICK q, a, b : q = changes' /\ a = knote'[i][f] /\ b = Applied'[i][f]
    OBVIOUS
  <2>2. PICK shut \in BOOLEAN, r \in BOOLEAN : shut = Shut(i)' /\ r = Ready(i, f)'
    BY DEF Shut, Ready
  <2>3. Leads(a, q, i, f, shut, r, b)
    <3>1. Leads(knote'[i][f], changes', i, f, Shut(i)', Ready(i, f)', Applied'[i][f])
      BY AppliedLeadsNext
    <3> QED
      BY <2>1, <2>2, <3>1
  <2>4. Len(q) \in Nat
    BY <1>1, <1>2, <2>1, LenProperties
  <2>5. Undone(q, i, f)
    BY <1>1, <1>2, <2>1 DEF ListOK
  <2>6. a \in AnyKnote /\ ~a.here
    BY <1>6, <2>1, <2>3, <2>4, LeadsType
  <2>7. ~b.here
    BY <2>3, <2>4, <2>5, <2>6, UndoneLeaves
  <2> QED
    BY <1>5, <2>1, <2>5, <2>7 DEF ListOK
<1>9. OK(i)'
  <2>1. LifeOK(i)'
    BY <1>5, <1>6, <1>7 DEF LifeOK
  <2>2. EventOK(i)'
    BY <1>5 DEF EventOK
  <2> QED
    BY <1>8, <2>1, <2>2 DEF OK
<1>10. PlaceInv'
  <2>1. \A j \in cur' : chan'[j].life \in {"member", "left"}
    BY <1>1, <1>2, <1>3 DEF PlaceInv
  <2> QED
    BY <1>1, <1>3, <2>1, PlaceKept
<1> QED
  BY <1>2, <1>3, <1>9, <1>10, AroundIdle

-----------------------------------------------------------------------------
(* The theorems. *)

LEMMA InitStep == Init => KqInv
<1> SUFFICES ASSUME Init PROVE KqInv
  OBVIOUS
<1>1. TypeOK
  BY InitType
<1>2. PlaceInv
  BY DEF Init, PlaceInv
<1>3. ASSUME NEW i \in Idents PROVE OK(i)
  <2>1. chan[i] = NewChannel("closed", 0, 0) /\ sock[i] = NewSocket
    BY DEF Init
  <2>2. /\ chan[i].life = "closed" /\ chan[i].wants = {} /\ chan[i].enabled = {}
        /\ ~chan[i].inClosed /\ ~chan[i].outClosed /\ chan[i].out = 0
    BY <2>1 DEF NewChannel
  <2>3. sock[i].room <= Room
    BY <2>1, KqueueAssumption DEF NewSocket
  <2>4. \A f \in Filters : knote[i][f] = NoKnote /\ ~knote[i][f].here
    BY DEF Init, NoKnote
  <2>5. ASSUME NEW f \in Filters PROVE ListOK(i, f)
    <3>1. PICK q, a, b : q = changes /\ a = knote[i][f] /\ b = Applied[i][f]
      OBVIOUS
    <3>2. PICK shut, r : shut = Shut(i) /\ r = Ready(i, f)
      OBVIOUS
    <3>3. Leads(a, q, i, f, shut, r, b)
      <4>1. Leads(knote[i][f], changes, i, f, Shut(i), Ready(i, f), Applied[i][f])
        BY <1>1, AppliedLeads
      <4> QED
        BY <3>1, <3>2, <4>1
    <3>4. q = <<>>
      BY <3>1 DEF Init
    <3>5. Len(q) \in Nat /\ \A m \in 1 .. Len(q) : ~Of(q[m], i, f)
      BY <3>4
    <3>6. b = a /\ a \in AnyKnote
      BY <3>3, <3>5, Untouched, Zenon
    <3>7. Undone(q, i, f)
      BY <3>4 DEF Undone
    <3> QED
      BY <2>2, <2>4, <3>1, <3>6, <3>7 DEF ListOK
  <2>6. LifeOK(i)
    BY <2>2, <2>3, <2>4 DEF LifeOK
  <2>7. EventOK(i)
    BY <2>2 DEF EventOK
  <2> QED
    BY <2>5, <2>6, <2>7 DEF OK
<1> QED
  BY <1>1, <1>2, <1>3 DEF KqInv

\* The steps that are about no channel.
LEMMA OtherStep ==
  ASSUME KqInv, TypeOK',
         \/ SeeWakeUp \/ SeeShutdown \/ EndRun \/ WakeUp \/ ShutdownLoop \/ UNCHANGED vars
         \/ \E i \in Idents, f \in Filters : SkipEvent(i, f)
  PROVE  KqInv'
<1>1. PlaceInv /\ cur \subseteq Idents
  BY DEF KqInv, TypeOK
<1>2. /\ chan' = chan /\ sock' = sock /\ knote' = knote /\ changes' = changes /\ cur' = cur
  BY DEF SeeWakeUp, SeeShutdown, EndRun, WakeUp, ShutdownLoop, SkipEvent, vars, loopVars
<1>3. CASE SeeShutdown
  <2>1. active' = FALSE /\ batch' = {} /\ pc' = pc /\ pc = "dispatch"
    BY <1>3 DEF SeeShutdown
  <2>2. \A i \in Idents : OK(i)'
    BY <1>2, <2>1, Idle
  <2>3. PlaceInv'
    BY <1>1, <1>2, <2>1 DEF PlaceInv
  <2> QED
    BY <2>2, <2>3 DEF KqInv
<1>4. CASE EndRun
  <2>1. pc = "run" /\ pc' = (IF active THEN "kevent" ELSE "stopped") /\ batch' = batch /\ active' = active
    BY <1>4 DEF EndRun
  <2>2. \A i \in Idents : OK(i)'
    BY <1>2, <2>1, Idle
  <2>3. PlaceInv'
    BY <1>1, <1>2, <2>1 DEF PlaceInv
  <2> QED
    BY <2>2, <2>3 DEF KqInv
<1>5. CASE SeeWakeUp \/ WakeUp \/ ShutdownLoop \/ UNCHANGED vars
  <2>1. batch' = batch /\ active' = active /\ pc' = pc
    BY <1>5 DEF SeeWakeUp, WakeUp, ShutdownLoop, vars, loopVars
  <2>2. \A i \in Idents : OK(i)'
    BY <1>2, <2>1, Idle
  <2>3. PlaceInv'
    BY <1>1, <1>2, <2>1 DEF PlaceInv
  <2> QED
    BY <2>2, <2>3 DEF KqInv
<1>6. ASSUME NEW i \in Idents, NEW f \in Filters, SkipEvent(i, f) PROVE KqInv'
  <2>1. /\ batch' = batch \ {<<i, f>>} /\ active' = active /\ pc' = pc /\ chan[i].life # "member"
    BY <1>6 DEF SkipEvent
  <2>2. ASSUME NEW j \in Idents, j # i PROVE OK(j)'
    BY <1>2, <2>1, <2>2, Idle
  <2>3. OK(i)'
    <3>1. LifeOK(i) /\ \A e \in Filters : ListOK(i, e)
      BY DEF KqInv, OK
    <3>2. LifeOK(i)'
      BY <1>2, <3>1 DEF LifeOK
    <3>3. ASSUME NEW e \in Filters PROVE ListOK(i, e)'
      BY <1>2, ReadySame, ListIdle DEF Like
    <3>4. EventOK(i)'
      BY <1>2, <2>1 DEF EventOK
    <3> QED
      BY <3>2, <3>3, <3>4 DEF OK
  <2>4. PlaceInv'
    BY <1>1, <1>2, <2>1 DEF PlaceInv
  <2> QED
    BY <2>2, <2>3, <2>4 DEF KqInv
<1> QED
  BY <1>3, <1>4, <1>5, <1>6

LEMMA FlushesStep ==
  ASSUME KqInv, TypeOK', NEW i \in Idents, TriggerWrite(i) \/ HandlerFlush(i) PROVE KqInv'
<1>1. chan \in [Idents -> Channel] /\ chan[i].flushed \in Nat /\ MaxBytes \in Nat
  BY KqueueAssumption DEF KqInv, TypeOK, Channel
<1>2. CASE TriggerWrite(i)
  <2>1. /\ BeginWrite(i, 0) /\ 0 \in Nat /\ chan[i].life = "member"
        /\ batch' = batch \ {<<i, "write">>} /\ pc' = pc /\ cur' = cur /\ active' = active
    BY <1>2 DEF TriggerWrite
  <2>2. \A j \in Idents, f \in Filters :
          <<j, f>> \in batch => <<j, f>> \in batch' \/ (j = i /\ f = "write")
    BY <2>1
  <2>3. batch' \subseteq batch /\ chan[i].life \in {"member", "left", "leaving", "free"}
    BY <2>1
  <2> QED
    BY <2>1, <2>2, <2>3, FlushStep
<1>3. CASE HandlerFlush(i)
  <2>1. PICK n \in 0 .. MaxBytes - chan[i].flushed : BeginWrite(i, n)
    BY <1>3 DEF HandlerFlush
  <2>2. n \in Nat
    BY <1>1
  <2>3. /\ chan[i].life \in {"member", "left", "leaving", "free"}
        /\ batch' = batch /\ pc' = pc /\ cur' = cur /\ active' = active
    BY <1>3 DEF HandlerFlush, loopVars
  <2>4. /\ batch' \subseteq batch
        /\ \A j \in Idents, f \in Filters :
             <<j, f>> \in batch => <<j, f>> \in batch' \/ (j = i /\ f = "write")
    BY <2>3
  <2> QED
    BY <2>1, <2>2, <2>3, <2>4, FlushStep
<1> QED
  BY <1>2, <1>3

LEMMA InvStep == ASSUME KqInv, [Next]_vars PROVE KqInv'
<1>1. TypeOK'
  BY TypeStep DEF KqInv
<1>2. CASE Kevent \/ KeventInterrupted
  BY <1>1, <1>2, KeventStep
<1>3. CASE SwapTasks
  BY <1>1, <1>3, LeavingStep
<1>4. CASE SeeWakeUp \/ SeeShutdown \/ EndRun \/ WakeUp \/ ShutdownLoop \/ UNCHANGED vars
  BY <1>1, <1>4, OtherStep
<1>5. ASSUME NEW i \in Idents,
             \/ TriggerWrite(i) \/ TriggerRead(i) \/ ReadData(i) \/ ReadError(i)
             \/ ReadComplete(i) \/ EndOfInput(i) \/ RunInactive(i)
             \/ \E f \in Filters : SkipEvent(i, f)
      PROVE  KqInv'
  <2>1. CASE TriggerWrite(i)
    BY <1>1, <2>1, FlushesStep
  <2>2. CASE TriggerRead(i) \/ ReadData(i) \/ ReadError(i) \/ ReadComplete(i)
    BY <1>1, <2>2, ReadsStep
  <2>3. CASE EndOfInput(i)
    <3>1. CASE chan[i].inClosed
      BY <1>1, <2>3, <3>1, ReadsStep
    <3>2. CASE ~chan[i].inClosed
      BY <1>1, <2>3, <3>2, HalvesStep
    <3> QED
      BY <3>1, <3>2
  <2>4. CASE RunInactive(i)
    BY <1>1, <2>4, LeavingStep
  <2>5. CASE \E f \in Filters : SkipEvent(i, f)
    BY <1>1, <2>5, OtherStep
  <2> QED
    BY <1>5, <2>1, <2>2, <2>3, <2>4, <2>5
<1>6. ASSUME NEW i \in Idents,
             Register(i) \/ HandlerFlush(i) \/ CloseOutput(i) \/ RunDisconnect(i)
      PROVE  KqInv'
  <2>1. CASE Register(i)
    BY <1>1, <2>1, RegisterStep
  <2>2. CASE HandlerFlush(i)
    BY <1>1, <2>2, FlushesStep
  <2>3. CASE CloseOutput(i)
    BY <1>1, <2>3, HalvesStep
  <2>4. CASE RunDisconnect(i)
    <3>1. CASE chan[i].inClosed
      BY <1>1, <2>4, <3>1, HalvesStep
    <3>2. CASE ~chan[i].inClosed
      BY <1>1, <2>4, <3>2, DisconnectStep
    <3> QED
      BY <3>1, <3>2
  <2> QED
    BY <1>6, <2>1, <2>2, <2>3, <2>4
<1>7. ASSUME NEW i \in Idents,
             \/ OpenDescriptor(i) \/ CloseDescriptor(i)
             \/ PeerSends(i) \/ PeerCloses(i) \/ PeerResets(i) \/ PeerReads(i)
      PROVE  KqInv'
  BY <1>1, <1>7, DescriptorStep, PeersStep
<1>8. CASE LoopStep
  BY <1>2, <1>3, <1>4, <1>5, <1>8 DEF LoopStep
<1>9. CASE HandlerStep
  BY <1>6, <1>9 DEF HandlerStep
<1>10. CASE OutsideStep
  BY <1>4, <1>7, <1>10 DEF OutsideStep
<1> QED
  BY <1>2, <1>4, <1>8, <1>9, <1>10 DEF Next

\* Every state the back end reaches satisfies the invariant.
THEOREM KqueueInvariant == Spec => []KqInv
<1>1. KqInv /\ [Next]_vars => KqInv'
  BY InvStep
<1> QED
  BY InitStep, <1>1, PTL DEF Spec

\* Every variable of the kqueue back end keeps its type.
THEOREM KqueueTypeCorrect == Spec => []TypeOK
<1>1. KqInv => TypeOK
  BY DEF KqInv
<1> QED
  BY <1>1, KqueueInvariant, PTL

\* However late kevent applies the change list, and whichever descriptors on it have been
\* closed and reused by then, the kernel has the filters of the worker's channels and no
\* others, on as the channels want.
THEOREM FiltersAgree == Spec => []KernelAgrees
<1>1. KqInv => KernelAgrees
  <2> SUFFICES ASSUME KqInv, NEW i \in Idents, NEW f \in Filters
               PROVE  IF chan[i].life = "member"
                      THEN /\ Applied[i][f].here /\ (Applied[i][f].on <=> f \in chan[i].enabled)
                           /\ pc = "kevent" => chan[i].enabled = chan[i].wants
                      ELSE ~Applied[i][f].here
    BY DEF KernelAgrees
  <2>1. LifeOK(i) /\ ListOK(i, f)
    BY DEF KqInv, OK
  <2> QED
    BY <2>1 DEF LifeOK, ListOK
<1> QED
  BY <1>1, KqueueInvariant, PTL

\* Events are edge-triggered, and none is lost: when the loop calls kevent, a channel with
\* unread input or an unseen end has an event to come, unless begin_read was cut short, and
\* one with unsent bytes has one, or its peer has yet to read.
THEOREM NoEventLost == Spec => []NothingStranded
<1>1. KqInv => NothingStranded
  <2> SUFFICES ASSUME KqInv, pc = "kevent", NEW i \in Idents, chan[i].life = "member"
               PROVE  /\ Ready(i, "read") /\ ~chan[i].inClosed /\ ~chan[i].cut =>
                           Applied[i]["read"].active
                      /\ chan[i].out > 0 /\ ~chan[i].failed /\ ~chan[i].outClosed =>
                           /\ Applied[i]["write"].on
                           /\ Applied[i]["write"].active \/ sock[i].room < Room
    BY DEF NothingStranded
  <2>1. PlaceInv /\ EventOK(i) /\ (\A f \in Filters : ListOK(i, f)) /\ "write" \in Filters
    BY DEF KqInv, OK, Filters
  <2>2. active /\ batch = {} /\ cur = {}
    BY <2>1 DEF PlaceInv
  <2>3. ReadOK(i) /\ WriteOK(i)
    BY <2>1, <2>2 DEF EventOK
  <2> QED
    BY <2>1, <2>2, <2>3 DEF ReadOK, WriteOK, ListOK
<1> QED
  BY <1>1, KqueueInvariant, PTL
=============================================================================
