--------------------------- MODULE BootstrapProofs ---------------------------
(***************************************************************************)
(* What holds of Bootstrap for all lists of workers, number of values of   *)
(* the index and bounds: how often finalize asks a worker to stop, and     *)
(* that it leaves no thread behind.                                        *)
(***************************************************************************)
EXTENDS Bootstrap, SequenceTheorems, TLAPS

-----------------------------------------------------------------------------
(* The inductive invariant. *)

\* The workers whose threads the constructor starts.
Put == ToSet(Boss) \cup IF shared THEN {} ELSE ToSet(Child)

\* Those that a walk through both groups has yet to come to.
Left == ToSet(walk.rest) \cup IF walk.name = "boss" /\ ~shared THEN ToSet(Child) ELSE {}

\* What is left of a list is a part of it, without repetitions; a shared group is walked
\* through twice only by the constructor.
WalkInv ==
  /\ IsInjective(walk.rest)
  /\ ToSet(walk.rest) \subseteq ToSet(Loops(walk.name))
  /\ shared /\ at # "wait" => walk.name = "boss"

\* A worker that shutdown_all has yet to come to was not asked before, nor was any
\* before finalize.
ToldInv ==
  /\ OneShutdownEach
  /\ ~ended => \A w \in Workers : told[w] = 0
  /\ at = "shutdown" => \A w \in Left : told[w] = 0
  /\ at \in {"put", "wait"} => ~ended
  /\ at \in {"shutdown", "join", "done"} => ended

\* A worker that join_all is past has stopped, and all have after finalize.
JoinInv ==
  /\ at = "join" => \A w \in Put \ Left : thread[w] = "stopped"
  /\ ended /\ at \in {"serve", "done"} => \A w \in Put : thread[w] = "stopped"

BootInv == TypeOK /\ WalkInv /\ ToldInv /\ JoinInv

-----------------------------------------------------------------------------
(* The lists of workers. *)

\* The two lists are lists of workers, without repetitions and without a worker in common.
LEMMA Lists ==
  /\ Boss \in Seq(Workers) \ {<<>>} /\ Child \in Seq(Workers) \ {<<>>}
  /\ IsInjective(Boss) /\ IsInjective(Child)
  /\ ToSet(Boss) \cap ToSet(Child) = {}
  /\ Workers = ToSet(Boss) \cup ToSet(Child)
<1> DEFINE S == ToSet(Boss)
           T == ToSet(Child)
           U == S \cup T
           all == Boss \o Child
<1>1. Boss \in Seq(S) /\ Child \in Seq(T) /\ Boss # <<>> /\ Child # <<>> /\ IsInjective(all)
  BY BootAssumption
<1>2. \A i \in DOMAIN Boss : Boss[i] \in S
  BY DEF ToSet
<1>3. \A i \in DOMAIN Child : Child[i] \in T
  BY DEF ToSet
<1>4. S = {Boss[i] : i \in DOMAIN Boss} /\ T = {Child[i] : i \in DOMAIN Child}
  BY DEF ToSet
<1>5. ToSet(all) = {all[i] : i \in DOMAIN all} /\ Workers = ToSet(all)
  BY DEF ToSet, Workers
<1> HIDE DEF S, T, all
<1>6. Boss \in Seq(U) /\ Child \in Seq(U)
  BY <1>1, SeqMonotonic
<1>7. /\ all \in Seq(U) /\ Len(all) = Len(Boss) + Len(Child)
      /\ \A i \in 1 .. Len(Boss) + Len(Child) :
           all[i] = IF i <= Len(Boss) THEN Boss[i] ELSE Child[i - Len(Boss)]
  BY <1>6, ConcatProperties DEF all
<1>8. /\ Len(Boss) \in Nat /\ DOMAIN Boss = 1 .. Len(Boss)
      /\ Len(Child) \in Nat /\ DOMAIN Child = 1 .. Len(Child)
      /\ DOMAIN all = 1 .. Len(Boss) + Len(Child)
  BY <1>6, <1>7, LenProperties
<1>9. \A i \in DOMAIN Boss : i \in DOMAIN all /\ all[i] = Boss[i]
  BY <1>7, <1>8
<1>10. \A i \in DOMAIN Child : Len(Boss) + i \in DOMAIN all /\ all[Len(Boss) + i] = Child[i]
  <2>1. ASSUME NEW i \in 1 .. Len(Child)
        PROVE  /\ Len(Boss) + i \in 1 .. Len(Boss) + Len(Child)
               /\ ~(Len(Boss) + i <= Len(Boss)) /\ (Len(Boss) + i) - Len(Boss) = i
    BY <1>8
  <2> QED
    BY <1>7, <1>8, <2>1
<1>11. IsInjective(Boss)
  BY <1>1, <1>9 DEF IsInjective
<1>12. IsInjective(Child)
  <2>1. ASSUME NEW i \in DOMAIN Child, NEW j \in DOMAIN Child, Child[i] = Child[j] PROVE i = j
    <3>1. Len(Boss) + i = Len(Boss) + j
      BY <1>1, <1>10, <2>1 DEF IsInjective
    <3> QED
      BY <1>8, <3>1
  <2> QED
    BY <2>1 DEF IsInjective
<1>13. S \cap T = {}
  <2>1. ASSUME NEW i \in DOMAIN Boss, NEW j \in DOMAIN Child, Boss[i] = Child[j] PROVE FALSE
    <3>1. i = Len(Boss) + j
      BY <1>1, <1>9, <1>10, <2>1 DEF IsInjective
    <3> QED
      BY <1>8, <3>1
  <2> QED
    BY <1>4, <2>1
<1>14. Workers = U
  <2>1. U \subseteq Workers
    BY <1>4, <1>5, <1>9, <1>10
  <2>2. Workers \subseteq U
    BY <1>5, <1>7, <1>8, ElementOfSeq
  <2> QED
    BY <2>1, <2>2
<1> QED
  BY <1>1, <1>6, <1>11, <1>12, <1>13, <1>14 DEF S, T

\* What is left of a list without repetitions once its head is done.
LEMMA HeadDone ==
  ASSUME NEW s \in Seq(Workers) \ {<<>>}, IsInjective(s)
  PROVE  /\ Head(s) \in ToSet(s) /\ ToSet(s) \subseteq Workers
         /\ Len(s) > 1 => /\ Tail(s) \in Seq(Workers) \ {<<>>} /\ IsInjective(Tail(s))
                          /\ ToSet(Tail(s)) = ToSet(s) \ {Head(s)}
         /\ ~(Len(s) > 1) => ToSet(s) = {Head(s)}
<1>1. Len(s) \in Nat /\ DOMAIN s = 1 .. Len(s) /\ Len(s) # 0
  BY LenProperties, EmptySeq
<1>2. Head(s) = s[1] /\ 1 \in DOMAIN s
  BY <1>1
<1>3. Head(s) \in ToSet(s)
  BY <1>2 DEF ToSet
<1>4. ToSet(s) \subseteq Workers
  BY <1>1, ElementOfSeq DEF ToSet
<1>5. ASSUME Len(s) > 1
      PROVE  /\ Tail(s) \in Seq(Workers) \ {<<>>} /\ IsInjective(Tail(s))
             /\ ToSet(Tail(s)) = ToSet(s) \ {Head(s)}
  <2> DEFINE t == Tail(s)
  <2>1. /\ t \in Seq(Workers) /\ Len(t) = Len(s) - 1
        /\ \A i \in 1 .. Len(t) : t[i] = s[i + 1]
    BY HeadTailProperties
  <2> HIDE DEF t
  <2>2. DOMAIN t = 1 .. Len(s) - 1 /\ t # <<>>
    BY <1>1, <1>5, <2>1, LenProperties
  <2>3. \A i \in DOMAIN t : i + 1 \in DOMAIN s /\ i + 1 # 1 /\ t[i] = s[i + 1]
    BY <1>1, <2>1, <2>2
  <2>4. \A j \in DOMAIN s : j # 1 => j - 1 \in DOMAIN t /\ t[j - 1] = s[j]
    <3>1. \A j \in DOMAIN s : j # 1 => j - 1 \in DOMAIN t /\ (j - 1) + 1 = j
      BY <1>1, <2>2
    <3> QED
      BY <2>3, <3>1
  <2>5. \A i, j \in DOMAIN t : i + 1 = j + 1 => i = j
    BY <2>2
  <2>6. IsInjective(t)
    BY <2>3, <2>5 DEF IsInjective
  <2>7. ToSet(t) \subseteq ToSet(s) \ {Head(s)}
    BY <1>2, <2>3 DEF IsInjective, ToSet
  <2>8. ToSet(s) \ {Head(s)} \subseteq ToSet(t)
    BY <1>2, <2>4 DEF ToSet
  <2> QED
    BY <2>1, <2>2, <2>6, <2>7, <2>8 DEF t
<1>6. ASSUME ~(Len(s) > 1) PROVE ToSet(s) = {Head(s)}
  <2>1. DOMAIN s = {1}
    BY <1>1, <1>6
  <2> QED
    BY <1>2, <2>1 DEF ToSet
<1> QED
  BY <1>3, <1>4, <1>5, <1>6

-----------------------------------------------------------------------------
(* Walks. *)

Phases == {"put", "wait", "serve", "shutdown", "join", "done"}

\* A walk that begins has the whole of its lists before it.
LEMMA Begins ==
  ASSUME TypeOK, NEW phase \in Phases, Begin(phase, "boss"), shared' = shared
  PROVE  /\ at' = phase /\ walk' \in [name : Names, rest : Seq(Workers) \ {<<>>}]
         /\ WalkInv' /\ Left' = Put
<1>1. at' = phase /\ walk' = [name |-> "boss", rest |-> Boss]
  BY DEF Begin, Loops
<1>2. walk'.name = "boss" /\ walk'.rest = Boss
  BY <1>1
<1>3. walk' \in [name : Names, rest : Seq(Workers) \ {<<>>}]
  BY <1>1, Lists DEF Names
<1>4. WalkInv'
  BY <1>2, Lists DEF WalkInv, Loops
<1>5. Left' = Put
  BY <1>2 DEF Left, Put
<1> QED
  BY <1>1, <1>3, <1>4, <1>5

\* A walk goes on with one worker less, or is over and gives way to the next.
LEMMA Walks ==
  ASSUME TypeOK, WalkInv, NEW both \in BOOLEAN, NEW then \in Phases, GoOn(both, then),
         shared' = shared, both = ~shared \/ at = "wait"
  PROVE  /\ at' \in {at, then} /\ walk' \in [name : Names, rest : Seq(Workers) \ {<<>>}]
         /\ WalkInv' /\ Here \in Left /\ Here \in Workers
         /\ \/ at' = at /\ (both = ~shared => Left' = Left \ {Here})
            \/ at' = then /\ Left' = Put /\ (both = ~shared => Left = {Here})
<1> DEFINE rest == walk.rest
<1>0. rest \in Seq(Workers) \ {<<>>} /\ walk.name \in Names /\ IsInjective(rest)
  BY DEF TypeOK, WalkInv
<1>1. /\ Here \in ToSet(rest) /\ ToSet(rest) \subseteq Workers
      /\ Len(rest) > 1 => /\ Tail(rest) \in Seq(Workers) \ {<<>>} /\ IsInjective(Tail(rest))
                          /\ ToSet(Tail(rest)) = ToSet(rest) \ {Here}
      /\ ~(Len(rest) > 1) => ToSet(rest) = {Here}
  BY <1>0, HeadDone DEF Here
<1>2. Here \in Left /\ Here \in Workers
  BY <1>1 DEF Left
<1>3. walk.name = "boss" /\ ~shared => Here \notin ToSet(Child)
  BY <1>1, Lists DEF WalkInv, Loops
<1>4. CASE Len(rest) > 1
  <2>1. at' = at /\ walk' = [walk EXCEPT !.rest = Tail(rest)]
    BY <1>4 DEF GoOn
  <2>2. walk'.name = walk.name /\ walk'.rest = Tail(rest)
    BY <2>1 DEF TypeOK
  <2>3. walk' \in [name : Names, rest : Seq(Workers) \ {<<>>}]
    BY <1>1, <1>4, <2>1 DEF TypeOK
  <2>4. WalkInv'
    BY <1>1, <1>4, <2>1, <2>2 DEF WalkInv, Loops
  <2>5. Left' = Left \ {Here}
    BY <1>1, <1>3, <1>4, <2>2 DEF Left
  <2> QED
    BY <1>2, <2>1, <2>3, <2>4, <2>5
<1>5. CASE ~(Len(rest) > 1) /\ walk.name = "boss" /\ both
  <2>1. at' = at /\ walk' = [name |-> "child", rest |-> Loops("child")]
    BY <1>5 DEF GoOn, Begin
  <2>2. walk'.name = "child" /\ walk'.rest = Loops("child")
    BY <2>1
  <2>3. Loops("child") \in Seq(Workers) \ {<<>>} /\ IsInjective(Loops("child"))
    BY Lists DEF Loops
  <2>4. walk' \in [name : Names, rest : Seq(Workers) \ {<<>>}]
    BY <2>1, <2>3 DEF Names
  <2>5. WalkInv'
    BY <1>5, <2>1, <2>2, <2>3 DEF WalkInv, Loops
  <2>6. ASSUME both = ~shared PROVE Left' = Left \ {Here}
    <3>1. Left = {Here} \cup ToSet(Child)
      BY <1>1, <1>5, <2>6 DEF Left
    <3>2. Left' = ToSet(Child)
      BY <1>5, <2>2, <2>6 DEF Left, Loops
    <3> QED
      BY <1>3, <1>5, <2>6, <3>1, <3>2
  <2> QED
    BY <1>2, <2>1, <2>4, <2>5, <2>6
<1>6. CASE ~(Len(rest) > 1) /\ ~(walk.name = "boss" /\ both)
  <2>1. Begin(then, "boss")
    BY <1>6 DEF GoOn
  <2>2. both = ~shared => Left = {Here}
    BY <1>1, <1>6 DEF Left
  <2> QED
    BY <1>2, <2>1, <2>2, Begins
<1> QED
  BY <1>4, <1>5, <1>6

-----------------------------------------------------------------------------
(* The steps. *)

\* Counters, one of which goes up.
LEMMA CountUp ==
  ASSUME NEW S, NEW f \in [S -> Nat], NEW w
  PROVE  [f EXCEPT ![w] = @ + 1] \in [S -> Nat]
<1>1. CASE w \in S
  <2>1. f[w] + 1 \in Nat
    BY <1>1
  <2> QED
    BY <1>1, <2>1
<1>2. CASE w \notin S
  <2> DEFINE n == f[w] + 1
  <2> HIDE DEF n
  <2>1. [f EXCEPT ![w] = n] = f
    BY <1>2
  <2> QED
    BY <2>1 DEF n
<1> QED
  BY <1>1, <1>2

\* The types of what counts, apart.
LEMMA Counters ==
  ASSUME TypeOK
  PROVE  requests \in [Workers -> Nat] /\ assigned \in [Workers -> Nat] /\ told \in [Workers -> Nat]
BY DEF TypeOK

\* next() gives one of the workers of a group a channel.
LEMMA AssignType ==
  ASSUME TypeOK, NEW name \in Names, Assign(name)
  PROVE  /\ index' \in [Names -> 0 .. IndexMod - 1]
         /\ assigned' \in [Workers -> Nat] /\ calls' \in [Names -> Nat]
<1>1. Group(name) \in Names
  BY DEF Group, Names
<1>2. \A i \in 0 .. IndexMod - 1 : (i + 1) % IndexMod \in 0 .. IndexMod - 1
  BY BootAssumption
<1>3. index' \in [Names -> 0 .. IndexMod - 1]
  BY <1>1, <1>2 DEF Assign, IndexAfter, TypeOK
<1>4. assigned' \in [Workers -> Nat]
  BY Counters, CountUp DEF Assign
<1>5. calls' \in [Names -> Nat]
  BY CountUp DEF Assign, TypeOK
<1> QED
  BY <1>3, <1>4, <1>5

\* The invariant holds at first.
LEMMA InitStep == Init => BootInv
<1> SUFFICES ASSUME Init PROVE BootInv
  OBVIOUS
<1>1. walk.name = "boss" /\ walk.rest = Boss
  BY DEF Init
<1>2. TypeOK
  <2>1. walk \in [name : Names, rest : Seq(Workers) \ {<<>>}]
    BY Lists DEF Init, Names
  <2>2. 0 \in 0 .. IndexMod - 1 /\ 0 \in Nat
    BY BootAssumption
  <2> QED
    BY <2>1, <2>2 DEF Init, TypeOK
<1>3. WalkInv
  BY <1>1, Lists DEF WalkInv, Loops
<1>4. ToldInv
  BY DEF Init, ToldInv, OneShutdownEach
<1>5. JoinInv
  BY DEF Init, JoinInv
<1> QED
  BY <1>2, <1>3, <1>4, <1>5 DEF BootInv

\* Every action keeps the invariant.
LEMMA InvStep == BootInv /\ [Next]_vars => BootInv'
<1> SUFFICES ASSUME BootInv, [Next]_vars PROVE BootInv'
  OBVIOUS
<1> USE DEF mainVars, nextVars, stopVars, flagVars
<1>0. TypeOK /\ WalkInv /\ ToldInv /\ JoinInv
  BY DEF BootInv
<1>1. CASE PutWorker
  <2>1. GoOn(~shared, "wait") /\ at = "put" /\ shared' = shared
    BY <1>1 DEF PutWorker
  <2>2. /\ at' \in {"put", "wait"} /\ walk' \in [name : Names, rest : Seq(Workers) \ {<<>>}]
        /\ WalkInv'
    BY <1>0, <2>1, Walks DEF Phases, TypeOK
  <2>3. TypeOK'
    BY <1>0, <1>1, <2>1, <2>2 DEF PutWorker, TypeOK
  <2>4. ToldInv' /\ JoinInv'
    BY <1>0, <1>1, <2>2 DEF PutWorker, ToldInv, JoinInv, OneShutdownEach
  <2> QED
    BY <2>2, <2>3, <2>4 DEF BootInv
<1>2. CASE WaitForWorker
  <2>1. GoOn(TRUE, "serve") /\ at = "wait" /\ shared' = shared
    BY <1>2 DEF WaitForWorker
  <2>2. /\ at' \in {"wait", "serve"} /\ walk' \in [name : Names, rest : Seq(Workers) \ {<<>>}]
        /\ WalkInv'
    BY <1>0, <2>1, Walks DEF Phases, TypeOK
  <2>3. TypeOK'
    BY <1>0, <1>2, <2>1, <2>2 DEF WaitForWorker, TypeOK
  <2>4. ToldInv' /\ JoinInv'
    BY <1>0, <1>2, <2>2 DEF WaitForWorker, ToldInv, JoinInv, OneShutdownEach
  <2> QED
    BY <2>2, <2>3, <2>4 DEF BootInv
<1>3. CASE Finalize
  <2> DEFINE phase == IF ended THEN "done" ELSE IF success THEN "join" ELSE "shutdown"
  <2>1. Begin(phase, "boss") /\ at = "serve" /\ shared' = shared /\ ended'
    BY <1>3 DEF Finalize, EndedBefore
  <2>2. phase \in Phases /\ phase \in {"done", "join", "shutdown"} /\ (phase = "done" <=> ended)
    BY DEF Phases
  <2> HIDE DEF phase
  <2>3. /\ at' = phase /\ walk' \in [name : Names, rest : Seq(Workers) \ {<<>>}]
        /\ WalkInv' /\ Left' = Put /\ Put' = Put
    BY <1>0, <2>1, <2>2, Begins DEF Put
  <2>4. TypeOK'
    BY <1>0, <1>3, <2>1, <2>2, <2>3 DEF Finalize, TypeOK, Phases
  <2>5. Left' \subseteq Workers
    BY <2>3, Lists DEF Put
  <2>6. ToldInv'
    BY <1>0, <1>3, <2>1, <2>2, <2>3, <2>5 DEF Finalize, ToldInv, OneShutdownEach
  <2>7. JoinInv'
    BY <1>0, <1>3, <2>1, <2>2, <2>3 DEF Finalize, JoinInv
  <2> QED
    BY <2>3, <2>4, <2>6, <2>7 DEF BootInv
<1>4. CASE ShutdownWorker
  <2>1. GoOn(~shared, "join") /\ at = "shutdown" /\ shared' = shared /\ Put' = Put
    BY <1>4 DEF ShutdownWorker, Distinct, Put
  <2>2. /\ at' \in {"shutdown", "join"} /\ walk' \in [name : Names, rest : Seq(Workers) \ {<<>>}]
        /\ WalkInv' /\ Here \in Left /\ Here \in Workers
        /\ \/ at' = "shutdown" /\ Left' = Left \ {Here}
           \/ at' = "join" /\ Left' = Put
    BY <1>0, <2>1, Walks DEF Phases, TypeOK
  <2>3. TypeOK'
    <3>1. requests' \in [Workers -> Nat] /\ told' \in [Workers -> Nat]
      BY <1>0, <1>4, Counters, CountUp DEF ShutdownWorker
    <3> QED
      BY <1>0, <1>4, <2>1, <2>2, <3>1 DEF ShutdownWorker, TypeOK
  <2>4. /\ told' \in [Workers -> Nat] /\ told'[Here] = told[Here] + 1
        /\ \A w \in Workers \ {Here} : told'[w] = told[w]
        /\ told[Here] = 0 /\ ended' = ended /\ ended
    BY <1>0, <1>4, <2>2, Counters, CountUp DEF ShutdownWorker, ToldInv
  <2>5. Left \subseteq Workers
    BY <1>0, HeadDone, Lists DEF TypeOK, WalkInv, Left
  <2>6. OneShutdownEach'
    BY <1>0, <2>4 DEF ToldInv, OneShutdownEach
  <2>7. ToldInv'
    <3>1. ASSUME at' = "shutdown" PROVE \A w \in Left' : told'[w] = 0
      <4>1. Left' = Left \ {Here} /\ at = "shutdown"
        BY <1>4, <2>2, <3>1 DEF ShutdownWorker
      <4> QED
        BY <1>0, <2>4, <2>5, <4>1 DEF ToldInv
    <3> QED
      BY <2>2, <2>4, <2>6, <3>1 DEF ToldInv
  <2>8. JoinInv'
    BY <1>0, <2>1, <2>2 DEF JoinInv
  <2> QED
    BY <2>2, <2>3, <2>7, <2>8 DEF BootInv
<1>5. CASE JoinWorker
  <2>1. GoOn(~shared, "serve") /\ at = "join" /\ shared' = shared /\ Put' = Put
    BY <1>5 DEF JoinWorker, Distinct, Put
  <2>2. /\ at' \in {"join", "serve"} /\ walk' \in [name : Names, rest : Seq(Workers) \ {<<>>}]
        /\ WalkInv' /\ Here \in Left /\ Here \in Workers
        /\ \/ at' = "join" /\ Left' = Left \ {Here}
           \/ at' = "serve" /\ Left = {Here}
    BY <1>0, <2>1, Walks DEF Phases, TypeOK
  <2>3. TypeOK'
    BY <1>0, <1>5, <2>1, <2>2 DEF JoinWorker, TypeOK
  <2>4. thread' = thread /\ thread[Here] = "stopped" /\ UNCHANGED <<told, ended>>
    BY <1>5 DEF JoinWorker, Joined
  <2>5. ToldInv'
    BY <1>0, <2>1, <2>2, <2>4 DEF ToldInv, OneShutdownEach
  <2>6. JoinInv'
    BY <1>0, <2>1, <2>2, <2>4 DEF JoinInv
  <2> QED
    BY <2>2, <2>3, <2>5, <2>6 DEF BootInv
<1>6. ASSUME UNCHANGED <<mainVars, told, ended>>, TypeOK',
             \A w \in Workers : thread[w] = "stopped" => thread'[w] = "stopped"
      PROVE  BootInv'
  <2>1. WalkInv'
    BY <1>0, <1>6 DEF WalkInv, Loops
  <2>2. Left' = Left /\ Put' = Put /\ Put \subseteq Workers
    BY <1>6, Lists DEF Left, Put
  <2>3. ToldInv'
    BY <1>0, <1>6, <2>2 DEF ToldInv, OneShutdownEach
  <2>4. JoinInv'
    BY <1>0, <1>6, <2>2 DEF JoinInv
  <2> QED
    BY <1>6, <2>1, <2>3, <2>4 DEF BootInv
<1>7. ASSUME \/ \E name \in Names : StartChannel(name)
             \/ \E w \in Workers : Accept(w)
      PROVE  BootInv'
  <2>1. PICK name \in Names : Assign(name)
    BY <1>7 DEF StartChannel, Accept, Names
  <2>2. /\ index' \in [Names -> 0 .. IndexMod - 1]
        /\ assigned' \in [Workers -> Nat] /\ calls' \in [Names -> Nat]
    BY <1>0, <2>1, AssignType
  <2>3. TypeOK'
    BY <1>0, <1>7, <2>2 DEF StartChannel, Accept, TypeOK
  <2> QED
    BY <1>6, <1>7, <2>3 DEF StartChannel, Accept
<1>8. CASE SetSuccess
  <2>1. TypeOK'
    BY <1>0, <1>8 DEF SetSuccess, TypeOK
  <2> QED
    BY <1>6, <1>8, <2>1 DEF SetSuccess
<1>9. ASSUME NEW w \in Workers, StartLoop(w) \/ ReadRequests(w) PROVE BootInv'
  <2>1. TypeOK'
    <3>1. requests' \in [Workers -> Nat]
      BY <1>0, <1>9, Counters DEF StartLoop, ReadRequests
    <3>2. thread' \in [Workers -> {"none", "new", "active", "stopped"}]
      BY <1>0, <1>9 DEF StartLoop, ReadRequests, TypeOK
    <3> QED
      BY <1>0, <1>9, <3>1, <3>2 DEF StartLoop, ReadRequests, TypeOK
  <2>2. \A v \in Workers : thread[v] = "stopped" => thread'[v] = "stopped"
    BY <1>0, <1>9 DEF StartLoop, ReadRequests, TypeOK
  <2> QED
    BY <1>6, <1>9, <2>1, <2>2 DEF StartLoop, ReadRequests
<1>10. ASSUME NEW v \in Workers, NEW w \in Workers, HandlerStops(v, w) PROVE BootInv'
  <2>1. TypeOK'
    <3>1. requests' \in [Workers -> Nat]
      BY <1>0, <1>10, Counters, CountUp DEF HandlerStops
    <3>2. stops' \in Nat
      BY <1>0, <1>10 DEF HandlerStops, TypeOK
    <3> QED
      BY <1>0, <1>10, <3>1, <3>2 DEF HandlerStops, TypeOK
  <2> QED
    BY <1>6, <1>10, <2>1 DEF HandlerStops
<1>11. CASE UNCHANGED vars
  <2>1. TypeOK'
    BY <1>0, <1>11 DEF vars, TypeOK
  <2> QED
    BY <1>6, <1>11, <2>1 DEF vars
<1> QED
  BY <1>1, <1>2, <1>3, <1>4, <1>5, <1>7, <1>8, <1>9, <1>10, <1>11 DEF Next, MainWalks

-----------------------------------------------------------------------------
(* The theorems. *)

\* The invariant holds in every behaviour.
THEOREM Invariant == Spec => []BootInv
BY InitStep, InvStep, PTL DEF Spec

\* Every variable keeps its type.
THEOREM BootTypeCorrect == Spec => []TypeOK
<1>1. BootInv => TypeOK
  BY DEF BootInv
<1> QED
  BY <1>1, Invariant, PTL

\* finalize asks a worker to stop at most once, whichever groups it was given.
THEOREM ToldOnce == Spec => []OneShutdownEach
<1>1. BootInv => OneShutdownEach
  BY DEF BootInv, ToldInv
<1> QED
  BY <1>1, Invariant, PTL

\* When the bootstrap is destroyed, the threads of all its workers have stopped.
THEOREM AllJoined == Spec => []NoThreadLeft
<1>1. BootInv => NoThreadLeft
  <2> SUFFICES ASSUME BootInv, at = "done", NEW name \in Names, NEW w \in ToSet(Loops(name))
               PROVE  thread[w] = "stopped"
    BY DEF NoThreadLeft
  <2>1. \A v \in Put : thread[v] = "stopped"
    BY DEF BootInv, ToldInv, JoinInv
  <2>2. w \in Put
    BY DEF Put, Loops
  <2> QED
    BY <2>1, <2>2
<1> QED
  BY <1>1, Invariant, PTL
=============================================================================
