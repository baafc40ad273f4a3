-------------------------- MODULE DescriptorsProofs --------------------------
(***************************************************************************)
(* What holds of Descriptors for every set of channels, numbers of         *)
(* descriptors, candidates and bound: who owns a descriptor, who is        *)
(* reached by an event, and what is released.                              *)
(***************************************************************************)
EXTENDS Descriptors, SequenceTheorems, TLAPS

-----------------------------------------------------------------------------
(* The inductive invariant. *)

\* start_client has a descriptor or a channel, not both, and at most one; and so has begin_read.
StartInv ==
  /\ start.fd # {} => start.at \in {"trying", "connected", "named"}
  /\ start.ch # {} => start.at = "made"
  /\ \A f, g \in start.fd : f = g
  /\ accept.fd # {} => accept.ch = {} /\ ~accept.threw
  /\ \A f, g \in accept.fd : f = g
  /\ start.at = "idle" => start.tried = 0

\* The descriptors that no channel has, and that each is in one hand at most.
Unowned == InHand \cup lost
Apart == start.fd \cap accept.fd = {} /\ InHand \cap lost = {}

\* Every open descriptor has one owner.
OwnInv ==
  /\ DescriptorOwned
  /\ NoLeak
  /\ Unowned \subseteq open
  /\ Apart

\* The channels that exist are those that something refers to, and a worker has its
\* channels under their own descriptors.
HeldInv ==
  /\ exists = Held
  /\ removed \subseteq DOMAIN ident
  /\ \A f \in DOMAIN channels : ident[channels[f]] = f

\* What the loop thread holds depends on where it is.
LoopInv ==
  /\ cur # {} => pc \in {"event", "task"}
  /\ snapshot # <<>> => pc \in {"run", "task"}
  /\ closed => pc \in {"run", "task", "stopped", "destroyed"}
  /\ batch # {} => pc \in {"dispatch", "accept", "event"}
  /\ sameLoop /\ accept # NoChild => pc = "accept"

\* An event not yet dispatched is of a channel that has kept its descriptor: the worker
\* has it, or its on_inactive is queued.
BatchInv ==
  \A e \in batch :
    /\ e.ch \in Range(channels) \cup TaskChans(tasks)
    /\ ident[e.ch] = e.fd

\* The channels that were not yet given to loop_register.
Fresh == start.ch \cup accept.ch
\* The channels that the worker has or had.
Known == Range(channels) \cup removed

Registers(q, i, c) == i \in DOMAIN q /\ q[i].op = "register" /\ q[i].ch = c

\* At most one task is left that registers c, and none if c was not given to
\* loop_register, or has been added.
RegisteredOnce(c) ==
  /\ \A i \in Nat : Registers(tasks, i, c) => c \notin Fresh \cup Known
  /\ \A i \in Nat : i >= next /\ Registers(snapshot, i, c) => c \notin Fresh \cup Known
  /\ \A i, j \in Nat : Registers(tasks, i, c) /\ Registers(tasks, j, c) => i = j
  /\ \A i, j \in Nat :
       i >= next /\ j >= next /\ Registers(snapshot, i, c) /\ Registers(snapshot, j, c) => i = j
  /\ \A i, j \in Nat : i >= next /\ Registers(snapshot, i, c) => ~Registers(tasks, j, c)

\* A channel is registered once.
OnceInv ==
  /\ start.ch \cap accept.ch = {}
  /\ Fresh \cap Known = {}
  /\ Range(channels) \cap removed = {}
  /\ \A c \in Chans : RegisteredOnce(c)

DescInv ==
  /\ TypeOK /\ StartInv /\ OwnInv /\ HeldInv /\ LoopInv /\ BatchInv /\ OnceInv

-----------------------------------------------------------------------------
(* Tasks. *)

\* The channels of a list of tasks are channels, and an empty list has none.
LEMMA TaskChansType ==
  /\ \A q \in Seq(Task) : TaskChans(q) \subseteq Chans
  /\ TaskChans(<<>>) = {}
<1>1. ASSUME NEW q \in Seq(Task) PROVE TaskChans(q) \subseteq Chans
  <2>1. \A i \in DOMAIN q : q[i] \in Task
    BY ElementOfSeq, LenProperties
  <2> QED
    BY <2>1 DEF TaskChans, Task
<1>2. TaskChans(<<>>) = {}
  BY DEF TaskChans
<1> QED
  BY <1>1, <1>2

\* offer_task puts a task last, unless the executor is closed.
LEMMA Offered ==
  ASSUME tasks \in Seq(Task), NEW t \in Task
  PROVE  LET q == Offer(<<t>>) IN
         /\ q \in Seq(Task)
         /\ closed => q = tasks
         /\ ~closed => /\ DOMAIN q = DOMAIN tasks \cup {Len(tasks) + 1}
                       /\ Len(tasks) + 1 \notin DOMAIN tasks
                       /\ q[Len(tasks) + 1] = t
                       /\ \A i \in DOMAIN tasks : q[i] = tasks[i]
                       /\ TaskChans(q) = TaskChans(tasks) \cup {t.ch}
<1> DEFINE q == tasks \o <<t>>
<1>1. <<t>> \in Seq(Task) /\ Len(<<t>>) = 1 /\ <<t>>[1] = t /\ Len(tasks) \in Nat
  BY LenProperties
<1>2. /\ q \in Seq(Task) /\ Len(q) = Len(tasks) + 1
      /\ \A i \in 1 .. Len(tasks) + 1 : q[i] = IF i <= Len(tasks) THEN tasks[i] ELSE <<t>>[i - Len(tasks)]
  BY <1>1, ConcatProperties
<1>3. Offer(<<t>>) = IF closed THEN tasks ELSE q
  BY DEF Offer
<1> HIDE DEF q
<1>4. DOMAIN tasks = 1 .. Len(tasks) /\ DOMAIN q = 1 .. Len(tasks) + 1
  BY <1>2, LenProperties
<1>5. q[Len(tasks) + 1] = t /\ \A i \in DOMAIN tasks : q[i] = tasks[i]
  BY <1>1, <1>2, <1>4
<1>6. DOMAIN q = DOMAIN tasks \cup {Len(tasks) + 1} /\ Len(tasks) + 1 \notin DOMAIN tasks
  BY <1>1, <1>4
<1>7. TaskChans(q) = TaskChans(tasks) \cup {t.ch}
  BY <1>5, <1>6 DEF TaskChans
<1> QED
  BY <1>2, <1>3, <1>5, <1>6, <1>7

-----------------------------------------------------------------------------
(* Types. *)

\* The three kinds of task are tasks.
LEMMA TaskTypes ==
  ASSUME NEW c \in Chans
  PROVE  /\ [op |-> "register", ch |-> c] \in Task
         /\ [op |-> "inactive", ch |-> c] \in Task
         /\ [op |-> "work", ch |-> c] \in Task
BY DEF Task

\* Whatever a step gives up, what it opens and makes keeps the types.
LEMMA SettleType ==
  ASSUME TypeOK, NEW made, NEW opened \in SUBSET Fds, NEW shut, Settle(made, opened, shut)
  PROVE  open' \subseteq Fds /\ exists' \subseteq exists \cup made
BY DEF Settle, TypeOK

\* A step that makes and opens nothing.
LEMMA ReleaseType ==
  ASSUME TypeOK, Release
  PROVE  open' \subseteq Fds /\ exists' \subseteq exists /\ ident' = ident
BY DEF Release, Settle, TypeOK

\* add_channel and remove_channel keep a worker's channels a dictionary.
LEMMA AddedType ==
  ASSUME TypeOK, NEW c \in DOMAIN ident
  PROVE  /\ DOMAIN Added(c) = DOMAIN channels \cup {ident[c]} /\ DOMAIN Added(c) \subseteq Fds
         /\ Range(Added(c)) \subseteq Range(channels) \cup {c}
         /\ Range(Added(c)) \subseteq Chans
         /\ Range(channels) \subseteq Range(Added(c))
         /\ \A f \in DOMAIN channels : Added(c)[f] = channels[f]
         /\ ident[c] \notin DOMAIN channels => Added(c)[ident[c]] = c /\ c \in Range(Added(c))
<1> DEFINE a == Added(c)
<1>1. ident[c] \in Fds
  BY DEF TypeOK, Range
<1>2. DOMAIN a = DOMAIN channels \cup {ident[c]}
  BY DEF Added
<1>3. \A f \in DOMAIN a : a[f] = IF f \in DOMAIN channels THEN channels[f] ELSE c
  BY DEF Added
<1> HIDE DEF a
<1>4. DOMAIN a \subseteq Fds
  BY <1>1, <1>2 DEF TypeOK
<1>5. Range(a) \subseteq Range(channels) \cup {c} /\ Range(channels) \subseteq Range(a)
  BY <1>2, <1>3 DEF Range
<1>6. ident[c] \notin DOMAIN channels => a[ident[c]] = c /\ c \in Range(a)
  BY <1>2, <1>3 DEF Range
<1>7. Range(channels) \subseteq Chans /\ c \in Chans
  BY DEF TypeOK
<1>8. Range(a) \subseteq Chans
  BY <1>5, <1>7
<1> QED
  BY <1>2, <1>3, <1>4, <1>5, <1>6, <1>8 DEF a

\* The entry of the channel goes, and the others stay.
LEMMA RemovedType ==
  ASSUME TypeOK, NEW c
  PROVE  /\ DOMAIN Removed(c) = DOMAIN channels \ {ident[c]} /\ DOMAIN Removed(c) \subseteq Fds
         /\ Range(Removed(c)) \subseteq Range(channels) /\ Range(Removed(c)) \subseteq Chans
         /\ \A f \in DOMAIN Removed(c) : Removed(c)[f] = channels[f]
<1>1. /\ DOMAIN Removed(c) = DOMAIN channels \ {ident[c]}
      /\ \A f \in DOMAIN Removed(c) : Removed(c)[f] = channels[f]
  BY DEF Removed
<1>2. Range(Removed(c)) \subseteq Range(channels)
  BY <1>1 DEF Range
<1>3. Range(channels) \subseteq Chans /\ DOMAIN channels \subseteq Fds
  BY DEF TypeOK
<1> QED
  BY <1>1, <1>2, <1>3

\* A new channel has its descriptor, and the others keep theirs.
LEMMA IdentType ==
  ASSUME TypeOK, NEW c \in Chans, NEW f \in Fds,
         Constructed(c, {f})
  PROVE  /\ DOMAIN ident' = DOMAIN ident \cup {c} /\ DOMAIN ident' \subseteq Chans
         /\ Range(ident') \subseteq Fds
         /\ ident'[c] = f
         /\ \A d \in DOMAIN ident \ {c} : ident'[d] = ident[d]
<1>1. ident' = [d \in DOMAIN ident \cup {c} |-> IF d = c THEN f ELSE ident[d]]
  BY DEF Constructed
<1>2. DOMAIN ident' = DOMAIN ident \cup {c} /\ DOMAIN ident \subseteq Chans
  BY <1>1 DEF TypeOK
<1>3. ident'[c] = f /\ \A d \in DOMAIN ident \ {c} : ident'[d] = ident[d]
  BY <1>1
<1>4. \A d \in DOMAIN ident : ident[d] \in Fds
  BY DEF TypeOK, Range
<1>5. \A d \in DOMAIN ident' : ident'[d] \in Fds
  BY <1>2, <1>3, <1>4
<1> QED
  BY <1>2, <1>3, <1>5 DEF Range

\* Every channel that something refers to was made.
LEMMA HeldMade ==
  ASSUME TypeOK, HeldInv
  PROVE  /\ Held \subseteq DOMAIN ident /\ Held \subseteq Chans
         /\ start.ch \subseteq Held /\ accept.ch \subseteq Held /\ kept \subseteq Held
         /\ cur \subseteq Held /\ Range(channels) \subseteq Held
         /\ TaskChans(tasks) \subseteq Held /\ TaskChans(snapshot) \subseteq Held
         /\ \A i \in DOMAIN snapshot : snapshot[i].ch \in Held /\ snapshot[i] \in Task
<1>1. Held \subseteq DOMAIN ident /\ DOMAIN ident \subseteq Chans
  BY DEF TypeOK, HeldInv
<1>2. \A i \in DOMAIN snapshot : snapshot[i].ch \in TaskChans(snapshot)
  BY DEF TaskChans
<1>3. \A i \in DOMAIN snapshot : snapshot[i] \in Task
  BY LenProperties, ElementOfSeq DEF TypeOK
<1> QED
  BY <1>1, <1>2, <1>3 DEF Held

\* The next task of the list is at `next`.
LEMMA NextTask ==
  ASSUME TypeOK, next <= Len(snapshot)
  PROVE  next \in DOMAIN snapshot /\ snapshot[next] \in Task /\ next + 1 \in 1 .. Len(snapshot) + 1
         /\ next \in Nat
<1>1. DOMAIN snapshot = 1 .. Len(snapshot) /\ Len(snapshot) \in Nat
  BY LenProperties DEF TypeOK
<1>2. next \in 1 .. Len(snapshot)
  BY <1>1 DEF TypeOK
<1> QED
  BY <1>1, <1>2, ElementOfSeq DEF TypeOK

\* Every action keeps the types.
LEMMA TypeStep == DescInv /\ [Next]_vars => TypeOK'
<1> SUFFICES ASSUME DescInv, [Next]_vars PROVE TypeOK'
  OBVIOUS
<1> USE DEF makerVars, loopVars, taskVars, heldVars
<1>0. TypeOK /\ HeldInv /\ StartInv
  BY DEF DescInv
<1>1. ASSUME NEW f \in Fds, OpenSocket(f) PROVE TypeOK'
  <2>1. open' \subseteq Fds /\ exists' \subseteq exists
    BY <1>0, <1>1, SettleType DEF OpenSocket
  <2>2. start.tried + 1 \in 0 .. Candidates
    BY <1>0, <1>1, DescriptorAssumption DEF OpenSocket, StartInv, TypeOK
  <2> QED
    BY <1>0, <1>1, <2>1, <2>2 DEF OpenSocket, TypeOK
<1>2. ASSUME \/ CandidateFails \/ LookupFails \/ Connected \/ SetupFails
             \/ NameFails \/ Named \/ MakeFails \/ StartFails
      PROVE  TypeOK'
  <2>1. open' \subseteq Fds /\ exists' \subseteq exists /\ ident' = ident
    BY <1>0, <1>2, SettleType
    DEF CandidateFails, LookupFails, Connected, SetupFails, NameFails, Named, MakeFails, StartFails,
        Release
  <2>2. Idle.at = "idle" /\ Idle \in [at : {"idle"}, fd : {{}}, ch : {{}}, tried : {0}] /\ 0 \in 0 .. Candidates
    BY DescriptorAssumption DEF Idle
  <2> QED
    BY <1>0, <1>2, <2>1, <2>2
    DEF CandidateFails, LookupFails, Connected, SetupFails, NameFails, Named, MakeFails, StartFails,
        TypeOK
<1>3. ASSUME NEW c \in Chans, MakeChannel(c) PROVE TypeOK'
  <2>1. PICK f \in start.fd : Constructed(c, {f})
    BY <1>3 DEF MakeChannel, Constructed
  <2>2. f \in Fds
    BY <1>0 DEF TypeOK
  <2>3. DOMAIN ident' = DOMAIN ident \cup {c} /\ DOMAIN ident' \subseteq Chans /\ Range(ident') \subseteq Fds
    BY <1>0, <2>1, <2>2, IdentType
  <2>4. open' \subseteq Fds /\ exists' \subseteq exists \cup {c}
    BY <1>0, <1>3, SettleType DEF MakeChannel
  <2> QED
    BY <1>0, <1>3, <2>3, <2>4 DEF MakeChannel, TypeOK
<1>4. ASSUME NEW c \in Chans, RegisterStarted(c) PROVE TypeOK'
  <2>1. open' \subseteq Fds /\ exists' \subseteq exists /\ ident' = ident
    BY <1>0, <1>4, ReleaseType DEF RegisterStarted
  <2>2. Idle \in [at : {"idle"}, fd : {{}}, ch : {{}}, tried : {0}] /\ 0 \in 0 .. Candidates
    BY DescriptorAssumption DEF Idle
  <2>3. tasks' \in Seq(Task)
    BY <1>0, <1>4, TaskTypes, Offered DEF RegisterStarted, Registered, TypeOK
  <2> QED
    BY <1>0, <1>4, <2>1, <2>2, <2>3 DEF RegisterStarted, TypeOK
<1>5. ASSUME NEW c \in Chans, MakeChild(c) PROVE TypeOK'
  <2>1. PICK f \in accept.fd : Constructed(c, {f})
    BY <1>5 DEF MakeChild, Constructed
  <2>2. f \in Fds
    BY <1>0 DEF TypeOK
  <2>3. DOMAIN ident' = DOMAIN ident \cup {c} /\ DOMAIN ident' \subseteq Chans /\ Range(ident') \subseteq Fds
    BY <1>0, <2>1, <2>2, IdentType
  <2>4. open' \subseteq Fds /\ exists' \subseteq exists \cup {c}
    BY <1>0, <1>5, SettleType DEF MakeChild
  <2> QED
    BY <1>0, <1>5, <2>3, <2>4 DEF MakeChild, NoChild, TypeOK
<1>20. ASSUME (\E f \in Fds : AcceptSocket(f)) \/ MakeChildFails PROVE TypeOK'
  <2>1. ASSUME NEW f \in Fds, AcceptSocket(f) PROVE TypeOK'
    <3>0. Settle({}, {f}, {}) /\ ident' = ident
      BY <2>1 DEF AcceptSocket
    <3>1. open' \subseteq Fds /\ exists' \subseteq exists
      BY <1>0, <3>0 DEF Settle, TypeOK
    <3>2. accept' \in [fd : SUBSET Fds, ch : SUBSET Chans, threw : BOOLEAN]
      BY <2>1 DEF AcceptSocket, NoChild
    <3> QED
      BY <1>0, <2>1, <3>0, <3>1, <3>2 DEF AcceptSocket, TypeOK
  <2>2. ASSUME MakeChildFails PROVE TypeOK'
    <3>1. open' \subseteq Fds /\ exists' \subseteq exists /\ ident' = ident
      BY <1>0, <2>2, ReleaseType DEF MakeChildFails
    <3>2. accept' \in [fd : SUBSET Fds, ch : SUBSET Chans, threw : BOOLEAN] /\ lost' \subseteq Fds
      BY <1>0, <2>2 DEF MakeChildFails, NoChild, TypeOK
    <3> QED
      BY <1>0, <2>2, <3>1, <3>2 DEF MakeChildFails, TypeOK
  <2> QED
    BY <1>20, <2>1, <2>2
<1>6. ASSUME NEW c \in Chans, ChildFails(c) PROVE TypeOK'
  <2>1. open' \subseteq Fds /\ exists' \subseteq exists
    <3>1. Settle({}, {}, FailedChild(c))
      BY <1>6 DEF ChildFails
    <3> QED
      BY <1>0, <3>1 DEF Settle, TypeOK
  <2> QED
    BY <1>0, <1>6, <2>1 DEF ChildFails, TypeOK
<1>7. ASSUME ChildDropped PROVE TypeOK'
  <2>1. open' \subseteq Fds /\ exists' \subseteq exists /\ ident' = ident
    BY <1>0, <1>7, ReleaseType DEF ChildDropped
  <2> QED
    BY <1>0, <1>7, <2>1 DEF ChildDropped, TypeOK, NoChild
<1>8. ASSUME NEW c \in Chans, RegisterChild(c) PROVE TypeOK'
  <2>1. open' \subseteq Fds /\ exists' \subseteq exists /\ ident' = ident
    BY <1>0, <1>8, ReleaseType DEF RegisterChild
  <2>2. tasks' \in Seq(Task)
    BY <1>0, <1>8, TaskTypes, Offered DEF RegisterChild, Registered, TypeOK
  <2>3. DOMAIN channels' \subseteq Fds /\ Range(channels') \subseteq Chans
    <3>1. c \in DOMAIN ident
      BY <1>0, <1>8, HeldMade DEF RegisterChild
    <3>2. DOMAIN Added(c) \subseteq Fds /\ Range(Added(c)) \subseteq Chans
      BY <1>0, <3>1, AddedType
    <3>3. channels' = channels \/ channels' = Added(c)
      BY <1>8 DEF RegisterChild
    <3> QED
      BY <1>0, <3>2, <3>3 DEF TypeOK
  <2> QED
    BY <1>0, <1>8, <2>1, <2>2, <2>3 DEF RegisterChild, TypeOK, NoChild
<1>9. ASSUME EpollWait PROVE TypeOK'
  <2>1. open' \subseteq Fds /\ exists' \subseteq exists /\ ident' = ident
    BY <1>0, <1>9, ReleaseType DEF EpollWait
  <2>2. batch' \subseteq Event
    BY <1>0, <1>9 DEF EpollWait, Event, TypeOK, Range
  <2> QED
    BY <1>0, <1>9, <2>1, <2>2 DEF EpollWait, TypeOK
<1>10. ASSUME NEW e \in batch, Dispatch(e) PROVE TypeOK'
  <2>1. open' \subseteq Fds /\ exists' \subseteq exists /\ ident' = ident
    BY <1>0, <1>10, ReleaseType DEF Dispatch
  <2>2. cur' \subseteq Chans
    BY <1>0, <1>10 DEF Dispatch, TypeOK, Range
  <2> QED
    BY <1>0, <1>10, <2>1, <2>2 DEF Dispatch, TypeOK
<1>11. ASSUME AcceptEvent \/ AcceptEnds \/ EndHandler \/ SeeShutdown PROVE TypeOK'
  <2>1. open' \subseteq Fds /\ exists' \subseteq exists /\ ident' = ident
    BY <1>0, <1>11, ReleaseType DEF AcceptEvent, AcceptEnds, EndHandler, SeeShutdown
  <2> QED
    BY <1>0, <1>11, <2>1 DEF AcceptEvent, AcceptEnds, EndHandler, SeeShutdown, TypeOK
<1>12. ASSUME SwapTasks PROVE TypeOK'
  <2>1. open' \subseteq Fds /\ exists' \subseteq exists /\ ident' = ident
    BY <1>0, <1>12, ReleaseType DEF SwapTasks
  <2>2. 1 \in 1 .. Len(tasks) + 1 /\ <<>> \in Seq(Task)
    BY <1>0, LenProperties DEF TypeOK
  <2> QED
    BY <1>0, <1>12, <2>1, <2>2 DEF SwapTasks, TypeOK
<1>13. ASSUME RunTask PROVE TypeOK'
  <2>1. open' \subseteq Fds /\ exists' \subseteq exists /\ ident' = ident
    BY <1>0, <1>13, ReleaseType DEF RunTask
  <2>2. /\ next \in DOMAIN snapshot /\ snapshot[next] \in Task
        /\ next + 1 \in 1 .. Len(snapshot) + 1
        /\ snapshot[next].ch \in DOMAIN ident /\ snapshot[next].ch \in Chans
    BY <1>0, <1>13, NextTask, HeldMade DEF RunTask
  <2>3. DOMAIN channels' \subseteq Fds /\ Range(channels') \subseteq Chans
    <3> DEFINE c == snapshot[next].ch
    <3>1. DOMAIN Added(c) \subseteq Fds /\ Range(Added(c)) \subseteq Chans
      BY <1>0, <2>2, AddedType
    <3>2. channels' = channels \/ channels' = Added(c)
      BY <1>13 DEF RunTask
    <3> QED
      BY <1>0, <3>1, <3>2 DEF TypeOK
  <2> QED
    BY <1>0, <1>13, <2>1, <2>2, <2>3 DEF RunTask, TaskAfter, TypeOK
<1>14. ASSUME EndRun PROVE TypeOK'
  <2>1. open' \subseteq Fds /\ exists' \subseteq exists /\ ident' = ident
    BY <1>0, <1>14, ReleaseType DEF EndRun
  <2>2. 1 \in 1 .. Len(<<>>) + 1 /\ <<>> \in Seq(Task)
    OBVIOUS
  <2> QED
    BY <1>0, <1>14, <2>1, <2>2 DEF EndRun, TypeOK
<1>15. ASSUME DestroyWorker PROVE TypeOK'
  <2>1. open' \subseteq Fds /\ exists' \subseteq exists /\ ident' = ident
    BY <1>0, <1>15, ReleaseType DEF DestroyWorker
  <2>2. DOMAIN <<>> = {} /\ Range(<<>>) = {}
    BY DEF Range
  <2> QED
    BY <1>0, <1>15, <2>1, <2>2 DEF DestroyWorker, TypeOK
<1>16. ASSUME NEW c \in Chans, CloseChannel(c) PROVE TypeOK'
  <2>1. open' \subseteq Fds /\ exists' \subseteq exists /\ ident' = ident
    BY <1>0, <1>16, ReleaseType DEF CloseChannel
  <2>2. tasks' \in Seq(Task)
    BY <1>0, <1>16, TaskTypes, Offered DEF CloseChannel, InactiveTask, TypeOK
  <2>3. DOMAIN channels' \subseteq Fds /\ Range(channels') \subseteq Chans
    <3>1. DOMAIN Removed(c) \subseteq Fds /\ Range(Removed(c)) \subseteq Chans
      BY <1>0, RemovedType
    <3>2. channels' = Removed(c)
      BY <1>16 DEF CloseChannel
    <3> QED
      BY <3>1, <3>2
  <2> QED
    BY <1>0, <1>16, <2>1, <2>2, <2>3 DEF CloseChannel, TypeOK
<1>17. ASSUME NEW c \in Chans, KeepChannel(c) \/ DropChannel(c) PROVE TypeOK'
  <2>1. open' \subseteq Fds /\ exists' \subseteq exists /\ ident' = ident
    BY <1>0, <1>17, ReleaseType DEF KeepChannel, DropChannel
  <2> QED
    BY <1>0, <1>17, <2>1 DEF KeepChannel, DropChannel, TypeOK
<1>18. ASSUME NEW c \in Chans, Post(c) PROVE TypeOK'
  <2>1. open' \subseteq Fds /\ exists' \subseteq exists /\ ident' = ident
    BY <1>0, <1>18, ReleaseType DEF Post
  <2>2. tasks' \in Seq(Task)
    BY <1>0, <1>18, TaskTypes, Offered DEF Post, TypeOK
  <2>3. posts' \in 0 .. MaxPosts
    BY <1>0, <1>18, DescriptorAssumption DEF Post, TypeOK
  <2> QED
    BY <1>0, <1>18, <2>1, <2>2, <2>3 DEF Post, TypeOK
<1>19. CASE UNCHANGED vars
  BY <1>0, <1>19 DEF vars, fdVars, TypeOK
<1> QED
  BY <1>1, <1>2, <1>3, <1>4, <1>5, <1>6, <1>7, <1>8, <1>9, <1>10, <1>11, <1>12, <1>13, <1>14,
     <1>15, <1>16, <1>17, <1>18, <1>19, <1>20
  DEF Next

-----------------------------------------------------------------------------
(* References and descriptors. *)

\* A channel keeps its descriptor for as long as the program runs.
LEMMA IdentStep ==
  ASSUME TypeOK, [Next]_vars
  PROVE  /\ DOMAIN ident \subseteq DOMAIN ident'
         /\ \A d \in DOMAIN ident : ident'[d] = ident[d]
<1>1. ASSUME NEW c \in Chans, MakeChannel(c) \/ MakeChild(c)
      PROVE  /\ DOMAIN ident \subseteq DOMAIN ident'
             /\ \A d \in DOMAIN ident : ident'[d] = ident[d]
  <2>1. c \notin DOMAIN ident
    BY <1>1 DEF MakeChannel, MakeChild, NewChans
  <2>2. PICK f : ident' = [d \in DOMAIN ident \cup {c} |-> IF d = c THEN f ELSE ident[d]]
    BY <1>1 DEF MakeChannel, MakeChild, Constructed
  <2> QED
    BY <2>1, <2>2
<1>2. CASE ident' = ident
  BY <1>2
<1>3. (\E c \in Chans : MakeChannel(c) \/ MakeChild(c)) \/ ident' = ident
  BY DEF Next, OpenSocket, CandidateFails, LookupFails, Connected, SetupFails, NameFails, Named,
         MakeFails, StartFails, RegisterStarted, AcceptSocket, MakeChildFails, ChildFails,
         RegisterChild, ChildDropped, EpollWait, Dispatch, AcceptEvent, AcceptEnds, EndHandler,
         SwapTasks, RunTask, EndRun, SeeShutdown, DestroyWorker, CloseChannel, KeepChannel, Post,
         DropChannel, Release, vars, fdVars
<1> QED
  BY <1>1, <1>2, <1>3

\* A task that is offered adds the channel it is about, at most.
LEMMA OfferedChans ==
  ASSUME TypeOK, NEW t \in Task, tasks' = Offer(<<t>>)
  PROVE  TaskChans(tasks') \subseteq TaskChans(tasks) \cup {t.ch}
BY Offered DEF TypeOK

\* Of the actions of start_client only two give it another channel, or give one away.
LEMMA StartMakesNone ==
  ASSUME TypeOK,
         \/ \E f \in Fds : OpenSocket(f)
         \/ CandidateFails \/ LookupFails \/ Connected \/ SetupFails
         \/ NameFails \/ Named \/ MakeFails \/ StartFails
  PROVE  start'.ch \subseteq start.ch
<1>1. CASE LookupFails \/ SetupFails \/ NameFails \/ MakeFails \/ StartFails
  BY <1>1 DEF LookupFails, SetupFails, NameFails, MakeFails, StartFails, Idle
<1>2. CASE (\E f \in Fds : OpenSocket(f)) \/ CandidateFails
  BY <1>2 DEF OpenSocket, CandidateFails, TypeOK
<1>3. CASE Connected \/ Named
  BY <1>3 DEF Connected, Named, TypeOK
<1> QED
  BY <1>1, <1>2, <1>3

\* Every action refers, afterwards, to channels it referred to before and to the one it made.
LEMMA HeldGrows ==
  ASSUME TypeOK, HeldInv, [Next]_vars
  PROVE  \/ Held' \subseteq Held
         \/ \E c \in Chans : /\ MakeChannel(c) \/ MakeChild(c)
                             /\ Held' \subseteq Held \cup {c} /\ c \in Held'
<1> USE DEF makerVars, loopVars, taskVars, heldVars
<1>0. TypeOK /\ HeldInv
  OBVIOUS
<1>h. /\ start.ch \subseteq Held /\ accept.ch \subseteq Held /\ kept \subseteq Held
      /\ cur \subseteq Held /\ Range(channels) \subseteq Held
      /\ TaskChans(tasks) \subseteq Held /\ TaskChans(snapshot) \subseteq Held
  BY HeldMade
<1>1. ASSUME NEW c \in Chans, MakeChannel(c) PROVE Held' \subseteq Held \cup {c} /\ c \in Held'
  BY <1>0, <1>1 DEF MakeChannel, Held, TaskChans, Range, TypeOK
<1>2. ASSUME NEW c \in Chans, MakeChild(c) PROVE Held' \subseteq Held \cup {c} /\ c \in Held'
  BY <1>2 DEF MakeChild, NoChild, Held, TaskChans, Range
<1>19. ASSUME (\E f \in Fds : AcceptSocket(f)) \/ MakeChildFails PROVE Held' \subseteq Held
  BY <1>19 DEF AcceptSocket, MakeChildFails, NoChild, Held, TaskChans
<1>3. ASSUME \/ \E f \in Fds : OpenSocket(f)
             \/ CandidateFails \/ LookupFails \/ Connected \/ SetupFails \/ NameFails \/ Named
             \/ MakeFails \/ StartFails
      PROVE  Held' \subseteq Held
  <2>1. start'.ch \subseteq start.ch
    BY <1>0, <1>3, StartMakesNone
  <2> QED
    BY <1>3, <2>1
    DEF OpenSocket, CandidateFails, LookupFails, Connected, SetupFails, NameFails, Named, MakeFails,
        StartFails, Held, TaskChans
<1>4. ASSUME NEW c \in Chans, RegisterStarted(c) PROVE Held' \subseteq Held
  <2>1. TaskChans(tasks') \subseteq TaskChans(tasks) \cup {c}
    BY <1>4, TaskTypes, OfferedChans DEF RegisterStarted, Registered
  <2>2. start'.ch = {} /\ c \in Held
    BY <1>4, <1>h DEF RegisterStarted, Idle
  <2> QED
    BY <1>4, <1>h, <2>1, <2>2 DEF RegisterStarted, Held, TaskChans
<1>5. ASSUME NEW c \in Chans, ChildFails(c) PROVE Held' \subseteq Held
  BY <1>0, <1>5 DEF ChildFails, Held, TaskChans, TypeOK
<1>6. ASSUME NEW c \in Chans, RegisterChild(c) PROVE Held' \subseteq Held
  <2>1. TaskChans(tasks') \subseteq TaskChans(tasks) \cup {c}
    BY <1>6, TaskTypes, OfferedChans DEF RegisterChild, Registered
  <2>2. accept'.ch = {} /\ c \in Held /\ kept' \subseteq kept \cup {c}
    BY <1>6, <1>h DEF RegisterChild, NoChild
  <2>3. Range(channels') \subseteq Range(channels) \cup {c}
    BY <1>6, <2>2, HeldMade, AddedType DEF RegisterChild
  <2> QED
    BY <1>6, <1>h, <2>1, <2>2, <2>3 DEF RegisterChild, Held, TaskChans
<1>7. ASSUME ChildDropped PROVE Held' \subseteq Held
  BY <1>7 DEF ChildDropped, NoChild, Held, TaskChans
<1>8. ASSUME EpollWait \/ AcceptEvent \/ AcceptEnds \/ SeeShutdown PROVE Held' \subseteq Held
  BY <1>8 DEF EpollWait, AcceptEvent, AcceptEnds, SeeShutdown, Held, TaskChans
<1>9. ASSUME NEW e \in batch, Dispatch(e) PROVE Held' \subseteq Held
  <2>1. cur' \subseteq cur \cup Range(channels)
    BY <1>9 DEF Dispatch, Range
  <2> QED
    BY <1>9, <2>1 DEF Dispatch, Held, TaskChans
<1>10. ASSUME EndHandler PROVE Held' \subseteq Held
  BY <1>10 DEF EndHandler, Held, TaskChans
<1>11. ASSUME SwapTasks PROVE Held' \subseteq Held
  <2>1. TaskChans(tasks') = {} /\ TaskChans(snapshot') = TaskChans(tasks)
    BY <1>11, TaskChansType DEF SwapTasks
  <2> QED
    BY <1>11, <2>1 DEF SwapTasks, Held
<1>12. ASSUME RunTask PROVE Held' \subseteq Held
  <2> DEFINE c == snapshot[next].ch
  <2>1. c \in Held /\ c \in DOMAIN ident
    BY <1>12, HeldMade, NextTask DEF RunTask
  <2>2. cur' = {c} /\ (channels' = Added(c) \/ channels' = channels)
    BY <1>12 DEF RunTask
  <2> HIDE DEF c
  <2>3. Range(channels') \subseteq Range(channels) \cup {c}
    BY <2>1, <2>2, AddedType
  <2> QED
    BY <1>12, <1>h, <2>1, <2>2, <2>3 DEF RunTask, Held, TaskChans
<1>13. ASSUME EndRun PROVE Held' \subseteq Held
  <2>1. TaskChans(snapshot') = {}
    BY <1>13, TaskChansType DEF EndRun
  <2> QED
    BY <1>13, <2>1 DEF EndRun, Held, TaskChans
<1>14. ASSUME DestroyWorker PROVE Held' \subseteq Held
  <2>1. Range(channels') = {}
    BY <1>14 DEF DestroyWorker, Range
  <2> QED
    BY <1>14, <2>1 DEF DestroyWorker, Held, TaskChans
<1>15. ASSUME NEW c \in Chans, CloseChannel(c) PROVE Held' \subseteq Held
  <2>1. TaskChans(tasks') \subseteq TaskChans(tasks) \cup {c}
    BY <1>15, TaskTypes, OfferedChans DEF CloseChannel, InactiveTask
  <2>2. Range(channels') \subseteq Range(channels) /\ c \in Range(channels)
    BY <1>15, RemovedType DEF CloseChannel
  <2> QED
    BY <1>15, <1>h, <2>1, <2>2 DEF CloseChannel, Held, TaskChans
<1>16. ASSUME NEW c \in Chans, KeepChannel(c) \/ DropChannel(c) PROVE Held' \subseteq Held
  BY <1>16 DEF KeepChannel, DropChannel, Held, TaskChans
<1>17. ASSUME NEW c \in Chans, Post(c) PROVE Held' \subseteq Held
  <2>1. TaskChans(tasks') \subseteq TaskChans(tasks) \cup {c}
    BY <1>17, TaskTypes, OfferedChans DEF Post
  <2> QED
    BY <1>17, <1>h, <2>1 DEF Post, Held, TaskChans
<1>18. ASSUME UNCHANGED vars PROVE Held' \subseteq Held
  BY <1>18 DEF vars, Held, TaskChans
<1> QED
  BY <1>1, <1>2, <1>3, <1>4, <1>5, <1>6, <1>7, <1>8, <1>9, <1>10, <1>11, <1>12, <1>13, <1>14,
     <1>15, <1>16, <1>17, <1>18, <1>19
  DEF Next

\* What exists after a step is what is referred to after it, and a channel that is
\* neither made by the step nor referred to after it is the only one destroyed.
LEMMA ExistsStep ==
  ASSUME TypeOK, HeldInv, [Next]_vars
  PROVE  exists' = Held'
<1> USE DEF makerVars, loopVars, taskVars, heldVars
<1>0. exists = Held
  BY DEF HeldInv
<1>1. ASSUME NEW c \in Chans, MakeChannel(c) \/ MakeChild(c)
      PROVE  exists' = (exists \cup {c}) \cap Held'
  BY <1>1 DEF MakeChannel, MakeChild, Settle
<1>2. \/ \E c \in Chans : MakeChannel(c) \/ MakeChild(c)
      \/ exists' = exists \cap Held'
      \/ UNCHANGED vars
  BY DEF Next, OpenSocket, CandidateFails, LookupFails, Connected, SetupFails, NameFails, Named,
         MakeFails, StartFails, RegisterStarted, AcceptSocket, MakeChildFails, ChildFails,
         RegisterChild, ChildDropped, EpollWait, Dispatch, AcceptEvent, AcceptEnds, EndHandler,
         SwapTasks, RunTask, EndRun, SeeShutdown, DestroyWorker, CloseChannel, KeepChannel, Post,
         DropChannel, Release, Settle
<1>3. CASE UNCHANGED vars
  BY <1>0, <1>3 DEF vars, fdVars, Held, TaskChans
<1>4. CASE \E c \in Chans : MakeChannel(c) \/ MakeChild(c)
  <2>1. PICK c \in Chans : MakeChannel(c) \/ MakeChild(c)
    BY <1>4
  <2>2. exists \cap Held' \subseteq exists' /\ exists' \subseteq Held'
    BY <1>1, <2>1
  <2>3. ASSUME NEW d \in Chans, MakeChannel(d) \/ MakeChild(d),
               Held' \subseteq Held \cup {d}
        PROVE  exists' = Held'
    BY <1>0, <1>1, <2>3
  <2> QED
    BY <1>0, <2>2, <2>3, HeldGrows
<1>5. CASE exists' = exists \cap Held' /\ ~\E c \in Chans : MakeChannel(c) \/ MakeChild(c)
  BY <1>0, <1>5, HeldGrows
<1> QED
  BY <1>2, <1>3, <1>4, <1>5

\* The open descriptors o are those in hand, h, and those of the channels E, each once.
Owns(o, h, E, id) ==
  /\ \A c \in E : id[c] \in o \ h
  /\ \A c, d \in E : id[c] = id[d] => c = d
  /\ o \subseteq {id[c] : c \in E} \cup h
  /\ h \subseteq o

\* The invariant in these terms.
LEMMA OwnInvOwns ==
  /\ OwnInv <=> Owns(open, Unowned, exists, ident) /\ Apart
  /\ OwnInv' <=> Owns(open', Unowned', exists', ident') /\ Apart'
BY DEF OwnInv, DescriptorOwned, NoLeak, Owns, Unowned, Apart

\* Channels of E that are not in D are destroyed, and close their descriptors.
LEMMA OwnsDestroyed ==
  ASSUME NEW o, NEW h, NEW E, NEW D, NEW id, D \subseteq E, Owns(o, h, E, id)
  PROVE  Owns(o \ {id[c] : c \in E \ D}, h, D, id)
BY DEF Owns

\* A descriptor is opened into the hand.
LEMMA OwnsOpened ==
  ASSUME NEW o, NEW h, NEW E, NEW id, NEW f, f \notin o, Owns(o, h, E, id)
  PROVE  Owns(o \cup {f}, h \cup {f}, E, id)
BY DEF Owns

\* Descriptors in the hand are closed.
LEMMA OwnsShut ==
  ASSUME NEW o, NEW h, NEW E, NEW id, NEW S, S \subseteq h, Owns(o, h, E, id)
  PROVE  Owns(o \ S, h \ S, E, id)
BY DEF Owns

\* A channel is made from a descriptor in the hand.
LEMMA OwnsMade ==
  ASSUME NEW o, NEW h, NEW E, NEW id, NEW id2, NEW f, NEW c, f \in h, c \notin E,
         id2[c] = f, \A d \in E : id2[d] = id[d], Owns(o, h, E, id)
  PROVE  Owns(o, h \ {f}, E \cup {c}, id2)
BY DEF Owns

\* A step that makes no channel, and has opened and closed descriptors of its hand.
LEMMA OwnsSettled ==
  ASSUME TypeOK, HeldInv, OwnInv, [Next]_vars, NEW opened, NEW shut,
         Settle({}, opened, shut), ident' = ident,
         Owns((open \cup opened) \ shut, Unowned', exists, ident), Apart'
  PROVE  OwnInv'
<1>1. exists' = Held' /\ exists' \subseteq exists
  BY ExistsStep DEF Settle
<1>2. open' = ((open \cup opened) \ shut) \ {ident[c] : c \in exists \ exists'}
  BY <1>1 DEF Settle
<1>3. Owns(open', Unowned', exists', ident)
  BY <1>1, <1>2, OwnsDestroyed
<1> QED
  BY <1>3, OwnInvOwns

\* A step that makes, opens and closes nothing.
LEMMA OwnsReleased ==
  ASSUME TypeOK, HeldInv, OwnInv, [Next]_vars, Release, Unowned' = Unowned, Apart'
  PROVE  OwnInv'
<1>1. Settle({}, {}, {}) /\ ident' = ident
  BY DEF Release
<1>2. (open \cup {}) \ {} = open
  OBVIOUS
<1>3. Owns((open \cup {}) \ {}, Unowned', exists, ident)
  BY <1>2, OwnInvOwns
<1> QED
  BY <1>1, <1>3, OwnsSettled

\* A step that opens a descriptor into one hand, the other and what is lost staying.
LEMMA OwnsAcquired ==
  ASSUME TypeOK, HeldInv, OwnInv, [Next]_vars, NEW f \in UnusedFds,
         Settle({}, {f}, {}), ident' = ident, lost' = lost,
         \/ start'.fd = {f} /\ start.fd = {} /\ accept'.fd = accept.fd
         \/ accept'.fd = {f} /\ accept.fd = {} /\ start'.fd = start.fd
  PROVE  OwnInv'
<1>1. Owns(open, Unowned, exists, ident) /\ Apart
  BY OwnInvOwns
<1>2. f \notin open /\ f \notin Unowned
  BY DEF UnusedFds, OwnInv
<1>3. (open \cup {f}) \ {} = open \cup {f} /\ Unowned' = Unowned \cup {f}
  BY DEF Unowned, InHand
<1>4. Owns((open \cup {f}) \ {}, Unowned', exists, ident)
  BY <1>1, <1>2, <1>3, OwnsOpened
<1>5. Apart'
  BY <1>1, <1>2 DEF Apart, Unowned, InHand
<1> QED
  BY <1>4, <1>5, OwnsSettled

\* A step that makes a channel of a descriptor in the hand.
LEMMA OwnsConstructed ==
  ASSUME TypeOK, HeldInv, OwnInv, [Next]_vars, NEW c \in NewChans, NEW f \in InHand,
         Constructed(c, {f}), Settle({c}, {}, {}), InHand' = InHand \ {f}, lost' = lost,
         c \in Held', Apart'
  PROVE  OwnInv'
<1>1. Owns(open, Unowned, exists, ident) /\ Apart
  BY OwnInvOwns
<1>2. c \notin DOMAIN ident /\ exists \subseteq DOMAIN ident
  BY DEF NewChans, TypeOK
<1>3. ident'[c] = f /\ \A d \in DOMAIN ident : ident'[d] = ident[d]
  BY <1>2 DEF Constructed
<1>4. f \in Unowned /\ Unowned' = Unowned \ {f}
  BY <1>1 DEF Unowned, Apart
<1>5. Owns(open, Unowned', exists \cup {c}, ident')
  BY <1>1, <1>2, <1>3, <1>4, OwnsMade
<1>6. exists' \subseteq exists \cup {c} /\ exists' = Held' /\ c \in exists'
  BY ExistsStep DEF Settle
<1>7. open' = open \ {ident'[d] : d \in (exists \cup {c}) \ exists'}
  BY <1>2, <1>3, <1>6 DEF Settle
<1>8. Owns(open', Unowned', exists', ident')
  BY <1>5, <1>6, <1>7, OwnsDestroyed
<1> QED
  BY <1>8, OwnInvOwns

\* Every action leaves every open descriptor with one owner.
LEMMA OwnStep ==
  ASSUME TypeOK, StartInv, HeldInv, OwnInv, [Next]_vars
  PROVE  OwnInv'
<1> USE DEF makerVars, loopVars, taskVars, heldVars
<1>0. Owns(open, Unowned, exists, ident) /\ Apart
  BY OwnInvOwns
<1>1. ASSUME NEW f \in Fds, OpenSocket(f) PROVE OwnInv'
  <2>1. start.fd = {} /\ start'.fd = {f}
    BY <1>1 DEF OpenSocket, StartInv, TypeOK
  <2> QED
    BY <1>1, <2>1, OwnsAcquired DEF OpenSocket
<1>2. ASSUME CandidateFails \/ SetupFails PROVE OwnInv'
  <2>1. start'.fd = {} /\ lost' = lost /\ accept' = accept
    <3>1. CASE CandidateFails
      BY <3>1 DEF CandidateFails, TypeOK
    <3>2. CASE SetupFails
      BY <3>2 DEF SetupFails, Idle
    <3> QED
      BY <1>2, <3>1, <3>2
  <2>2. Settle({}, {}, start.fd) /\ ident' = ident
    BY <1>2 DEF CandidateFails, SetupFails, FailedCandidate
  <2>3. Apart'
    BY <1>0, <2>1 DEF Apart, InHand
  <2>4. /\ start.fd \subseteq Unowned /\ Unowned' = Unowned \ start.fd
        /\ (open \cup {}) \ start.fd = open \ start.fd
    BY <1>0, <2>1 DEF Unowned, Apart, InHand
  <2>5. Owns((open \cup {}) \ start.fd, Unowned', exists, ident)
    BY <1>0, <2>4, OwnsShut
  <2> QED
    BY <2>2, <2>3, <2>5, OwnsSettled
<1>3. ASSUME LookupFails \/ StartFails \/ \E c \in Chans : RegisterStarted(c) PROVE OwnInv'
  <2>1. start.fd = {} /\ start'.fd = {} /\ lost' = lost /\ accept' = accept /\ Release
    BY <1>3 DEF LookupFails, StartFails, RegisterStarted, StartInv, Idle
  <2>2. Unowned' = Unowned /\ Apart'
    BY <1>0, <2>1 DEF Unowned, Apart, InHand
  <2> QED
    BY <2>1, <2>2, OwnsReleased
<1>4. ASSUME Connected \/ Named PROVE OwnInv'
  <2>1. start'.fd = start.fd /\ lost' = lost /\ accept' = accept /\ Release
    BY <1>4 DEF Connected, Named, TypeOK
  <2>2. Unowned' = Unowned /\ Apart'
    BY <1>0, <2>1 DEF Unowned, Apart, InHand
  <2> QED
    BY <2>1, <2>2, OwnsReleased
<1>5. ASSUME NameFails \/ MakeFails PROVE OwnInv'
  <2>1. start'.fd = {} /\ lost' = lost \cup start.fd /\ accept' = accept /\ Release
    BY <1>5 DEF NameFails, MakeFails, Idle
  <2>2. Unowned' = Unowned /\ Apart'
    BY <1>0, <2>1 DEF Unowned, Apart, InHand
  <2> QED
    BY <2>1, <2>2, OwnsReleased
<1>6. ASSUME NEW c \in Chans, MakeChannel(c) PROVE OwnInv'
  <2>1. PICK f \in start.fd : Constructed(c, {f})
    BY <1>6 DEF MakeChannel, Constructed
  <2>2. start.fd = {f}
    BY <2>1 DEF StartInv
  <2>3. start'.fd = {} /\ accept' = accept /\ lost' = lost /\ start'.ch = {c}
    BY <1>6 DEF MakeChannel, TypeOK
  <2>4. InHand' = InHand \ {f} /\ f \in InHand /\ Apart'
    BY <1>0, <2>2, <2>3 DEF InHand, Apart
  <2>5. c \in Held' /\ c \in NewChans /\ Settle({c}, {}, {})
    BY <1>6, <2>3 DEF MakeChannel, Held
  <2> QED
    BY <2>1, <2>3, <2>4, <2>5, OwnsConstructed
<1>7. ASSUME NEW f \in Fds, AcceptSocket(f) PROVE OwnInv'
  <2>1. accept.fd = {} /\ accept'.fd = {f}
    BY <1>7 DEF AcceptSocket, NoChild
  <2> QED
    BY <1>7, <2>1, OwnsAcquired DEF AcceptSocket
<1>8. ASSUME MakeChildFails PROVE OwnInv'
  <2>1. accept'.fd = {} /\ lost' = lost \cup accept.fd /\ start' = start /\ Release
    BY <1>8 DEF MakeChildFails, NoChild
  <2>2. Unowned' = Unowned /\ Apart'
    BY <1>0, <2>1 DEF Unowned, Apart, InHand
  <2> QED
    BY <2>1, <2>2, OwnsReleased
<1>9. ASSUME NEW c \in Chans, MakeChild(c) PROVE OwnInv'
  <2>1. PICK f \in accept.fd : Constructed(c, {f})
    BY <1>9 DEF MakeChild, Constructed
  <2>2. accept.fd = {f}
    BY <2>1 DEF StartInv
  <2>3. accept'.fd = {} /\ start' = start /\ lost' = lost /\ accept'.ch = {c}
    BY <1>9 DEF MakeChild, NoChild
  <2>4. InHand' = InHand \ {f} /\ f \in InHand /\ Apart'
    BY <1>0, <2>2, <2>3 DEF InHand, Apart
  <2>5. c \in Held' /\ c \in NewChans /\ Settle({c}, {}, {})
    BY <1>9, <2>3 DEF MakeChild, Held
  <2> QED
    BY <2>1, <2>3, <2>4, <2>5, OwnsConstructed
<1>10. ASSUME NEW c \in Chans, ChildFails(c) PROVE OwnInv'
  <2>1. Release /\ start' = start /\ lost' = lost /\ accept'.fd = accept.fd
    BY <1>10 DEF ChildFails, FailedChild, Release, TypeOK
  <2>2. Unowned' = Unowned /\ Apart'
    BY <1>0, <2>1 DEF Unowned, Apart, InHand
  <2> QED
    BY <2>1, <2>2, OwnsReleased
<1>11. ASSUME ChildDropped \/ \E c \in Chans : RegisterChild(c) PROVE OwnInv'
  <2>1. accept.fd = {} /\ accept'.fd = {} /\ start' = start /\ lost' = lost /\ Release
    BY <1>11 DEF ChildDropped, RegisterChild, NoChild, StartInv
  <2>2. Unowned' = Unowned /\ Apart'
    BY <1>0, <2>1 DEF Unowned, Apart, InHand
  <2> QED
    BY <2>1, <2>2, OwnsReleased
<1>12. ASSUME Release, UNCHANGED makerVars PROVE OwnInv'
  <2>1. Unowned' = Unowned /\ Apart'
    BY <1>0, <1>12 DEF Unowned, Apart, InHand
  <2> QED
    BY <1>12, <2>1, OwnsReleased
<1>13. ASSUME UNCHANGED vars PROVE OwnInv'
  BY <1>0, <1>13, OwnInvOwns DEF vars, fdVars, Unowned, Apart, InHand
<1>14. \/ \E f \in Fds : OpenSocket(f) \/ AcceptSocket(f)
       \/ CandidateFails \/ SetupFails \/ LookupFails \/ Connected
       \/ NameFails \/ Named \/ MakeFails \/ StartFails
       \/ \E c \in Chans : MakeChannel(c) \/ MakeChild(c) \/ ChildFails(c)
       \/ \E c \in Chans : RegisterStarted(c) \/ RegisterChild(c)
       \/ MakeChildFails \/ ChildDropped
       \/ Release /\ UNCHANGED makerVars
       \/ UNCHANGED vars
  BY DEF Next, EpollWait, Dispatch, AcceptEvent, AcceptEnds, EndHandler, SwapTasks, RunTask, EndRun,
         SeeShutdown, DestroyWorker, CloseChannel, KeepChannel, Post, DropChannel
<1> QED
  BY <1>1, <1>2, <1>3, <1>4, <1>5, <1>6, <1>7, <1>8, <1>9, <1>10, <1>11, <1>12, <1>13, <1>14

\* remove_channel takes out the channel it is given, and no other.
LEMMA RemovedHas ==
  ASSUME TypeOK, HeldInv, NEW c \in Range(channels)
  PROVE  Range(Removed(c)) = Range(channels) \ {c}
<1>1. \A f \in DOMAIN channels : channels[f] = c => f = ident[c]
  BY DEF HeldInv
<1>2. /\ DOMAIN Removed(c) = DOMAIN channels \ {ident[c]}
      /\ \A f \in DOMAIN Removed(c) : Removed(c)[f] = channels[f]
  BY RemovedType
<1>3. c = channels[ident[c]]
  BY <1>1 DEF Range
<1> QED
  BY <1>1, <1>2, <1>3 DEF Range

\* Every action leaves a worker's channels under their own descriptors.
LEMMA HeldStep ==
  ASSUME TypeOK, HeldInv, [Next]_vars
  PROVE  HeldInv'
<1> USE DEF makerVars, loopVars, taskVars, heldVars
<1>1. exists' = Held'
  BY ExistsStep
<1>2. removed \subseteq DOMAIN ident' /\ \A d \in DOMAIN ident : ident'[d] = ident[d]
  BY IdentStep DEF HeldInv
<1>3. Range(channels) \subseteq DOMAIN ident
  BY HeldMade
<1>4. removed' \subseteq DOMAIN ident'
  <2>1. removed' \subseteq removed \cup Range(channels)
    BY DEF Next, OpenSocket, CandidateFails, LookupFails, Connected, SetupFails, NameFails, Named,
           MakeFails, StartFails, MakeChannel, RegisterStarted, AcceptSocket, MakeChildFails,
           MakeChild, ChildFails, RegisterChild, ChildDropped, EpollWait, Dispatch, AcceptEvent,
           AcceptEnds, EndHandler, SwapTasks, RunTask, EndRun, SeeShutdown, DestroyWorker,
           CloseChannel, KeepChannel, Post, DropChannel, vars
  <2> QED
    BY <1>2, <1>3, <2>1, IdentStep
<1>5. \/ \E c \in Held : channels' = Added(c)
      \/ \E c : channels' = Removed(c)
      \/ channels' = <<>>
      \/ channels' = channels
  <2>1. ASSUME NEW c \in Chans, RegisterChild(c)
        PROVE  c \in Held /\ (channels' = Added(c) \/ channels' = channels)
    BY <2>1, HeldMade DEF RegisterChild
  <2>2. ASSUME RunTask
        PROVE  snapshot[next].ch \in Held /\ (channels' = Added(snapshot[next].ch) \/ channels' = channels)
    BY <2>2, HeldMade, NextTask DEF RunTask
  <2>3. ASSUME NEW c \in Chans, CloseChannel(c) PROVE channels' = Removed(c)
    BY <2>3 DEF CloseChannel
  <2>4. ASSUME DestroyWorker PROVE channels' = <<>>
    BY <2>4 DEF DestroyWorker
  <2>5. \/ \E c \in Chans : RegisterChild(c) \/ CloseChannel(c)
        \/ RunTask \/ DestroyWorker \/ channels' = channels
    BY DEF Next, OpenSocket, CandidateFails, LookupFails, Connected, SetupFails, NameFails, Named,
           MakeFails, StartFails, MakeChannel, AcceptSocket, MakeChildFails, MakeChild,
           RegisterStarted, ChildFails, ChildDropped, EpollWait, Dispatch, AcceptEvent, AcceptEnds,
           EndHandler, SwapTasks, EndRun, SeeShutdown, KeepChannel, Post, DropChannel, vars
  <2> QED
    BY <2>1, <2>2, <2>3, <2>4, <2>5
<1>6. ASSUME NEW f \in DOMAIN channels' PROVE ident'[channels'[f]] = f
  <2>0. \A g \in DOMAIN channels : ident'[channels[g]] = g
    BY <1>2, <1>3 DEF HeldInv, Range
  <2>1. CASE \E c \in Held : channels' = Added(c)
    <3>1. PICK c \in Held : channels' = Added(c)
      BY <2>1
    <3>2. c \in DOMAIN ident /\ ident'[c] = ident[c]
      BY <1>2, HeldMade
    <3> QED
      BY <1>6, <2>0, <3>1, <3>2 DEF Added
  <2>2. CASE \E c : channels' = Removed(c)
    BY <1>6, <2>0, <2>2 DEF Removed
  <2>3. CASE channels' = <<>>
    BY <1>6, <2>3
  <2>4. CASE channels' = channels
    BY <1>6, <2>0, <2>4
  <2> QED
    BY <1>5, <2>1, <2>2, <2>3, <2>4
<1> QED
  BY <1>1, <1>4, <1>6 DEF HeldInv

\* Every action of start_client leaves it with a descriptor or a channel, not both.
LEMMA StartStep ==
  ASSUME TypeOK, StartInv, [Next]_vars
  PROVE  StartInv'
<1> USE DEF makerVars
<1> DEFINE StartOK == /\ start.fd # {} => start.at \in {"trying", "connected", "named"}
                      /\ start.ch # {} => start.at = "made"
                      /\ \A f, g \in start.fd : f = g
                      /\ start.at = "idle" => start.tried = 0
           AcceptOK == /\ accept.fd # {} => accept.ch = {} /\ ~accept.threw
                       /\ \A f, g \in accept.fd : f = g
<1>0. StartOK /\ AcceptOK
  BY DEF StartInv
<1>1. StartOK'
  <2>1. CASE start' = Idle
    BY <2>1 DEF Idle
  <2>2. CASE start' = start
    BY <1>0, <2>2
  <2>3. ASSUME NEW f \in Fds, OpenSocket(f) PROVE StartOK'
    BY <1>0, <2>3 DEF OpenSocket, TypeOK
  <2>4. CASE CandidateFails
    BY <1>0, <2>4 DEF CandidateFails, TypeOK
  <2>5. CASE Connected \/ Named
    BY <1>0, <2>5 DEF Connected, Named, TypeOK
  <2>6. ASSUME NEW c \in Chans, MakeChannel(c) PROVE StartOK'
    BY <1>0, <2>6 DEF MakeChannel, TypeOK
  <2>7. \/ start' = Idle \/ start' = start
        \/ \E f \in Fds : OpenSocket(f)
        \/ CandidateFails \/ Connected \/ Named \/ \E c \in Chans : MakeChannel(c)
    BY DEF Next, LookupFails, SetupFails, NameFails, MakeFails, StartFails, RegisterStarted,
           AcceptSocket, MakeChildFails, MakeChild, ChildFails, RegisterChild, ChildDropped,
           EpollWait, Dispatch, AcceptEvent, AcceptEnds, EndHandler, SwapTasks, RunTask, EndRun,
           SeeShutdown, DestroyWorker, CloseChannel, KeepChannel, Post, DropChannel, vars
  <2> QED
    BY <2>1, <2>2, <2>3, <2>4, <2>5, <2>6, <2>7
<1>2. AcceptOK'
  <2>1. CASE accept' = accept
    BY <1>0, <2>1
  <2>2. CASE accept'.fd = {}
    BY <2>2
  <2>3. ASSUME NEW f \in Fds, AcceptSocket(f) PROVE AcceptOK'
    BY <2>3 DEF AcceptSocket, NoChild
  <2>4. ASSUME NEW c \in Chans, ChildFails(c) PROVE AcceptOK'
    BY <1>0, <2>4 DEF ChildFails, TypeOK
  <2>5. ASSUME (\E c \in Chans : MakeChild(c) \/ RegisterChild(c)) \/ MakeChildFails \/ ChildDropped
        PROVE  accept'.fd = {}
    <3>1. CASE \E c \in Chans : MakeChild(c)
      BY <3>1 DEF MakeChild, NoChild
    <3>2. CASE \E c \in Chans : RegisterChild(c)
      BY <3>2 DEF RegisterChild, NoChild
    <3>3. CASE MakeChildFails
      BY <3>3 DEF MakeChildFails, NoChild
    <3>4. CASE ChildDropped
      BY <3>4 DEF ChildDropped, NoChild
    <3> QED
      BY <2>5, <3>1, <3>2, <3>3, <3>4
  <2>6. \/ accept' = accept \/ accept'.fd = {}
        \/ \E f \in Fds : AcceptSocket(f)
        \/ \E c \in Chans : ChildFails(c)
    BY <2>5
    DEF Next, OpenSocket, CandidateFails, LookupFails, Connected, SetupFails, NameFails, Named,
        MakeFails, StartFails, MakeChannel, RegisterStarted, EpollWait, Dispatch, AcceptEvent,
        AcceptEnds, EndHandler, SwapTasks, RunTask, EndRun, SeeShutdown, DestroyWorker,
        CloseChannel, KeepChannel, Post, DropChannel, vars
  <2> QED
    BY <2>1, <2>2, <2>3, <2>4, <2>6
<1> QED
  BY <1>1, <1>2 DEF StartInv

\* Every action leaves the loop thread with what it holds where it is.
LEMMA LoopStep ==
  ASSUME TypeOK, LoopInv, [Next]_vars
  PROVE  LoopInv'
<1> USE DEF makerVars, loopVars, taskVars, heldVars
<1>1. CASE UNCHANGED <<pc, cur, snapshot, closed, batch, accept, sameLoop>>
  BY <1>1 DEF LoopInv
<1>2. CASE AcceptEvent \/ AcceptEnds
  BY <1>2 DEF AcceptEvent, AcceptEnds, LoopInv
<1>9. CASE ChildDropped
  <2>1. accept # NoChild
    BY <1>9 DEF ChildDropped, NoChild
  <2> QED
    BY <1>9, <2>1 DEF ChildDropped, LoopInv, TypeOK
<1>10. CASE \E c \in Chans : RegisterChild(c)
  BY <1>10 DEF RegisterChild, LoopInv
<1>11. CASE \/ \E c \in Chans : ChildFails(c) \/ MakeChild(c)
            \/ MakeChildFails \/ \E f \in Fds : AcceptSocket(f)
  <2>1. UNCHANGED <<sameLoop, pc, cur, snapshot, closed, batch>>
    BY <1>11 DEF ChildFails, MakeChild, MakeChildFails, AcceptSocket
  <2>2. sameLoop => pc = "accept"
    <3>1. CASE \/ \E c \in Chans : ChildFails(c) \/ MakeChild(c)
               \/ MakeChildFails
      <4>1. accept.ch # {} \/ accept.fd # {}
        BY <3>1 DEF ChildFails, MakeChild, MakeChildFails, Constructed
      <4>2. accept # NoChild
        BY <4>1 DEF NoChild
      <4> QED
        BY <4>2 DEF LoopInv
    <3>2. CASE \E f \in Fds : AcceptSocket(f)
      BY <3>2 DEF AcceptSocket, Accepting
    <3> QED
      BY <1>11, <3>1, <3>2
  <2> QED
    BY <2>1, <2>2 DEF LoopInv
<1>3. CASE EpollWait
  BY <1>3 DEF EpollWait, LoopInv
<1>4. ASSUME NEW e \in batch, Dispatch(e) PROVE LoopInv'
  BY <1>4 DEF Dispatch, LoopInv
<1>5. CASE SeeShutdown \/ EndHandler
  BY <1>5 DEF SeeShutdown, EndHandler, InHandler, LoopInv
<1>6. CASE SwapTasks \/ EndRun
  BY <1>6 DEF SwapTasks, EndRun, LoopInv
<1>7. CASE RunTask \/ DestroyWorker
  BY <1>7 DEF RunTask, DestroyWorker, LoopInv
<1>8. \/ UNCHANGED <<pc, cur, snapshot, closed, batch, accept, sameLoop>>
      \/ ChildDropped \/ AcceptEvent \/ AcceptEnds \/ EpollWait \/ \E e \in batch : Dispatch(e)
      \/ SeeShutdown \/ EndHandler \/ SwapTasks \/ EndRun \/ RunTask \/ DestroyWorker
      \/ \E c \in Chans : RegisterChild(c) \/ ChildFails(c) \/ MakeChild(c)
      \/ MakeChildFails \/ \E f \in Fds : AcceptSocket(f)
  BY DEF Next, OpenSocket, CandidateFails, LookupFails, Connected, SetupFails, NameFails, Named,
         MakeFails, StartFails, MakeChannel, RegisterStarted, CloseChannel, KeepChannel, Post,
         DropChannel, vars
<1> QED
  BY <1>1, <1>2, <1>3, <1>4, <1>5, <1>6, <1>7, <1>8, <1>9, <1>10, <1>11

\* Every action leaves an event not yet dispatched with a channel that has kept its descriptor.
LEMMA BatchStep ==
  ASSUME TypeOK, HeldInv, LoopInv, BatchInv, [Next]_vars
  PROVE  BatchInv'
<1> USE DEF makerVars, loopVars, taskVars, heldVars
<1> DEFINE Reach == Range(channels) \cup TaskChans(tasks)
<1>0. Reach \subseteq DOMAIN ident
  BY HeldMade
<1>1. \A d \in DOMAIN ident : ident'[d] = ident[d]
  BY IdentStep
<1>2. ASSUME batch' \subseteq batch, Reach \subseteq Reach' PROVE BatchInv'
  BY <1>0, <1>1, <1>2 DEF BatchInv
<1>3. CASE batch' = {}
  BY <1>3 DEF BatchInv
<1>4. ASSUME EpollWait PROVE BatchInv'
  <2>1. channels' = channels /\ ident' = ident
    BY <1>4 DEF EpollWait, Release
  <2>2. ASSUME NEW e \in batch' PROVE e.ch \in Range(channels) /\ ident[e.ch] = e.fd
    <3>1. PICK f \in DOMAIN channels : e = [fd |-> f, ch |-> channels[f]]
      BY <1>4, <2>2 DEF EpollWait
    <3> QED
      BY <3>1 DEF HeldInv, Range
  <2> QED
    BY <2>1, <2>2 DEF BatchInv
<1>5. ASSUME NEW c \in Chans, RegisterStarted(c) \/ Post(c) \/ RegisterChild(c) PROVE BatchInv'
  <2>1. TaskChans(tasks) \subseteq TaskChans(tasks')
    <3>1. PICK t \in Task : tasks' = Offer(<<t>>) \/ tasks' = tasks
      BY <1>5, TaskTypes DEF RegisterStarted, Registered, Post, RegisterChild
    <3> QED
      BY <3>1, Offered DEF TypeOK
  <2>2. Range(channels) \subseteq Range(channels')
    <3>1. CASE channels' = channels
      BY <3>1
    <3>2. CASE channels' # channels
      <4>1. channels' = Added(c) /\ c \in DOMAIN ident
        BY <1>5, <3>2, HeldMade DEF RegisterStarted, Post, RegisterChild
      <4> QED
        BY <4>1, AddedType
    <3> QED
      BY <3>1, <3>2
  <2>3. batch' = batch
    BY <1>5 DEF RegisterStarted, Post, RegisterChild
  <2> QED
    BY <1>2, <2>1, <2>2, <2>3
<1>6. ASSUME RunTask PROVE BatchInv'
  <2>1. batch = {} /\ batch' = batch
    BY <1>6 DEF RunTask, LoopInv
  <2> QED
    BY <1>3, <2>1
<1>7. ASSUME SwapTasks \/ DestroyWorker PROVE BatchInv'
  <2>1. batch = {} /\ batch' = batch
    BY <1>7 DEF SwapTasks, DestroyWorker, LoopInv
  <2> QED
    BY <1>3, <2>1
<1>8. ASSUME NEW c \in Chans, CloseChannel(c) PROVE BatchInv'
  <2>1. batch' = batch /\ channels' = Removed(c) /\ c \in Range(channels)
        /\ tasks' = Offer(<<[op |-> "inactive", ch |-> c]>>)
    BY <1>8 DEF CloseChannel, InactiveTask
  <2>2. CASE batch = {}
    BY <1>3, <2>1, <2>2
  <2>3. CASE batch # {}
    <3>1. ~closed
      BY <2>3 DEF LoopInv
    <3>2. TaskChans(tasks') = TaskChans(tasks) \cup {c}
      BY <2>1, <3>1, Offered, TaskTypes DEF TypeOK
    <3>3. Range(channels') = Range(channels) \ {c}
      BY <2>1, RemovedHas
    <3> QED
      BY <1>2, <2>1, <3>2, <3>3
  <2> QED
    BY <2>2, <2>3
<1>9. ASSUME batch' \subseteq batch, channels' = channels, tasks' = tasks PROVE BatchInv'
  BY <1>2, <1>9 DEF TaskChans
<1>10. \/ batch' \subseteq batch /\ channels' = channels /\ tasks' = tasks
       \/ EpollWait \/ RunTask \/ SwapTasks \/ DestroyWorker
       \/ \E c \in Chans : RegisterStarted(c) \/ Post(c) \/ RegisterChild(c) \/ CloseChannel(c)
  BY DEF Next, OpenSocket, CandidateFails, LookupFails, Connected, SetupFails, NameFails, Named,
         MakeFails, StartFails, MakeChannel, AcceptSocket, MakeChildFails, MakeChild, ChildFails,
         ChildDropped, Dispatch, AcceptEvent, AcceptEnds, EndHandler, EndRun, SeeShutdown,
         KeepChannel, DropChannel, vars
<1> QED
  BY <1>4, <1>5, <1>6, <1>7, <1>8, <1>9, <1>10

\* The tasks that register a channel, when one is offered.
LEMMA OfferedRegisters ==
  ASSUME TypeOK, NEW t \in Task, tasks' = Offer(<<t>>), NEW i, NEW c
  PROVE  /\ Registers(tasks', i, c) =>
              Registers(tasks, i, c) \/ (i = Len(tasks) + 1 /\ t.op = "register" /\ t.ch = c)
         /\ t.op # "register" => (Registers(tasks', i, c) => Registers(tasks, i, c))
<1>1. /\ closed => tasks' = tasks
      /\ ~closed => /\ DOMAIN tasks' = DOMAIN tasks \cup {Len(tasks) + 1}
                    /\ Len(tasks) + 1 \notin DOMAIN tasks
                    /\ tasks'[Len(tasks) + 1] = t
                    /\ \A j \in DOMAIN tasks : tasks'[j] = tasks[j]
  <2>1. tasks \in Seq(Task)
    BY DEF TypeOK
  <2> QED
    BY <2>1, Offered
<1> QED
  BY <1>1 DEF Registers

\* Who is registered is known to be a channel that something refers to.
LEMMA RegistersHeld ==
  ASSUME TypeOK, HeldInv, NEW i, NEW c
  PROVE  Registers(tasks, i, c) \/ Registers(snapshot, i, c) => c \in DOMAIN ident
<1>1. Registers(tasks, i, c) => c \in TaskChans(tasks)
  BY DEF Registers, TaskChans
<1>2. Registers(snapshot, i, c) => c \in TaskChans(snapshot)
  BY DEF Registers, TaskChans
<1> QED
  BY <1>1, <1>2, HeldMade

\* A step that gives no channel to anybody.
LEMMA OnceKept ==
  ASSUME TypeOK, OnceInv, start'.ch \subseteq start.ch, accept'.ch \subseteq accept.ch,
         Known' \subseteq Known, Range(channels') \cap removed' = {},
         \A i, c : Registers(tasks', i, c) => Registers(tasks, i, c),
         \A i \in Nat : \A c : i >= next' /\ Registers(snapshot', i, c) => i >= next /\ Registers(snapshot, i, c)
  PROVE  OnceInv'
<1>1. Fresh' \subseteq Fresh
  BY DEF Fresh
<1>2. start'.ch \cap accept'.ch = {} /\ Fresh' \cap Known' = {}
  BY <1>1 DEF OnceInv
<1>3. ASSUME NEW c \in Chans PROVE RegisteredOnce(c)'
  BY <1>1 DEF OnceInv, RegisteredOnce
<1> QED
  BY <1>2, <1>3 DEF OnceInv

\* A step that makes a channel.
LEMMA OnceMade ==
  ASSUME TypeOK, HeldInv, OnceInv, NEW c \in Chans \ DOMAIN ident,
         start'.ch \cap accept'.ch = {}, Fresh' \subseteq Fresh \cup {c},
         UNCHANGED <<channels, removed, tasks, snapshot, next>>
  PROVE  OnceInv'
<1>1. Known' = Known /\ c \notin Known
  BY HeldMade DEF Known, HeldInv
<1>2. \A i : ~Registers(tasks, i, c) /\ ~Registers(snapshot, i, c)
  BY RegistersHeld
<1>3. Fresh' \cap Known' = {}
  BY <1>1 DEF OnceInv
<1>4. ASSUME NEW d \in Chans PROVE RegisteredOnce(d)'
  BY <1>1, <1>2 DEF OnceInv, RegisteredOnce
<1> QED
  BY <1>3, <1>4 DEF OnceInv

\* A step that gives a channel not yet registered to loop_register, and lets go of it.
LEMMA OnceOffered ==
  ASSUME TypeOK, HeldInv, OnceInv, NEW c \in Chans, c \in Fresh, tasks' = Offer(Registered(c)),
         start'.ch \cap accept'.ch = {}, Fresh' \subseteq Fresh \ {c},
         UNCHANGED <<channels, removed, snapshot, next>>
  PROVE  OnceInv'
<1>1. Known' = Known /\ c \notin Known
  BY DEF Known, OnceInv
<1>2. \A i \in Nat : ~Registers(tasks, i, c) /\ (i >= next => ~Registers(snapshot, i, c))
  BY DEF OnceInv, RegisteredOnce
<1>3. \A i, d : Registers(tasks', i, d) => Registers(tasks, i, d) \/ (i = Len(tasks) + 1 /\ d = c)
  BY OfferedRegisters, TaskTypes DEF Registered
<1>4. Fresh' \cap Known' = {}
  BY <1>1 DEF OnceInv
<1>5. ASSUME NEW d \in Chans PROVE RegisteredOnce(d)'
  <2>1. CASE d = c
    BY <1>1, <1>2, <1>3, <2>1 DEF RegisteredOnce
  <2>2. CASE d # c
    BY <1>1, <1>3, <2>2 DEF OnceInv, RegisteredOnce
  <2> QED
    BY <2>1, <2>2
<1> QED
  BY <1>4, <1>5 DEF OnceInv

\* A step that registers a channel of begin_read at once.
LEMMA OnceAdded ==
  ASSUME TypeOK, HeldInv, OnceInv, NEW c \in accept.ch, channels' = Added(c), accept'.ch = {},
         start'.ch = start.ch, UNCHANGED <<removed, tasks, snapshot, next>>
  PROVE  OnceInv'
<1>1. c \in Chans /\ c \in DOMAIN ident /\ c \in Fresh /\ c \notin Known
  BY HeldMade DEF Fresh, OnceInv
<1>2. Range(channels') \subseteq Range(channels) \cup {c}
  BY <1>1, AddedType
<1>3. Known' \subseteq Known \cup {c} /\ Fresh' \subseteq Fresh \ {c}
  BY <1>2 DEF Known, Fresh, OnceInv
<1>4. Range(channels') \cap removed' = {} /\ Fresh' \cap Known' = {}
  BY <1>1, <1>2, <1>3 DEF OnceInv, Known
<1>5. \A i \in Nat : ~Registers(tasks, i, c) /\ (i >= next => ~Registers(snapshot, i, c))
  BY <1>1 DEF OnceInv, RegisteredOnce
<1>6. ASSUME NEW d \in Chans PROVE RegisteredOnce(d)'
  <2>1. CASE d = c
    BY <1>5, <2>1 DEF RegisteredOnce
  <2>2. CASE d # c
    BY <1>3, <2>2 DEF OnceInv, RegisteredOnce
  <2> QED
    BY <2>1, <2>2
<1> QED
  BY <1>4, <1>6 DEF OnceInv

\* execute_tasks takes the list over.
LEMMA OnceSwapped ==
  ASSUME TypeOK, OnceInv, snapshot' = tasks, tasks' = <<>>, next' = 1,
         UNCHANGED <<start, accept, channels, removed>>
  PROVE  OnceInv'
<1>1. Known' = Known /\ Fresh' = Fresh
  BY DEF Known, Fresh
<1>2. \A i, c : ~Registers(tasks', i, c)
  BY DEF Registers
<1>3. ASSUME NEW c \in Chans PROVE RegisteredOnce(c)'
  BY <1>1, <1>2 DEF OnceInv, RegisteredOnce
<1> QED
  BY <1>1, <1>3 DEF OnceInv

\* The loop runs the task at `next` of its list, which may register a channel.
LEMMA OnceRun ==
  ASSUME TypeOK, HeldInv, OnceInv, next <= Len(snapshot), next' = next + 1,
         channels' = IF snapshot[next].op = "register" THEN Added(snapshot[next].ch) ELSE channels,
         UNCHANGED <<start, accept, removed, tasks, snapshot>>
  PROVE  OnceInv'
<1>0. /\ next \in DOMAIN snapshot /\ next \in Nat
      /\ snapshot[next].ch \in DOMAIN ident /\ snapshot[next].ch \in Chans
  BY NextTask, HeldMade
<1>1. CASE snapshot[next].op # "register"
  <2>1. Known' = Known /\ Range(channels') \cap removed' = {}
    BY <1>1 DEF Known, OnceInv
  <2>2. \A i \in Nat : \A c : i >= next' /\ Registers(snapshot', i, c) => i >= next /\ Registers(snapshot, i, c)
    BY <1>0
  <2> QED
    BY <2>1, <2>2, OnceKept
<1>2. CASE snapshot[next].op = "register"
  <2>1. PICK c \in Chans : c = snapshot[next].ch /\ c \in DOMAIN ident
    BY <1>0
  <2>2. Registers(snapshot, next, c) /\ channels' = Added(c)
    BY <1>0, <1>2, <2>1 DEF Registers
  <2>3. c \notin Fresh \cup Known /\ \A i \in Nat : ~Registers(tasks, i, c)
    BY <1>0, <2>2 DEF OnceInv, RegisteredOnce
  <2>4. \A i \in Nat : i >= next' => ~Registers(snapshot', i, c) /\ i >= next
    BY <1>0, <2>2 DEF OnceInv, RegisteredOnce
  <2>5. Range(channels') \subseteq Range(channels) \cup {c}
    BY <2>1, <2>2, AddedType
  <2>6. Known' \subseteq Known \cup {c} /\ Fresh' = Fresh
    BY <2>5 DEF Known, Fresh
  <2>7. Range(channels') \cap removed' = {} /\ Fresh' \cap Known' = {}
    BY <2>3, <2>5, <2>6 DEF OnceInv, Known
  <2>8. ASSUME NEW d \in Chans
        PROVE  RegisteredOnce(d)'
    <3>1. CASE d = c
      BY <2>3, <2>4, <3>1 DEF RegisteredOnce
    <3>2. CASE d # c
      BY <2>4, <2>6, <3>2 DEF OnceInv, RegisteredOnce
    <3> QED
      BY <3>1, <3>2
  <2> QED
    BY <2>7, <2>8 DEF OnceInv
<1> QED
  BY <1>1, <1>2

\* Every action leaves a channel registered once.
LEMMA OnceStep ==
  ASSUME TypeOK, StartInv, HeldInv, OnceInv, [Next]_vars
  PROVE  OnceInv'
<1> USE DEF makerVars, loopVars, taskVars, heldVars
<1>0. Range(channels) \cap removed = {} /\ start.ch \cap accept.ch = {}
  BY DEF OnceInv
<1>1. ASSUME NEW c \in Chans, MakeChannel(c) PROVE OnceInv'
  <2>1. start'.ch = {c} /\ accept' = accept /\ c \notin DOMAIN ident
    BY <1>1 DEF MakeChannel, NewChans, TypeOK
  <2>2. start'.ch \cap accept'.ch = {} /\ Fresh' \subseteq Fresh \cup {c}
    BY <2>1, HeldMade DEF Fresh
  <2> QED
    BY <1>1, <2>1, <2>2, OnceMade DEF MakeChannel
<1>2. ASSUME NEW c \in Chans, MakeChild(c) PROVE OnceInv'
  <2>1. accept'.ch = {c} /\ start' = start /\ c \notin DOMAIN ident
    BY <1>2 DEF MakeChild, NoChild, NewChans
  <2>2. start'.ch \cap accept'.ch = {} /\ Fresh' \subseteq Fresh \cup {c}
    BY <2>1, HeldMade DEF Fresh
  <2> QED
    BY <1>2, <2>1, <2>2, OnceMade DEF MakeChild
<1>3. ASSUME NEW c \in Chans, RegisterStarted(c) PROVE OnceInv'
  <2>1. c \in start.ch /\ start'.ch = {} /\ accept' = accept
    BY <1>3 DEF RegisterStarted, Idle
  <2>2. start'.ch \cap accept'.ch = {} /\ c \in Fresh /\ Fresh' \subseteq Fresh \ {c}
    BY <1>0, <2>1 DEF Fresh
  <2> QED
    BY <1>3, <2>1, <2>2, OnceOffered DEF RegisterStarted
<1>4. ASSUME NEW c \in Chans, RegisterChild(c) PROVE OnceInv'
  <2>1. c \in accept.ch /\ accept'.ch = {} /\ start' = start
    BY <1>4 DEF RegisterChild, NoChild
  <2>2. start'.ch \cap accept'.ch = {} /\ c \in Fresh /\ Fresh' \subseteq Fresh \ {c}
    BY <1>0, <2>1 DEF Fresh
  <2>3. CASE sameLoop
    BY <1>4, <2>1, <2>3, OnceAdded DEF RegisterChild
  <2>4. CASE ~sameLoop
    BY <1>4, <2>1, <2>2, <2>4, OnceOffered DEF RegisterChild
  <2> QED
    BY <2>3, <2>4
<1>5. CASE SwapTasks
  BY <1>5, OnceSwapped DEF SwapTasks
<1>6. CASE RunTask
  BY <1>6, OnceRun DEF RunTask, TaskAfter
<1>7. ASSUME start'.ch \subseteq start.ch, accept'.ch \subseteq accept.ch,
             UNCHANGED <<channels, removed, tasks, snapshot, next>>
      PROVE  OnceInv'
  <2>1. Known' = Known
    BY <1>7 DEF Known
  <2> QED
    BY <1>0, <1>7, <2>1, OnceKept
<1>8. CASE EndRun
  <2>1. Known' = Known
    BY <1>8 DEF EndRun, Known
  <2>2. \A i, c : ~Registers(snapshot', i, c)
    BY <1>8 DEF EndRun, Registers
  <2> QED
    BY <1>0, <1>8, <2>1, <2>2, OnceKept DEF EndRun
<1>9. CASE DestroyWorker
  <2>1. Range(channels') = {}
    BY <1>9 DEF DestroyWorker, Range
  <2>2. Known' \subseteq Known
    BY <1>9, <2>1 DEF DestroyWorker, Known
  <2> QED
    BY <1>9, <2>1, <2>2, OnceKept DEF DestroyWorker
<1>10. ASSUME NEW c \in Chans, CloseChannel(c) PROVE OnceInv'
  <2>1. Range(channels') = Range(channels) \ {c} /\ removed' = removed \cup {c} /\ c \in Range(channels)
    BY <1>10, RemovedHas DEF CloseChannel
  <2>2. Known' = Known /\ Range(channels') \cap removed' = {}
    BY <1>0, <2>1 DEF Known
  <2>3. \A i, d : Registers(tasks', i, d) => Registers(tasks, i, d)
    BY <1>10, TaskTypes, OfferedRegisters DEF CloseChannel, InactiveTask
  <2> QED
    BY <1>10, <2>2, <2>3, OnceKept DEF CloseChannel
<1>11. ASSUME NEW c \in Chans, Post(c) PROVE OnceInv'
  <2>1. Known' = Known
    BY <1>11 DEF Post, Known
  <2>2. \A i, d : Registers(tasks', i, d) => Registers(tasks, i, d)
    BY <1>11, TaskTypes, OfferedRegisters DEF Post
  <2> QED
    BY <1>0, <1>11, <2>1, <2>2, OnceKept DEF Post
<1>12. ASSUME \/ \E f \in Fds : OpenSocket(f)
              \/ CandidateFails \/ LookupFails \/ Connected \/ SetupFails \/ NameFails
              \/ Named \/ MakeFails \/ StartFails
       PROVE  OnceInv'
  <2>1. start'.ch \subseteq start.ch
    BY <1>12, StartMakesNone
  <2> QED
    BY <1>7, <1>12, <2>1
    DEF OpenSocket, CandidateFails, LookupFails, Connected, SetupFails, NameFails, Named, MakeFails,
        StartFails
<1>13. ASSUME \/ \E c \in Chans : ChildFails(c)
              \/ \E f \in Fds : AcceptSocket(f)
              \/ MakeChildFails \/ ChildDropped
       PROVE  OnceInv'
  <2>1. accept'.ch \subseteq accept.ch
    <3>1. CASE \E c \in Chans : ChildFails(c)
      BY <3>1 DEF ChildFails, TypeOK
    <3>2. CASE \E f \in Fds : AcceptSocket(f)
      BY <3>2 DEF AcceptSocket, NoChild
    <3>3. CASE MakeChildFails
      BY <3>3 DEF MakeChildFails, NoChild
    <3>4. CASE ChildDropped
      BY <3>4 DEF ChildDropped, NoChild
    <3> QED
      BY <1>13, <3>1, <3>2, <3>3, <3>4
  <2> QED
    BY <1>7, <1>13, <2>1 DEF ChildFails, AcceptSocket, MakeChildFails, ChildDropped
<1>14. \/ \E f \in Fds : OpenSocket(f)
       \/ CandidateFails \/ LookupFails \/ Connected \/ SetupFails \/ NameFails \/ Named
       \/ MakeFails \/ StartFails
       \/ \E c \in Chans : MakeChannel(c) \/ RegisterStarted(c) \/ RegisterChild(c) \/ ChildFails(c)
                           \/ CloseChannel(c) \/ Post(c) \/ MakeChild(c)
       \/ MakeChildFails \/ \E f \in Fds : AcceptSocket(f)
       \/ ChildDropped \/ SwapTasks \/ RunTask \/ EndRun \/ DestroyWorker
       \/ UNCHANGED <<start, accept, channels, removed, tasks, snapshot, next>>
  BY DEF Next, EpollWait, Dispatch, AcceptEvent, AcceptEnds, EndHandler, SeeShutdown, KeepChannel,
         DropChannel, vars
<1> QED
  BY <1>1, <1>2, <1>3, <1>4, <1>5, <1>6, <1>7, <1>8, <1>9, <1>10, <1>11, <1>12, <1>13, <1>14

-----------------------------------------------------------------------------
(* The theorems. *)

\* The invariant holds at first.
LEMMA InitStep == Init => DescInv
<1> SUFFICES ASSUME Init PROVE DescInv
  OBVIOUS
<1>1. /\ DOMAIN channels = {} /\ Range(channels) = {} /\ DOMAIN ident = {} /\ Range(ident) = {}
      /\ TaskChans(tasks) = {} /\ TaskChans(snapshot) = {}
      /\ tasks \in Seq(Task) /\ snapshot \in Seq(Task) /\ Len(snapshot) = 0
  BY TaskChansType DEF Init, Range
<1>2. /\ start.at = "idle" /\ start.fd = {} /\ start.ch = {} /\ start.tried = 0
      /\ accept.fd = {} /\ accept.ch = {} /\ accept.threw = FALSE
  BY DEF Init, Idle, NoChild
<1>3. TypeOK
  <2>1. start \in [at : {"idle"}, fd : {{}}, ch : {{}}, tried : {0}] /\ 0 \in 0 .. Candidates
    BY DescriptorAssumption DEF Init, Idle
  <2>2. accept \in [fd : SUBSET Fds, ch : SUBSET Chans, threw : BOOLEAN]
    BY DEF Init, NoChild
  <2>3. 0 \in 0 .. MaxPosts /\ 1 \in 1 .. Len(snapshot) + 1
    BY <1>1, DescriptorAssumption
  <2>4. start \in [at : {"idle", "trying", "failed", "connected", "named", "made"},
                   fd : SUBSET Fds, ch : SUBSET Chans, tried : 0 .. Candidates]
    BY <2>1
  <2> QED
    BY <1>1, <2>2, <2>3, <2>4 DEF Init, TypeOK
<1>4. StartInv
  BY <1>2 DEF StartInv
<1>5. OwnInv
  BY <1>2 DEF Init, OwnInv, DescriptorOwned, NoLeak, Unowned, Apart, InHand
<1>6. Held = {}
  BY <1>1, <1>2 DEF Held, Init
<1>7. HeldInv
  BY <1>1, <1>6 DEF HeldInv, Init
<1>8. LoopInv /\ BatchInv
  BY DEF Init, LoopInv, BatchInv
<1>9. OnceInv
  <2>1. Fresh = {} /\ Known = {}
    BY <1>1, <1>2 DEF Fresh, Known, Init
  <2>2. \A i, c : ~Registers(tasks, i, c) /\ ~Registers(snapshot, i, c)
    BY DEF Init, Registers
  <2> QED
    BY <1>1, <1>2, <2>1, <2>2 DEF OnceInv, RegisteredOnce
<1> QED
  BY <1>3, <1>4, <1>5, <1>7, <1>8, <1>9 DEF DescInv

\* Every action keeps it.
LEMMA InvStep == DescInv /\ [Next]_vars => DescInv'
BY TypeStep, StartStep, OwnStep, HeldStep, LoopStep, BatchStep, OnceStep DEF DescInv

\* It is an invariant of every behaviour.
THEOREM Invariant == Spec => []DescInv
BY InitStep, InvStep, PTL DEF Spec

\* Every variable keeps its type.
THEOREM DescriptorTypeCorrect == Spec => []TypeOK
<1>1. DescInv => TypeOK
  BY DEF DescInv
<1> QED
  BY <1>1, Invariant, PTL

\* The descriptors of existing channels are open, no two channels share one, and none is
\* in the hands of start_client or begin_read: none is closed twice.
THEOREM OwnedOnce == Spec => []DescriptorOwned
<1>1. DescInv => DescriptorOwned
  BY DEF DescInv, OwnInv
<1> QED
  BY <1>1, Invariant, PTL

\* Every open descriptor is one that something will close, but for those that name_socket,
\* make_client, make_server or make_child lost by throwing before a channel had them.
THEOREM NothingLeaks == Spec => []NoLeak
<1>1. DescInv => NoLeak
  BY DEF DescInv, OwnInv
<1> QED
  BY <1>1, Invariant, PTL

\* A closed channel is destroyed by the time the loop waits, or has ended, with no task
\* queued, unless the application keeps it.
THEOREM ClosedGone == Spec => []ClosedIsReleased
<1>1. DescInv => ClosedIsReleased
  <2> SUFFICES ASSUME DescInv, pc \in {"poll", "stopped"}, tasks = <<>>,
                      NEW c \in removed, c \in exists
               PROVE  c \in kept
    BY DEF ClosedIsReleased
  <2>1. cur = {} /\ snapshot = <<>>
    BY DEF DescInv, LoopInv
  <2>2. TaskChans(tasks) = {} /\ TaskChans(snapshot) = {}
    BY <2>1, TaskChansType
  <2>3. c \notin start.ch /\ c \notin accept.ch /\ c \notin Range(channels)
    BY DEF DescInv, OnceInv, Fresh, Known
  <2>4. c \in Held
    BY DEF DescInv, HeldInv
  <2> QED
    BY <2>1, <2>2, <2>3, <2>4 DEF Held
<1> QED
  BY <1>1, Invariant, PTL

\* An event reaches the channel it was fetched for, or none.
THEOREM EventsReachOwner == Spec => EventReachesOwner
<1>1. DescInv /\ [Next]_vars => [\A e \in batch : Dispatch(e) => cur' \subseteq {e.ch}]_vars
  <2> SUFFICES ASSUME DescInv, NEW e \in batch, Dispatch(e) PROVE cur' \subseteq {e.ch}
    OBVIOUS
  <2>1. TypeOK /\ HeldInv /\ OwnInv /\ LoopInv /\ BatchInv
    BY DEF DescInv
  <2>2. cur = {}
    BY <2>1 DEF Dispatch, LoopInv
  <2>3. CASE e.fd \notin DOMAIN channels
    BY <2>2, <2>3 DEF Dispatch
  <2>4. CASE e.fd \in DOMAIN channels
    <3>1. ident[channels[e.fd]] = e.fd /\ ident[e.ch] = e.fd
      BY <2>1, <2>4 DEF HeldInv, BatchInv
    <3>2. channels[e.fd] \in exists /\ e.ch \in exists
      <4>1. channels[e.fd] \in Range(channels)
        BY <2>4 DEF Range
      <4> QED
        BY <2>1, <4>1, HeldMade DEF BatchInv, HeldInv
    <3>3. channels[e.fd] = e.ch
      BY <2>1, <3>1, <3>2 DEF OwnInv, DescriptorOwned
    <3> QED
      BY <2>4, <3>3 DEF Dispatch
  <2> QED
    BY <2>3, <2>4
<1> QED
  BY <1>1, Invariant, PTL DEF Spec, EventReachesOwner
=============================================================================
