-------------------------- MODULE EventWorkerProofs --------------------------
(***************************************************************************)
(* What holds of EventWorker for every set of clients and tasks and every  *)
(* bound on the shutdown requests.                                         *)
(***************************************************************************)
EXTENDS EventWorker, SequenceTheorems, TLAPS

\* Whatever offer_task decides, the queue and its histories keep their types.
LEMMA OfferType ==
  ASSUME TypeOK, NEW k \in Tasks, Push(k) \/ Reject(k)
  PROVE  /\ tasks' \in Seq(Tasks)
         /\ snapshot' \in Seq(Tasks)
         /\ accepted' \in Seq(Tasks)
         /\ executed' \in Seq(Tasks)
         /\ rejected' \in SUBSET Tasks
<1>1. CASE Push(k)
  BY <1>1 DEF Push, TypeOK
<1>2. CASE Reject(k)
  BY <1>2 DEF Reject, TypeOK
<1> QED
  BY <1>1, <1>2

\* Every variable keeps its type: TypeOK is inductive by itself.
THEOREM TypeCorrect == Spec => []TypeOK
<1> USE DEF TypeOK, LoopPcs, ClientPcs
<1>1. Init => TypeOK
  <2> SUFFICES ASSUME Init PROVE TypeOK
    OBVIOUS
  <2>1. clientPc \in [Clients -> ClientPcs]
    BY DEF Init
  <2>2. <<>> \in Seq(Tasks)
    OBVIOUS
  <2> QED
    BY <2>1, <2>2 DEF Init
<1>2. TypeOK /\ [Next]_vars => TypeOK'
  <2> SUFFICES ASSUME TypeOK, [Next]_vars PROVE TypeOK'
    OBVIOUS
  <2>1. CASE StartLoop
    BY <2>1 DEF StartLoop, queueVars, clientVars
  <2>2. CASE Activate
    BY <2>2 DEF Activate, queueVars, clientVars
  <2>3. CASE NotifyAll
    BY <2>3 DEF NotifyAll, queueVars
  <2>4. CASE SetTimeout
    BY <2>4 DEF SetTimeout, MayBlock, queueVars, clientVars
  <2>5. CASE ReadEventfd
    BY <2>5 DEF ReadEventfd, queueVars, clientVars
  <2>6. CASE Deactivate
    BY <2>6 DEF Deactivate, queueVars, clientVars
  <2>7. CASE SwapTasks
    BY <2>7 DEF SwapTasks, TasksSwapped, ClosesNow, clientVars
  <2>8. CASE RunTask
    BY <2>8 DEF RunTask, NextTask, loopVars, clientVars
  <2>9. CASE EndRun
    BY <2>9 DEF EndRun, queueVars, clientVars
  <2>10. CASE EpollFails \/ EpollReturns
    BY <2>10 DEF EpollFails, EpollReturns, queueVars, clientVars
  <2>11. ASSUME NEW k \in Tasks, HandlerOffer(k)
         PROVE  TypeOK'
    BY <2>11, OfferType DEF HandlerOffer, loopVars, clientVars
  <2>12. CASE HandlerShutdown
    BY <2>12 DEF HandlerShutdown, MayShutdown, EVFD_SHUTDOWN, loopVars, queueVars
  <2>13. ASSUME NEW c \in Clients,
                \/ WaitForLoop(c) \/ SpuriousWake(c) \/ LeaveWait(c) \/ BeginOffer(c)
         PROVE  TypeOK'
    BY <2>13 DEF WaitForLoop, SpuriousWake, LeaveWait, BeginOffer, MoveClient,
                 loopVars, queueVars
  <2>14. ASSUME NEW c \in Clients, WakeUp(c) \/ ShutdownLoop(c)
         PROVE  TypeOK'
    BY <2>14 DEF WakeUp, ShutdownLoop, MayShutdown, MoveClient, EVFD_NORMAL,
                 EVFD_SHUTDOWN, loopVars, queueVars
  <2>15. ASSUME NEW c \in Clients, NEW k \in Tasks, Offer(c, k)
         PROVE  TypeOK'
    <3>1. Push(k) \/ Reject(k)
      BY <2>15 DEF Offer
    <3> QED
      BY <2>15, <3>1, OfferType DEF Offer, MoveClient, loopVars
  <2>16. CASE UNCHANGED vars
    BY <2>16 DEF vars, loopVars, queueVars, clientVars
  <2> QED
    BY <2>1, <2>2, <2>3, <2>4, <2>5, <2>6, <2>7, <2>8, <2>9, <2>10, <2>11, <2>12,
       <2>13, <2>14, <2>15, <2>16 DEF Next, LoopStep
<1> QED
  BY <1>1, <1>2, PTL DEF Spec

-----------------------------------------------------------------------------
(* Moving an element between adjacent sequences. *)

\* Appending to the second of two sequences is appending to their concatenation.
LEMMA AppendToSecond ==
  ASSUME NEW S, NEW s \in Seq(S), NEW t \in Seq(S), NEW e \in S
  PROVE  s \o Append(t, e) = Append(s \o t, e)
<1>1. <<e>> \in Seq(S) /\ s \o t \in Seq(S)
  BY ConcatProperties
<1>2. s \o Append(t, e) = s \o (t \o <<e>>)
  BY AppendIsConcat
<1>3. Append(s \o t, e) = (s \o t) \o <<e>>
  BY <1>1, AppendIsConcat
<1> QED
  BY <1>1, <1>2, <1>3, ConcatAssociative

\* So it is with three.
LEMMA AppendToThird ==
  ASSUME NEW S, NEW s \in Seq(S), NEW t \in Seq(S), NEW u \in Seq(S), NEW e \in S
  PROVE  (s \o t) \o Append(u, e) = Append((s \o t) \o u, e)
<1> DEFINE st == s \o t
<1>1. st \in Seq(S)
  BY ConcatProperties
<1> HIDE DEF st
<1>2. st \o Append(u, e) = Append(st \o u, e)
  BY <1>1, AppendToSecond
<1> QED
  BY <1>2 DEF st

\* The head of the second sequence may move to the end of the first.
LEMMA MoveHead ==
  ASSUME NEW S, NEW s \in Seq(S), NEW t \in Seq(S), t # <<>>
  PROVE  Append(s, Head(t)) \o Tail(t) = s \o t
<1>1. Head(t) \in S /\ Tail(t) \in Seq(S) /\ <<Head(t)>> \in Seq(S)
  BY HeadTailProperties
<1>2. t = <<Head(t)>> \o Tail(t)
  <2>1. <<Head(t)>> \o Tail(t) \in Seq(S) /\ Len(<<Head(t)>> \o Tail(t)) = Len(t)
    BY <1>1, ConcatProperties, HeadTailProperties
  <2>2. ASSUME NEW i \in 1 .. Len(t)
        PROVE  (<<Head(t)>> \o Tail(t))[i] = t[i]
    BY <1>1, HeadTailProperties, ConcatProperties
  <2> QED
    BY <2>1, <2>2, SeqEqual
<1>3. Append(s, Head(t)) = s \o <<Head(t)>>
  BY <1>1, AppendIsConcat
<1> QED
  BY <1>1, <1>2, <1>3, ConcatAssociative

\* The head and the tail of a concatenation are those of its first part.
LEMMA HeadTailConcat ==
  ASSUME NEW S, NEW s \in Seq(S), NEW t \in Seq(S), s # <<>>
  PROVE  /\ s \o t # <<>>
         /\ Head(s \o t) = Head(s)
         /\ Tail(s \o t) = Tail(s) \o t
<1>1. s \o t \in Seq(S) /\ s \o t # <<>>
  BY ConcatProperties, ConcatEqualIffEmpty
<1>2. Head(s \o t) = Head(s)
  BY <1>1, ConcatProperties
<1>3. Tail(s \o t) = Tail(s) \o t
  <2>1. /\ Tail(s) \in Seq(S)
        /\ Tail(s \o t) \in Seq(S)
        /\ Tail(s) \o t \in Seq(S)
        /\ Len(Tail(s \o t)) = Len(Tail(s) \o t)
    BY <1>1, ConcatProperties, HeadTailProperties
  <2>2. ASSUME NEW i \in 1 .. Len(Tail(s \o t))
        PROVE  Tail(s \o t)[i] = (Tail(s) \o t)[i]
    BY <1>1, <2>1, HeadTailProperties, ConcatProperties
  <2> QED
    BY <2>1, <2>2, SeqEqual
<1> QED
  BY <1>1, <1>2, <1>3

-----------------------------------------------------------------------------
(* The task queue. *)

\* ExactlyOnceInOrder with what makes it inductive: a list is swapped out only
\* when the last one was run to its end, and the queue is empty once closed.
\* `done` is reached only through a swap that closed.
QueueInv ==
  /\ ExactlyOnceInOrder
  /\ loopPc # "run" => snapshot = <<>>
  /\ taskClosed => tasks = <<>>
  /\ loopPc = "run" /\ ~inProgress => taskClosed
  /\ loopPc = "done" => taskClosed

\* Pushing and rejecting keep the order and the emptiness of a closed queue.
LEMMA OfferQueue ==
  ASSUME TypeOK, QueueInv, NEW k \in Tasks, Push(k) \/ Reject(k), UNCHANGED loopVars
  PROVE  QueueInv'
<1>1. CASE Push(k)
  <2>1. executed \in Seq(Tasks) /\ snapshot \in Seq(Tasks) /\ tasks \in Seq(Tasks)
    BY DEF TypeOK
  <2>2. (executed \o snapshot) \o Append(tasks, k) = Append((executed \o snapshot) \o tasks, k)
    BY <2>1, AppendToThird
  <2>3. ExactlyOnceInOrder'
    BY <1>1, <2>2 DEF Push, QueueInv, ExactlyOnceInOrder
  <2>4. UNCHANGED <<snapshot, taskClosed, inProgress, loopPc>> /\ ~taskClosed
    BY <1>1 DEF Push, loopVars
  <2> QED
    BY <2>3, <2>4 DEF QueueInv
<1>2. CASE Reject(k)
  BY <1>2 DEF Reject, QueueInv, ExactlyOnceInOrder, loopVars
<1> QED
  BY <1>1, <1>2

\* An empty queue that was never closed.
LEMMA QueueInit == Init => QueueInv
  BY DEF Init, QueueInv, ExactlyOnceInOrder

\* Only a swap and a task's return move tasks between the lists, and only the
\* critical section that takes the last list closes the queue.
LEMMA QueueStep == TypeOK /\ QueueInv /\ [Next]_vars => QueueInv'
<1> SUFFICES ASSUME TypeOK, QueueInv, [Next]_vars PROVE QueueInv'
  OBVIOUS
<1> USE DEF QueueInv, ExactlyOnceInOrder
<1>1. CASE StartLoop
  BY <1>1 DEF StartLoop, queueVars
<1>2. CASE Activate
  BY <1>2 DEF Activate, queueVars
<1>3. CASE NotifyAll
  BY <1>3 DEF NotifyAll, queueVars
<1>4. CASE SetTimeout
  BY <1>4 DEF SetTimeout, queueVars
<1>5. CASE ReadEventfd
  BY <1>5 DEF ReadEventfd, queueVars
<1>6. CASE Deactivate
  BY <1>6 DEF Deactivate, queueVars
<1>7. CASE SwapTasks
  <2>1. snapshot = <<>> /\ snapshot' = tasks /\ tasks' = <<>>
    BY <1>7 DEF SwapTasks, TasksSwapped
  <2>2. executed \o snapshot = executed
    BY <2>1, ConcatEmptySeq DEF TypeOK
  <2>3. (executed \o snapshot) \o tasks = (executed \o snapshot') \o tasks'
    <3>1. executed \o tasks \in Seq(Tasks)
      BY ConcatProperties DEF TypeOK
    <3> QED
      BY <2>1, <2>2, <3>1, ConcatEmptySeq
  <2>4. ExactlyOnceInOrder'
    BY <1>7, <2>3 DEF SwapTasks
  <2> QED
    BY <1>7, <2>1, <2>4 DEF SwapTasks, ClosesNow
<1>8. CASE RunTask
  <2>1. Append(executed, Head(snapshot)) \o Tail(snapshot) = executed \o snapshot
    BY <1>8, MoveHead DEF RunTask, TypeOK
  <2> QED
    BY <1>8, <2>1 DEF RunTask, NextTask, loopVars
<1>9. CASE EndRun
  BY <1>9 DEF EndRun, queueVars
<1>10. CASE EpollFails
  BY <1>10 DEF EpollFails, queueVars
<1>11. CASE EpollReturns
  BY <1>11 DEF EpollReturns, queueVars
<1>12. ASSUME NEW k \in Tasks, HandlerOffer(k)
       PROVE  QueueInv'
  BY <1>12, OfferQueue DEF HandlerOffer
<1>13. CASE HandlerShutdown
  BY <1>13 DEF HandlerShutdown, loopVars, queueVars
<1>14. ASSUME NEW c \in Clients,
              \/ WaitForLoop(c) \/ SpuriousWake(c) \/ LeaveWait(c) \/ BeginOffer(c)
              \/ WakeUp(c) \/ ShutdownLoop(c)
       PROVE  QueueInv'
  <2>1. UNCHANGED <<loopVars, queueVars>>
    BY <1>14 DEF WaitForLoop, SpuriousWake, LeaveWait, BeginOffer, WakeUp, ShutdownLoop
  <2> QED
    BY <2>1 DEF loopVars, queueVars
<1>15. ASSUME NEW c \in Clients, NEW k \in Tasks, Offer(c, k)
       PROVE  QueueInv'
  <2>1. Push(k) \/ Reject(k)
    BY <1>15 DEF Offer
  <2> QED
    BY <1>15, <2>1, OfferQueue DEF Offer
<1>16. CASE UNCHANGED vars
  BY <1>16 DEF vars, loopVars, queueVars
<1> QED
  BY <1>1, <1>2, <1>3, <1>4, <1>5, <1>6, <1>7, <1>8, <1>9, <1>10, <1>11, <1>12, <1>13, <1>14,
     <1>15, <1>16 DEF Next, LoopStep

\* The queue's invariant holds throughout.
LEMMA QueueCorrect == Spec => []QueueInv
  BY TypeCorrect, QueueInit, QueueStep, PTL DEF Spec

\* No accepted task is lost, run twice or overtaken, whatever the clients, the
\* handlers and the shutdown requests do.
THEOREM InOrder == Spec => []ExactlyOnceInOrder
<1>1. QueueInv => ExactlyOnceInOrder
  BY DEF QueueInv
<1> QED
  BY <1>1, QueueCorrect, PTL

\* No accepted task is left when loop() has returned.
THEOREM NothingStranded == Spec => []NoStrandedTask
<1>1. QueueInv => NoStrandedTask
  BY DEF QueueInv, NoStrandedTask
<1> QED
  BY <1>1, QueueCorrect, PTL

-----------------------------------------------------------------------------
(* The signals between the threads: eventfd and condition variable. *)

\* The eventfd's lowest bit is the shutdown bit: a wake-up leaves it, a shutdown
\* request flips it.
LEMMA Parity ==
  ASSUME NEW n \in Nat
  PROVE  /\ n % 2 = 0 \/ n % 2 = 1
         /\ (n + 2) % 2 = n % 2
         /\ n % 2 = 0 => (n + 1) % 2 = 1
  OBVIOUS

\* The three invariants about signals, with what makes the last one inductive: no
\* shutdown is readable before one was requested.
SignalInv ==
  /\ NoSleepOnWork
  /\ NoLostNotify
  /\ shutdowns = 0 => eventfd % 2 = 0
  /\ LoneShutdownHonoured

\* Nobody waits, and nothing was signalled.
LEMMA SignalInit == Init => SignalInv
  BY DEF Init, SignalInv, NoSleepOnWork, NoLostNotify, LoneShutdownHonoured

\* A push is followed by a write of the eventfd before the lock is free again, and
\* only the loop's read clears the counter.
LEMMA SignalStep == TypeOK /\ SignalInv /\ [Next]_vars => SignalInv'
<1> SUFFICES ASSUME TypeOK, SignalInv, [Next]_vars PROVE SignalInv'
  OBVIOUS
<1> USE DEF TypeOK, SignalInv, NoSleepOnWork, NoLostNotify, LoneShutdownHonoured, Stopping,
            EVFD_SHUTDOWN
<1>1. CASE StartLoop
  BY <1>1 DEF StartLoop, queueVars, clientVars
<1>2. CASE Activate
  BY <1>2 DEF Activate, queueVars, clientVars
<1>3. CASE NotifyAll
  BY <1>3 DEF NotifyAll, Waiters, queueVars
<1>4. CASE SetTimeout
  BY <1>4 DEF SetTimeout, MayBlock, queueVars, clientVars
<1>5. CASE EpollFails
  BY <1>5 DEF EpollFails, queueVars, clientVars
<1>6. CASE EpollReturns
  BY <1>6 DEF EpollReturns, queueVars, clientVars
<1>7. CASE ReadEventfd
  BY <1>7, Parity DEF ReadEventfd, ShutdownRead, EVFD_NORMAL, queueVars, clientVars
<1>8. CASE Deactivate
  BY <1>8 DEF Deactivate, queueVars, clientVars
<1>9. CASE SwapTasks
  BY <1>9 DEF SwapTasks, TasksSwapped, clientVars
<1>10. CASE RunTask
  BY <1>10 DEF RunTask, loopVars, clientVars
<1>11. CASE EndRun
  BY <1>11 DEF EndRun, queueVars, clientVars
<1>12. ASSUME NEW k \in Tasks, HandlerOffer(k)
       PROVE  SignalInv'
  BY <1>12 DEF HandlerOffer, InHandler, loopVars, clientVars
<1>13. CASE HandlerShutdown
  BY <1>13, Parity DEF HandlerShutdown, InHandler, loopVars, queueVars
<1>14. ASSUME NEW c \in Clients, WaitForLoop(c)
       PROVE  SignalInv'
  BY <1>14 DEF WaitForLoop, MoveClient, LoopSeen, loopVars, queueVars
<1>15. ASSUME NEW c \in Clients, SpuriousWake(c) \/ LeaveWait(c) \/ BeginOffer(c)
       PROVE  SignalInv'
  BY <1>15 DEF SpuriousWake, LeaveWait, BeginOffer, MoveClient, loopVars, queueVars
<1>16. ASSUME NEW c \in Clients, WakeUp(c)
       PROVE  SignalInv'
  BY <1>16, Parity DEF WakeUp, MoveClient, EVFD_NORMAL, loopVars, queueVars
<1>17. ASSUME NEW c \in Clients, ShutdownLoop(c)
       PROVE  SignalInv'
  BY <1>17, Parity DEF ShutdownLoop, loopVars, queueVars
<1>18. ASSUME NEW c \in Clients, NEW k \in Tasks, Offer(c, k)
       PROVE  SignalInv'
  BY <1>18 DEF Offer, Push, Reject, MoveClient, loopVars
<1>19. CASE UNCHANGED vars
  BY <1>19 DEF vars, loopVars, queueVars, clientVars
<1> QED
  BY <1>1, <1>2, <1>3, <1>4, <1>5, <1>6, <1>7, <1>8, <1>9, <1>10, <1>11, <1>12, <1>13,
     <1>14, <1>15, <1>16, <1>17, <1>18, <1>19 DEF Next, LoopStep

\* The invariants about signals hold throughout.
LEMMA SignalCorrect == Spec => []SignalInv
  BY TypeCorrect, SignalInit, SignalStep, PTL DEF Spec

\* The loop does not sleep its timeout on a queued task.
THEOREM AwakeOnWork == Spec => []NoSleepOnWork
<1>1. SignalInv => NoSleepOnWork
  BY DEF SignalInv
<1> QED
  BY <1>1, SignalCorrect, PTL

\* No client waits for a running loop that has notified already.
THEOREM NotifyReachesAll == Spec => []NoLostNotify
<1>1. SignalInv => NoLostNotify
  BY DEF SignalInv
<1> QED
  BY <1>1, SignalCorrect, PTL

\* A single shutdown request is not lost among any number of wake-ups.
THEOREM ShutdownNotSwallowed == Spec => []LoneShutdownHonoured
<1>1. SignalInv => LoneShutdownHonoured
  BY DEF SignalInv
<1> QED
  BY <1>1, SignalCorrect, PTL

-----------------------------------------------------------------------------
(* The loop's thread. *)

\* A client that was let out of wait_for_loop knows that loop() has begun.
StartInv ==
  /\ loopPc = "new" => ~workingThread /\ ~active
  /\ loopPc # "new" => workingThread
  /\ \A c \in Clients :
       clientPc[c] \in {"woken", "ready", "offering", "waking"} => workingThread

\* The only ways out of wait_for_loop are a loop seen active and notify_all, both
\* after the assignment of working_thread.
LEMMA StartStep == ~Spurious /\ TypeOK /\ StartInv /\ [Next]_vars => StartInv'
<1> SUFFICES ASSUME ~Spurious, TypeOK, StartInv, [Next]_vars PROVE StartInv'
  OBVIOUS
<1> USE DEF TypeOK, StartInv
<1>1. CASE StartLoop
  BY <1>1 DEF StartLoop, queueVars, clientVars
<1>2. CASE Activate \/ SetTimeout \/ Deactivate
  BY <1>2 DEF Activate, SetTimeout, Deactivate, queueVars, clientVars
<1>3. CASE NotifyAll
  BY <1>3 DEF NotifyAll, Waiters, queueVars
<1>4. CASE EpollFails \/ EpollReturns \/ ReadEventfd
  BY <1>4 DEF EpollFails, EpollReturns, ReadEventfd, queueVars, clientVars
<1>5. CASE SwapTasks
  BY <1>5 DEF SwapTasks, clientVars
<1>6. CASE RunTask \/ EndRun
  BY <1>6 DEF RunTask, EndRun, loopVars, clientVars
<1>7. ASSUME NEW k \in Tasks, HandlerOffer(k)
      PROVE  StartInv'
  BY <1>7 DEF HandlerOffer, loopVars, clientVars
<1>8. CASE HandlerShutdown
  BY <1>8 DEF HandlerShutdown, loopVars
<1>9. ASSUME NEW c \in Clients, WaitForLoop(c)
      PROVE  StartInv'
  BY <1>9 DEF WaitForLoop, LoopSeen, MoveClient, loopVars
<1>10. ASSUME NEW c \in Clients,
              \/ SpuriousWake(c) \/ LeaveWait(c) \/ BeginOffer(c) \/ WakeUp(c)
       PROVE  StartInv'
  BY <1>10 DEF SpuriousWake, LeaveWait, BeginOffer, WakeUp, MoveClient, loopVars
<1>11. ASSUME NEW c \in Clients, ShutdownLoop(c)
       PROVE  StartInv'
  BY <1>11 DEF ShutdownLoop, loopVars
<1>12. ASSUME NEW c \in Clients, NEW k \in Tasks, Offer(c, k)
       PROVE  StartInv'
  BY <1>12 DEF Offer, MoveClient, loopVars
<1>13. CASE UNCHANGED vars
  BY <1>13 DEF vars, loopVars, clientVars
<1> QED
  BY <1>1, <1>2, <1>3, <1>4, <1>5, <1>6, <1>7, <1>8, <1>9, <1>10, <1>11, <1>12, <1>13
     DEF Next, LoopStep

\* Without spurious wake-ups every caller of is_in_event_loop finds working_thread
\* assigned.
THEOREM ThreadKnown ==
  ASSUME ~Spurious
  PROVE  Spec => []LoopThreadKnown
<1>1. Init => StartInv
  BY DEF Init, StartInv
<1>2. TypeOK /\ StartInv /\ [Next]_vars => StartInv'
  BY StartStep
<1>3. StartInv => LoopThreadKnown
  BY DEF StartInv, LoopThreadKnown
<1> QED
  BY <1>1, <1>2, <1>3, TypeCorrect, PTL DEF Spec

-----------------------------------------------------------------------------
(* The executor. *)

\* Offering a task is accepting or refusing it.
LEMMA OfferExecutor ==
  ASSUME TypeOK, NEW k \in Tasks, Push(k) \/ Reject(k), UNCHANGED taskClosed
  PROVE  Executor!Accept(k) \/ Executor!Refuse(k)
<1>1. CASE Push(k)
  <2>1. snapshot \in Seq(Tasks) /\ tasks \in Seq(Tasks)
    BY DEF TypeOK
  <2>2. snapshot \o Append(tasks, k) = Append(snapshot \o tasks, k)
    BY <2>1, AppendToSecond
  <2> QED
    BY <1>1, <2>2 DEF Push, Executor!Accept
<1>2. CASE Reject(k)
  BY <1>2 DEF Reject, Executor!Refuse
<1> QED
  BY <1>1, <1>2

\* Every step of the worker is a step of the executor, or none.
LEMMA ExecutorStep == TypeOK /\ QueueInv /\ [Next]_vars => [Executor!Next]_Executor!vars
<1> SUFFICES ASSUME TypeOK, QueueInv, [Next]_vars
             PROVE  Executor!Next \/ UNCHANGED Executor!vars
  BY DEF Executor!vars
<1> USE DEF Executor!vars
<1>1. CASE StartLoop \/ Activate \/ NotifyAll \/ SetTimeout
  BY <1>1 DEF StartLoop, Activate, NotifyAll, SetTimeout, queueVars
<1>2. CASE EpollFails \/ EpollReturns \/ ReadEventfd \/ Deactivate \/ EndRun
  BY <1>2 DEF EpollFails, EpollReturns, ReadEventfd, Deactivate, EndRun, queueVars
<1>3. CASE SwapTasks
  <2>1. snapshot = <<>> /\ snapshot' = tasks /\ tasks' = <<>> /\ tasks \in Seq(Tasks)
    BY <1>3 DEF SwapTasks, TasksSwapped, QueueInv, TypeOK
  <2>2. (snapshot \o tasks)' = snapshot \o tasks
    BY <2>1, ConcatEmptySeq
  <2>3. UNCHANGED <<executed, rejected>> /\ (taskClosed' = taskClosed \/ taskClosed' = TRUE)
    BY <1>3 DEF SwapTasks, ClosesNow, TypeOK
  <2> QED
    BY <2>2, <2>3 DEF Executor!Next, Executor!Close
<1>4. CASE RunTask
  <2>1. snapshot \in Seq(Tasks) /\ tasks \in Seq(Tasks) /\ snapshot # <<>>
    BY <1>4 DEF RunTask, TypeOK
  <2>2. /\ snapshot \o tasks # <<>>
        /\ Head(snapshot \o tasks) = Head(snapshot)
        /\ Tail(snapshot \o tasks) = Tail(snapshot) \o tasks
    BY <2>1, HeadTailConcat
  <2>3. Executor!Run
    BY <1>4, <2>2 DEF RunTask, NextTask, loopVars, Executor!Run
  <2> QED
    BY <2>3 DEF Executor!Next
<1>5. ASSUME NEW k \in Tasks, HandlerOffer(k)
      PROVE  Executor!Next
  BY <1>5, OfferExecutor DEF HandlerOffer, loopVars, Executor!Next
<1>6. CASE HandlerShutdown
  BY <1>6 DEF HandlerShutdown, loopVars, queueVars
<1>7. ASSUME NEW c \in Clients,
             \/ WaitForLoop(c) \/ SpuriousWake(c) \/ LeaveWait(c) \/ BeginOffer(c)
             \/ WakeUp(c) \/ ShutdownLoop(c)
      PROVE  UNCHANGED Executor!vars
  <2>1. UNCHANGED <<loopVars, queueVars>>
    BY <1>7 DEF WaitForLoop, SpuriousWake, LeaveWait, BeginOffer, WakeUp, ShutdownLoop
  <2> QED
    BY <2>1 DEF loopVars, queueVars
<1>8. ASSUME NEW c \in Clients, NEW k \in Tasks, Offer(c, k)
      PROVE  Executor!Next
  <2>1. (Push(k) \/ Reject(k)) /\ UNCHANGED taskClosed
    BY <1>8 DEF Offer, loopVars
  <2> QED
    BY <2>1, OfferExecutor DEF Executor!Next
<1>9. CASE UNCHANGED vars
  BY <1>9 DEF vars, loopVars, queueVars
<1> QED
  BY <1>1, <1>2, <1>3, <1>4, <1>5, <1>6, <1>7, <1>8, <1>9 DEF Next, LoopStep

\* The worker implements the executor: tasks are accepted and run as TaskExecutor
\* allows, and none is accepted after the close.
THEOREM ImplementsExecutor == Spec => ExecutorSafeSpec
<1>1. Init => Executor!Init
  <2> SUFFICES ASSUME Init PROVE Executor!Init
    OBVIOUS
  <2>1. <<>> \o <<>> = <<>>
    BY ConcatEmptySeq, EmptySeq
  <2> QED
    BY <2>1 DEF Init, Executor!Init
<1> QED
  BY <1>1, ExecutorStep, TypeCorrect, QueueCorrect, PTL
     DEF Spec, ExecutorSafeSpec, Executor!SafeSpec
=============================================================================
