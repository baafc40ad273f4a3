----------------------------- MODULE EventWorker -----------------------------
(***************************************************************************)
(* One event_worker with its epoll back end: the loop thread and the       *)
(* client threads that wait for it, offer it tasks and shut it down.       *)
(*                                                                         *)
(* A step is one critical section of `lock`, one access to the eventfd, or *)
(* one access to state without the lock, so that every interleaving two    *)
(* threads can observe is a behaviour.  The mutex needs no variable: every *)
(* critical section is one step except that of offer_task, which a client  *)
(* leaves only after its eventfd write; LockFree says no client is there.  *)
(* Which task is offered is abstracted to a member of Tasks, each offered  *)
(* at most once (the code makes a new task object for every offer).        *)
(***************************************************************************)
EXTENDS Naturals, Sequences, SequencesExt

CONSTANTS
  Clients,        \* threads other than the loop thread
  Tasks,          \* the task objects that may be offered
  MaxShutdowns,   \* bound: calls of shutdown_loop
  Spurious,       \* whether cond.wait may return without a notification
  EarlyShutdown   \* whether shutdown_loop may come before the clients waited

ASSUME WorkerAssumption ==
  /\ MaxShutdowns \in Nat
  /\ Spurious \in BOOLEAN
  /\ EarlyShutdown \in BOOLEAN

VARIABLES
  loopPc,         \* where the loop thread is in loop()
  workingThread,  \* working_thread has been assigned
  active,
  taskClosed,     \* task_closed
  eventfd,        \* the counter behind event_ident
  blocking,       \* the timeout given to epoll_wait is not 0
  tasks,
  snapshot,       \* execute_tasks: what is left of the swapped-out list
  inProgress,     \* execute_tasks: the value it will return
  clientPc,       \* where each client is
  shutdowns,      \* history: calls of shutdown_loop so far
  accepted,       \* history: tasks pushed, in order
  executed,       \* history: tasks run, in order
  rejected        \* history: tasks turned away

loopVars   == <<loopPc, workingThread, active, taskClosed, blocking, inProgress>>
queueVars  == <<tasks, snapshot, accepted, executed, rejected>>
clientVars == <<clientPc, shutdowns>>
vars == <<loopVars, queueVars, eventfd, clientVars>>

EVFD_SHUTDOWN == 1
EVFD_NORMAL   == 2

LoopPcs == {"new", "activate", "notify", "top", "wait", "events", "channels",
            "deactivate", "exec", "run", "done"}
ClientPcs == {"init", "waiting", "woken", "ready", "offering", "waking"}

Init ==
  /\ loopPc = "new"
  /\ workingThread = FALSE
  /\ active = FALSE
  /\ taskClosed = FALSE
  /\ eventfd = 0
  /\ blocking = FALSE
  /\ tasks = <<>>
  /\ snapshot = <<>>
  /\ inProgress = FALSE
  /\ clientPc = [c \in Clients |-> "init"]
  /\ shutdowns = 0
  /\ accepted = <<>>
  /\ executed = <<>>
  /\ rejected = {}

\* No client is between its push and the end of offer_task.
LockFree == \A c \in Clients : clientPc[c] # "waking"

Fresh == Tasks \ (ToSet(accepted) \cup rejected)

-----------------------------------------------------------------------------
(* The decisions the steps below take, each preceded by a faulty variant that *)
(* nothing uses: PROJECT.json pairs it with the property that it breaks.      *)

\* (always the long timeout)
SleepAnyway == TRUE
\* The timeout of epoll_wait is 1000 ms, and not 0.
MayBlock == tasks = <<>>

\* (equality instead of a bit test)
ShutdownAlone == eventfd = EVFD_SHUTDOWN
\* The value read from the eventfd says to shut down.
ShutdownRead == eventfd % EVFD_NORMAL = EVFD_SHUTDOWN

\* (notify_one)
OneWaiter == {c \in Clients : clientPc[c] = "waiting" /\ c = CHOOSE d \in Clients : TRUE}
\* The threads notify_all releases.
Waiters == {c \in Clients : clientPc[c] = "waiting"}

\* (a copy instead of a swap)
TasksCopied == tasks
\* What the swap with an empty list leaves in `tasks`.
TasksSwapped == <<>>

\* (task_closed forgotten)
NeverCloses == FALSE
\* The final drain refuses later tasks.
ClosesNow == ~active

\* (the list instead of its element)
WholeSnapshot == snapshot
\* The task at hand in the loop over the snapshot.
NextTask == Head(snapshot)

\* (no wait)
WaitSkipped == TRUE
\* wait_for_loop need not wait.
LoopSeen == active

-----------------------------------------------------------------------------
(* The loop thread. *)

StartLoop ==
  /\ loopPc = "new"
  /\ workingThread' = TRUE
  /\ loopPc' = "activate"
  /\ UNCHANGED <<active, taskClosed, blocking, inProgress, queueVars, eventfd, clientVars>>

Activate ==
  /\ loopPc = "activate"
  /\ LockFree
  /\ active' = TRUE
  /\ loopPc' = "notify"
  /\ UNCHANGED <<workingThread, taskClosed, blocking, inProgress, queueVars, eventfd, clientVars>>

NotifyAll ==
  /\ loopPc = "notify"
  /\ clientPc' = [c \in Clients |->
                    IF c \in Waiters THEN "woken" ELSE clientPc[c]]
  /\ loopPc' = "top"
  /\ UNCHANGED <<workingThread, active, taskClosed, blocking, inProgress, queueVars,
                 eventfd, shutdowns>>

\* The timeout is 0 when tasks are already queued.
SetTimeout ==
  /\ loopPc = "top"
  /\ LockFree
  /\ blocking' = MayBlock
  /\ loopPc' = "wait"
  /\ UNCHANGED <<workingThread, active, taskClosed, inProgress, queueVars, eventfd, clientVars>>

\* epoll_wait fails (EINTR, or another error after which the loop sleeps).
EpollFails ==
  /\ loopPc = "wait"
  /\ loopPc' = "top"
  /\ UNCHANGED <<workingThread, active, taskClosed, blocking, inProgress, queueVars,
                 eventfd, clientVars>>

\* epoll_wait returns: with the eventfd in the batch when its counter is not 0,
\* otherwise on a timeout or with channel events only.
EpollReturns ==
  /\ loopPc = "wait"
  /\ loopPc' = IF eventfd > 0 THEN "events" ELSE "channels"
  /\ UNCHANGED <<workingThread, active, taskClosed, blocking, inProgress, queueVars,
                 eventfd, clientVars>>

ReadEventfd ==
  /\ loopPc = "events"
  /\ eventfd' = 0
  /\ loopPc' = IF ShutdownRead THEN "deactivate" ELSE "channels"
  /\ UNCHANGED <<workingThread, active, taskClosed, blocking, inProgress, queueVars, clientVars>>

\* The rest of the batch is dropped.
Deactivate ==
  /\ loopPc = "deactivate"
  /\ LockFree
  /\ active' = FALSE
  /\ loopPc' = "exec"
  /\ UNCHANGED <<workingThread, taskClosed, blocking, inProgress, queueVars, eventfd, clientVars>>

\* execute_tasks, its critical section.
SwapTasks ==
  /\ loopPc \in {"channels", "exec"}
  /\ LockFree
  /\ snapshot' = tasks
  /\ tasks' = TasksSwapped
  /\ inProgress' = active
  /\ taskClosed' = (taskClosed \/ ClosesNow)
  /\ loopPc' = "run"
  /\ UNCHANGED <<workingThread, active, blocking, accepted, executed, rejected,
                 eventfd, clientVars>>

\* The task at the head of the snapshot returns.
RunTask ==
  /\ loopPc = "run"
  /\ snapshot # <<>>
  /\ executed' = Append(executed, NextTask)
  /\ snapshot' = Tail(snapshot)
  /\ UNCHANGED <<loopVars, tasks, accepted, rejected, eventfd, clientVars>>

EndRun ==
  /\ loopPc = "run"
  /\ snapshot = <<>>
  /\ loopPc' = IF inProgress THEN "top" ELSE "done"
  /\ UNCHANGED <<workingThread, active, taskClosed, blocking, inProgress, queueVars,
                 eventfd, clientVars>>

\* Code of a handler is on the loop thread's stack: an event of a channel, which
\* a task registered, is being processed, or the head of the snapshot is running.
InHandler ==
  \/ loopPc \in {"events", "channels"} /\ executed # <<>>
  \/ loopPc = "run" /\ snapshot # <<>>

\* offer_task's decision, the same for every caller.
Push(k) ==
  /\ ~taskClosed
  /\ tasks' = Append(tasks, k)
  /\ accepted' = Append(accepted, k)
  /\ UNCHANGED <<snapshot, executed, rejected>>

Reject(k) ==
  /\ taskClosed
  /\ rejected' = rejected \cup {k}
  /\ UNCHANGED <<tasks, snapshot, accepted, executed>>

\* offer_task on the loop thread: wake_up does nothing.
HandlerOffer(k) ==
  /\ InHandler
  /\ LockFree
  /\ k \in Fresh
  /\ Push(k) \/ Reject(k)
  /\ UNCHANGED <<loopVars, eventfd, clientVars>>

\* bootstrap's constructor waits for every loop before anything can shut one down.
MayShutdown ==
  /\ shutdowns < MaxShutdowns
  /\ EarlyShutdown \/ \A c \in Clients : clientPc[c] \notin {"init", "waiting", "woken"}

HandlerShutdown ==
  /\ InHandler
  /\ MayShutdown
  /\ eventfd' = eventfd + EVFD_SHUTDOWN
  /\ shutdowns' = shutdowns + 1
  /\ UNCHANGED <<loopVars, queueVars, clientPc>>

-----------------------------------------------------------------------------
(* The client threads. *)

MoveClient(c, pc) == clientPc' = [clientPc EXCEPT ![c] = pc]

WaitForLoop(c) ==
  /\ clientPc[c] = "init"
  /\ LockFree
  /\ MoveClient(c, IF LoopSeen THEN "ready" ELSE "waiting")
  /\ UNCHANGED <<loopVars, queueVars, eventfd, shutdowns>>

SpuriousWake(c) ==
  /\ Spurious
  /\ clientPc[c] = "waiting"
  /\ MoveClient(c, "woken")
  /\ UNCHANGED <<loopVars, queueVars, eventfd, shutdowns>>

\* cond.wait reacquires the mutex and wait_for_loop returns: the condition is
\* tested by an `if`, before the wait only.
LeaveWait(c) ==
  /\ clientPc[c] = "woken"
  /\ LockFree
  /\ MoveClient(c, "ready")
  /\ UNCHANGED <<loopVars, queueVars, eventfd, shutdowns>>

\* The client enters event_layer::invoke_*, which asks is_in_event_loop.
BeginOffer(c) ==
  /\ clientPc[c] = "ready"
  /\ Fresh # {}
  /\ MoveClient(c, "offering")
  /\ UNCHANGED <<loopVars, queueVars, eventfd, shutdowns>>

\* offer_task up to the push; no step when the assertion on working_thread in
\* is_in_event_loop fails.
Offer(c, k) ==
  /\ clientPc[c] = "offering"
  /\ workingThread
  /\ LockFree
  /\ k \in Fresh
  /\ \/ Push(k) /\ MoveClient(c, "waking")
     \/ Reject(k) /\ MoveClient(c, "ready")
  /\ UNCHANGED <<loopVars, eventfd, shutdowns>>

\* wake_up, then the mutex is released.
WakeUp(c) ==
  /\ clientPc[c] = "waking"
  /\ eventfd' = eventfd + EVFD_NORMAL
  /\ MoveClient(c, "ready")
  /\ UNCHANGED <<loopVars, queueVars, shutdowns>>

ShutdownLoop(c) ==
  /\ clientPc[c] \in {"init", "ready"}
  /\ MayShutdown
  /\ eventfd' = eventfd + EVFD_SHUTDOWN
  /\ shutdowns' = shutdowns + 1
  /\ UNCHANGED <<loopVars, queueVars, clientPc>>

-----------------------------------------------------------------------------

LoopStep ==
  \/ StartLoop \/ Activate \/ NotifyAll \/ SetTimeout \/ ReadEventfd
  \/ Deactivate \/ SwapTasks \/ RunTask \/ EndRun

Next ==
  \/ LoopStep
  \/ EpollFails
  \/ EpollReturns
  \/ \E k \in Tasks : HandlerOffer(k)
  \/ HandlerShutdown
  \/ \E c \in Clients :
       \/ WaitForLoop(c) \/ SpuriousWake(c) \/ LeaveWait(c)
       \/ BeginOffer(c) \/ WakeUp(c) \/ ShutdownLoop(c)
       \/ \E k \in Tasks : Offer(c, k)

Spec == Init /\ [][Next]_vars

\* The operating system schedules the loop thread and whoever holds or waits for
\* the mutex; epoll_wait is not interrupted every time.
Fairness ==
  /\ WF_vars(LoopStep)
  /\ SF_vars(EpollReturns)
  /\ \A c \in Clients : WF_vars(WakeUp(c)) /\ WF_vars(LeaveWait(c))

FairSpec == Spec /\ Fairness

-----------------------------------------------------------------------------
(* Properties. *)

\* Every variable keeps its type.
TypeOK ==
  /\ loopPc \in LoopPcs
  /\ workingThread \in BOOLEAN
  /\ active \in BOOLEAN
  /\ taskClosed \in BOOLEAN
  /\ blocking \in BOOLEAN
  /\ inProgress \in BOOLEAN
  /\ eventfd \in Nat
  /\ tasks \in Seq(Tasks)
  /\ snapshot \in Seq(Tasks)
  /\ accepted \in Seq(Tasks)
  /\ executed \in Seq(Tasks)
  /\ rejected \in SUBSET Tasks
  /\ clientPc \in [Clients -> ClientPcs]
  /\ shutdowns \in Nat

\* Across the swaps of execute_tasks no accepted task is lost, run twice or
\* overtaken: those run, then those swapped out, then those queued are exactly
\* the accepted ones in the order of acceptance.
ExactlyOnceInOrder == accepted = executed \o snapshot \o tasks

\* When loop() returns no accepted task is left behind: task_closed is set in
\* the critical section that takes the last list.
NoStrandedTask == loopPc = "done" => tasks = <<>> /\ snapshot = <<>>

\* The loop never sleeps its full timeout on a queued task: while it may sleep,
\* a queued task has its wake-up in the eventfd or about to be written.
NoSleepOnWork ==
  loopPc = "wait" /\ blocking /\ tasks # <<>>
    => eventfd > 0 \/ \E c \in Clients : clientPc[c] = "waking"

\* No thread is left waiting in wait_for_loop while the loop runs: notify_all
\* cannot slip between a waiter's test of `active` and its wait.
NoLostNotify ==
  \A c \in Clients : clientPc[c] = "waiting" => ~active \/ loopPc = "notify"

\* The loop has seen a shutdown: it is on its way out, or gone.
Stopping == ~active /\ loopPc \notin {"new", "activate"}

\* A single shutdown request is not swallowed by the wake-ups that share the
\* eventfd counter with it: it is still readable there, or being acted on.
LoneShutdownHonoured ==
  shutdowns = 1 => eventfd % 2 = EVFD_SHUTDOWN \/ loopPc = "deactivate" \/ Stopping

\* is_in_event_loop asserts that working_thread is assigned; the callers are the
\* threads that returned from wait_for_loop.
LoopThreadKnown == \A c \in Clients : clientPc[c] = "offering" => workingThread

\* A worker whose shutdown was requested once leaves loop(), which join_all needs.
ShutdownStops == shutdowns = 1 ~> loopPc = "done"

Executor == INSTANCE TaskExecutor WITH
  pending <- snapshot \o tasks,
  done    <- executed,
  closed  <- taskClosed,
  refused <- rejected

\* The worker implements the executor, in its steps and in that it keeps running.
ExecutorSpec == Executor!Spec

\* The safety part of ExecutorSpec.
ExecutorSafeSpec == Executor!SafeSpec
=============================================================================
