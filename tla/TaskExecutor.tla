---------------------------- MODULE TaskExecutor ----------------------------
(***************************************************************************)
(* What an event_worker promises to whoever calls offer_task: a queue of   *)
(* tasks run one at a time, in the order they were accepted, each exactly  *)
(* once.  The executor can be closed; from then on a task is refused, and  *)
(* the ones accepted before are still run.                                 *)
(***************************************************************************)
EXTENDS Sequences

CONSTANT Tasks

VARIABLES
  pending,   \* tasks accepted and not yet run, in the order they will run
  done,      \* tasks run, in the order they ran
  closed,    \* no task is accepted any more
  refused    \* tasks that came too late

vars == <<pending, done, closed, refused>>

Init ==
  /\ pending = <<>>
  /\ done = <<>>
  /\ closed = FALSE
  /\ refused = {}

Accept(k) ==
  /\ ~closed
  /\ pending' = Append(pending, k)
  /\ UNCHANGED <<done, closed, refused>>

Refuse(k) ==
  /\ closed
  /\ refused' = refused \cup {k}
  /\ UNCHANGED <<pending, done, closed>>

Close ==
  /\ closed' = TRUE
  /\ UNCHANGED <<pending, done, refused>>

Run ==
  /\ pending # <<>>
  /\ done' = Append(done, Head(pending))
  /\ pending' = Tail(pending)
  /\ UNCHANGED <<closed, refused>>

Next ==
  \/ \E k \in Tasks : Accept(k) \/ Refuse(k)
  \/ Close
  \/ Run

SafeSpec == Init /\ [][Next]_vars

Spec == SafeSpec /\ WF_vars(Run)
=============================================================================
