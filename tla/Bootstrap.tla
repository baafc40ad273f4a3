------------------------------ MODULE Bootstrap ------------------------------
(***************************************************************************)
(* bootstrap and its two event_worker_groups: the main thread starts the   *)
(* workers, waits for their loops, assigns channels to them, and at the    *)
(* end tells them to stop and joins their threads.  The workers run        *)
(* meanwhile, accept connections, and may themselves ask workers to stop.  *)
(*                                                                         *)
(* A worker is what EventWorker shows of it here: a thread that begins     *)
(* late, and a counter in which shutdown requests add up until the loop    *)
(* reads them.                                                             *)
(***************************************************************************)
EXTENDS Naturals, Sequences, SequencesExt

CONSTANTS
  Boss, Child,    \* the workers put into boss_group and child_group, in order
  IndexMod,       \* number of values of event_worker_group::index
  MaxChannels,    \* bound: channels assigned to workers
  MaxStops        \* bound: shutdown_loop called by handlers

ASSUME BootAssumption ==
  /\ Boss \in Seq(ToSet(Boss)) /\ Child \in Seq(ToSet(Child))
  /\ IsInjective(Boss \o Child) /\ Boss # <<>> /\ Child # <<>>
  /\ IndexMod \in Nat \ {0}
  /\ MaxChannels \in Nat /\ MaxStops \in Nat

VARIABLES
  shared,     \* whether one group was given as both
  at,         \* the main thread is in put_worker, wait_all, shutdown_all, join_all,
              \* between two calls ("serve"), or has destroyed the bootstrap
  walk,       \* the name of the group it walks through, and what is left of its list
  index,      \* event_worker_group::index
  thread,     \* what the thread of a worker does
  requests,   \* shutdown requests in a worker's eventfd
  success, ended,   \* the flags of bootstrap
  assigned,   \* history: channels a worker was given by next()
  calls,      \* history: calls of next() of a group
  told,       \* history: shutdowns a worker was asked for by finalize
  stops       \* history: shutdowns asked for by handlers

mainVars == <<shared, at, walk>>
nextVars == <<index, assigned, calls>>
stopVars == <<requests, told, stops>>
flagVars == <<success, ended>>
vars == <<mainVars, nextVars, thread, stopVars, flagVars>>

Names == {"boss", "child"}
Workers == ToSet(Boss \o Child)

\* The workers of the group that boss_group or child_group points to.
Loops(name) == IF name = "boss" \/ shared THEN Boss ELSE Child
Group(name) == IF shared THEN "boss" ELSE name

\* (a shared group is walked through for each of its names)
WalkBoth == TRUE
\* `boss_group != child_group`
Distinct == ~shared

Init ==
  /\ shared \in BOOLEAN
  /\ at = "put"
  /\ walk = [name |-> "boss", rest |-> Boss]
  /\ index = [g \in Names |-> 0]
  /\ thread = [w \in Workers |-> "none"]
  /\ requests = [w \in Workers |-> 0]
  /\ success = FALSE
  /\ ended = FALSE
  /\ assigned = [w \in Workers |-> 0]
  /\ calls = [g \in Names |-> 0]
  /\ told = [w \in Workers |-> 0]
  /\ stops = 0

-----------------------------------------------------------------------------
(* The main thread.  A definition whose comment is in parentheses is a faulty *)
(* variant of the one after it, which nothing uses: PROJECT.json names the    *)
(* property it breaks.                                                        *)

\* It begins to walk through a group.
Begin(phase, name) == at' = phase /\ walk' = [name |-> name, rest |-> Loops(name)]

\* It has done the head of the list; after the last it walks through child_group
\* too, if `both`, and then begins the phase `then` with boss_group.
GoOn(both, then) ==
  IF Len(walk.rest) > 1 THEN walk' = [walk EXCEPT !.rest = Tail(@)] /\ UNCHANGED at
  ELSE IF walk.name = "boss" /\ both THEN Begin(at, "child")
  ELSE Begin(then, "boss")

Here == Head(walk.rest)

\* The lists are complete before the bootstrap is constructed.
PutWorker ==
  /\ at = "put"
  /\ thread' = [thread EXCEPT ![Here] = "new"]
  /\ GoOn(~shared, "wait")
  /\ UNCHANGED <<shared, nextVars, stopVars, flagVars>>

\* wait_for_loop returns (not without `active`: EventWorker has the spurious return).
Started(w) == thread[w] = "active"

\* The constructor waits for both groups, be they the same or not.
WaitForWorker ==
  /\ at = "wait"
  /\ Started(Here)
  /\ GoOn(TRUE, "serve")
  /\ UNCHANGED <<shared, nextVars, thread, stopVars, flagVars>>

\* (the index does not wrap around)
IndexBeyond(i) == i + 1
IndexAfter(i) == (i + 1) % IndexMod

\* A channel is given to the worker that next() returns.
Assign(name) ==
  LET g == Group(name)
      w == Loops(name)[(index[g] % Len(Loops(name))) + 1]
  IN
  /\ calls["boss"] + calls["child"] < MaxChannels
  /\ index' = [index EXCEPT ![g] = IndexAfter(@)]
  /\ assigned' = [assigned EXCEPT ![w] = @ + 1]
  /\ calls' = [calls EXCEPT ![g] = @ + 1]

\* start_server ("boss") and start_client ("child"), once they have a socket.
StartChannel(name) ==
  /\ at = "serve"
  /\ Assign(name)
  /\ UNCHANGED <<mainVars, thread, stopVars, flagVars>>

\* By the main thread, or by a handler.
SetSuccess ==
  /\ at = "serve" \/ \E w \in Workers : thread[w] = "active" /\ assigned[w] > 0
  /\ success' = TRUE
  /\ UNCHANGED <<mainVars, nextVars, thread, stopVars, ended>>

\* (finalize does its work each time)
NeverEnded == FALSE
EndedBefore == ended

\* finalize, called by the application or by the destructor: a second call returns
\* at once, and ends the model.
Finalize ==
  /\ at = "serve"
  /\ ended' = TRUE
  /\ Begin(IF EndedBefore THEN "done" ELSE IF success THEN "join" ELSE "shutdown", "boss")
  /\ UNCHANGED <<shared, nextVars, thread, stopVars, success>>

ShutdownWorker ==
  /\ at = "shutdown"
  /\ requests' = [requests EXCEPT ![Here] = @ + 1]
  /\ told' = [told EXCEPT ![Here] = @ + 1]
  /\ GoOn(Distinct, "join")
  /\ UNCHANGED <<shared, nextVars, thread, stops, flagVars>>

\* (a thread that was told to stop is not waited for)
Detached(w) == requests[w] > 0 \/ thread[w] = "stopped"
\* join returns.
Joined(w) == thread[w] = "stopped"

JoinWorker ==
  /\ at = "join"
  /\ Joined(Here)
  /\ GoOn(Distinct, "serve")
  /\ UNCHANGED <<shared, nextVars, thread, stopVars, flagVars>>

-----------------------------------------------------------------------------
(* The workers. *)

\* loop() sets `active`, and notifies.
StartLoop(w) ==
  /\ thread[w] = "new"
  /\ thread' = [thread EXCEPT ![w] = "active"]
  /\ UNCHANGED <<mainVars, nextVars, stopVars, flagVars>>

\* The loop reads its eventfd; it stops if the lowest bit is set.
ReadRequests(w) ==
  /\ thread[w] = "active"
  /\ requests[w] > 0
  /\ requests' = [requests EXCEPT ![w] = 0]
  /\ thread' = [thread EXCEPT ![w] = IF requests[w] % 2 = 1 THEN "stopped" ELSE @]
  /\ UNCHANGED <<mainVars, nextVars, told, stops, flagVars>>

\* A server channel on w accepts a connection for child_group.
Accept(w) ==
  /\ thread[w] = "active"
  /\ assigned[w] > 0
  /\ w \in ToSet(Boss)
  /\ Assign("child")
  /\ UNCHANGED <<mainVars, thread, stopVars, flagVars>>

\* A handler on v asks w to stop.
HandlerStops(v, w) ==
  /\ thread[v] = "active"
  /\ assigned[v] > 0
  /\ stops < MaxStops
  /\ requests' = [requests EXCEPT ![w] = @ + 1]
  /\ stops' = stops + 1
  /\ UNCHANGED <<mainVars, nextVars, thread, told, flagVars>>

-----------------------------------------------------------------------------

\* What the main thread does once it is in a call.
MainWalks == PutWorker \/ WaitForWorker \/ ShutdownWorker \/ JoinWorker

Next ==
  \/ MainWalks
  \/ \E name \in Names : StartChannel(name)
  \/ SetSuccess
  \/ Finalize
  \/ \E w \in Workers : StartLoop(w) \/ ReadRequests(w) \/ Accept(w)
  \/ \E v, w \in Workers : HandlerStops(v, w)

Spec == Init /\ [][Next]_vars

\* Threads run, and a loop reads what was written to its eventfd.
Fairness ==
  /\ WF_vars(MainWalks)
  /\ \A w \in Workers : WF_vars(StartLoop(w)) /\ WF_vars(ReadRequests(w))

FairSpec == Spec /\ Fairness

-----------------------------------------------------------------------------
(* Properties. *)

\* Every variable keeps its type.
TypeOK ==
  /\ shared \in BOOLEAN
  /\ at \in {"put", "wait", "serve", "shutdown", "join", "done"}
  /\ walk \in [name : Names, rest : Seq(Workers) \ {<<>>}]
  /\ index \in [Names -> 0 .. IndexMod - 1]
  /\ thread \in [Workers -> {"none", "new", "active", "stopped"}]
  /\ {success, ended} \subseteq BOOLEAN
  /\ {requests, assigned, told} \subseteq [Workers -> Nat]
  /\ calls \in [Names -> Nat]
  /\ stops \in Nat

\* finalize asks a worker to stop at most once, however often it is called and
\* whichever groups it was given: two requests would cancel out in the eventfd.
OneShutdownEach == \A w \in Workers : told[w] <= 1

\* No thread outlives the bootstrap: its worker may be destroyed right after.
NoThreadLeft ==
  at = "done" => \A name \in Names : \A w \in ToSet(Loops(name)) : thread[w] = "stopped"

\* A finalize that tells the workers to stop returns, unless a handler tells them too.
FinalizeReturns == at = "shutdown" ~> at = "serve" \/ stops > 0
=============================================================================
