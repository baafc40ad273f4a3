---------------------------- MODULE Descriptors ----------------------------
(***************************************************************************)
(* Who owns a file descriptor, and who holds a channel.  A descriptor is   *)
(* made by bootstrap (from a name lookup) or by server_channel (accept),   *)
(* passes to a channel, and is closed by the channel's destructor, when    *)
(* the last reference goes.  The worker finds its channels by descriptor,  *)
(* and the kernel reuses the numbers of closed ones.                       *)
(*                                                                         *)
(* The worker is the one the new channels are registered on; a server      *)
(* channel accepts on the same worker or on another.  What closes a        *)
(* channel is EventChannel's matter: here both halves close in one step.   *)
(***************************************************************************)
EXTENDS Naturals, Sequences, SequencesExt

CONSTANTS
  Chans,         \* channel objects, each made at most once
  Fds,           \* numbers of descriptors
  Candidates,    \* addresses a name lookup finds
  MaxLost,       \* bound: descriptors lost to exceptions
  MaxPosts,      \* bound: tasks posted to channels
  Stops          \* whether the worker may be shut down

ASSUME DescriptorAssumption ==
  /\ Candidates \in Nat \ {0}
  /\ {MaxLost, MaxPosts} \subseteq Nat
  /\ Stops \in BOOLEAN

VARIABLES
  sameLoop,   \* the server channel is on this worker
  start,      \* start_client or start_server: its descriptor, then its channel
  accept,     \* begin_read of the server channel: its descriptor, then its child;
              \* whether it threw
  open,       \* the descriptors open in the process
  ident,      \* the descriptor of each channel made so far
  exists,     \* the channels not yet destroyed
  channels,   \* the worker's channels, by descriptor
  kept,       \* the channels the application holds references to
  pc, batch, serverEvent,   \* the loop thread, and the events it has fetched
  cur,        \* the channel whose event or task it is at
  tasks, snapshot, next, closed, active,   \* execute_tasks
  lost,       \* history: descriptors an exception left to nobody
  removed,    \* history: channels that remove_channel was called for
  posts       \* history: tasks posted

makerVars == <<start, accept, lost>>
loopVars == <<pc, batch, serverEvent, cur>>
taskVars == <<tasks, snapshot, next, closed, active, posts>>
heldVars == <<channels, kept, removed>>
fdVars == <<open, ident, exists>>
vars == <<sameLoop, makerVars, loopVars, taskVars, heldVars, fdVars>>

Event == [fd : Fds, ch : Chans]    \* ch: history, whose event it is
Task == [op : {"register", "inactive", "work"}, ch : Chans]

Idle == [at |-> "idle", fd |-> {}, ch |-> {}, tried |-> 0]
NoChild == [fd |-> {}, ch |-> {}, threw |-> FALSE]

Init ==
  /\ sameLoop \in BOOLEAN
  /\ start = Idle
  /\ accept = NoChild
  /\ open = {}
  /\ ident = <<>>
  /\ exists = {}
  /\ channels = <<>>
  /\ kept = {}
  /\ pc = "poll"
  /\ batch = {}
  /\ serverEvent = FALSE
  /\ cur = {}
  /\ tasks = <<>>
  /\ snapshot = <<>>
  /\ next = 1
  /\ closed = FALSE
  /\ active = TRUE
  /\ lost = {}
  /\ removed = {}
  /\ posts = 0

-----------------------------------------------------------------------------
(* References.  A definition whose comment is in parentheses is a faulty      *)
(* variant of the one after it, which nothing uses: PROJECT.json names the    *)
(* property it breaks.                                                        *)

TaskChans(q) == {q[i].ch : i \in DOMAIN q}

\* The channels something refers to; a task refers to its channel until the list it
\* is in is destroyed, run or not.
Held ==
  start.ch \cup accept.ch \cup kept \cup cur \cup Range(channels)
    \cup TaskChans(tasks) \cup TaskChans(snapshot)

\* At the end of a step that made the channels `made`, opened and shut descriptors:
\* channels nobody refers to any more are destroyed, and close theirs.
Settle(made, opened, shut) ==
  /\ exists' = (exists \cup made) \cap Held'
  /\ open' = ((open \cup opened) \ shut) \ {ident[c] : c \in exists \ Held'}

Release == Settle({}, {}, {}) /\ UNCHANGED ident

\* The constructor of c takes over the descriptor of fds.
Constructed(c, fds) ==
  \E f \in fds : ident' = [d \in DOMAIN ident \cup {c} |-> IF d = c THEN f ELSE ident[d]]

\* offer_task
Offer(q) == IF closed THEN tasks ELSE tasks \o q

\* add_channel: an entry that is there already stays, and an assertion fails.
Added(c) ==
  [f \in DOMAIN channels \cup {ident[c]} |-> IF f \in DOMAIN channels THEN channels[f] ELSE c]

\* (the descriptor leaves the epoll set only)
StaysAdded(c) == channels
\* remove_channel
Removed(c) == [f \in DOMAIN channels \ {ident[c]} |-> channels[f]]

\* (on_inactive is called at once)
InactiveNow(c) == <<>>
\* notify_inactive
InactiveTask(c) == <<[op |-> "inactive", ch |-> c]>>

-----------------------------------------------------------------------------
(* start_client, and start_server with bind instead of connect. *)

UnusedFds == Fds \ open
NewChans == Chans \ DOMAIN ident

OpenSocket(f) ==
  /\ start.at = "idle" \/ (start.at = "failed" /\ start.tried < Candidates)
  /\ pc # "destroyed"
  /\ f \in UnusedFds
  /\ start' = [start EXCEPT !.at = "trying", !.fd = {f}, !.tried = @ + 1]
  /\ UNCHANGED <<sameLoop, accept, lost, loopVars, taskVars, heldVars, ident>>
  /\ Settle({}, {f}, {})

\* (the descriptor of a candidate that failed is not closed)
StaysOpen(fds) == {}
FailedCandidate(fds) == fds

CandidateFails ==
  /\ start.at = "trying"
  /\ start' = [start EXCEPT !.at = "failed", !.fd = {}]
  /\ UNCHANGED <<sameLoop, accept, lost, loopVars, taskVars, heldVars, ident>>
  /\ Settle({}, {}, FailedCandidate(start.fd))

\* No candidate is left, or socket() fails: an exception.
LookupFails ==
  /\ start.at = "failed"
  /\ start' = Idle
  /\ UNCHANGED <<sameLoop, accept, lost, loopVars, taskVars, heldVars>>
  /\ Release

Connected ==
  /\ start.at = "trying"
  /\ start' = [start EXCEPT !.at = "connected"]
  /\ UNCHANGED <<sameLoop, accept, lost, loopVars, taskVars, heldVars>>
  /\ Release

\* set_nonblocking (or listen) throws: the descriptor is closed.
SetupFails ==
  /\ start.at = "connected"
  /\ start' = Idle
  /\ UNCHANGED <<sameLoop, accept, lost, loopVars, taskVars, heldVars, ident>>
  /\ Settle({}, {}, start.fd)

\* name_socket throws, after the try: the descriptor is forgotten.
NameFails ==
  /\ start.at = "connected"
  /\ Cardinality(lost) < MaxLost
  /\ start' = Idle
  /\ lost' = lost \cup start.fd
  /\ UNCHANGED <<sameLoop, accept, loopVars, taskVars, heldVars>>
  /\ Release

Named ==
  /\ start.at = "connected"
  /\ start' = [start EXCEPT !.at = "named"]
  /\ UNCHANGED <<sameLoop, accept, lost, loopVars, taskVars, heldVars>>
  /\ Release

\* The application's make_client or make_server throws before a channel has the
\* descriptor, which is forgotten.
MakeFails ==
  /\ start.at = "named"
  /\ Cardinality(lost) < MaxLost
  /\ start' = Idle
  /\ lost' = lost \cup start.fd
  /\ UNCHANGED <<sameLoop, accept, loopVars, taskVars, heldVars>>
  /\ Release

\* make_client or make_server makes the channel.
MakeChannel(c) ==
  /\ start.at = "named"
  /\ c \in NewChans
  /\ Constructed(c, start.fd)
  /\ start' = [start EXCEPT !.at = "made", !.fd = {}, !.ch = {c}]
  /\ UNCHANGED <<sameLoop, accept, lost, loopVars, taskVars, heldVars>>
  /\ Settle({c}, {}, {})

\* It throws after that, or the call of loop_register does: the reference goes.
StartFails ==
  /\ start.at = "made"
  /\ start' = Idle
  /\ UNCHANGED <<sameLoop, accept, lost, loopVars, taskVars, heldVars>>
  /\ Release

\* loop_register, from a thread that is not the loop's.
Registered(c) == <<[op |-> "register", ch |-> c]>>

\* Then the reference goes.
RegisterStarted(c) ==
  /\ c \in start.ch
  /\ tasks' = Offer(Registered(c))
  /\ start' = Idle
  /\ UNCHANGED <<sameLoop, accept, lost, loopVars, snapshot, next, closed, active, posts,
                 heldVars>>
  /\ Release

-----------------------------------------------------------------------------
(* server_channel::begin_read, on this worker or on another that shares the group. *)

Accepting == IF sameLoop THEN pc = "accept" ELSE pc # "destroyed"

\* accept_socket
AcceptSocket(f) ==
  /\ Accepting
  /\ accept = NoChild
  /\ f \in UnusedFds
  /\ accept' = [NoChild EXCEPT !.fd = {f}]
  /\ UNCHANGED <<sameLoop, start, lost, loopVars, taskVars, heldVars, ident>>
  /\ Settle({}, {f}, {})

\* make_child, which applications override, throws before a channel has the descriptor.
MakeChildFails ==
  /\ accept.fd # {}
  /\ Cardinality(lost) < MaxLost
  /\ accept' = [NoChild EXCEPT !.threw = TRUE]
  /\ lost' = lost \cup accept.fd
  /\ UNCHANGED <<sameLoop, start, loopVars, taskVars, heldVars>>
  /\ Release

\* make_child makes the channel.
MakeChild(c) ==
  /\ c \in NewChans
  /\ Constructed(c, accept.fd)
  /\ accept' = [NoChild EXCEPT !.ch = {c}]
  /\ UNCHANGED <<sameLoop, start, lost, loopVars, taskVars, heldVars>>
  /\ Settle({c}, {}, {})

\* (the descriptor is closed as in start_client, and again by the destructor)
ClosedByHand(c) == {ident[c]}
FailedChild(c) == {}

\* make_child throws after all, set_nonblocking, or the handler's on_read, which may
\* keep the child.
ChildFails(c) ==
  /\ c \in accept.ch /\ ~accept.threw
  /\ accept' = [accept EXCEPT !.threw = TRUE]
  /\ kept' \in {kept, kept \cup {c}}
  /\ UNCHANGED <<sameLoop, start, lost, loopVars, taskVars, channels, removed, ident>>
  /\ Settle({}, {}, FailedChild(c))

\* The exception leaves begin_read; trigger_read reports it.
ChildDropped ==
  /\ accept.threw
  /\ accept' = NoChild
  /\ pc' = IF sameLoop THEN "dispatch" ELSE pc
  /\ UNCHANGED <<sameLoop, start, lost, batch, serverEvent, cur, taskVars, heldVars>>
  /\ Release

\* on_read, which may keep the child, and loop_register, which is a call on this
\* worker and a task on another.
RegisterChild(c) ==
  /\ c \in accept.ch /\ ~accept.threw
  /\ accept' = NoChild
  /\ kept' \in {kept, kept \cup {c}}
  /\ IF sameLoop
     THEN channels' = Added(c) /\ UNCHANGED tasks
     ELSE tasks' = Offer(Registered(c)) /\ UNCHANGED channels
  /\ UNCHANGED <<sameLoop, start, lost, loopVars, snapshot, next, closed, active, posts, removed>>
  /\ Release

-----------------------------------------------------------------------------
(* The loop thread. *)

EpollWait ==
  /\ pc = "poll"
  /\ \E fds \in SUBSET DOMAIN channels : batch' = {[fd |-> f, ch |-> channels[f]] : f \in fds}
  /\ serverEvent' \in {FALSE, sameLoop}
  /\ pc' = "dispatch"
  /\ UNCHANGED <<sameLoop, makerVars, cur, taskVars, heldVars>>
  /\ Release

\* process_events looks the channel up by its descriptor, and holds it.
Dispatch(e) ==
  /\ pc = "dispatch"
  /\ e \in batch
  /\ batch' = batch \ {e}
  /\ IF e.fd \in DOMAIN channels
     THEN cur' = {channels[e.fd]} /\ pc' = "event"
     ELSE UNCHANGED <<cur, pc>>
  /\ UNCHANGED <<sameLoop, makerVars, serverEvent, taskVars, heldVars>>
  /\ Release

\* The event of the server channel.
AcceptEvent ==
  /\ pc = "dispatch"
  /\ serverEvent
  /\ serverEvent' = FALSE
  /\ pc' = "accept"
  /\ UNCHANGED <<sameLoop, makerVars, batch, cur, taskVars, heldVars>>
  /\ Release

\* accept finds no connection, or fails.
AcceptEnds ==
  /\ pc = "accept"
  /\ accept = NoChild
  /\ pc' = "dispatch"
  /\ UNCHANGED <<sameLoop, makerVars, batch, serverEvent, cur, taskVars, heldVars>>
  /\ Release

SeeShutdown ==
  /\ Stops /\ active
  /\ pc = "dispatch"
  /\ active' = FALSE
  /\ batch' = {}
  /\ serverEvent' = FALSE
  /\ UNCHANGED <<sameLoop, makerVars, pc, cur, tasks, snapshot, next, closed, posts, heldVars>>
  /\ Release

InHandler == pc \in {"event", "task"}

\* In an event, a task or an accept, the second half of any channel of the worker closes.
CloseChannel(c) ==
  /\ InHandler \/ pc = "accept"
  /\ c \in Range(channels) \ removed
  /\ tasks' = Offer(InactiveTask(c))
  /\ channels' = Removed(c)
  /\ removed' = removed \cup {c}
  /\ UNCHANGED <<sameLoop, makerVars, loopVars, snapshot, next, closed, active, posts, kept>>
  /\ Release

KeepChannel(c) ==
  /\ InHandler
  /\ c \in cur \ kept
  /\ kept' = kept \cup {c}
  /\ UNCHANGED <<sameLoop, makerVars, loopVars, taskVars, channels, removed>>
  /\ Release

\* The handler returns, and with it process_events' reference goes.
EndHandler ==
  /\ InHandler
  /\ cur' = {}
  /\ pc' = IF pc = "event" THEN "dispatch" ELSE "run"
  /\ UNCHANGED <<sameLoop, makerVars, batch, serverEvent, taskVars, heldVars>>
  /\ Release

SwapTasks ==
  /\ pc = "dispatch"
  /\ batch = {} /\ ~serverEvent
  /\ snapshot' = tasks
  /\ tasks' = <<>>
  /\ next' = 1
  /\ closed' = ~active
  /\ pc' = "run"
  /\ UNCHANGED <<sameLoop, makerVars, batch, serverEvent, cur, active, posts, heldVars>>
  /\ Release

\* (every other task is left out)
TaskTwoOn(i) == i + 2
TaskAfter(i) == i + 1

RunTask ==
  /\ pc = "run"
  /\ next <= Len(snapshot)
  /\ next' = TaskAfter(next)
  /\ cur' = {snapshot[next].ch}
  /\ pc' = "task"
  /\ channels' = IF snapshot[next].op = "register" THEN Added(snapshot[next].ch) ELSE channels
  /\ UNCHANGED <<sameLoop, makerVars, batch, serverEvent, tasks, snapshot, closed, active, posts,
                 kept, removed>>
  /\ Release

\* The list is destroyed, and the loop goes on or ends.
EndRun ==
  /\ pc = "run"
  /\ next > Len(snapshot)
  /\ snapshot' = <<>>
  /\ next' = 1
  /\ pc' = IF closed THEN "stopped" ELSE "poll"
  /\ UNCHANGED <<sameLoop, makerVars, batch, serverEvent, cur, tasks, closed, active, posts, heldVars>>
  /\ Release

\* The worker is destroyed: its group is gone, so nobody makes channels any more.
DestroyWorker ==
  /\ pc = "stopped"
  /\ start = Idle /\ accept = NoChild
  /\ channels' = <<>>
  /\ pc' = "destroyed"
  /\ UNCHANGED <<sameLoop, makerVars, batch, serverEvent, cur, taskVars, kept, removed>>
  /\ Release

-----------------------------------------------------------------------------
(* The application. *)

\* A thread that keeps a channel, or a handler, posts an operation on it.
Post(c) ==
  /\ c \in kept \cup cur
  /\ c \in Range(channels) \cup removed
  /\ pc # "destroyed"
  /\ posts < MaxPosts
  /\ tasks' = Offer(<<[op |-> "work", ch |-> c]>>)
  /\ posts' = posts + 1
  /\ UNCHANGED <<sameLoop, makerVars, loopVars, snapshot, next, closed, active, heldVars>>
  /\ Release

DropChannel(c) ==
  /\ c \in kept
  /\ kept' = kept \ {c}
  /\ UNCHANGED <<sameLoop, makerVars, loopVars, taskVars, channels, removed>>
  /\ Release

-----------------------------------------------------------------------------

Next ==
  \/ \E f \in Fds : OpenSocket(f)
  \/ CandidateFails \/ LookupFails \/ Connected \/ SetupFails
  \/ NameFails \/ Named \/ MakeFails \/ StartFails
  \/ \E c \in Chans : MakeChannel(c) \/ RegisterStarted(c)
  \/ \E f \in Fds : AcceptSocket(f)
  \/ \E c \in Chans : MakeChild(c) \/ ChildFails(c) \/ RegisterChild(c)
  \/ MakeChildFails \/ ChildDropped
  \/ EpollWait
  \/ \E e \in batch : Dispatch(e)
  \/ AcceptEvent \/ AcceptEnds \/ EndHandler \/ SwapTasks \/ RunTask \/ EndRun
  \/ SeeShutdown
  \/ DestroyWorker
  \/ \E c \in Chans : CloseChannel(c) \/ KeepChannel(c) \/ Post(c) \/ DropChannel(c)

Spec == Init /\ [][Next]_vars

-----------------------------------------------------------------------------
(* Properties. *)

\* Every variable keeps its type.
TypeOK ==
  /\ sameLoop \in BOOLEAN
  /\ start \in [at : {"idle", "trying", "failed", "connected", "named", "made"},
                fd : SUBSET Fds, ch : SUBSET Chans, tried : 0 .. Candidates]
  /\ accept \in [fd : SUBSET Fds, ch : SUBSET Chans, threw : BOOLEAN]
  /\ open \subseteq Fds /\ lost \subseteq Fds
  /\ DOMAIN ident \subseteq Chans /\ Range(ident) \subseteq Fds
  /\ exists \subseteq DOMAIN ident
  /\ DOMAIN channels \subseteq Fds /\ Range(channels) \subseteq Chans
  /\ kept \subseteq Chans /\ removed \subseteq Chans /\ cur \subseteq Chans
  /\ pc \in {"poll", "dispatch", "accept", "event", "task", "run", "stopped", "destroyed"}
  /\ batch \subseteq Event
  /\ tasks \in Seq(Task) /\ snapshot \in Seq(Task)
  /\ next \in 1 .. Len(snapshot) + 1
  /\ {serverEvent, closed, active} \subseteq BOOLEAN
  /\ posts \in 0 .. MaxPosts

\* The descriptors that start_client, start_server and begin_read have made no channel of.
InHand == start.fd \cup accept.fd

\* A descriptor belongs to one owner: the descriptors of existing channels are open,
\* no two channels share one, and none is at the same time in the hands of
\* start_client or begin_read, or of both.  A descriptor closed once too often would
\* soon be another channel's.
DescriptorOwned ==
  /\ \A c \in exists : ident[c] \in open \ (InHand \cup lost)
  /\ \A c, d \in exists : ident[c] = ident[d] => c = d
  /\ start.fd \cap accept.fd = {}

\* A descriptor is left open that nothing will close only where one was lost: by
\* name_socket, or by the application's make_client, make_server or make_child throwing
\* before a channel had it.  A candidate that fails, set_nonblocking, a handler, a
\* refused task and the end of the worker leave none behind.
NoLeak == open \subseteq {ident[c] : c \in exists} \cup InHand \cup lost

\* A channel both of whose halves are closed is gone, and its descriptor with it, when
\* the loop waits or has ended with no task queued, unless the application keeps it.
ClosedIsReleased ==
  pc \in {"poll", "stopped"} /\ tasks = <<>> => \A c \in removed : c \in exists => c \in kept

\* An event reaches the channel it was fetched for or none, whatever became of the
\* channel and of its descriptor's number in between.
EventReachesOwner ==
  [][\A e \in batch : Dispatch(e) => cur' \subseteq {e.ch}]_vars
=============================================================================
