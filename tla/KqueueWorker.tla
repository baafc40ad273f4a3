---------------------------- MODULE KqueueWorker ----------------------------
(***************************************************************************)
(* event_worker over kqueue.  What a channel wants watched is put on a     *)
(* list that only the next kevent() applies; the filters are EV_CLEAR, so  *)
(* an event is reported when something happens, not while it lasts; and    *)
(* wake-ups and shutdowns are two user events.                             *)
(*                                                                         *)
(* A channel is named by its descriptor, which is closed when the last     *)
(* reference goes and may come back as another channel's.  Of a channel    *)
(* there is what the change list and the filters depend on; EventChannel   *)
(* has the rest.  Handler code runs in the events and in the tasks.        *)
(***************************************************************************)
EXTENDS Naturals, Sequences, SequencesExt, SendOutcome

CONSTANTS
  Idents,      \* descriptors
  Room,        \* capacity of a socket's send buffer
  MaxOpens,    \* bound: how often a descriptor is opened
  MaxBytes,    \* bound: bytes flushed on a descriptor
  MaxInput,    \* bound: reads' worth of data sent by a peer
  Resets,      \* whether a peer may reset its connection
  Throws       \* whether a handler may throw

ASSUME KqueueAssumption ==
  /\ Room \in Nat \ {0}
  /\ {MaxOpens, MaxBytes, MaxInput} \subseteq Nat
  /\ {Resets, Throws} \subseteq BOOLEAN

VARIABLES
  pc,        \* "kevent", "dispatch", "read", "run" or "stopped"
  changes,   \* the list `changes`
  batch,     \* the filters whose events are not yet dispatched
  signals,   \* and the user events
  cur,       \* the descriptor begin_read is reading, as a set
  active,    \* the worker has not been told to shut down
  user,      \* the user events that were triggered
  knote,     \* the kernel's filters
  chan,      \* the channel of each descriptor
  sock       \* its socket

loopVars == <<pc, batch, signals, cur, active>>
vars == <<loopVars, changes, user, knote, chan, sock>>

Filters == {"read", "write"}
Flags == {"add", "enable", "disable", "delete", "none"}
UserEvents == {"wakeup", "shutdown"}

\* life: no such descriptor; not yet registered; in `channels`; removed, and its
\* on_inactive queued; about to run; has run.
Channel ==
  [life : {"closed", "made", "member", "left", "leaving", "free"},
   wants : SUBSET Filters,     \* readability_interested, writability_interested
   enabled : SUBSET Filters,   \* readability_enabled, writability_enabled
   inClosed : BOOLEAN, outClosed : BOOLEAN,
   out : Nat,                  \* size of flushed_buf
   failed : BOOLEAN,           \* history: a send failed
   cut : BOOLEAN,              \* history: begin_read last returned before EAGAIN or the end
   flushed : Nat,              \* history: bytes flushed on the descriptor, whosever
   opens : Nat]                \* history: times the descriptor was opened

Socket ==
  [input : Nat,
   arrived : Nat,              \* history: reads' worth sent to the descriptor
   fin : BOOLEAN,
   reset : {"no", "pending", "reported"}, room : Nat]

\* error: a change of the list was refused; it is reported at once.
Knote == [here : BOOLEAN, on : BOOLEAN, active : BOOLEAN, error : {FALSE}]
Change == [ident : Idents, filter : Filters, flag : Flags]

NoKnote == [here |-> FALSE, on |-> FALSE, active |-> FALSE, error |-> FALSE]
NewSocket == [input |-> 0, arrived |-> 0, fin |-> FALSE, reset |-> "no", room |-> Room]
NewChannel(life, flushed, opens) ==
  [life |-> life, wants |-> {}, enabled |-> {}, inClosed |-> FALSE, outClosed |-> FALSE,
   out |-> 0, failed |-> FALSE, cut |-> FALSE, flushed |-> flushed, opens |-> opens]

Init ==
  /\ pc = "kevent"
  /\ changes = <<>>
  /\ batch = {}
  /\ signals = {}
  /\ cur = {}
  /\ active = TRUE
  /\ user = {}
  /\ knote = [i \in Idents |-> [f \in Filters |-> NoKnote]]
  /\ chan = [i \in Idents |-> NewChannel("closed", 0, 0)]
  /\ sock = [i \in Idents |-> NewSocket]

-----------------------------------------------------------------------------
(* The change list.  A definition that nothing uses is a faulty variant of the *)
(* one after it: PROJECT.json pairs it with the property it breaks.            *)

\* _kqueue_operation: the changes it puts on the list for descriptor i, channel r.
ChangesOf(i, r, add, del) ==
  LET Of(f) ==
        IF (f \in r.wants) # (f \in r.enabled) \/ "none" \in {add, del}
        THEN <<[ident |-> i, filter |-> f, flag |-> IF f \in r.wants THEN add ELSE del]>>
        ELSE <<>>
  IN Of("read") \o Of("write")

\* store_interested
Stored(r) == [r EXCEPT !.enabled = r.wants]

\* remove_channel
RemoveChanges(i, r) == ChangesOf(i, r, "none", "delete")
AddChanges(i, r) == ChangesOf(i, r, "add", "none")
WatchChanges(i, r) == ChangesOf(i, r, "enable", "disable")

\* (a change is put first)
ListedFirst(list, new) == new \o list
\* changes.insert
Listed(list, new) == list \o new

\* An operation on the channel of i, which leaves r and asks for the changes `new`.
Become(i, r, new) ==
  /\ chan' = [chan EXCEPT ![i] = r]
  /\ changes' = Listed(changes, new)

-----------------------------------------------------------------------------
(* The kernel's side, by what kqueue(2) says of the flags the code uses. *)

\* What the filter reports is the case now.
Ready(i, f) ==
  \/ sock[i].reset # "no"
  \/ f = "read" /\ (sock[i].input > 0 \/ sock[i].fin)
  \/ f = "write" /\ (sock[i].room > 0 \/ chan[i].outClosed)

\* Something happens to the filters F of i.
Activated(i, F) ==
  [knote EXCEPT ![i] =
     [f \in Filters |-> [knote[i][f] EXCEPT !.active = @ \/ (f \in F /\ knote[i][f].here)]]]

\* A change is refused if there is no such filter or no such descriptor.  An addition
\* or an enabling looks at what is the case.
Refused(old, c) == chan[c.ident].life = "closed" \/ (~old.here /\ c.flag # "add")

Changed(old, c) ==
  LET on == c.flag \in {"add", "enable"} \/ (old.on /\ c.flag # "disable")
  IN IF Refused(old, c) THEN [old EXCEPT !.error = TRUE]
     ELSE IF c.flag = "delete" THEN [NoKnote EXCEPT !.error = old.error]
     ELSE [here |-> TRUE, on |-> on, error |-> old.error,
           active |-> old.active \/ (on /\ Ready(c.ident, c.filter))]

Apply(k, c) == [k EXCEPT ![c.ident][c.filter] = Changed(@, c)]

\* The filters when the list has been applied, and with the errors reported.
Applied == FoldLeft(Apply, knote, changes)
Errors(k) == \E i \in Idents, f \in Filters : k[i][f].error
Reported(k) == [i \in Idents |-> [f \in Filters |-> [k[i][f] EXCEPT !.error = FALSE]]]

\* What kevent can return: the filters that are on, active, and still ready.
Pending(k) ==
  {e \in Idents \X Filters :
     k[e[1]][e[2]].on /\ k[e[1]][e[2]].active /\ Ready(e[1], e[2])}

\* EV_CLEAR: an event that was returned is reported again only if it happens again.
Cleared(k) ==
  [i \in Idents |-> [f \in Filters |->
     [k[i][f] EXCEPT !.active = @ /\ ~k[i][f].on]]]

-----------------------------------------------------------------------------
(* The loop. *)

\* kevent returns events, or after the timeout none.  Errors of the changes are
\* events too, which process_events ignores; the others then wait for the next call.
Kevent ==
  /\ pc = "kevent"
  /\ LET k == Applied IN
       IF Errors(k)
       THEN knote' = Reported(k) /\ UNCHANGED <<batch, signals, user>>
       ELSE /\ knote' = Cleared(k)
            /\ batch' = Pending(k)
            /\ signals' = user
            /\ user' = {}
  /\ changes' = <<>>
  /\ pc' = "dispatch"
  /\ UNCHANGED <<cur, active, chan, sock>>

\* EINTR: the changes have been applied.  After another error they are kept, and the
\* call is made again: nothing changes.
KeventInterrupted ==
  /\ pc = "kevent"
  /\ knote' = Reported(Applied)
  /\ changes' = <<>>
  /\ UNCHANGED <<loopVars, user, chan, sock>>

\* (the rest of the batch is dropped at a wake-up)
DroppedAtWakeUp(rest) == {}
\* `continue` after a wake-up
AfterWakeUp(rest) == rest

SeeWakeUp ==
  /\ pc = "dispatch"
  /\ "wakeup" \in signals
  /\ signals' = AfterWakeUp(signals \ {"wakeup"})
  /\ UNCHANGED <<pc, batch, cur, active, changes, user, knote, chan, sock>>

\* `break` after a shutdown
SeeShutdown ==
  /\ pc = "dispatch"
  /\ "shutdown" \in signals
  /\ active' = FALSE
  /\ batch' = {}
  /\ signals' = {}
  /\ UNCHANGED <<pc, cur, changes, user, knote, chan, sock>>

\* A descriptor that is not in `channels` is skipped.
SkipEvent(i, f) ==
  /\ pc = "dispatch"
  /\ <<i, f>> \in batch
  /\ chan[i].life # "member"
  /\ batch' = batch \ {<<i, f>>}
  /\ UNCHANGED <<pc, signals, cur, active, changes, user, knote, chan, sock>>

\* (removed twice)
UnsentTwice(r, n) == r.out - 2 * n
\* buf.remove
Unsent(r, n) == r.out - n

\* begin_write, after the bytes `n` were flushed.
BeginWrite(i, n) ==
  LET r == [chan[i] EXCEPT !.out = @ + n, !.flushed = @ + n]
      broken == r.outClosed \/ sock[i].reset # "no"
  IN \E o \in SendOutcomes(r.out, sock[i].room, broken, Resets) :
       LET s == [r EXCEPT !.out = Unsent(r, o.n), !.failed = @ \/ o.failed,
                          !.wants = IF o.failed THEN @
                                    ELSE IF o.more THEN @ \cup {"write"} ELSE @ \ {"write"}]
           lost == o.failed /\ ~r.outClosed
       IN /\ IF o.failed THEN Become(i, s, <<>>) ELSE Become(i, Stored(s), WatchChanges(i, s))
          /\ sock' = [sock EXCEPT ![i].room = IF o.n <= @ THEN @ - o.n ELSE 0,
                                  ![i].reset = IF lost THEN "reported" ELSE @]
          /\ knote' = IF lost THEN Activated(i, Filters) ELSE knote

TriggerWrite(i) ==
  /\ pc = "dispatch"
  /\ <<i, "write">> \in batch
  /\ chan[i].life = "member"
  /\ batch' = batch \ {<<i, "write">>}
  /\ BeginWrite(i, 0)
  /\ UNCHANGED <<pc, signals, cur, active, user>>

TriggerRead(i) ==
  /\ pc = "dispatch"
  /\ <<i, "read">> \in batch
  /\ chan[i].life = "member"
  /\ batch' = batch \ {<<i, "read">>}
  /\ cur' = {i}
  /\ pc' = "read"
  /\ UNCHANGED <<signals, active, changes, user, knote, chan, sock>>

-----------------------------------------------------------------------------
(* Closing, and begin_read. *)

\* shutdown_half, with the halves that are closed already changed in r.
ShutdownHalf(i, r) ==
  IF r.inClosed /\ r.outClosed
  THEN Become(i, Stored([r EXCEPT !.life = "left"]), RemoveChanges(i, r))
  ELSE Become(i, Stored(r), WatchChanges(i, r))

InputShut(r) == [r EXCEPT !.inClosed = TRUE, !.wants = @ \ {"read"}]
OutputShut(r) == [r EXCEPT !.outClosed = TRUE, !.wants = @ \ {"write"}]

\* begin_read returns; `cut` if it did not get to EAGAIN or to the end.
ReturnFromRead(i, cut) == cur' = {} /\ pc' = "dispatch" /\ chan' = [chan EXCEPT ![i].cut = cut]

\* (one read for each event)
ReadsOnce == FALSE
\* The loop of begin_read.
ReadsOn == TRUE

\* on_read is given the data, and may throw.
ReadData(i) ==
  /\ pc = "read"
  /\ i \in cur
  /\ sock[i].input > 0
  /\ sock' = [sock EXCEPT ![i].input = @ - 1]
  /\ \/ IF ReadsOn THEN UNCHANGED <<cur, pc, chan>> ELSE ReturnFromRead(i, FALSE)
     \/ Throws /\ ReturnFromRead(i, TRUE)
  /\ UNCHANGED <<batch, signals, active, changes, user, knote>>

ReadError(i) ==
  /\ pc = "read"
  /\ i \in cur
  /\ sock[i].input = 0
  /\ sock[i].reset = "pending"
  /\ sock' = [sock EXCEPT ![i].reset = "reported"]
  /\ ReturnFromRead(i, TRUE)
  /\ UNCHANGED <<batch, signals, active, changes, user, knote>>

\* EAGAIN, or on_read_complete throws.
ReadComplete(i) ==
  /\ pc = "read"
  /\ i \in cur
  /\ sock[i].input = 0
  /\ sock[i].reset # "pending"
  /\ \/ ~sock[i].fin /\ sock[i].reset = "no" /\ ReturnFromRead(i, FALSE)
     \/ Throws /\ ReturnFromRead(i, sock[i].fin \/ sock[i].reset # "no")
  /\ UNCHANGED <<batch, signals, active, changes, user, knote, sock>>

EndOfInput(i) ==
  /\ pc = "read"
  /\ i \in cur
  /\ sock[i].input = 0
  /\ sock[i].reset = "reported" \/ (sock[i].fin /\ sock[i].reset = "no")
  /\ IF chan[i].inClosed
     THEN UNCHANGED <<chan, changes>>
     ELSE ShutdownHalf(i, InputShut([chan[i] EXCEPT !.cut = FALSE]))
  /\ cur' = {}
  /\ pc' = "dispatch"
  /\ UNCHANGED <<batch, signals, active, user, knote, sock>>

-----------------------------------------------------------------------------
(* The tasks, and what handlers do. *)

\* execute_tasks swaps the tasks out.
SwapTasks ==
  /\ pc = "dispatch"
  /\ batch = {} /\ signals = {}
  /\ chan' = [i \in Idents |->
                IF chan[i].life = "left" THEN [chan[i] EXCEPT !.life = "leaving"] ELSE chan[i]]
  /\ pc' = "run"
  /\ UNCHANGED <<batch, signals, cur, active, changes, user, knote, sock>>

\* on_inactive: the task held the last reference the worker had.
RunInactive(i) ==
  /\ pc = "run"
  /\ chan[i].life = "leaving"
  /\ chan' = [chan EXCEPT ![i].life = "free"]
  /\ UNCHANGED <<loopVars, changes, user, knote, sock>>

EndRun ==
  /\ pc = "run"
  /\ \A i \in Idents : chan[i].life # "leaving"
  /\ pc' = IF active THEN "kevent" ELSE "stopped"
  /\ UNCHANGED <<batch, signals, cur, active, changes, user, knote, chan, sock>>

InHandler == pc \in {"read", "run"}

\* add_channel, from a task or from the handler that made the channel.
Register(i) ==
  /\ InHandler
  /\ chan[i].life = "made"
  /\ LET r == [chan[i] EXCEPT !.life = "member", !.wants = Filters]
     IN Become(i, Stored(r), AddChanges(i, r))
  /\ UNCHANGED <<loopVars, user, knote, sock>>

HandlerFlush(i) ==
  /\ InHandler
  /\ chan[i].life \in {"member", "left", "leaving", "free"}
  /\ \E n \in 0 .. MaxBytes - chan[i].flushed : BeginWrite(i, n)
  /\ UNCHANGED <<loopVars, user>>

\* The output alone is closed by begin_write, when the channel is finished.
CloseOutput(i) ==
  /\ InHandler \/ pc = "dispatch"
  /\ chan[i].life = "member"
  /\ ~chan[i].outClosed
  /\ ShutdownHalf(i, OutputShut(chan[i]))
  /\ UNCHANGED <<loopVars, user, knote, sock>>

\* on_disconnect: shutdown_output, then shutdown_input unless it is closed already.
RunDisconnect(i) ==
  /\ pc = "run"
  /\ chan[i].life = "member"
  /\ LET r == OutputShut(chan[i])
         s == InputShut(Stored(r))
         first == IF chan[i].outClosed THEN <<>> ELSE WatchChanges(i, r)
     IN IF chan[i].inClosed THEN ShutdownHalf(i, r)
        ELSE Become(i, Stored([s EXCEPT !.life = "left"]), first \o RemoveChanges(i, s))
  /\ UNCHANGED <<loopVars, user, knote, sock>>

-----------------------------------------------------------------------------
(* Other threads, descriptors, and the peers. *)

\* _trigger_user_event: an event that is already triggered stays so.
Trigger(u) == user \cup {u}

WakeUp ==
  /\ user' = Trigger("wakeup")
  /\ UNCHANGED <<loopVars, changes, knote, chan, sock>>

ShutdownLoop ==
  /\ user' = Trigger("shutdown")
  /\ UNCHANGED <<loopVars, changes, knote, chan, sock>>

OpenDescriptor(i) ==
  /\ chan[i].life = "closed"
  /\ chan[i].opens < MaxOpens
  /\ chan' = [chan EXCEPT ![i] = NewChannel("made", chan[i].flushed, chan[i].opens + 1)]
  /\ UNCHANGED <<loopVars, changes, user, knote, sock>>

\* The last reference goes: close() takes the filters with it.
CloseDescriptor(i) ==
  /\ chan[i].life = "free"
  /\ chan' = [chan EXCEPT ![i] = NewChannel("closed", chan[i].flushed, chan[i].opens)]
  /\ knote' = [knote EXCEPT ![i] = [f \in Filters |-> NoKnote]]
  /\ sock' = [sock EXCEPT ![i] = [NewSocket EXCEPT !.arrived = sock[i].arrived]]
  /\ UNCHANGED <<loopVars, changes, user>>

Connected(i) == chan[i].life # "closed" /\ sock[i].reset = "no"

PeerSends(i) ==
  /\ Connected(i) /\ ~sock[i].fin
  /\ sock[i].arrived < MaxInput
  /\ sock' = [sock EXCEPT ![i].input = @ + 1, ![i].arrived = @ + 1]
  /\ knote' = Activated(i, {"read"})
  /\ UNCHANGED <<loopVars, changes, user, chan>>

PeerCloses(i) ==
  /\ Connected(i) /\ ~sock[i].fin
  /\ sock' = [sock EXCEPT ![i].fin = TRUE]
  /\ knote' = Activated(i, {"read"})
  /\ UNCHANGED <<loopVars, changes, user, chan>>

PeerResets(i) ==
  /\ Resets /\ Connected(i)
  /\ sock' = [sock EXCEPT ![i].reset = "pending"]
  /\ knote' = Activated(i, Filters)
  /\ UNCHANGED <<loopVars, changes, user, chan>>

PeerReads(i) ==
  /\ Connected(i)
  /\ sock[i].room < Room
  /\ sock' = [sock EXCEPT ![i].room = @ + 1]
  /\ knote' = Activated(i, {"write"})
  /\ UNCHANGED <<loopVars, changes, user, chan>>

-----------------------------------------------------------------------------

LoopStep ==
  \/ Kevent \/ SeeWakeUp \/ SeeShutdown \/ SwapTasks \/ EndRun
  \/ \E i \in Idents :
       \/ TriggerWrite(i) \/ TriggerRead(i) \/ ReadData(i) \/ ReadError(i)
       \/ ReadComplete(i) \/ EndOfInput(i) \/ RunInactive(i)
       \/ \E f \in Filters : SkipEvent(i, f)

HandlerStep ==
  \E i \in Idents : Register(i) \/ HandlerFlush(i) \/ CloseOutput(i) \/ RunDisconnect(i)

OutsideStep ==
  \/ WakeUp \/ ShutdownLoop
  \/ \E i \in Idents :
       \/ OpenDescriptor(i) \/ CloseDescriptor(i)
       \/ PeerSends(i) \/ PeerCloses(i) \/ PeerResets(i) \/ PeerReads(i)

Next == LoopStep \/ KeventInterrupted \/ HandlerStep \/ OutsideStep

\* The loop thread runs, handlers return, and kevent is not interrupted for ever.
Fairness == WF_vars(LoopStep)

Spec == Init /\ [][Next]_vars
FairSpec == Spec /\ Fairness

-----------------------------------------------------------------------------
(* Properties. *)

\* Every variable keeps its type.
TypeOK ==
  /\ pc \in {"kevent", "dispatch", "read", "run", "stopped"}
  /\ active \in BOOLEAN
  /\ changes \in Seq(Change)
  /\ batch \subseteq Idents \X Filters
  /\ signals \subseteq UserEvents
  /\ cur \subseteq Idents
  /\ user \subseteq UserEvents
  /\ knote \in [Idents -> [Filters -> Knote]]
  /\ chan \in [Idents -> Channel]
  /\ sock \in [Idents -> Socket]

\* The list is all that lies between a channel's wish and the kernel: once it is
\* applied, by a kevent that comes late, was interrupted or failed before, the kernel
\* has the filters of the worker's channels and no others, on as they want, even when
\* a descriptor on the list has been closed and is another channel's by now.
KernelAgrees ==
  LET applied == Applied IN
  \A i \in Idents, f \in Filters : LET k == applied[i][f] r == chan[i] IN
    IF r.life = "member"
    THEN k.here /\ (k.on <=> f \in r.enabled) /\ (pc = "kevent" => r.enabled = r.wants)
    ELSE ~k.here

\* An event that is reported once is dealt with at once and for good: when the loop
\* calls kevent, a channel with unread input or an unseen end has an event to come,
\* unless begin_read was cut short, and one with unsent bytes has one, or the peer has
\* yet to read.
NothingStranded ==
  pc = "kevent" =>
    LET applied == Applied IN
    \A i \in Idents : LET r == chan[i] k == applied[i] IN
      r.life = "member" =>
        /\ Ready(i, "read") /\ ~r.inClosed /\ ~r.cut => k["read"].active
        /\ r.out > 0 /\ ~r.failed /\ ~r.outClosed =>
             k["write"].on /\ (k["write"].active \/ sock[i].room < Room)

\* A shutdown request is honoured however many there are, and however many wake-ups
\* it is mixed with.
ShutdownStops == "shutdown" \in user ~> pc = "stopped"
=============================================================================
