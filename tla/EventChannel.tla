---------------------------- MODULE EventChannel ----------------------------
(***************************************************************************)
(* The stream channels of one event_worker: epoll_wait and process_events, *)
(* the tasks the worker runs, the handlers of the channels' pipelines, the *)
(* sockets underneath, and the threads that post from outside.             *)
(*                                                                         *)
(* Everything a channel does runs on the loop thread.  One step is what it *)
(* does between two moments at which handler code may run or the socket    *)
(* can be seen to change.  Handler code is any sequence of operations on   *)
(* any channel of the worker; a callback made while a handler runs adds    *)
(* nothing to it and is part of the same visit.  The task queue is         *)
(* TaskExecutor's, which EventWorker implements.                           *)
(*                                                                         *)
(* Bytes are counted, not named: ByteBuffer's order is first in first out. *)
(***************************************************************************)
EXTENDS Naturals, Sequences, SequencesExt, SendOutcome

CONSTANTS
  Chans,          \* the channels set_loop gave to this worker
  Hops,           \* handlers in a pipeline, between its head and its tail
  Room,           \* capacity of a socket's send buffer
  MaxBytes,       \* bound: bytes written to a channel
  MaxInput,       \* bound: reads' worth of data sent by a peer
  MaxPosts,       \* bound: tasks of other threads waiting at once
  MaxDisconnects, \* bound: disconnects asked of a channel
  Kinds,          \* the kinds of channel: stream_channel, file_channel
  Resets,         \* whether a peer may reset its connection
  Throws,         \* whether a handler may throw while an event is processed
  Stops           \* whether the worker may be shut down

ASSUME ChannelAssumption ==
  /\ Hops \in Nat \ {0}
  /\ Room \in Nat \ {0}
  /\ {MaxBytes, MaxInput, MaxPosts, MaxDisconnects} \subseteq Nat
  /\ Kinds \subseteq {"stream", "file"}
  /\ {Resets, Throws, Stops} \subseteq BOOLEAN

VARIABLES
  pc,        \* what the loop thread is doing
  resume,    \* where it goes on when the running handler returns, else "poll"
  batch,     \* the calls that the events not yet dispatched ask for, by channel
  cur,       \* the channel whose event is being processed, as a set
  calls,     \* what is left to call for that event
  tasks, running, closed,   \* the executor: queued, swapped out, task_closed
  active,    \* the worker has not been told to shut down
  chan,      \* the channels
  sock       \* their sockets

loopVars == <<pc, resume, batch, cur, calls, active>>
taskVars == <<tasks, running, closed>>
vars == <<loopVars, taskVars, chan, sock>>

Pcs   == {"poll", "dispatch", "event", "reading", "closing", "handler", "run", "stopped"}
Calls == {"write", "read"}
Ops   == {"register", "write", "flush", "finish", "disconnect", "inactive"}

Channel ==
  [kind : {"stream", "file"},
   life : {"new", "posted", "active", "inactive"},  \* what its handlers were told
   member : BOOLEAN,          \* in the worker's channels and in the epoll set
   watched : SUBSET Calls,    \* the interest the kernel was given
   readInterest : BOOLEAN, writeInterest : BOOLEAN,
   finished : BOOLEAN, inClosed : BOOLEAN, outClosed : BOOLEAN,
   written : Nat, flushed : Nat,    \* sizes of written_buf and flushed_buf
   sent : Nat,                \* history: bytes the socket took
   failed : BOOLEAN,          \* history: a send failed
   cut : BOOLEAN,             \* history: begin_write closed with bytes unsent
   inactives : Nat,           \* history: calls of notify_inactive
   asked : Nat]               \* history: disconnects posted

Socket ==
  [input : Nat,      \* reads' worth of data in the receive buffer
   arrived : Nat,    \* history: how much the peer has sent
   fin : BOOLEAN,    \* the peer closed its side
   reset : {"no", "pending", "reported"},
   room : Nat]       \* free space in the send buffer

\* `early` records that the operation was posted before any disconnect was.
Task == [op : Ops, ch : Chans, left : Nat, early : BOOLEAN]

NewChannel(kind) ==
  [kind |-> kind, life |-> "new", member |-> FALSE, watched |-> {},
   readInterest |-> FALSE, writeInterest |-> FALSE,
   finished |-> FALSE, inClosed |-> FALSE, outClosed |-> FALSE,
   written |-> 0, flushed |-> 0, sent |-> 0, failed |-> FALSE, cut |-> FALSE,
   inactives |-> 0, asked |-> 0]

Init ==
  /\ pc = "poll"
  /\ resume = "poll"
  /\ batch = [c \in Chans |-> {}]
  /\ cur = {}
  /\ calls = {}
  /\ tasks = <<>>
  /\ running = <<>>
  /\ closed = FALSE
  /\ active = TRUE
  /\ \E kind \in [Chans -> Kinds] : chan = [c \in Chans |-> NewChannel(kind[c])]
  /\ sock = [c \in Chans |->
               [input |-> 0, arrived |-> 0, fin |-> FALSE, reset |-> "no", room |-> Room]]

-----------------------------------------------------------------------------
(* The methods of a channel, each as the record it leaves.  A definition that  *)
(* nothing uses is a faulty variant of the one after it: PROJECT.json pairs it *)
(* with the property it breaks.                                                *)

Interest(r) ==
  {x \in Calls : \/ x = "read" /\ r.readInterest
                 \/ x = "write" /\ r.writeInterest}

\* (the interest is not stored)
WatchNothing(r) == r
\* _epoll_operation with EPOLL_CTL_MOD, which fails unless the channel was added.
Watch(r) == IF r.member THEN [r EXCEPT !.watched = Interest(r)] ELSE r

\* remove_channel, with EPOLL_CTL_DEL.
RemoveChannel(r) == [r EXCEPT !.member = FALSE, !.watched = {}]

\* Offers the task of the first handler's on_inactive: NewTasks looks at the count.
NotifyInactive(r) == [r EXCEPT !.inactives = @ + 1]

ShutdownHalf(r) ==
  IF r.inClosed /\ r.outClosed THEN RemoveChannel(NotifyInactive(r)) ELSE Watch(r)

\* (no early return)
ShutdownInputAgain(r) ==
  ShutdownHalf([r EXCEPT !.inClosed = TRUE, !.readInterest = FALSE])
ShutdownInput(r) ==
  IF r.inClosed THEN r
  ELSE ShutdownHalf([r EXCEPT !.inClosed = TRUE, !.readInterest = FALSE])

\* finish_socket, which follows, shows in OutputShut.
ShutdownOutput(r) ==
  IF r.outClosed THEN r
  ELSE ShutdownHalf([r EXCEPT !.outClosed = TRUE, !.writeInterest = FALSE])

\* What the kernel knows of it: finish_socket fails on what is not a socket, and
\* file_channel's ::write goes on.
OutputShut(r) == r.outClosed /\ r.kind = "stream"

\* (the interest of an interrupted write is forgotten)
FlushForgotten(more) == FALSE
\* writability_interested after begin_write.
InterestAfter(more) == more

\* (only `finished` is tested)
ClosesWhenFinished(r, o) == r.finished
\* (the interest is updated before it is tested)
ClosesWhenDrained(r, o) == r.finished /\ ~o.more
\* begin_write closes the output: the test reads the interest of before this write.
ClosesOutput(r, o) == r.finished /\ ~r.writeInterest

\* (removed twice: by remove and by discard)
LeftTwice(size, n) == size - 2 * n
\* byte_buffer::remove
Left(size, n) == size - n

BeginWrite(r, o) ==
  LET s == [r EXCEPT !.flushed = Left(@, o.n), !.sent = @ + o.n] IN
  IF o.failed THEN [s EXCEPT !.failed = TRUE]
  ELSE IF ClosesOutput(r, o)
  THEN ShutdownOutput([s EXCEPT !.cut = @ \/ (s.flushed > 0 /\ ~s.outClosed)])
  ELSE Watch([s EXCEPT !.writeInterest = InterestAfter(o.more)])

\* The sends begin_write may make for channel c, whose record is r.
Sends(c, r) ==
  SendOutcomes(r.flushed, sock[c].room, OutputShut(r) \/ sock[c].reset # "no", Resets)

\* What is left of the socket; a send that fails reports a reset, unless it fails
\* because the output is shut down.
AfterSend(s, r, o) ==
  [s EXCEPT !.room = IF o.n <= @ THEN @ - o.n ELSE 0,
            !.reset = IF o.failed /\ ~(@ = "no" /\ OutputShut(r)) THEN "reported" ELSE @]

Write(r) == IF r.finished THEN r ELSE [r EXCEPT !.written = @ + 1]

\* flush, up to begin_write.
Gather(r) == [r EXCEPT !.flushed = @ + r.written, !.written = 0]

Finish(r) == [r EXCEPT !.finished = TRUE]

\* (the input stays open)
DisconnectOutput(r) == ShutdownOutput(r)
\* dummy_inbound_adapter::on_disconnect
Disconnect(r) == ShutdownInput(ShutdownOutput(r))

\* dummy_inbound_adapter::on_register: add_channel, then on_active.
Register(r) ==
  [r EXCEPT !.life = "active", !.member = TRUE, !.watched = Interest(r)]

\* (the reading side is left out)
InterestedInWriting(r) == [r EXCEPT !.writeInterest = TRUE]
\* loop_register, up to post_register.
Interested(r) == [r EXCEPT !.readInterest = TRUE, !.writeInterest = TRUE]

-----------------------------------------------------------------------------
(* Offering tasks. *)

NewTask(op, c, left) ==
  [op |-> op, ch |-> c, left |-> left, early |-> chan[c].asked = 0]

\* (a later task is put first)
PutFirst(q) == q \o tasks
\* offer_task, for each task of q.
Offer(q) == IF closed THEN tasks ELSE tasks \o q

\* The tasks notify_inactive offers when channel c becomes r.
InactiveTasks(c, r) ==
  [i \in 1 .. (r.inactives - chan[c].inactives) |-> NewTask("inactive", c, Hops)]

\* Channel c becomes r, and offers q after what it offers itself.
Become(c, r, q) ==
  /\ chan' = [chan EXCEPT ![c] = r]
  /\ tasks' = Offer(InactiveTasks(c, r) \o q)

Handle(next) == pc' = "handler" /\ resume' = next

\* begin_write on r, the record of channel c; on_error is called if it fails.
WriteOut(c, r, next) ==
  \E o \in Sends(c, r) :
    /\ Become(c, BeginWrite(r, o), <<>>)
    /\ sock' = [sock EXCEPT ![c] = AfterSend(@, r, o)]
    /\ IF o.failed THEN Handle(next) ELSE pc' = next /\ UNCHANGED resume

-----------------------------------------------------------------------------
(* The loop thread: events. *)

\* The socket is ready, whatever is watched: reset sockets are so both ways, and
\* an output that was shut down never blocks.
Readable(c) == sock[c].input > 0 \/ sock[c].fin \/ sock[c].reset # "no"
Writable(c) == sock[c].room > 0 \/ sock[c].reset # "no" \/ OutputShut(chan[c])

\* What the event of c, if there is one, asks process_events to call: EPOLLERR is
\* reported whether it is watched or not, and asks for both.
EventCalls(c) ==
  {x \in Calls : /\ chan[c].member
                 /\ \/ x \in chan[c].watched /\ x = "read" /\ Readable(c)
                    \/ x \in chan[c].watched /\ x = "write" /\ Writable(c)
                    \/ sock[c].reset = "pending"}

\* epoll_wait, with at most MAX_EVENTS channels ready, or none (a wake-up, a timeout).
EpollWait ==
  /\ pc = "poll"
  /\ batch' = [c \in Chans |-> EventCalls(c)]
  /\ pc' = "dispatch"
  /\ UNCHANGED <<resume, cur, calls, active, taskVars, chan, sock>>

\* The next event of the batch; a channel removed since epoll_wait is skipped.
Dispatch(c) ==
  /\ pc = "dispatch"
  /\ batch[c] # {}
  /\ batch' = [batch EXCEPT ![c] = {}]
  /\ IF chan[c].member
     THEN cur' = {c} /\ calls' = batch[c] /\ pc' = "event"
     ELSE UNCHANGED <<cur, calls, pc>>
  /\ UNCHANGED <<resume, active, taskVars, chan, sock>>

\* The eventfd holds a shutdown: the rest of the batch is dropped.
SeeShutdown ==
  /\ Stops /\ active
  /\ pc = "dispatch"
  /\ active' = FALSE
  /\ batch' = [c \in Chans |-> {}]
  /\ UNCHANGED <<pc, resume, cur, calls, taskVars, chan, sock>>

TriggerWrite(c) ==
  /\ pc = "event"
  /\ c \in cur
  /\ "write" \in calls
  /\ calls' = calls \ {"write"}
  /\ WriteOut(c, chan[c], "event")
  /\ UNCHANGED <<batch, cur, active, running, closed>>

TriggerRead ==
  /\ pc = "event"
  /\ calls = {"read"}
  /\ calls' = {}
  /\ pc' = "reading"
  /\ UNCHANGED <<resume, batch, cur, active, taskVars, chan, sock>>

EndEvent ==
  /\ pc = "event"
  /\ calls = {}
  /\ cur' = {}
  /\ pc' = "dispatch"
  /\ UNCHANGED <<resume, batch, calls, active, taskVars, chan, sock>>

-----------------------------------------------------------------------------
(* The loop thread: stream_channel::begin_read. *)

\* A read returns data, which on_read is given.
ReadData(c) ==
  /\ pc = "reading"
  /\ c \in cur
  /\ sock[c].input > 0
  /\ sock' = [sock EXCEPT ![c].input = @ - 1]
  /\ Handle("reading")
  /\ UNCHANGED <<batch, cur, calls, active, taskVars, chan>>

\* A read fails: on_error, and begin_read returns.
ReadError(c) ==
  /\ pc = "reading"
  /\ c \in cur
  /\ sock[c].input = 0
  /\ sock[c].reset = "pending"
  /\ sock' = [sock EXCEPT ![c].reset = "reported"]
  /\ Handle("event")
  /\ UNCHANGED <<batch, cur, calls, active, taskVars, chan>>

\* A read finds nothing more, or the end of the input: on_read_complete.
ReadComplete(c) ==
  /\ pc = "reading"
  /\ c \in cur
  /\ sock[c].input = 0
  /\ sock[c].reset # "pending"
  /\ Handle(IF sock[c].fin \/ sock[c].reset = "reported" THEN "closing" ELSE "event")
  /\ UNCHANGED <<batch, cur, calls, active, taskVars, chan, sock>>

\* The input ended: shutdown_input, and on_error with orderly_shutdown.
CloseInput(c) ==
  /\ pc = "closing"
  /\ c \in cur
  /\ Become(c, ShutdownInput(chan[c]), <<>>)
  /\ Handle("event")
  /\ UNCHANGED <<batch, cur, calls, active, running, closed, sock>>

-----------------------------------------------------------------------------
(* The loop thread: execute_tasks. *)

SwapTasks ==
  /\ pc = "dispatch"
  /\ \A c \in Chans : batch[c] = {}
  /\ running' = tasks
  /\ tasks' = <<>>
  /\ closed' = (closed \/ ~active)
  /\ pc' = "run"
  /\ UNCHANGED <<resume, batch, cur, calls, active, chan, sock>>

Running(op) == pc = "run" /\ running # <<>> /\ Head(running).op = op

RunRegister ==
  /\ Running("register")
  /\ LET c == Head(running).ch IN Become(c, Register(chan[c]), <<>>)
  /\ running' = Tail(running)
  /\ Handle("run")
  /\ UNCHANGED <<batch, cur, calls, active, closed, sock>>

\* on_write and on_finish, posted by another thread, arrive at the head.
RunWriteOrFinish ==
  /\ Running("write") \/ Running("finish")
  /\ LET c == Head(running).ch
         r == IF Head(running).op = "write" THEN Write(chan[c]) ELSE Finish(chan[c])
     IN Become(c, r, <<>>)
  /\ running' = Tail(running)
  /\ Handle("run")
  /\ UNCHANGED <<batch, cur, calls, active, closed, sock>>

RunFlush ==
  /\ Running("flush")
  /\ LET c == Head(running).ch IN
       IF chan[c].finished
       THEN Handle("run") /\ UNCHANGED <<tasks, chan, sock>>
       ELSE WriteOut(c, Gather(chan[c]), "run")
  /\ running' = Tail(running)
  /\ UNCHANGED <<batch, cur, calls, active, closed>>

\* on_disconnect of a handler offers that of the previous one; the head's closes.
RunDisconnect ==
  /\ Running("disconnect")
  /\ LET t == Head(running) IN
       IF t.left = 1
       THEN Become(t.ch, Disconnect(chan[t.ch]), <<>>)
       ELSE Become(t.ch, chan[t.ch], <<[t EXCEPT !.left = @ - 1]>>)
  /\ running' = Tail(running)
  /\ Handle("run")
  /\ UNCHANGED <<batch, cur, calls, active, closed, sock>>

\* on_inactive of a handler offers that of the next one; the last does not.
RunInactive ==
  /\ Running("inactive")
  /\ LET t == Head(running) IN
       Become(t.ch, [chan[t.ch] EXCEPT !.life = "inactive"],
              IF t.left = 1 THEN <<>> ELSE <<[t EXCEPT !.left = @ - 1]>>)
  /\ running' = Tail(running)
  /\ Handle("run")
  /\ UNCHANGED <<batch, cur, calls, active, closed, sock>>

EndRun ==
  /\ pc = "run"
  /\ running = <<>>
  /\ pc' = IF active THEN "poll" ELSE "stopped"
  /\ UNCHANGED <<resume, batch, cur, calls, active, taskVars, chan, sock>>

-----------------------------------------------------------------------------
(* Handlers.  A handler has the layer of any channel it was called for. *)

Reachable(c) == chan[c].life \in {"active", "inactive"}

Accepts(c) == chan[c].written + chan[c].flushed + chan[c].sent < MaxBytes

HandlerWrite(c) ==
  /\ pc = "handler"
  /\ Reachable(c)
  /\ Accepts(c)
  /\ Become(c, Write(chan[c]), <<>>)
  /\ UNCHANGED <<loopVars, running, closed, sock>>

HandlerFlush(c) ==
  /\ pc = "handler"
  /\ Reachable(c)
  /\ ~chan[c].finished
  /\ \E o \in Sends(c, Gather(chan[c])) :
       /\ Become(c, BeginWrite(Gather(chan[c]), o), <<>>)
       /\ sock' = [sock EXCEPT ![c] = AfterSend(@, chan[c], o)]
  /\ UNCHANGED <<loopVars, running, closed>>

HandlerFinish(c) ==
  /\ pc = "handler"
  /\ Reachable(c)
  /\ Become(c, Finish(chan[c]), <<>>)
  /\ UNCHANGED <<loopVars, running, closed, sock>>

\* post_disconnect offers a task even on the loop thread; `left` depends on how
\* far from the head the caller's layer is.
PostDisconnect(c) ==
  /\ Reachable(c)
  /\ chan[c].asked < MaxDisconnects
  /\ \E left \in 1 .. Hops :
       Become(c, [chan[c] EXCEPT !.asked = IF closed THEN @ ELSE @ + 1],
              <<NewTask("disconnect", c, left)>>)

HandlerDisconnect(c) ==
  /\ pc = "handler"
  /\ PostDisconnect(c)
  /\ UNCHANGED <<loopVars, running, closed, sock>>

\* loop_register on the loop thread, as when server_channel's accept loop runs on
\* the worker that group->next() chose: registered at once, without a task.
RegisterHere(c) ==
  /\ pc = "handler"
  /\ chan[c].life = "new"
  /\ Become(c, Register(Interested(chan[c])), <<>>)
  /\ UNCHANGED <<loopVars, running, closed, sock>>

HandlerReturns ==
  /\ pc = "handler"
  /\ pc' = resume
  /\ resume' = "poll"
  /\ UNCHANGED <<batch, cur, calls, active, taskVars, chan, sock>>

\* trigger_read catches what a handler throws and calls on_error: the rest of
\* begin_read is skipped.
HandlerThrows ==
  /\ Throws
  /\ pc = "handler"
  /\ resume \in {"reading", "closing"}
  /\ resume' = "event"
  /\ UNCHANGED <<pc, batch, cur, calls, active, taskVars, chan, sock>>

-----------------------------------------------------------------------------
(* Other threads. *)

\* loop_register, when the worker still takes tasks; else the channel is dropped.
LoopRegister(c) ==
  /\ chan[c].life = "new"
  /\ Become(c, [Interested(chan[c]) EXCEPT !.life = "posted"],
            <<NewTask("register", c, Hops)>>)
  /\ UNCHANGED <<loopVars, running, closed, sock>>

Post(c, op) ==
  /\ Reachable(c)
  /\ op = "write" => Accepts(c)
  /\ Len(tasks) < MaxPosts
  /\ tasks' = Offer(<<NewTask(op, c, Hops)>>)
  /\ UNCHANGED <<loopVars, running, closed, chan, sock>>

DisconnectFromOutside(c) ==
  /\ Len(tasks) < MaxPosts
  /\ PostDisconnect(c)
  /\ UNCHANGED <<loopVars, running, closed, sock>>

-----------------------------------------------------------------------------
(* The peers and the network. *)

Connected(c) == sock[c].reset = "no" /\ ~sock[c].fin

PeerSends(c) ==
  /\ Connected(c)
  /\ sock[c].arrived < MaxInput
  /\ sock' = [sock EXCEPT ![c].input = @ + 1, ![c].arrived = @ + 1]
  /\ UNCHANGED <<loopVars, taskVars, chan>>

PeerCloses(c) ==
  /\ Connected(c)
  /\ sock' = [sock EXCEPT ![c].fin = TRUE]
  /\ UNCHANGED <<loopVars, taskVars, chan>>

PeerResets(c) ==
  /\ Resets
  /\ sock[c].reset = "no"
  /\ sock' = [sock EXCEPT ![c].reset = "pending"]
  /\ UNCHANGED <<loopVars, taskVars, chan>>

PeerReads(c) ==
  /\ sock[c].room < Room
  /\ sock' = [sock EXCEPT ![c].room = @ + 1]
  /\ UNCHANGED <<loopVars, taskVars, chan>>

-----------------------------------------------------------------------------

LoopStep ==
  \/ EpollWait \/ TriggerRead \/ EndEvent \/ SwapTasks \/ EndRun
  \/ RunRegister \/ RunWriteOrFinish \/ RunFlush \/ RunDisconnect \/ RunInactive
  \/ HandlerReturns
  \/ \E c \in Chans :
       \/ Dispatch(c) \/ TriggerWrite(c) \/ ReadData(c) \/ ReadError(c)
       \/ ReadComplete(c) \/ CloseInput(c)

HandlerStep ==
  \/ HandlerThrows
  \/ \E c \in Chans :
       \/ HandlerWrite(c) \/ HandlerFlush(c) \/ HandlerFinish(c)
       \/ HandlerDisconnect(c) \/ RegisterHere(c)

OutsideStep ==
  \E c \in Chans :
    \/ LoopRegister(c) \/ DisconnectFromOutside(c)
    \/ \E op \in {"write", "flush", "finish"} : Post(c, op)
    \/ PeerSends(c) \/ PeerCloses(c) \/ PeerResets(c) \/ PeerReads(c)

Next == LoopStep \/ SeeShutdown \/ HandlerStep \/ OutsideStep

Spec == Init /\ [][Next]_vars

\* The loop thread runs, handlers return, and a peer takes what it is sent.
Fairness ==
  /\ WF_vars(LoopStep)
  /\ \A c \in Chans : WF_vars(PeerReads(c))

FairSpec == Spec /\ Fairness

-----------------------------------------------------------------------------
(* Properties. *)

\* Every variable keeps its type.
TypeOK ==
  /\ pc \in Pcs
  /\ resume \in Pcs
  /\ batch \in [Chans -> SUBSET Calls]
  /\ cur \in SUBSET Chans
  /\ calls \in SUBSET Calls
  /\ tasks \in Seq(Task)
  /\ running \in Seq(Task)
  /\ closed \in BOOLEAN
  /\ active \in BOOLEAN
  /\ chan \in [Chans -> Channel]
  /\ sock \in [Chans -> Socket]

\* When the worker waits, the kernel watches exactly what each channel it has is
\* interested in, and the worker has exactly the channels whose two halves are
\* not both closed: none is watched after its end, kept, or forgotten.
WatchedAsWanted ==
  \A c \in Chans : LET r == chan[c] IN
    /\ r.member <=> r.life \in {"active", "inactive"} /\ ~(r.inClosed /\ r.outClosed)
    /\ pc = "poll" => r.watched = IF r.member THEN Interest(r) ELSE {}

\* finish never truncates: when begin_write shuts the output down, by the test of
\* `finished`, every flushed byte has gone to the socket.
FinishDrains == \A c \in Chans : ~chan[c].cut

Life ==
  INSTANCE ChannelLife WITH
    life <- [c \in Chans |-> IF chan[c].life = "posted" THEN "new" ELSE chan[c].life],
    open <- [c \in Chans |-> {h \in {"input", "output"} :
                               \/ h = "input" /\ ~chan[c].inClosed
                               \/ h = "output" /\ ~chan[c].outClosed}],
    announced <- [c \in Chans |-> chan[c].inactives],
    arrived <- [c \in Chans |-> sock[c].arrived],
    ended <- [c \in Chans |-> sock[c].fin \/ sock[c].reset # "no"],
    delivered <- [c \in Chans |-> sock[c].arrived - sock[c].input],
    sent <- [c \in Chans |-> chan[c].sent],
    busy <- [c \in Chans |-> c \in cur],
    file <- [c \in Chans |-> chan[c].kind = "file"]

\* The handlers are promised an order of things, in which the halves may close on
\* any path and in any order: nothing is delivered before on_active, after the input
\* closed or outside an event, the peer's close is not seen before its data, nothing
\* goes out on a socket whose output is closed, and on_inactive is announced once,
\* when both halves are closed, and comes when no event is being processed.
LifeSpec == Life!Spec

\* A disconnect does not overtake: when it has closed the output of a channel
\* (which nothing else does while the channel is not finished), no operation posted
\* before it is still waiting.
NoOvertaking ==
  \A c \in Chans :
    chan[c].outClosed /\ ~chan[c].finished =>
      \A t \in ToSet(running \o tasks) :
        t.ch = c /\ t.op \in {"write", "flush", "finish"} => ~t.early

\* finish closes nothing by itself: it is seen only by an event of a time when the
\* channel was interested in writability and is no more, and such an event comes
\* only with a reset or from the handlers of another channel.
FinishNeedsDisconnect ==
  \A c \in Chans : chan[c].outClosed => chan[c].asked > 0 \/ sock[c].reset # "no"

\* Bytes that were flushed reach the socket, fail, or are given up by a close.
FlushedIsSent ==
  \A c \in Chans :
    chan[c].flushed > 0 ~>
      chan[c].flushed = 0 \/ chan[c].failed \/ chan[c].outClosed \/ pc = "stopped"

\* A disconnect that the worker accepted ends with on_inactive, or with the worker.
DisconnectEnds ==
  \A c \in Chans : chan[c].asked > 0 ~> chan[c].life = "inactive" \/ pc = "stopped"

\* The peer's close or reset reaches the channel, however much of its data is still
\* unread and whatever its handlers throw, unless they throw for ever.
PeerCloseSeen ==
  \/ []<><<HandlerThrows>>_vars
  \/ \A c \in Chans :
       (sock[c].fin \/ sock[c].reset # "no") /\ chan[c].life = "active"
         ~> chan[c].inClosed \/ pc = "stopped"
=============================================================================
