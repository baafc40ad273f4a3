# A TLA+ model of libserv

libserv is a C++98 library for network servers in the style of Netty: event
loops (`event_worker`) on threads of their own, channels over non-blocking
sockets that live on one loop each, and a pipeline of handlers per channel. This
directory specifies it in TLA+, checks small instances with TLC and proves the
main invariants with TLAPS. Paths below are relative to `src/`.

## 1. Inventory

| Component | State | Operations | Correct when |
|---|---|---|---|
| **event worker**, `event_worker.cpp`, `event_worker.epoll.cpp` | `active`, `working_thread`, `tasks`, `task_closed`, the eventfd counter, `channels`, the epoll set | `loop`, `process_events`, `execute_tasks`, `offer_task`, `wake_up`, `shutdown_loop`, `wait_for_loop`, `add_channel`, `remove_channel`, `watch_ability` | every accepted task runs once and in order; the loop does not sleep on work; a shutdown is seen; waiters get started |
| **channel**, `event_channel_base.cpp`, `stream_channel.cpp` | the two interests, `finished`, `input_closed`, `output_closed`, `written_buf`, `flushed_buf` | `loop_register`, `write`, `flush`, `finish`, `shutdown_*`, `begin_read`, `begin_write`, `trigger_*` | flushed data is sent or fails; the kernel watches what is wanted; `on_inactive` once, and last |
| **pipeline**, `event_layer.cpp`, `event_handler_base.cpp` | a doubly linked list of layers | `notify_*` towards the tail, `post_*` towards the head, each run directly on the loop thread and as a task elsewhere; `on_disconnect` and `on_inactive` always as a task, one per layer; `add_first_handler`, `add_last_handler` | both chains agree; a call takes the handlers in order; operations of one caller keep their order |
| **buffers and codecs**, `byte_buffer.hpp`, `*_decoder.cpp`, `*_encoder.cpp` | bytes and a read position; bytes or objects not yet decoded | `put`, `remove`, `discard`, `on_read`, `on_write` | first in first out; decoding does not depend on how the input was cut into reads |
| **worker group**, `event_worker_group.cpp` | `loops`, `threads`, `index` | `put_worker`, `next`, `wait_all`, `shutdown_all`, `join_all` | every loop is waited for, told and joined |
| **bootstrap**, `bootstrap.cpp` | the two groups, `success`, `ended` | constructor, `start_server`, `start_client`, `set_success`, `finalize` | each worker is told to stop at most once; a descriptor that fails on its way to a channel is closed (not always: 6) |
| **server channel**, `server_channel.cpp` | the group of its children | the accept loop | a child ends up registered or closed (not always: 6) |
| **kqueue back end**, `event_worker.kqueue.cpp` | the change list, two user events; the kernel's `EV_CLEAR` filters | as epoll | as epoll, and: the late list leaves the right filters; nothing that is reported once is forgotten |
| **file channel**, `file_channel.cpp` | a stream channel's | `read` and `write` for `recv` and `send` | as a stream channel, but for its output |
| socket utilities, `socket_utils.hpp` | none | calls retried on EINTR, candidates of a name lookup | |
| tasks, logger, exceptions, types | none | | |

**How they interact.** A worker's thread runs `loop()`: wait in epoll, dispatch
events to channels, run the queued tasks, again. Everything a channel does
happens on that thread; any other thread reaches a channel only through
`offer_task`, whose queue is guarded by the mutex and whose wake-up is a write to
an eventfd. Channels call handlers, handlers call back into channels (their own or
another of the same worker) in the middle of an event, and post tasks.
`server_channel` creates channels and registers them on the workers of a group;
`bootstrap` starts and stops groups.

**What is hard.** Client threads against the loop around the mutex, the condition
variable and the eventfd; the last run of the tasks against late offers; handler
code that runs in the middle of reading, writing and dispatching; events fetched
before a handler changed what they are about; two halves of a channel closed by
three parties; disconnects that travel as tasks while other operations do not; on
kqueue, events that are reported once, and a list of changes that reaches the kernel
late, when a descriptor on it may be another channel's.
There is nothing persistent and no retry protocol. `hazards` in `PROJECT.json`
lists the places, each with the properties that watch it.

## 2. Modules

| Module | What it models |
|---|---|
| `TaskExecutor` | what `offer_task` promises: a queue run in order, each task once, until closed |
| `EventWorker` | the loop thread, the clients, mutex, condition variable, eventfd and the task queue; implements `TaskExecutor` |
| `EventChannel` | the channels of one worker with their sockets, handlers, tasks and the events between them |
| `ChannelLife` | what a channel promises its handlers, from `on_active` to `on_inactive`; `EventChannel` implements it |
| `Pipeline` | the layers of a channel, and the calls that travel through them while handlers are added |
| `KqueueWorker` | the kqueue back end: change list, filters, user events, reused descriptors |
| `SendOutcome` | what the send loop of `begin_write` can come to, as one step |
| `ByteBuffer` | `byte_buffer` as operators on a record |
| `OutputBuffers` | `write`, `flush` and the send loop call by call, with real bytes; comes to nothing but `SendOutcome` |
| `Decoder` | `bytes_decoder` and `object_decoder` |
| `Bootstrap` | the main thread, the two groups and their workers, from `put_worker` to the destructor |
| `Descriptors` | who owns a descriptor and who holds a channel, from `socket()` or `accept()` to the destructor |
| `EventWorkerProofs`, `EventChannelProofs`, `OutputBuffersProofs`, `PipelineProofs`, `BootstrapProofs`, `DescriptorsProofs`, `KqueueWorkerProofs`, `DecoderProofs` | theorems |
| `MC...` | symmetry sets, inputs and groups of the TLC runs |

`EventChannel` builds on the other two levels: its task queue is `TaskExecutor`'s,
and its sends are `SendOutcome`'s, which `OutputBuffers` shows to be all that the
loop can do. `Bootstrap` and `Descriptors` keep of a worker what their questions
need: a thread that starts and stops, and a dictionary with a task queue.
`KqueueWorker` takes `SendOutcome` too; `Pipeline` takes a task queue and nothing else.

In every module a definition whose comment is in parentheses is a faulty variant
of the one after it. Nothing uses it; `PROJECT.json` pairs it with the property it
breaks, so that each property is known to be able to fail.

### EventWorker

A step is one critical section of `lock`, one access to the eventfd, or one access
to shared state without the lock; these are the units that another thread can see
between. The mutex has no variable: a critical section is one step, except that of
`offer_task`, which spans the push (`Offer`) and the eventfd write (`WakeUp`). A
client between the two is in "waking", and `LockFree` keeps everyone else out.

| Variable | Code |
|---|---|
| `loopPc` | the loop thread's place in `loop`, `process_events` and `execute_tasks` |
| `active`, `taskClosed`, `tasks` | the members of these names |
| `workingThread` | `working_thread` has been assigned |
| `eventfd` | the counter behind `event_ident` |
| `blocking` | the timeout computed in `loop` is not 0 |
| `snapshot`, `inProgress` | locals of `execute_tasks`; `snapshot` loses its head when the task returns |
| `clientPc` | each client's place in `wait_for_loop` and `offer_task` |
| `accepted`, `executed`, `rejected`, `shutdowns` | histories |

`SpuriousWake` is the return of `cond.wait` without a notification, which POSIX
allows; `Spurious = FALSE` removes it. A task is a model value offered at most
once, since the code makes a new object per offer. `Tasks` bounds the offers and
`MaxShutdowns` the shutdown requests. The other events of a batch matter to the
loop only in that handler code runs and may call `offer_task` and `shutdown_loop`
on its own worker (`HandlerOffer`, `HandlerShutdown`).

`Executor` maps the worker to `TaskExecutor`: `pending` is what is swapped out
followed by what is queued, so a swap is a stutter, and closing is the critical
section that takes the last list.

### EventChannel

Channels are records; the methods of `event_channel_base` are operators from a
record to the record they leave, composed as the methods call each other
(`begin_write` calls `shutdown_output` calls `shutdown_half` calls
`watch_ability` or `remove_channel`). An action is what the loop thread does
between two moments at which handlers may run or a socket may be looked at. While
`pc = "handler"`, handler code is on the stack and does any sequence of writes,
flushes, finishes, disconnects and registrations on any channel of the worker;
`resume` says where the interrupted method goes on. The record holds `watched`,
what the kernel was last told, next to the interests; the `*_enabled` flags copy
the interests and the epoll back end never reads them, so they are left out.

Sockets: received data in units of one read, the peer's close and reset, free
space in the send buffer. A reset is reported by one failing call, then reads
return 0. `SendOutcomes` gives what the send loop can come to in one go.
A channel has a kind: on a file, `shutdown()` does nothing (`OutputShut`), so what is
flushed after the output closed still goes out.
Only-EPOLLHUP events, which the code looks up and ignores, are left out. `Hops` is
the number of handlers of a pipeline. A handler that receives `on_disconnect` or
`on_inactive` passes it on first and does other things afterwards, and the last
handler of a pipeline does not pass `on_inactive` on (the tail's would end the
process). The queue of tasks is `TaskExecutor`'s.

`Life` maps the channels to `ChannelLife`: `open` is the halves that are not closed,
`announced` the calls of `notify_inactive`, `delivered` what has left the receive
buffer, `busy` the channel whose event is being processed. A channel that was posted
is still "new" there, and an action may be one of `ChannelLife` or change none of its
variables; `TriggerWrite` may send and close the output at once, which is one `Send`.

### Pipeline

`next` and `prev` are the pointers of the layers, a layer being named by its handler;
`SetNext` and `SetPrev` are the code's assignments in the two chains. `walk` is the
stack of the calls being made: a handler may begin a call of either way from any layer
inside the one that called it, add handlers, and then pass its own call on or keep it.
`tasks` are the calls that other threads offered and those of `on_inactive` and
`on_disconnect`, which stop at each layer. A call carries the handlers it was given to
(`seen`) and those ahead of it when it began (`due`). `Logic` are the `logic_adapter`s.

### KqueueWorker

`changes` is the list of this name, and `knote` the kernel's filters: there, on,
active. `Changed` is what one change does to a filter by the flags the code uses, with
the two errors it can meet (no such filter, no such descriptor); `Kevent` applies the
list, and returns the errors alone if there are any, as kqueue(2) says. `Cleared` is
`EV_CLEAR`: a filter that was returned is active again only when something happens, or
when a change enables it and its condition holds. `enabled` is the `*_enabled` flags,
which this back end does read. `OpenDescriptor` and `CloseDescriptor` are the channel's
construction and destruction; a closed number comes back with the same `changes` still
on the list. Of what a handler does there is what touches interests: flushing, closing
and registering. Sockets are `EventChannel`'s. `cut` says that `begin_read` returned
before it found the socket empty, by an exception or an error. The timeout and the
task queue are the code of the epoll back end, and in `EventWorker`.

### OutputBuffers, ByteBuffer, SendOutcome

`written`, `flushed`, `spin`, `writeInterest`, `finished` and `outClosed` are the
members and the local of these names. One `Send` is one `send_socket`; between two
of them the peer may read or reset the connection. `start` and `result` are
histories of one call of `begin_write`, for `LoopOutcomes`. A byte buffer is the
vector and the position, as in the code: what was removed is still there until
`discard`, so appending too much, discarding too little or forgetting the position
would show. The typed `get` and `raw_shrink` are left out.

### Decoder

`decode` is virtual, and the application's. The model takes the one that needs the
loop most: frames of a length and so many items, of which one or all complete ones
are taken in a call. `seen` is what the next handler was given or an exception
dropped. With `kind = "objects"` the items are objects that come one by one.

### Bootstrap

`at` and `walk` are the main thread's place: `put_worker`, `wait_all`,
`shutdown_all` and `join_all` do one worker per step, so that workers and handlers
act in between. A worker is a thread and the number of shutdown requests in its
eventfd; reading an odd number stops it, as in `EventWorker`. `shared` says that
one group was given as both; the constructor then waits for it twice. `index` is
taken modulo `IndexMod`, which stands for 2^64.

### Descriptors

`open` is the process's descriptors; `Settle`, at the end of every action, destroys
the channels that lost their last reference and closes their descriptors, as
`shared_ptr` does at once and on whichever thread it is. `Held` lists who refers to
a channel: the maker's local, the application, `process_events`' local, the
worker's dictionary, the queued tasks, and the list `execute_tasks` swapped out,
which keeps its tasks to its end. Numbers of closed descriptors are free for the
next `socket()` or `accept()`. `start.fd` and `accept.fd` are the locals of
`start_client` (or `start_server`) and `begin_read` before a channel has the descriptor;
what runs then and can throw outside a `try` is an action of its own: `NameFails`, and
for the application's code `MakeFails` and `MakeChildFails`. They forget the descriptor,
which stays open and in `lost`. A factory that throws once it has made a channel is
`StartFails` or `ChildFails`, where the destructor closes. Server and stream channels
are not told apart once made. The worker is the new channel's; `sameLoop` puts the accepting server channel
on it too, so that an accept can come in the middle of a batch. Handlers use a
child only after it was registered.

## 3. Runs

Each run takes about two minutes or less.

| Run | Instance | Shows |
|---|---|---|
| `ew_safety` | 2 clients, 3 tasks, 2 shutdowns, spurious wake-ups | the safety invariants of the worker |
| `ew_live` | 2 clients, 2 tasks, 1 shutdown | the worker implements `TaskExecutor` with its progress, knows its thread, and stops |
| `ew_spurious` | 1 client | a violation, see 6 |
| `ec_one` | 1 channel, stream or file, 2 handlers, 3 bytes, a post of another thread, resets, throwing handlers, shutdown of the worker | the channel implements `ChannelLife`; a disconnect does not overtake |
| `ec_two` | 2 channels, 1 handler each, 2 bytes | what is watched, and `finish`, under out-of-date events |
| `ec_live` | 1 channel, resets, throwing handlers, shutdown | flushed data, disconnects and the peer's close come to an end; who closes which half |
| `ob_safety` | 2 byte values, a few buffers, resets | the byte stream, the outcomes of the send loop |
| `dc_safety` | frames of 0 to 2 items, 6 items, 2 exceptions | decoding does not depend on the cuts |
| `bs_all` | 1 boss and 2 children, or one group as both; a handler that stops a worker | assignment, shutdown and join |
| `ds_safety` | 3 channels, 3 descriptors, 2 candidates, 1 descriptor lost | one owner per descriptor, none lost but where application code or `getsockname` throws (6), closed channels go, no event for the wrong channel |
| `kq_all` | 1 descriptor opened twice, 2 bytes, 1 read's worth of input, resets, throwing handlers | the filters are right when the list is applied; no edge is lost; shutdowns are honoured |
| `pl_safety` | 3 handlers, one a `logic_adapter`, 2 calls | the chains agree; a call takes each handler once and in order |

**Bounds.** Two clients are enough for one to push while the other waits for the
mutex or the condition; three tasks give one running, one swapped out and one
queued. Two shutdowns make the eventfd counter overflow its shutdown bit. One
handler per pipeline makes every callback possible; two give `on_disconnect` and
`on_inactive` a second hop that other tasks can come between. `WriteSpin` is 2
instead of 4, and 3 bytes reach every way out of the send loop: drained, full,
spun out with and without bytes left. Two channels give a handler of one that acts on
the other while its event waits in the batch; a third adds no new kind of step in
`EventChannel`. `Descriptors` needs it: one channel handles its event, the second is
closed by it while its own event waits, and the third takes the number over. One lost
descriptor, by any of the three ways, leaves two numbers to reuse. Six
items hold a frame of two items, whole or cut twice, with frames before and after.
Three workers give a list that is walked with work before and behind; `IndexMod` is
3 and more channels than that are made, so the index wraps around.
In `kq_all` the descriptor is
opened twice, so that its old channel's deletions and its new one's additions can be on
one list, the closing coming anywhere between; filters of different descriptors do not
touch each other, so one is enough. One byte of room and two to flush leave bytes
unsent. In `pl_safety` two calls can be one inside the other, or one at once and one by
tasks, in either direction; three handlers put one before, one at and one behind a call.
`CHECK_DEADLOCK FALSE` is there because each of these systems may stop: a worker
that was shut down is finished, a bound that is used up leaves nothing to do.

**Fairness.** `EventWorker`: the loop thread's own steps (weak); `epoll_wait`
returning other than by an error (strong: an interrupted call is repeated, and not every
one is interrupted); a client's return from `cond.wait` and its eventfd write
(weak). Clients need not offer or wait. `EventChannel`: the loop thread (weak),
which includes that handlers return, and peers that take what they are sent
(weak). `Bootstrap`: the main thread within a call, a thread that was started, and
a loop that has a request to read (weak). `KqueueWorker`: the loop thread (weak), `kevent`
included, so that it is not interrupted for ever. `PeerCloseSeen` excepts handlers that
throw for ever. Nothing is assumed of what handlers, applications or other threads choose
to do.

## 4. Proofs

The theorems hold for every value of the constants that the named assumptions of
the modules allow (`WorkerAssumption`, `ChannelAssumption`, `SpinAssumption`,
`OutputAssumption`, `PipelineAssumption`, `BootAssumption`, `DescriptorAssumption`,
`KqueueAssumption`, `DecoderAssumption`).

`EventWorkerProofs`:

- `TypeCorrect`: the type invariant, inductive by itself.
- `InOrder` (`ExactlyOnceInOrder`) and `NothingStranded`, from `QueueInv`. The order
  alone is not inductive: `SwapTasks` would overwrite a list not yet run, and a push
  would follow the close. `QueueInv` adds that the snapshot is empty outside "run",
  that a closed queue is empty, and that the loop ends only by a run that closed it.
- `AwakeOnWork`, `NotifyReachesAll`, `ShutdownNotSwallowed`, from `SignalInv`, which
  adds that the counter is even before any shutdown was requested; the arithmetic
  is the lemma `Parity`.
- `ThreadKnown` assumes `~Spurious`, without which it is false (6). `StartInv` says
  of every client past `wait_for_loop` that the loop has set `working_thread`.
- `ImplementsExecutor`: the initial state and every step of the worker are
  `TaskExecutor`'s under the mapping `Executor`. It uses `QueueInv`: `RunTask` is the
  executor's `Run` because the snapshot is the front of what is pending.

`EventChannelProofs` has one lemma for each of the methods that close, watch and write
(`Watch`, `ShutdownHalf`, `ShutdownInput`, `ShutdownOutput`, `BeginWrite`), which the
actions share as the code's callers do. The inductive invariant `Inv` has five parts:

- `ChanInv` is about each channel and its socket. `WatchedAsWanted` speaks of the moments
  in which the worker waits; `Sound` says it of every moment, so that a handler that acts on
  another channel finds it so. `FinishDrains` is not inductive: it depends on the test of
  the interest before the write. `Drains` adds that flushed bytes which stay have the
  interest on, a closed output or a reset connection to blame.
- `LoopInv` ties the channel being processed and the tasks being run to the loop's place.
- `InputInv`: an input that a disconnect did not close was read to its end first.
- `QueueInv` is over the tasks in the order in which they will run. `Timely` says what each of
  them means for its channel now, `Ordered` that no early operation is behind a
  disconnect. `NoOvertaking` is the last conjunct of `Timely`, and the order is what keeps
  it true when a disconnect is run.

From it follow `ChannelTypeCorrect`, `Watched`, `Drained` and `NotOvertaken`; and
`LifeKept`, the refinement: under `Life` every action is a step of `ChannelLife` on one
channel or a stutter. It needs the invariant throughout: `EndOfInput` is the abstract
end of input because of `InputInv`, `on_inactive` comes last because of `Timely`.

`FinishAlone` (`FinishNeedsDisconnect`) assumes `Single`, that the worker has one channel,
without which it is false (6). `Current` adds that an event which asks for a write is of a
channel still interested in it: nothing runs between `epoll_wait` and that write but other
threads, and those take no interest away.

`DescriptorsProofs`, from `DescInv`:

- `OwnedOnce` and `NothingLeaks` together are `OwnInv`, inductive only with `StartInv`
  (`start_client` and `begin_read` have a descriptor or a channel, never both) and
  `HeldInv` (the channels that exist are those something refers to, which `Settle`
  restores in every action). `NothingLeaks` does not say that no descriptor is lost: it
  says that those in `lost` are all, and only the three actions that model the code's
  unguarded calls add to it. How a step changes hands is a lemma each: `OwnsAcquired`,
  `OwnsConstructed`, `OwnsReleased`.
- `EventsReachOwner` needs to know why the channel of an event that waits still has its
  number: the worker has it or its `on_inactive` is queued, and tasks run after the
  batch (`BatchInv`). `OnceInv` says that a channel is registered once, without which
  a removed channel could come back into the dictionary.
- `ClosedGone` from `HeldInv` and `LoopInv`: with no task left nothing else refers to it.

`BootstrapProofs`, from `BootInv`:

- `ToldOnce`: `ToldInv` adds that those `shutdown_all` has yet to come to were not asked
  at all. It needs that the two lists have no worker twice (`BootAssumption`: nothing in
  the library sees to it, the application has to `put_worker` distinct ones) and that a group given as both is walked through once then.
- `AllJoined`: `JoinInv` says that whoever `join_all` is past has stopped.

`KqueueWorkerProofs` is about a list of any length that is applied later, to descriptors
that may by then be others' (`Applied`, a fold):

- The library's induction theorems cannot be used here (5). Instead, that the naturals
  are well founded gives `Least` and from it `Inductive`, where the predicate is a set;
  with these `Folding` shows that the fold goes through the list one change at a time.
- `Leads` follows one filter through a list. What is put behind a list finds the filter
  as the list left it (`LeadsBehind`), so that an operation on a channel is judged by its
  own changes alone (`Behind`), and nobody else's filters notice it (`Elsewhere`).
- `FiltersAgree` (`KernelAgrees`) is `ListOK` of the invariant `KqInv`. It is not
  inductive by itself: when a descriptor is closed and opened again, the list still has
  what the channel before put there. `Undone` adds that every addition on it is followed
  by its deletion, so that the list leaves nothing on a filter that was not there
  (`UndoneLeaves`). It is true because `remove_channel` forces both deletions
  (`RemoveHas`), and because a channel leaves with both interests off (`LifeOK`).
- `NoEventLost` (`NothingStranded`) speaks of the moment before kevent. `ReadOK` and
  `WriteOK` say at every moment where the event is: to come, in the batch, or being
  dealt with. What becomes ready is activated (`PeerStep`), and an `EV_ADD` or
  `EV_ENABLE` that comes later finds it ready (`StaysActive`).

`OutputBuffersProofs` first proves what each operation of `byte_buffer` does to
`Contents`, from the library's theorems on sequences. Then:

- `OutputTypeCorrect` and `OutcomesCover`, from `LoopInv`, which relates what was
  sent so far to the counters of the loop: at least one byte per send, at least the
  room there was at the start once the socket is full, nothing on a connection that
  was broken at the start.
- `StreamKept` and `NoSpaceHeld`, from `StreamInv`: the stream, with `written_buf`
  never having a position, since only `flushed_buf` is ever removed from.

`PipelineProofs` first proves what an addition at either end does to the sequence of
the layers, `W`. Then:

- `ChainsAgree`, from `ChainInv`, which adds to `ChainsMirror` that no handler is in the
  list twice: otherwise a layer would need two successors. One lemma for each of
  `set_next` and `set_prev` computes both pointers at every position.
- `PipelineTypeCorrect` and `CallsInOrder`, from `ChainInv` and `CallsInv`: every call
  under way is `InOrder` in the list as it is now. An addition moves positions but
  never swaps two of them (`Grows`), so no call notices it (`CallKept`); passing a call
  on moves it by one position (`OnwardFacts`, from `ChainInv`), so it can neither come
  back to a handler nor miss one.

`DecoderProofs` is about `Frames` and `Complete`, which are recursive functions of the
input:

- `Recursion` shows that there are such functions, by `Inductive` over the length of the
  input; `FramesOf` and `CompleteOf` are then their equations, and `FrameInduction` is the
  induction over the frames of a sequence that the other lemmas use.
- What decode takes is `Whole`, whether one frame or all (`FrameWhole`, `CompleteWhole`).
  A whole front is taken apart in the same way whatever follows it (`Ahead`): this is why
  it does not matter where a read ends.
- `FramesKept` (`FramesInOrder`) and `NoFrameHeld` (`NothingWaits`), from `DecoderInv`:
  what was read is a whole front and what `cumulative` holds, and the frames of that front
  are those handed on or dropped by an exception (`seen`) and those in `output`. A sequence not taken yet can hold frames too
  (after an exception), so neither follows from the other. `DecoderTypeCorrect` comes with it,
  for `remove` asserts that there is as much as decode takes.
- The lemmas about `byte_buffer` are those of `OutputBuffersProofs`, and are there twice: a
  module has one set of variables.

TLC checked each of these properties before it was proved; `SpaceReclaimed` is no longer
in a run.

## 5. Only model-checked, and not modelled

Liveness under fairness stays with TLC, for the prover has no rule for it: the progress
part of `ExecutorSpec`, `FinalizeReturns`, `PeerCloseSeen`, `ShutdownStops` and the other
temporal properties of 3. Every other property of the passing runs is a theorem. Induction
over data by the library's theorems needs an operator as a parameter, which no installed
prover can instantiate; induction over a set of numbers (`Inductive` in
`KqueueWorkerProofs` and `DecoderProofs`) takes its place.

Not modelled, and why: the construction of a worker and its failures (sequential, and
nothing shares the object yet); the doubling of the event list (`MAX_EVENTS` is not
reached by what the runs hold); the encoders, `raw_shrink` and the typed `get` (no state
between calls); `logger.hpp`, the trace dumps, `serv_exception.hpp` and `serv_types.hpp`
(formatting, types and constants); name resolution (system I/O, its candidates are in
`Descriptors`); the macros of `task_base.hpp` (a task is what its `run` does); the
smart pointer and thread submodules, which are not part of the repository. A thread that
uses a child channel before the acceptor has registered it, and a `put_worker` after the
bootstrap was made, are outside the models: nothing in the library does either.

## 6. What the code does that may surprise

- `wait_for_loop` (`event_worker.cpp:34`) tests `active` with an `if`. After a
  spurious return of `cond.wait` the caller may offer a task before `loop()` ran,
  and `assert(this->working_thread)` (`event_worker.cpp:43`) fails: `ew_spurious`.
- `finish` does not close the output. `begin_write` closes it when the channel is
  finished and its interest in writability is off, testing the interest as it was
  *before* this write (`event_channel_base.cpp:382`); the event that brings the
  last bytes always finds it on. Only a reset or an event that has become out of
  date because of another channel's handler gets there: `FinishNeedsDisconnect` holds in
  `ec_live` and would not with two channels.
- Two shutdown requests before one read of the eventfd add up to a wake-up
  (`event_worker.epoll.cpp:37`); `LoneShutdownHonoured` is about one. `finalize`
  asks each worker once (`OneShutdownEach`), but if a handler has called
  `shutdown_loop` on the same worker and the loop has not yet read it, the two cancel
  out and `join_all` waits for ever: `FinalizeReturns` excepts this. The kqueue
  back end has one user event per purpose and does not add them up: `ShutdownStops` holds
  in `kq_all` for any number of requests.
- A descriptor is lost when something throws between the `try` that would close it and
  the channel that will: `name_socket` in `start_server` or `start_client`
  (`bootstrap.cpp:62`, `:93`), the application's `make_server` or `make_client` (`:63`,
  `:94`), and the virtual `make_child` in `begin_read` (`server_channel.cpp:48`), whose
  exception `trigger_read` reports. `NoLeak` lets the descriptors of these calls (`lost`)
  stay open, and no others.
- The handler that `server_channel` gives a child to runs before `set_loop`
  (`server_channel.cpp:53`): using the child's pipeline there throws `bad_loop`, and
  the connection is dropped.
- When a handler throws in `on_read`, frames the decoder had put out with that one
  are dropped, and complete frames still in its buffer wait until the peer sends
  more (`bytes_decoder.cpp:51`).
- On kqueue the filters are `EV_CLEAR` (`event_worker.kqueue.cpp:127`). When a handler
  throws out of `on_read`, or a read fails, `begin_read` leaves the rest of the input and
  its end behind, and no event comes for them until the peer does something more, or an
  interest is enabled again: `NothingStranded` excepts it (`cut`). On epoll, which is
  level-triggered, `PeerCloseSeen` holds all the same.
- `shutdown()` fails on what is not a socket, and `file_channel` writes with `write()`
  (`file_channel.cpp:59`): bytes flushed after its output closed still go out.
  `ChannelLife` excepts files.

## 7. Plan

Every component that carries the library's logic has a module: `EventWorker` over
`TaskExecutor`, `EventChannel` over `ChannelLife`, `OutputBuffers` over `SendOutcome`
and `ByteBuffer`, `Pipeline`, `KqueueWorker`, `Decoder`, `Bootstrap`, `Descriptors`.

Every property of a passing run that is not liveness is proved. What would extend the
models: the encoders between a pipeline and its channel, and the failures of a worker's
construction.
