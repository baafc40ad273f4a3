------------------------------ MODULE Pipeline ------------------------------
(***************************************************************************)
(* The layers of a channel and the calls that travel through them: inwards *)
(* by notify_* and `next`, outwards by post_* and `prev`.  A handler may   *)
(* add handlers while calls are under way; everything here runs on the     *)
(* loop thread, but for the calls other threads offer as tasks.  A layer   *)
(* is named by its handler.                                                *)
(***************************************************************************)
EXTENDS Naturals, Sequences, SequencesExt

CONSTANTS
  Handlers,    \* the handlers that may be added
  Logic,       \* those that are logic_adapters: an inward call ends there
  NoLayer,     \* the null pointer
  MaxCalls     \* bound: calls that are begun

ASSUME PipelineAssumption ==
  /\ Logic \subseteq Handlers
  /\ {"head", "tail"} \cap Handlers = {}
  /\ NoLayer \notin Handlers \cup {"head", "tail"}
  /\ MaxCalls \in Nat

Layers == Handlers \cup {"head", "tail"}

VARIABLES
  next, prev,   \* the pointers of the layers
  walk,         \* the calls being made, the innermost first
  tasks,        \* the calls queued in the worker
  list,         \* history: the handlers in the order in which they were meant to be
  calls         \* history: how many calls were begun

vars == <<next, prev, walk, tasks, list, calls>>

\* `stepwise`: on_inactive and on_disconnect, which go on by a task at each layer.
Call ==
  [way : {"in", "out"}, stepwise : BOOLEAN,
   at : Layers,              \* the layer it has come to
   seen : Seq(Layers),       \* history: the handlers that were called
   due : SUBSET Handlers]    \* history: the handlers that were ahead when it began

\* The constructor of event_channel_base.
Init ==
  /\ next = [l \in Layers |-> IF l = "head" THEN "tail" ELSE NoLayer]
  /\ prev = [l \in Layers |-> IF l = "tail" THEN "head" ELSE NoLayer]
  /\ walk = <<>>
  /\ tasks = <<>>
  /\ list = <<>>
  /\ calls = 0

-----------------------------------------------------------------------------
(* Adding handlers.  A definition that nothing uses is a faulty variant of the *)
(* one after it: PROJECT.json pairs it with the property it breaks.            *)

\* set_next(n) on layer l.
SetNext(l, n) ==
  /\ next' = [next EXCEPT ![n] = next[l], ![l] = n]
  /\ prev' = [prev EXCEPT ![n] = prev[next[l]], ![next[l]] = n]

\* (the old neighbour is not told)
SetPrevHalf(l, n) ==
  /\ prev' = [prev EXCEPT ![n] = prev[l], ![l] = n]
  /\ next' = [next EXCEPT ![n] = next[prev[l]]]
\* set_prev(n) on layer l.
SetPrev(l, n) ==
  /\ prev' = [prev EXCEPT ![n] = prev[l], ![l] = n]
  /\ next' = [next EXCEPT ![n] = next[prev[l]], ![prev[l]] = n]

AddFirst(h) ==
  /\ h \notin Range(list)
  /\ SetNext("head", h)
  /\ list' = <<h>> \o list
  /\ UNCHANGED <<walk, tasks, calls>>

AddLast(h) ==
  /\ h \notin Range(list)
  /\ SetPrev("tail", h)
  /\ list' = Append(list, h)
  /\ UNCHANGED <<walk, tasks, calls>>

-----------------------------------------------------------------------------
(* Calls. *)

\* The handler of the layer the call is at was called and has not returned.
Called(c) == c.seen # <<>> /\ Last(c.seen) = c.at

\* Handler code, or code of the channel, is running on the loop thread.
Running == walk # <<>> => Called(Head(walk))

Whole == <<"head">> \o list \o <<"tail">>
Position(l) == CHOOSE k \in DOMAIN Whole : Whole[k] = l
Ahead(way, l) ==
  {h \in Range(list) : IF way = "in" THEN Position(h) > Position(l)
                       ELSE Position(h) < Position(l)}

Onward(way, l) == IF way = "in" THEN next[l] ELSE prev[l]

\* notify_* and post_* of layer l: the layer beyond l is called, on the loop thread at
\* once unless the call is made stepwise, else by a task.  A handler begins calls too,
\* inside the one that called it.
Begin(way, stepwise, l, onLoop) ==
  /\ calls < MaxCalls
  /\ l \in Range(Whole)
  /\ l # IF way = "in" THEN "tail" ELSE "head"
  /\ calls' = calls + 1
  /\ LET c == [way |-> way, stepwise |-> stepwise, at |-> Onward(way, l),
               seen |-> <<>>, due |-> Ahead(way, l)]
     IN IF onLoop /\ ~stepwise
        THEN Running /\ walk' = <<c>> \o walk /\ UNCHANGED tasks
        ELSE tasks' = Append(tasks, c) /\ UNCHANGED walk
  /\ UNCHANGED <<next, prev, list>>

RunTask ==
  /\ walk = <<>>
  /\ tasks # <<>>
  /\ walk' = <<Head(tasks)>>
  /\ tasks' = Tail(tasks)
  /\ UNCHANGED <<next, prev, list, calls>>

\* (the tail hands on, as handlers do)
EndsAtLogic(c) == c.way = "in" /\ c.at \in Logic
\* Who does not pass a call on: a logic_adapter, the head's handler, which acts on the
\* channel, and the tail's, which throws for nobody has handled the call.
Ends(c) == c.at \in {"head", "tail"} \/ (c.way = "in" /\ c.at \in Logic)

\* The handler of the layer is called.
CallHandler ==
  /\ walk # <<>>
  /\ ~Called(Head(walk))
  /\ LET c == Head(walk)
     IN walk' = <<[c EXCEPT !.seen = Append(@, c.at)]>> \o Tail(walk)
  /\ UNCHANGED <<next, prev, tasks, list, calls>>

\* (the handler passes on from the next layer, not from its own)
PassedTwice(c) ==
  LET n == Onward(c.way, c.at)
  IN [c EXCEPT !.at = IF n \in {"head", "tail"} THEN n ELSE Onward(c.way, n)]
\* The call at the layer it goes on to.
Passed(c) == [c EXCEPT !.at = Onward(c.way, c.at)]

\* event_handler_base passes every call on, a stepwise one as a task.
PassOn ==
  /\ walk # <<>>
  /\ LET c == Head(walk)
     IN /\ Called(c)
        /\ ~Ends(c)
        /\ IF c.stepwise
           THEN walk' = Tail(walk) /\ tasks' = Append(tasks, Passed(c))
           ELSE walk' = <<Passed(c)>> \o Tail(walk) /\ UNCHANGED tasks
  /\ UNCHANGED <<next, prev, list, calls>>

\* The handler returns without passing the call on: it ends here (Ends), or the handler
\* overrides the operation and keeps it.
EndCall ==
  /\ walk # <<>>
  /\ Called(Head(walk))
  /\ walk' = Tail(walk)
  /\ UNCHANGED <<next, prev, tasks, list, calls>>

Next ==
  \/ \E h \in Handlers : AddFirst(h) \/ AddLast(h)
  \/ \E way \in {"in", "out"}, stepwise, onLoop \in BOOLEAN, l \in Layers :
       Begin(way, stepwise, l, onLoop)
  \/ RunTask
  \/ CallHandler
  \/ PassOn
  \/ EndCall

Spec == Init /\ [][Next]_vars

-----------------------------------------------------------------------------
(* Properties. *)

\* Every variable keeps its type.
TypeOK ==
  /\ next \in [Layers -> Layers \cup {NoLayer}]
  /\ prev \in [Layers -> Layers \cup {NoLayer}]
  /\ walk \in Seq(Call)
  /\ tasks \in Seq(Call)
  /\ list \in Seq(Handlers)
  /\ calls \in 0 .. MaxCalls

\* The two chains of pointers are one list read from either end, whatever was added
\* first or last and in whichever order.
ChainsMirror ==
  /\ \A k \in 1 .. Len(Whole) - 1 :
       next[Whole[k]] = Whole[k + 1] /\ prev[Whole[k + 1]] = Whole[k]
  /\ next["tail"] = NoLayer /\ prev["head"] = NoLayer

Before(way, a, b) == IF way = "in" THEN Position(a) < Position(b) ELSE Position(a) > Position(b)

\* A call under way, at once or stepwise, calls each handler at most once and in their
\* order, and passes by none that was ahead of it when it began, though handlers are
\* added before and behind it.
EachOnceInOrder ==
  \A c \in Range(walk) \cup Range(tasks) :
    /\ \A i, j \in DOMAIN c.seen : i < j => Before(c.way, c.seen[i], c.seen[j])
    /\ \A h \in c.due \ Range(c.seen) : h = c.at \/ Before(c.way, c.at, h)
    /\ \A i \in DOMAIN c.seen : c.seen[i] = c.at \/ Before(c.way, c.seen[i], c.at)
=============================================================================
