-------------------------- MODULE EventChannelProofs --------------------------
(***************************************************************************)
(* What holds of EventChannel for every set of channels and every bound:   *)
(* what is watched, that finish does not truncate, that a disconnect does  *)
(* not overtake, that the channels implement ChannelLife, and that finish  *)
(* alone does not close the only channel of a worker.                      *)
(***************************************************************************)
EXTENDS EventChannel, SequenceTheorems, TLAPS

-----------------------------------------------------------------------------
(* The inductive invariant. *)

\* A channel by itself: the worker has it from on_active until both halves are closed,
\* and tells the kernel of every change of its interest; on_inactive comes after both
\* halves closed; begin_write never cut anything off; and only a disconnect or a finish
\* closes the output.
Sound(r) ==
  /\ r.member <=> r.life \in {"active", "inactive"} /\ ~(r.inClosed /\ r.outClosed)
  /\ r.life \in {"new", "posted"} => ~r.inClosed /\ ~r.outClosed
  /\ r.life = "inactive" => r.inClosed /\ r.outClosed
  /\ r.watched = IF r.member THEN Interest(r) ELSE {}
  /\ ~r.cut
  /\ r.outClosed /\ ~r.finished => r.asked > 0

\* Flushed bytes that stay have someone who will send them, or a reason to stay.
Drains(r, s) == r.flushed > 0 => r.writeInterest \/ r.outClosed \/ s.reset # "no"

ChanInv == \A c \in Chans : Sound(chan[c]) /\ Drains(chan[c], sock[c])

InEvent ==
  \/ pc \in {"event", "reading", "closing"}
  \/ pc = "handler" /\ resume \in {"event", "reading", "closing"}

\* The loop thread has a channel while it processes an event, and a list of tasks while
\* it runs them; the input is about to be closed at its end only.
LoopInv ==
  /\ pc = "handler" => resume \in {"event", "reading", "closing", "run"}
  /\ IF InEvent THEN \E c \in Chans : cur = {c} ELSE cur = {}
  /\ running # <<>> => pc = "run" \/ (pc = "handler" /\ resume = "run")
  /\ \A c \in cur : chan[c].life = "active"

Ended(s) == s.fin \/ s.reset # "no"

\* The input of a channel closes by a disconnect, or once everything that came has been
\* read and the peer sends no more.
InputInv ==
  \A c \in Chans :
    /\ sock[c].input <= sock[c].arrived
    /\ chan[c].inClosed /\ (~chan[c].outClosed \/ c \in cur) => sock[c].input = 0 /\ Ended(sock[c])
    /\ c \in cur /\ (pc = "closing" \/ (pc = "handler" /\ resume = "closing")) =>
         sock[c].input = 0 /\ Ended(sock[c])

\* The tasks that wait, in the order in which they will run.
Queue == running \o tasks

DataOps == {"write", "flush", "finish"}

\* What a task that waits says of its channel r.
Timely(t, r) ==
  /\ t.left > 0
  /\ IF t.op = "register" THEN r.life = "posted" ELSE r.life \in {"active", "inactive"}
  /\ t.op = "inactive" => r.inClosed /\ r.outClosed
  /\ t.op = "disconnect" => r.asked > 0
  /\ t.op \in DataOps /\ t.early => ~(r.outClosed /\ ~r.finished)

\* A channel is registered once, and what is posted after a disconnect is not early.
Ordered(t, u) ==
  t.ch = u.ch => /\ ~(t.op = "register" /\ u.op = "register")
                 /\ t.op = "disconnect" /\ u.op \in DataOps => ~u.early

InOrder(q) == \A i, j \in DOMAIN q : i < j => Ordered(q[i], q[j])

QueueInv ==
  /\ \A t \in ToSet(Queue) : Timely(t, chan[t.ch])
  /\ InOrder(Queue)

Inv == TypeOK /\ ChanInv /\ LoopInv /\ InputInv /\ QueueInv

-----------------------------------------------------------------------------
(* Channels. *)

\* What closing a half leaves alone.
Kept(r, s) ==
  /\ s.kind = r.kind /\ s.life = r.life /\ s.finished = r.finished /\ s.cut = r.cut
  /\ s.written = r.written /\ s.flushed = r.flushed /\ s.sent = r.sent
  /\ s.failed = r.failed /\ s.asked = r.asked

\* Interests are sets of calls.
LEMMA InterestType == ASSUME NEW r PROVE Interest(r) \subseteq Calls
BY DEF Interest

\* The interest depends on two fields only.
LEMMA InterestSame ==
  ASSUME NEW r, NEW s, s.readInterest = r.readInterest, s.writeInterest = r.writeInterest
  PROVE  Interest(s) = Interest(r)
BY DEF Interest

\* EPOLL_CTL_MOD brings the kernel up to date, and changes nothing else.
LEMMA WatchFields ==
  ASSUME NEW r \in Channel
  PROVE  /\ Watch(r) \in Channel /\ Kept(r, Watch(r))
         /\ Watch(r).inClosed = r.inClosed /\ Watch(r).outClosed = r.outClosed
         /\ Watch(r).readInterest = r.readInterest /\ Watch(r).writeInterest = r.writeInterest
         /\ Watch(r).member = r.member /\ Watch(r).inactives = r.inactives
         /\ Watch(r).watched = IF r.member THEN Interest(r) ELSE r.watched
<1>1. CASE r.member
  <2> DEFINE x == Interest(r)
  <2>1. x \subseteq Calls
    BY InterestType
  <2>2. Watch(r) = [r EXCEPT !.watched = x]
    BY <1>1 DEF Watch
  <2> HIDE DEF x
  <2>3. Watch(r) \in Channel
    BY <2>1, <2>2 DEF Channel
  <2>4. Watch(r).watched = x
    BY <2>2 DEF Channel
  <2> QED
    BY <1>1, <2>2, <2>3, <2>4 DEF Channel, Kept, x
<1>2. CASE ~r.member
  BY <1>2 DEF Watch, Kept
<1> QED
  BY <1>1, <1>2

\* The last half that closes takes the channel out of the worker, and announces on_inactive.
LEMMA ShutdownFields ==
  ASSUME NEW r \in Channel, NEW s, s = ShutdownHalf(r)
  PROVE  /\ s \in Channel /\ Kept(r, s)
         /\ s.inClosed = r.inClosed /\ s.outClosed = r.outClosed
         /\ s.readInterest = r.readInterest /\ s.writeInterest = r.writeInterest
         /\ r.inClosed /\ r.outClosed =>
              s.member = FALSE /\ s.watched = {} /\ s.inactives = r.inactives + 1
         /\ ~(r.inClosed /\ r.outClosed) =>
              /\ s.member = r.member /\ s.inactives = r.inactives
              /\ s.watched = IF r.member THEN Interest(r) ELSE r.watched
<1>1. CASE r.inClosed /\ r.outClosed
  <2> DEFINE q == NotifyInactive(r)
  <2>1. s = [q EXCEPT !.member = FALSE, !.watched = {}]
    BY <1>1 DEF ShutdownHalf, RemoveChannel
  <2>2. /\ q \in Channel /\ Kept(r, q) /\ q.inactives = r.inactives + 1
        /\ q.inClosed = r.inClosed /\ q.outClosed = r.outClosed
        /\ q.readInterest = r.readInterest /\ q.writeInterest = r.writeInterest
    BY DEF NotifyInactive, Channel, Kept
  <2> HIDE DEF q
  <2>3. /\ s \in Channel /\ Kept(q, s) /\ s.inactives = q.inactives
        /\ s.inClosed = q.inClosed /\ s.outClosed = q.outClosed
        /\ s.readInterest = q.readInterest /\ s.writeInterest = q.writeInterest
        /\ s.member = FALSE /\ s.watched = {}
    BY <2>1, <2>2 DEF Channel, Kept
  <2>4. Kept(r, s)
    BY <2>2, <2>3 DEF Kept
  <2> QED
    BY <1>1, <2>2, <2>3, <2>4
<1>2. CASE ~(r.inClosed /\ r.outClosed)
  <2>1. s = Watch(r)
    BY <1>2 DEF ShutdownHalf
  <2> QED
    BY <1>2, <2>1, WatchFields
<1> QED
  BY <1>1, <1>2

\* shutdown_output.
LEMMA OutputFields ==
  ASSUME NEW r \in Channel, NEW s, s = ShutdownOutput(r), Sound(r), r.life \in {"active", "inactive"}, r.finished \/ r.asked > 0
  PROVE  /\ s \in Channel /\ Kept(r, s) /\ Sound(s) /\ s.outClosed
         /\ s.inClosed = r.inClosed /\ s.readInterest = r.readInterest
         /\ s.inactives = IF ~r.outClosed /\ r.inClosed THEN r.inactives + 1 ELSE r.inactives
<1> DEFINE q == [r EXCEPT !.outClosed = TRUE, !.writeInterest = FALSE]
<1>1. CASE r.outClosed
  BY <1>1 DEF ShutdownOutput, Kept, Channel
<1>2. CASE ~r.outClosed
  <2>1. s = ShutdownHalf(q)
    BY <1>2 DEF ShutdownOutput
  <2>2. /\ q \in Channel /\ Kept(r, q) /\ q.outClosed = TRUE /\ q.writeInterest = FALSE
        /\ q.inClosed = r.inClosed /\ q.readInterest = r.readInterest /\ q.member = r.member
        /\ q.watched = r.watched /\ q.inactives = r.inactives
    BY DEF Channel, Kept
  <2> HIDE DEF q
  <2>3. /\ s \in Channel /\ Kept(q, s)
        /\ s.inClosed = q.inClosed /\ s.outClosed = q.outClosed
        /\ s.readInterest = q.readInterest /\ s.writeInterest = q.writeInterest
        /\ q.inClosed /\ q.outClosed =>
             s.member = FALSE /\ s.watched = {} /\ s.inactives = q.inactives + 1
        /\ ~(q.inClosed /\ q.outClosed) =>
             /\ s.member = q.member /\ s.inactives = q.inactives
             /\ s.watched = IF q.member THEN Interest(q) ELSE q.watched
    BY <2>1, <2>2, ShutdownFields
  <2>4. Interest(s) = Interest(q)
    BY <2>3, InterestSame
  <2>5. Kept(r, s)
    BY <2>2, <2>3 DEF Kept
  <2>6. r.member <=> r.life \in {"active", "inactive"} /\ ~(r.inClosed /\ r.outClosed)
    BY DEF Sound
  <2>7. r.life # "inactive" /\ r.member
    BY <1>2, <2>6 DEF Sound
  <2>8. s.member <=> s.life \in {"active", "inactive"} /\ ~(s.inClosed /\ s.outClosed)
    BY <2>2, <2>3, <2>5, <2>7 DEF Kept
  <2>9. s.watched = IF s.member THEN Interest(s) ELSE {}
    BY <2>2, <2>3, <2>4, <2>7
  <2>10. Sound(s)
    BY <2>2, <2>3, <2>5, <2>7, <2>8, <2>9 DEF Sound, Kept
  <2> QED
    BY <1>2, <2>2, <2>3, <2>5, <2>10
<1> QED
  BY <1>1, <1>2

\* shutdown_input.
LEMMA InputFields ==
  ASSUME NEW r \in Channel, NEW s, s = ShutdownInput(r), Sound(r), r.life \in {"active", "inactive"}
  PROVE  /\ s \in Channel /\ Kept(r, s) /\ Sound(s) /\ s.inClosed
         /\ s.outClosed = r.outClosed /\ s.writeInterest = r.writeInterest
         /\ s.inactives = IF ~r.inClosed /\ r.outClosed THEN r.inactives + 1 ELSE r.inactives
<1> DEFINE q == [r EXCEPT !.inClosed = TRUE, !.readInterest = FALSE]
<1>1. CASE r.inClosed
  BY <1>1 DEF ShutdownInput, Kept, Channel
<1>2. CASE ~r.inClosed
  <2>1. s = ShutdownHalf(q)
    BY <1>2 DEF ShutdownInput
  <2>2. /\ q \in Channel /\ Kept(r, q) /\ q.inClosed = TRUE /\ q.readInterest = FALSE
        /\ q.outClosed = r.outClosed /\ q.writeInterest = r.writeInterest /\ q.member = r.member
        /\ q.watched = r.watched /\ q.inactives = r.inactives
    BY DEF Channel, Kept
  <2> HIDE DEF q
  <2>3. /\ s \in Channel /\ Kept(q, s)
        /\ s.inClosed = q.inClosed /\ s.outClosed = q.outClosed
        /\ s.readInterest = q.readInterest /\ s.writeInterest = q.writeInterest
        /\ q.inClosed /\ q.outClosed =>
             s.member = FALSE /\ s.watched = {} /\ s.inactives = q.inactives + 1
        /\ ~(q.inClosed /\ q.outClosed) =>
             /\ s.member = q.member /\ s.inactives = q.inactives
             /\ s.watched = IF q.member THEN Interest(q) ELSE q.watched
    BY <2>1, <2>2, ShutdownFields
  <2>4. Interest(s) = Interest(q)
    BY <2>3, InterestSame
  <2>5. Kept(r, s)
    BY <2>2, <2>3 DEF Kept
  <2>6. r.life # "inactive" /\ r.member
    BY <1>2 DEF Sound
  <2>7. s.member <=> s.life \in {"active", "inactive"} /\ ~(s.inClosed /\ s.outClosed)
    BY <2>2, <2>3, <2>5, <2>6 DEF Kept
  <2>8. s.watched = IF s.member THEN Interest(s) ELSE {}
    BY <2>2, <2>3, <2>4, <2>6
  <2>9. Sound(s)
    BY <2>2, <2>3, <2>5, <2>6, <2>7, <2>8 DEF Sound, Kept
  <2> QED
    BY <1>2, <2>2, <2>3, <2>5, <2>9
<1> QED
  BY <1>1, <1>2

\* on_disconnect at the head.
LEMMA DisconnectFields ==
  ASSUME NEW r \in Channel, NEW s, s = Disconnect(r), Sound(r), r.life \in {"active", "inactive"}, r.asked > 0
  PROVE  /\ s \in Channel /\ Kept(r, s) /\ Sound(s) /\ s.inClosed /\ s.outClosed
         /\ s.inactives = IF r.inClosed /\ r.outClosed THEN r.inactives ELSE r.inactives + 1
<1> DEFINE q == ShutdownOutput(r)
<1>1. s = ShutdownInput(q)
  BY DEF Disconnect
<1>2. /\ q \in Channel /\ Kept(r, q) /\ Sound(q) /\ q.outClosed
      /\ q.inClosed = r.inClosed /\ q.readInterest = r.readInterest
      /\ q.inactives = IF ~r.outClosed /\ r.inClosed THEN r.inactives + 1 ELSE r.inactives
  BY OutputFields
<1> HIDE DEF q
<1>3. q.life \in {"active", "inactive"}
  BY <1>2 DEF Kept
<1>4. /\ s \in Channel /\ Kept(q, s) /\ Sound(s) /\ s.inClosed
      /\ s.outClosed = q.outClosed /\ s.writeInterest = q.writeInterest
      /\ s.inactives = IF ~q.inClosed /\ q.outClosed THEN q.inactives + 1 ELSE q.inactives
  BY <1>2, <1>3, <1>1, InputFields
<1>5. Kept(r, s)
  BY <1>2, <1>4 DEF Kept
<1> QED
  BY <1>2, <1>4, <1>5

\* What the send loop may come to.
LEMMA SendFacts ==
  ASSUME NEW d \in Nat, NEW room, NEW broken \in BOOLEAN, NEW resets \in BOOLEAN,
         NEW o \in SendOutcomes(d, room, broken, resets)
  PROVE  /\ o.n \in Nat /\ o.n <= d /\ o.more \in BOOLEAN /\ o.failed \in BOOLEAN
         /\ o.failed => (broken \/ resets) /\ ~o.more
         /\ broken => o.n = 0 /\ (d > 0 => o.failed)
         /\ ~o.failed /\ ~o.more => o.n = d
         /\ d = 0 => ~o.failed /\ ~o.more
<1>1. CASE d = 0
  <2>1. o = [n |-> 0, more |-> FALSE, failed |-> FALSE]
    BY <1>1 DEF SendOutcomes
  <2>2. o.n = 0 /\ ~o.more /\ ~o.failed /\ o.more \in BOOLEAN /\ o.failed \in BOOLEAN
    BY <2>1
  <2>3. ~(d > 0)
    BY <1>1
  <2> QED
    BY <1>1, <2>2, <2>3
<1>2. CASE d # 0 /\ broken
  <2>1. o = [n |-> 0, more |-> FALSE, failed |-> TRUE]
    BY <1>2 DEF SendOutcomes
  <2>2. o.n = 0 /\ ~o.more /\ o.failed /\ o.more \in BOOLEAN /\ o.failed \in BOOLEAN
    BY <2>1
  <2> QED
    BY <1>2, <2>2
<1>3. CASE d # 0 /\ ~broken
  BY <1>3 DEF SendOutcomes
<1> QED
  BY <1>1, <1>2, <1>3

\* What begin_write leaves alone.
WriteKept(r, s) ==
  /\ s.kind = r.kind /\ s.life = r.life /\ s.finished = r.finished
  /\ s.inClosed = r.inClosed /\ s.asked = r.asked /\ s.written = r.written

\* begin_write: what was sent leaves the buffer; what stays is watched, unless the send
\* failed; and the output closes only of a channel that is finished, which does not
\* happen while bytes are left.
LEMMA WriteFields ==
  ASSUME NEW r \in Channel, Sound(r), r.life \in {"active", "inactive"},
         NEW room, NEW broken \in BOOLEAN, NEW resets \in BOOLEAN,
         NEW o \in SendOutcomes(r.flushed, room, broken, resets), NEW s, s = BeginWrite(r, o),
         r.finished /\ r.flushed > 0 => r.writeInterest \/ r.outClosed \/ broken
  PROVE  /\ s \in Channel /\ Sound(s) /\ WriteKept(r, s)
         /\ s.sent = r.sent + o.n
         /\ r.outClosed => s.outClosed
         /\ s.outClosed /\ ~r.outClosed => r.finished /\ ~o.failed
         /\ s.inactives = IF ~r.outClosed /\ s.outClosed /\ r.inClosed THEN r.inactives + 1 ELSE r.inactives
         /\ ~o.failed /\ s.flushed > 0 => s.writeInterest \/ s.outClosed
<1>0. r.flushed \in Nat /\ r.sent \in Nat
  BY DEF Channel
<1>1. /\ o.n \in Nat /\ o.n <= r.flushed /\ o.more \in BOOLEAN /\ o.failed \in BOOLEAN
      /\ broken => o.n = 0 /\ (r.flushed > 0 => o.failed)
      /\ ~o.failed /\ ~o.more => o.n = r.flushed
      /\ r.flushed = 0 => ~o.failed /\ ~o.more
  BY <1>0, SendFacts
<1> DEFINE k == r.flushed - o.n
           m == r.sent + o.n
           q == [r EXCEPT !.flushed = k, !.sent = m]
<1>2. /\ q \in Channel /\ WriteKept(r, q)
      /\ q.flushed = r.flushed - o.n /\ q.sent = r.sent + o.n
      /\ q.member = r.member /\ q.watched = r.watched /\ q.outClosed = r.outClosed
      /\ q.readInterest = r.readInterest /\ q.writeInterest = r.writeInterest
      /\ q.cut = r.cut /\ q.inactives = r.inactives
  <2>1. k \in Nat /\ m \in Nat
    BY <1>0, <1>1
  <2> HIDE DEF k, m
  <2>2. q \in Channel
    BY <2>1 DEF Channel
  <2>3. /\ q.flushed = k /\ q.sent = m /\ WriteKept(r, q)
        /\ q.member = r.member /\ q.watched = r.watched /\ q.outClosed = r.outClosed
        /\ q.readInterest = r.readInterest /\ q.writeInterest = r.writeInterest
        /\ q.cut = r.cut /\ q.inactives = r.inactives
    BY DEF Channel, WriteKept
  <2> QED
    BY <2>2, <2>3 DEF k, m
<1>3. s = IF o.failed THEN [q EXCEPT !.failed = TRUE]
          ELSE IF r.finished /\ ~r.writeInterest
          THEN ShutdownOutput([q EXCEPT !.cut = @ \/ (q.flushed > 0 /\ ~q.outClosed)])
          ELSE Watch([q EXCEPT !.writeInterest = o.more])
  BY DEF BeginWrite, ClosesOutput, InterestAfter, Left
<1> HIDE DEF q
<1>4. Sound(q)
  BY <1>2, InterestSame DEF Sound, WriteKept
<1>5. CASE o.failed
  <2>0. s = [q EXCEPT !.failed = TRUE]
    BY <1>3, <1>5
  <2>1. /\ s \in Channel /\ WriteKept(q, s) /\ s.sent = q.sent
        /\ s.member = q.member /\ s.watched = q.watched /\ s.outClosed = q.outClosed
        /\ s.readInterest = q.readInterest /\ s.writeInterest = q.writeInterest
        /\ s.cut = q.cut /\ s.inactives = q.inactives
    BY <1>2, <2>0 DEF Channel, WriteKept
  <2>2. Sound(s)
    BY <1>4, <2>1, InterestSame DEF Sound, WriteKept
  <2>3. WriteKept(r, s)
    BY <1>2, <2>1 DEF WriteKept
  <2> QED
    BY <1>2, <1>5, <2>1, <2>2, <2>3
<1>6. CASE ~o.failed /\ r.finished /\ ~r.writeInterest
  <2>1. ~(q.flushed > 0 /\ ~q.outClosed)
    BY <1>0, <1>1, <1>2, <1>6
  <2>2. q.cut = FALSE
    BY <1>4, <1>2 DEF Sound, Channel
  <2> DEFINE t == [q EXCEPT !.cut = @ \/ (q.flushed > 0 /\ ~q.outClosed)]
  <2>3. t = [q EXCEPT !.cut = FALSE]
    BY <2>1, <2>2
  <2> HIDE DEF t
  <2>4. t = q
    BY <1>2, <2>2, <2>3 DEF Channel
  <2>5. s = ShutdownOutput(q)
    BY <1>3, <1>6, <2>4 DEF t
  <2>6. q.finished /\ q.life \in {"active", "inactive"}
    BY <1>2, <1>6 DEF WriteKept
  <2>7. /\ s \in Channel /\ Kept(q, s) /\ Sound(s) /\ s.outClosed
        /\ s.inClosed = q.inClosed
        /\ s.inactives = IF ~q.outClosed /\ q.inClosed THEN q.inactives + 1 ELSE q.inactives
    BY <1>2, <1>4, <2>5, <2>6, OutputFields
  <2>8. WriteKept(r, s) /\ s.sent = q.sent
    BY <1>2, <2>7 DEF WriteKept, Kept
  <2>9. s.inactives = IF ~r.outClosed /\ r.inClosed THEN r.inactives + 1 ELSE r.inactives
    BY <1>2, <2>7 DEF WriteKept
  <2>10. s.sent = r.sent + o.n
    BY <1>2, <2>8
  <2> QED
    BY <1>6, <2>7, <2>8, <2>9, <2>10
<1>7. CASE ~o.failed /\ ~(r.finished /\ ~r.writeInterest)
  <2> DEFINE t == [q EXCEPT !.writeInterest = o.more]
  <2>1. /\ t \in Channel /\ WriteKept(q, t) /\ t.sent = q.sent /\ t.flushed = q.flushed
        /\ t.member = q.member /\ t.watched = q.watched /\ t.outClosed = q.outClosed
        /\ t.writeInterest = o.more /\ t.cut = q.cut /\ t.inactives = q.inactives
    BY <1>1, <1>2 DEF Channel, WriteKept
  <2>2. s = Watch(t)
    BY <1>3, <1>7
  <2> HIDE DEF t
  <2>3. /\ s \in Channel /\ Kept(t, s)
        /\ s.inClosed = t.inClosed /\ s.outClosed = t.outClosed
        /\ s.readInterest = t.readInterest /\ s.writeInterest = t.writeInterest
        /\ s.member = t.member /\ s.inactives = t.inactives
        /\ s.watched = IF t.member THEN Interest(t) ELSE t.watched
    BY <2>1, <2>2, WatchFields
  <2>4. s.watched = IF s.member THEN Interest(s) ELSE {}
    BY <1>4, <2>1, <2>3, InterestSame DEF Sound
  <2>5. WriteKept(r, s) /\ s.sent = q.sent /\ s.flushed = q.flushed /\ s.cut = q.cut
    BY <1>2, <2>1, <2>3 DEF WriteKept, Kept
  <2>6. Sound(s)
    BY <1>2, <1>4, <2>1, <2>3, <2>4, <2>5 DEF Sound, WriteKept
  <2>7. s.flushed > 0 => s.writeInterest
    BY <1>0, <1>1, <1>2, <1>7, <2>1, <2>3, <2>5
  <2>8. s.outClosed = r.outClosed /\ s.inactives = r.inactives /\ s.sent = r.sent + o.n
    BY <1>2, <2>1, <2>3, <2>5
  <2> QED
    BY <1>7, <2>3, <2>5, <2>6, <2>7, <2>8
<1> QED
  BY <1>5, <1>6, <1>7

\* What the handlers' layers change without closing or sending anything.
Quiet(r, s) ==
  /\ s.kind = r.kind /\ s.life = r.life /\ s.inClosed = r.inClosed /\ s.outClosed = r.outClosed
  /\ s.inactives = r.inactives /\ s.sent = r.sent /\ s.flushed = r.flushed
  /\ s.writeInterest = r.writeInterest
  /\ r.finished => s.finished
  /\ s.asked >= r.asked

\* write, finish, and a disconnect that is asked for.
LEMMA QuietFields ==
  ASSUME NEW r \in Channel, Sound(r),
         NEW s, s = r \/ s = Write(r) \/ s = Finish(r) \/ s = [r EXCEPT !.asked = @ + 1]
  PROVE  s \in Channel /\ Sound(s) /\ Quiet(r, s)
<1>0. r.written \in Nat /\ r.asked \in Nat
  BY DEF Channel
<1>1. /\ s \in Channel /\ Quiet(r, s)
      /\ s.member = r.member /\ s.watched = r.watched /\ s.readInterest = r.readInterest
      /\ s.cut = r.cut
  <2>1. CASE s = r
    BY <1>0, <2>1 DEF Quiet
  <2>2. CASE s = Write(r)
    BY <1>0, <2>2 DEF Write, Channel, Quiet
  <2>3. CASE s = Finish(r)
    <3>1. s = [r EXCEPT !.finished = TRUE]
      BY <2>3 DEF Finish
    <3>2. s \in Channel
      BY <3>1 DEF Channel
    <3>3. s.asked = r.asked /\ s.finished
      BY <3>1 DEF Channel
    <3>4. s.asked >= r.asked
      BY <1>0, <3>3
    <3> QED
      BY <3>1, <3>2, <3>3, <3>4 DEF Channel, Quiet
  <2>4. CASE s = [r EXCEPT !.asked = @ + 1]
    BY <1>0, <2>4 DEF Channel, Quiet
  <2> QED
    BY <2>1, <2>2, <2>3, <2>4
<1>2. Interest(s) = Interest(r)
  BY <1>1, InterestSame DEF Quiet
<1>3. s.outClosed /\ ~s.finished => s.asked > 0
  <2>1. s.asked \in Nat
    BY <1>1 DEF Channel
  <2> QED
    BY <1>0, <1>1, <2>1 DEF Sound, Quiet
<1>4. Sound(s)
  BY <1>1, <1>2, <1>3 DEF Sound, Quiet
<1> QED
  BY <1>1, <1>4

\* flush, before begin_write.
LEMMA GatherFields ==
  ASSUME NEW r \in Channel, Sound(r), NEW s, s = Gather(r)
  PROVE  /\ s \in Channel /\ Sound(s) /\ s.flushed = r.flushed + r.written
         /\ s.kind = r.kind /\ s.life = r.life /\ s.inClosed = r.inClosed /\ s.outClosed = r.outClosed
         /\ s.inactives = r.inactives /\ s.sent = r.sent /\ s.finished = r.finished
         /\ s.asked = r.asked /\ s.writeInterest = r.writeInterest
<1> DEFINE k == r.flushed + r.written
<1>1. k \in Nat
  BY DEF Channel
<1>2. s = [r EXCEPT !.flushed = k, !.written = 0]
  BY DEF Gather
<1> HIDE DEF k
<1>3. s \in Channel
  <2>1. [r EXCEPT !.flushed = k, !.written = 0] \in Channel
    BY <1>1 DEF Channel
  <2> QED
    BY <1>2, <2>1
<1>4. /\ s.flushed = k
      /\ s.kind = r.kind /\ s.life = r.life /\ s.inClosed = r.inClosed /\ s.outClosed = r.outClosed
      /\ s.inactives = r.inactives /\ s.sent = r.sent /\ s.finished = r.finished
      /\ s.asked = r.asked /\ s.writeInterest = r.writeInterest
      /\ s.member = r.member /\ s.watched = r.watched /\ s.readInterest = r.readInterest
      /\ s.cut = r.cut
  BY <1>1, <1>2 DEF Channel
<1>5. Sound(s)
  BY <1>4, InterestSame DEF Sound
<1> QED
  BY <1>3, <1>4, <1>5 DEF k

\* loop_register, and add_channel when it comes to that.
LEMMA RegisterFields ==
  ASSUME NEW r \in Channel, Sound(r), r.life \in {"new", "posted"},
         NEW s, s = Register(r) \/ s = Register(Interested(r))
  PROVE  /\ s \in Channel /\ Sound(s) /\ s.life = "active" /\ s.member
         /\ s.kind = r.kind /\ s.inClosed = r.inClosed /\ s.outClosed = r.outClosed
         /\ s.inactives = r.inactives /\ s.sent = r.sent /\ s.finished = r.finished
         /\ s.flushed = r.flushed /\ s.asked = r.asked
         /\ r.writeInterest => s.writeInterest
<1> DEFINE q == Interested(r)
<1>1. PICK t : t \in {r, q} /\ s = Register(t)
  OBVIOUS
<1>2. /\ t \in Channel /\ t.kind = r.kind /\ t.inClosed = r.inClosed /\ t.outClosed = r.outClosed
      /\ t.inactives = r.inactives /\ t.sent = r.sent /\ t.finished = r.finished
      /\ t.flushed = r.flushed /\ t.asked = r.asked /\ t.cut = r.cut
      /\ r.writeInterest => t.writeInterest
  BY <1>1 DEF Interested, Channel
<1> DEFINE x == Interest(t)
<1>3. x \subseteq Calls
  BY InterestType
<1>4. s = [t EXCEPT !.life = "active", !.member = TRUE, !.watched = x]
  BY <1>1 DEF Register
<1> HIDE DEF x
<1>5. /\ s \in Channel /\ s.life = "active" /\ s.member = TRUE /\ s.watched = x
      /\ s.kind = t.kind /\ s.inClosed = t.inClosed /\ s.outClosed = t.outClosed
      /\ s.inactives = t.inactives /\ s.sent = t.sent /\ s.finished = t.finished
      /\ s.flushed = t.flushed /\ s.asked = t.asked /\ s.cut = t.cut
      /\ s.writeInterest = t.writeInterest /\ s.readInterest = t.readInterest
  BY <1>2, <1>3, <1>4 DEF Channel
<1>6. s.watched = Interest(s)
  BY <1>5, InterestSame DEF x
<1>7. ~r.inClosed /\ ~r.outClosed /\ ~r.cut
  BY DEF Sound
<1>8. Sound(s)
  BY <1>2, <1>5, <1>6, <1>7 DEF Sound
<1> QED
  BY <1>2, <1>5, <1>8

\* loop_register from another thread.
LEMMA PostedFields ==
  ASSUME NEW r \in Channel, Sound(r), r.life = "new",
         NEW s, s = [Interested(r) EXCEPT !.life = "posted"]
  PROVE  /\ s \in Channel /\ Sound(s) /\ s.life = "posted"
         /\ s.kind = r.kind /\ s.inClosed = r.inClosed /\ s.outClosed = r.outClosed
         /\ s.inactives = r.inactives /\ s.sent = r.sent /\ s.finished = r.finished
         /\ s.flushed = r.flushed /\ s.asked = r.asked /\ s.writeInterest
<1>1. /\ s \in Channel /\ s.life = "posted" /\ s.member = r.member /\ s.watched = r.watched
      /\ s.kind = r.kind /\ s.inClosed = r.inClosed /\ s.outClosed = r.outClosed
      /\ s.inactives = r.inactives /\ s.sent = r.sent /\ s.finished = r.finished
      /\ s.flushed = r.flushed /\ s.asked = r.asked /\ s.cut = r.cut /\ s.writeInterest
  BY DEF Interested, Channel
<1>2. Sound(s)
  BY <1>1 DEF Sound, Channel
<1> QED
  BY <1>1, <1>2

\* on_inactive.
LEMMA InactiveFields ==
  ASSUME NEW r \in Channel, Sound(r), r.inClosed, r.outClosed, NEW s, s = [r EXCEPT !.life = "inactive"]
  PROVE  /\ s \in Channel /\ Sound(s) /\ s.life = "inactive"
         /\ s.kind = r.kind /\ s.inClosed = r.inClosed /\ s.outClosed = r.outClosed
         /\ s.inactives = r.inactives /\ s.sent = r.sent /\ s.finished = r.finished
         /\ s.flushed = r.flushed /\ s.asked = r.asked /\ s.writeInterest = r.writeInterest
<1>1. /\ s \in Channel /\ s.life = "inactive" /\ s.member = r.member /\ s.watched = r.watched
      /\ s.kind = r.kind /\ s.inClosed = r.inClosed /\ s.outClosed = r.outClosed
      /\ s.inactives = r.inactives /\ s.sent = r.sent /\ s.finished = r.finished
      /\ s.flushed = r.flushed /\ s.asked = r.asked /\ s.cut = r.cut
      /\ s.writeInterest = r.writeInterest /\ s.readInterest = r.readInterest
  BY DEF Channel
<1>2. Sound(s)
  BY <1>1, InterestSame DEF Sound
<1> QED
  BY <1>1, <1>2

-----------------------------------------------------------------------------
(* Tasks. *)

\* What is left of a list of tasks when its first is run.
LEMMA TailOrder ==
  ASSUME NEW q \in Seq(Task), q # <<>>, InOrder(q)
  PROVE  /\ Tail(q) \in Seq(Task) /\ InOrder(Tail(q))
         /\ Head(q) \in ToSet(q) /\ Head(q) \in Task /\ ToSet(Tail(q)) \subseteq ToSet(q)
         /\ \A u \in ToSet(Tail(q)) : Ordered(Head(q), u)
<1> DEFINE p == Tail(q)
<1>1. /\ p \in Seq(Task) /\ Len(p) = Len(q) - 1 /\ Head(q) \in Task
      /\ \A i \in 1 .. Len(p) : p[i] = q[i + 1]
  BY HeadTailProperties
<1>2. DOMAIN q = 1 .. Len(q) /\ DOMAIN p = 1 .. Len(p) /\ Len(q) \in Nat \ {0}
  BY <1>1, LenProperties, EmptySeq
<1>3. Head(q) = q[1] /\ 1 \in DOMAIN q
  BY <1>2
<1> HIDE DEF p
<1>4. \A i \in DOMAIN p : i + 1 \in DOMAIN q /\ 1 < i + 1 /\ p[i] = q[i + 1]
  BY <1>1, <1>2
<1>5. \A i, j \in DOMAIN p : i < j => i + 1 < j + 1
  BY <1>2
<1>6. InOrder(p)
  BY <1>4, <1>5 DEF InOrder
<1>7. \A i \in DOMAIN p : p[i] \in ToSet(q) /\ Ordered(Head(q), p[i])
  BY <1>3, <1>4 DEF InOrder, ToSet
<1>8. ToSet(p) \subseteq ToSet(q) /\ \A u \in ToSet(p) : Ordered(Head(q), u)
  BY <1>7 DEF ToSet
<1>9. Head(q) \in ToSet(q)
  BY <1>3 DEF ToSet
<1> QED
  BY <1>1, <1>6, <1>8, <1>9 DEF p

\* A task put last.
LEMMA LastOrder ==
  ASSUME NEW p \in Seq(Task), NEW t \in Task, InOrder(p), \A u \in ToSet(p) : Ordered(u, t)
  PROVE  /\ p \o <<t>> \in Seq(Task) /\ InOrder(p \o <<t>>)
         /\ ToSet(p \o <<t>>) = ToSet(p) \cup {t}
<1> DEFINE q == p \o <<t>>
<1>1. <<t>> \in Seq(Task) /\ Len(<<t>>) = 1 /\ <<t>>[1] = t
  OBVIOUS
<1>2. /\ q \in Seq(Task) /\ Len(q) = Len(p) + 1
      /\ \A i \in 1 .. Len(p) + 1 : q[i] = IF i <= Len(p) THEN p[i] ELSE <<t>>[i - Len(p)]
  BY <1>1, ConcatProperties
<1>3. DOMAIN p = 1 .. Len(p) /\ Len(p) \in Nat /\ DOMAIN q = 1 .. Len(p) + 1
  BY <1>2, LenProperties
<1>4. (\A i \in DOMAIN p : i \in DOMAIN q /\ q[i] = p[i]) /\ q[Len(p) + 1] = t /\ Len(p) + 1 \in DOMAIN q
  BY <1>1, <1>2, <1>3
<1>5. \A i \in DOMAIN q : i \in DOMAIN p \/ i = Len(p) + 1
  BY <1>3
<1>6. \A i, j \in DOMAIN q : i < j => i \in DOMAIN p
  BY <1>3
<1> HIDE DEF q
<1>7. ToSet(q) = ToSet(p) \cup {t}
  BY <1>4, <1>5 DEF ToSet
<1>8. \A i \in DOMAIN p : p[i] \in ToSet(p)
  BY DEF ToSet
<1>9. InOrder(q)
  <2>1. ASSUME NEW i \in DOMAIN q, NEW j \in DOMAIN q, i < j PROVE Ordered(q[i], q[j])
    <3>1. i \in DOMAIN p /\ q[i] = p[i]
      BY <1>4, <1>6, <2>1
    <3>2. CASE j \in DOMAIN p
      BY <1>4, <2>1, <3>1, <3>2 DEF InOrder
    <3>3. CASE j = Len(p) + 1
      BY <1>4, <1>8, <3>1, <3>3
    <3> QED
      BY <1>5, <3>2, <3>3
  <2> QED
    BY <2>1 DEF InOrder
<1> QED
  BY <1>2, <1>7, <1>9 DEF q

\* The queue when a task is offered, and one is run or not.
LEMMA QueueMoves ==
  ASSUME tasks \in Seq(Task), running \in Seq(Task), NEW t \in Task,
         tasks' = tasks \/ tasks' = tasks \o <<t>>
  PROVE  /\ Queue \in Seq(Task) /\ tasks' \in Seq(Task)
         /\ running' = running =>
              Queue' = IF tasks' = tasks THEN Queue ELSE Queue \o <<t>>
         /\ running # <<>> /\ running' = Tail(running) =>
              /\ running' \in Seq(Task) /\ Queue # <<>> /\ Head(Queue) = Head(running)
              /\ Queue' = IF tasks' = tasks THEN Tail(Queue) ELSE Tail(Queue) \o <<t>>
<1> DEFINE q == <<t>>
<1>1. q \in Seq(Task)
  OBVIOUS
<1> HIDE DEF q
<1>2. Queue \in Seq(Task) /\ tasks \o q \in Seq(Task) /\ tasks' \in Seq(Task)
  BY <1>1, ConcatProperties DEF Queue, q
<1>3. running \o (tasks \o q) = Queue \o q
  BY <1>1, ConcatAssociative DEF Queue
<1>4. ASSUME running # <<>>
      PROVE  /\ Tail(running) \in Seq(Task) /\ Queue # <<>> /\ Head(Queue) = Head(running)
             /\ Tail(running) \o tasks = Tail(Queue)
             /\ Tail(running) \o (tasks \o q) = Tail(Queue) \o q
  <2> DEFINE a == Tail(running)
             b == Tail(Queue)
  <2>1. /\ a \in Seq(Task) /\ Len(a) = Len(running) - 1
        /\ \A i \in 1 .. Len(a) : a[i] = running[i + 1]
    BY <1>4, HeadTailProperties
  <2>2. Len(running) \in Nat \ {0} /\ Len(tasks) \in Nat
    BY <1>4, EmptySeq, LenProperties
  <2>3. /\ Len(Queue) = Len(running) + Len(tasks)
        /\ \A i \in 1 .. Len(running) + Len(tasks) :
             Queue[i] = IF i <= Len(running) THEN running[i] ELSE tasks[i - Len(running)]
    BY ConcatProperties DEF Queue
  <2>4. Queue # <<>> /\ Head(Queue) = Queue[1] /\ Head(running) = running[1]
    BY <1>2, <2>2, <2>3, EmptySeq
  <2>5. /\ b \in Seq(Task) /\ Len(b) = Len(Queue) - 1
        /\ \A i \in 1 .. Len(b) : b[i] = Queue[i + 1]
    BY <1>2, <2>4, HeadTailProperties
  <2> HIDE DEF a, b
  <2>6. /\ a \o tasks \in Seq(Task) /\ Len(a \o tasks) = Len(a) + Len(tasks)
        /\ \A i \in 1 .. Len(a) + Len(tasks) :
             (a \o tasks)[i] = IF i <= Len(a) THEN a[i] ELSE tasks[i - Len(a)]
    BY <2>1, ConcatProperties
  <2> DEFINE u == a \o tasks
             n == Len(running)
             m == Len(tasks)
  <2> HIDE DEF u, n, m
  <2>7. ASSUME NEW i \in 1 .. (n - 1) + m PROVE u[i] = b[i]
    <3>1. i + 1 \in 1 .. n + m /\ i \in 1 .. (n + m) - 1
      BY <2>2, <2>7 DEF n, m
    <3>2. b[i] = IF i + 1 <= n THEN running[i + 1] ELSE tasks[(i + 1) - n]
      BY <2>3, <2>5, <3>1 DEF n, m
    <3>3. u[i] = IF i <= n - 1 THEN a[i] ELSE tasks[i - (n - 1)]
      BY <2>1, <2>6, <2>7 DEF u, n, m
    <3>4. i <= n - 1 => a[i] = running[i + 1]
      BY <2>1, <2>2, <2>7 DEF n, m
    <3>5. (i <= n - 1 <=> i + 1 <= n) /\ (i + 1) - n = i - (n - 1)
      BY <2>2, <2>7 DEF n, m
    <3> QED
      BY <3>2, <3>3, <3>4, <3>5
  <2>8. Len(u) = (n - 1) + m /\ Len(b) = (n - 1) + m
    BY <2>1, <2>2, <2>3, <2>5, <2>6 DEF u, n, m
  <2>9. u = b
    BY <2>5, <2>6, <2>7, <2>8, SeqEqual DEF u
  <2>10. a \o (tasks \o q) = u \o q
    BY <1>1, <2>1, ConcatAssociative DEF u
  <2>11. Tail(running) \o tasks = Tail(Queue)
    BY <2>9 DEF a, b, u
  <2>12. Tail(running) \o (tasks \o q) = Tail(Queue) \o q
    <3>1. a \o (tasks \o q) = b \o q
      BY <2>9, <2>10
    <3> QED
      BY <3>1 DEF a, b
  <2>13. Tail(running) \in Seq(Task)
    BY <2>1 DEF a
  <2>14. Queue[1] = running[1]
    BY <2>2, <2>3
  <2> QED
    BY <2>4, <2>11, <2>12, <2>13, <2>14
<1> QED
  BY <1>2, <1>3, <1>4 DEF Queue, q

\* The queue keeps its invariant when what is left of it still fits its channels, and so
\* does the task that is offered.
LEMMA QueueKept ==
  ASSUME NEW P \in Seq(Task), InOrder(P), \A u \in ToSet(P) : Timely(u, chan'[u.ch]),
         NEW t \in Task, Queue' = P \/ (Queue' = P \o <<t>> /\ Timely(t, chan'[t.ch])
                                                      /\ \A u \in ToSet(P) : Ordered(u, t))
  PROVE  QueueInv'
<1>1. CASE Queue' = P
  BY <1>1 DEF QueueInv
<1>2. CASE /\ Queue' = P \o <<t>> /\ Timely(t, chan'[t.ch])
           /\ \A u \in ToSet(P) : Ordered(u, t)
  <2>1. InOrder(P \o <<t>>) /\ ToSet(P \o <<t>>) = ToSet(P) \cup {t}
    BY <1>2, LastOrder
  <2> QED
    BY <1>2, <2>1 DEF QueueInv
<1> QED
  BY <1>1, <1>2

\* The tasks of an executor are tasks.
LEMMA NewTaskType ==
  ASSUME TypeOK, NEW op \in Ops, NEW c \in Chans, NEW left \in Nat
  PROVE  /\ NewTask(op, c, left) \in Task /\ NewTask(op, c, left).op = op
         /\ NewTask(op, c, left).ch = c /\ NewTask(op, c, left).left = left
         /\ NewTask(op, c, left).early = (chan[c].asked = 0)
BY DEF NewTask, Task

\* One channel changes, and offers one task at most.
LEMMA BecomeMoves ==
  ASSUME TypeOK, NEW c \in Chans, NEW s \in Channel, NEW q, q = <<>> \/ q \in {<<t>> : t \in Task},
         Become(c, s, q)
  PROVE  /\ chan' \in [Chans -> Channel] /\ chan'[c] = s
         /\ \A d \in Chans \ {c} : chan'[d] = chan[d]
         /\ s.inactives = chan[c].inactives =>
              tasks' = IF closed THEN tasks ELSE tasks \o q
         /\ q = <<>> /\ s.inactives = chan[c].inactives =>  tasks' = tasks
         /\ q = <<>> /\ s.inactives = chan[c].inactives + 1 =>
              tasks' = IF closed THEN tasks ELSE tasks \o <<NewTask("inactive", c, Hops)>>
<1>0. q \in Seq(Task) /\ tasks \in Seq(Task) /\ chan[c].inactives \in Nat /\ s.inactives \in Nat
  <2>1. chan[c] \in Channel /\ tasks \in Seq(Task)
    BY DEF TypeOK
  <2>2. \A r \in Channel : r.inactives \in Nat
    BY DEF Channel
  <2>3. q \in Seq(Task)
    <3>1. CASE q = <<>>
      BY <3>1
    <3>2. CASE q \in {<<t>> : t \in Task}
      <4>1. PICK t \in Task : q = <<t>>
        BY <3>2
      <4> QED
        BY <4>1
    <3> QED
      BY <3>1, <3>2
  <2> QED
    BY <2>1, <2>2, <2>3
<1>1. /\ chan' \in [Chans -> Channel] /\ chan'[c] = s
      /\ \A d \in Chans \ {c} : chan'[d] = chan[d]
  BY DEF Become, TypeOK
<1> DEFINE t == NewTask("inactive", c, Hops)
           i == InactiveTasks(c, s)
<1>2. tasks' = IF closed THEN tasks ELSE tasks \o (i \o q)
  BY DEF Become, Offer
<1>3. t \in Task
  BY NewTaskType, ChannelAssumption DEF Ops
<1>4. ASSUME s.inactives = chan[c].inactives PROVE i = <<>>
  <2>1. 1 .. (s.inactives - chan[c].inactives) = {}
    BY <1>0, <1>4
  <2> QED
    BY <2>1 DEF InactiveTasks
<1>5. ASSUME s.inactives = chan[c].inactives + 1 PROVE i = <<t>>
  <2>1. s.inactives - chan[c].inactives = 1
    BY <1>0, <1>5
  <2>2. i = [j \in 1 .. 1 |-> t]
    BY <2>1 DEF InactiveTasks
  <2> HIDE DEF t, i
  <2>3. i = <<t>>
    BY <2>2
  <2> QED
    BY <2>3
<1>6. ASSUME s.inactives = chan[c].inactives PROVE i \o q = q
  BY <1>0, <1>4, <1>6, ConcatEmptySeq
<1>7. ASSUME s.inactives = chan[c].inactives + 1, q = <<>> PROVE i \o q = <<t>>
  <2> HIDE DEF t, i
  <2>1. <<t>> \in Seq(Task)
    BY <1>3
  <2> QED
    BY <1>5, <1>7, <2>1, ConcatEmptySeq
<1>8. tasks \o <<>> = tasks
  BY <1>0, ConcatEmptySeq
<1> HIDE DEF t, i
<1> QED
  BY <1>1, <1>2, <1>6, <1>7, <1>8 DEF t

\* The channels other than c stay as they are.
Others(c) == \A d \in Chans \ {c} : chan'[d] = chan[d]

\* A channel changes, perhaps with its socket, and perhaps as the first of the running
\* tasks is taken: the invariants of the channels and of the queue hold if the channel is
\* sound, the tasks that still wait fit it, and so does the one that is offered.
LEMMA BecomeKeeps ==
  ASSUME Inv, NEW c \in Chans, NEW s \in Channel, Sound(s), Drains(s, sock'[c]),
         \A d \in Chans \ {c} : sock'[d] = sock[d],
         NEW t \in Task, t.ch = c, NEW q \in {<<>>, <<t>>}, Become(c, s, q),
         q = <<t>> => Timely(t, s) /\ \A u \in ToSet(Queue) : Ordered(u, t),
         \/ s.inactives = chan[c].inactives
         \/ /\ s.inactives = chan[c].inactives + 1 /\ q = <<>>
            /\ s.life = "active" /\ s.inClosed /\ s.outClosed,
         \/ /\ running' = running
            /\ \A u \in ToSet(Queue) : u.ch = c => Timely(u, s)
         \/ /\ running # <<>> /\ running' = Tail(running)
            /\ \A u \in ToSet(Queue) : u.ch = c /\ Ordered(Head(running), u) => Timely(u, s)
  PROVE  /\ chan' \in [Chans -> Channel] /\ chan'[c] = s /\ Others(c)
         /\ tasks' \in Seq(Task) /\ running' \in Seq(Task)
         /\ ChanInv' /\ QueueInv'
<1> DEFINE i == NewTask("inactive", c, Hops)
<1>1. TypeOK /\ ChanInv /\ QueueInv
  BY DEF Inv
<1>2. i \in Task /\ i.op = "inactive" /\ i.ch = c /\ i.left = Hops /\ Hops > 0
  BY <1>1, NewTaskType, ChannelAssumption DEF Ops
<1>3. /\ chan' \in [Chans -> Channel] /\ chan'[c] = s /\ Others(c)
      /\ s.inactives = chan[c].inactives =>
           tasks' = IF closed THEN tasks ELSE tasks \o q
      /\ q = <<>> /\ s.inactives = chan[c].inactives =>  tasks' = tasks
      /\ q = <<>> /\ s.inactives = chan[c].inactives + 1 =>
           tasks' = IF closed THEN tasks ELSE tasks \o <<i>>
  <2>1. q = <<>> \/ q \in {<<x>> : x \in Task}
    OBVIOUS
  <2> QED
    BY <1>1, <2>1, BecomeMoves DEF Others
<1> HIDE DEF i
<1>4. ChanInv'
  BY <1>1, <1>3 DEF ChanInv, Others
<1>5. PICK v \in Task :
         /\ tasks' = tasks \/ tasks' = tasks \o <<v>>
         /\ tasks' # tasks => /\ Timely(v, chan'[v.ch])
                              /\ \A u \in ToSet(Queue) : Ordered(u, v)
  <2>1. CASE q = <<t>>
    <3>1. Timely(t, chan'[t.ch]) /\ \A u \in ToSet(Queue) : Ordered(u, t)
      BY <1>3, <2>1
    <3>2. tasks' = tasks \/ tasks' = tasks \o <<t>>
      BY <1>3, <2>1
    <3> QED
      BY <3>1, <3>2
  <2>2. CASE q = <<>> /\ s.inactives = chan[c].inactives
    BY <1>3, <2>2
  <2>3. CASE q = <<>> /\ s.inactives # chan[c].inactives
    <3>1. /\ s.inactives = chan[c].inactives + 1
          /\ s.life = "active" /\ s.inClosed /\ s.outClosed
      BY <2>3
    <3>2. Timely(i, chan'[i.ch])
      BY <1>2, <1>3, <3>1 DEF Timely, DataOps
    <3>3. \A u \in ToSet(Queue) : Ordered(u, i)
      BY <1>2 DEF Ordered, DataOps
    <3>4. tasks' = tasks \/ tasks' = tasks \o <<i>>
      BY <1>3, <2>3, <3>1
    <3> QED
      BY <1>2, <3>2, <3>3, <3>4
  <2> QED
    BY <2>1, <2>2, <2>3
<1>6. tasks \in Seq(Task) /\ running \in Seq(Task)
  BY <1>1 DEF TypeOK
<1>7. /\ Queue \in Seq(Task) /\ tasks' \in Seq(Task)
      /\ running' = running =>
           Queue' = IF tasks' = tasks THEN Queue ELSE Queue \o <<v>>
      /\ running # <<>> /\ running' = Tail(running) =>
           /\ running' \in Seq(Task) /\ Queue # <<>> /\ Head(Queue) = Head(running)
           /\ Queue' = IF tasks' = tasks THEN Tail(Queue) ELSE Tail(Queue) \o <<v>>
  BY <1>5, <1>6, QueueMoves
<1>8. InOrder(Queue) /\ \A u \in ToSet(Queue) : Timely(u, chan[u.ch])
  BY <1>1 DEF QueueInv
<1>9. \A u \in ToSet(Queue) : u.ch \in Chans
  <2>1. ToSet(Queue) \subseteq Task
    BY <1>7 DEF ToSet
  <2> QED
    BY <2>1 DEF Task
<1>10. CASE running' = running /\ \A u \in ToSet(Queue) : u.ch = c => Timely(u, s)
  <2>1. \A u \in ToSet(Queue) : Timely(u, chan'[u.ch])
    BY <1>3, <1>8, <1>9, <1>10 DEF Others
  <2>2. QueueInv'
    BY <1>5, <1>7, <1>8, <1>10, <2>1, QueueKept
  <2> QED
    BY <1>3, <1>4, <1>6, <1>7, <1>10, <2>2
<1>11. CASE /\ running # <<>> /\ running' = Tail(running)
            /\ \A u \in ToSet(Queue) : u.ch = c /\ Ordered(Head(running), u) => Timely(u, s)
  <2> DEFINE P == Tail(Queue)
  <2>1. /\ P \in Seq(Task) /\ InOrder(P) /\ ToSet(P) \subseteq ToSet(Queue)
        /\ \A u \in ToSet(P) : Ordered(Head(running), u)
    BY <1>7, <1>8, <1>11, TailOrder
  <2>2. Queue' = IF tasks' = tasks THEN P ELSE P \o <<v>>
    BY <1>7, <1>11
  <2> HIDE DEF P
  <2>3. \A u \in ToSet(P) : Timely(u, chan'[u.ch])
    BY <1>3, <1>8, <1>9, <1>11, <2>1 DEF Others
  <2>4. QueueInv'
    BY <1>5, <2>1, <2>2, <2>3, QueueKept
  <2> QED
    BY <1>3, <1>4, <1>7, <1>11, <2>4
<1> QED
  BY <1>10, <1>11

\* A task that waits still fits its channel when that goes from r to s, as long as s has
\* no less behind it, and the output has not been closed over the head of a finish.
LEMMA FitsStill ==
  ASSUME NEW r \in Channel, NEW s \in Channel, NEW u \in Task, Timely(u, r),
         u.op = "register" => s.life = "posted",
         r.life \in {"active", "inactive"} => s.life \in {"active", "inactive"},
         r.inClosed => s.inClosed, r.outClosed => s.outClosed, r.finished => s.finished,
         s.asked >= r.asked,
         u.op \in DataOps /\ u.early /\ s.outClosed => r.outClosed \/ s.finished
  PROVE  Timely(u, s)
<1>1. r.asked \in Nat /\ s.asked \in Nat
  BY DEF Channel
<1>2. u.op = "disconnect" => s.asked > 0
  BY <1>1 DEF Timely
<1> QED
  BY <1>2 DEF Timely

\* The tasks of the queue, each with its channel.
LEMMA Waiting ==
  ASSUME Inv, NEW u \in ToSet(Queue)
  PROVE  u \in Task /\ u.ch \in Chans /\ chan[u.ch] \in Channel /\ Timely(u, chan[u.ch])
<1>1. tasks \in Seq(Task) /\ running \in Seq(Task) /\ QueueInv /\ chan \in [Chans -> Channel]
  BY DEF Inv, TypeOK
<1>2. Queue \in Seq(Task)
  BY <1>1, ConcatProperties DEF Queue
<1>3. u \in Task
  BY <1>2 DEF ToSet
<1>4. u.ch \in Chans
  BY <1>3 DEF Task
<1> QED
  BY <1>1, <1>3, <1>4 DEF QueueInv

\* The first of the running tasks is the first of the queue.
LEMMA First ==
  ASSUME Inv, running # <<>>
  PROVE  /\ Head(running) \in Task /\ Head(running).ch \in Chans
         /\ Timely(Head(running), chan[Head(running).ch])
<1>1. tasks \in Seq(Task) /\ running \in Seq(Task) /\ QueueInv
  BY DEF Inv, TypeOK
<1> DEFINE t == Head(running)
<1>2. t \in Task /\ Len(running) \in Nat \ {0} /\ t = running[1]
  BY <1>1, EmptySeq, LenProperties
<1>3. /\ Queue \in Seq(Task) /\ Len(Queue) = Len(running) + Len(tasks)
      /\ \A i \in 1 .. Len(running) + Len(tasks) :
           Queue[i] = IF i <= Len(running) THEN running[i] ELSE tasks[i - Len(running)]
  BY <1>1, ConcatProperties DEF Queue
<1>4. Len(tasks) \in Nat /\ DOMAIN Queue = 1 .. Len(Queue)
  BY <1>1, <1>3, LenProperties
<1>5. 1 \in DOMAIN Queue /\ Queue[1] = t
  BY <1>2, <1>3, <1>4
<1>6. t \in ToSet(Queue)
  BY <1>5 DEF ToSet
<1> QED
  BY <1>6, Waiting

-----------------------------------------------------------------------------
(* What the steps do to a channel. *)

\* What a write leaves of a socket: of what InputInv is about, nothing changes but that a
\* failure is a reset seen, or comes of an output that was shut down.
LEMMA AfterSendFields ==
  ASSUME NEW s \in Socket, NEW r, NEW o, o.n \in Nat, o.failed \in BOOLEAN, NEW z, z = AfterSend(s, r, o)
  PROVE  /\ z \in Socket /\ z.input = s.input /\ z.arrived = s.arrived /\ z.fin = s.fin
         /\ s.reset # "no" => z.reset # "no"
         /\ o.failed => z.reset # "no" \/ OutputShut(r)
         /\ ~o.failed => z.reset = s.reset
<1> DEFINE k == IF o.n <= s.room THEN s.room - o.n ELSE 0
           x == IF o.failed /\ ~(s.reset = "no" /\ OutputShut(r)) THEN "reported" ELSE s.reset
<1>1. k \in Nat /\ x \in {"no", "pending", "reported"}
  BY DEF Socket
<1>2. z = [s EXCEPT !.room = k, !.reset = x]
  BY DEF AfterSend
<1> HIDE DEF k, x
<1>3. /\ z \in Socket /\ z.input = s.input /\ z.arrived = s.arrived /\ z.fin = s.fin
      /\ z.reset = x
  BY <1>1, <1>2 DEF Socket
<1> QED
  BY <1>3 DEF x

\* The sockets as the channels see them.
SocketsKept ==
  /\ sock' \in [Chans -> Socket]
  /\ \A d \in Chans : /\ sock'[d].input = sock[d].input /\ sock'[d].arrived = sock[d].arrived
                      /\ sock[d].reset # "no" => sock'[d].reset # "no"
                      /\ sock'[d].fin = sock[d].fin

\* The first of the running tasks is taken, or none is.
Takes == running' = running \/ (running # <<>> /\ running' = Tail(running))

\* trigger_write, flush: the bytes that are sent leave the buffer; the output may close, of
\* a channel that is finished.
LEMMA SendStep ==
  ASSUME Inv, NEW c \in Chans, NEW r \in {chan[c], Gather(chan[c])}, NEW o \in Sends(c, r),
         chan[c].life \in {"active", "inactive"},
         r = chan[c] \/ ~chan[c].finished,
         NEW p, OutputShut(p) = OutputShut(r), sock' = [sock EXCEPT ![c] = AfterSend(@, p, o)],
         Become(c, BeginWrite(r, o), <<>>), Takes
  PROVE  /\ chan' \in [Chans -> Channel] /\ Others(c)
         /\ tasks' \in Seq(Task) /\ running' \in Seq(Task)
         /\ ChanInv' /\ QueueInv' /\ SocketsKept
         /\ chan'[c].kind = chan[c].kind /\ chan'[c].life = chan[c].life
         /\ chan'[c].inClosed = chan[c].inClosed
         /\ chan[c].outClosed => chan'[c].outClosed
         /\ chan'[c].inactives = IF ~chan[c].outClosed /\ chan'[c].outClosed /\ chan[c].inClosed
                                 THEN chan[c].inactives + 1 ELSE chan[c].inactives
         /\ chan'[c].sent = chan[c].sent + o.n /\ o.n \in Nat
         /\ o.n > 0 => ~chan[c].outClosed \/ chan[c].kind = "file"
         /\ \A d \in Chans \ {c} : sock'[d] = sock[d]
         /\ chan'[c].outClosed # chan[c].outClosed => sock'[c].reset = sock[c].reset
<1>1. TypeOK /\ ChanInv
  BY DEF Inv
<1>2. chan[c] \in Channel /\ sock[c] \in Socket /\ Sound(chan[c]) /\ Drains(chan[c], sock[c])
  BY <1>1 DEF TypeOK, ChanInv
<1>3. /\ r \in Channel /\ Sound(r) /\ r.kind = chan[c].kind /\ r.life = chan[c].life
      /\ r.inClosed = chan[c].inClosed /\ r.outClosed = chan[c].outClosed
      /\ r.inactives = chan[c].inactives /\ r.sent = chan[c].sent
      /\ r.finished = chan[c].finished /\ r.asked = chan[c].asked
      /\ r.finished => r = chan[c]
  BY <1>2, GatherFields
<1> DEFINE broken == OutputShut(r) \/ sock[c].reset # "no"
           s == BeginWrite(r, o)
           z == AfterSend(sock[c], p, o)
<1>4. broken \in BOOLEAN /\ Resets \in BOOLEAN
  BY <1>3, ChannelAssumption DEF OutputShut, Channel
<1>5. o \in SendOutcomes(r.flushed, sock[c].room, broken, Resets)
  BY DEF Sends
<1>6. r.finished /\ r.flushed > 0 => r.writeInterest \/ r.outClosed \/ broken
  BY <1>2, <1>3 DEF Drains
<1>7. OutputShut(r) => broken /\ r.outClosed
  BY DEF OutputShut
<1>8. ~OutputShut(r) => ~r.outClosed \/ r.kind = "file"
  BY <1>3 DEF OutputShut, Channel
<1> HIDE DEF broken
<1>9. /\ o.n \in Nat /\ o.failed \in BOOLEAN /\ (broken => o.n = 0)
  <2>1. r.flushed \in Nat
    BY <1>3 DEF Channel
  <2> QED
    BY <1>4, <1>5, <2>1, SendFacts
<1>10. /\ s \in Channel /\ Sound(s) /\ WriteKept(r, s)
       /\ s.sent = r.sent + o.n
       /\ r.outClosed => s.outClosed
       /\ s.outClosed /\ ~r.outClosed => r.finished /\ ~o.failed
       /\ s.inactives = IF ~r.outClosed /\ s.outClosed /\ r.inClosed THEN r.inactives + 1 ELSE r.inactives
       /\ ~o.failed /\ s.flushed > 0 => s.writeInterest \/ s.outClosed
  <2>1. r \in Channel /\ Sound(r) /\ r.life \in {"active", "inactive"}
    BY <1>3
  <2>2. PICK m : m = sock[c].room
    OBVIOUS
  <2>3. PICK b \in BOOLEAN : b = broken
    BY <1>4
  <2>4. o \in SendOutcomes(r.flushed, m, b, Resets)
    BY <1>5, <2>2, <2>3
  <2>5. r.finished /\ r.flushed > 0 => r.writeInterest \/ r.outClosed \/ b
    BY <1>6, <2>3
  <2> QED
    BY <1>4, <2>1, <2>4, <2>5, WriteFields
<1>11. /\ z \in Socket /\ z.input = sock[c].input /\ z.arrived = sock[c].arrived
       /\ z.fin = sock[c].fin
       /\ sock[c].reset # "no" => z.reset # "no"
       /\ o.failed => z.reset # "no" \/ OutputShut(r)
       /\ ~o.failed => z.reset = sock[c].reset
  BY <1>2, <1>9, AfterSendFields
<1>12. sock' = [sock EXCEPT ![c] = z]
  OBVIOUS
<1>13. Become(c, s, <<>>)
  OBVIOUS
<1> HIDE DEF s, z
<1>14. sock' \in [Chans -> Socket] /\ sock'[c] = z /\ \A d \in Chans \ {c} : sock'[d] = sock[d]
  BY <1>1, <1>11, <1>12 DEF TypeOK
<1>15. SocketsKept
  BY <1>11, <1>14 DEF SocketsKept
<1>16. Drains(s, sock'[c])
  BY <1>7, <1>9, <1>10, <1>11, <1>14 DEF Drains
<1>17. ASSUME NEW u \in ToSet(Queue), u.ch = c PROVE Timely(u, s)
  <2>1. u \in Task /\ Timely(u, chan[c])
    BY <1>17, Waiting
  <2>2. u.op # "register"
    BY <2>1 DEF Timely
  <2>3. s.asked >= chan[c].asked
    BY <1>3, <1>10 DEF WriteKept, Channel
  <2> QED
    BY <1>2, <1>3, <1>10, <2>1, <2>2, <2>3, FitsStill DEF WriteKept
<1>18. \/ s.inactives = chan[c].inactives
       \/ /\ s.inactives = chan[c].inactives + 1
          /\ s.life = "active" /\ s.inClosed /\ s.outClosed
  BY <1>3, <1>10 DEF WriteKept, Sound
<1> DEFINE t == NewTask("inactive", c, Hops)
<1>19. t \in Task /\ t.ch = c
  BY <1>1, NewTaskType, ChannelAssumption DEF Ops
<1> HIDE DEF t
<1>20. /\ chan' \in [Chans -> Channel] /\ chan'[c] = s /\ Others(c)
       /\ tasks' \in Seq(Task) /\ running' \in Seq(Task)
       /\ ChanInv' /\ QueueInv'
  <2>1. <<>> # <<t>>
    OBVIOUS
  <2> QED
    BY <1>10, <1>13, <1>14, <1>16, <1>17, <1>18, <1>19, <2>1, BecomeKeeps DEF Takes
<1>21. o.n > 0 => ~chan[c].outClosed \/ chan[c].kind = "file"
  BY <1>3, <1>7, <1>8, <1>9
<1>22. s.outClosed # r.outClosed => z.reset = sock[c].reset
  <2>1. s.outClosed \in BOOLEAN /\ r.outClosed \in BOOLEAN
    BY <1>3, <1>10 DEF Channel
  <2> QED
    BY <1>10, <1>11, <2>1
<1>23. /\ s.kind = chan[c].kind /\ s.life = chan[c].life /\ s.inClosed = chan[c].inClosed
       /\ chan[c].outClosed => s.outClosed
       /\ s.inactives = IF ~chan[c].outClosed /\ s.outClosed /\ chan[c].inClosed
                        THEN chan[c].inactives + 1 ELSE chan[c].inactives
       /\ s.sent = chan[c].sent + o.n
       /\ s.outClosed # chan[c].outClosed => z.reset = sock[c].reset
  BY <1>3, <1>10, <1>22 DEF WriteKept
<1> QED
  BY <1>9, <1>14, <1>15, <1>20, <1>21, <1>23

\* write and finish, and the tasks that do nothing to the channel but offer another.
LEMMA QuietStep ==
  ASSUME Inv, NEW c \in Chans, chan[c].life \in {"active", "inactive"},
         NEW s, \/ s = chan[c] \/ s = Write(chan[c]) \/ s = Finish(chan[c])
                \/ s = [chan[c] EXCEPT !.asked = @ + 1],
         NEW t \in Task, t.ch = c, NEW q \in {<<>>, <<t>>}, Become(c, s, q),
         q = <<t>> => Timely(t, s) /\ \A u \in ToSet(Queue) : Ordered(u, t),
         sock' = sock, Takes
  PROVE  /\ chan' \in [Chans -> Channel] /\ Others(c) /\ Quiet(chan[c], chan'[c])
         /\ tasks' \in Seq(Task) /\ running' \in Seq(Task)
         /\ ChanInv' /\ QueueInv'
<1>1. TypeOK /\ ChanInv
  BY DEF Inv
<1>2. chan[c] \in Channel /\ Sound(chan[c]) /\ Drains(chan[c], sock[c])
  BY <1>1 DEF TypeOK, ChanInv
<1>3. s \in Channel /\ Sound(s) /\ Quiet(chan[c], s)
  BY <1>2, QuietFields
<1>4. Drains(s, sock'[c])
  BY <1>2, <1>3 DEF Drains, Quiet
<1>5. ASSUME NEW u \in ToSet(Queue), u.ch = c PROVE Timely(u, s)
  <2>1. u \in Task /\ Timely(u, chan[c])
    BY <1>5, Waiting
  <2>2. u.op # "register"
    BY <2>1 DEF Timely
  <2> QED
    BY <1>2, <1>3, <2>1, <2>2, FitsStill DEF Quiet
<1>6. s.inactives = chan[c].inactives
  BY <1>3 DEF Quiet
<1>7. /\ chan' \in [Chans -> Channel] /\ chan'[c] = s /\ Others(c)
      /\ tasks' \in Seq(Task) /\ running' \in Seq(Task)
      /\ ChanInv' /\ QueueInv'
  <2>1. \/ running' = running /\ \A u \in ToSet(Queue) : u.ch = c => Timely(u, s)
        \/ /\ running # <<>> /\ running' = Tail(running)
           /\ \A u \in ToSet(Queue) : u.ch = c /\ Ordered(Head(running), u) => Timely(u, s)
    BY <1>5 DEF Takes
  <2>2. \A d \in Chans \ {c} : sock'[d] = sock[d]
    OBVIOUS
  <2> QED
    BY <1>3, <1>4, <1>6, <2>1, <2>2, BecomeKeeps
<1> QED
  BY <1>3, <1>7

\* What a step that offers nothing of its own is for BecomeKeeps.
LEMMA SomeTask ==
  ASSUME Inv, NEW c \in Chans
  PROVE  \E t \in Task : t.ch = c /\ <<>> # <<t>>
<1>1. NewTask("inactive", c, Hops) \in Task /\ NewTask("inactive", c, Hops).ch = c
  BY NewTaskType, ChannelAssumption DEF Inv, Ops
<1> QED
  BY <1>1

\* on_register: a task of the channel was its only one, and a channel that is registered on
\* the loop thread had none.
LEMMA RegisterStep ==
  ASSUME Inv, NEW c \in Chans, NEW s, s = Register(chan[c]) \/ s = Register(Interested(chan[c])),
         Become(c, s, <<>>), sock' = sock,
         \/ running' = running /\ chan[c].life = "new"
         \/ /\ running # <<>> /\ running' = Tail(running)
            /\ Head(running).op = "register" /\ Head(running).ch = c
  PROVE  /\ chan' \in [Chans -> Channel] /\ Others(c) /\ chan'[c].life = "active"
         /\ chan[c].life \in {"new", "posted"}
         /\ chan'[c].kind = chan[c].kind /\ chan'[c].inClosed = chan[c].inClosed
         /\ chan'[c].outClosed = chan[c].outClosed /\ chan'[c].inactives = chan[c].inactives
         /\ chan'[c].sent = chan[c].sent
         /\ tasks' \in Seq(Task) /\ running' \in Seq(Task)
         /\ ChanInv' /\ QueueInv'
<1>1. TypeOK /\ ChanInv
  BY DEF Inv
<1>2. chan[c] \in Channel /\ Sound(chan[c]) /\ Drains(chan[c], sock[c])
  BY <1>1 DEF TypeOK, ChanInv
<1>3. chan[c].life = IF running' = running /\ chan[c].life = "new" THEN "new" ELSE "posted"
  BY First DEF Timely
<1>4. /\ s \in Channel /\ Sound(s) /\ s.life = "active"
      /\ s.kind = chan[c].kind /\ s.inClosed = chan[c].inClosed /\ s.outClosed = chan[c].outClosed
      /\ s.inactives = chan[c].inactives /\ s.sent = chan[c].sent
      /\ s.flushed = chan[c].flushed
      /\ chan[c].writeInterest => s.writeInterest
  BY <1>2, <1>3, RegisterFields
<1>5. Drains(s, sock'[c])
  BY <1>2, <1>4 DEF Drains
<1>6. ASSUME NEW u \in ToSet(Queue), u.ch = c,
             chan[c].life = "new" \/ (Ordered(Head(running), u) /\ Head(running).op = "register"
                                      /\ Head(running).ch = c)
      PROVE  FALSE
  <2>1. u \in Task /\ Timely(u, chan[c])
    BY <1>6, Waiting
  <2>2. u.op = "register" /\ chan[c].life = "posted"
    BY <1>3, <2>1 DEF Timely
  <2> QED
    BY <1>6, <2>2 DEF Ordered
<1>7. PICK t \in Task : t.ch = c /\ <<>> # <<t>>
  BY SomeTask
<1>8. \/ running' = running /\ \A u \in ToSet(Queue) : u.ch = c => Timely(u, s)
      \/ /\ running # <<>> /\ running' = Tail(running)
         /\ \A u \in ToSet(Queue) : u.ch = c /\ Ordered(Head(running), u) => Timely(u, s)
  BY <1>6
<1>9. /\ chan' \in [Chans -> Channel] /\ chan'[c] = s /\ Others(c)
      /\ tasks' \in Seq(Task) /\ running' \in Seq(Task)
      /\ ChanInv' /\ QueueInv'
  BY <1>4, <1>5, <1>7, <1>8, BecomeKeeps
<1> QED
  BY <1>3, <1>4, <1>9

\* loop_register, of a channel that has no task.
LEMMA PostedStep ==
  ASSUME Inv, NEW c \in Chans, LoopRegister(c)
  PROVE  /\ chan' \in [Chans -> Channel] /\ Others(c) /\ chan'[c].life = "posted"
         /\ chan[c].life = "new"
         /\ chan'[c].kind = chan[c].kind /\ chan'[c].inClosed = chan[c].inClosed
         /\ chan'[c].outClosed = chan[c].outClosed /\ chan'[c].inactives = chan[c].inactives
         /\ chan'[c].sent = chan[c].sent
         /\ tasks' \in Seq(Task) /\ running' \in Seq(Task)
         /\ ChanInv' /\ QueueInv'
<1>1. TypeOK /\ ChanInv
  BY DEF Inv
<1>2. chan[c] \in Channel /\ Sound(chan[c]) /\ Drains(chan[c], sock[c])
  BY <1>1 DEF TypeOK, ChanInv
<1> DEFINE s == [Interested(chan[c]) EXCEPT !.life = "posted"]
           t == NewTask("register", c, Hops)
           q == <<t>>
<1>3. Become(c, s, q) /\ chan[c].life = "new" /\ sock' = sock /\ running' = running
  BY DEF LoopRegister
<1> HIDE DEF s
<1>4. /\ s \in Channel /\ Sound(s) /\ s.life = "posted"
      /\ s.kind = chan[c].kind /\ s.inClosed = chan[c].inClosed /\ s.outClosed = chan[c].outClosed
      /\ s.inactives = chan[c].inactives /\ s.sent = chan[c].sent
      /\ s.flushed = chan[c].flushed /\ s.writeInterest
  <2>1. s = [Interested(chan[c]) EXCEPT !.life = "posted"]
    BY DEF s
  <2>2. PICK r : r = chan[c]
    OBVIOUS
  <2>3. s = [Interested(r) EXCEPT !.life = "posted"]
    BY <2>1, <2>2
  <2>4. r \in Channel /\ Sound(r) /\ r.life = "new"
    BY <1>2, <1>3, <2>2
  <2>5. PICK x : x = s
    OBVIOUS
  <2>6. /\ x \in Channel /\ Sound(x) /\ x.life = "posted"
        /\ x.kind = r.kind /\ x.inClosed = r.inClosed /\ x.outClosed = r.outClosed
        /\ x.inactives = r.inactives /\ x.sent = r.sent
        /\ x.flushed = r.flushed /\ x.writeInterest
    BY <2>3, <2>4, <2>5, PostedFields
  <2> QED
    BY <2>2, <2>5, <2>6
<1>5. Drains(s, sock'[c])
  BY <1>2, <1>4 DEF Drains
<1>6. ASSUME NEW u \in ToSet(Queue), u.ch = c PROVE FALSE
  <2>1. Timely(u, chan[c])
    BY <1>6, Waiting
  <2> QED
    BY <1>3, <2>1 DEF Timely
<1>7. t \in Task /\ t.op = "register" /\ t.ch = c /\ t.left = Hops /\ Hops > 0
  BY <1>1, NewTaskType, ChannelAssumption DEF Ops
<1> HIDE DEF t
<1>8. Timely(t, s)
  BY <1>4, <1>7 DEF Timely, DataOps
<1>9. \A u \in ToSet(Queue) : Ordered(u, t)
  BY <1>6, <1>7 DEF Ordered
<1>10. q \in {<<>>, <<t>>}
  OBVIOUS
<1> HIDE DEF q
<1>11. /\ chan' \in [Chans -> Channel] /\ chan'[c] = s /\ Others(c)
       /\ tasks' \in Seq(Task) /\ running' \in Seq(Task)
       /\ ChanInv' /\ QueueInv'
  BY <1>3, <1>4, <1>5, <1>6, <1>7, <1>8, <1>9, <1>10, BecomeKeeps
<1> QED
  BY <1>3, <1>4, <1>11

\* The end of the input.
LEMMA InputStep ==
  ASSUME Inv, NEW c \in Chans, chan[c].life = "active",
         Become(c, ShutdownInput(chan[c]), <<>>), sock' = sock, running' = running
  PROVE  /\ chan' \in [Chans -> Channel] /\ Others(c) /\ chan'[c].life = "active"
         /\ chan'[c].kind = chan[c].kind /\ chan'[c].inClosed
         /\ chan'[c].outClosed = chan[c].outClosed /\ chan'[c].sent = chan[c].sent
         /\ chan'[c].inactives = IF ~chan[c].inClosed /\ chan[c].outClosed
                                 THEN chan[c].inactives + 1 ELSE chan[c].inactives
         /\ tasks' \in Seq(Task) /\ running' \in Seq(Task)
         /\ ChanInv' /\ QueueInv'
<1>1. TypeOK /\ ChanInv
  BY DEF Inv
<1>2. chan[c] \in Channel /\ Sound(chan[c]) /\ Drains(chan[c], sock[c])
  BY <1>1 DEF TypeOK, ChanInv
<1> DEFINE s == ShutdownInput(chan[c])
<1>3. Become(c, s, <<>>)
  OBVIOUS
<1>4. /\ s \in Channel /\ Kept(chan[c], s) /\ Sound(s) /\ s.inClosed
      /\ s.outClosed = chan[c].outClosed /\ s.writeInterest = chan[c].writeInterest
      /\ s.inactives = IF ~chan[c].inClosed /\ chan[c].outClosed THEN chan[c].inactives + 1 ELSE chan[c].inactives
  BY <1>2, InputFields
<1> HIDE DEF s
<1>5. Drains(s, sock'[c])
  BY <1>2, <1>4 DEF Drains, Kept
<1>6. ASSUME NEW u \in ToSet(Queue), u.ch = c PROVE Timely(u, s)
  <2>1. u \in Task /\ Timely(u, chan[c])
    BY <1>6, Waiting
  <2>2. s.asked >= chan[c].asked
    BY <1>2, <1>4 DEF Kept, Channel
  <2>3. u.op # "register"
    BY <2>1 DEF Timely
  <2> QED
    BY <1>2, <1>4, <2>1, <2>2, <2>3, FitsStill DEF Kept
<1>7. PICK t \in Task : t.ch = c /\ <<>> # <<t>>
  BY SomeTask
<1>8. \/ s.inactives = chan[c].inactives
      \/ /\ s.inactives = chan[c].inactives + 1
         /\ s.life = "active" /\ s.inClosed /\ s.outClosed
  BY <1>4 DEF Kept
<1>9. /\ chan' \in [Chans -> Channel] /\ chan'[c] = s /\ Others(c)
      /\ tasks' \in Seq(Task) /\ running' \in Seq(Task)
      /\ ChanInv' /\ QueueInv'
  BY <1>3, <1>4, <1>5, <1>6, <1>7, <1>8, BecomeKeeps
<1> QED
  BY <1>4, <1>9 DEF Kept

\* on_disconnect at the head: what was asked for before has run, for it was posted before.
LEMMA DisconnectStep ==
  ASSUME Inv, running # <<>>, running' = Tail(running), Head(running).op = "disconnect",
         NEW c, c = Head(running).ch,
         Become(c, Disconnect(chan[c]), <<>>), sock' = sock
  PROVE  /\ c \in Chans /\ chan[c].life \in {"active", "inactive"}
         /\ chan' \in [Chans -> Channel] /\ Others(c) /\ chan'[c].life = chan[c].life
         /\ chan'[c].kind = chan[c].kind /\ chan'[c].inClosed /\ chan'[c].outClosed
         /\ chan'[c].sent = chan[c].sent
         /\ chan'[c].inactives = IF chan[c].inClosed /\ chan[c].outClosed
                                 THEN chan[c].inactives ELSE chan[c].inactives + 1
         /\ tasks' \in Seq(Task) /\ running' \in Seq(Task)
         /\ ChanInv' /\ QueueInv'
<1>1. TypeOK /\ ChanInv
  BY DEF Inv
<1>2. c \in Chans /\ Timely(Head(running), chan[c])
  BY First
<1>3. chan[c] \in Channel /\ Sound(chan[c]) /\ Drains(chan[c], sock[c])
  BY <1>1, <1>2 DEF TypeOK, ChanInv
<1>4. chan[c].life \in {"active", "inactive"} /\ chan[c].asked > 0
  BY <1>2 DEF Timely
<1> DEFINE s == Disconnect(chan[c])
<1>5. Become(c, s, <<>>)
  OBVIOUS
<1>6. /\ s \in Channel /\ Kept(chan[c], s) /\ Sound(s) /\ s.inClosed /\ s.outClosed
      /\ s.inactives = IF chan[c].inClosed /\ chan[c].outClosed THEN chan[c].inactives ELSE chan[c].inactives + 1
  BY <1>3, <1>4, DisconnectFields
<1> HIDE DEF s
<1>7. Drains(s, sock'[c])
  BY <1>6 DEF Drains
<1>8. ASSUME NEW u \in ToSet(Queue), u.ch = c, Ordered(Head(running), u) PROVE Timely(u, s)
  <2>1. u \in Task /\ Timely(u, chan[c])
    BY <1>8, Waiting
  <2>2. s.asked >= chan[c].asked
    BY <1>3, <1>6 DEF Kept, Channel
  <2>3. u.op # "register"
    BY <1>4, <2>1 DEF Timely
  <2>4. u.op \in DataOps => ~u.early
    BY <1>8 DEF Ordered
  <2> QED
    BY <1>3, <1>4, <1>6, <2>1, <2>2, <2>3, <2>4, FitsStill DEF Kept
<1>9. PICK t \in Task : t.ch = c /\ <<>> # <<t>>
  BY <1>2, SomeTask
<1>10. \/ s.inactives = chan[c].inactives
       \/ /\ s.inactives = chan[c].inactives + 1
          /\ s.life = "active" /\ s.inClosed /\ s.outClosed
  BY <1>3, <1>4, <1>6 DEF Kept, Sound
<1>11. /\ chan' \in [Chans -> Channel] /\ chan'[c] = s /\ Others(c)
       /\ tasks' \in Seq(Task) /\ running' \in Seq(Task)
       /\ ChanInv' /\ QueueInv'
  BY <1>2, <1>5, <1>6, <1>7, <1>8, <1>9, <1>10, BecomeKeeps
<1> QED
  BY <1>2, <1>4, <1>6, <1>11 DEF Kept

\* on_inactive of a handler, and the task for the next one.
LEMMA InactiveStep ==
  ASSUME Inv, running # <<>>, running' = Tail(running), NEW t, t = Head(running), t.op = "inactive",
         Become(t.ch, [chan[t.ch] EXCEPT !.life = "inactive"],
                IF t.left = 1 THEN <<>> ELSE <<[t EXCEPT !.left = @ - 1]>>),
         sock' = sock
  PROVE  /\ t.ch \in Chans /\ chan[t.ch].life \in {"active", "inactive"}
         /\ chan[t.ch].inClosed /\ chan[t.ch].outClosed
         /\ chan' \in [Chans -> Channel] /\ Others(t.ch) /\ chan'[t.ch].life = "inactive"
         /\ chan'[t.ch].kind = chan[t.ch].kind /\ chan'[t.ch].inClosed = chan[t.ch].inClosed
         /\ chan'[t.ch].outClosed = chan[t.ch].outClosed
         /\ chan'[t.ch].inactives = chan[t.ch].inactives /\ chan'[t.ch].sent = chan[t.ch].sent
         /\ tasks' \in Seq(Task) /\ running' \in Seq(Task)
         /\ ChanInv' /\ QueueInv'
<1>1. TypeOK /\ ChanInv
  BY DEF Inv
<1>2. t \in Task /\ t.ch \in Chans /\ Timely(t, chan[t.ch])
  BY First
<1> DEFINE c == t.ch
           r == chan[c]
           s == [r EXCEPT !.life = "inactive"]
           v == [t EXCEPT !.left = @ - 1]
           q == IF t.left = 1 THEN <<>> ELSE <<v>>
<1>3. r \in Channel /\ Sound(r) /\ Drains(r, sock[c])
  BY <1>1, <1>2 DEF TypeOK, ChanInv
<1>4. r.inClosed /\ r.outClosed /\ r.life \in {"active", "inactive"} /\ t.left > 0
  BY <1>2 DEF Timely
<1>5. /\ s \in Channel /\ Sound(s) /\ s.life = "inactive"
      /\ s.kind = r.kind /\ s.inClosed = r.inClosed /\ s.outClosed = r.outClosed
      /\ s.inactives = r.inactives /\ s.sent = r.sent /\ s.finished = r.finished
      /\ s.flushed = r.flushed /\ s.asked = r.asked /\ s.writeInterest = r.writeInterest
  BY <1>3, <1>4, InactiveFields
<1>6. Become(c, s, q)
  OBVIOUS
<1>7. t.left # 1 => v \in Task /\ v.op = "inactive" /\ v.ch = c /\ v.left > 0
  <2> DEFINE k == t.left - 1
  <2>1. t.left # 1 => k \in Nat /\ k > 0
    BY <1>2, <1>4 DEF Task
  <2>2. v = [t EXCEPT !.left = k]
    OBVIOUS
  <2> HIDE DEF k
  <2> QED
    BY <1>2, <2>1, <2>2 DEF Task
<1> HIDE DEF s, r, v
<1>8. Drains(s, sock'[c])
  BY <1>4, <1>5 DEF Drains
<1>9. ASSUME NEW u \in ToSet(Queue), u.ch = c PROVE Timely(u, s)
  <2>1. u \in Task /\ Timely(u, r)
    BY <1>9, Waiting DEF r
  <2>2. s.asked >= r.asked
    BY <1>3, <1>5 DEF Channel
  <2>3. u.op # "register"
    BY <1>4, <2>1 DEF Timely
  <2> QED
    BY <1>3, <1>4, <1>5, <2>1, <2>2, <2>3, FitsStill
<1>10. PICK w \in Task :
         /\ w.ch = c /\ q \in {<<>>, <<w>>}
         /\ q = <<w>> => Timely(w, s) /\ \A u \in ToSet(Queue) : Ordered(u, w)
  <2>1. CASE t.left = 1
    <3>1. q = <<>>
      BY <2>1
    <3> QED
      BY <1>2, <3>1, SomeTask
  <2>2. CASE t.left # 1
    <3>1. q = <<v>>
      BY <2>2
    <3>2. Timely(v, s)
      BY <1>4, <1>5, <1>7, <2>2 DEF Timely, DataOps
    <3>3. \A u \in ToSet(Queue) : Ordered(u, v)
      BY <1>7, <2>2 DEF Ordered, DataOps
    <3> HIDE DEF q
    <3>4. q \in {<<>>, <<v>>}
      BY <3>1
    <3> QED
      BY <1>7, <2>2, <3>2, <3>3, <3>4
  <2> QED
    BY <2>1, <2>2
<1> HIDE DEF q
<1>11. s.inactives = chan[c].inactives
  BY <1>5 DEF r
<1>12. /\ chan' \in [Chans -> Channel] /\ chan'[c] = s /\ Others(c)
       /\ tasks' \in Seq(Task) /\ running' \in Seq(Task)
       /\ ChanInv' /\ QueueInv'
  <2>1. /\ running # <<>> /\ running' = Tail(running)
        /\ \A u \in ToSet(Queue) : u.ch = c /\ Ordered(Head(running), u) => Timely(u, s)
    BY <1>9
  <2>2. \A d \in Chans \ {c} : sock'[d] = sock[d]
    OBVIOUS
  <2>3. c \in Chans
    BY <1>2
  <2> HIDE DEF c
  <2>4. PICK d, x, y : d = c /\ x = s /\ y = q
    OBVIOUS
  <2>5. /\ d \in Chans /\ x \in Channel /\ Sound(x) /\ Drains(x, sock'[d])
        /\ \A e \in Chans \ {d} : sock'[e] = sock[e]
        /\ w.ch = d /\ y \in {<<>>, <<w>>} /\ Become(d, x, y)
        /\ y = <<w>> => Timely(w, x) /\ \A u \in ToSet(Queue) : Ordered(u, w)
        /\ x.inactives = chan[d].inactives
    BY <1>5, <1>6, <1>8, <1>10, <1>11, <2>2, <2>3, <2>4
  <2>6. \A u \in ToSet(Queue) : u.ch = d /\ Ordered(Head(running), u) => Timely(u, x)
    BY <2>1, <2>4
  <2>7. /\ chan' \in [Chans -> Channel] /\ chan'[d] = x /\ Others(d)
        /\ tasks' \in Seq(Task) /\ running' \in Seq(Task)
        /\ ChanInv' /\ QueueInv'
    <3>1. CASE y = <<>>
      <4>1. <<>> # <<w>>
        OBVIOUS
      <4>2. Become(d, x, <<>>)
        BY <2>5, <3>1
      <4> QED
        BY <2>1, <2>5, <2>6, <4>1, <4>2, BecomeKeeps
    <3>2. CASE y = <<w>>
      <4>1. Timely(w, x) /\ Become(d, x, <<w>>)
        BY <2>5, <3>2
      <4>2. \A u \in ToSet(Queue) : Ordered(u, w)
        BY <2>5, <3>2
      <4> QED
        BY <2>1, <2>5, <2>6, <4>1, <4>2, BecomeKeeps
    <3> QED
      BY <2>5, <3>1, <3>2
  <2> QED
    BY <2>4, <2>7
<1> QED
  BY <1>2, <1>4, <1>5, <1>12 DEF r

\* A disconnect that is asked for, of a worker that takes tasks or does not.
LEMMA AskStep ==
  ASSUME Inv, NEW c \in Chans, PostDisconnect(c), sock' = sock, running' = running
  PROVE  /\ chan' \in [Chans -> Channel] /\ Others(c) /\ Quiet(chan[c], chan'[c])
         /\ tasks' \in Seq(Task) /\ running' \in Seq(Task)
         /\ ChanInv' /\ QueueInv'
<1>1. TypeOK /\ chan[c] \in Channel /\ chan[c].life \in {"active", "inactive"}
  BY DEF Inv, TypeOK, PostDisconnect, Reachable
<1>2. PICK left \in 1 .. Hops :
        Become(c, [chan[c] EXCEPT !.asked = IF closed THEN @ ELSE @ + 1],
               <<NewTask("disconnect", c, left)>>)
  BY DEF PostDisconnect
<1> DEFINE t == NewTask("disconnect", c, left)
<1>3. t \in Task /\ t.op = "disconnect" /\ t.ch = c /\ t.left = left /\ left > 0
  <2>1. left \in Nat /\ left > 0
    BY ChannelAssumption
  <2> QED
    BY <1>1, <2>1, NewTaskType DEF Ops
<1>4. CASE closed
  <2>1. [chan[c] EXCEPT !.asked = IF closed THEN @ ELSE @ + 1] = chan[c]
    BY <1>1, <1>4 DEF Channel
  <2>2. Become(c, chan[c], <<>>)
    BY <1>2, <1>4, <2>1 DEF Become, Offer
  <2>3. PICK v \in Task : v.ch = c /\ <<>> # <<v>>
    BY SomeTask
  <2> QED
    BY <1>1, <2>2, <2>3, QuietStep DEF Takes
<1>5. CASE ~closed
  <2> DEFINE s == [chan[c] EXCEPT !.asked = @ + 1]
  <2>1. Become(c, s, <<t>>)
    BY <1>2, <1>5
  <2>2. s.asked > 0 /\ s.life = chan[c].life
    BY <1>1 DEF Channel
  <2> HIDE DEF t
  <2>3. Timely(t, s)
    BY <1>1, <1>3, <2>2 DEF Timely, DataOps
  <2>4. \A u \in ToSet(Queue) : Ordered(u, t)
    BY <1>3 DEF Ordered, DataOps
  <2> QED
    BY <1>1, <1>3, <2>1, <2>3, <2>4, QuietStep DEF Takes
<1> QED
  BY <1>4, <1>5

-----------------------------------------------------------------------------
(* The invariant is inductive. *)

\* No channel changes, and the sockets forget no reset.
LEMMA ChanSame ==
  ASSUME Inv, chan' = chan,
         \A d \in Chans : sock[d].reset # "no" => sock'[d].reset # "no"
  PROVE  ChanInv'
BY DEF Inv, ChanInv, Drains

\* No channel and no task changes.
LEMMA QueueSame ==
  ASSUME Inv, chan' = chan, Queue' = Queue
  PROVE  QueueInv'
BY DEF Inv, QueueInv

AtClosing == pc = "closing" \/ (pc = "handler" /\ resume = "closing")

\* No input is read or closes, and no peer sends.
LEMMA InputKept ==
  ASSUME Inv, SocketsKept, cur' \subseteq cur, AtClosing' => AtClosing,
         \A d \in Chans : /\ chan'[d].inClosed => chan[d].inClosed
                          /\ chan[d].outClosed => chan'[d].outClosed
  PROVE  InputInv'
BY DEF Inv, SocketsKept, InputInv, AtClosing, Ended

\* The steps between two visits.
LEMMA IdleKeeps ==
  ASSUME Inv, EpollWait \/ TriggerRead \/ EndEvent \/ EndRun \/ SeeShutdown \/ HandlerReturns
              \/ HandlerThrows
  PROVE  Inv'
<1> USE DEF loopVars, taskVars, Inv
<1>1. chan' = chan /\ sock' = sock /\ tasks' = tasks /\ running' = running /\ cur' \subseteq cur
  BY DEF EpollWait, TriggerRead, EndEvent, EndRun, SeeShutdown, HandlerReturns, HandlerThrows
<1>2. TypeOK'
  <2>1. \A c \in Chans : EventCalls(c) \subseteq Calls
    BY DEF EventCalls
  <2>2. CASE EpollWait
    BY <2>1, <2>2 DEF EpollWait, TypeOK, Pcs
  <2>3. CASE TriggerRead \/ EndEvent \/ EndRun \/ SeeShutdown \/ HandlerReturns \/ HandlerThrows
    BY <2>3 DEF TriggerRead, EndEvent, EndRun, SeeShutdown, HandlerReturns, HandlerThrows, TypeOK, Pcs
  <2> QED
    BY <2>2, <2>3
<1>3. ChanInv' /\ QueueInv'
  BY <1>1, ChanSame, QueueSame DEF Queue
<1>4. LoopInv'
  <2>1. CASE EpollWait
    BY <2>1 DEF EpollWait, LoopInv, InEvent
  <2>2. CASE TriggerRead
    BY <2>2 DEF TriggerRead, LoopInv, InEvent
  <2>3. CASE EndEvent
    BY <2>3 DEF EndEvent, LoopInv, InEvent
  <2>4. CASE EndRun
    BY <2>4 DEF EndRun, LoopInv, InEvent
  <2>5. CASE SeeShutdown
    BY <2>5 DEF SeeShutdown, LoopInv, InEvent
  <2>6. CASE HandlerReturns
    BY <2>6 DEF HandlerReturns, LoopInv, InEvent
  <2>7. CASE HandlerThrows
    BY <2>7 DEF HandlerThrows, LoopInv, InEvent
  <2> QED
    BY <2>1, <2>2, <2>3, <2>4, <2>5, <2>6, <2>7
<1>5. InputInv'
  <2>1. AtClosing' => AtClosing
    BY DEF AtClosing, EpollWait, TriggerRead, EndEvent, EndRun, SeeShutdown, HandlerReturns,
           HandlerThrows, LoopInv
  <2>2. SocketsKept
    BY <1>1 DEF SocketsKept, TypeOK
  <2> QED
    BY <1>1, <2>1, <2>2, InputKept
<1> QED
  BY <1>2, <1>3, <1>4, <1>5

\* The loop turns to an event: of a channel with a half that is open, for it has it still.
LEMMA DispatchKeeps ==
  ASSUME Inv, NEW c \in Chans, Dispatch(c)
  PROVE  Inv' /\ (cur' # cur => chan[c].life = "active")
<1> USE DEF Dispatch, taskVars, Inv
<1>1. chan' = chan /\ sock' = sock /\ tasks' = tasks /\ running' = running /\ cur = {}
  BY DEF LoopInv, InEvent
<1>2. chan[c].member => chan[c].life = "active" /\ ~(chan[c].inClosed /\ chan[c].outClosed)
  BY DEF ChanInv, Sound
<1>3. TypeOK'
  BY DEF TypeOK, Pcs
<1>4. ChanInv' /\ QueueInv'
  BY <1>1, ChanSame, QueueSame DEF Queue
<1>5. LoopInv'
  BY <1>1, <1>2 DEF LoopInv, InEvent
<1>6. InputInv'
  BY <1>1, <1>2 DEF InputInv
<1> QED
  BY <1>2, <1>3, <1>4, <1>5, <1>6

\* begin_read: data is delivered while the input is open; and what looks like the end of the
\* input is the end of it.
LEMMA ReadKeeps ==
  ASSUME Inv, NEW c \in Chans, ReadData(c) \/ ReadError(c) \/ ReadComplete(c)
  PROVE  /\ Inv'
         /\ ReadData(c) => c \in cur /\ ~chan[c].inClosed
<1> USE DEF taskVars, Inv, Handle
<1>1. /\ chan' = chan /\ tasks' = tasks /\ running' = running /\ c \in cur /\ cur' = cur
      /\ pc = "reading"
  BY DEF ReadData, ReadError, ReadComplete
<1>2. /\ sock' \in [Chans -> Socket] /\ (\A d \in Chans \ {c} : sock'[d] = sock[d])
      /\ sock'[c].arrived = sock[c].arrived /\ sock'[c].fin = sock[c].fin
      /\ sock[c].reset # "no" => sock'[c].reset # "no"
      /\ ReadData(c) => sock[c].input > 0 /\ sock'[c].input <= sock[c].input
      /\ ~ReadData(c) => sock'[c].input = sock[c].input
  <2>1. sock[c].input \in Nat /\ sock[c] \in Socket /\ sock \in [Chans -> Socket]
    BY DEF TypeOK, Socket
  <2>2. CASE ReadData(c)
    <3> DEFINE k == sock[c].input - 1
               z == [sock[c] EXCEPT !.input = k]
    <3>1. k \in Nat /\ k <= sock[c].input /\ sock' = [sock EXCEPT ![c] = z] /\ sock[c].input > 0
      BY <2>1, <2>2 DEF ReadData
    <3> HIDE DEF k
    <3>2. /\ z \in Socket /\ z.input = k /\ z.arrived = sock[c].arrived /\ z.fin = sock[c].fin
          /\ z.reset = sock[c].reset
      BY <2>1, <3>1 DEF Socket
    <3> HIDE DEF z
    <3> QED
      BY <2>1, <2>2, <3>1, <3>2
  <2>3. CASE ReadError(c) /\ ~ReadData(c)
    <3> DEFINE z == [sock[c] EXCEPT !.reset = "reported"]
    <3>1. sock' = [sock EXCEPT ![c] = z]
      BY <2>3 DEF ReadError
    <3>2. /\ z \in Socket /\ z.input = sock[c].input /\ z.arrived = sock[c].arrived
          /\ z.fin = sock[c].fin /\ z.reset = "reported"
      BY <2>1 DEF Socket
    <3> HIDE DEF z
    <3> QED
      BY <2>1, <2>3, <3>1, <3>2
  <2>4. CASE ReadComplete(c) /\ ~ReadData(c)
    BY <2>1, <2>4 DEF ReadComplete
  <2> QED
    BY <2>2, <2>3, <2>4
<1>3. TypeOK'
  BY <1>2 DEF ReadData, ReadError, ReadComplete, TypeOK, Pcs
<1>4. ChanInv' /\ QueueInv'
  BY <1>1, <1>2, ChanSame, QueueSame DEF Queue
<1>5. LoopInv'
  BY <1>1 DEF ReadData, ReadError, ReadComplete, LoopInv, InEvent
<1>6. ReadData(c) => ~chan[c].inClosed
  BY <1>1, <1>2 DEF InputInv
<1>7. /\ pc' # "closing"
      /\ pc' = "handler" /\ resume' = "closing" => sock[c].input = 0 /\ Ended(sock[c]) /\ ~ReadData(c)
  BY DEF ReadData, ReadError, ReadComplete, Ended
<1>8. InputInv'
  <2>1. ASSUME NEW d \in Chans
        PROVE  /\ sock'[d].input <= sock'[d].arrived
               /\ chan'[d].inClosed /\ (~chan'[d].outClosed \/ d \in cur') =>
                    sock'[d].input = 0 /\ Ended(sock'[d])
               /\ d \in cur' /\ (pc' = "closing" \/ (pc' = "handler" /\ resume' = "closing")) =>
                    sock'[d].input = 0 /\ Ended(sock'[d])
    <3>1. CASE d = c
      <4>1. sock[c].input \in Nat /\ sock[c].arrived \in Nat /\ sock'[c].input \in Nat
        BY <1>2 DEF TypeOK, Socket
      <4> QED
        BY <1>1, <1>2, <1>6, <1>7, <3>1, <4>1 DEF InputInv, Ended
    <3>2. CASE d # c
      <4>1. d \notin cur
        BY <1>1, <3>2 DEF LoopInv, InEvent
      <4> QED
        BY <1>1, <1>2, <3>2, <4>1 DEF InputInv
    <3> QED
      BY <3>1, <3>2
  <2> QED
    BY <2>1 DEF InputInv
<1> QED
  BY <1>1, <1>3, <1>4, <1>5, <1>6, <1>8

\* The tasks that are swapped out are those that waited, in their order.
LEMMA SwapKeeps ==
  ASSUME Inv, SwapTasks
  PROVE  Inv'
<1> USE DEF SwapTasks, Inv
<1>1. tasks \in Seq(Task) /\ running = <<>>
  BY DEF TypeOK, LoopInv
<1>2. Queue' = Queue
  <2>1. tasks \o <<>> = <<>> \o tasks
    BY <1>1, ConcatEmptySeq
  <2> QED
    BY <1>1, <2>1 DEF Queue
<1>3. TypeOK'
  BY DEF TypeOK, Pcs
<1>4. ChanInv' /\ QueueInv'
  BY <1>2, ChanSame, QueueSame
<1>5. LoopInv'
  BY DEF LoopInv, InEvent
<1>6. InputInv'
  BY DEF InputInv
<1> QED
  BY <1>3, <1>4, <1>5, <1>6

\* What is left to see of a task that ran: no event is being processed meanwhile.
LEMMA RunRest ==
  ASSUME Inv, pc = "run", running # <<>>, UNCHANGED <<batch, cur, calls, active, closed>>,
         (pc' = "run" /\ resume' = resume) \/ (pc' = "handler" /\ resume' = "run"),
         chan' \in [Chans -> Channel], tasks' \in Seq(Task), running' \in Seq(Task), SocketsKept,
         \A d \in Chans : chan'[d].inClosed /\ ~chan'[d].outClosed =>
                            chan[d].inClosed /\ ~chan[d].outClosed,
         ChanInv', QueueInv'
  PROVE  Inv'
<1> USE DEF Inv
<1>1. cur = {} /\ cur' = {} /\ resume' \in Pcs /\ pc' \in Pcs
  BY DEF LoopInv, InEvent, TypeOK, Pcs
<1>2. TypeOK'
  BY <1>1 DEF TypeOK, SocketsKept
<1>3. LoopInv'
  BY <1>1 DEF LoopInv, InEvent
<1>4. InputInv'
  BY <1>1 DEF InputInv, SocketsKept, Ended
<1> QED
  BY <1>2, <1>3, <1>4

\* The tasks of execute_tasks.
LEMMA RunKeeps ==
  ASSUME Inv, RunRegister \/ RunWriteOrFinish \/ RunFlush \/ RunDisconnect \/ RunInactive
  PROVE  Inv'
<1> DEFINE t == Head(running)
           c == t.ch
<1>1. /\ pc = "run" /\ running # <<>> /\ running' = Tail(running)
      /\ UNCHANGED <<batch, cur, calls, active, closed>>
      /\ (pc' = "run" /\ resume' = resume) \/ (pc' = "handler" /\ resume' = "run")
  <2>1. CASE RunFlush
    <3>1. pc = "run" /\ running # <<>> /\ running' = Tail(running)
          /\ UNCHANGED <<batch, cur, calls, active, closed>>
      BY <2>1 DEF RunFlush, Running
    <3>2. \/ pc' = "handler" /\ resume' = "run"
          \/ WriteOut(c, Gather(chan[c]), "run")
      BY <2>1 DEF RunFlush, Handle
    <3>3. ASSUME WriteOut(c, Gather(chan[c]), "run")
          PROVE  (pc' = "run" /\ resume' = resume) \/ (pc' = "handler" /\ resume' = "run")
      <4>1. Handle("run") \/ (pc' = "run" /\ UNCHANGED resume)
        BY <3>3, Zenon DEF WriteOut
      <4> QED
        BY <4>1 DEF Handle
    <3> QED
      BY <3>1, <3>2, <3>3
  <2>2. CASE RunRegister \/ RunWriteOrFinish \/ RunDisconnect \/ RunInactive
    BY <2>2 DEF RunRegister, RunWriteOrFinish, RunDisconnect, RunInactive, Running, Handle
  <2> QED
    BY <2>1, <2>2
<1>2. t \in Task /\ c \in Chans /\ Timely(t, chan[c]) /\ sock \in [Chans -> Socket]
      /\ tasks \in Seq(Task)
  BY <1>1, First DEF Inv, TypeOK
<1>3. sock' = sock => SocketsKept
  BY <1>2 DEF SocketsKept
<1>4. PICK v \in Task : v.ch = c /\ <<>> # <<v>>
  BY <1>2, SomeTask
<1>5. CASE RunRegister
  <2>1. t.op = "register" /\ Become(c, Register(chan[c]), <<>>) /\ sock' = sock
    BY <1>5 DEF RunRegister, Running
  <2>2. /\ chan' \in [Chans -> Channel] /\ Others(c)
        /\ chan'[c].inClosed = chan[c].inClosed /\ chan'[c].outClosed = chan[c].outClosed
        /\ tasks' \in Seq(Task) /\ running' \in Seq(Task)
        /\ ChanInv' /\ QueueInv'
    BY <1>1, <1>2, <2>1, RegisterStep
  <2> QED
    BY <1>1, <1>3, <2>1, <2>2, RunRest DEF Others
<1>6. CASE RunWriteOrFinish
  <2>1. PICK s : /\ s = Write(chan[c]) \/ s = Finish(chan[c])
                 /\ Become(c, s, <<>>) /\ sock' = sock /\ t.op \in {"write", "finish"}
    BY <1>6 DEF RunWriteOrFinish, Running
  <2>2. chan[c].life \in {"active", "inactive"}
    BY <1>2, <2>1 DEF Timely
  <2>3. /\ chan' \in [Chans -> Channel] /\ Others(c) /\ Quiet(chan[c], chan'[c])
        /\ tasks' \in Seq(Task) /\ running' \in Seq(Task)
        /\ ChanInv' /\ QueueInv'
    BY <1>1, <1>2, <1>4, <2>1, <2>2, QuietStep DEF Takes
  <2> QED
    BY <1>1, <1>3, <2>1, <2>3, RunRest DEF Others, Quiet
<1>7. CASE RunFlush
  <2>1. t.op = "flush"
    BY <1>7 DEF RunFlush, Running
  <2>2. chan[c].life \in {"active", "inactive"}
    BY <1>2, <2>1 DEF Timely
  <2>3. CASE chan[c].finished
    <3>1. chan' = chan /\ tasks' = tasks /\ sock' = sock
      BY <1>7, <2>3 DEF RunFlush
    <3>2. Become(c, chan[c], <<>>)
      <4>1. chan' = [chan EXCEPT ![c] = chan[c]]
        BY <1>2, <3>1 DEF Inv, TypeOK
      <4>2. InactiveTasks(c, chan[c]) = <<>>
        <5>1. chan[c].inactives \in Nat
          BY <1>2 DEF Inv, TypeOK, Channel
        <5>2. 1 .. (chan[c].inactives - chan[c].inactives) = {}
          BY <5>1
        <5> QED
          BY <5>2 DEF InactiveTasks
      <4>3. tasks \o (<<>> \o <<>>) = tasks
        BY <1>2, ConcatEmptySeq
      <4> QED
        BY <3>1, <4>1, <4>2, <4>3 DEF Become, Offer
    <3>3. /\ chan' \in [Chans -> Channel]
          /\ tasks' \in Seq(Task) /\ running' \in Seq(Task)
          /\ ChanInv' /\ QueueInv'
      BY <1>1, <1>2, <1>4, <2>2, <3>1, <3>2, QuietStep DEF Takes
    <3> QED
      BY <1>1, <1>3, <3>1, <3>3, RunRest
  <2>4. CASE ~chan[c].finished
    <3>1. PICK r, o : /\ r = Gather(chan[c]) /\ o \in Sends(c, r)
                      /\ Become(c, BeginWrite(r, o), <<>>)
                      /\ sock' = [sock EXCEPT ![c] = AfterSend(@, r, o)]
      BY <1>7, <2>4 DEF RunFlush, WriteOut
    <3>2. /\ chan' \in [Chans -> Channel] /\ Others(c)
          /\ tasks' \in Seq(Task) /\ running' \in Seq(Task)
          /\ ChanInv' /\ QueueInv' /\ SocketsKept
          /\ chan'[c].inClosed = chan[c].inClosed
          /\ chan[c].outClosed => chan'[c].outClosed
      <4>1. Takes
        BY <1>1 DEF Takes
      <4> QED
        BY <1>2, <2>2, <2>4, <3>1, <4>1, SendStep
    <3>3. \A d \in Chans : chan'[d].inClosed /\ ~chan'[d].outClosed =>
                            chan[d].inClosed /\ ~chan[d].outClosed
      BY <3>2 DEF Others
    <3> QED
      BY <1>1, <3>2, <3>3, RunRest
  <2> QED
    BY <2>3, <2>4
<1>8. CASE RunDisconnect
  <2>1. t.op = "disconnect" /\ sock' = sock
    BY <1>8 DEF RunDisconnect, Running
  <2>2. CASE t.left = 1
    <3>1. Become(c, Disconnect(chan[c]), <<>>)
      BY <1>8, <2>2 DEF RunDisconnect
    <3>2. /\ chan' \in [Chans -> Channel] /\ Others(c) /\ chan'[c].inClosed /\ chan'[c].outClosed
          /\ tasks' \in Seq(Task) /\ running' \in Seq(Task)
          /\ ChanInv' /\ QueueInv'
      BY <1>1, <2>1, <3>1, DisconnectStep
    <3>3. \A d \in Chans : chan'[d].inClosed /\ ~chan'[d].outClosed =>
                            chan[d].inClosed /\ ~chan[d].outClosed
      BY <3>2 DEF Others
    <3> QED
      BY <1>1, <1>3, <2>1, <3>2, <3>3, RunRest
  <2>3. CASE t.left # 1
    <3> DEFINE k == t.left - 1
               w == [t EXCEPT !.left = k]
    <3>1. Become(c, chan[c], <<w>>)
      BY <1>8, <2>3 DEF RunDisconnect
    <3>2. k \in Nat /\ k > 0 /\ chan[c].asked > 0 /\ chan[c].life \in {"active", "inactive"}
      BY <1>2, <2>1, <2>3 DEF Timely, Task
    <3> HIDE DEF k, t
    <3>3. w \in Task /\ w.op = "disconnect" /\ w.ch = c /\ w.left > 0
      BY <1>2, <2>1, <3>2 DEF Task
    <3> HIDE DEF w
    <3>4. Timely(w, chan[c]) /\ \A u \in ToSet(Queue) : Ordered(u, w)
      BY <3>2, <3>3 DEF Timely, Ordered, DataOps
    <3>5. Takes
      BY <1>1 DEF Takes, t
    <3>6. /\ chan' \in [Chans -> Channel] /\ Others(c) /\ Quiet(chan[c], chan'[c])
          /\ tasks' \in Seq(Task) /\ running' \in Seq(Task)
          /\ ChanInv' /\ QueueInv'
      BY <1>2, <2>1, <3>1, <3>2, <3>3, <3>4, <3>5, QuietStep
    <3> QED
      BY <1>1, <1>3, <2>1, <3>6, RunRest DEF Others, Quiet, t
  <2> QED
    BY <2>2, <2>3
<1>9. CASE RunInactive
  <2>1. /\ t.op = "inactive" /\ sock' = sock
        /\ Become(c, [chan[c] EXCEPT !.life = "inactive"],
                  IF t.left = 1 THEN <<>> ELSE <<[t EXCEPT !.left = @ - 1]>>)
    BY <1>9 DEF RunInactive, Running
  <2>2. /\ chan' \in [Chans -> Channel] /\ Others(c)
        /\ chan'[c].inClosed = chan[c].inClosed /\ chan'[c].outClosed = chan[c].outClosed
        /\ tasks' \in Seq(Task) /\ running' \in Seq(Task)
        /\ ChanInv' /\ QueueInv'
    BY <1>1, <2>1, InactiveStep
  <2> QED
    BY <1>1, <1>3, <2>1, <2>2, RunRest DEF Others
<1> QED
  BY <1>5, <1>6, <1>7, <1>8, <1>9

\* What is left to see of what a handler, or another thread, does to one channel.
LEMMA HandlerRest ==
  ASSUME Inv, UNCHANGED <<loopVars, running, closed>>,
         chan' \in [Chans -> Channel], tasks' \in Seq(Task), SocketsKept,
         \A d \in Chans : /\ chan'[d].inClosed => chan[d].inClosed
                          /\ chan[d].outClosed => chan'[d].outClosed
                          /\ chan[d].life = "active" => chan'[d].life = "active",
         ChanInv', QueueInv'
  PROVE  Inv'
<1> USE DEF Inv, loopVars
<1>1. TypeOK'
  BY DEF TypeOK, SocketsKept
<1>2. LoopInv'
  <2>1. cur \subseteq Chans
    BY DEF TypeOK
  <2> QED
    BY <2>1 DEF LoopInv, InEvent
<1>3. InputInv'
  BY InputKept DEF AtClosing
<1> QED
  BY <1>1, <1>2, <1>3

\* The handlers.
LEMMA HandlerKeeps ==
  ASSUME Inv, NEW c \in Chans,
         HandlerWrite(c) \/ HandlerFlush(c) \/ HandlerFinish(c) \/ HandlerDisconnect(c)
           \/ RegisterHere(c)
  PROVE  Inv'
<1>1. running' = running /\ UNCHANGED <<loopVars, running, closed>> /\ Takes
  BY DEF HandlerWrite, HandlerFlush, HandlerFinish, HandlerDisconnect, RegisterHere, Takes
<1>2. sock' = sock => SocketsKept
  BY DEF SocketsKept, Inv, TypeOK
<1>3. PICK v \in Task : v.ch = c /\ <<>> # <<v>>
  BY SomeTask
<1>4. CASE HandlerWrite(c) \/ HandlerFinish(c) \/ HandlerDisconnect(c)
  <2>1. /\ sock' = sock /\ chan' \in [Chans -> Channel] /\ Others(c) /\ Quiet(chan[c], chan'[c])
        /\ tasks' \in Seq(Task) /\ running' \in Seq(Task)
        /\ ChanInv' /\ QueueInv'
    <3>1. CASE HandlerDisconnect(c)
      BY <1>1, <3>1, AskStep DEF HandlerDisconnect
    <3>2. CASE HandlerWrite(c) \/ HandlerFinish(c)
      <4>1. PICK s : /\ s = Write(chan[c]) \/ s = Finish(chan[c])
                     /\ Become(c, s, <<>>)
                     /\ sock' = sock /\ chan[c].life \in {"active", "inactive"}
        BY <3>2 DEF HandlerWrite, HandlerFinish, Reachable
      <4> QED
        BY <1>1, <1>3, <4>1, QuietStep
    <3> QED
      BY <1>4, <3>1, <3>2
  <2> QED
    BY <1>1, <1>2, <2>1, HandlerRest DEF Others, Quiet
<1>5. CASE HandlerFlush(c)
  <2>1. PICK r, o : /\ r = Gather(chan[c]) /\ o \in Sends(c, r)
                    /\ Become(c, BeginWrite(r, o), <<>>)
                    /\ sock' = [sock EXCEPT ![c] = AfterSend(@, chan[c], o)]
    BY <1>5 DEF HandlerFlush
  <2>2. chan[c].life \in {"active", "inactive"} /\ ~chan[c].finished
    BY <1>5 DEF HandlerFlush, Reachable
  <2>3. OutputShut(chan[c]) = OutputShut(r)
    <3>1. chan[c] \in Channel /\ Sound(chan[c])
      BY DEF Inv, TypeOK, ChanInv
    <3> QED
      BY <2>1, <3>1, GatherFields DEF OutputShut
  <2>4. /\ chan' \in [Chans -> Channel] /\ Others(c)
        /\ tasks' \in Seq(Task) /\ running' \in Seq(Task)
        /\ ChanInv' /\ QueueInv' /\ SocketsKept
        /\ chan'[c].life = chan[c].life
        /\ chan'[c].inClosed = chan[c].inClosed
        /\ chan[c].outClosed => chan'[c].outClosed
    BY <1>1, <2>1, <2>2, <2>3, SendStep
  <2> QED
    BY <1>1, <2>4, HandlerRest DEF Others
<1>6. CASE RegisterHere(c)
  <2>1. sock' = sock /\ chan[c].life = "new" /\ Become(c, Register(Interested(chan[c])), <<>>)
    BY <1>6 DEF RegisterHere
  <2>2. /\ chan' \in [Chans -> Channel] /\ Others(c) /\ chan'[c].life = "active"
        /\ chan'[c].inClosed = chan[c].inClosed /\ chan'[c].outClosed = chan[c].outClosed
        /\ tasks' \in Seq(Task) /\ running' \in Seq(Task)
        /\ ChanInv' /\ QueueInv'
    BY <1>1, <2>1, RegisterStep
  <2> QED
    BY <1>1, <1>2, <2>1, <2>2, HandlerRest DEF Others
<1> QED
  BY <1>4, <1>5, <1>6

\* Other threads: what they post after a disconnect is not early.
LEMMA OutsideKeeps ==
  ASSUME Inv, NEW c \in Chans,
         \/ LoopRegister(c) \/ DisconnectFromOutside(c)
         \/ \E op \in {"write", "flush", "finish"} : Post(c, op)
  PROVE  Inv'
<1>1. running' = running /\ UNCHANGED <<loopVars, running, closed>> /\ sock' = sock
  BY DEF LoopRegister, DisconnectFromOutside, Post
<1>2. SocketsKept
  BY <1>1 DEF SocketsKept, Inv, TypeOK
<1>3. CASE LoopRegister(c)
  <2>1. /\ chan' \in [Chans -> Channel] /\ Others(c) /\ chan[c].life = "new"
        /\ chan'[c].inClosed = chan[c].inClosed /\ chan'[c].outClosed = chan[c].outClosed
        /\ tasks' \in Seq(Task) /\ ChanInv' /\ QueueInv'
    BY <1>3, PostedStep
  <2> QED
    BY <1>1, <1>2, <2>1, HandlerRest DEF Others
<1>4. CASE DisconnectFromOutside(c)
  <2>1. /\ chan' \in [Chans -> Channel] /\ Others(c) /\ Quiet(chan[c], chan'[c])
        /\ tasks' \in Seq(Task) /\ ChanInv' /\ QueueInv'
    BY <1>1, <1>4, AskStep DEF DisconnectFromOutside
  <2> QED
    BY <1>1, <1>2, <2>1, HandlerRest DEF Others, Quiet
<1>5. ASSUME NEW op \in {"write", "flush", "finish"}, Post(c, op) PROVE Inv'
  <2> DEFINE t == NewTask(op, c, Hops)
  <2>1. TypeOK /\ chan' = chan /\ chan[c].life \in {"active", "inactive"} /\ chan[c] \in Channel
    BY <1>5 DEF Post, Reachable, Inv, TypeOK
  <2>2. /\ t \in Task /\ t.op = op /\ t.ch = c /\ t.left = Hops /\ Hops > 0
        /\ t.early = (chan[c].asked = 0)
    BY <2>1, NewTaskType, ChannelAssumption DEF Ops
  <2>3. tasks' = tasks \/ tasks' = tasks \o <<t>>
    BY <1>5 DEF Post, Offer
  <2>10. t.early => chan[c].asked = 0
    BY DEF NewTask
  <2> HIDE DEF t
  <2>9. t.early => ~(chan[c].asked > 0)
    <3>1. chan[c].asked \in Nat
      BY <2>1 DEF Channel
    <3> QED
      BY <2>10, <3>1
  <2>4. Timely(t, chan[c])
    <3>1. chan[c].outClosed /\ ~chan[c].finished => chan[c].asked > 0
      BY DEF Inv, ChanInv, Sound
    <3> QED
      BY <2>1, <2>2, <2>9, <3>1 DEF Timely, DataOps
  <2>5. ASSUME NEW u \in ToSet(Queue) PROVE Ordered(u, t)
    <3>1. Timely(u, chan[u.ch])
      BY Waiting
    <3>2. u.op = "disconnect" /\ u.ch = c => ~t.early
      BY <2>9, <3>1 DEF Timely
    <3> QED
      BY <2>2, <3>2 DEF Ordered
  <2>6. /\ Queue \in Seq(Task) /\ tasks' \in Seq(Task)
        /\ Queue' = IF tasks' = tasks THEN Queue ELSE Queue \o <<t>>
    BY <1>1, <2>1, <2>2, <2>3, QueueMoves DEF TypeOK
  <2>7. QueueInv'
    <3>1. InOrder(Queue) /\ \A u \in ToSet(Queue) : Timely(u, chan'[u.ch])
      BY <2>1 DEF Inv, QueueInv
    <3>2. Timely(t, chan'[t.ch]) /\ \A u \in ToSet(Queue) : Ordered(u, t)
      BY <2>1, <2>2, <2>4, <2>5
    <3> QED
      BY <2>2, <2>6, <3>1, <3>2, QueueKept
  <2>8. ChanInv'
    BY <1>1, <2>1, ChanSame
  <2> QED
    BY <1>1, <1>2, <2>1, <2>6, <2>7, <2>8, HandlerRest DEF TypeOK
<1> QED
  BY <1>3, <1>4, <1>5

\* trigger_write.
LEMMA WriteKeeps ==
  ASSUME Inv, NEW c \in Chans, TriggerWrite(c)
  PROVE  Inv'
<1> USE DEF Inv
<1>1. /\ pc = "event" /\ c \in cur /\ calls' = calls \ {"write"}
      /\ UNCHANGED <<batch, cur, active, running, closed>>
  BY DEF TriggerWrite
<1>2. PICK o \in Sends(c, chan[c]) :
        /\ Become(c, BeginWrite(chan[c], o), <<>>)
        /\ sock' = [sock EXCEPT ![c] = AfterSend(@, chan[c], o)]
        /\ (pc' = "handler" /\ resume' = "event") \/ (pc' = "event" /\ resume' = resume)
  <2>1. WriteOut(c, chan[c], "event")
    BY DEF TriggerWrite
  <2> QED
    BY <2>1 DEF WriteOut, Handle
<1>3. cur = {c} /\ chan[c].life = "active"
  BY <1>1 DEF LoopInv, InEvent
<1>4. /\ chan' \in [Chans -> Channel] /\ Others(c)
      /\ tasks' \in Seq(Task)
      /\ ChanInv' /\ QueueInv' /\ SocketsKept
      /\ chan'[c].life = chan[c].life
      /\ chan'[c].inClosed = chan[c].inClosed
      /\ chan[c].outClosed => chan'[c].outClosed
  <2>1. Takes
    BY <1>1 DEF Takes
  <2> QED
    BY <1>2, <1>3, <2>1, SendStep
<1>5. TypeOK'
  BY <1>1, <1>2, <1>4 DEF TypeOK, SocketsKept, Pcs
<1>6. LoopInv'
  BY <1>1, <1>2, <1>3, <1>4 DEF LoopInv, InEvent
<1>7. InputInv'
  <2>1. AtClosing' => AtClosing
    BY <1>2 DEF AtClosing
  <2> QED
    BY <1>1, <1>4, <2>1, InputKept DEF Others
<1> QED
  BY <1>4, <1>5, <1>6, <1>7

\* shutdown_input at the end of the input: there was nothing more to read.
LEMMA CloseKeeps ==
  ASSUME Inv, NEW c \in Chans, CloseInput(c)
  PROVE  Inv' /\ c \in cur /\ sock[c].input = 0 /\ Ended(sock[c])
<1> USE DEF Inv
<1>1. /\ pc = "closing" /\ c \in cur /\ sock' = sock /\ running' = running
      /\ Become(c, ShutdownInput(chan[c]), <<>>)
      /\ pc' = "handler" /\ resume' = "event"
      /\ UNCHANGED <<batch, cur, calls, active, closed>>
  BY DEF CloseInput, Handle
<1>2. cur = {c} /\ chan[c].life = "active"
  BY <1>1 DEF LoopInv, InEvent
<1>3. /\ chan' \in [Chans -> Channel] /\ Others(c) /\ chan'[c].life = "active"
      /\ chan'[c].outClosed = chan[c].outClosed
      /\ tasks' \in Seq(Task) /\ ChanInv' /\ QueueInv'
  BY <1>1, <1>2, InputStep
<1>4. sock[c].input = 0 /\ Ended(sock[c])
  BY <1>1 DEF InputInv
<1>5. TypeOK'
  BY <1>1, <1>3 DEF TypeOK, Pcs
<1>6. LoopInv'
  BY <1>1, <1>2, <1>3 DEF LoopInv, InEvent
<1>7. InputInv'
  <2>1. ASSUME NEW d \in Chans
        PROVE  /\ sock'[d].input <= sock'[d].arrived
               /\ chan'[d].inClosed /\ (~chan'[d].outClosed \/ d \in cur') =>
                    sock'[d].input = 0 /\ Ended(sock'[d])
               /\ d \in cur' /\ (pc' = "closing" \/ (pc' = "handler" /\ resume' = "closing")) =>
                    sock'[d].input = 0 /\ Ended(sock'[d])
    BY <1>1, <1>3, <1>4 DEF InputInv, Others
  <2> QED
    BY <2>1 DEF InputInv
<1> QED
  BY <1>1, <1>3, <1>4, <1>5, <1>6, <1>7

\* What a step of a peer does to its socket.
LEMMA PeerStep ==
  ASSUME Inv, NEW c \in Chans, PeerSends(c) \/ PeerCloses(c) \/ PeerResets(c) \/ PeerReads(c)
  PROVE  /\ sock' \in [Chans -> Socket] /\ \A d \in Chans \ {c} : sock'[d] = sock[d]
         /\ sock[c].reset # "no" => sock'[c].reset # "no"
         /\ PeerSends(c) => /\ ~Ended(sock[c]) /\ sock'[c].input = sock[c].input + 1
                            /\ sock'[c].arrived = sock[c].arrived + 1
                            /\ sock'[c].fin = sock[c].fin /\ sock'[c].reset = sock[c].reset
         /\ ~PeerSends(c) => /\ sock'[c].input = sock[c].input
                             /\ sock'[c].arrived = sock[c].arrived
                             /\ sock[c].fin => sock'[c].fin
         /\ PeerReads(c) => sock'[c].fin = sock[c].fin /\ sock'[c].reset = sock[c].reset
<1>1. /\ sock \in [Chans -> Socket] /\ sock[c] \in Socket
      /\ sock[c].input \in Nat /\ sock[c].arrived \in Nat /\ sock[c].room \in Nat
  BY DEF Inv, TypeOK, Socket
<1> DEFINE k == sock[c].input + 1
           m == sock[c].arrived + 1
           n == sock[c].room + 1
<1>2. k \in Nat /\ m \in Nat /\ n \in Nat /\ k # sock[c].input /\ n # sock[c].room
  BY <1>1
<1>3. CASE PeerSends(c)
  <2> DEFINE z == [sock[c] EXCEPT !.input = k, !.arrived = m]
  <2>1. sock' = [sock EXCEPT ![c] = z] /\ ~Ended(sock[c])
    BY <1>1, <1>3 DEF PeerSends, Connected, Ended
  <2> HIDE DEF k, m
  <2>2. /\ z \in Socket /\ z.input = k /\ z.arrived = m /\ z.fin = sock[c].fin
        /\ z.reset = sock[c].reset /\ z.room = sock[c].room
    BY <1>1, <1>2 DEF Socket
  <2> HIDE DEF z
  <2>3. sock' \in [Chans -> Socket] /\ sock'[c] = z /\ \A d \in Chans \ {c} : sock'[d] = sock[d]
    BY <1>1, <2>1, <2>2
  <2> QED
    BY <1>3, <2>1, <2>2, <2>3 DEF k, m
<1>4. CASE ~PeerSends(c) /\ PeerReads(c)
  <2> DEFINE z == [sock[c] EXCEPT !.room = n]
  <2>1. sock' = [sock EXCEPT ![c] = z]
    BY <1>1, <1>4 DEF PeerReads
  <2> HIDE DEF n
  <2>2. /\ z \in Socket /\ z.input = sock[c].input /\ z.arrived = sock[c].arrived
        /\ z.fin = sock[c].fin /\ z.reset = sock[c].reset
    BY <1>1, <1>2 DEF Socket
  <2> HIDE DEF z
  <2> QED
    BY <1>1, <1>4, <2>1, <2>2
<1>5. CASE ~PeerSends(c) /\ ~PeerReads(c)
  <2>1. CASE PeerCloses(c)
    <3> DEFINE z == [sock[c] EXCEPT !.fin = TRUE]
    <3>1. sock' = [sock EXCEPT ![c] = z]
      BY <2>1 DEF PeerCloses
    <3>2. /\ z \in Socket /\ z.input = sock[c].input /\ z.arrived = sock[c].arrived
          /\ z.fin /\ z.reset = sock[c].reset
      BY <1>1 DEF Socket
    <3> HIDE DEF z
    <3> QED
      BY <1>1, <1>5, <3>1, <3>2
  <2>2. CASE PeerResets(c)
    <3> DEFINE z == [sock[c] EXCEPT !.reset = "pending"]
    <3>1. sock' = [sock EXCEPT ![c] = z]
      BY <2>2 DEF PeerResets
    <3>2. /\ z \in Socket /\ z.input = sock[c].input /\ z.arrived = sock[c].arrived
          /\ z.fin = sock[c].fin /\ z.reset = "pending"
      BY <1>1 DEF Socket
    <3> HIDE DEF z
    <3> QED
      BY <1>1, <1>5, <3>1, <3>2
  <2> QED
    BY <1>5, <2>1, <2>2
<1> QED
  BY <1>3, <1>4, <1>5

\* The peers: none sends after it closed or was reset.
LEMMA PeerKeeps ==
  ASSUME Inv, NEW c \in Chans, PeerSends(c) \/ PeerCloses(c) \/ PeerResets(c) \/ PeerReads(c)
  PROVE  Inv'
<1> USE DEF Inv, loopVars, taskVars
<1>1. UNCHANGED <<loopVars, taskVars, chan>>
  BY DEF PeerSends, PeerCloses, PeerResets, PeerReads
<1>2. /\ sock' \in [Chans -> Socket] /\ \A d \in Chans \ {c} : sock'[d] = sock[d]
      /\ sock[c].reset # "no" => sock'[c].reset # "no"
      /\ PeerSends(c) => /\ ~Ended(sock[c]) /\ sock'[c].input = sock[c].input + 1
                         /\ sock'[c].arrived = sock[c].arrived + 1
                         /\ sock'[c].fin = sock[c].fin /\ sock'[c].reset = sock[c].reset
      /\ ~PeerSends(c) => /\ sock'[c].input = sock[c].input
                          /\ sock'[c].arrived = sock[c].arrived
                          /\ sock[c].fin => sock'[c].fin
  BY PeerStep
<1>3. TypeOK'
  BY <1>1, <1>2 DEF TypeOK
<1>4. ChanInv' /\ QueueInv'
  BY <1>1, <1>2, ChanSame, QueueSame DEF Queue
<1>5. LoopInv'
  BY <1>1 DEF LoopInv, InEvent
<1>6. InputInv'
  <2>1. sock[c].input \in Nat /\ sock[c].arrived \in Nat /\ sock[c].input <= sock[c].arrived
    BY DEF TypeOK, Socket, InputInv
  <2>2. ASSUME NEW d \in Chans
        PROVE  /\ sock'[d].input <= sock'[d].arrived
               /\ chan'[d].inClosed /\ (~chan'[d].outClosed \/ d \in cur') =>
                    sock'[d].input = 0 /\ Ended(sock'[d])
               /\ d \in cur' /\ (pc' = "closing" \/ (pc' = "handler" /\ resume' = "closing")) =>
                    sock'[d].input = 0 /\ Ended(sock'[d])
    <3>1. CASE d # c
      BY <1>1, <1>2, <3>1 DEF InputInv
    <3>2. CASE d = c /\ PeerSends(c)
      BY <1>1, <1>2, <2>1, <3>2 DEF InputInv
    <3>3. CASE d = c /\ ~PeerSends(c)
      BY <1>1, <1>2, <2>1, <3>3 DEF InputInv, Ended
    <3> QED
      BY <3>1, <3>2, <3>3
  <2> QED
    BY <2>2 DEF InputInv
<1> QED
  BY <1>3, <1>4, <1>5, <1>6

\* The worker and its channels as set_loop leaves them.
LEMMA InitInv == Init => Inv
<1> SUFFICES ASSUME Init PROVE Inv
  OBVIOUS
<1>1. PICK kind \in [Chans -> Kinds] : chan = [c \in Chans |-> NewChannel(kind[c])]
  BY DEF Init
<1>2. \A c \in Chans : kind[c] \in {"stream", "file"}
  BY ChannelAssumption
<1>3. \A c \in Chans : NewChannel(kind[c]) \in Channel
  BY <1>2 DEF NewChannel, Channel
<1>4. \A c \in Chans : Sound(chan[c]) /\ chan[c].flushed = 0 /\ ~chan[c].inClosed
  BY <1>1 DEF NewChannel, Sound
<1>5. TypeOK
  <2>1. Room \in Nat
    BY ChannelAssumption
  <2>2. sock \in [Chans -> Socket]
    BY <2>1 DEF Init, Socket
  <2>3. chan \in [Chans -> Channel]
    BY <1>1, <1>3
  <2>4. <<>> \in Seq(Task)
    OBVIOUS
  <2> QED
    BY <2>2, <2>3, <2>4 DEF Init, TypeOK, Pcs
<1>6. ChanInv
  BY <1>4 DEF ChanInv, Drains
<1>7. LoopInv
  BY DEF Init, LoopInv, InEvent
<1>8. InputInv
  BY <1>4 DEF Init, InputInv
<1>9. QueueInv
  <2>1. Queue = <<>>
    BY DEF Init, Queue
  <2>2. Len(Queue) = 0 /\ DOMAIN Queue = {}
    BY <2>1
  <2> QED
    BY <2>2 DEF QueueInv, InOrder, ToSet
<1> QED
  BY <1>5, <1>6, <1>7, <1>8, <1>9 DEF Inv

\* Every step keeps the invariant.
LEMMA InvStep == Inv /\ [Next]_vars => Inv'
<1> SUFFICES ASSUME Inv, [Next]_vars PROVE Inv'
  OBVIOUS
<1>1. CASE UNCHANGED vars
  BY <1>1 DEF vars, loopVars, taskVars, Inv, TypeOK, ChanInv, LoopInv, InEvent, InputInv, QueueInv,
              Queue
<1>2. CASE LoopStep
  BY <1>2, IdleKeeps, SwapKeeps, RunKeeps, DispatchKeeps, WriteKeeps, ReadKeeps, CloseKeeps
     DEF LoopStep
<1>3. CASE SeeShutdown
  BY <1>3, IdleKeeps
<1>4. CASE HandlerStep
  BY <1>4, IdleKeeps, HandlerKeeps DEF HandlerStep
<1>5. CASE OutsideStep
  BY <1>5, OutsideKeeps, PeerKeeps DEF OutsideStep
<1> QED
  BY <1>1, <1>2, <1>3, <1>4, <1>5 DEF Next

\* The invariant holds for every set of channels, every number of handlers and every bound.
THEOREM Invariant == Spec => []Inv
<1>1. Init => Inv
  BY InitInv
<1>2. Inv /\ [Next]_vars => Inv'
  BY InvStep
<1> QED
  BY <1>1, <1>2, PTL DEF Spec

\* Every variable of a worker's channels keeps its type.
THEOREM ChannelTypeCorrect == Spec => []TypeOK
<1>1. Inv => TypeOK
  BY DEF Inv
<1> QED
  BY <1>1, Invariant, PTL

\* When the worker waits, the kernel watches what each of its channels is interested in, and
\* the worker has exactly the channels that have a half open.
THEOREM Watched == Spec => []WatchedAsWanted
<1>1. Inv => WatchedAsWanted
  BY DEF Inv, ChanInv, Sound, WatchedAsWanted
<1> QED
  BY <1>1, Invariant, PTL

\* begin_write shuts the output of a finished channel down only when every flushed byte is
\* gone: what the test of the interest rests on is that bytes that stay are always watched.
THEOREM Drained == Spec => []FinishDrains
<1>1. Inv => FinishDrains
  BY DEF Inv, ChanInv, Sound, FinishDrains
<1> QED
  BY <1>1, Invariant, PTL

\* A disconnect closes the output of a channel that is not finished only when everything
\* that was posted before it has run, from whatever thread and through whatever handlers.
THEOREM NotOvertaken == Spec => []NoOvertaking
<1>1. Inv => NoOvertaking
  <2> SUFFICES ASSUME Inv, NEW c \in Chans, chan[c].outClosed, ~chan[c].finished,
                      NEW t \in ToSet(running \o tasks), t.ch = c, t.op \in {"write", "flush", "finish"}
               PROVE  ~t.early
    BY DEF NoOvertaking
  <2>1. Timely(t, chan[c])
    BY Waiting DEF Queue
  <2> QED
    BY <2>1 DEF Timely, DataOps
<1> QED
  BY <1>1, Invariant, PTL

-----------------------------------------------------------------------------
(* The channels implement ChannelLife. *)

\* What the variables of ChannelLife are of these channels.
LifeOf(r) == IF r.life = "posted" THEN "new" ELSE r.life

OpenOf(r) == {h \in {"input", "output"} :
                \/ h = "input" /\ ~r.inClosed
                \/ h = "output" /\ ~r.outClosed}

barLife == [c \in Chans |-> IF chan[c].life = "posted" THEN "new" ELSE chan[c].life]
barOpen == [c \in Chans |-> {h \in {"input", "output"} :
                               \/ h = "input" /\ ~chan[c].inClosed
                               \/ h = "output" /\ ~chan[c].outClosed}]
barAnnounced == [c \in Chans |-> chan[c].inactives]
barArrived == [c \in Chans |-> sock[c].arrived]
barEnded == [c \in Chans |-> sock[c].fin \/ sock[c].reset # "no"]
barDelivered == [c \in Chans |-> sock[c].arrived - sock[c].input]
barSent == [c \in Chans |-> chan[c].sent]
barBusy == [c \in Chans |-> c \in cur]
barFile == [c \in Chans |-> chan[c].kind = "file"]

\* Only channel c, with its socket, takes the step.
Alone(c) ==
  /\ Others(c)
  /\ \A d \in Chans \ {c} : sock'[d] = sock[d] /\ (d \in cur' <=> d \in cur)

\* The variables of ChannelLife when one channel takes a step.
LEMMA BarsMove ==
  ASSUME NEW c \in Chans, Alone(c)
  PROVE  /\ barLife[c] = LifeOf(chan[c]) /\ barLife' = [barLife EXCEPT ![c] = LifeOf(chan'[c])]
         /\ LifeOf(chan'[c]) = LifeOf(chan[c]) => barLife' = barLife
         /\ barOpen[c] = OpenOf(chan[c]) /\ barOpen' = [barOpen EXCEPT ![c] = OpenOf(chan'[c])]
         /\ OpenOf(chan'[c]) = OpenOf(chan[c]) => barOpen' = barOpen
         /\ barAnnounced[c] = chan[c].inactives
         /\ barAnnounced' = [barAnnounced EXCEPT ![c] = chan'[c].inactives]
         /\ chan'[c].inactives = chan[c].inactives => barAnnounced' = barAnnounced
         /\ barArrived[c] = sock[c].arrived
         /\ barArrived' = [barArrived EXCEPT ![c] = sock'[c].arrived]
         /\ sock'[c].arrived = sock[c].arrived => barArrived' = barArrived
         /\ barEnded[c] = Ended(sock[c]) /\ barEnded' = [barEnded EXCEPT ![c] = Ended(sock'[c])]
         /\ (Ended(sock'[c]) <=> Ended(sock[c])) => barEnded' = barEnded
         /\ barDelivered[c] = sock[c].arrived - sock[c].input
         /\ barDelivered' = [barDelivered EXCEPT ![c] = sock'[c].arrived - sock'[c].input]
         /\ sock'[c].arrived - sock'[c].input = sock[c].arrived - sock[c].input =>
              barDelivered' = barDelivered
         /\ barSent[c] = chan[c].sent /\ barSent' = [barSent EXCEPT ![c] = chan'[c].sent]
         /\ chan'[c].sent = chan[c].sent => barSent' = barSent
         /\ barBusy[c] = (c \in cur) /\ barBusy' = [barBusy EXCEPT ![c] = c \in cur']
         /\ (c \in cur' <=> c \in cur) => barBusy' = barBusy
         /\ barFile[c] = (chan[c].kind = "file")
         /\ chan'[c].kind = chan[c].kind => barFile' = barFile
<1>1. /\ barLife[c] = LifeOf(chan[c]) /\ barLife' = [barLife EXCEPT ![c] = LifeOf(chan'[c])]
      /\ LifeOf(chan'[c]) = LifeOf(chan[c]) => barLife' = barLife
  BY DEF Alone, Others, barLife, LifeOf
<1>2. /\ barOpen[c] = OpenOf(chan[c]) /\ barOpen' = [barOpen EXCEPT ![c] = OpenOf(chan'[c])]
      /\ OpenOf(chan'[c]) = OpenOf(chan[c]) => barOpen' = barOpen
  <2>1. barOpen = [d \in Chans |-> OpenOf(chan[d])]
    BY DEF barOpen, OpenOf
  <2>2. barOpen' = [d \in Chans |-> OpenOf(chan'[d])]
    BY DEF barOpen, OpenOf
  <2> QED
    BY <2>1, <2>2 DEF Alone, Others
<1>3. /\ barAnnounced[c] = chan[c].inactives
      /\ barAnnounced' = [barAnnounced EXCEPT ![c] = chan'[c].inactives]
      /\ chan'[c].inactives = chan[c].inactives => barAnnounced' = barAnnounced
  BY DEF Alone, Others, barAnnounced
<1>4. /\ barArrived[c] = sock[c].arrived
      /\ barArrived' = [barArrived EXCEPT ![c] = sock'[c].arrived]
      /\ sock'[c].arrived = sock[c].arrived => barArrived' = barArrived
  BY DEF Alone, barArrived
<1>5. /\ barEnded[c] = Ended(sock[c]) /\ barEnded' = [barEnded EXCEPT ![c] = Ended(sock'[c])]
      /\ (Ended(sock'[c]) <=> Ended(sock[c])) => barEnded' = barEnded
  <2>1. barEnded = [d \in Chans |-> Ended(sock[d])]
    BY DEF barEnded, Ended
  <2>2. barEnded' = [d \in Chans |-> Ended(sock'[d])]
    BY DEF barEnded, Ended
  <2>3. \A d \in Chans : Ended(sock[d]) \in BOOLEAN /\ Ended(sock'[d]) \in BOOLEAN
    BY DEF Ended
  <2> QED
    BY <2>1, <2>2, <2>3 DEF Alone
<1>6. /\ barDelivered[c] = sock[c].arrived - sock[c].input
      /\ barDelivered' = [barDelivered EXCEPT ![c] = sock'[c].arrived - sock'[c].input]
      /\ sock'[c].arrived - sock'[c].input = sock[c].arrived - sock[c].input =>
           barDelivered' = barDelivered
  BY DEF Alone, barDelivered
<1>7. /\ barSent[c] = chan[c].sent /\ barSent' = [barSent EXCEPT ![c] = chan'[c].sent]
      /\ chan'[c].sent = chan[c].sent => barSent' = barSent
  BY DEF Alone, Others, barSent
<1>8. /\ barBusy[c] = (c \in cur) /\ barBusy' = [barBusy EXCEPT ![c] = c \in cur']
      /\ (c \in cur' <=> c \in cur) => barBusy' = barBusy
  <2>1. barBusy = [d \in Chans |-> d \in cur]
    BY DEF barBusy
  <2>2. barBusy' = [d \in Chans |-> d \in cur']
    BY DEF barBusy
  <2>3. \A d \in Chans \ {c} : (d \in cur') = (d \in cur)
    BY DEF Alone
  <2>4. barBusy[c] = (c \in cur)
    BY <2>1
  <2>5. barBusy' = [barBusy EXCEPT ![c] = c \in cur']
    BY <2>1, <2>2, <2>3
  <2>6. (c \in cur' <=> c \in cur) => barBusy' = barBusy
    <3> SUFFICES ASSUME c \in cur' <=> c \in cur PROVE barBusy' = barBusy
      OBVIOUS
    <3>1. \A d \in Chans : (d \in cur') = (d \in cur)
      BY <2>3
    <3> QED
      BY <2>1, <2>2, <3>1
  <2> QED
    BY <2>4, <2>5, <2>6
<1>9. /\ barFile[c] = (chan[c].kind = "file")
      /\ chan'[c].kind = chan[c].kind => barFile' = barFile
  BY DEF Alone, Others, barFile
<1> QED
  BY <1>1, <1>2, <1>3, <1>4, <1>5, <1>6, <1>7, <1>8, <1>9

\* What its handlers are told of a channel stays.
Told(r, s) ==
  /\ LifeOf(s) = LifeOf(r) /\ s.inClosed = r.inClosed /\ s.outClosed = r.outClosed
  /\ s.inactives = r.inactives /\ s.sent = r.sent /\ s.kind = r.kind

\* Nothing is told of what happened; at most, the peer has gone.
LEMMA SameLife ==
  ASSUME NEW c \in Chans, Alone(c), Told(chan[c], chan'[c]),
         sock'[c].input = sock[c].input, sock'[c].arrived = sock[c].arrived,
         Ended(sock[c]) => Ended(sock'[c]), cur' = cur
  PROVE  Life!Next \/ UNCHANGED Life!lifeVars
<1>1. OpenOf(chan'[c]) = OpenOf(chan[c])
  BY DEF Told, OpenOf
<1>2. UNCHANGED <<barLife, barOpen, barAnnounced, barArrived, barDelivered, barSent, barBusy, barFile>>
  BY <1>1, BarsMove DEF Told
<1>3. CASE Ended(sock'[c]) <=> Ended(sock[c])
  <2>1. barEnded' = barEnded
    BY <1>3, BarsMove
  <2> QED
    BY <1>2, <2>1 DEF Life!lifeVars, Life!rest, barLife, barOpen, barAnnounced, barArrived, barEnded,
                      barDelivered, barSent, barBusy, barFile
<1>4. CASE Ended(sock'[c]) /\ ~Ended(sock[c])
  <2>1. barEnded' = [barEnded EXCEPT ![c] = TRUE]
    <3>1. Ended(sock'[c]) = TRUE
      BY <1>4 DEF Ended
    <3> QED
      BY <3>1, BarsMove
  <2>2. Life!PeerEnds(c)
    BY <1>2, <2>1 DEF Life!PeerEnds, Life!rest, barLife, barOpen, barAnnounced, barArrived, barEnded,
                      barDelivered, barSent, barBusy, barFile
  <2> QED
    BY <2>2 DEF Life!Next
<1> QED
  BY <1>3, <1>4

\* Halves close, and the last one announces on_inactive.
LEMMA CloseLife ==
  ASSUME NEW c \in Chans, Alone(c), chan[c] \in Channel, chan'[c] \in Channel,
         chan[c].life = "active",
         NEW S, S = {"input"} \/ S = {"output"} \/ S = {"input", "output"},
         chan'[c].inClosed <=> chan[c].inClosed \/ "input" \in S,
         chan'[c].outClosed <=> chan[c].outClosed \/ "output" \in S,
         chan'[c].inactives = IF /\ ~(chan[c].inClosed /\ chan[c].outClosed)
                                 /\ chan'[c].inClosed /\ chan'[c].outClosed
                              THEN chan[c].inactives + 1 ELSE chan[c].inactives
  PROVE  Life!Close(c, S)
<1>1. OpenOf(chan'[c]) = OpenOf(chan[c]) \ S
  BY DEF OpenOf
<1>2. (OpenOf(chan[c]) # {} /\ OpenOf(chan[c]) \subseteq S) <=>
        /\ ~(chan[c].inClosed /\ chan[c].outClosed)
        /\ chan'[c].inClosed /\ chan'[c].outClosed
  <2>1. /\ "input" \in OpenOf(chan[c]) <=> ~chan[c].inClosed
        /\ "output" \in OpenOf(chan[c]) <=> ~chan[c].outClosed
        /\ \A h \in OpenOf(chan[c]) : h \in {"input", "output"}
    BY DEF OpenOf
  <2>2. OpenOf(chan[c]) # {} <=> ~(chan[c].inClosed /\ chan[c].outClosed)
    BY <2>1
  <2>3. OpenOf(chan[c]) \subseteq S <=> chan'[c].inClosed /\ chan'[c].outClosed
    BY <2>1
  <2> QED
    BY <2>2, <2>3
<1>3. barLife[c] = "active"
  BY BarsMove DEF LifeOf
<1>4. barOpen' = [barOpen EXCEPT ![c] = @ \ S]
  BY <1>1, BarsMove
<1>5. barAnnounced' = [barAnnounced EXCEPT ![c] = IF barOpen[c] # {} /\ barOpen[c] \subseteq S
                                                  THEN @ + 1 ELSE @]
  <2>1. chan'[c].inactives = IF barOpen[c] # {} /\ barOpen[c] \subseteq S
                             THEN barAnnounced[c] + 1 ELSE barAnnounced[c]
    BY <1>2, BarsMove
  <2> QED
    BY <2>1, BarsMove
<1> QED
  BY <1>3, <1>4, <1>5 DEF Life!Close, barLife, barOpen, barAnnounced

\* A step of ChannelLife's.
LEMMA LifeNext ==
  ASSUME NEW c \in Chans,
         \/ Life!Activate(c) \/ Life!BeginEvent(c) \/ Life!EndEvent(c) \/ Life!Deliver(c)
         \/ Life!Send(c) \/ Life!CloseOutput(c) \/ Life!EndOfInput(c) \/ Life!Disconnect(c)
         \/ Life!Inactivate(c) \/ Life!PeerSends(c)
  PROVE  Life!Next
BY DEF Life!Next

\* Bytes are sent on a socket that is open for them, or on what is not a socket; the output
\* closes with them, or without.
LEMMA SendLife ==
  ASSUME Inv, NEW c \in Chans, NEW r \in {chan[c], Gather(chan[c])}, NEW o \in Sends(c, r),
         chan[c].life \in {"active", "inactive"},
         r = chan[c] \/ ~chan[c].finished,
         NEW p, OutputShut(p) = OutputShut(r), sock' = [sock EXCEPT ![c] = AfterSend(@, p, o)],
         Become(c, BeginWrite(r, o), <<>>), Takes, cur' = cur
  PROVE  Life!Next \/ UNCHANGED Life!lifeVars
<1>1. /\ chan' \in [Chans -> Channel] /\ Others(c)
      /\ tasks' \in Seq(Task) /\ running' \in Seq(Task)
      /\ ChanInv' /\ QueueInv' /\ SocketsKept
      /\ chan'[c].kind = chan[c].kind /\ chan'[c].life = chan[c].life
      /\ chan'[c].inClosed = chan[c].inClosed
      /\ chan[c].outClosed => chan'[c].outClosed
      /\ chan'[c].inactives = IF ~chan[c].outClosed /\ chan'[c].outClosed /\ chan[c].inClosed
                              THEN chan[c].inactives + 1 ELSE chan[c].inactives
      /\ chan'[c].sent = chan[c].sent + o.n /\ o.n \in Nat
      /\ o.n > 0 => ~chan[c].outClosed \/ chan[c].kind = "file"
      /\ \A d \in Chans \ {c} : sock'[d] = sock[d]
      /\ chan'[c].outClosed # chan[c].outClosed => sock'[c].reset = sock[c].reset
  BY SendStep, Zenon
<1>2. /\ chan[c] \in Channel /\ chan'[c] \in Channel /\ Sound(chan[c])
      /\ chan[c].outClosed \in BOOLEAN /\ chan'[c].outClosed \in BOOLEAN /\ chan[c].sent \in Nat
  <2>1. chan[c] \in Channel /\ chan'[c] \in Channel /\ Sound(chan[c])
    BY <1>1 DEF Inv, TypeOK, ChanInv
  <2> QED
    BY <2>1 DEF Channel
<1>3. Alone(c)
  BY <1>1 DEF Alone
<1>4. /\ sock'[c].input = sock[c].input /\ sock'[c].arrived = sock[c].arrived
      /\ sock'[c].fin = sock[c].fin
      /\ Ended(sock[c]) => Ended(sock'[c])
  BY <1>1 DEF SocketsKept, Ended
<1>5. UNCHANGED <<barLife, barArrived, barDelivered, barBusy, barFile>>
  BY <1>1, <1>3, <1>4, BarsMove DEF LifeOf
<1>6. ASSUME chan'[c].outClosed # chan[c].outClosed
      PROVE  Life!Close(c, {"output"}) /\ barEnded' = barEnded
  <2>1. chan'[c].outClosed /\ ~chan[c].outClosed
    BY <1>1, <1>2, <1>6
  <2>2. chan[c].life = "active"
    BY <1>2, <2>1 DEF Sound
  <2> DEFINE S == {"output"}
  <2>3. "output" \in S /\ "input" \notin S /\ S = {"output"}
    OBVIOUS
  <2> HIDE DEF S
  <2>4. Life!Close(c, S)
    BY <1>1, <1>2, <1>3, <2>1, <2>2, <2>3, CloseLife
  <2>5. Ended(sock'[c]) <=> Ended(sock[c])
    BY <1>1, <1>4, <1>6 DEF Ended
  <2> QED
    BY <1>3, <2>3, <2>4, <2>5, BarsMove
<1>7. CASE o.n = 0 /\ chan'[c].outClosed = chan[c].outClosed
  <2>1. Told(chan[c], chan'[c])
    BY <1>1, <1>2, <1>7 DEF Told, LifeOf
  <2> QED
    BY <1>3, <1>4, <2>1, SameLife
<1>8. CASE o.n = 0 /\ chan'[c].outClosed # chan[c].outClosed
  <2>1. barSent' = barSent
    BY <1>1, <1>2, <1>3, <1>8, BarsMove
  <2>2. Life!CloseOutput(c)
    BY <1>5, <1>6, <1>8, <2>1
       DEF Life!CloseOutput, Life!rest, barLife, barArrived, barEnded, barDelivered, barSent, barBusy, barFile
  <2> QED
    BY <2>2, LifeNext
<1>9. CASE o.n # 0
  <2>1. chan'[c].sent > chan[c].sent
    BY <1>1, <1>2, <1>9
  <2>2. /\ barSent'[c] > barSent[c] /\ barSent' = [barSent EXCEPT ![c] = barSent'[c]]
        /\ barLife[c] # "new"
        /\ "output" \in barOpen[c] \/ barFile[c]
    <3>1. barSent'[c] = chan'[c].sent
      BY DEF barSent
    <3>2. o.n > 0
      BY <1>1, <1>9
    <3>3. barSent[c] = chan[c].sent /\ barSent' = [barSent EXCEPT ![c] = chan'[c].sent]
      BY <1>3, BarsMove
    <3>4. barLife[c] # "new"
      BY DEF barLife
    <3>5. "output" \in barOpen[c] \/ barFile[c]
      BY <1>1, <3>2 DEF barOpen, barFile
    <3> QED
      BY <2>1, <3>1, <3>3, <3>4, <3>5
  <2>3. CASE chan'[c].outClosed # chan[c].outClosed
    <3>1. Life!Send(c)
      BY <1>5, <1>6, <2>2, <2>3
         DEF Life!Send, Life!rest, barLife, barOpen, barArrived, barEnded, barDelivered, barSent, barBusy,
             barFile
    <3> QED
      BY <3>1, LifeNext
  <2>4. CASE chan'[c].outClosed = chan[c].outClosed
    <3>1. barOpen' = barOpen /\ barAnnounced' = barAnnounced
      <4>1. OpenOf(chan'[c]) = OpenOf(chan[c])
        BY <1>1, <2>4 DEF OpenOf
      <4>2. chan'[c].inactives = chan[c].inactives
        BY <1>1, <2>4
      <4> QED
        BY <1>3, <4>1, <4>2, BarsMove
    <3>2. barEnded' \in {barEnded, [barEnded EXCEPT ![c] = TRUE]}
      <4>1. CASE Ended(sock'[c]) <=> Ended(sock[c])
        BY <1>3, <4>1, BarsMove
      <4>2. CASE ~(Ended(sock'[c]) <=> Ended(sock[c]))
        <5>1. Ended(sock'[c]) = TRUE
          BY <1>4, <4>2 DEF Ended
        <5> QED
          BY <1>3, <5>1, BarsMove
      <4> QED
        BY <4>1, <4>2
    <3>3. Life!Send(c)
      BY <1>5, <2>2, <3>1, <3>2
         DEF Life!Send, Life!rest, barLife, barOpen, barAnnounced, barArrived, barEnded, barDelivered,
             barSent, barBusy, barFile
    <3> QED
      BY <3>3, LifeNext
  <2> QED
    BY <2>3, <2>4
<1> QED
  BY <1>7, <1>8, <1>9

\* Nothing that ChannelLife sees changes.
LEMMA StillLife ==
  ASSUME chan' = chan, sock' = sock, cur' = cur
  PROVE  UNCHANGED Life!lifeVars
BY DEF Life!lifeVars, Life!rest

\* Tasks: registration, the disconnect that closes both halves, and on_inactive, which comes
\* when no event is being processed.
LEMMA RunLife ==
  ASSUME Inv, RunRegister \/ RunWriteOrFinish \/ RunFlush \/ RunDisconnect \/ RunInactive
  PROVE  Life!Next \/ UNCHANGED Life!lifeVars
<1>0. PICK t, c : t = Head(running) /\ c = t.ch
  OBVIOUS
<1>1. /\ pc = "run" /\ running # <<>> /\ running' = Tail(running) /\ cur' = cur
  BY DEF RunRegister, RunWriteOrFinish, RunFlush, RunDisconnect, RunInactive, Running
<1>2. t \in Task /\ c \in Chans /\ Timely(t, chan[c]) /\ chan[c] \in Channel /\ cur = {}
  BY <1>0, <1>1, First DEF Inv, TypeOK, LoopInv, InEvent
<1>3. PICK v \in Task : v.ch = c /\ <<>> # <<v>>
  BY <1>2, SomeTask
<1>4. ASSUME sock' = sock, Others(c) PROVE Alone(c)
  BY <1>1, <1>4 DEF Alone
<1>5. CASE RunRegister
  <2>1. t.op = "register" /\ Become(c, Register(chan[c]), <<>>) /\ sock' = sock
    BY <1>0, <1>5 DEF RunRegister, Running
  <2>2. /\ Others(c) /\ chan'[c].life = "active" /\ chan[c].life \in {"new", "posted"}
        /\ chan'[c].kind = chan[c].kind /\ chan'[c].inClosed = chan[c].inClosed
        /\ chan'[c].outClosed = chan[c].outClosed /\ chan'[c].inactives = chan[c].inactives
        /\ chan'[c].sent = chan[c].sent
    BY <1>0, <1>1, <1>2, <2>1, RegisterStep
  <2>3. Life!Activate(c)
    <3>1. OpenOf(chan'[c]) = OpenOf(chan[c])
      BY <2>2 DEF OpenOf
    <3>2. LifeOf(chan[c]) = "new" /\ LifeOf(chan'[c]) = "active"
      BY <2>2 DEF LifeOf
    <3>3. /\ barLife[c] = "new" /\ barLife' = [barLife EXCEPT ![c] = "active"]
          /\ UNCHANGED <<barOpen, barAnnounced, barArrived, barEnded, barDelivered, barSent, barBusy, barFile>>
      BY <1>1, <1>2, <1>4, <2>1, <2>2, <3>1, <3>2, BarsMove
    <3> QED
      BY <3>3 DEF Life!Activate, Life!rest, barLife, barOpen, barAnnounced, barArrived, barEnded,
                  barDelivered, barSent, barBusy, barFile
  <2> QED
    BY <1>2, <2>3, LifeNext
<1>6. CASE RunWriteOrFinish
  <2>1. PICK s : /\ s = Write(chan[c]) \/ s = Finish(chan[c])
                 /\ Become(c, s, <<>>) /\ sock' = sock /\ t.op \in {"write", "finish"}
    BY <1>0, <1>6 DEF RunWriteOrFinish, Running
  <2>2. chan[c].life \in {"active", "inactive"}
    BY <1>2, <2>1 DEF Timely
  <2>3. Others(c) /\ Quiet(chan[c], chan'[c])
    BY <1>1, <1>2, <1>3, <2>1, <2>2, QuietStep DEF Takes
  <2>4. Told(chan[c], chan'[c])
    BY <2>3 DEF Told, Quiet, LifeOf
  <2> QED
    BY <1>1, <1>2, <1>4, <2>1, <2>3, <2>4, SameLife
<1>7. CASE RunFlush
  <2>1. t.op = "flush"
    BY <1>0, <1>7 DEF RunFlush, Running
  <2>2. chan[c].life \in {"active", "inactive"}
    BY <1>2, <2>1 DEF Timely
  <2>3. CASE chan[c].finished
    BY <1>0, <1>1, <1>7, <2>3, StillLife DEF RunFlush
  <2>4. CASE ~chan[c].finished
    <3>1. PICK r, o : /\ r = Gather(chan[c]) /\ o \in Sends(c, r)
                      /\ Become(c, BeginWrite(r, o), <<>>)
                      /\ sock' = [sock EXCEPT ![c] = AfterSend(@, r, o)]
      BY <1>0, <1>7, <2>4 DEF RunFlush, WriteOut
    <3>2. Takes
      BY <1>1 DEF Takes
    <3> QED
      BY <1>1, <1>2, <2>2, <2>4, <3>1, <3>2, SendLife
  <2> QED
    BY <2>3, <2>4
<1>8. CASE RunDisconnect
  <2>1. t.op = "disconnect" /\ sock' = sock
    BY <1>0, <1>8 DEF RunDisconnect, Running
  <2>2. CASE t.left = 1
    <3>1. Become(c, Disconnect(chan[c]), <<>>)
      BY <1>0, <1>8, <2>2 DEF RunDisconnect
    <3>2. /\ chan[c].life \in {"active", "inactive"}
          /\ chan' \in [Chans -> Channel] /\ Others(c) /\ chan'[c].life = chan[c].life
          /\ chan'[c].kind = chan[c].kind /\ chan'[c].inClosed /\ chan'[c].outClosed
          /\ chan'[c].sent = chan[c].sent
          /\ chan'[c].inactives = IF chan[c].inClosed /\ chan[c].outClosed
                                  THEN chan[c].inactives ELSE chan[c].inactives + 1
      BY <1>0, <1>1, <2>1, <3>1, DisconnectStep
    <3>3. CASE chan[c].life = "inactive"
      <4>1. chan[c].inClosed = TRUE /\ chan[c].outClosed = TRUE
        BY <1>2, <3>3 DEF Inv, ChanInv, Sound, Channel
      <4>2. chan'[c].inClosed = TRUE /\ chan'[c].outClosed = TRUE
        BY <1>2, <3>2 DEF Channel
      <4>3. Told(chan[c], chan'[c])
        BY <3>2, <4>1, <4>2 DEF Told, LifeOf
      <4> QED
        BY <1>1, <1>2, <1>4, <2>1, <3>2, <4>3, SameLife
    <3>4. CASE chan[c].life = "active"
      <4>1. PICK S : "output" \in S /\ "input" \in S /\ S = {"input", "output"}
        OBVIOUS
      <4>2. Life!Close(c, S)
        <5>1. chan'[c].inactives = IF /\ ~(chan[c].inClosed /\ chan[c].outClosed)
                                      /\ chan'[c].inClosed /\ chan'[c].outClosed
                                   THEN chan[c].inactives + 1 ELSE chan[c].inactives
          BY <3>2
        <5>2. Alone(c) /\ chan'[c] \in Channel /\ c \in Chans /\ chan[c] \in Channel
          BY <1>2, <1>4, <2>1, <3>2
        <5>3. /\ chan'[c].inClosed <=> chan[c].inClosed \/ "input" \in S
              /\ chan'[c].outClosed <=> chan[c].outClosed \/ "output" \in S
          BY <3>2, <4>1
        <5> QED
          BY <3>4, <4>1, <5>1, <5>2, <5>3, CloseLife
      <4>3. UNCHANGED <<barLife, barArrived, barEnded, barDelivered, barSent, barBusy, barFile>>
        BY <1>1, <1>2, <1>4, <2>1, <3>2, BarsMove DEF LifeOf
      <4>4. Life!Disconnect(c)
        BY <4>1, <4>2, <4>3 DEF Life!Disconnect, Life!Halves, Life!rest, barLife, barArrived, barEnded,
                                barDelivered, barSent, barBusy, barFile
      <4> QED
        BY <1>2, <4>4, LifeNext
    <3> QED
      BY <3>2, <3>3, <3>4
  <2>3. CASE t.left # 1
    <3>1. chan' = [chan EXCEPT ![c] = chan[c]]
      BY <1>0, <1>8, <2>3 DEF RunDisconnect, Become
    <3>2. chan' = chan
      BY <1>2, <3>1 DEF Inv, TypeOK
    <3> QED
      BY <1>1, <2>1, <3>2, StillLife
  <2> QED
    BY <2>2, <2>3
<1>9. CASE RunInactive
  <2>1. /\ t.op = "inactive" /\ sock' = sock
        /\ Become(c, [chan[c] EXCEPT !.life = "inactive"],
                  IF t.left = 1 THEN <<>> ELSE <<[t EXCEPT !.left = @ - 1]>>)
    BY <1>0, <1>9 DEF RunInactive, Running
  <2>2. /\ chan[c].life \in {"active", "inactive"} /\ chan[c].inClosed /\ chan[c].outClosed
        /\ Others(c) /\ chan'[c].life = "inactive"
        /\ chan'[c].kind = chan[c].kind /\ chan'[c].inClosed = chan[c].inClosed
        /\ chan'[c].outClosed = chan[c].outClosed
        /\ chan'[c].inactives = chan[c].inactives /\ chan'[c].sent = chan[c].sent
    BY <1>0, <1>1, <2>1, InactiveStep
  <2>3. CASE chan[c].life = "inactive"
    <3>1. Told(chan[c], chan'[c])
      BY <2>2, <2>3 DEF Told, LifeOf
    <3> QED
      BY <1>1, <1>2, <1>4, <2>1, <2>2, <3>1, SameLife
  <2>4. CASE chan[c].life = "active"
    <3>1. OpenOf(chan'[c]) = OpenOf(chan[c]) /\ OpenOf(chan[c]) = {}
      BY <2>2 DEF OpenOf
    <3>2. LifeOf(chan[c]) = "active" /\ LifeOf(chan'[c]) = "inactive"
      BY <2>2, <2>4 DEF LifeOf
    <3>3. /\ barLife[c] = "active" /\ barLife' = [barLife EXCEPT ![c] = "inactive"]
          /\ barOpen[c] = {}
          /\ UNCHANGED <<barOpen, barAnnounced, barArrived, barEnded, barDelivered, barSent, barBusy, barFile>>
      BY <1>1, <1>2, <1>4, <2>1, <2>2, <3>1, <3>2, BarsMove
    <3>5. ~barBusy[c]
      BY <1>2 DEF barBusy
    <3>4. Life!Inactivate(c)
      BY <3>3, <3>5 DEF Life!Inactivate, Life!rest, barLife, barOpen, barAnnounced, barArrived, barEnded,
                  barDelivered, barSent, barBusy, barFile
    <3> QED
      BY <1>2, <3>4, LifeNext
  <2> QED
    BY <2>2, <2>3, <2>4
<1> QED
  BY <1>5, <1>6, <1>7, <1>8, <1>9

\* Events: begun on a channel that is active, and ended; data while the input is open; the
\* end of the input when all the data was delivered; writes.
LEMMA EventLife ==
  ASSUME Inv, NEW c \in Chans,
         Dispatch(c) \/ TriggerWrite(c) \/ ReadData(c) \/ ReadError(c) \/ ReadComplete(c) \/ CloseInput(c)
  PROVE  Life!Next \/ UNCHANGED Life!lifeVars
<1>1. /\ chan[c] \in Channel /\ sock[c] \in Socket /\ sock \in [Chans -> Socket]
      /\ sock[c].input \in Nat /\ sock[c].arrived \in Nat /\ sock[c].input <= sock[c].arrived
      /\ chan[c].inClosed \in BOOLEAN
  BY DEF Inv, TypeOK, Channel, Socket, InputInv
<1>2. CASE Dispatch(c)
  <2>1. chan' = chan /\ sock' = sock /\ (cur' = cur \/ (cur = {} /\ cur' = {c}))
    BY <1>2 DEF Dispatch, Inv, LoopInv, InEvent, taskVars
  <2>2. CASE cur' = cur
    BY <2>1, <2>2, StillLife
  <2>3. CASE cur' # cur
    <3>1. chan[c].life = "active"
      BY <1>2, <2>3, DispatchKeeps
    <3>2. Alone(c)
      BY <2>1 DEF Alone, Others
    <3>4. /\ barLife[c] = "active" /\ barBusy' = [barBusy EXCEPT ![c] = TRUE]
          /\ UNCHANGED <<barLife, barOpen, barAnnounced, barArrived, barEnded, barDelivered, barSent, barFile>>
      <4>1. barLife[c] = "active"
        BY <3>1, <3>2, BarsMove DEF LifeOf
      <4>2. UNCHANGED <<barLife, barOpen, barAnnounced, barArrived, barEnded, barDelivered, barSent, barFile>>
        BY <2>1, <3>2, BarsMove
      <4>3. (c \in cur') = TRUE
        BY <2>1, <2>3
      <4> QED
        BY <3>2, <4>1, <4>2, <4>3, BarsMove
    <3>5. Life!BeginEvent(c)
      BY <3>4 DEF Life!BeginEvent, barLife, barOpen, barAnnounced, barArrived, barEnded,
                  barDelivered, barSent, barBusy, barFile
    <3> QED
      BY <3>5, LifeNext
  <2> QED
    BY <2>2, <2>3
<1>3. CASE TriggerWrite(c)
  <2>1. c \in cur /\ pc = "event" /\ running' = running /\ cur' = cur /\ WriteOut(c, chan[c], "event")
    BY <1>3 DEF TriggerWrite
  <2>2. PICK o \in Sends(c, chan[c]) :
          /\ Become(c, BeginWrite(chan[c], o), <<>>)
          /\ sock' = [sock EXCEPT ![c] = AfterSend(@, chan[c], o)]
    BY <2>1 DEF WriteOut
  <2>3. chan[c].life = "active" /\ Takes
    BY <2>1 DEF Inv, LoopInv, Takes
  <2> QED
    BY <2>1, <2>2, <2>3, SendLife
<1>4. CASE ReadData(c)
  <2>1. /\ c \in cur /\ ~chan[c].inClosed /\ sock[c].input > 0 /\ chan' = chan /\ cur' = cur
        /\ sock' = [sock EXCEPT ![c].input = @ - 1]
    BY <1>4, ReadKeeps DEF ReadData
  <2> DEFINE k == sock[c].input - 1
             z == [sock[c] EXCEPT !.input = k]
  <2>2. z.input = k /\ z.arrived = sock[c].arrived /\ z.fin = sock[c].fin /\ z.reset = sock[c].reset
    BY <1>1 DEF Socket
  <2>3. sock' = [sock EXCEPT ![c] = z]
    BY <1>1, <2>1
  <2> HIDE DEF z
  <2>4. sock'[c] = z /\ \A d \in Chans \ {c} : sock'[d] = sock[d]
    BY <1>1, <2>3
  <2>5. sock[c].arrived - k = (sock[c].arrived - sock[c].input) + 1
    BY <1>1
  <2> HIDE DEF k
  <2>6. Alone(c)
    BY <2>1, <2>4 DEF Alone, Others
  <2>7. /\ UNCHANGED <<barLife, barOpen, barAnnounced, barArrived, barEnded, barSent, barBusy, barFile>>
        /\ barDelivered' = [barDelivered EXCEPT ![c] = @ + 1]
    <3>1. UNCHANGED <<barLife, barOpen, barAnnounced, barArrived, barEnded, barSent, barBusy, barFile>>
      BY <2>1, <2>2, <2>4, <2>6, BarsMove DEF Ended
    <3>2. barDelivered' = [barDelivered EXCEPT ![c] = @ + 1]
      BY <2>2, <2>4, <2>5, <2>6, BarsMove
    <3> QED
      BY <3>1, <3>2
  <2>8. barBusy[c] /\ "input" \in barOpen[c] /\ barDelivered[c] < barArrived[c]
    <3>1. barBusy[c] /\ "input" \in barOpen[c]
      BY <2>1 DEF barBusy, barOpen
    <3>2. barDelivered[c] < barArrived[c]
      BY <1>1, <2>1 DEF barDelivered, barArrived
    <3> QED
      BY <3>1, <3>2
  <2>9. Life!Deliver(c)
    BY <2>7, <2>8 DEF Life!Deliver, Life!rest, barLife, barOpen, barAnnounced, barArrived, barEnded,
                      barDelivered, barSent, barBusy, barFile
  <2> QED
    BY <2>9, LifeNext
<1>5. CASE ReadError(c)
  <2>1. chan' = chan /\ cur' = cur /\ sock' = [sock EXCEPT ![c].reset = "reported"]
    BY <1>5 DEF ReadError
  <2> DEFINE z == [sock[c] EXCEPT !.reset = "reported"]
  <2>2. z.input = sock[c].input /\ z.arrived = sock[c].arrived /\ z.reset = "reported"
    BY <1>1 DEF Socket
  <2>3. sock' = [sock EXCEPT ![c] = z]
    BY <1>1, <2>1
  <2> HIDE DEF z
  <2>4. sock'[c] = z /\ \A d \in Chans \ {c} : sock'[d] = sock[d]
    BY <1>1, <2>3
  <2>5. Alone(c)
    BY <2>1, <2>4 DEF Alone, Others
  <2>6. Told(chan[c], chan'[c])
    BY <2>1 DEF Told
  <2> QED
    BY <2>1, <2>2, <2>4, <2>5, <2>6, SameLife DEF Ended
<1>6. CASE ReadComplete(c)
  BY <1>6, StillLife DEF ReadComplete
<1>7. CASE CloseInput(c)
  <2>1. c \in cur /\ sock[c].input = 0 /\ Ended(sock[c])
    BY <1>7, CloseKeeps
  <2>2. /\ sock' = sock /\ running' = running /\ cur' = cur
        /\ Become(c, ShutdownInput(chan[c]), <<>>)
    BY <1>7 DEF CloseInput
  <2>3. chan[c].life = "active"
    BY <2>1 DEF Inv, LoopInv
  <2>4. /\ chan' \in [Chans -> Channel] /\ Others(c) /\ chan'[c].life = "active"
        /\ chan'[c].kind = chan[c].kind /\ chan'[c].inClosed
        /\ chan'[c].outClosed = chan[c].outClosed /\ chan'[c].sent = chan[c].sent
        /\ chan'[c].inactives = IF ~chan[c].inClosed /\ chan[c].outClosed
                                THEN chan[c].inactives + 1 ELSE chan[c].inactives
    BY <2>2, <2>3, InputStep
  <2>5. Alone(c)
    BY <2>2, <2>4 DEF Alone
  <2>6. PICK S : "output" \notin S /\ "input" \in S /\ S = {"input"}
    OBVIOUS
  <2>7. Life!Close(c, S)
    BY <1>1, <2>3, <2>4, <2>5, <2>6, CloseLife
  <2>8. UNCHANGED <<barLife, barArrived, barEnded, barDelivered, barSent, barBusy, barFile>>
    BY <2>2, <2>3, <2>4, <2>5, BarsMove DEF LifeOf
  <2>9. barEnded[c] /\ barDelivered[c] = barArrived[c]
    <3>1. sock[c].arrived - sock[c].input = sock[c].arrived
      BY <1>1, <2>1
    <3>2. barDelivered[c] = barArrived[c]
      BY <3>1 DEF barDelivered, barArrived
    <3>3. barEnded[c]
      BY <2>1 DEF barEnded, Ended
    <3> QED
      BY <3>2, <3>3
  <2>10. Life!EndOfInput(c)
    BY <2>6, <2>7, <2>8, <2>9
       DEF Life!EndOfInput, Life!rest, barLife, barArrived, barEnded, barDelivered, barSent, barBusy, barFile
  <2> QED
    BY <2>10, LifeNext
<1> QED
  BY <1>2, <1>3, <1>4, <1>5, <1>6, <1>7

\* The loop between visits.
LEMMA IdleLife ==
  ASSUME Inv, EpollWait \/ TriggerRead \/ EndEvent \/ EndRun \/ SeeShutdown \/ HandlerReturns
              \/ HandlerThrows \/ SwapTasks
  PROVE  Life!Next \/ UNCHANGED Life!lifeVars
<1>1. chan' = chan /\ sock' = sock
  BY DEF EpollWait, TriggerRead, EndEvent, EndRun, SeeShutdown, HandlerReturns, HandlerThrows, SwapTasks,
         taskVars
<1>2. CASE cur' = cur
  BY <1>1, <1>2, StillLife
<1>3. CASE cur' # cur
  <2>1. EndEvent
    BY <1>3 DEF EpollWait, TriggerRead, EndRun, SeeShutdown, HandlerReturns, HandlerThrows, SwapTasks
  <2>2. pc = "event" /\ cur' = {}
    BY <2>1 DEF EndEvent
  <2>3. PICK c \in Chans : cur = {c}
    BY <2>2 DEF Inv, LoopInv, InEvent
  <2>4. Alone(c) /\ (c \in cur') = FALSE
    BY <1>1, <2>2, <2>3 DEF Alone, Others
  <2>5. UNCHANGED <<barLife, barOpen, barAnnounced, barArrived, barEnded, barDelivered, barSent, barFile>>
    BY <1>1, <2>4, BarsMove
  <2>6. barBusy' = [barBusy EXCEPT ![c] = FALSE]
    BY <2>4, BarsMove
  <2>7. Life!EndEvent(c)
    BY <2>5, <2>6 DEF Life!EndEvent, barLife, barOpen, barAnnounced, barArrived, barEnded,
                      barDelivered, barSent, barBusy, barFile
  <2> QED
    BY <2>7, LifeNext
<1> QED
  BY <1>2, <1>3

\* Handlers and other threads: only a flush, and a registration, tell the handlers anything.
LEMMA HandlerLife ==
  ASSUME Inv, NEW c \in Chans,
         \/ HandlerWrite(c) \/ HandlerFlush(c) \/ HandlerFinish(c) \/ HandlerDisconnect(c)
         \/ RegisterHere(c) \/ LoopRegister(c) \/ DisconnectFromOutside(c)
         \/ \E op \in {"write", "flush", "finish"} : Post(c, op)
  PROVE  Life!Next \/ UNCHANGED Life!lifeVars
<1>1. running' = running /\ cur' = cur /\ Takes
  BY DEF HandlerWrite, HandlerFlush, HandlerFinish, HandlerDisconnect, RegisterHere, LoopRegister,
         DisconnectFromOutside, Post, Takes, loopVars
<1>2. PICK v \in Task : v.ch = c /\ <<>> # <<v>>
  BY SomeTask
<1>3. ASSUME sock' = sock, Others(c) PROVE Alone(c)
  BY <1>1, <1>3 DEF Alone
<1>4. CASE HandlerWrite(c) \/ HandlerFinish(c) \/ HandlerDisconnect(c) \/ DisconnectFromOutside(c)
  <2>1. sock' = sock /\ Others(c) /\ Quiet(chan[c], chan'[c])
    <3>1. CASE HandlerDisconnect(c) \/ DisconnectFromOutside(c)
      BY <1>1, <3>1, AskStep DEF HandlerDisconnect, DisconnectFromOutside
    <3>2. CASE HandlerWrite(c) \/ HandlerFinish(c)
      <4>1. PICK s : /\ s = Write(chan[c]) \/ s = Finish(chan[c])
                     /\ Become(c, s, <<>>)
                     /\ sock' = sock /\ chan[c].life \in {"active", "inactive"}
        BY <3>2 DEF HandlerWrite, HandlerFinish, Reachable
      <4> QED
        BY <1>1, <1>2, <4>1, QuietStep
    <3> QED
      BY <1>4, <3>1, <3>2
  <2>2. Told(chan[c], chan'[c])
    BY <2>1 DEF Told, Quiet, LifeOf
  <2> QED
    BY <1>1, <1>3, <2>1, <2>2, SameLife
<1>5. CASE HandlerFlush(c)
  <2>1. PICK r, o : /\ r = Gather(chan[c]) /\ o \in Sends(c, r)
                    /\ Become(c, BeginWrite(r, o), <<>>)
                    /\ sock' = [sock EXCEPT ![c] = AfterSend(@, chan[c], o)]
    BY <1>5 DEF HandlerFlush
  <2>2. chan[c].life \in {"active", "inactive"} /\ ~chan[c].finished
    BY <1>5 DEF HandlerFlush, Reachable
  <2>3. OutputShut(chan[c]) = OutputShut(r)
    <3>1. chan[c] \in Channel /\ Sound(chan[c])
      BY DEF Inv, TypeOK, ChanInv
    <3> QED
      BY <2>1, <3>1, GatherFields DEF OutputShut
  <2> QED
    BY <1>1, <2>1, <2>2, <2>3, SendLife
<1>6. CASE RegisterHere(c)
  <2>1. sock' = sock /\ chan[c].life = "new" /\ Become(c, Register(Interested(chan[c])), <<>>)
    BY <1>6 DEF RegisterHere
  <2>2. /\ Others(c) /\ chan'[c].life = "active"
        /\ chan'[c].kind = chan[c].kind /\ chan'[c].inClosed = chan[c].inClosed
        /\ chan'[c].outClosed = chan[c].outClosed /\ chan'[c].inactives = chan[c].inactives
        /\ chan'[c].sent = chan[c].sent
    BY <1>1, <2>1, RegisterStep
  <2>3. OpenOf(chan'[c]) = OpenOf(chan[c])
    BY <2>2 DEF OpenOf
  <2>4. LifeOf(chan[c]) = "new" /\ LifeOf(chan'[c]) = "active"
    BY <2>1, <2>2 DEF LifeOf
  <2>5. /\ barLife[c] = "new" /\ barLife' = [barLife EXCEPT ![c] = "active"]
        /\ UNCHANGED <<barOpen, barAnnounced, barArrived, barEnded, barDelivered, barSent, barBusy, barFile>>
    BY <1>1, <1>3, <2>1, <2>2, <2>3, <2>4, BarsMove
  <2>6. Life!Activate(c)
    BY <2>5 DEF Life!Activate, Life!rest, barLife, barOpen, barAnnounced, barArrived, barEnded,
                barDelivered, barSent, barBusy, barFile
  <2> QED
    BY <2>6, LifeNext
<1>7. CASE LoopRegister(c)
  <2>1. /\ Others(c) /\ chan'[c].life = "posted" /\ chan[c].life = "new"
        /\ chan'[c].kind = chan[c].kind /\ chan'[c].inClosed = chan[c].inClosed
        /\ chan'[c].outClosed = chan[c].outClosed /\ chan'[c].inactives = chan[c].inactives
        /\ chan'[c].sent = chan[c].sent
    BY <1>7, PostedStep
  <2>2. Told(chan[c], chan'[c]) /\ sock' = sock
    BY <1>7, <2>1 DEF Told, LifeOf, LoopRegister
  <2> QED
    BY <1>1, <1>3, <2>1, <2>2, SameLife
<1>8. CASE \E op \in {"write", "flush", "finish"} : Post(c, op)
  BY <1>1, <1>8, StillLife DEF Post
<1> QED
  BY <1>4, <1>5, <1>6, <1>7, <1>8

\* The peers send and go.
LEMMA PeerLife ==
  ASSUME Inv, NEW c \in Chans, PeerSends(c) \/ PeerCloses(c) \/ PeerResets(c) \/ PeerReads(c)
  PROVE  Life!Next \/ UNCHANGED Life!lifeVars
<1>1. chan' = chan /\ cur' = cur
  BY DEF PeerSends, PeerCloses, PeerResets, PeerReads, loopVars
<1>2. /\ \A d \in Chans \ {c} : sock'[d] = sock[d]
      /\ sock[c].reset # "no" => sock'[c].reset # "no"
      /\ PeerSends(c) => /\ ~Ended(sock[c]) /\ sock'[c].input = sock[c].input + 1
                         /\ sock'[c].arrived = sock[c].arrived + 1
                         /\ sock'[c].fin = sock[c].fin /\ sock'[c].reset = sock[c].reset
      /\ ~PeerSends(c) => /\ sock'[c].input = sock[c].input
                          /\ sock'[c].arrived = sock[c].arrived
                          /\ sock[c].fin => sock'[c].fin
  BY PeerStep
<1>3. Alone(c)
  BY <1>1, <1>2 DEF Alone, Others
<1>4. CASE PeerSends(c)
  <2>1. sock[c].input \in Nat /\ sock[c].arrived \in Nat
    BY DEF Inv, TypeOK, Socket
  <2>2. sock'[c].arrived - sock'[c].input = sock[c].arrived - sock[c].input
    BY <1>2, <1>4, <2>1
  <2>3. (Ended(sock'[c]) <=> Ended(sock[c])) /\ ~Ended(sock[c])
    BY <1>2, <1>4 DEF Ended
  <2>4. /\ UNCHANGED <<barLife, barOpen, barAnnounced, barEnded, barDelivered, barSent, barBusy, barFile>>
        /\ barArrived' = [barArrived EXCEPT ![c] = @ + 1] /\ ~barEnded[c]
    <3>1. UNCHANGED <<barLife, barOpen, barAnnounced, barEnded, barDelivered, barSent, barBusy, barFile>>
      BY <1>1, <1>3, <2>2, <2>3, BarsMove
    <3>2. barArrived' = [barArrived EXCEPT ![c] = @ + 1] /\ ~barEnded[c]
      BY <1>2, <1>3, <1>4, <2>3, BarsMove
    <3> QED
      BY <3>1, <3>2
  <2>5. Life!PeerSends(c)
    BY <2>4 DEF Life!PeerSends, Life!rest, barLife, barOpen, barAnnounced, barArrived, barEnded,
                barDelivered, barSent, barBusy, barFile
  <2> QED
    BY <2>5, LifeNext
<1>5. CASE ~PeerSends(c)
  <2>1. Told(chan[c], chan'[c])
    BY <1>1 DEF Told
  <2> QED
    BY <1>1, <1>2, <1>3, <1>5, <2>1, SameLife DEF Ended
<1> QED
  BY <1>4, <1>5

\* The channels of a worker begin as ChannelLife does.
LEMMA InitLife == Init => Life!Init
<1> SUFFICES ASSUME Init PROVE Life!Init
  OBVIOUS
<1>1. PICK kind \in [Chans -> Kinds] : chan = [c \in Chans |-> NewChannel(kind[c])]
  BY DEF Init
<1>2. \A c \in Chans : /\ chan[c].life = "new" /\ chan[c].inClosed = FALSE /\ chan[c].outClosed = FALSE
                       /\ chan[c].inactives = 0 /\ chan[c].sent = 0
  BY <1>1 DEF NewChannel
<1>3. \A c \in Chans : /\ sock[c].input = 0 /\ sock[c].arrived = 0 /\ sock[c].fin = FALSE
                       /\ sock[c].reset = "no"
  BY DEF Init
<1>4. barLife = [c \in Chans |-> "new"]
  BY <1>2 DEF barLife
<1>5. barOpen = [c \in Chans |-> {"input", "output"}]
  BY <1>2 DEF barOpen
<1>6. barAnnounced = [c \in Chans |-> 0] /\ barSent = [c \in Chans |-> 0]
  BY <1>2 DEF barAnnounced, barSent
<1>7. barArrived = [c \in Chans |-> 0] /\ barEnded = [c \in Chans |-> FALSE]
  BY <1>3 DEF barArrived, barEnded
<1>8. barDelivered = [c \in Chans |-> 0]
  BY <1>3 DEF barDelivered
<1>9. barBusy = [c \in Chans |-> FALSE]
  <2>1. \A c \in Chans : (c \in cur) = FALSE
    BY DEF Init
  <2> QED
    BY <2>1 DEF barBusy
<1>10. barFile \in [Chans -> BOOLEAN]
  BY DEF barFile
<1> QED
  BY <1>4, <1>5, <1>6, <1>7, <1>8, <1>9, <1>10
     DEF Life!Init, Life!Halves, barLife, barOpen, barAnnounced, barArrived, barEnded, barDelivered,
         barSent, barBusy, barFile

\* Every step of the worker is one of ChannelLife's, or none that it sees.
LEMMA LifeStep == Inv /\ [Next]_vars => [Life!Next]_(Life!lifeVars)
<1> SUFFICES ASSUME Inv, [Next]_vars PROVE Life!Next \/ UNCHANGED Life!lifeVars
  OBVIOUS
<1>1. CASE UNCHANGED vars
  BY <1>1, StillLife DEF vars, loopVars
<1>2. CASE LoopStep
  BY <1>2, IdleLife, RunLife, EventLife DEF LoopStep
<1>3. CASE SeeShutdown
  BY <1>3, IdleLife
<1>4. CASE HandlerStep
  BY <1>4, IdleLife, HandlerLife DEF HandlerStep
<1>5. CASE OutsideStep
  BY <1>5, HandlerLife, PeerLife DEF OutsideStep
<1> QED
  BY <1>1, <1>2, <1>3, <1>4, <1>5 DEF Next

\* The channels keep what ChannelLife promises their handlers, whatever the kernel, the
\* peers, the handlers and the other threads do, and however many channels there are.
THEOREM LifeKept == Spec => LifeSpec
<1>1. Init => Life!Init
  BY InitLife
<1>2. Inv /\ [Next]_vars => [Life!Next]_(Life!lifeVars)
  BY LifeStep
<1> QED
  BY <1>1, <1>2, Invariant, PTL DEF Spec, LifeSpec, Life!Spec
-----------------------------------------------------------------------------
(* A worker with a single channel, whose handlers therefore act on no other. *)

Single == \A c, d \in Chans : c = d

\* What may close the output of a channel.
Excused(c) == chan[c].asked > 0 \/ sock[c].reset # "no"

\* The event that calls begin_write is of a channel that is interested in it still: what
\* could change that runs before the event is fetched, or after begin_write.
Current(c) ==
  /\ chan[c].outClosed => Excused(c)
  /\ "write" \in batch[c] => pc = "dispatch"
  /\ "write" \in calls => pc = "event"
  /\ "write" \in batch[c] \cup calls => chan[c].writeInterest \/ Excused(c)

SingleInv == \A c \in Chans : Current(c)

\* An excuse stays one.
LEMMA ExcusedStays ==
  ASSUME NEW c, Excused(c), chan[c].asked \in Nat, chan'[c].asked \in Nat,
         chan'[c].asked >= chan[c].asked,
         sock[c].reset # "no" => sock'[c].reset # "no"
  PROVE  Excused(c)'
BY DEF Excused

\* While the loop thread does something else, no event is kept.
LEMMA NoneKept ==
  ASSUME NEW c, Current(c), pc \notin {"dispatch", "event"}, batch' = batch, calls' = calls,
         chan'[c].outClosed => Excused(c)'
  PROVE  Current(c)'
BY DEF Current, Excused

\* An event that is kept stays current if the channel only gains interest.
LEMMA StaysCurrent ==
  ASSUME NEW c, Current(c), pc' = pc, batch' = batch, calls' = calls,
         Excused(c) => Excused(c)',
         chan'[c].outClosed => chan[c].outClosed,
         chan[c].writeInterest => chan'[c].writeInterest
  PROVE  Current(c)'
BY DEF Current

\* begin_write of a channel with the interest on leaves the output open.
LEMMA InterestedWrite ==
  ASSUME NEW r \in Channel, r.writeInterest, NEW o, o.n \in Nat, o.n <= r.flushed,
         o.more \in BOOLEAN
  PROVE  BeginWrite(r, o).outClosed = r.outClosed
<1> DEFINE m == Left(r.flushed, o.n)
           k == r.sent + o.n
           s == [r EXCEPT !.flushed = m, !.sent = k]
<1>1. m \in Nat /\ k \in Nat
  BY DEF Left, Channel
<1>2. s \in Channel /\ s.outClosed = r.outClosed
  <2> HIDE DEF m, k
  <2> QED
    BY <1>1 DEF Channel
<1>3. ~ClosesOutput(r, o)
  BY DEF ClosesOutput
<1>4. BeginWrite(r, o) = IF o.failed THEN [s EXCEPT !.failed = TRUE]
                         ELSE Watch([s EXCEPT !.writeInterest = o.more])
  BY <1>3 DEF BeginWrite, InterestAfter
<1> HIDE DEF s
<1>5. [s EXCEPT !.failed = TRUE].outClosed = s.outClosed
  BY <1>2 DEF Channel
<1>6. Watch([s EXCEPT !.writeInterest = o.more]).outClosed = s.outClosed
  <2> DEFINE w == [s EXCEPT !.writeInterest = o.more]
  <2>1. w \in Channel /\ w.outClosed = s.outClosed
    BY <1>2 DEF Channel
  <2> HIDE DEF w
  <2> QED
    BY <2>1, WatchFields DEF w
<1> QED
  BY <1>2, <1>4, <1>5, <1>6

\* The record that Become gives the channel.
LEMMA BecomeIs ==
  ASSUME TypeOK, NEW c \in Chans, NEW s, NEW q, Become(c, s, q)
  PROVE  chan'[c] = s
BY DEF Become, TypeOK

\* Steps that change no channel, and take no excuse from one.
LEMMA SingleIdle ==
  ASSUME Inv, NEW c \in Chans, Current(c), chan' = chan,
         sock[c].reset # "no" => sock'[c].reset # "no",
         \/ /\ batch' = batch /\ calls' = calls
            /\ pc' = pc \/ pc \notin {"dispatch", "event"}
         \/ EpollWait
         \/ Single /\ \E d \in Chans : Dispatch(d)
         \/ SeeShutdown \/ TriggerRead \/ EndEvent \/ SwapTasks
  PROVE  Current(c)'
<1>1. Excused(c) => Excused(c)'
  BY DEF Excused
<1>2. chan'[c].outClosed => Excused(c)'
  BY <1>1 DEF Current
<1>3. CASE batch' = batch /\ calls' = calls /\ pc' = pc
  BY <1>1, <1>3, StaysCurrent
<1>4. CASE batch' = batch /\ calls' = calls /\ pc \notin {"dispatch", "event"}
  BY <1>2, <1>4, NoneKept
<1>5. CASE EpollWait
  <2>1. pc = "poll" /\ pc' = "dispatch" /\ calls' = calls /\ batch'[c] = EventCalls(c)
    BY <1>5 DEF EpollWait
  <2>2. "write" \notin calls
    BY <2>1 DEF Current
  <2>3. ASSUME "write" \in EventCalls(c) PROVE chan[c].writeInterest \/ Excused(c)
    <3>1. chan[c].member /\ ("write" \in chan[c].watched \/ sock[c].reset = "pending")
      BY <2>3 DEF EventCalls
    <3>2. chan[c].watched = Interest(chan[c])
      BY <3>1 DEF Inv, ChanInv, Sound
    <3>3. "write" \in Interest(chan[c]) => chan[c].writeInterest
      BY DEF Interest
    <3> QED
      BY <3>1, <3>2, <3>3 DEF Excused
  <2> QED
    BY <1>1, <1>2, <2>1, <2>2, <2>3 DEF Current
<1>6. ASSUME Single, NEW d \in Chans, Dispatch(d) PROVE Current(c)'
  <2>1. d = c
    BY <1>6 DEF Single
  <2>2. batch'[c] = {} /\ pc = "dispatch"
    BY <1>6, <2>1 DEF Dispatch, Inv, TypeOK
  <2>3. (calls' = batch[c] /\ pc' = "event") \/ (calls' = calls /\ pc' = pc)
    BY <1>6, <2>1 DEF Dispatch
  <2> QED
    BY <1>1, <1>2, <2>2, <2>3 DEF Current
<1>7. CASE SeeShutdown
  BY <1>1, <1>2, <1>7 DEF SeeShutdown, Current
<1>8. CASE TriggerRead
  BY <1>1, <1>2, <1>8 DEF TriggerRead, Current
<1>9. CASE EndEvent
  BY <1>1, <1>2, <1>9 DEF EndEvent, Current
<1>10. CASE SwapTasks
  BY <1>1, <1>2, <1>10 DEF SwapTasks, Current
<1> QED
  BY <1>3, <1>4, <1>5, <1>6, <1>7, <1>8, <1>9, <1>10

\* begin_write closes the output only when it is called for an event, and then only of a
\* channel that lost interest.
LEMMA SingleSend ==
  ASSUME Inv, NEW c \in Chans, Current(c), chan[c].life \in {"active", "inactive"},
         NEW r, NEW p, NEW o \in Sends(c, r), OutputShut(p) = OutputShut(r),
         \/ r = chan[c] /\ (chan[c].writeInterest \/ Excused(c))
         \/ r = Gather(chan[c]) /\ ~chan[c].finished,
         Become(c, BeginWrite(r, o), <<>>),
         sock' = [sock EXCEPT ![c] = AfterSend(@, p, o)]
  PROVE  chan'[c].outClosed => Excused(c)'
<1>1. chan[c] \in Channel /\ Sound(chan[c]) /\ sock[c] \in Socket
  BY DEF Inv, TypeOK, ChanInv
<1>2. /\ r \in Channel /\ Sound(r) /\ r.life \in {"active", "inactive"}
      /\ r.outClosed = chan[c].outClosed /\ r.finished = chan[c].finished
      /\ r.asked = chan[c].asked /\ r.writeInterest = chan[c].writeInterest
  BY <1>1, GatherFields
<1> DEFINE room == sock[c].room
           broken == OutputShut(r) \/ sock[c].reset # "no"
<1>3. /\ room \in Nat /\ broken \in BOOLEAN /\ r.flushed \in Nat
      /\ o \in SendOutcomes(r.flushed, room, broken, Resets) /\ Resets \in BOOLEAN
  BY <1>1, <1>2, ChannelAssumption DEF Sends, Socket, Channel, OutputShut
<1>4. o.n \in Nat /\ o.n <= r.flushed /\ o.more \in BOOLEAN /\ o.failed \in BOOLEAN
  BY <1>3, SendFacts
<1>5. PICK s : s = BeginWrite(r, o)
  OBVIOUS
<1>6. chan'[c] = s
  BY <1>5, BecomeIs DEF Inv
<1>7. sock[c].reset # "no" => sock'[c].reset # "no"
  <2>1. sock'[c] = AfterSend(sock[c], p, o)
    BY DEF Inv, TypeOK
  <2> QED
    BY <1>1, <1>4, <2>1, AfterSendFields
<1>8. s.asked \in Nat /\ s.asked = r.asked /\ (s.outClosed /\ ~r.outClosed => r.finished)
  <2>1. r.finished /\ r.flushed > 0 => r.writeInterest \/ r.outClosed \/ broken
    <3>1. Drains(chan[c], sock[c])
      BY DEF Inv, ChanInv
    <3> QED
      BY <1>2, <3>1 DEF Drains
  <2>2. s \in Channel /\ WriteKept(r, s) /\ (s.outClosed /\ ~r.outClosed => r.finished)
    <3>1. PICK k : k = sock[c].room
      OBVIOUS
    <3>2. PICK x \in BOOLEAN : x = broken
      BY <1>3
    <3>3. o \in SendOutcomes(r.flushed, k, x, Resets)
      BY <1>3, <3>1, <3>2
    <3>4. r.finished /\ r.flushed > 0 => r.writeInterest \/ r.outClosed \/ x
      BY <2>1, <3>2
    <3>5. r \in Channel /\ Sound(r) /\ r.life \in {"active", "inactive"} /\ Resets \in BOOLEAN
      BY <1>2, <1>3
    <3> DEFINE w == BeginWrite(r, o)
    <3>6. /\ w \in Channel /\ Sound(w) /\ WriteKept(r, w)
          /\ w.sent = r.sent + o.n
          /\ r.outClosed => w.outClosed
          /\ w.outClosed /\ ~r.outClosed => r.finished /\ ~o.failed
          /\ w.inactives = IF ~r.outClosed /\ w.outClosed /\ r.inClosed THEN r.inactives + 1 ELSE r.inactives
          /\ ~o.failed /\ w.flushed > 0 => w.writeInterest \/ w.outClosed
      BY <3>3, <3>4, <3>5, WriteFields
    <3> QED
      BY <1>5, <3>6
  <2> QED
    BY <2>2 DEF WriteKept, Channel
<1>9. Excused(c) => Excused(c)'
  BY <1>1, <1>2, <1>6, <1>7, <1>8, ExcusedStays DEF Channel
<1>10. r.writeInterest => s.outClosed = r.outClosed
  BY <1>2, <1>4, <1>5, InterestedWrite
<1> QED
  BY <1>2, <1>6, <1>8, <1>9, <1>10 DEF Current

\* What the handlers' layers do otherwise does not close the output, but for a disconnect
\* that was asked for.
LEMMA SingleBecome ==
  ASSUME Inv, NEW c \in Chans, Current(c), NEW s \in Channel, NEW q, Become(c, s, q),
         sock' = sock, s.asked >= chan[c].asked, s.outClosed => chan[c].outClosed \/ s.asked > 0
  PROVE  /\ chan'[c].outClosed => Excused(c)'
         /\ Excused(c) => Excused(c)'
         /\ chan'[c] = s
<1>1. chan'[c] = s
  BY BecomeIs DEF Inv
<1>2. s.asked \in Nat /\ chan[c].asked \in Nat
  BY DEF Channel, Inv, TypeOK
<1>3. Excused(c) => Excused(c)'
  BY <1>1, <1>2, ExcusedStays
<1> QED
  BY <1>1, <1>3 DEF Current, Excused

\* The tasks.
LEMMA SingleRun ==
  ASSUME Single, Inv, NEW c \in Chans, Current(c),
         RunRegister \/ RunWriteOrFinish \/ RunFlush \/ RunDisconnect \/ RunInactive
  PROVE  Current(c)'
<1> DEFINE t == Head(running)
<1>1. pc = "run" /\ running # <<>> /\ batch' = batch /\ calls' = calls
  BY DEF RunRegister, RunWriteOrFinish, RunFlush, RunDisconnect, RunInactive, Running
<1>2. t \in Task /\ t.ch = c /\ Timely(t, chan[c]) /\ chan[c] \in Channel /\ Sound(chan[c])
  BY <1>1, First DEF Inv, TypeOK, ChanInv, Single
<1>3. SUFFICES chan'[c].outClosed => Excused(c)'
  BY <1>1, NoneKept
<1>4. CASE RunRegister
  <2>1. t.op = "register" /\ Become(c, Register(chan[c]), <<>>) /\ sock' = sock
    BY <1>2, <1>4 DEF RunRegister, Running
  <2>2. chan[c].life \in {"new", "posted"}
    BY <1>2, <2>1 DEF Timely
  <2>3. PICK s : s = Register(chan[c])
    OBVIOUS
  <2>4. s \in Channel /\ s.outClosed = chan[c].outClosed /\ s.asked = chan[c].asked
    BY <1>2, <2>2, <2>3, RegisterFields
  <2> QED
    BY <1>2, <2>1, <2>3, <2>4, SingleBecome DEF Channel
<1>5. CASE RunWriteOrFinish
  <2>1. PICK s : (s = Write(chan[c]) \/ s = Finish(chan[c])) /\ Become(c, s, <<>>) /\ sock' = sock
    BY <1>2, <1>5 DEF RunWriteOrFinish, Running
  <2>2. s \in Channel /\ s.outClosed = chan[c].outClosed /\ s.asked >= chan[c].asked
    BY <1>2, <2>1, QuietFields DEF Quiet
  <2> QED
    BY <2>1, <2>2, SingleBecome
<1>6. CASE RunFlush
  <2>1. t.op = "flush"
    BY <1>6 DEF RunFlush, Running
  <2>2. CASE chan[c].finished
    <3>1. chan' = chan /\ sock' = sock
      BY <1>2, <1>6, <2>2 DEF RunFlush
    <3> QED
      BY <3>1 DEF Current, Excused
  <2>3. CASE ~chan[c].finished
    <3>1. PICK r, o : /\ r = Gather(chan[c]) /\ o \in Sends(c, r)
                      /\ Become(c, BeginWrite(r, o), <<>>)
                      /\ sock' = [sock EXCEPT ![c] = AfterSend(@, r, o)]
      BY <1>2, <1>6, <2>3 DEF RunFlush, WriteOut
    <3>2. chan[c].life \in {"active", "inactive"}
      BY <1>2, <2>1 DEF Timely
    <3> QED
      BY <2>3, <3>1, <3>2, SingleSend
  <2> QED
    BY <2>2, <2>3
<1>7. CASE RunDisconnect
  <2>1. t.op = "disconnect" /\ sock' = sock
    BY <1>7 DEF RunDisconnect, Running
  <2>2. chan[c].asked > 0 /\ chan[c].life \in {"active", "inactive"}
    BY <1>2, <2>1 DEF Timely
  <2>3. PICK s, q : (s = Disconnect(chan[c]) \/ s = chan[c]) /\ Become(c, s, q)
    BY <1>2, <1>7 DEF RunDisconnect
  <2>4. s \in Channel /\ s.asked = chan[c].asked
    BY <1>2, <2>2, <2>3, DisconnectFields DEF Kept
  <2> QED
    BY <2>1, <2>2, <2>3, <2>4, SingleBecome DEF Channel
<1>8. CASE RunInactive
  <2>1. PICK s, q : s = [chan[c] EXCEPT !.life = "inactive"] /\ Become(c, s, q)
    BY <1>2, <1>8 DEF RunInactive
  <2>2. t.op = "inactive" /\ sock' = sock
    BY <1>8 DEF RunInactive, Running
  <2>3. chan[c].inClosed /\ chan[c].outClosed
    BY <1>2, <2>2 DEF Timely
  <2>4. s \in Channel /\ s.outClosed = chan[c].outClosed /\ s.asked = chan[c].asked
    BY <1>2, <2>1, <2>3, InactiveFields
  <2> QED
    BY <1>2, <2>1, <2>2, <2>4, SingleBecome DEF Channel
<1> QED
  BY <1>4, <1>5, <1>6, <1>7, <1>8

\* The handlers, and the end of the input.
LEMMA SingleHandler ==
  ASSUME Inv, NEW c \in Chans, Current(c),
         HandlerWrite(c) \/ HandlerFlush(c) \/ HandlerFinish(c) \/ HandlerDisconnect(c)
           \/ RegisterHere(c) \/ CloseInput(c)
  PROVE  Current(c)'
<1>1. pc \in {"handler", "closing"} /\ batch' = batch /\ calls' = calls
  BY DEF HandlerWrite, HandlerFlush, HandlerFinish, HandlerDisconnect, RegisterHere, CloseInput,
         loopVars
<1>2. chan[c] \in Channel /\ Sound(chan[c])
  BY DEF Inv, TypeOK, ChanInv
<1>3. SUFFICES chan'[c].outClosed => Excused(c)'
  BY <1>1, NoneKept
<1>4. CASE HandlerWrite(c) \/ HandlerFinish(c)
  <2>1. PICK s : (s = Write(chan[c]) \/ s = Finish(chan[c])) /\ Become(c, s, <<>>) /\ sock' = sock
    BY <1>4 DEF HandlerWrite, HandlerFinish
  <2>2. s \in Channel /\ s.outClosed = chan[c].outClosed /\ s.asked >= chan[c].asked
    BY <1>2, <2>1, QuietFields DEF Quiet
  <2> QED
    BY <2>1, <2>2, SingleBecome
<1>5. CASE HandlerFlush(c)
  <2>1. PICK r, o : /\ r = Gather(chan[c]) /\ o \in Sends(c, r)
                    /\ Become(c, BeginWrite(r, o), <<>>)
                    /\ sock' = [sock EXCEPT ![c] = AfterSend(@, chan[c], o)]
    BY <1>5 DEF HandlerFlush
  <2>2. chan[c].life \in {"active", "inactive"} /\ ~chan[c].finished
    BY <1>5 DEF HandlerFlush, Reachable
  <2>3. OutputShut(chan[c]) = OutputShut(r)
    BY <1>2, <2>1, GatherFields DEF OutputShut
  <2> QED
    BY <2>1, <2>2, <2>3, SingleSend
<1>6. CASE HandlerDisconnect(c)
  <2>1. /\ Others(c) /\ Quiet(chan[c], chan'[c]) /\ chan' \in [Chans -> Channel] /\ sock' = sock
    BY <1>6, AskStep DEF HandlerDisconnect
  <2>2. chan[c].asked \in Nat /\ chan'[c].asked \in Nat
    BY <1>2, <2>1 DEF Channel
  <2> QED
    BY <2>1, <2>2, ExcusedStays DEF Quiet, Current
<1>7. CASE RegisterHere(c)
  <2>1. PICK s : s = Register(Interested(chan[c])) /\ Become(c, s, <<>>)
    BY <1>7 DEF RegisterHere
  <2>2. sock' = sock /\ chan[c].life = "new"
    BY <1>7 DEF RegisterHere
  <2>3. s \in Channel /\ s.outClosed = chan[c].outClosed /\ s.asked = chan[c].asked
    BY <1>2, <2>1, <2>2, RegisterFields
  <2> QED
    BY <1>2, <2>1, <2>2, <2>3, SingleBecome DEF Channel
<1>8. CASE CloseInput(c)
  <2>1. PICK s : s = ShutdownInput(chan[c]) /\ Become(c, s, <<>>)
    BY <1>8 DEF CloseInput
  <2>2. sock' = sock /\ chan[c].life = "active"
    BY <1>8 DEF CloseInput, Inv, LoopInv
  <2>3. s \in Channel /\ s.outClosed = chan[c].outClosed /\ s.asked = chan[c].asked
    BY <1>2, <2>1, <2>2, InputFields DEF Kept
  <2> QED
    BY <1>2, <2>1, <2>2, <2>3, SingleBecome DEF Channel
<1> QED
  BY <1>4, <1>5, <1>6, <1>7, <1>8

\* trigger_write: the interest is on, or there is an excuse.
LEMMA SingleWrite ==
  ASSUME Inv, NEW c \in Chans, Current(c), TriggerWrite(c)
  PROVE  Current(c)'
<1>1. pc = "event" /\ c \in cur /\ "write" \in calls /\ calls' = calls \ {"write"} /\ batch' = batch
  BY DEF TriggerWrite
<1>2. chan[c].life = "active" /\ (chan[c].writeInterest \/ Excused(c)) /\ "write" \notin batch[c]
  BY <1>1 DEF Inv, LoopInv, Current
<1>3. PICK o \in Sends(c, chan[c]) :
        /\ Become(c, BeginWrite(chan[c], o), <<>>)
        /\ sock' = [sock EXCEPT ![c] = AfterSend(@, chan[c], o)]
  <2>1. WriteOut(c, chan[c], "event")
    BY DEF TriggerWrite
  <2> QED
    BY <2>1 DEF WriteOut
<1>4. chan'[c].outClosed => Excused(c)'
  BY <1>2, <1>3, SingleSend
<1> QED
  BY <1>1, <1>2, <1>4 DEF Current, Excused

\* Other threads.
LEMMA SingleOutside ==
  ASSUME Inv, NEW c \in Chans, Current(c), LoopRegister(c) \/ DisconnectFromOutside(c)
  PROVE  Current(c)'
<1>1. pc' = pc /\ batch' = batch /\ calls' = calls /\ sock' = sock
  BY DEF LoopRegister, DisconnectFromOutside, loopVars
<1>2. chan[c] \in Channel /\ Sound(chan[c])
  BY DEF Inv, TypeOK, ChanInv
<1>3. CASE LoopRegister(c)
  <2>1. PICK s, q : s = [Interested(chan[c]) EXCEPT !.life = "posted"] /\ Become(c, s, q)
    BY <1>3 DEF LoopRegister
  <2>2. chan[c].life = "new"
    BY <1>3 DEF LoopRegister
  <2>3. s \in Channel /\ s.outClosed = chan[c].outClosed /\ s.asked = chan[c].asked /\ s.writeInterest
    <3>1. PICK r : r = chan[c]
      OBVIOUS
    <3>2. r \in Channel /\ Sound(r) /\ r.life = "new"
      BY <1>2, <2>2, <3>1
    <3>3. s = [Interested(r) EXCEPT !.life = "posted"]
      BY <2>1, <3>1
    <3>4. /\ s \in Channel /\ s.outClosed = r.outClosed /\ s.asked = r.asked /\ s.writeInterest
      BY <3>2, <3>3, PostedFields
    <3> QED
      BY <3>1, <3>4
  <2>4. chan'[c] = s /\ (Excused(c) => Excused(c)')
    <3>1. Become(c, s, q)
      BY <2>1
    <3>2. s.asked >= chan[c].asked
      BY <1>2, <2>3 DEF Channel
    <3> QED
      BY <1>1, <2>3, <3>1, <3>2, SingleBecome
  <2> QED
    BY <1>1, <2>3, <2>4, StaysCurrent
<1>4. CASE DisconnectFromOutside(c)
  <2>1. running' = running
    BY <1>4 DEF DisconnectFromOutside
  <2>2. Quiet(chan[c], chan'[c]) /\ chan' \in [Chans -> Channel]
    BY <1>1, <1>4, <2>1, AskStep DEF DisconnectFromOutside
  <2>3. chan[c].asked \in Nat /\ chan'[c].asked \in Nat
    BY <1>2, <2>2 DEF Channel
  <2>4. Excused(c) => Excused(c)'
    BY <1>1, <2>2, <2>3, ExcusedStays DEF Quiet
  <2> QED
    BY <1>1, <2>2, <2>4, StaysCurrent DEF Quiet
<1> QED
  BY <1>3, <1>4

\* Every step of a single channel keeps its event current.
LEMMA SingleStep ==
  ASSUME Single, Inv, NEW c \in Chans, Current(c), [Next]_vars
  PROVE  Current(c)'
<1>1. CASE UNCHANGED vars
  BY <1>1 DEF vars, loopVars, Current, Excused
<1>2. CASE EpollWait \/ TriggerRead \/ EndEvent \/ SwapTasks \/ SeeShutdown
  <2>1. chan' = chan /\ sock' = sock
    BY <1>2 DEF EpollWait, TriggerRead, EndEvent, SwapTasks, SeeShutdown
  <2> QED
    BY <1>2, <2>1, SingleIdle
<1>3. CASE EndRun \/ HandlerReturns \/ HandlerThrows
  <2>1. /\ chan' = chan /\ sock' = sock /\ batch' = batch /\ calls' = calls
        /\ pc \notin {"dispatch", "event"}
    BY <1>3 DEF EndRun, HandlerReturns, HandlerThrows
  <2> QED
    BY <2>1, SingleIdle
<1>4. ASSUME NEW d \in Chans, Dispatch(d) PROVE Current(c)'
  <2>1. chan' = chan /\ sock' = sock
    BY <1>4 DEF Dispatch
  <2> QED
    BY <1>4, <2>1, SingleIdle
<1>5. ASSUME NEW d \in Chans, ReadData(d) \/ ReadError(d) \/ ReadComplete(d) PROVE Current(c)'
  <2>1. chan' = chan /\ batch' = batch /\ calls' = calls /\ pc = "reading"
    BY <1>5 DEF ReadData, ReadError, ReadComplete
  <2>2. sock[c].reset # "no" => sock'[c].reset # "no"
    <3>1. sock[c] \in Socket /\ d = c
      BY DEF Inv, TypeOK, Single
    <3>2. CASE ReadData(d)
      BY <3>1, <3>2 DEF ReadData, Inv, TypeOK, Socket
    <3>3. CASE ReadError(d)
      BY <3>1, <3>3 DEF ReadError, Inv, TypeOK, Socket
    <3>4. CASE ReadComplete(d)
      BY <3>4 DEF ReadComplete
    <3> QED
      BY <1>5, <3>2, <3>3, <3>4
  <2> QED
    BY <2>1, <2>2, SingleIdle
<1>6. ASSUME NEW d \in Chans, PeerSends(d) \/ PeerCloses(d) \/ PeerResets(d) \/ PeerReads(d)
      PROVE  Current(c)'
  <2>1. chan' = chan /\ batch' = batch /\ calls' = calls /\ pc' = pc
    BY <1>6 DEF PeerSends, PeerCloses, PeerResets, PeerReads, loopVars
  <2>2. sock[c].reset # "no" => sock'[c].reset # "no"
    BY <1>6, PeerStep DEF Single
  <2> QED
    BY <2>1, <2>2, SingleIdle
<1>7. ASSUME NEW d \in Chans, NEW op \in {"write", "flush", "finish"}, Post(d, op)
      PROVE  Current(c)'
  <2>1. chan' = chan /\ sock' = sock /\ batch' = batch /\ calls' = calls /\ pc' = pc
    BY <1>7 DEF Post, loopVars
  <2> QED
    BY <2>1, SingleIdle
<1>8. CASE RunRegister \/ RunWriteOrFinish \/ RunFlush \/ RunDisconnect \/ RunInactive
  BY <1>8, SingleRun
<1>9. ASSUME NEW d \in Chans,
             \/ HandlerWrite(d) \/ HandlerFlush(d) \/ HandlerFinish(d) \/ HandlerDisconnect(d)
             \/ RegisterHere(d) \/ CloseInput(d) \/ TriggerWrite(d)
             \/ LoopRegister(d) \/ DisconnectFromOutside(d)
      PROVE  Current(c)'
  <2>1. d = c
    BY DEF Single
  <2> QED
    BY <1>9, <2>1, SingleHandler, SingleWrite, SingleOutside
<1> QED
  BY <1>1, <1>2, <1>3, <1>4, <1>5, <1>6, <1>7, <1>8, <1>9
     DEF Next, LoopStep, HandlerStep, OutsideStep

\* With one channel on the worker, an output closes only by a disconnect that was asked for,
\* or on a connection that was reset: finish alone never closes it.
THEOREM FinishAlone ==
  ASSUME Single
  PROVE  Spec => []FinishNeedsDisconnect
<1>1. Init => SingleInv
  <2> SUFFICES ASSUME Init, NEW c \in Chans PROVE Current(c)
    BY DEF SingleInv
  <2>1. batch[c] = {} /\ calls = {}
    BY DEF Init
  <2>2. PICK kind \in [Chans -> Kinds] : chan = [d \in Chans |-> NewChannel(kind[d])]
    BY DEF Init
  <2>3. ~chan[c].outClosed
    BY <2>2 DEF NewChannel
  <2> QED
    BY <2>1, <2>3 DEF Current
<1>2. SingleInv /\ Inv /\ [Next]_vars => SingleInv'
  BY SingleStep DEF SingleInv
<1>3. SingleInv => FinishNeedsDisconnect
  BY DEF SingleInv, Current, Excused, FinishNeedsDisconnect
<1> QED
  BY <1>1, <1>2, <1>3, Invariant, PTL DEF Spec
=============================================================================
