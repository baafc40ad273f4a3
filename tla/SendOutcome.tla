---------------------------- MODULE SendOutcome ----------------------------
(***************************************************************************)
(* What the send loop of event_channel_base::begin_write can come to, as   *)
(* one step.  OutputBuffers has the loop itself and is checked to come to  *)
(* nothing else; EventChannel uses the outcomes.                           *)
(***************************************************************************)
EXTENDS Naturals

CONSTANT WriteSpin    \* FT_SERV_WRITE_SPIN_COUNT

ASSUME SpinAssumption == WriteSpin \in Nat \ {0, 1}

Outcome == [n : Nat, more : BOOLEAN, failed : BOOLEAN]

\* With `d` bytes to send and `room` for them in the socket: `n` were sent, and
\* not_yet_completed or an error.  The loop stops when all is sent, when the socket
\* is full, or after WriteSpin sends of a byte or more each.  The peer may read
\* meanwhile, so more than `room` may go; if `resets`, it may also reset the
\* connection, and a connection that is `broken` fails at once.
SendOutcomes(d, room, broken, resets) ==
  IF d = 0 THEN {[n |-> 0, more |-> FALSE, failed |-> FALSE]}
  ELSE IF broken THEN {[n |-> 0, more |-> FALSE, failed |-> TRUE]}
  ELSE {o \in [n : 0 .. d, more : BOOLEAN, failed : BOOLEAN] :
          /\ o.failed => resets /\ o.n < d /\ ~o.more
          /\ ~o.failed /\ o.more => o.n >= WriteSpin \/ (o.n >= room /\ o.n < d)
          /\ ~o.failed /\ ~o.more => o.n = d}
=============================================================================
