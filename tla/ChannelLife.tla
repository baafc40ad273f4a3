---------------------------- MODULE ChannelLife ----------------------------
(***************************************************************************)
(* What a channel promises its handlers, whatever the kernel, the peer and *)
(* the worker do: on_active first; then data while the input is open; the  *)
(* end of the input only after all the data that came; nothing sent once   *)
(* the output of a socket is shut down; and, when both halves are closed,  *)
(* on_inactive announced once and delivered after the events. EventChannel *)
(* implements it.                                                          *)
(***************************************************************************)
EXTENDS Naturals

CONSTANT Chans

VARIABLES
  life,        \* "new", "active" or "inactive"
  open,        \* the halves that are open
  announced,   \* how often on_inactive was announced
  arrived,     \* how much the peer has sent
  ended,       \* the peer has closed or reset the connection
  delivered,   \* how much of it on_read was given
  sent,        \* how many bytes the descriptor took
  busy,        \* an event of the channel is being processed
  file         \* the descriptor is not a socket: its output cannot be shut down

rest == <<busy, file>>
lifeVars == <<life, open, announced, arrived, ended, delivered, sent, rest>>

Halves == {"input", "output"}

Init ==
  /\ life = [c \in Chans |-> "new"]
  /\ open = [c \in Chans |-> Halves]
  /\ announced = [c \in Chans |-> 0]
  /\ arrived = [c \in Chans |-> 0]
  /\ ended = [c \in Chans |-> FALSE]
  /\ delivered = [c \in Chans |-> 0]
  /\ sent = [c \in Chans |-> 0]
  /\ busy = [c \in Chans |-> FALSE]
  /\ file \in [Chans -> BOOLEAN]

\* The halves S of channel c are closed; the last one to close announces on_inactive.
Close(c, S) ==
  /\ life[c] = "active"
  /\ open' = [open EXCEPT ![c] = @ \ S]
  /\ announced' = [announced EXCEPT
                     ![c] = IF open[c] # {} /\ open[c] \subseteq S THEN @ + 1 ELSE @]

Activate(c) ==
  /\ life[c] = "new"
  /\ life' = [life EXCEPT ![c] = "active"]
  /\ UNCHANGED <<open, announced, arrived, ended, delivered, sent, rest>>

\* process_events turns to channel c, and is done with it.
BeginEvent(c) ==
  /\ life[c] = "active"
  /\ busy' = [busy EXCEPT ![c] = TRUE]
  /\ UNCHANGED <<life, open, announced, arrived, ended, delivered, sent, file>>

EndEvent(c) ==
  /\ busy' = [busy EXCEPT ![c] = FALSE]
  /\ UNCHANGED <<life, open, announced, arrived, ended, delivered, sent, file>>

Deliver(c) ==
  /\ busy[c]
  /\ "input" \in open[c]
  /\ delivered[c] < arrived[c]
  /\ delivered' = [delivered EXCEPT ![c] = @ + 1]
  /\ UNCHANGED <<life, open, announced, arrived, ended, sent, rest>>

\* Some bytes are sent; what sends them may then close the output, or be the first
\* to see that the peer has gone.
Send(c) ==
  /\ life[c] # "new"
  /\ "output" \in open[c] \/ file[c]
  /\ sent'[c] > sent[c]
  /\ sent' = [sent EXCEPT ![c] = sent'[c]]
  /\ \/ Close(c, {"output"}) /\ UNCHANGED ended
     \/ ended' \in {ended, [ended EXCEPT ![c] = TRUE]} /\ UNCHANGED <<open, announced>>
  /\ UNCHANGED <<life, arrived, delivered, rest>>

CloseOutput(c) ==
  /\ Close(c, {"output"})
  /\ UNCHANGED <<life, arrived, ended, delivered, sent, rest>>

EndOfInput(c) ==
  /\ ended[c]
  /\ delivered[c] = arrived[c]
  /\ Close(c, {"input"})
  /\ UNCHANGED <<life, arrived, ended, delivered, sent, rest>>

Disconnect(c) ==
  /\ Close(c, Halves)
  /\ UNCHANGED <<life, arrived, ended, delivered, sent, rest>>

Inactivate(c) ==
  /\ life[c] = "active"
  /\ open[c] = {}
  /\ ~busy[c]
  /\ life' = [life EXCEPT ![c] = "inactive"]
  /\ UNCHANGED <<open, announced, arrived, ended, delivered, sent, rest>>

PeerSends(c) ==
  /\ ~ended[c]
  /\ arrived' = [arrived EXCEPT ![c] = @ + 1]
  /\ UNCHANGED <<life, open, announced, ended, delivered, sent, rest>>

PeerEnds(c) ==
  /\ ended' = [ended EXCEPT ![c] = TRUE]
  /\ UNCHANGED <<life, open, announced, arrived, delivered, sent, rest>>

Next ==
  \E c \in Chans :
    \/ Activate(c) \/ BeginEvent(c) \/ EndEvent(c) \/ Deliver(c) \/ Send(c)
    \/ CloseOutput(c) \/ EndOfInput(c) \/ Disconnect(c) \/ Inactivate(c)
    \/ PeerSends(c) \/ PeerEnds(c)

Spec == Init /\ [][Next]_lifeVars
=============================================================================
