------------------------------ MODULE MCDecoder ------------------------------
(* Items 0, 1 and 2 head a keep-alive and frames of one and two items.  Each *)
(* is read alone or with the next, and once behind one that was removed.     *)
EXTENDS Decoder

MCInputs ==
  {[buffer |-> s, position |-> 0] : s \in [1 .. 1 -> Items] \cup [1 .. 2 -> Items]}
    \cup {[buffer |-> <<1, 0, 2>>, position |-> 1]}
=============================================================================
