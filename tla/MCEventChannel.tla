---------------------------- MODULE MCEventChannel ----------------------------
(* Symmetry for checking EventChannel: no definition names a channel. *)
EXTENDS EventChannel, TLC

Symmetry == Permutations(Chans)
=============================================================================
