---------------------------- MODULE MCDescriptors ----------------------------
(* Channels are interchangeable, and so are numbers of descriptors. *)
EXTENDS Descriptors, TLC

MCSymmetry == Permutations(Chans) \cup Permutations(Fds)
=============================================================================
