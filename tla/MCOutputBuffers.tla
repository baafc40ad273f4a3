-------------------------- MODULE MCOutputBuffers --------------------------
(* Two byte values; a buffer of one byte, and one of two that a handler has *)
(* already read a byte of.                                                  *)
EXTENDS OutputBuffers

MCInputs ==
  {Put(NewBuffer, <<0>>), RemoveFront(Put(NewBuffer, <<0, 1, 0>>), 1)}
=============================================================================
