----------------------------- MODULE MCBootstrap -----------------------------
(* One boss, two children. *)
EXTENDS Bootstrap, TLC

CONSTANTS b, c, d

MCBoss == <<b>>
MCChild == <<c, d>>
=============================================================================
