---------------------------- MODULE MCEventWorker ----------------------------
(* Model values and symmetry for checking EventWorker. *)
EXTENDS EventWorker, TLC

\* Threads and tasks are interchangeable: no definition names one of them.
Symmetry == Permutations(Clients) \cup Permutations(Tasks)
=============================================================================
