--------------------------- MODULE MC_JobHandover ---------------------------
(* Two processes on one database, each with a worker id of its own. *)
EXTENDS JobLifecycle, TLC

MCWorkerId == [p \in Procs |-> p]
Symmetry == Permutations(Txs) \cup Permutations(Procs)
=============================================================================
