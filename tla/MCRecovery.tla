----------------------------- MODULE MCRecovery -----------------------------
(* Small instances of Recovery for TLC. *)
EXTENDS Recovery, TLC

(* Every run in a process of its own. *)
OwnProcess == [s \in Slot |-> s]

(* The queue's job and the reconciler of one process. *)
OneProcess == [s \in Slot |-> "worker"]

Symmetry == Permutations(Slot) \cup Permutations(Diff)
=============================================================================
