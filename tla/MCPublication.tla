---------------------------- MODULE MCPublication ----------------------------
(* Small instances of Publication for TLC. *)
EXTENDS Publication, TLC

(* Every run in a process of its own. *)
OwnProcess == [s \in Slot |-> s]

(* The queue's jobs and the reconciler of one process. *)
OneProcess == [s \in Slot |-> "worker"]
=============================================================================
