--------------------------- MODULE MCInvestigation ---------------------------
(* Small instances of Investigation for TLC. *)
EXTENDS Investigation, TLC

(* Every run in a process of its own. *)
OwnProcess == [s \in Slot |-> s]

(* The queue's job and its redelivery in one process. *)
OneProcess == [s \in Slot |-> "worker"]
=============================================================================
