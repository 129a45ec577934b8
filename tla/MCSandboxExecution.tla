------------------------ MODULE MCSandboxExecution ------------------------
(* Small instances of SandboxExecution for TLC. *)
EXTENDS SandboxExecution, TLC

Symmetry == Permutations(Worker) \union Permutations(Run) \union Permutations(Pass)
=============================================================================
