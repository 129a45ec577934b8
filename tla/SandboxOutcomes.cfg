SPECIFICATION Spec
CONSTANTS
  Worker = {w1, w2}
  Run = {r1}
  Pass = {p1}
  Installs = 1
  Repros = 2
  Exits = {"SUCCEEDED", "FAILED", "OOM", "TIMED_OUT"}
  Interrupts = {"timeout", "cancelled"}
  MaxFaults = 1
  NoOne = NoOne
SYMMETRY Symmetry
INVARIANT ConclusiveIsEarned
PROPERTY ContractSpec
CHECK_DEADLOCK FALSE
