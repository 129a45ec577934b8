SPECIFICATION Spec
CONSTANTS
  Worker = {w1, w2}
  Run = {r1, r2}
  Pass = {p1}
  Installs = 0
  Repros = 1
  Exits = {"SUCCEEDED"}
  Interrupts = {}
  MaxFaults = 3
  NoOne = NoOne
SYMMETRY Symmetry
INVARIANT TypeOK
INVARIANT ConclusiveIsEarned
PROPERTY ContractSpec
CHECK_DEADLOCK FALSE
