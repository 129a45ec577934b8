SPECIFICATION FairSpec
CONSTANTS
  Worker = {w1, w2}
  Run = {r1}
  Pass = {p1}
  Installs = 0
  Repros = 1
  Exits = {"SUCCEEDED"}
  Interrupts = {"timeout"}
  MaxFaults = 2
  NoOne = NoOne
PROPERTY ActiveBecomesTerminal
PROPERTY ResourcesReclaimed
CHECK_DEADLOCK FALSE
