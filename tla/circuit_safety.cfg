SPECIFICATION Spec
CONSTANTS
  c1 = c1  c2 = c2  c3 = c3
  Callers = {c1, c2, c3}
  Ops = {"switch", "create", "snapshot", "check"}
  Threshold = 2
  Cooldown = 2
  MaxFaults = 1
  MaxCrashes = 1
SYMMETRY CallerSymmetry
INVARIANTS TypeOK ProbeAlone
PROPERTIES LockStays
