SPECIFICATION BatchSpec
CONSTANTS
  Procs = {p1, p2}
  f1 = f1
  f2 = f2
  c1 = c1
  c2 = c2
  Findings = {f1, f2}
  Contents = {c1}
  Times = {1, 2}
  MaxLines = 2
  Splits = {"partial"}
  Faults = {"crash", "power", "io"}
  None = None
  Torn = Torn
  Projections <- OneProjection
SYMMETRY Symmetry
INVARIANTS AckedDurable BatchTold
PROPERTIES ImplementsHistory
