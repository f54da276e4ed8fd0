SPECIFICATION Spec
CONSTANTS
  Procs = {p1, p2}
  Findings = {f1}
  Contents = {c1}
  Times = {1, 2, 3}
  MaxLines = 3
  Splits = {"partial", "noeol"}
  Faults = {"crash", "power", "io"}
  None = None
  Torn = Torn
SYMMETRY Symmetry
INVARIANTS TypeOK LinearHistory GradeLadder FailsClosed
