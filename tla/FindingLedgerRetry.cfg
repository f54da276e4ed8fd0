SPECIFICATION Spec
CONSTANTS
  Procs = {p1, p2}
  Findings = {f1}
  Contents = {c1}
  Times = {1, 2}
  MaxLines = 2
  Splits = {"partial"}
  Faults = {"io", "retry"}
  None = None
  Torn = Torn
INVARIANTS LinearHistory
