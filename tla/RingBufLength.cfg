\* One process asks for the length while another pushes and pops.
CONSTANTS
  Procs = {p1, p2}
  NoProc = NoProc
  Values = {x}
  Zero = Zero
  Torn = Torn
  Capacity = 3
  Word = 16
  Robust = FALSE
  Ops = {"push", "pop", "length"}
  MaxCalls = 3
  MaxCrashes = 0
SPECIFICATION Spec
INVARIANT LengthInRange
CHECK_DEADLOCK FALSE
