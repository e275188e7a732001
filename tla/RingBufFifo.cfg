\* Two processes on a buffer of three slots, one of which may die anywhere in
\* a call; the mutex is robust.
CONSTANTS
  Procs = {p1, p2}
  NoProc = NoProc
  Values = {x, y}
  Zero = Zero
  Torn = Torn
  Capacity = 3
  Word = 16
  Robust = TRUE
  Ops = {"push", "pop", "length", "is_empty", "is_full"}
  MaxCalls = 3
  MaxCrashes = 1
SPECIFICATION FairSpec
INVARIANT TypeOK
PROPERTIES Fifo EveryCallReturns
CHECK_DEADLOCK FALSE
