\* Two processes and two cells: an object is freed and its cell reused while
\* an accessor is between two checks; one process may die.
CONSTANTS
  Procs = {p1, p2}
  Cells = {1, 3}
  Null = 0
  Word = 16
  Base <- MCBase
  RegionSize = 5
  HeaderSize = 1
  Types = {7}
  MaxSize = 1
  MaxCalls = 4
  MaxCrashes = 1
SPECIFICATION Spec
INVARIANTS TypeOK UnmarkedIsWhole HandlesTold
CHECK_DEADLOCK FALSE
