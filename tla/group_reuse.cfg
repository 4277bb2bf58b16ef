\* A pid whose entry is still in the table is given to another process.
CONSTANTS
  p = p
  q = q
  d1 = d1
  d2 = d2
  d3 = d3
  Pids = {p}
  Foreign = {}
  Desc = {d1}
  NoDesc = NoDesc
  MinDt = 1
  Scale = 2
  Recycled = TRUE
  Missed = FALSE
  ClockSet = FALSE
  MaxTime = 3
  MaxCpu = 2
SPECIFICATION Spec
SYMMETRY Blocks
INVARIANT UsageInRange
