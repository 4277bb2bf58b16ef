\* Two pids, one of which cannot be signalled; the clock may be set back.
CONSTANTS
  p = p
  q = q
  d1 = d1
  d2 = d2
  d3 = d3
  Pids = {p, q}
  Foreign = {q}
  Desc = {d1, d2}
  NoDesc = NoDesc
  MinDt = 1
  Scale = 2
  Recycled = FALSE
  Missed = FALSE
  ClockSet = TRUE
  MaxTime = 2
  MaxCpu = 2
SPECIFICATION Spec
SYMMETRY Blocks
INVARIANTS
  TypeOK
  UsageInRange
  UsageNotOverstated
  OwnedOnce
  LostOnlyRemoved
