\* A limit that is no number passes the test of the range.
CONSTANTS
  PidArgs = {0, 1, 2, 5, 6, 15, 18}
  LimitArgs <- MCLimitArgs
  NaN = NaN
  PidHalf = 8
  PidMax = 6
  NCPU = 2
  MaxOptions = 3
  Codes = {c0, c1}
  MaxSignals = 2
SPECIFICATION MainSpec
INVARIANT LimitInRange
