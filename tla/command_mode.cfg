\* Up to three options; signals reach the parent, the limiter and the command,
\* two each.
CONSTANTS
  PidArgs = {0, 1, 2, 5, 6, 15, 18}
  LimitArgs <- MCLimitArgs
  NaN = NaN
  PidHalf = 8
  PidMax = 6
  NCPU = 2
  MaxOptions = 3
  Codes = {c0, c1}
  MaxSignals = 2
SPECIFICATION MainSpec
INVARIANTS
  MainTypeOK
  AcceptedAsGiven
  ActsAsGiven
  UndisturbedReports
PROPERTIES
  InterruptEndsAll
