\* Signals reach the parent, the limiter and the command, two each.
CONSTANTS
  Codes = {c0, c1}
  MaxSignals = 2
SPECIFICATION Spec
INVARIANTS
  WaitsForBoth
