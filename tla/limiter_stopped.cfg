\* cpulimit runs below the target that it limits with its children.
CONSTANTS
  t = t
  a = a
  b = b
  init = init
  Pids = {t, a}
  Target = t
  Strangers = {}
  Foreign = {}
  InitPid = init
  Self = a
  Faults = {}
  Settings <- MCPlain
  IncludeChildren = TRUE
SPECIFICATION FairSpec
PROPERTY QuitEnds
CHECK_DEADLOCK FALSE
