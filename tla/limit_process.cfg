\* a cannot be signalled; members may be orphaned.  Which other faults are
\* met, and whether b is a member or a stranger, is in MCSettings.
CONSTANTS
  t = t
  a = a
  b = b
  init = init
  Pids = {t, a, b}
  Target = t
  Strangers = {b}
  Foreign = {a}
  InitPid = init
  Self = cpulimit
  Faults = {"orphan", "headless", "exec", "opendir", "abort", "age"}
  Settings <- MCSettings
  IncludeChildren = TRUE
SPECIFICATION FairSpec
INVARIANTS
  TypeOK
  OnlyKinStopped
  FamilyResumed
  
  LeavesOnlyTheDead
PROPERTIES
  UsesGroup
  QuitEnds
  DeathEnds
  StoppedIsContinued
  KeepsPromise
