\* The target and two that it or its children may start; every platform and
\* every filter.
CONSTANTS
  t = t
  a = a
  b = b
  s = s
  init = init
  Pids = {t, a, b}
  Target = t
  Strangers = {}
  Foreign = {}
  InitPid = init
  Self = cpulimit
  Faults = {"orphan", "headless", "opendir"}
  Platforms = {"linux", "freebsd", "macos"}
  Filters = {"all", "one", "family"}
SPECIFICATION FairSpec
INVARIANTS
  TypeOK
  YieldedWasMember
  PassedWasNone
  ScanFindsSteady
PROPERTIES
  ScanEnds
