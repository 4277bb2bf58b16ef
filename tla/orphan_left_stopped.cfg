\* A stopped child whose parent dies is no longer in the list when the
\* loop is left.
CONSTANTS
  t = t
  a = a
  b = b
  init = init
  Pids = {t, a}
  Target = t
  Strangers = {}
  Foreign = {}
  InitPid = init
  Self = cpulimit
  Faults = {"orphan"}
  Settings <- MCPlain
  IncludeChildren = TRUE
SPECIFICATION Spec
INVARIANT QuitResumesAll
