\* a and b may be forked by t; cpulimit is not below t.
CONSTANTS
  Pids = {t, a, b}
  Target = t
  Strangers = {}
  Foreign = {}
  InitPid = init
  Self = cpulimit
  Faults = {"orphan", "abort", "age"}
  NoPid = NoPid
SPECIFICATION FairSpec
INVARIANTS
  TypeOK
  ResultTopmost
  FindsSteady
PROPERTIES
  QuitEnds
  MatchIsLimited
