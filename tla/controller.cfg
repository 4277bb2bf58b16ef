\* One or two members with one or two threads each; limits of 0, 75% and 150%
\* of a CPU, and nan.
CONSTANTS
  Scale = 100
  Ns = 19
  MaxSlot = 5
  NaN = NaN
  Limits = {0, 75, 150, NaN}
  FamilySizes = {1, 2}
  ThreadCounts = {1, 2}
  Loads = {0, 1, 5}
  IdleSamples = {0, 20}
SPECIFICATION FairSpec
INVARIANTS
  TypeOK
  SlicesFillSlot
PROPERTIES
  NeverRewardsExcess
  Settles
  RunsAgain
