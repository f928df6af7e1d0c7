CONSTANTS
  Accounts <- FixAccounts
  BoardSize = 3
  ConsensusSize = 2
  Min = 1
  Max = 3
  Default = 2
  MaxShares = 2
  Voters = {}
  Values = {}
SPECIFICATION Spec
INVARIANT FixExcludesNobody
CHECK_DEADLOCK FALSE
