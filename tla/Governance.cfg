CONSTANTS
  Accounts <- MCAccounts
  BoardSize = 4
  ConsensusSize = 3
  Min = 1
  Max = 3
  Default = 2
  MaxShares = 1
  Voters = {1, 2, 5}
  Values = {1, 3}
SPECIFICATION Spec
INVARIANTS
  NoOneRulesAlone
  BoardPageTellsTheTruth
PROPERTIES
  OffersConverge
CHECK_DEADLOCK FALSE
