SPECIFICATION WalletSpec
CONSTANTS
  Todo = {"claim", "mint", "swap", "vote"}
  Posts <- MCPosts
  Days = 1
  Due <- MCDue
  ClaimDay = 0
  Capacity = 30
  Gas <- MCGas
  Cost <- MCCost
  Draw = 2
  Margin = 1
  RC_LIMITS <- MCLimits
  RC_CEILING = 30
  MaxRetirePerWalk = 2
  UserRetireBudget = 1
  MaxSlices = 8
  MaxFaults = 1
INVARIANT EachCallIsPayable
PROPERTIES SettlementsNeverBlock PressesLand
