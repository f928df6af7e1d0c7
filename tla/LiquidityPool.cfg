CONSTANTS
  GenesisHeight = 1
  HeightsPerDay = 8
  HeightsPerYear = 80
  HeightsPerEra = 16
  EmissionCap = 64
  MaxAmount = 1000
  MultScale = 4
  ShareUnit = 2
  GenesisShareRate = 2
  ShareRateRatchetPct = 50
  MinMintDays = 1
  MaxMintDays = 3
  MaxDurationBonus = 2
  MaxVolumeBonus = 2
  MinEarlyEndRecovery = 2
  GraceDays = 1
  BleedDays = 2
  GoodAccountingGraceDays = 2
  AccScale = 4
  MinSharesForAccrual = 2
  alice = alice
  bob = bob
  Accounts = {alice, bob}
  HbdUnitsPerMilli = 3
  RcFree = 2
  RcLimit = 1
  LoyaltyMaxDays = 2
  LoyaltyPerDay = 2
  TrancheDormantDays = 2
  MaxAccrualDays = 2
  DayReward <- MCDayReward
  WalkMayStall = TRUE
  Funds <- MCFunds
  Heights <- MCHeights
  LcAmounts = {3}
  HbdAmounts = {2, 4}
  Gifts = {1}
  LastDay = 3
  MaxTranches = 1
  MaxSwaps = 1
  TrancheWarningDays = 1
  Unit = 2
  RcReserveMilli = 1
  NoReading = NoReading
  Meters = {NoReading, 2}
  SearchSteps = 5
  Typed = {2}
SPECIFICATION HistorySpec
SYMMETRY AccountSymmetry
INVARIANTS
  RewardsAreSound
  NothingIsLostOrStuck
  PageTellsTheTruth
PROPERTIES
  OthersCannotHarm
  PoolKeepsItsWord
CHECK_DEADLOCK FALSE
