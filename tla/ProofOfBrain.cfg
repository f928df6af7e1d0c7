CONSTANTS
  GenesisHeight = 1
  HeightsPerDay = 8
  HeightsPerYear = 80
  HeightsPerEra = 16
  EmissionCap = 64
  MaxAmount = 1000
  MultScale = 4
  ShareUnit = 2
  GenesisShareRate = 2
  ShareRateRatchetPct = 50
  MinMintDays = 1
  MaxMintDays = 3
  MaxDurationBonus = 2
  MaxVolumeBonus = 2
  MinEarlyEndRecovery = 2
  GraceDays = 1
  BleedDays = 2
  GoodAccountingGraceDays = 2
  AccScale = 4
  MinSharesForAccrual = 2
  Accounts = {"alice", "bob"}
  Posts = {"p", "q"}
  Windows = {"viral", "deep"}
  Viral = "viral"
  None = None
  AuthorOf <- MCAuthorOf
  WindowOf <- MCWindowOf
  ModeOf <- MCModeOf
  PayoutDays <- MCPayoutDays
  DayEmission <- MCDayEmission
  Stake <- MCStake
  StakeEnds <- MCStakeEnds
  Threshold = 2
  FullVoteCostPct = 100
  CuratorPct = 50
  PoBLiquidPct = 50
  PromoteCutoffPct = 100
  PromoteMinBurn = 1
  MinMintAmount = 2
  CurationExpiryDays = 1
  MaxCurationDrain = 2
  PiggybackDrain = 1
  MaxAccrualDays = 1
  EpochDays = 2
  Weights = {50, 100}
  Casts <- MCCasts
  Funds = 0
  MaxActs = 3
  WalkMayStall = FALSE
  LastDay = 2
  HotSlots = 1
  PromotedSlotEvery = 2
  OlderAfterDays = 1
  MaxFetches = 3
  Replies = {1, 2, 3}
  Logs <- MCLogs
  Cards <- MCCards
SPECIFICATION Spec
INVARIANTS
  BooksAreSound
  QueuePaysAll
  FeedTellsTheTruth
PROPERTIES
  LateCuratorsLoseNothing
  CardsKeepTheirWord
  ListsKeepTheirOrder
CHECK_DEADLOCK FALSE
