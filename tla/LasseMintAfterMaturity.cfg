CONSTANTS
  GenesisHeight = 1
  HeightsPerDay = 8
  HeightsPerYear = 80
  HeightsPerEra = 16
  EmissionCap = 150
  MaxAmount = 1000
  MultScale = 4
  ShareUnit = 2
  GenesisShareRate = 2
  ShareRateRatchetPct = 50
  MinMintDays = 1
  MaxMintDays = 3
  MaxDurationBonus = 2
  MaxVolumeBonus = 2
  MinEarlyEndRecovery = 2
  GraceDays = 1
  BleedDays = 2
  GoodAccountingGraceDays = 2
  AccScale = 8
  MinSharesForAccrual = 3
  Accounts = {"alice", "bob"}
  Snapshot <- MCSnapshot
  MigrationMintDays = 2
  HistoricHardCap = 200
  MinMintAmount = 1
  VolumeStart = 2
  VolumeEnd = 6
  MaxAccrualDays = 2
  ExpiryChunkSize = 1
  UserRetireBudget = 1
  MaxRetirePerWalk = 2
  Heights <- MCHeights
  LastDay = 8
  Principals = {3}
  Durations = {1}
  Funding <- MCFunding
  AdvanceSteps = {1}
  MaxMints <- MCMaxMints
  MaxClaimAllBatch = 12
SPECIFICATION Spec
PROPERTY NoYieldAfterMaturity
CHECK_DEADLOCK FALSE
