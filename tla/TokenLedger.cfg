CONSTANTS
  alice = alice
  bob = bob
  null = null
  Null = null
  Core = core
  Accounts <- MCAccounts
  Snapshot <- MCSnapshot
  EmissionCap = 3
  GenesisHeight = 1
  HeightsPerDay = 8
  HeightsPerYear = 80
  HeightsPerEra = 16
  MaxAmount = 1000
  MultScale = 4
  ShareUnit = 2
  GenesisShareRate = 2
  ShareRateRatchetPct = 50
  MinMintDays = 1
  MaxMintDays = 3
  MaxDurationBonus = 2
  MaxVolumeBonus = 2
  MinEarlyEndRecovery = 2
  GraceDays = 1
  BleedDays = 2
  GoodAccountingGraceDays = 2
  AccScale = 4
  MinSharesForAccrual = 2
  HistoricHardCap = 7
  Amounts = {1, 2}
  DirectTo = {core, bob}
  EarlyReconcile = FALSE
SPECIFICATION Spec
INVARIANTS
  TypeOK
  BooksBalance
  BackedFloatPays
  HoldersAreServed
PROPERTIES
  ImplementsLedger
  BackedStaysBacked
