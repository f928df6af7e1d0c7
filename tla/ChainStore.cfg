SPECIFICATION SiteSpec
CONSTANTS
  NodeCount = 2
  Remembered = 0
  Askers = {"poll", "visit"}
  Callers = {"poll"}
  MaxOutages = 2
  MaxProbes = 1
  Accounts = {"alice", "bob"}
  Restored = "alice"
  MaxSignIns = 1
  MaxLanded = 1
INVARIANT EveryNodeIsTried
PROPERTY PageRecovers
