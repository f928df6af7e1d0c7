CONSTANTS
  Requests = {r1}
  Page = 2
  MaxPages = 3
  History = 2
  MaxTx = 7
  Burst = 4
  MaxFailures = 0
SPECIFICATION Spec
INVARIANT HeadBlockIsContiguous
