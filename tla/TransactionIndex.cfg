CONSTANTS
  Requests = {r1, r2}
  Page = 2
  MaxPages = 2
  History = 4
  MaxTx = 6
  Burst = 2
  MaxFailures = 1
SPECIFICATION Spec
INVARIANTS
  IndexIsSound
PROPERTIES
  IndexSettles
