SPECIFICATION Spec
CONSTANTS
  News = {n1, n2}
  Sweeps = {s1}
  Together = 2
  Audits = {a1}
  Tools = {u1}
  ToolPath = toolpath
  Blob = blob
  NoBlob = noblob
  Clients <- MCClients
  Paths <- MCPaths
  Blobs <- MCBlobs
  MaxAttempts = 3
  MaxFaults = 3
  MaxTries = 2
  MaxDeaths = 1
INVARIANTS NewsInv RaceCostsOneAttempt ReportsTruthful
PROPERTY KeepsPromise
CHECK_DEADLOCK FALSE
