\* The loader: one client, one start, every outcome of its calls.
SPECIFICATION LFairSpec
CONSTANTS
  Main = main
  Clients <- MCClients
  VMThreads = {t1, t2}
  SpawnMayFail = TRUE
  None = None
INVARIANTS LInv PartsOutliveRun
PROPERTIES KeepsOrder LoaderEnds
\* main returns.
CHECK_DEADLOCK FALSE
