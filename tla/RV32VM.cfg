\* Any client, any order of calls: two clients, two starts.
SPECIFICATION FairSpec
CONSTANTS
  Clients = {c1, c2}
  VMThreads = {t1, t2}
  SpawnMayFail = TRUE
  None = None
INVARIANTS VMInv RunningFlagOwned
PROPERTIES NoNewInstructionInStop StopReturns
\* The object may be destroyed, and an untimed wait may sleep for ever.
CHECK_DEADLOCK FALSE
