\* Clients that keep the order: two clients, three starts.
SPECIFICATION HFairSpec
CONSTANTS
  Clients = {c1, c2}
  VMThreads = {t1, t2, t3}
  SpawnMayFail = TRUE
  None = None
INVARIANTS HInv StoppedIsQuiet ConfigFrozen NoUseAfterFree SeenStopIsFinal
PROPERTIES WaitStopTruthful ImplementsContract StartIsAnswered
\* The object may be destroyed, and an untimed wait may sleep for ever.
CHECK_DEADLOCK FALSE
