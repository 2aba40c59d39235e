\* A STOP bit left over from an earlier run answers wait_for_stop.
SPECIFICATION Spec
CONSTANTS
  Clients = {c1}
  VMThreads = {t1, t2}
  SpawnMayFail = FALSE
  None = None
PROPERTY WaitStopTruthful
\* The object may be destroyed, and an untimed wait may sleep for ever.
CHECK_DEADLOCK FALSE
