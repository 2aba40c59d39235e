\* The first waiter consumes the STOP bit of the second.
SPECIFICATION FairSpec
CONSTANTS
  Clients = {c1, c2}
  VMThreads = {t1}
  SpawnMayFail = FALSE
  None = None
PROPERTY StopWaiterReturns
\* The object may be destroyed, and an untimed wait may sleep for ever.
CHECK_DEADLOCK FALSE
