\* stop() before the thread has set m_running, then start() again.
SPECIFICATION Spec
CONSTANTS
  Clients = {c1}
  VMThreads = {t1, t2}
  SpawnMayFail = FALSE
  None = None
INVARIANT StoppedIsQuiet
\* The object may be destroyed, and an untimed wait may sleep for ever.
CHECK_DEADLOCK FALSE
