\* Three threads and three calls that overlap in every way.
SPECIFICATION FairSpec
CONSTANTS
  Threads = {t1, t2, t3}
  None = None
  Flags <- MCFlags
  Waits <- MCWaits
  Masks <- MCMasks
  MaxCalls = 3
INVARIANTS EventInv CheckedBitsStay NoLostWakeup
PROPERTIES ImplementsEventGroup SatisfiedWaitReturns TimedWaitReturns
\* Calls run out, and an untimed wait may sleep for ever.
CHECK_DEADLOCK FALSE
