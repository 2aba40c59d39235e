------------------------ MODULE RV32Handshake_proofs ------------------------
(***************************************************************************)
(* Theorems about RV32Handshake for any set of clients and any number of   *)
(* runs, proved from VMAssumption: the inductive invariant HInv, what it   *)
(* says of stop(), of the waits, of configuration and of destruction, and  *)
(* that clients that keep the order see the machine of VMContract.         *)
(***************************************************************************)
EXTENDS RV32Handshake, RV32VM_proofs

(* The order only restricts the calls: its steps are steps of RV32VM.      *)
LEMMA HandshakeSteps == [HNext]_hvars => [Next]_vars
<1> USE DEF ClientCall, ClientStep
<1>1. ASSUME NEW c \in Clients, HClient(c) PROVE ClientCall(c) \/ ClientStep(c)
  BY <1>1 DEF HClient, HStartArm, HStartSpawn, HStopRequest, HWaitTake, HDestroy,
     HOtherClient
<1>2. ASSUME NEW t \in VMThreads, HThread(t) PROVE VMStep(t)
  BY <1>2 DEF HThread
<1>3. UNCHANGED hvars => UNCHANGED vars
  BY DEF hvars
<1> QED
  BY <1>1, <1>2, <1>3 DEF HNext, Next

(* So whatever RV32VM guarantees any client, it guarantees these.          *)
THEOREM HandshakeImplementsVM == HSpec => Spec
  BY HandshakeSteps, PTL DEF HSpec, HInit, Spec

(* HInv holds initially. *)
LEMMA HInvInit == HInit => HInv
  BY VMInvInit, VMAssumption DEF HInit, Init, HInv, LiveIsHandle, RunningFlag, StartBitFresh,
     StopBitFresh, OrderPoints, DtorInv, HandleInv, InStop, VPoints, Live, Counted

(* The arguments of a wait are those of wait_for_start or wait_for_stop.   *)
LEMMA WaitArguments ==
  ASSUME HInv, NEW c \in Clients, cpc[c] = "wait"
  PROVE  \E bit \in EventBits :
           want[c].mask = {bit} /\ want[c].clear = TRUE /\ want[c].allwait = FALSE
<1>1. want[c] \in ClientWaits
  BY DEF HInv, VMInv, TypeOK, OrderPoints
<1> QED
  BY <1>1 DEF ClientWaits, WaitFor

(* What HInv adds to the invariant of RV32VM. *)
Order ==
  /\ seenStart \in BOOLEAN /\ seenStop \in BOOLEAN
  /\ LiveIsHandle
  /\ RunningFlag
  /\ StartBitFresh
  /\ StopBitFresh
  /\ OrderPoints
  /\ DtorInv
  /\ HandleInv

(* Every step of the order preserves it; VMInv is kept by RV32VM_proofs.   *)
LEMMA OrderStep == HInv /\ VMInv' /\ [HNext]_hvars => Order'
<1> SUFFICES ASSUME HInv, VMInv', [HNext]_hvars PROVE Order'
  OBVIOUS
<1> USE DEF HInv, Order, VMInv, TypeOK, HandleDiscipline, CallPoints,
   LiveIsHandle, RunningFlag, StartBitFresh, StopBitFresh, OrderPoints,
   DtorInv, HandleInv, InStop, InMutex, VPoints, Live, Counted, Ending,
   EventBits
<1>1. ASSUME NEW c \in Clients, StartRefused(c), UNCHANGED seen PROVE Order'
  BY <1>1, VMAssumption DEF StartRefused, seen, shared, Return, MayLock,
     MayCall
<1>2. ASSUME NEW c \in Clients, HStartArm(c) PROVE Order'
  BY <1>2, VMAssumption DEF StartArm, HStartArm, seen, CGoto, MayLock, MayCall
<1>3. ASSUME NEW c \in Clients, NEW t \in VMThreads, HStartSpawn(c, t) PROVE
   Order'
  <2>1. /\ ~m_started /\ m_thread = None /\ ~m_exit_req /\ seenStart /\ seenStop
        /\ m_event = {}
        /\ \A u \in VMThreads : vpc[u] \notin Live \cup {"bye"}
    BY <1>3 DEF HStartSpawn, StartSpawn, CGoto
  <2>2. LiveIsHandle'
    BY <1>3, <2>1, VMAssumption DEF HStartSpawn, StartSpawn, CGoto, VGoto
  <2>3. RunningFlag'
    BY <1>3, <2>1, VMAssumption DEF HStartSpawn, StartSpawn, CGoto, VGoto
  <2>4. StartBitFresh'
    BY <1>3, <2>1, VMAssumption DEF HStartSpawn, StartSpawn, CGoto, VGoto
  <2>5. StopBitFresh'
    BY <1>3, <2>1, VMAssumption DEF HStartSpawn, StartSpawn, CGoto, VGoto
  <2>6. OrderPoints'
    BY <1>3, <2>1, VMAssumption DEF HStartSpawn, StartSpawn, CGoto, VGoto
  <2>7. DtorInv'
    BY <1>3, <2>1, VMAssumption DEF HStartSpawn, StartSpawn, CGoto, VGoto
  <2>8. HandleInv'
    BY <1>3, <2>1, VMAssumption DEF HStartSpawn, StartSpawn, CGoto, VGoto
  <2>9. seenStart' \in BOOLEAN /\ seenStop' \in BOOLEAN
    BY <1>3 DEF HStartSpawn
  <2> QED
    BY <2>2, <2>3, <2>4, <2>5, <2>6, <2>7, <2>8, <2>9
<1>4. ASSUME NEW c \in Clients, StartThrow(c), UNCHANGED seen PROVE Order'
  BY <1>4, VMAssumption DEF StartThrow, seen, CGoto, Return
<1>5. ASSUME NEW c \in Clients, StartFinish(c), UNCHANGED seen PROVE Order'
  BY <1>5, VMAssumption DEF StartFinish, seen, CGoto, Return
<1>6. ASSUME NEW c \in Clients, StopRefused(c), UNCHANGED seen PROVE Order'
  BY <1>6, VMAssumption DEF StopRefused, seen, shared, Return, MayLock,
     MayCall
<1>7. ASSUME NEW c \in Clients, HStopRequest(c) PROVE Order'
  BY <1>7, VMAssumption DEF StopRequest, HStopRequest, seen, CGoto, MayLock,
     MayCall
<1>8. ASSUME NEW c \in Clients, StopDrained(c), UNCHANGED seen PROVE Order'
  BY <1>8, VMAssumption DEF StopDrained, seen, CGoto, shared
<1>9. ASSUME NEW c \in Clients, StopFinish(c), UNCHANGED seen PROVE Order'
  BY <1>9, VMAssumption DEF StopFinish, seen, CGoto, Return
<1>10. ASSUME NEW c \in Clients, ConfigRefused(c), UNCHANGED seen PROVE Order'
  BY <1>10, VMAssumption DEF ConfigRefused, seen, shared, Return, MayLock,
     MayCall
<1>11. ASSUME NEW c \in Clients, ConfigBegin(c), UNCHANGED seen PROVE Order'
  BY <1>11, VMAssumption DEF ConfigBegin, seen, CGoto, MayLock, MayCall
<1>12. ASSUME NEW c \in Clients, ConfigEnd(c), UNCHANGED seen PROVE Order'
  BY <1>12, VMAssumption DEF ConfigEnd, seen, CGoto, Return
<1>13. ASSUME NEW c \in Clients, NEW w \in ClientWaits, WaitCall(c, w),
   UNCHANGED seen PROVE Order'
  BY <1>13, VMAssumption, WaitAssumption DEF WaitCall, seen, CGoto, shared,
     MayCall
<1>14. ASSUME NEW c \in Clients, HWaitTake(c) PROVE Order'
  <2>1. PICK bit \in EventBits :
              want[c].mask = {bit} /\ want[c].clear = TRUE /\ want[c].allwait = FALSE
    BY <1>14, WaitArguments DEF HWaitTake, WaitTake, WaitReturn, CGoto
  <2>2. bit \in m_event /\ m_event' = m_event \ {bit}
    BY <1>14, <2>1 DEF HWaitTake, WaitTake, Satisfied, Consume
  <2>3. seenStart' = (seenStart \/ bit = "START") /\ seenStop' = (seenStop \/ bit = "STOP")
    BY <1>14, <2>1 DEF HWaitTake
  <2> QED
    BY <1>14, <2>1, <2>2, <2>3, VMAssumption DEF HWaitTake, WaitTake, WaitReturn, CGoto, Return, shared
<1>15. ASSUME NEW c \in Clients, WaitTimeout(c), UNCHANGED seen PROVE Order'
  BY <1>15, VMAssumption DEF WaitTimeout, seen, WaitReturn, CGoto, Return,
     shared
<1>16. ASSUME NEW c \in Clients, seenStop, DestroyStopped(c),
   UNCHANGED seen PROVE Order'
  BY <1>16, VMAssumption DEF DestroyStopped, seen, CGoto, Return, shared,
     MayDestroy
<1>17. ASSUME NEW c \in Clients, seenStop, DestroyStarted(c),
   UNCHANGED seen PROVE Order'
  BY <1>17, VMAssumption DEF DestroyStarted, seen, CGoto, MayDestroy
<1>18. ASSUME NEW c \in Clients, DestroyFree(c), UNCHANGED seen PROVE Order'
  BY <1>18, VMAssumption DEF DestroyFree, seen, CGoto, shared
<1>19. ASSUME NEW t \in VMThreads, VMBoot(t), UNCHANGED seen PROVE Order'
  BY <1>19, VMAssumption DEF VMBoot, seen, VGoto
<1>20. ASSUME NEW t \in VMThreads, VMAnnounce(t), UNCHANGED seen PROVE Order'
  BY <1>20, VMAssumption DEF VMAnnounce, seen, VGoto, Raise, shared
<1>21. ASSUME NEW t \in VMThreads, VMCheck(t), UNCHANGED seen PROVE Order'
  BY <1>21, VMAssumption DEF VMCheck, seen, VGoto, shared
<1>22. ASSUME NEW t \in VMThreads, VMFetch(t), UNCHANGED seen PROVE Order'
  BY <1>22, VMAssumption DEF VMFetch, seen, VGoto, shared
<1>23. ASSUME NEW t \in VMThreads, VMExec(t), UNCHANGED seen PROVE Order'
  BY <1>23, VMAssumption DEF VMExec, seen, VGoto, shared
<1>24. ASSUME NEW t \in VMThreads, VMLeave(t), UNCHANGED seen PROVE Order'
  BY <1>24, VMAssumption DEF VMLeave, seen, VGoto
<1>25. ASSUME NEW t \in VMThreads, VMBye(t), UNCHANGED seen PROVE Order'
  BY <1>25, VMAssumption DEF VMBye, seen, VGoto, Raise, shared
<1>26. CASE UNCHANGED hvars
  BY <1>26 DEF hvars, vars, shared
<1> QED
  BY <1>1, <1>2, <1>3, <1>4, <1>5, <1>6, <1>7, <1>8, <1>9, <1>10, <1>11,
     <1>12, <1>13, <1>14, <1>15, <1>16, <1>17, <1>18, <1>19, <1>20, <1>21,
     <1>22, <1>23, <1>24, <1>25, <1>26 DEF HNext, HClient, HThread,
     HOtherClient, HDestroy, VMStep

(* The invariant of the order. *)
THEOREM HInvariant == HSpec => []HInv
<1>1. HInv /\ [HNext]_hvars => VMInv'
  BY HandshakeSteps, TypeStep, HandleStep, RunningStep DEF HInv, VMInv
<1>2. HInv /\ [HNext]_hvars => HInv'
  BY <1>1, OrderStep DEF Order, HInv
<1> QED
  BY <1>2, HInvInit, PTL DEF HSpec

(* "Stop VM": when no call holds the lock and the object has no thread,    *)
(* none executes the guest.                                                *)
THEOREM StopIsComplete == HSpec => []StoppedIsQuiet
<1>1. HInv => StoppedIsQuiet
  BY VMAssumption DEF HInv, VMInv, TypeOK, LiveIsHandle, StoppedIsQuiet, Executing, Live,
     Counted
<1> QED
  BY <1>1, HInvariant, PTL

(* One thread at a time executes on the registers.                         *)
THEOREM OneRunner == HSpec => []SingleRunner
<1>1. HInv => SingleRunner
  BY DEF HInv, LiveIsHandle, SingleRunner, Executing, Live, Counted
<1> QED
  BY <1>1, HInvariant, PTL

(* The instruction, memory and register tables do not change under run().  *)
THEOREM FrozenConfig == HSpec => []ConfigFrozen
<1>1. HInv => ConfigFrozen
  BY VMAssumption DEF HInv, VMInv, TypeOK, CallPoints, LiveIsHandle, ConfigFrozen,
     Configuring, Executing, Live, Counted
<1> QED
  BY <1>1, HInvariant, PTL

(* A STOP that was seen is final: the thread it came from has nothing left *)
(* to do, so the object may be destroyed.                                  *)
THEOREM FinalStop == HSpec => []SeenStopIsFinal
<1>1. HInv => SeenStopIsFinal
  BY DEF HInv, VMInv, TypeOK, StopBitFresh, SeenStopIsFinal, VPoints, Ending
<1> QED
  BY <1>1, HInvariant, PTL

(* No thread is left when the object is destroyed.                         *)
THEOREM SafeDestruction == HSpec => []NoUseAfterFree
<1>1. HInv /\ SeenStopIsFinal => NoUseAfterFree
  BY VMAssumption DEF HInv, DtorInv, SeenStopIsFinal, NoUseAfterFree, Destroyed
<1> QED
  BY <1>1, HInvariant, FinalStop, PTL

(* wait_for_stop does not return true while a run is still going on.       *)
THEOREM TruthfulStop == HSpec => WaitStopTruthful
<1> DEFINE Truth == \A c \in Clients :
      WaitTake(c) /\ want[c].mask = {"STOP"} => \A t \in VMThreads : vpc[t] \notin Live
<1>1. HInv => Truth
  <2> SUFFICES ASSUME HInv, NEW c \in Clients, WaitTake(c), want[c].mask = {"STOP"},
                      NEW t \in VMThreads
               PROVE vpc[t] \notin Live
    OBVIOUS
  <2>1. "STOP" \in m_event
    BY WaitArguments DEF WaitTake, WaitReturn, CGoto, Satisfied
  <2> QED
    BY <2>1 DEF HInv, StopBitFresh
<1> QED
  BY <1>1, HInvariant, PTL DEF WaitStopTruthful

(* Every step of clients and threads is a step of the contract, or none.   *)
LEMMA ContractStep == HInv /\ HInv' /\ [HNext]_hvars => [C!Next]_(C!vars)
<1> SUFFICES ASSUME HInv, HInv', [HNext]_hvars PROVE C!Next \/ UNCHANGED C!vars
  BY DEF C!vars
<1> USE DEF HInv, VMInv, TypeOK, HandleDiscipline, CallPoints, LiveIsHandle, RunningFlag,
        StartBitFresh, OrderPoints, DtorInv, HandleInv, InStop, InMutex, VPoints, Live,
        Counted, Ending, Phase, Destroyed, Configuring, Executing, C!vars
<1>1. ASSUME NEW c \in Clients, StartRefused(c), UNCHANGED seen PROVE
   UNCHANGED C!vars
  BY <1>1, VMAssumption DEF StartRefused, seen, shared, Return, MayLock,
     MayCall
<1>2. ASSUME NEW c \in Clients, HStartArm(c) PROVE UNCHANGED C!vars
  BY <1>2, VMAssumption DEF StartArm, HStartArm, seen, CGoto, MayLock, MayCall
<1>3. ASSUME NEW c \in Clients, NEW t \in VMThreads, HStartSpawn(c, t) PROVE
   C!Start
  BY <1>3, VMAssumption DEF StartSpawn, HStartSpawn, CGoto, VGoto, C!Start
<1>4. ASSUME NEW c \in Clients, StartThrow(c), UNCHANGED seen PROVE UNCHANGED
   C!vars
  BY <1>4, VMAssumption DEF StartThrow, seen, CGoto, Return
<1>5. ASSUME NEW c \in Clients, StartFinish(c), UNCHANGED seen PROVE UNCHANGED
   C!vars
  BY <1>5, VMAssumption DEF StartFinish, seen, CGoto, Return
<1>6. ASSUME NEW c \in Clients, StopRefused(c), UNCHANGED seen PROVE UNCHANGED
   C!vars
  BY <1>6, VMAssumption DEF StopRefused, seen, shared, Return, MayLock,
     MayCall
<1>7. ASSUME NEW c \in Clients, HStopRequest(c) PROVE C!RequestStop
  BY <1>7, VMAssumption DEF StopRequest, HStopRequest, seen, CGoto, MayLock,
     MayCall, C!RequestStop
<1>8. ASSUME NEW c \in Clients, StopDrained(c), UNCHANGED seen PROVE UNCHANGED
   C!vars
  BY <1>8, VMAssumption DEF StopDrained, seen, CGoto, shared
<1>9. ASSUME NEW c \in Clients, StopFinish(c), UNCHANGED seen PROVE C!Stop
  BY <1>9, VMAssumption DEF StopFinish, seen, CGoto, Return, C!Stop
<1>10. ASSUME NEW c \in Clients, ConfigRefused(c), UNCHANGED seen PROVE
   UNCHANGED C!vars
  BY <1>10, VMAssumption DEF ConfigRefused, seen, shared, Return, MayLock,
     MayCall
<1>11. ASSUME NEW c \in Clients, ConfigBegin(c), UNCHANGED seen PROVE
   C!BeginConfig
  BY <1>11, VMAssumption DEF ConfigBegin, seen, CGoto, MayLock, MayCall,
     C!BeginConfig
<1>12. ASSUME NEW c \in Clients, ConfigEnd(c), UNCHANGED seen PROVE
   C!EndConfig
  BY <1>12, VMAssumption DEF ConfigEnd, seen, CGoto, Return, C!EndConfig
<1>13. ASSUME NEW c \in Clients, NEW w \in ClientWaits, WaitCall(c, w),
   UNCHANGED seen PROVE UNCHANGED C!vars
  BY <1>13, VMAssumption DEF WaitCall, seen, CGoto, shared, MayCall
<1>14. ASSUME NEW c \in Clients, HWaitTake(c) PROVE UNCHANGED C!vars
  BY <1>14, VMAssumption DEF WaitTake, HWaitTake, WaitReturn, CGoto, Return,
     shared, Consume
<1>15. ASSUME NEW c \in Clients, WaitTimeout(c), UNCHANGED seen PROVE
   UNCHANGED C!vars
  BY <1>15, VMAssumption DEF WaitTimeout, seen, WaitReturn, CGoto, Return,
     shared
<1>16. ASSUME NEW c \in Clients, seenStop, DestroyStopped(c), UNCHANGED seen PROVE
   UNCHANGED C!vars
  BY <1>16, VMAssumption DEF DestroyStopped, seen, CGoto, Return, shared,
     MayDestroy
<1>17. ASSUME NEW c \in Clients, seenStop, DestroyStarted(c), UNCHANGED seen PROVE
   C!RequestStop
  BY <1>17, VMAssumption DEF DestroyStarted, seen, CGoto, MayDestroy,
     C!RequestStop
<1>18. ASSUME NEW c \in Clients, DestroyFree(c), UNCHANGED seen PROVE
   C!Destroy
  BY <1>18, VMAssumption DEF DestroyFree, seen, CGoto, shared, C!Destroy
<1>19. ASSUME NEW t \in VMThreads, VMBoot(t), UNCHANGED seen PROVE UNCHANGED
   C!vars
  BY <1>19, VMAssumption DEF VMBoot, seen, VGoto
<1>20. ASSUME NEW t \in VMThreads, VMAnnounce(t), UNCHANGED seen PROVE
   UNCHANGED C!vars
  BY <1>20, VMAssumption DEF VMAnnounce, seen, VGoto, Raise, shared
<1>21. ASSUME NEW t \in VMThreads, VMCheck(t), UNCHANGED seen PROVE C!Heed \/
   C!BeginInstruction
  BY <1>21, VMAssumption DEF VMCheck, seen, VGoto, shared, C!Heed,
     C!BeginInstruction
<1>22. ASSUME NEW t \in VMThreads, VMFetch(t), UNCHANGED seen PROVE C!Fault \/
   UNCHANGED C!vars
  BY <1>22, VMAssumption DEF VMFetch, seen, VGoto, shared, C!Fault
<1>23. ASSUME NEW t \in VMThreads, VMExec(t), UNCHANGED seen PROVE C!Fault \/
   C!EndInstruction
  BY <1>23, VMAssumption DEF VMExec, seen, VGoto, shared, C!Fault,
     C!EndInstruction
<1>24. ASSUME NEW t \in VMThreads, VMLeave(t), UNCHANGED seen PROVE UNCHANGED
   C!vars
  BY <1>24, VMAssumption DEF VMLeave, seen, VGoto
<1>25. ASSUME NEW t \in VMThreads, VMBye(t), UNCHANGED seen PROVE UNCHANGED
   C!vars
  BY <1>25, VMAssumption DEF VMBye, seen, VGoto, Raise, shared
<1>26. CASE UNCHANGED hvars
  BY <1>26 DEF hvars, vars, shared
<1> QED
  BY <1>1, <1>2, <1>3, <1>4, <1>5, <1>6, <1>7, <1>8, <1>9, <1>10, <1>11,
     <1>12, <1>13, <1>14, <1>15, <1>16, <1>17, <1>18, <1>19, <1>20, <1>21,
     <1>22, <1>23, <1>24, <1>25, <1>26 DEF HNext, HClient, HThread,
     HOtherClient, HDestroy, VMStep, C!Next

(* Clients that keep the order see the abstract machine.                   *)
THEOREM Contract == HSpec => ImplementsContract
<1>1. HInit => C!Init
  BY DEF HInit, Init, C!Init, Phase, Destroyed, Configuring, Executing
<1>2. HInv /\ HInv' /\ [HNext]_hvars => [C!Next]_(C!vars)
  BY ContractStep
<1> QED
  BY <1>1, <1>2, HInvariant, PTL DEF HSpec, ImplementsContract, C!Spec
=============================================================================
