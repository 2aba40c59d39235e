------------------------- MODULE RV32Loader_proofs -------------------------
(***************************************************************************)
(* The loader is a client that keeps the order of RV32Handshake, whatever  *)
(* its calls return: so every theorem of RV32Handshake_proofs holds for it.*)
(***************************************************************************)
EXTENDS RV32Loader, RV32Handshake_proofs

(* A step of main or of a VM thread is a step of the order ...             *)
LEMMA LoaderSteps == LInv /\ [LNext]_lvars => [HNext]_hvars
<1> SUFFICES ASSUME LInv, [LNext]_lvars PROVE HNext \/ UNCHANGED hvars
  OBVIOUS
<1> USE LoaderAssumption DEF LInv, LOrder
<1>1. ASSUME LPrepare \/ LReturn PROVE UNCHANGED hvars
  BY <1>1 DEF LPrepare, LReturn
<1>2. ASSUME LConfigBegin \/ LConfigEnd \/ LStartFinish \/ LStartThrow \/ LWaitTimeout
             \/ LDestroyStop \/ LDestroyFree
      PROVE HOtherClient(Main)
  BY <1>2 DEF LConfigBegin, LConfigEnd, LStartFinish, LStartThrow, LWaitTimeout,
     LDestroyStop, LDestroyFree, HOtherClient
<1>3. ASSUME LStartArm PROVE HStartArm(Main)
  BY <1>3 DEF LStartArm, HStartArm, StartArm, CGoto, At
<1>4. ASSUME LStartSpawn PROVE \E t \in VMThreads : HStartSpawn(Main, t)
  BY <1>4 DEF LStartSpawn, HStartSpawn
<1>5. ASSUME LWaitStart \/ LWaitStop PROVE HOtherClient(Main)
  <2>1. ASSUME NEW bit \in EventBits, NEW timed \in BOOLEAN
        PROVE  WaitFor(bit, timed) \in ClientWaits
    <3> DEFINE W == WaitFor(bit, timed)
    <3>1. \E b \in EventBits, d \in BOOLEAN : W = WaitFor(b, d)
      OBVIOUS
    <3> HIDE DEF W
    <3>2. W \in ClientWaits
      BY <3>1 DEF ClientWaits
    <3> QED
      BY <3>2 DEF W
  <2>2. WaitFor("START", TRUE) \in ClientWaits /\ WaitFor("STOP", FALSE) \in ClientWaits
    BY <2>1 DEF EventBits
  <2> QED
    BY <1>5, <2>2 DEF LWaitStart, LWaitStop, HOtherClient
<1>6. ASSUME LWaitTake PROVE HWaitTake(Main)
  BY <1>6 DEF LWaitTake
<1>7. ASSUME LDestroy PROVE HDestroy(Main)
  BY <1>7 DEF LDestroy, HDestroy, At, DestroyStopped, DestroyStarted, CGoto
<1>8. ASSUME NEW t \in VMThreads, LThread(t) PROVE HThread(t)
  BY <1>8 DEF LThread
<1>9. CASE UNCHANGED lvars
  BY <1>9 DEF lvars
<1> QED
  BY <1>1, <1>2, <1>3, <1>4, <1>5, <1>6, <1>7, <1>8, <1>9
     DEF LNext, LMain, HNext, HClient

(* ... and keeps main where its statement says it is.                      *)
LEMMA LoaderInvStep == LInv /\ HInv' /\ [LNext]_lvars => LInv'
<1> SUFFICES ASSUME LInv, HInv', [LNext]_lvars PROVE LTypeOK' /\ LOrder'
  BY DEF LInv
<1>0. Main \in Clients /\ cpc \in [Clients -> CPoints] /\ want \in [Clients -> ClientWaits \cup {None}]
  BY LoaderAssumption DEF LInv, HInv, VMInv, TypeOK
<1> USE <1>0 DEF LInv, LTypeOK, LOrder, ConfigCalls, After, At, Advance, Stay, CGoto
<1>1. ASSUME LPrepare PROVE LTypeOK' /\ LOrder'
  <2>1. lpc' \in {"size", "add_rom", "return"}
    BY <1>1 DEF LPrepare
  <2>2. UNCHANGED <<cpc, want, seenStop>>
    BY <1>1 DEF LPrepare, hvars, vars
  <2> QED
    BY <1>1, <2>1, <2>2 DEF LPrepare
<1>2. ASSUME LConfigBegin PROVE LTypeOK' /\ LOrder'
  BY <1>2 DEF LConfigBegin, ConfigBegin, seen
<1>3. ASSUME LConfigEnd PROVE LTypeOK' /\ LOrder'
  BY <1>3 DEF LConfigEnd, ConfigEnd, seen
<1>4. ASSUME LStartArm PROVE LTypeOK' /\ LOrder'
  BY <1>4 DEF LStartArm, StartArm, seen
<1>5. ASSUME LStartSpawn PROVE LTypeOK' /\ LOrder'
  BY <1>5 DEF LStartSpawn, StartSpawn
<1>6. ASSUME LStartFinish PROVE LTypeOK' /\ LOrder'
  BY <1>6 DEF LStartFinish, StartFinish, seen
<1>7. ASSUME LStartThrow PROVE LTypeOK' /\ LOrder'
  BY <1>7 DEF LStartThrow, StartThrow, seen
<1>8. ASSUME LWaitStart \/ LWaitStop PROVE LTypeOK' /\ LOrder'
  BY <1>8 DEF LWaitStart, LWaitStop, WaitCall, seen
<1>9. ASSUME LWaitTake PROVE LTypeOK' /\ LOrder'
  <2>1. cpc[Main] = "wait" /\ cpc'[Main] = "idle"
    BY <1>9 DEF LWaitTake, HWaitTake, WaitTake, WaitReturn
  <2>2. CASE lpc = "wait_start"
    <3>1. lpc' = "wait_stop"
      BY <1>9, <2>2 DEF LWaitTake
    <3> QED
      BY <2>1, <3>1
  <2>3. CASE lpc = "wait_stop"
    <3>1. lpc' = "return"
      BY <1>9, <2>3 DEF LWaitTake
    <3>2. want[Main].mask = {"STOP"}
      BY <2>1, <2>3 DEF WaitFor
    <3>3. seenStop'
      BY <1>9, <3>2 DEF LWaitTake, HWaitTake
    <3> QED
      BY <2>1, <3>1, <3>3
  <2> QED
    BY <2>1, <2>2, <2>3
<1>10. ASSUME LWaitTimeout PROVE LTypeOK' /\ LOrder'
  BY <1>10 DEF LWaitTimeout, WaitTimeout, WaitReturn, WaitFor, seen
<1>11. ASSUME LReturn PROVE LTypeOK' /\ LOrder'
  BY <1>11 DEF LReturn, hvars, vars, seen, shared
<1>12. ASSUME LDestroy PROVE LTypeOK' /\ LOrder'
  BY <1>12 DEF LDestroy, DestroyStopped, DestroyStarted, seen
<1>13. ASSUME LDestroyStop PROVE LTypeOK' /\ LOrder'
  BY <1>13 DEF LDestroyStop, StopDrained, StopFinish, seen
<1>14. ASSUME LDestroyFree PROVE LTypeOK' /\ LOrder'
  BY <1>14 DEF LDestroyFree, DestroyFree, seen
<1>15. ASSUME NEW t \in VMThreads, LThread(t) PROVE LTypeOK' /\ LOrder'
  BY <1>15 DEF LThread, HThread, seen, VMStep, VMBoot, VMAnnounce, VMCheck, VMFetch,
     VMExec, VMLeave, VMBye
<1>16. CASE UNCHANGED lvars
  BY <1>16 DEF lvars, hvars, vars, seen, shared
<1> QED
  BY <1>1, <1>2, <1>3, <1>4, <1>5, <1>6, <1>7, <1>8, <1>9, <1>10, <1>11, <1>12,
     <1>13, <1>14, <1>15, <1>16 DEF LNext, LMain

(* The invariant of the loader. *)
THEOREM LoaderInvariant == LSpec => []LInv
<1>1. LInit => LInv
  BY HInvInit, LoaderAssumption
     DEF LInit, LInv, LTypeOK, LOrder, After, HInit, Init
<1>2. LInv /\ [LNext]_lvars => LInv'
  <2>1. LInv /\ [HNext]_hvars => HInv'
    BY HandshakeSteps, TypeStep, HandleStep, RunningStep, OrderStep
       DEF LInv, HInv, VMInv, Order
  <2> QED
    BY <2>1, LoaderSteps, LoaderInvStep
<1> QED
  BY <1>1, <1>2, PTL DEF LSpec

(* The loader keeps the order. *)
THEOREM LoaderKeepsOrder == LSpec => KeepsOrder
<1>1. LInit => HInit
  BY DEF LInit
<1> QED
  BY <1>1, LoaderSteps, LoaderInvariant, PTL DEF LSpec, HSpec, KeepsOrder

(* The devices, the log and the instruction set, which main() destroys     *)
(* before the machine, are destroyed after the last access of run().       *)
THEOREM PartsOutlive == LSpec => []PartsOutliveRun
<1>1. LInv /\ SeenStopIsFinal => PartsOutliveRun
  BY DEF LInv, LOrder, PartsOutliveRun, SeenStopIsFinal
<1> QED
  BY <1>1, LoaderInvariant, LoaderKeepsOrder, FinalStop, PTL DEF KeepsOrder
=============================================================================
