--------------------------- MODULE RV32VM_proofs ---------------------------
(***************************************************************************)
(* Theorems about RV32VM for any set of clients, any number of starts and  *)
(* any order of calls, proved from VMAssumption alone.  Each step lemma    *)
(* has one step per action of Next.                                        *)
(***************************************************************************)
EXTENDS RV32VM, TLAPS

(* Init establishes every part of the invariant. *)
LEMMA VMInvInit == Init => VMInv
  BY VMAssumption DEF Init, VMInv, TypeOK, HandleDiscipline, CallPoints, RunningFlagOwned,
     CPoints, VPoints, InMutex, InStop

(* Every step keeps the types. *)
LEMMA TypeStep == TypeOK /\ [Next]_vars => TypeOK'
<1> SUFFICES ASSUME TypeOK, [Next]_vars PROVE TypeOK'
  OBVIOUS
<1> USE DEF TypeOK, EventBits, CPoints, VPoints, InMutex, Live, Counted, Ending
<1>1. ASSUME NEW c \in Clients, StartRefused(c) PROVE TypeOK'
  BY <1>1 DEF StartRefused, shared, Return
<1>2. ASSUME NEW c \in Clients, StartArm(c) PROVE TypeOK'
  BY <1>2 DEF StartArm, CGoto
<1>3. ASSUME NEW c \in Clients, NEW t \in VMThreads, StartSpawn(c, t) PROVE
   TypeOK'
  BY <1>3 DEF StartSpawn, CGoto, VGoto
<1>4. ASSUME NEW c \in Clients, StartThrow(c) PROVE TypeOK'
  BY <1>4 DEF StartThrow, CGoto, Return
<1>5. ASSUME NEW c \in Clients, StartFinish(c) PROVE TypeOK'
  BY <1>5 DEF StartFinish, CGoto, Return
<1>6. ASSUME NEW c \in Clients, StopRefused(c) PROVE TypeOK'
  BY <1>6 DEF StopRefused, shared, Return
<1>7. ASSUME NEW c \in Clients, StopRequest(c) PROVE TypeOK'
  BY <1>7 DEF StopRequest, CGoto
<1>8. ASSUME NEW c \in Clients, StopDrained(c) PROVE TypeOK'
  BY <1>8 DEF StopDrained, CGoto, shared
<1>9. ASSUME NEW c \in Clients, StopFinish(c) PROVE TypeOK'
  BY <1>9 DEF StopFinish, CGoto, Return
<1>10. ASSUME NEW c \in Clients, ConfigRefused(c) PROVE TypeOK'
  BY <1>10 DEF ConfigRefused, shared, Return
<1>11. ASSUME NEW c \in Clients, ConfigBegin(c) PROVE TypeOK'
  BY <1>11 DEF ConfigBegin, CGoto
<1>12. ASSUME NEW c \in Clients, ConfigEnd(c) PROVE TypeOK'
  BY <1>12 DEF ConfigEnd, CGoto, Return
<1>13. ASSUME NEW c \in Clients, NEW w \in ClientWaits, WaitCall(c, w) PROVE
   TypeOK'
  BY <1>13 DEF WaitCall, CGoto, shared
<1>14. ASSUME NEW c \in Clients, WaitTake(c) PROVE TypeOK'
  BY <1>14 DEF WaitTake, WaitReturn, CGoto, Return, shared, Consume
<1>15. ASSUME NEW c \in Clients, WaitTimeout(c) PROVE TypeOK'
  BY <1>15 DEF WaitTimeout, WaitReturn, CGoto, Return, shared
<1>16. ASSUME NEW c \in Clients, DestroyStopped(c) PROVE TypeOK'
  BY <1>16 DEF DestroyStopped, CGoto, Return, shared
<1>17. ASSUME NEW c \in Clients, DestroyStarted(c) PROVE TypeOK'
  BY <1>17 DEF DestroyStarted, CGoto
<1>18. ASSUME NEW c \in Clients, DestroyFree(c) PROVE TypeOK'
  BY <1>18 DEF DestroyFree, CGoto, shared
<1>19. ASSUME NEW t \in VMThreads, VMBoot(t) PROVE TypeOK'
  BY <1>19 DEF VMBoot, VGoto
<1>20. ASSUME NEW t \in VMThreads, VMAnnounce(t) PROVE TypeOK'
  BY <1>20 DEF VMAnnounce, VGoto, Raise, shared
<1>21. ASSUME NEW t \in VMThreads, VMCheck(t) PROVE TypeOK'
  BY <1>21 DEF VMCheck, VGoto, shared
<1>22. ASSUME NEW t \in VMThreads, VMFetch(t) PROVE TypeOK'
  BY <1>22 DEF VMFetch, VGoto, shared
<1>23. ASSUME NEW t \in VMThreads, VMExec(t) PROVE TypeOK'
  BY <1>23 DEF VMExec, VGoto, shared
<1>24. ASSUME NEW t \in VMThreads, VMLeave(t) PROVE TypeOK'
  BY <1>24 DEF VMLeave, VGoto
<1>25. ASSUME NEW t \in VMThreads, VMBye(t) PROVE TypeOK'
  BY <1>25 DEF VMBye, VGoto, Raise, shared
<1>26. CASE UNCHANGED vars
  BY <1>26 DEF vars, shared
<1> QED
  BY <1>1, <1>2, <1>3, <1>4, <1>5, <1>6, <1>7, <1>8, <1>9, <1>10, <1>11,
     <1>12, <1>13, <1>14, <1>15, <1>16, <1>17, <1>18, <1>19, <1>20, <1>21,
     <1>22, <1>23, <1>24, <1>25, <1>26 DEF Next, ClientCall, ClientStep,
     VMStep

(* Every step keeps m_mutex, m_started and m_thread in line: a call that   *)
(* changes them holds the lock, and lets go of it with them in agreement.  *)
LEMMA HandleStep ==
  TypeOK /\ HandleDiscipline /\ CallPoints /\ [Next]_vars
    => HandleDiscipline' /\ CallPoints'
<1> SUFFICES ASSUME TypeOK, HandleDiscipline, CallPoints, [Next]_vars PROVE HandleDiscipline' /\ CallPoints'
  OBVIOUS
<1> USE DEF TypeOK, HandleDiscipline, CallPoints, InMutex, InStop
<1>1. ASSUME NEW c \in Clients, StartRefused(c) PROVE HandleDiscipline' /\
   CallPoints'
  BY <1>1, VMAssumption DEF StartRefused, shared, Return, MayLock, MayCall
<1>2. ASSUME NEW c \in Clients, StartArm(c) PROVE HandleDiscipline' /\
   CallPoints'
  BY <1>2, VMAssumption DEF StartArm, CGoto, MayLock, MayCall
<1>3. ASSUME NEW c \in Clients, NEW t \in VMThreads, StartSpawn(c, t) PROVE
   HandleDiscipline' /\ CallPoints'
  BY <1>3, VMAssumption DEF StartSpawn, CGoto, VGoto
<1>4. ASSUME NEW c \in Clients, StartThrow(c) PROVE HandleDiscipline' /\
   CallPoints'
  BY <1>4, VMAssumption DEF StartThrow, CGoto, Return
<1>5. ASSUME NEW c \in Clients, StartFinish(c) PROVE HandleDiscipline' /\
   CallPoints'
  BY <1>5, VMAssumption DEF StartFinish, CGoto, Return
<1>6. ASSUME NEW c \in Clients, StopRefused(c) PROVE HandleDiscipline' /\
   CallPoints'
  BY <1>6, VMAssumption DEF StopRefused, shared, Return, MayLock, MayCall
<1>7. ASSUME NEW c \in Clients, StopRequest(c) PROVE HandleDiscipline' /\
   CallPoints'
  BY <1>7, VMAssumption DEF StopRequest, CGoto, MayLock, MayCall
<1>8. ASSUME NEW c \in Clients, StopDrained(c) PROVE HandleDiscipline' /\
   CallPoints'
  BY <1>8, VMAssumption DEF StopDrained, CGoto, shared
<1>9. ASSUME NEW c \in Clients, StopFinish(c) PROVE HandleDiscipline' /\
   CallPoints'
  BY <1>9, VMAssumption DEF StopFinish, CGoto, Return
<1>10. ASSUME NEW c \in Clients, ConfigRefused(c) PROVE HandleDiscipline' /\
   CallPoints'
  BY <1>10, VMAssumption DEF ConfigRefused, shared, Return, MayLock, MayCall
<1>11. ASSUME NEW c \in Clients, ConfigBegin(c) PROVE HandleDiscipline' /\
   CallPoints'
  BY <1>11, VMAssumption DEF ConfigBegin, CGoto, MayLock, MayCall
<1>12. ASSUME NEW c \in Clients, ConfigEnd(c) PROVE HandleDiscipline' /\
   CallPoints'
  BY <1>12, VMAssumption DEF ConfigEnd, CGoto, Return
<1>13. ASSUME NEW c \in Clients, NEW w \in ClientWaits, WaitCall(c, w) PROVE
   HandleDiscipline' /\ CallPoints'
  BY <1>13, VMAssumption DEF WaitCall, CGoto, shared, MayCall
<1>14. ASSUME NEW c \in Clients, WaitTake(c) PROVE HandleDiscipline' /\
   CallPoints'
  BY <1>14, VMAssumption DEF WaitTake, WaitReturn, CGoto, Return, shared,
     Consume
<1>15. ASSUME NEW c \in Clients, WaitTimeout(c) PROVE HandleDiscipline' /\
   CallPoints'
  BY <1>15, VMAssumption DEF WaitTimeout, WaitReturn, CGoto, Return, shared
<1>16. ASSUME NEW c \in Clients, DestroyStopped(c) PROVE HandleDiscipline' /\
   CallPoints'
  BY <1>16, VMAssumption DEF DestroyStopped, CGoto, Return, shared, MayDestroy
<1>17. ASSUME NEW c \in Clients, DestroyStarted(c) PROVE HandleDiscipline' /\
   CallPoints'
  BY <1>17, VMAssumption DEF DestroyStarted, CGoto, MayDestroy
<1>18. ASSUME NEW c \in Clients, DestroyFree(c) PROVE HandleDiscipline' /\
   CallPoints'
  BY <1>18, VMAssumption DEF DestroyFree, CGoto, shared
<1>19. ASSUME NEW t \in VMThreads, VMBoot(t) PROVE HandleDiscipline' /\
   CallPoints'
  BY <1>19, VMAssumption DEF VMBoot, VGoto
<1>20. ASSUME NEW t \in VMThreads, VMAnnounce(t) PROVE HandleDiscipline' /\
   CallPoints'
  BY <1>20, VMAssumption DEF VMAnnounce, VGoto, Raise, shared
<1>21. ASSUME NEW t \in VMThreads, VMCheck(t) PROVE HandleDiscipline' /\
   CallPoints'
  BY <1>21, VMAssumption DEF VMCheck, VGoto, shared
<1>22. ASSUME NEW t \in VMThreads, VMFetch(t) PROVE HandleDiscipline' /\
   CallPoints'
  BY <1>22, VMAssumption DEF VMFetch, VGoto, shared
<1>23. ASSUME NEW t \in VMThreads, VMExec(t) PROVE HandleDiscipline' /\
   CallPoints'
  BY <1>23, VMAssumption DEF VMExec, VGoto, shared
<1>24. ASSUME NEW t \in VMThreads, VMLeave(t) PROVE HandleDiscipline' /\
   CallPoints'
  BY <1>24, VMAssumption DEF VMLeave, VGoto
<1>25. ASSUME NEW t \in VMThreads, VMBye(t) PROVE HandleDiscipline' /\
   CallPoints'
  BY <1>25, VMAssumption DEF VMBye, VGoto, Raise, shared
<1>26. CASE UNCHANGED vars
  BY <1>26 DEF vars, shared
<1> QED
  BY <1>1, <1>2, <1>3, <1>4, <1>5, <1>6, <1>7, <1>8, <1>9, <1>10, <1>11,
     <1>12, <1>13, <1>14, <1>15, <1>16, <1>17, <1>18, <1>19, <1>20, <1>21,
     <1>22, <1>23, <1>24, <1>25, <1>26 DEF Next, ClientCall, ClientStep,
     VMStep

(* Every step keeps m_running owned: run() sets it when it enters the      *)
(* counted part and clears it when it leaves.                              *)
LEMMA RunningStep ==
  TypeOK /\ RunningFlagOwned /\ [Next]_vars => RunningFlagOwned'
<1> SUFFICES ASSUME TypeOK, RunningFlagOwned, [Next]_vars PROVE RunningFlagOwned'
  OBVIOUS
<1> USE DEF TypeOK, RunningFlagOwned, Counted
<1>1. ASSUME NEW c \in Clients, StartRefused(c) PROVE RunningFlagOwned'
  BY <1>1 DEF StartRefused, shared, Return
<1>2. ASSUME NEW c \in Clients, StartArm(c) PROVE RunningFlagOwned'
  BY <1>2 DEF StartArm, CGoto
<1>3. ASSUME NEW c \in Clients, NEW t \in VMThreads, StartSpawn(c, t) PROVE
   RunningFlagOwned'
  BY <1>3 DEF StartSpawn, CGoto, VGoto
<1>4. ASSUME NEW c \in Clients, StartThrow(c) PROVE RunningFlagOwned'
  BY <1>4 DEF StartThrow, CGoto, Return
<1>5. ASSUME NEW c \in Clients, StartFinish(c) PROVE RunningFlagOwned'
  BY <1>5 DEF StartFinish, CGoto, Return
<1>6. ASSUME NEW c \in Clients, StopRefused(c) PROVE RunningFlagOwned'
  BY <1>6 DEF StopRefused, shared, Return
<1>7. ASSUME NEW c \in Clients, StopRequest(c) PROVE RunningFlagOwned'
  BY <1>7 DEF StopRequest, CGoto
<1>8. ASSUME NEW c \in Clients, StopDrained(c) PROVE RunningFlagOwned'
  BY <1>8 DEF StopDrained, CGoto, shared
<1>9. ASSUME NEW c \in Clients, StopFinish(c) PROVE RunningFlagOwned'
  BY <1>9 DEF StopFinish, CGoto, Return
<1>10. ASSUME NEW c \in Clients, ConfigRefused(c) PROVE RunningFlagOwned'
  BY <1>10 DEF ConfigRefused, shared, Return
<1>11. ASSUME NEW c \in Clients, ConfigBegin(c) PROVE RunningFlagOwned'
  BY <1>11 DEF ConfigBegin, CGoto
<1>12. ASSUME NEW c \in Clients, ConfigEnd(c) PROVE RunningFlagOwned'
  BY <1>12 DEF ConfigEnd, CGoto, Return
<1>13. ASSUME NEW c \in Clients, NEW w \in ClientWaits, WaitCall(c, w) PROVE
   RunningFlagOwned'
  BY <1>13 DEF WaitCall, CGoto, shared
<1>14. ASSUME NEW c \in Clients, WaitTake(c) PROVE RunningFlagOwned'
  BY <1>14 DEF WaitTake, WaitReturn, CGoto, Return, shared, Consume
<1>15. ASSUME NEW c \in Clients, WaitTimeout(c) PROVE RunningFlagOwned'
  BY <1>15 DEF WaitTimeout, WaitReturn, CGoto, Return, shared
<1>16. ASSUME NEW c \in Clients, DestroyStopped(c) PROVE RunningFlagOwned'
  BY <1>16 DEF DestroyStopped, CGoto, Return, shared
<1>17. ASSUME NEW c \in Clients, DestroyStarted(c) PROVE RunningFlagOwned'
  BY <1>17 DEF DestroyStarted, CGoto
<1>18. ASSUME NEW c \in Clients, DestroyFree(c) PROVE RunningFlagOwned'
  BY <1>18 DEF DestroyFree, CGoto, shared
<1>19. ASSUME NEW t \in VMThreads, VMBoot(t) PROVE RunningFlagOwned'
  BY <1>19 DEF VMBoot, VGoto
<1>20. ASSUME NEW t \in VMThreads, VMAnnounce(t) PROVE RunningFlagOwned'
  BY <1>20 DEF VMAnnounce, VGoto, Raise, shared
<1>21. ASSUME NEW t \in VMThreads, VMCheck(t) PROVE RunningFlagOwned'
  BY <1>21 DEF VMCheck, VGoto, shared
<1>22. ASSUME NEW t \in VMThreads, VMFetch(t) PROVE RunningFlagOwned'
  BY <1>22 DEF VMFetch, VGoto, shared
<1>23. ASSUME NEW t \in VMThreads, VMExec(t) PROVE RunningFlagOwned'
  BY <1>23 DEF VMExec, VGoto, shared
<1>24. ASSUME NEW t \in VMThreads, VMLeave(t) PROVE RunningFlagOwned'
  BY <1>24 DEF VMLeave, VGoto
<1>25. ASSUME NEW t \in VMThreads, VMBye(t) PROVE RunningFlagOwned'
  BY <1>25 DEF VMBye, VGoto, Raise, shared
<1>26. CASE UNCHANGED vars
  BY <1>26 DEF vars, shared
<1> QED
  BY <1>1, <1>2, <1>3, <1>4, <1>5, <1>6, <1>7, <1>8, <1>9, <1>10, <1>11,
     <1>12, <1>13, <1>14, <1>15, <1>16, <1>17, <1>18, <1>19, <1>20, <1>21,
     <1>22, <1>23, <1>24, <1>25, <1>26 DEF Next, ClientCall, ClientStep,
     VMStep

(* The inductive invariant of the life cycle holds of every behaviour.     *)
THEOREM VMInvariant == Spec => []VMInv
<1>1. VMInv /\ [Next]_vars => VMInv'
  BY TypeStep, HandleStep, RunningStep DEF VMInv
<1> QED
  BY <1>1, VMInvInit, PTL DEF Spec

(* Type correctness. *)
THEOREM TypeCorrect == Spec => []TypeOK
  BY VMInvariant, PTL DEF VMInv

(* The lock and the handle: outside the critical sections of start() and   *)
(* stop() the object is started exactly if it has a thread.                *)
THEOREM Handle == Spec => []HandleDiscipline
  BY VMInvariant, PTL DEF VMInv

(* The loop of stop() never waits for a thread that is gone.               *)
THEOREM RunningOwned == Spec => []RunningFlagOwned
  BY VMInvariant, PTL DEF VMInv

(* From the exit request until stop() returns no VM thread, of this start  *)
(* or of an earlier one, begins an instruction: only start() withdraws the *)
(* request, and it needs the lock that stop() holds.                       *)
THEOREM StopBars == Spec => NoNewInstructionInStop
<1> DEFINE Bar == \A t \in VMThreads :
      vpc[t] = "check" /\ vpc'[t] = "fetch" => \A c \in Clients : ~InStop(c)
<1>1. ASSUME VMInv, [Next]_vars PROVE [Bar]_vars
  <2> SUFFICES ASSUME [Next]_vars, NEW t \in VMThreads, NEW c \in Clients,
                      vpc[t] = "check", vpc'[t] = "fetch", InStop(c)
               PROVE FALSE
    BY <1>1 DEF vars
  <2>1. m_exit_req
    BY <1>1 DEF VMInv, CallPoints
  <2>2. ASSUME NEW d \in Clients, ClientCall(d) PROVE FALSE
    BY <2>2 DEF ClientCall, StartRefused, StartArm, StopRefused, StopRequest,
       ConfigRefused, ConfigBegin, WaitCall, DestroyStopped, DestroyStarted
  <2>3. ASSUME NEW d \in Clients, ClientStep(d) PROVE FALSE
    <3>1. CASE \E u \in VMThreads : StartSpawn(d, u)
      BY <1>1, <3>1 DEF StartSpawn, VGoto, VMInv, TypeOK
    <3> QED
      BY <2>3, <3>1 DEF ClientStep, StartThrow, StartFinish, StopDrained,
         StopFinish, ConfigEnd, WaitTake, WaitTimeout, WaitReturn, DestroyFree
  <2>4. ASSUME NEW u \in VMThreads, VMStep(u) PROVE FALSE
    BY <1>1, <2>1, <2>4 DEF VMStep, VMBoot, VMAnnounce, VMCheck, VMFetch,
       VMExec, VMLeave, VMBye, VGoto, VMInv, TypeOK
  <2>5. CASE UNCHANGED vars
    BY <2>5 DEF vars
  <2> QED
    BY <2>2, <2>3, <2>4, <2>5 DEF Next
<1> QED
  BY <1>1, VMInvariant, PTL DEF Spec, NoNewInstructionInStop
=============================================================================
