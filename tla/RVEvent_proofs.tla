--------------------------- MODULE RVEvent_proofs ---------------------------
(***************************************************************************)
(* Theorems about RVEvent for any set of threads, flags, argument records  *)
(* and masks, proved from EventAssumption: the mutex and the condition     *)
(* variable keep checked bits in place and lose no wakeup, and the object  *)
(* implements the atomic EventGroup.                                       *)
(***************************************************************************)
EXTENDS RVEvent, TLAPS

(* The initial states. *)
LEMMA EventInit == Init => EventInv
  BY EventAssumption DEF Init, EventInv, TypeOK, LockDiscipline, CheckedBitsStay,
     NoLostWakeup, OnlyTimedExpire, Result,
     Critical

(* Every step keeps the types. *)
LEMMA TypeStep == TypeOK /\ [Next]_vars => TypeOK'
<1> SUFFICES ASSUME TypeOK, [Next]_vars PROVE TypeOK'
  OBVIOUS
<1> USE EventAssumption DEF TypeOK, InWait, InSet, Result
<1>1. ASSUME NEW t \in Threads, WaitCall(t) PROVE TypeOK'
  BY <1>1 DEF WaitCall, Goto
<1>2. ASSUME NEW t \in Threads, WaitLock(t) PROVE TypeOK'
  BY <1>2 DEF WaitLock, Goto, Acquire
<1>3. ASSUME NEW t \in Threads, WaitPass(t) PROVE TypeOK'
  BY <1>3 DEF WaitPass, Goto
<1>4. ASSUME NEW t \in Threads, WaitSleep(t) PROVE TypeOK'
  BY <1>4 DEF WaitSleep, Goto, Release
<1>5. ASSUME NEW t \in Threads, WaitFail(t) PROVE TypeOK'
  BY <1>5 DEF WaitFail, Goto, Release
<1>6. ASSUME NEW t \in Threads, WaitSpurious(t) PROVE TypeOK'
  BY <1>6 DEF WaitSpurious, Goto
<1>7. ASSUME NEW t \in Threads, WaitTimeout(t) PROVE TypeOK'
  BY <1>7 DEF WaitTimeout, Goto
<1>8. ASSUME NEW t \in Threads, WaitTake(t) PROVE TypeOK'
  BY <1>8 DEF WaitTake, Goto, Release, Consume, Out
<1>9. ASSUME NEW t \in Threads, SetCall(t) PROVE TypeOK'
  BY <1>9 DEF SetCall, Goto, WaitArg
<1>10. ASSUME NEW t \in Threads, SetLock(t) PROVE TypeOK'
  BY <1>10 DEF SetLock, Goto, Acquire
<1>11. ASSUME NEW t \in Threads, SetBits(t) PROVE TypeOK'
  BY <1>11 DEF SetBits, Goto, Raise, WaitArg
<1>12. ASSUME NEW t \in Threads, SetNotify(t) PROVE TypeOK'
  BY <1>12 DEF SetNotify, Release
<1>13. CASE UNCHANGED vars
  BY <1>13 DEF vars
<1> QED
  BY <1>1, <1>2, <1>3, <1>4, <1>5, <1>6, <1>7, <1>8, <1>9, <1>10, <1>11,
     <1>12, <1>13 DEF Next

(* Every step keeps the critical sections under the lock: one thread at a  *)
(* time is inside, and the sleepers are outside.                           *)
LEMMA LockStep == TypeOK /\ LockDiscipline /\ [Next]_vars => LockDiscipline'
<1> SUFFICES ASSUME TypeOK, LockDiscipline, [Next]_vars PROVE LockDiscipline'
  OBVIOUS
<1> USE EventAssumption DEF TypeOK, LockDiscipline, Critical, InWait, InSet
<1>1. ASSUME NEW t \in Threads, WaitCall(t) PROVE LockDiscipline'
  BY <1>1 DEF WaitCall, Goto
<1>2. ASSUME NEW t \in Threads, WaitLock(t) PROVE LockDiscipline'
  BY <1>2 DEF WaitLock, Goto, Acquire
<1>3. ASSUME NEW t \in Threads, WaitPass(t) PROVE LockDiscipline'
  BY <1>3 DEF WaitPass, Goto
<1>4. ASSUME NEW t \in Threads, WaitSleep(t) PROVE LockDiscipline'
  BY <1>4 DEF WaitSleep, Goto, Release
<1>5. ASSUME NEW t \in Threads, WaitFail(t) PROVE LockDiscipline'
  BY <1>5 DEF WaitFail, Goto, Release
<1>6. ASSUME NEW t \in Threads, WaitSpurious(t) PROVE LockDiscipline'
  BY <1>6 DEF WaitSpurious, Goto
<1>7. ASSUME NEW t \in Threads, WaitTimeout(t) PROVE LockDiscipline'
  BY <1>7 DEF WaitTimeout, Goto
<1>8. ASSUME NEW t \in Threads, WaitTake(t) PROVE LockDiscipline'
  BY <1>8 DEF WaitTake, Goto, Release, Consume
<1>9. ASSUME NEW t \in Threads, SetCall(t) PROVE LockDiscipline'
  BY <1>9 DEF SetCall, Goto
<1>10. ASSUME NEW t \in Threads, SetLock(t) PROVE LockDiscipline'
  BY <1>10 DEF SetLock, Goto, Acquire
<1>11. ASSUME NEW t \in Threads, SetBits(t) PROVE LockDiscipline'
  BY <1>11 DEF SetBits, Goto, Raise
<1>12. ASSUME NEW t \in Threads, SetNotify(t) PROVE LockDiscipline'
  BY <1>12 DEF SetNotify, Release
<1>13. CASE UNCHANGED vars
  BY <1>13 DEF vars
<1> QED
  BY <1>1, <1>2, <1>3, <1>4, <1>5, <1>6, <1>7, <1>8, <1>9, <1>10, <1>11,
     <1>12, <1>13 DEF Next

(* Every step keeps checked bits in place: only the holder of the lock     *)
(* writes m_event, and a thread between cond_chk and its clearing holds it.*)
LEMMA CheckedStep ==
  TypeOK /\ LockDiscipline /\ CheckedBitsStay /\ [Next]_vars => CheckedBitsStay'
<1> SUFFICES ASSUME TypeOK, LockDiscipline, CheckedBitsStay, [Next]_vars
             PROVE CheckedBitsStay'
  OBVIOUS
<1> USE EventAssumption DEF TypeOK, LockDiscipline, CheckedBitsStay, Critical, Satisfied
<1>1. ASSUME NEW t \in Threads, WaitCall(t) PROVE CheckedBitsStay'
  BY <1>1 DEF WaitCall, Goto
<1>2. ASSUME NEW t \in Threads, WaitLock(t) PROVE CheckedBitsStay'
  BY <1>2 DEF WaitLock, Goto, Acquire
<1>3. ASSUME NEW t \in Threads, WaitPass(t) PROVE CheckedBitsStay'
  BY <1>3 DEF WaitPass, Goto
<1>4. ASSUME NEW t \in Threads, WaitSleep(t) PROVE CheckedBitsStay'
  BY <1>4 DEF WaitSleep, Goto, Release
<1>5. ASSUME NEW t \in Threads, WaitFail(t) PROVE CheckedBitsStay'
  BY <1>5 DEF WaitFail, Goto, Release
<1>6. ASSUME NEW t \in Threads, WaitSpurious(t) PROVE CheckedBitsStay'
  BY <1>6 DEF WaitSpurious, Goto
<1>7. ASSUME NEW t \in Threads, WaitTimeout(t) PROVE CheckedBitsStay'
  BY <1>7 DEF WaitTimeout, Goto
<1>8. ASSUME NEW t \in Threads, WaitTake(t) PROVE CheckedBitsStay'
  BY <1>8 DEF WaitTake, Goto, Release, Consume
<1>9. ASSUME NEW t \in Threads, SetCall(t) PROVE CheckedBitsStay'
  BY <1>9 DEF SetCall, Goto
<1>10. ASSUME NEW t \in Threads, SetLock(t) PROVE CheckedBitsStay'
  BY <1>10 DEF SetLock, Goto, Acquire
<1>11. ASSUME NEW t \in Threads, SetBits(t) PROVE CheckedBitsStay'
  BY <1>11 DEF SetBits, Goto, Raise
<1>12. ASSUME NEW t \in Threads, SetNotify(t) PROVE CheckedBitsStay'
  BY <1>12 DEF SetNotify, Release
<1>13. CASE UNCHANGED vars
  BY <1>13 DEF vars
<1> QED
  BY <1>1, <1>2, <1>3, <1>4, <1>5, <1>6, <1>7, <1>8, <1>9, <1>10, <1>11,
     <1>12, <1>13 DEF Next

(* Every step keeps the wakeups: the setter whose bits satisfy a sleeper   *)
(* holds the lock until it has notified, so no thread falls asleep between.*)
LEMMA WakeupStep ==
  TypeOK /\ LockDiscipline /\ NoLostWakeup /\ [Next]_vars => NoLostWakeup'
<1> SUFFICES ASSUME TypeOK, LockDiscipline, NoLostWakeup, [Next]_vars
             PROVE NoLostWakeup'
  OBVIOUS
<1> USE EventAssumption DEF TypeOK, LockDiscipline, NoLostWakeup, Critical, Satisfied
<1>1. ASSUME NEW t \in Threads, WaitCall(t) PROVE NoLostWakeup'
  BY <1>1 DEF WaitCall, Goto
<1>2. ASSUME NEW t \in Threads, WaitLock(t) PROVE NoLostWakeup'
  BY <1>2 DEF WaitLock, Goto, Acquire
<1>3. ASSUME NEW t \in Threads, WaitPass(t) PROVE NoLostWakeup'
  BY <1>3 DEF WaitPass, Goto
<1>4. ASSUME NEW t \in Threads, WaitSleep(t) PROVE NoLostWakeup'
  BY <1>4 DEF WaitSleep, Goto, Release
<1>5. ASSUME NEW t \in Threads, WaitFail(t) PROVE NoLostWakeup'
  BY <1>5 DEF WaitFail, Goto, Release
<1>6. ASSUME NEW t \in Threads, WaitSpurious(t) PROVE NoLostWakeup'
  BY <1>6 DEF WaitSpurious, Goto
<1>7. ASSUME NEW t \in Threads, WaitTimeout(t) PROVE NoLostWakeup'
  BY <1>7 DEF WaitTimeout, Goto
<1>8. ASSUME NEW t \in Threads, WaitTake(t) PROVE NoLostWakeup'
  BY <1>8 DEF WaitTake, Goto, Release, Consume
<1>9. ASSUME NEW t \in Threads, SetCall(t) PROVE NoLostWakeup'
  BY <1>9 DEF SetCall, Goto
<1>10. ASSUME NEW t \in Threads, SetLock(t) PROVE NoLostWakeup'
  BY <1>10 DEF SetLock, Goto, Acquire
<1>11. ASSUME NEW t \in Threads, SetBits(t) PROVE NoLostWakeup'
  BY <1>11 DEF SetBits, Goto, Raise
<1>12. ASSUME NEW t \in Threads, SetNotify(t) PROVE NoLostWakeup'
  BY <1>12 DEF SetNotify, Release
<1>13. CASE UNCHANGED vars
  BY <1>13 DEF vars
<1> QED
  BY <1>1, <1>2, <1>3, <1>4, <1>5, <1>6, <1>7, <1>8, <1>9, <1>10, <1>11,
     <1>12, <1>13 DEF Next

(* Every step keeps the timeouts with the waits that have one. *)
LEMMA ExpireStep ==
  TypeOK /\ OnlyTimedExpire /\ [Next]_vars => OnlyTimedExpire'
<1> SUFFICES ASSUME TypeOK, OnlyTimedExpire, [Next]_vars PROVE OnlyTimedExpire'
  OBVIOUS
<1> USE DEF TypeOK, OnlyTimedExpire
<1>1. ASSUME NEW t \in Threads, WaitCall(t) PROVE OnlyTimedExpire'
  BY <1>1 DEF WaitCall, Goto
<1>2. ASSUME NEW t \in Threads, WaitLock(t) PROVE OnlyTimedExpire'
  BY <1>2 DEF WaitLock, Goto, Acquire
<1>3. ASSUME NEW t \in Threads, WaitPass(t) PROVE OnlyTimedExpire'
  BY <1>3 DEF WaitPass, Goto
<1>4. ASSUME NEW t \in Threads, WaitSleep(t) PROVE OnlyTimedExpire'
  BY <1>4 DEF WaitSleep, Goto, Release
<1>5. ASSUME NEW t \in Threads, WaitFail(t) PROVE OnlyTimedExpire'
  BY <1>5 DEF WaitFail, Goto, Release
<1>6. ASSUME NEW t \in Threads, WaitSpurious(t) PROVE OnlyTimedExpire'
  BY <1>6 DEF WaitSpurious, Goto
<1>7. ASSUME NEW t \in Threads, WaitTimeout(t) PROVE OnlyTimedExpire'
  BY <1>7 DEF WaitTimeout, Goto
<1>8. ASSUME NEW t \in Threads, WaitTake(t) PROVE OnlyTimedExpire'
  BY <1>8 DEF WaitTake, Goto, Release, Consume
<1>9. ASSUME NEW t \in Threads, SetCall(t) PROVE OnlyTimedExpire'
  BY <1>9 DEF SetCall, Goto
<1>10. ASSUME NEW t \in Threads, SetLock(t) PROVE OnlyTimedExpire'
  BY <1>10 DEF SetLock, Goto, Acquire
<1>11. ASSUME NEW t \in Threads, SetBits(t) PROVE OnlyTimedExpire'
  BY <1>11 DEF SetBits, Goto, Raise
<1>12. ASSUME NEW t \in Threads, SetNotify(t) PROVE OnlyTimedExpire'
  BY <1>12 DEF SetNotify, Release
<1>13. CASE UNCHANGED vars
  BY <1>13 DEF vars
<1> QED
  BY <1>1, <1>2, <1>3, <1>4, <1>5, <1>6, <1>7, <1>8, <1>9, <1>10, <1>11,
     <1>12, <1>13 DEF Next

(* The inductive invariant of the event object. *)
THEOREM EventInvariant == Spec => []EventInv
<1>1. EventInv /\ [Next]_vars => EventInv'
  BY TypeStep, LockStep, CheckedStep, WakeupStep,
     ExpireStep DEF EventInv
<1> QED
  BY <1>1, EventInit, PTL DEF Spec

(* Mutual exclusion of the critical sections of wait() and set().          *)
THEOREM EventMutex == Spec => []LockDiscipline
  BY EventInvariant, PTL DEF EventInv

(* Nobody consumes the bits of a wait that is about to succeed.            *)
THEOREM CheckedBits == Spec => []CheckedBitsStay
  BY EventInvariant, PTL DEF EventInv

(* A sleeper whose condition holds is about to be notified.                *)
THEOREM Wakeup == Spec => []NoLostWakeup
  BY EventInvariant, PTL DEF EventInv

(* Every step is a step of the atomic event group, or none: a wait takes   *)
(* effect where it returns, a set where it writes the bits.                *)
LEMMA GroupStep == EventInv /\ EventInv' /\ [Next]_vars => [EG!Next]_(EG!vars)
<1> SUFFICES ASSUME EventInv, EventInv', [Next]_vars PROVE EG!Next \/ UNCHANGED EG!vars
  BY DEF EG!vars
<1> USE EventAssumption DEF EventInv, TypeOK, LockDiscipline, CheckedBitsStay,
        OnlyTimedExpire, Critical, InWait, InSet, StatusOf, EG!vars
<1>1. ASSUME NEW t \in Threads, WaitCall(t) PROVE EG!WaitCall(t)
  BY <1>1 DEF WaitCall, Goto, EG!WaitCall, EG!Move, EG!WaitArg, WaitArg
<1>2. ASSUME NEW t \in Threads, WaitLock(t) PROVE UNCHANGED EG!vars
  BY <1>2 DEF WaitLock, Goto, Acquire
<1>3. ASSUME NEW t \in Threads, WaitPass(t) PROVE UNCHANGED EG!vars
  BY <1>3 DEF WaitPass, Goto
<1>4. ASSUME NEW t \in Threads, WaitSleep(t) PROVE UNCHANGED EG!vars
  BY <1>4 DEF WaitSleep, Goto, Release
<1>5. ASSUME NEW t \in Threads, WaitFail(t) PROVE EG!WaitFalse(t)
  <2>1. EG!Move(t, "waiting", "idle")
    BY <1>5 DEF WaitFail, Goto, EG!Move
  <2>2. args[t].timed /\ ~EG!Satisfied(args[t])
    BY <1>5 DEF WaitFail, Satisfied, EG!Satisfied
  <2> QED
    BY <1>5, <2>1, <2>2 DEF WaitFail, EG!WaitFalse
<1>6. ASSUME NEW t \in Threads, WaitSpurious(t) PROVE UNCHANGED EG!vars
  BY <1>6 DEF WaitSpurious, Goto
<1>7. ASSUME NEW t \in Threads, WaitTimeout(t) PROVE UNCHANGED EG!vars
  BY <1>7 DEF WaitTimeout, Goto
<1>8. ASSUME NEW t \in Threads, WaitTake(t) PROVE EG!WaitTrue(t)
  BY <1>8 DEF WaitTake, Goto, Release, Consume, EG!WaitTrue, EG!Move,
     EG!Consume, EG!Satisfied, EG!Out, Satisfied, Out
<1>9. ASSUME NEW t \in Threads, SetCall(t) PROVE EG!SetCall(t)
  <2>1. PICK m \in Masks : args' = [args EXCEPT ![t].mask = m]
    BY <1>9 DEF SetCall
  <2> DEFINE a == [args[t] EXCEPT !.mask = m]
  <2>2. a \in EG!WaitArg(Flags)
    <3>1. args[t] \in WaitArg(Flags) /\ m \in (SUBSET Flags) \ {{}}
      OBVIOUS
    <3> QED
      BY <3>1 DEF WaitArg, EG!WaitArg
  <2>3. args' = [args EXCEPT ![t] = a]
    BY <2>1
  <2>4. EG!Move(t, "idle", "setting")
    BY <1>9 DEF SetCall, Goto, EG!Move
  <2> QED
    BY <2>2, <2>3, <2>4, <1>9 DEF SetCall, EG!SetCall
<1>10. ASSUME NEW t \in Threads, SetLock(t) PROVE UNCHANGED EG!vars
  BY <1>10 DEF SetLock, Goto, Acquire
<1>11. ASSUME NEW t \in Threads, SetBits(t) PROVE EG!SetEffect(t)
  BY <1>11 DEF SetBits, Goto, Raise, EG!SetEffect, EG!Move, EG!Raise
<1>12. ASSUME NEW t \in Threads, SetNotify(t) PROVE EG!SetReturn(t)
  BY <1>12 DEF SetNotify, Release, EG!SetReturn, EG!Move
<1>13. CASE UNCHANGED vars
  BY <1>13 DEF vars
<1> QED
  BY <1>1, <1>2, <1>3, <1>4, <1>5, <1>6, <1>7, <1>8, <1>9, <1>10, <1>11,
     <1>12, <1>13 DEF Next, EG!Next

(* Event<ET> implements the atomic event group.                            *)
THEOREM EventRefinement == Spec => ImplementsEventGroup
<1>1. Init => EG!Init
  BY EventAssumption DEF Init, EG!Init, StatusOf, InWait, EG!WaitArg, WaitArg
<1>2. EventInv /\ EventInv' /\ [Next]_vars => [EG!Next]_(EG!vars)
  BY GroupStep
<1> QED
  BY <1>1, <1>2, EventInvariant, PTL DEF Spec, ImplementsEventGroup, EG!Spec
=============================================================================
