------------------------------ MODULE RVEvent ------------------------------
(***************************************************************************)
(* Event<ET> of include/ZoraGA/RVEvent.h as it is written: a word of event *)
(* bits guarded by a std::mutex, with a std::condition_variable.  A thread *)
(* inside wait() or set() is at one of the control points below; between   *)
(* two of them other threads may run.                                      *)
(*                                                                         *)
(*   w_lock   constructing the unique_lock                                 *)
(*   w_check  holds the lock, evaluates cond_chk (first time or again)     *)
(*   w_sleep  in m_cond.wait / wait_for: lock released, in the wait set    *)
(*   w_wake   left the wait set (notified, spurious or timed out), has to  *)
(*            take the lock again                                          *)
(*   w_take   holds the lock, cond_chk was true: writes *out, clears       *)
(*   s_lock, s_set, s_notify   set(): takes the lock, |= mask, notify_all  *)
(*                                                                         *)
(* m_cond.wait(lck, pred) and wait_for(lck, d, pred) are the loops the     *)
(* standard prescribes: while (!pred()) wait; and a timed-out wait_for     *)
(* evaluates pred once more and returns its value.                         *)
(***************************************************************************)
EXTENDS EventFlags, Naturals

CONSTANTS Threads,   \* threads that share the object
          Flags,     \* the event bits
          Waits,     \* the argument records the callers of wait() use
          Masks,     \* the masks the callers of set() use
          MaxCalls,  \* bound on the number of calls in a behaviour
          None       \* no thread: the mutex is free

ASSUME EventAssumption ==
  /\ Waits \subseteq WaitArg(Flags)
  /\ Waits # {}
  /\ Masks \subseteq (SUBSET Flags) \ {{}}
  /\ MaxCalls \in Nat
  /\ None \notin Threads

VARIABLES m_mutex,   \* holder of Event::m_mutex, or None
          pc,        \* control point of each thread
          args,      \* arguments of its current call
          expired,   \* its wait_for has timed out
          result,    \* what its last wait() returned, and *out
          calls      \* calls made so far (bounds the model)

vars == <<m_event, m_mutex, pc, args, expired, result, calls>>

Result    == [ok : BOOLEAN, out : SUBSET Flags]
InWait    == {"w_lock", "w_check", "w_sleep", "w_wake", "w_take"}
InSet     == {"s_lock", "s_set", "s_notify"}
Critical  == {"w_check", "w_take", "s_set", "s_notify"}

Init ==
  /\ m_event = {}
  /\ m_mutex = None
  /\ pc = [t \in Threads |-> "idle"]
  /\ \E a \in Waits : args = [t \in Threads |-> a]
  /\ expired = [t \in Threads |-> FALSE]
  /\ result = [t \in Threads |-> [ok |-> FALSE, out |-> {}]]
  /\ calls = 0

Goto(t, from, to) ==
  /\ pc[t] = from
  /\ pc' = [pc EXCEPT ![t] = to]

Acquire(t) == m_mutex = None /\ m_mutex' = t
Release(t) == m_mutex = t /\ m_mutex' = None

(* wait(mask, toms, out, allwait, clear) is called. *)
WaitCall(t) ==
  /\ calls < MaxCalls
  /\ Goto(t, "idle", "w_lock")
  /\ \E a \in Waits : args' = [args EXCEPT ![t] = a]
  /\ expired' = [expired EXCEPT ![t] = FALSE]
  /\ calls' = calls + 1
  /\ UNCHANGED <<m_event, m_mutex, result>>

(* Mutant: an "if" instead of the loop, a woken thread does not check again. *)
Bug_WaitLock(t) ==
  /\ \/ Goto(t, "w_lock", "w_check")
     \/ Goto(t, "w_wake", "w_take")
  /\ Acquire(t)
  /\ UNCHANGED <<m_event, args, expired, result, calls>>

(* The unique_lock is constructed, or taken again after the sleep. *)
WaitLock(t) ==
  /\ \/ Goto(t, "w_lock", "w_check")
     \/ Goto(t, "w_wake", "w_check")
  /\ Acquire(t)
  /\ UNCHANGED <<m_event, args, expired, result, calls>>

(* cond_chk holds: leave the wait loop. *)
WaitPass(t) ==
  /\ Goto(t, "w_check", "w_take")
  /\ Satisfied(args[t])
  /\ UNCHANGED <<m_event, m_mutex, args, expired, result, calls>>

(* Mutant: the sleeping thread keeps the lock. *)
Bug_WaitSleep(t) ==
  /\ Goto(t, "w_check", "w_sleep")
  /\ ~Satisfied(args[t])
  /\ ~expired[t]
  /\ UNCHANGED <<m_event, m_mutex, args, expired, result, calls>>

(* cond_chk fails: release the lock and enter the wait set, atomically. *)
WaitSleep(t) ==
  /\ Goto(t, "w_check", "w_sleep")
  /\ ~Satisfied(args[t])
  /\ ~expired[t]
  /\ Release(t)
  /\ UNCHANGED <<m_event, args, expired, result, calls>>

(* wait_for has timed out and its last cond_chk fails: return false. *)
WaitFail(t) ==
  /\ Goto(t, "w_check", "idle")
  /\ ~Satisfied(args[t])
  /\ expired[t]
  /\ Release(t)
  /\ result' = [result EXCEPT ![t] = [ok |-> FALSE, out |-> {}]]
  /\ UNCHANGED <<m_event, args, expired, calls>>

(* A sleeping thread may leave the wait set unasked... *)
WaitSpurious(t) ==
  /\ Goto(t, "w_sleep", "w_wake")
  /\ UNCHANGED <<m_event, m_mutex, args, expired, result, calls>>

(* Mutant: the deadline starts anew with every sleep. *)
Bug_WaitTimeout(t) ==
  /\ Goto(t, "w_sleep", "w_wake")
  /\ args[t].timed
  /\ UNCHANGED <<m_event, m_mutex, args, expired, result, calls>>

(* ... or because toms milliseconds have passed. *)
WaitTimeout(t) ==
  /\ Goto(t, "w_sleep", "w_wake")
  /\ args[t].timed
  /\ expired' = [expired EXCEPT ![t] = TRUE]
  /\ UNCHANGED <<m_event, m_mutex, args, result, calls>>

(* Mutant: *out is written after the bits have been cleared. *)
Bug_WaitTake(t) ==
  /\ Goto(t, "w_take", "idle")
  /\ Consume(args[t])
  /\ result' = [result EXCEPT ![t] =
                  [ok |-> TRUE, out |-> m_event' \cap args[t].mask]]
  /\ Release(t)
  /\ UNCHANGED <<args, expired, calls>>

(* Write *out, clear the mask, release the lock, return true. *)
WaitTake(t) ==
  /\ Goto(t, "w_take", "idle")
  /\ Consume(args[t])
  /\ result' = [result EXCEPT ![t] = [ok |-> TRUE, out |-> Out(args[t])]]
  /\ Release(t)
  /\ UNCHANGED <<args, expired, calls>>

(* set(mask) is called. *)
SetCall(t) ==
  /\ calls < MaxCalls
  /\ Goto(t, "idle", "s_lock")
  /\ \E m \in Masks : args' = [args EXCEPT ![t].mask = m]
  /\ calls' = calls + 1
  /\ UNCHANGED <<m_event, m_mutex, expired, result>>

SetLock(t) ==
  /\ Goto(t, "s_lock", "s_set")
  /\ Acquire(t)
  /\ UNCHANGED <<m_event, args, expired, result, calls>>

(* m_event |= mask *)
SetBits(t) ==
  /\ Goto(t, "s_set", "s_notify")
  /\ Raise(args[t].mask)
  /\ UNCHANGED <<m_mutex, args, expired, result, calls>>

(* Mutant: notify_one() instead of notify_all(). *)
Bug_SetNotify(t) ==
  /\ pc[t] = "s_notify"
  /\ \/ \E u \in Threads :
          /\ pc[u] = "w_sleep"
          /\ pc' = [pc EXCEPT ![t] = "idle", ![u] = "w_wake"]
     \/ /\ \A u \in Threads : pc[u] # "w_sleep"
        /\ pc' = [pc EXCEPT ![t] = "idle"]
  /\ Release(t)
  /\ UNCHANGED <<m_event, args, expired, result, calls>>

(* m_cond.notify_all(), then the lock_guard goes out of scope. *)
SetNotify(t) ==
  /\ pc[t] = "s_notify"
  /\ pc' = [u \in Threads |-> IF u = t THEN "idle"
                              ELSE IF pc[u] = "w_sleep" THEN "w_wake"
                              ELSE pc[u]]
  /\ Release(t)
  /\ UNCHANGED <<m_event, args, expired, result, calls>>

(* The steps a thread takes by itself once its call has begun. *)
Progress(t) ==
  \/ WaitLock(t) \/ WaitPass(t) \/ WaitSleep(t) \/ WaitFail(t) \/ WaitTake(t)
  \/ SetLock(t) \/ SetBits(t) \/ SetNotify(t)

Next ==
  \E t \in Threads :
    \/ WaitCall(t) \/ WaitLock(t) \/ WaitPass(t) \/ WaitSleep(t) \/ WaitFail(t)
    \/ WaitSpurious(t) \/ WaitTimeout(t) \/ WaitTake(t)
    \/ SetCall(t) \/ SetLock(t) \/ SetBits(t) \/ SetNotify(t)

Spec == Init /\ [][Next]_vars

(* The scheduler runs every thread that can move; a thread that contends   *)
(* for the mutex again and again gets it at some time; and the deadline of *)
(* wait_for is absolute, so spurious wakeups cannot put it off for ever.   *)
(* Nobody owes a call, and nobody owes a spurious wakeup.                  *)
Fairness ==
  \A t \in Threads :
    /\ WF_vars(Progress(t))
    /\ SF_vars(WaitLock(t) \/ SetLock(t))
    /\ SF_vars(WaitTimeout(t))

FairSpec == Spec /\ Fairness
-----------------------------------------------------------------------------
(* The variables have the types the class gives them. *)
TypeOK ==
  /\ m_event \in SUBSET Flags
  /\ m_mutex \in Threads \cup {None}
  /\ pc \in [Threads -> {"idle"} \cup InWait \cup InSet]
  /\ args \in [Threads -> WaitArg(Flags)]
  /\ expired \in [Threads -> BOOLEAN]
  /\ result \in [Threads -> Result]
  /\ calls \in 0..MaxCalls

(* Exactly the holder of the mutex is inside a critical section of wait()  *)
(* or set(): the condition variable gives the lock up before it sleeps and *)
(* has it again before cond_chk is evaluated.                              *)
LockDiscipline ==
  \A t \in Threads : pc[t] \in Critical <=> m_mutex = t

(* A thread that wait() has committed to succeed finds its bits still      *)
(* there: nobody consumes them between cond_chk and the clearing.          *)
CheckedBitsStay ==
  \A t \in Threads : pc[t] = "w_take" => Satisfied(args[t])

(* No lost wakeup: a thread sleeps on a condition that holds only while    *)
(* the setter that made it true is still about to call notify_all.         *)
NoLostWakeup ==
  \A t \in Threads :
    pc[t] = "w_sleep" /\ Satisfied(args[t])
      => \E s \in Threads : pc[s] = "s_notify"

(* Only a wait_for gives up: an untimed wait never takes itself for one    *)
(* whose time is over, whatever call the thread made before.               *)
OnlyTimedExpire == \A t \in Threads : expired[t] => args[t].timed

(* The inductive invariant of the event object. *)
EventInv ==
  /\ TypeOK
  /\ LockDiscipline
  /\ CheckedBitsStay
  /\ NoLostWakeup
  /\ OnlyTimedExpire

(* No thread waits for ever on a condition that holds for ever. *)
SatisfiedWaitReturns ==
  \A t \in Threads : []<>~(pc[t] \in InWait /\ Satisfied(args[t]))

(* A wait with toms # 0 comes back, whatever the others do. *)
TimedWaitReturns ==
  \A t \in Threads :
    (pc[t] \in InWait /\ args[t].timed) ~> (pc[t] = "idle")
-----------------------------------------------------------------------------
(* The refinement mapping to EventGroup: a wait is one operation from call *)
(* to return, a set takes effect when the bits are written.                *)
StatusOf(p) ==
  IF p \in InWait THEN "waiting"
  ELSE IF p \in {"s_lock", "s_set"} THEN "setting"
  ELSE IF p = "s_notify" THEN "set"
  ELSE "idle"

EG == INSTANCE EventGroup
        WITH status <- [t \in Threads |-> StatusOf(pc[t])]

(* Event<ET> implements the atomic event group. *)
ImplementsEventGroup == EG!Spec

=============================================================================
