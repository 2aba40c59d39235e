---------------------------- MODULE EventGroup ----------------------------
(***************************************************************************)
(* What Event<ET> promises its callers: a set of flags with atomic         *)
(* operations.  set(mask) adds the mask at one instant between call and    *)
(* return.  wait(mask, ...) returns TRUE at an instant at which its        *)
(* condition holds, and clears its mask at that same instant; a timed wait *)
(* may instead return FALSE, but only while its condition does not hold.   *)
(* There is no mutex and no condition variable here: RVEvent has them, and *)
(* is shown to implement this module.                                      *)
(***************************************************************************)
EXTENDS EventFlags

CONSTANTS Threads,  \* threads that share the event object
          Flags     \* the event bits

VARIABLES status,   \* what each thread is doing with the object
          args,     \* arguments of its wait, or the mask of its set
          result    \* what its last wait returned, and its *out

vars == <<m_event, status, args, result>>

Status == {"idle", "waiting", "setting", "set"}
Result == [ok : BOOLEAN, out : SUBSET Flags]

Init ==
  /\ m_event = {}
  /\ status = [t \in Threads |-> "idle"]
  /\ args \in [Threads -> WaitArg(Flags)]
  /\ result = [t \in Threads |-> [ok |-> FALSE, out |-> {}]]

Move(t, from, to) ==
  /\ status[t] = from
  /\ status' = [status EXCEPT ![t] = to]

WaitCall(t) ==
  /\ Move(t, "idle", "waiting")
  /\ \E a \in WaitArg(Flags) : args' = [args EXCEPT ![t] = a]
  /\ UNCHANGED <<m_event, result>>

(* wait() returns TRUE: test and clear are one step. *)
WaitTrue(t) ==
  /\ Move(t, "waiting", "idle")
  /\ Satisfied(args[t])
  /\ Consume(args[t])
  /\ result' = [result EXCEPT ![t] = [ok |-> TRUE, out |-> Out(args[t])]]
  /\ UNCHANGED args

(* wait() returns FALSE: only with a timeout, and only when the condition  *)
(* does not hold at that instant.                                          *)
WaitFalse(t) ==
  /\ Move(t, "waiting", "idle")
  /\ args[t].timed
  /\ ~Satisfied(args[t])
  /\ result' = [result EXCEPT ![t] = [ok |-> FALSE, out |-> {}]]
  /\ UNCHANGED <<m_event, args>>

SetCall(t) ==
  /\ Move(t, "idle", "setting")
  /\ \E a \in WaitArg(Flags) : args' = [args EXCEPT ![t] = a]
  /\ UNCHANGED <<m_event, result>>

SetEffect(t) ==
  /\ Move(t, "setting", "set")
  /\ Raise(args[t].mask)
  /\ UNCHANGED <<args, result>>

SetReturn(t) ==
  /\ Move(t, "set", "idle")
  /\ UNCHANGED <<m_event, args, result>>

Next ==
  \E t \in Threads :
    \/ WaitCall(t) \/ WaitTrue(t) \/ WaitFalse(t)
    \/ SetCall(t) \/ SetEffect(t) \/ SetReturn(t)

Spec == Init /\ [][Next]_vars

=============================================================================
