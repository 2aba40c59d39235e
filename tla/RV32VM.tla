------------------------------ MODULE RV32VM ------------------------------
(***************************************************************************)
(* The life cycle of class rv32 (include/ZoraGA/RV32.h, src/RV32.cc):      *)
(* client threads that call its methods, and the VM threads that start()   *)
(* spawns to execute run().  They share five words and the event object:   *)
(*                                                                         *)
(*   m_mutex               held by clients, never by a VM thread           *)
(*   m_started, m_thread   read and written under m_mutex only             *)
(*   m_running             written by VM threads, read by stop()           *)
(*   m_exit_req            written by clients, read by VM threads          *)
(*   m_event               START and STOP, used through RVEvent            *)
(*                                                                         *)
(* m_running and m_exit_req are plain bools shared without a lock.  The    *)
(* build is not optimised (set_optimize "none" in xmake.lua), so each      *)
(* access is one load or store of a byte: a step of its own here.          *)
(*                                                                         *)
(* start() detaches its thread, so the object never learns when run() has  *)
(* returned.  Which thread object is m_thread matters only for the proofs: *)
(* the code just tests it against nullptr (None).                          *)
(***************************************************************************)
EXTENDS EventFlags

CONSTANTS Clients,       \* threads that call the methods of one rv32 object
          VMThreads,     \* thread identities: at most this many starts
          SpawnMayFail,  \* whether the constructor of std::thread may throw
          None           \* nullptr, or no owner

ASSUME VMAssumption ==
  /\ None \notin Clients \cup VMThreads
  /\ SpawnMayFail \in BOOLEAN

VARIABLES m_mutex,     \* the client that holds rv32::m_mutex, or None
          m_started,
          m_thread,    \* the VM thread last started, or None (nullptr)
          m_running,
          m_exit_req,
          dtor,        \* the client that runs ~rv32, or None
          cpc,         \* control point of each client
          want,        \* the arguments of its m_event.wait, or None
          ret,         \* what its last call returned
          vpc          \* control point of each VM thread

vars == <<m_event, m_mutex, m_started, m_thread, m_running, m_exit_req,
          dtor, cpc, want, ret, vpc>>

shared == <<m_mutex, m_started, m_thread, m_running, m_exit_req>>

(* RV32_EVT_START and RV32_EVT_STOP *)
EventBits == {"START", "STOP"}

(* Mutant: the bit that was waited for is left set. *)
Bug_WaitFor(bit, timed) ==
  [mask |-> {bit}, allwait |-> FALSE, clear |-> FALSE, timed |-> timed]

(* The calls wait_for_start(toms) and wait_for_stop(toms): default out,    *)
(* allwait = false and clear = true.                                       *)
WaitFor(bit, timed) ==
  [mask |-> {bit}, allwait |-> FALSE, clear |-> TRUE, timed |-> timed]

ClientWaits == {WaitFor(bit, timed) : bit \in EventBits, timed \in BOOLEAN}

ASSUME WaitAssumption == None \notin ClientWaits

(* Where a client can be.  arm, spawned: in start(); drain, linger: in     *)
(* stop(); config: in add_inst, add_mem or a set_ method; wait: in         *)
(* m_event.wait; free: ~rv32 after its stop(); gone: ~rv32 has returned.   *)
InMutex == {"arm", "spawned", "drain", "linger", "config"}
CPoints == InMutex \cup {"idle", "wait", "free", "gone"}

(* Where a VM thread can be: the next thing run() does.                    *)
Counted == {"announce", "check", "fetch", "exec", "leave"}
Live    == Counted \cup {"boot"}
Ending  == {"bye", "dead"}
VPoints == Live \cup Ending \cup {"unborn"}

Init ==
  /\ m_event = {}
  /\ m_mutex = None
  /\ m_started = FALSE
  /\ m_thread = None
  /\ m_running = FALSE
  /\ m_exit_req = FALSE
  /\ dtor = None
  /\ cpc = [c \in Clients |-> "idle"]
  /\ want = [c \in Clients |-> None]
  /\ ret = [c \in Clients |-> FALSE]
  /\ vpc = [t \in VMThreads |-> "unborn"]

CGoto(c, from, to) == cpc[c] = from /\ cpc' = [cpc EXCEPT ![c] = to]
VGoto(t, from, to) == vpc[t] = from /\ vpc' = [vpc EXCEPT ![t] = to]
Return(c, v)       == ret' = [ret EXCEPT ![c] = v]

(* A client may call a method while the object exists and is not being     *)
(* destroyed; every method but the waits begins with a lock_guard.         *)
MayCall(c) == cpc[c] = "idle" /\ dtor = None
MayLock(c) == MayCall(c) /\ m_mutex = None
-----------------------------------------------------------------------------
(* start() *)

(* Mutant: m_exit_req is reset before the test for a second start. *)
Bug_StartRefused(c) ==
  /\ MayCall(c)
  /\ m_started \/ m_thread # None
  /\ m_exit_req' = FALSE
  /\ Return(c, FALSE)
  /\ UNCHANGED <<m_event, m_mutex, m_started, m_thread, m_running, dtor, cpc,
                 want, vpc>>

StartRefused(c) ==
  /\ MayLock(c)
  /\ m_started \/ m_thread # None
  /\ Return(c, FALSE)
  /\ UNCHANGED <<m_event, shared, dtor, cpc, want, vpc>>

(* m_exit_req = false.  No thread identity left: the bound of the model.   *)
StartArm(c) ==
  /\ MayLock(c)
  /\ ~m_started
  /\ m_thread = None
  /\ \E t \in VMThreads : vpc[t] = "unborn"
  /\ CGoto(c, "idle", "arm")
  /\ m_mutex' = c
  /\ m_exit_req' = FALSE
  /\ UNCHANGED <<m_event, m_started, m_thread, m_running, dtor, want, ret, vpc>>

(* m_thread = new std::thread(run) *)
StartSpawn(c, t) ==
  /\ CGoto(c, "arm", "spawned")
  /\ VGoto(t, "unborn", "boot")
  /\ m_thread' = t
  /\ UNCHANGED <<m_event, m_mutex, m_started, m_running, m_exit_req, dtor,
                 want, ret>>

(* std::thread throws: the lock_guard unlocks, m_exit_req stays false.     *)
StartThrow(c) ==
  /\ SpawnMayFail
  /\ CGoto(c, "arm", "idle")
  /\ m_mutex' = None
  /\ Return(c, FALSE)
  /\ UNCHANGED <<m_event, m_started, m_thread, m_running, m_exit_req, dtor,
                 want, vpc>>

(* detach(), m_started = true, unlock *)
StartFinish(c) ==
  /\ CGoto(c, "spawned", "idle")
  /\ m_started' = TRUE
  /\ m_mutex' = None
  /\ Return(c, TRUE)
  /\ UNCHANGED <<m_event, m_thread, m_running, m_exit_req, dtor, want, vpc>>
-----------------------------------------------------------------------------
(* stop(), called by a client or by ~rv32 *)

StopRefused(c) ==
  /\ MayLock(c)
  /\ ~m_started \/ m_thread = None
  /\ Return(c, FALSE)
  /\ UNCHANGED <<m_event, shared, dtor, cpc, want, vpc>>

(* m_exit_req = true; the lock is kept until stop() returns.               *)
StopRequest(c) ==
  /\ MayLock(c)
  /\ m_started
  /\ m_thread # None
  /\ CGoto(c, "idle", "drain")
  /\ m_mutex' = c
  /\ m_exit_req' = TRUE
  /\ UNCHANGED <<m_event, m_started, m_thread, m_running, dtor, want, ret, vpc>>

(* Mutant: stop() does not wait for m_running. *)
Bug_StopDrained(c) ==
  /\ CGoto(c, "drain", "linger")
  /\ UNCHANGED <<m_event, shared, dtor, want, ret, vpc>>

(* while(m_running) has seen false; then one sleep of a millisecond, which *)
(* orders nothing.                                                         *)
StopDrained(c) ==
  /\ CGoto(c, "drain", "linger")
  /\ ~m_running
  /\ UNCHANGED <<m_event, shared, dtor, want, ret, vpc>>

(* Mutant: m_started stays set. *)
Bug_StopFinish(c) ==
  /\ CGoto(c, "linger", IF dtor = c THEN "free" ELSE "idle")
  /\ m_thread' = None
  /\ m_mutex' = None
  /\ Return(c, TRUE)
  /\ UNCHANGED <<m_event, m_started, m_running, m_exit_req, dtor, want, vpc>>

(* delete m_thread; m_thread = nullptr; m_started = false; unlock          *)
StopFinish(c) ==
  /\ CGoto(c, "linger", IF dtor = c THEN "free" ELSE "idle")
  /\ m_thread' = None
  /\ m_started' = FALSE
  /\ m_mutex' = None
  /\ Return(c, TRUE)
  /\ UNCHANGED <<m_event, m_running, m_exit_req, dtor, want, vpc>>
-----------------------------------------------------------------------------
(* add_inst, add_mem, set_log, set_start_addr, set_compress: all five are  *)
(* refused once m_started, and change m_insts, m_mems, m_log, pc or        *)
(* m_comprs, which run() reads without a lock, under m_mutex.              *)

ConfigRefused(c) ==
  /\ MayLock(c)
  /\ m_started
  /\ Return(c, FALSE)
  /\ UNCHANGED <<m_event, shared, dtor, cpc, want, vpc>>

(* Mutant: a configuration call does not look at m_started. *)
Bug_ConfigBegin(c) ==
  /\ MayLock(c)
  /\ CGoto(c, "idle", "config")
  /\ m_mutex' = c
  /\ UNCHANGED <<m_event, m_started, m_thread, m_running, m_exit_req, dtor,
                 want, ret, vpc>>

ConfigBegin(c) ==
  /\ MayLock(c)
  /\ ~m_started
  /\ CGoto(c, "idle", "config")
  /\ m_mutex' = c
  /\ UNCHANGED <<m_event, m_started, m_thread, m_running, m_exit_req, dtor,
                 want, ret, vpc>>

(* The call may still be refused, by its own checks of its argument.       *)
ConfigEnd(c) ==
  /\ CGoto(c, "config", "idle")
  /\ m_mutex' = None
  /\ \E ok \in BOOLEAN : Return(c, ok)
  /\ UNCHANGED <<m_event, m_started, m_thread, m_running, m_exit_req, dtor,
                 want, vpc>>
-----------------------------------------------------------------------------
(* wait_for_start(toms), wait_for_stop(toms): m_event as EventGroup has it *)

WaitCall(c, w) ==
  /\ MayCall(c)
  /\ CGoto(c, "idle", "wait")
  /\ want' = [want EXCEPT ![c] = w]
  /\ UNCHANGED <<m_event, shared, dtor, ret, vpc>>

WaitReturn(c, v) ==
  /\ CGoto(c, "wait", "idle")
  /\ want' = [want EXCEPT ![c] = None]
  /\ Return(c, v)
  /\ UNCHANGED <<shared, dtor, vpc>>

WaitTake(c) ==
  /\ WaitReturn(c, TRUE)
  /\ Satisfied(want[c])
  /\ Consume(want[c])

WaitTimeout(c) ==
  /\ WaitReturn(c, FALSE)
  /\ want[c].timed
  /\ ~Satisfied(want[c])
  /\ UNCHANGED m_event
-----------------------------------------------------------------------------
(* ~rv32: stop(), then the registers and the members are released.  C++    *)
(* leaves it to the clients that no other call is in progress.             *)

MayDestroy(c) == dtor = None /\ \A d \in Clients : cpc[d] = "idle"

(* its stop() is refused ... *)
DestroyStopped(c) ==
  /\ MayDestroy(c)
  /\ ~m_started \/ m_thread = None
  /\ CGoto(c, "idle", "free")
  /\ dtor' = c
  /\ Return(c, FALSE)
  /\ UNCHANGED <<m_event, shared, want, vpc>>

(* ... or goes through drain and linger. *)
DestroyStarted(c) ==
  /\ MayDestroy(c)
  /\ m_started
  /\ m_thread # None
  /\ CGoto(c, "idle", "drain")
  /\ dtor' = c
  /\ m_mutex' = c
  /\ m_exit_req' = TRUE
  /\ UNCHANGED <<m_event, m_started, m_thread, m_running, want, ret, vpc>>

DestroyFree(c) ==
  /\ CGoto(c, "free", "gone")
  /\ UNCHANGED <<m_event, shared, dtor, want, ret, vpc>>
-----------------------------------------------------------------------------
(* run() *)

(* Mutant: m_running is not set. *)
Bug_VMBoot(t) ==
  /\ VGoto(t, "boot", "announce")
  /\ UNCHANGED <<m_event, shared, dtor, cpc, want, ret>>

VMBoot(t) ==
  /\ VGoto(t, "boot", "announce")
  /\ m_running' = TRUE
  /\ UNCHANGED <<m_event, m_mutex, m_started, m_thread, m_exit_req, dtor, cpc,
                 want, ret>>

(* Mutant: the start is not announced. *)
Bug_VMAnnounce(t) ==
  /\ VGoto(t, "announce", "check")
  /\ UNCHANGED <<m_event, shared, dtor, cpc, want, ret>>

VMAnnounce(t) ==
  /\ VGoto(t, "announce", "check")
  /\ Raise({"START"})
  /\ UNCHANGED <<shared, dtor, cpc, want, ret>>

(* Mutant: the loop does not look at m_exit_req. *)
Bug_VMCheck(t) ==
  /\ VGoto(t, "check", "fetch")
  /\ UNCHANGED <<m_event, shared, dtor, cpc, want, ret>>

(* if (m_exit_req) break *)
VMCheck(t) ==
  /\ VGoto(t, "check", IF m_exit_req THEN "leave" ELSE "fetch")
  /\ UNCHANGED <<m_event, shared, dtor, cpc, want, ret>>

(* inst_fetch fails, or fetches the all-zero instruction, or succeeds.     *)
VMFetch(t) ==
  /\ \E to \in {"exec", "leave"} : VGoto(t, "fetch", to)
  /\ UNCHANGED <<m_event, shared, dtor, cpc, want, ret>>

(* inst_exec fails, or succeeds and pc moves on.                           *)
VMExec(t) ==
  /\ \E to \in {"check", "leave"} : VGoto(t, "exec", to)
  /\ UNCHANGED <<m_event, shared, dtor, cpc, want, ret>>

(* Mutant: m_running stays set when the loop is left. *)
Bug_VMLeave(t) ==
  /\ VGoto(t, "leave", "bye")
  /\ UNCHANGED <<m_event, shared, dtor, cpc, want, ret>>

(* Mutant: STOP is set before m_running is cleared. *)
Bug_VMLeaveEarlyStop(t) ==
  /\ VGoto(t, "leave", "bye")
  /\ Raise({"STOP"})
  /\ m_running' = FALSE
  /\ UNCHANGED <<m_mutex, m_started, m_thread, m_exit_req, dtor, cpc, want, ret>>

VMLeave(t) ==
  /\ VGoto(t, "leave", "bye")
  /\ m_running' = FALSE
  /\ UNCHANGED <<m_event, m_mutex, m_started, m_thread, m_exit_req, dtor, cpc,
                 want, ret>>

VMBye(t) ==
  /\ VGoto(t, "bye", "dead")
  /\ Raise({"STOP"})
  /\ UNCHANGED <<shared, dtor, cpc, want, ret>>
-----------------------------------------------------------------------------
VMStep(t) ==
  \/ VMBoot(t) \/ VMAnnounce(t) \/ VMCheck(t) \/ VMFetch(t) \/ VMExec(t)
  \/ VMLeave(t) \/ VMBye(t)

(* The call a client has begun goes on. *)
ClientStep(c) ==
  \/ \E t \in VMThreads : StartSpawn(c, t)
  \/ StartThrow(c) \/ StartFinish(c)
  \/ StopDrained(c) \/ StopFinish(c)
  \/ ConfigEnd(c)
  \/ WaitTake(c) \/ WaitTimeout(c)
  \/ DestroyFree(c)

(* A client begins a call: nobody owes one. *)
ClientCall(c) ==
  \/ StartRefused(c) \/ StartArm(c)
  \/ StopRefused(c) \/ StopRequest(c)
  \/ ConfigRefused(c) \/ ConfigBegin(c)
  \/ \E w \in ClientWaits : WaitCall(c, w)
  \/ DestroyStopped(c) \/ DestroyStarted(c)

Next ==
  \/ \E c \in Clients : ClientCall(c) \/ ClientStep(c)
  \/ \E t \in VMThreads : VMStep(t)

Spec == Init /\ [][Next]_vars

(* Every thread that can move is run; nothing says the guest ever faults,  *)
(* and nothing says a client ever calls.                                   *)
Fairness ==
  /\ \A c \in Clients : WF_vars(ClientStep(c))
  /\ \A t \in VMThreads : WF_vars(VMStep(t))

FairSpec == Spec /\ Fairness
-----------------------------------------------------------------------------
(* The variables have the types the class gives them. *)
TypeOK ==
  /\ m_event \in SUBSET EventBits
  /\ m_mutex \in Clients \cup {None}
  /\ m_started \in BOOLEAN
  /\ m_thread \in VMThreads \cup {None}
  /\ m_running \in BOOLEAN
  /\ m_exit_req \in BOOLEAN
  /\ dtor \in Clients \cup {None}
  /\ cpc \in [Clients -> CPoints]
  /\ want \in [Clients -> ClientWaits \cup {None}]
  /\ ret \in [Clients -> BOOLEAN]
  /\ vpc \in [VMThreads -> VPoints]

Executing(t)  == vpc[t] \in {"fetch", "exec"}
InStop(c)     == cpc[c] \in {"drain", "linger"}
Configuring   == \E c \in Clients : cpc[c] = "config"
Destroyed     == \E c \in Clients : cpc[c] = "gone"

(* The clients that are inside start(), stop() or a configuration call are *)
(* exactly the holder of m_mutex, and for everybody else m_started and     *)
(* m_thread agree: a call never finds the object started without a thread  *)
(* to stop, or with a thread it does not know to be started.               *)
HandleDiscipline ==
  /\ \A c \in Clients : cpc[c] \in InMutex <=> m_mutex = c
  /\ (\A c \in Clients : cpc[c] # "spawned") => (m_started <=> m_thread # None)

(* m_running is never left over: while it is set some thread still has to  *)
(* clear it, so the loop of stop() cannot wait for a thread that is gone.  *)
RunningFlagOwned == m_running => \E t \in VMThreads : vpc[t] \in Counted

(* What each critical section finds and keeps: start() between its steps   *)
(* has no handle, then one it has not marked started; stop() keeps handle, *)
(* mark and exit request until it lets go of them together.                *)
CallPoints ==
  \A c \in Clients :
    /\ cpc[c] \in {"arm", "config"} => ~m_started /\ m_thread = None
    /\ cpc[c] = "arm" => ~m_exit_req
    /\ cpc[c] = "spawned" => ~m_started /\ m_thread # None
    /\ InStop(c) => m_started /\ m_thread # None /\ m_exit_req

(* The inductive invariant of the life cycle. *)
VMInv == TypeOK /\ HandleDiscipline /\ CallPoints /\ RunningFlagOwned

(* While a client is in stop() no VM thread begins another instruction,    *)
(* however many threads are left over from earlier starts.                 *)
NoNewInstructionInStop ==
  [][\A t \in VMThreads :
       vpc[t] = "check" /\ vpc'[t] = "fetch" => \A c \in Clients : ~InStop(c)]_vars

(* stop() returns: with it ~rv32 does, whatever the guest executes.        *)
StopReturns == \A c \in Clients : InStop(c) ~> ~InStop(c)

(* What stop() is documented to do (RV32.h:73, "Stop VM"): while no call   *)
(* holds the lock and the object has no thread, none executes the guest.   *)
StoppedIsQuiet ==
  m_mutex = None /\ m_thread = None => \A t \in VMThreads : ~Executing(t)

(* At most one VM thread executes on the registers of the object.          *)
SingleRunner ==
  \A t, u \in VMThreads : Executing(t) /\ Executing(u) => t = u

(* No configuration call changes m_insts, m_mems, m_regs, m_log or m_comprs*)
(* while a VM thread reads them: the calls are refused once started.       *)
ConfigFrozen == Configuring => \A t \in VMThreads : ~Executing(t)

(* No VM thread is left to touch an object that has been destroyed.        *)
NoUseAfterFree ==
  Destroyed => \A t \in VMThreads : vpc[t] \in {"unborn", "dead"}

(* wait_for_stop (RV32.h:90, "Wait for VM stop") returns true only when    *)
(* no VM thread is going to execute anything.                              *)
WaitStopTruthful ==
  [][\A c \in Clients :
       WaitTake(c) /\ want[c].mask = {"STOP"}
         => \A t \in VMThreads : vpc[t] \notin Live]_vars

(* A client that waits for the stop of a VM that has run and has stopped,  *)
(* and is not started again, gets its answer.                              *)
AwaitsStop(c) == cpc[c] = "wait" /\ want[c].mask = {"STOP"}
HasStopped ==
  /\ \E t \in VMThreads : vpc[t] = "dead"
  /\ \A t \in VMThreads : vpc[t] \in {"unborn", "dead"}
StopWaiterReturns ==
  \A c \in Clients : (AwaitsStop(c) /\ HasStopped) ~> ~(AwaitsStop(c) /\ HasStopped)
=============================================================================
