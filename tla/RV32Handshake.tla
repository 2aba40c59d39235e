--------------------------- MODULE RV32Handshake ---------------------------
(***************************************************************************)
(* RV32VM used by clients that keep the order the interface is made for,   *)
(* the one of rv32_loader/src/loader.cc taken to a life of several runs:   *)
(* every start() is followed by a wait_for_start() that returns true       *)
(* before stop() is called, and by a wait_for_stop() that returns true     *)
(* before the next start() or the destructor.  RV32Loader shows that main  *)
(* of the loader is such a client.  seenStart and seenStop record what the *)
(* clients have seen of the last run; they restrict the calls the clients  *)
(* make, and nothing the object does.                                      *)
(*                                                                         *)
(* Without this order rv32 does not keep the properties below: the runs    *)
(* StopThenStart and StaleStopBit of RV32VM show how.                      *)
(***************************************************************************)
EXTENDS RV32VM

VARIABLES seenStart,  \* a wait_for_start for the last run returned true
          seenStop    \* a wait_for_stop for the last run returned true

hvars == <<vars, seenStart, seenStop>>
seen  == <<seenStart, seenStop>>

HInit == Init /\ seenStart = TRUE /\ seenStop = TRUE

HStartArm(c) == seenStop /\ StartArm(c) /\ UNCHANGED seen

HStartSpawn(c, t) ==
  StartSpawn(c, t) /\ seenStart' = FALSE /\ seenStop' = FALSE

HStopRequest(c) == seenStart /\ StopRequest(c) /\ UNCHANGED seen

HWaitTake(c) ==
  /\ WaitTake(c)
  /\ seenStart' = (seenStart \/ want[c].mask = {"START"})
  /\ seenStop' = (seenStop \/ want[c].mask = {"STOP"})

(* ~rv32 calls stop() itself; after the STOP of the last run it does not   *)
(* matter whether the START was seen.                                      *)
HDestroy(c) ==
  /\ seenStop
  /\ DestroyStopped(c) \/ DestroyStarted(c)
  /\ UNCHANGED seen

(* The steps the order says nothing about. *)
HOtherClient(c) ==
  /\ \/ StartRefused(c) \/ StartThrow(c) \/ StartFinish(c)
     \/ StopRefused(c) \/ StopDrained(c) \/ StopFinish(c)
     \/ ConfigRefused(c) \/ ConfigBegin(c) \/ ConfigEnd(c)
     \/ \E w \in ClientWaits : WaitCall(c, w)
     \/ WaitTimeout(c)
     \/ DestroyFree(c)
  /\ UNCHANGED seen

HClient(c) ==
  \/ HStartArm(c) \/ \E t \in VMThreads : HStartSpawn(c, t)
  \/ HStopRequest(c) \/ HWaitTake(c) \/ HDestroy(c) \/ HOtherClient(c)

HThread(t) == VMStep(t) /\ UNCHANGED seen

HNext ==
  \/ \E c \in Clients : HClient(c)
  \/ \E t \in VMThreads : HThread(t)

HSpec == HInit /\ [][HNext]_hvars

HFairness ==
  /\ \A c \in Clients : WF_hvars(ClientStep(c) /\ HClient(c))
  /\ \A t \in VMThreads : WF_hvars(HThread(t))

HFairSpec == HSpec /\ HFairness
-----------------------------------------------------------------------------
(* The thread that run() is at work in, if any, is the one stop() is for. *)
LiveIsHandle ==
  \A t \in VMThreads : vpc[t] \in Live => m_thread = t

(* m_running tells exactly whether a thread is between its two writes.     *)
RunningFlag ==
  m_running <=> \E t \in VMThreads : vpc[t] \in Counted

(* The START bit, and what was seen of it, belong to the last run: a run   *)
(* whose thread has not announced itself has no START bit and is not seen; *)
(* and a run is given up only after it was seen.                           *)
StartBitFresh ==
  /\ m_thread = None => seenStart \/ dtor # None
  /\ "START" \in m_event => ~seenStart
  /\ \A t \in VMThreads :
       vpc[t] \in {"boot", "announce"} => ~seenStart /\ "START" \notin m_event

(* The STOP bit is there only between the end of a run and the wait that   *)
(* takes it; until a run has ended no STOP is there and none was seen.     *)
StopBitFresh ==
  /\ "STOP" \in m_event => ~seenStop
  /\ \A t \in VMThreads :
       vpc[t] \in Live \cup {"bye"} => ~seenStop /\ "STOP" \notin m_event

(* What the order adds to the critical sections: start() begins when the   *)
(* last stop was seen, stop() when the start was; stop() leaves its loop   *)
(* with the run over; and a client waits with arguments, or does not wait. *)
OrderPoints ==
  \A c \in Clients :
    /\ cpc[c] = "arm" => seenStop
    /\ InStop(c) => seenStart \/ dtor = c
    /\ cpc[c] = "linger" => ~m_running
    /\ cpc[c] = "wait" <=> want[c] # None

(* ~rv32 runs only when the STOP of the last run has been seen; it is in   *)
(* its stop() or past it, and no other call is in progress.                *)
DtorInv ==
  /\ \A c \in Clients : cpc[c] \in {"free", "gone"} => dtor = c
  /\ \A c \in Clients : cpc[c] \in {"free", "gone"} => m_thread = None
  /\ dtor # None =>
       /\ seenStop
       /\ cpc[dtor] \in {"drain", "linger", "free", "gone"}
       /\ \A c \in Clients : c # dtor => cpc[c] = "idle"

(* The thread handle is that of a thread that has been born, no thread is  *)
(* ending while another one runs or ends, and a request to stop belongs to *)
(* a call of stop() in progress.                                           *)
HandleInv ==
  /\ \A t \in VMThreads : m_thread = t => vpc[t] # "unborn"
  /\ \A t, u \in VMThreads : vpc[t] = "bye" /\ vpc[u] \in Live \cup {"bye"} => t = u
  /\ m_thread # None /\ m_exit_req => \E c \in Clients : InStop(c)

(* The strengthening that every step of the order preserves.               *)
HInv ==
  /\ VMInv
  /\ seenStart \in BOOLEAN /\ seenStop \in BOOLEAN
  /\ LiveIsHandle
  /\ RunningFlag
  /\ StartBitFresh
  /\ StopBitFresh
  /\ OrderPoints
  /\ DtorInv
  /\ HandleInv

(* stop() and wait_for_stop() between them wait for everything: when a     *)
(* client has seen the stop, the thread is gone for good.                  *)
SeenStopIsFinal ==
  seenStop => \A t \in VMThreads : vpc[t] \in {"unborn", "dead"}

(* A start is answered: a wait_for_start called for a run that nobody has  *)
(* seen yet comes back, unless another client takes the answer.            *)
AwaitsStart(c) == cpc[c] = "wait" /\ want[c].mask = {"START"}
StartIsAnswered ==
  \A c \in Clients : (AwaitsStart(c) /\ ~seenStart) ~> (seenStart \/ ~AwaitsStart(c))
-----------------------------------------------------------------------------
(* The contract's view of the object. *)
Phase ==
  IF Destroyed THEN "destroyed"
  ELSE IF m_thread = None THEN "stopped"
  ELSE IF \E t \in VMThreads : vpc[t] \in Live \ {"leave"} THEN "running"
  ELSE "halted"

C == INSTANCE VMContract
       WITH phase <- Phase,
            busy <- \E t \in VMThreads : Executing(t),
            stopping <- m_thread # None /\ m_exit_req,
            configuring <- Configuring

(* Clients that keep the order see the abstract machine. *)
ImplementsContract == C!Spec
=============================================================================
