---------------------------- MODULE VMContract ----------------------------
(***************************************************************************)
(* What class rv32 promises a well-behaved client: one virtual machine     *)
(* that is stopped, running or halted; it executes one instruction at a    *)
(* time, only while it runs; nothing is configured unless it is stopped;   *)
(* after a request to stop it begins no further instruction; and once it   *)
(* is destroyed nothing happens any more.  There are no threads, locks,    *)
(* flags or event bits here: RV32Handshake has them, and implements this.  *)
(***************************************************************************)

VARIABLES phase,        \* "stopped", "running", "halted" or "destroyed"
          busy,         \* an instruction is being fetched or executed
          stopping,     \* a stop has been requested
          configuring   \* a configuration call is in progress

vars == <<phase, busy, stopping, configuring>>

Init ==
  /\ phase = "stopped"
  /\ busy = FALSE
  /\ stopping = FALSE
  /\ configuring = FALSE

Start ==
  /\ phase = "stopped" /\ ~configuring
  /\ phase' = "running"
  /\ UNCHANGED <<busy, stopping, configuring>>

BeginInstruction ==
  /\ phase = "running" /\ ~busy /\ ~stopping
  /\ busy' = TRUE
  /\ UNCHANGED <<phase, stopping, configuring>>

EndInstruction ==
  /\ phase = "running" /\ busy
  /\ busy' = FALSE
  /\ UNCHANGED <<phase, stopping, configuring>>

(* The instruction cannot be fetched or executed: the machine halts. *)
Fault ==
  /\ phase = "running" /\ busy
  /\ phase' = "halted"
  /\ busy' = FALSE
  /\ UNCHANGED <<stopping, configuring>>

RequestStop ==
  /\ phase \in {"running", "halted"} /\ ~stopping
  /\ stopping' = TRUE
  /\ UNCHANGED <<phase, busy, configuring>>

(* A running machine heeds the request between two instructions. *)
Heed ==
  /\ phase = "running" /\ ~busy /\ stopping
  /\ phase' = "halted"
  /\ UNCHANGED <<busy, stopping, configuring>>

(* The stop completes: only now can the machine be configured or started.  *)
Stop ==
  /\ phase = "halted" /\ stopping
  /\ phase' = "stopped"
  /\ stopping' = FALSE
  /\ UNCHANGED <<busy, configuring>>

BeginConfig ==
  /\ phase = "stopped" /\ ~configuring
  /\ configuring' = TRUE
  /\ UNCHANGED <<phase, busy, stopping>>

EndConfig ==
  /\ configuring
  /\ configuring' = FALSE
  /\ UNCHANGED <<phase, busy, stopping>>

Destroy ==
  /\ phase = "stopped" /\ ~configuring
  /\ phase' = "destroyed"
  /\ UNCHANGED <<busy, stopping, configuring>>

Next ==
  \/ Start \/ BeginInstruction \/ EndInstruction \/ Fault
  \/ RequestStop \/ Heed \/ Stop
  \/ BeginConfig \/ EndConfig \/ Destroy

Spec == Init /\ [][Next]_vars
=============================================================================
