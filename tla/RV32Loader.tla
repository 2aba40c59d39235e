---------------------------- MODULE RV32Loader ----------------------------
(***************************************************************************)
(* main() of rv32_loader/src/loader.cc as the one client of an rv32: it    *)
(* loads the ROM and sizes the RAM, configures the machine, starts it,     *)
(* waits at most a second for the start, waits without limit for the stop, *)
(* and returns.  Its locals are destroyed in reverse order of declaration: *)
(* log, RAM, ROM and instruction set first, and the rv32 that run() uses   *)
(* them through last.                                                      *)
(*                                                                         *)
(* main() looks at no return value but that of load() and set_size(), so   *)
(* a step of main is a call whatever the call before it returned.          *)
(* seenStart and seenStop only record here: nothing is guarded by them,    *)
(* and that main keeps the order of RV32Handshake is a property.           *)
(***************************************************************************)
EXTENDS RV32Handshake

CONSTANT Main

ASSUME LoaderAssumption == Clients = {Main}

VARIABLE lpc  \* the next statement of main()

lvars == <<hvars, lpc>>

(* The calls vm.add_mem (twice), add_inst, set_log and set_start_addr.     *)
ConfigCalls == {"add_rom", "add_ram", "add_inst", "set_log", "set_start_addr"}

After ==
  [load |-> "size", size |-> "add_rom", add_rom |-> "add_ram",
   add_ram |-> "add_inst", add_inst |-> "set_log", set_log |-> "set_start_addr",
   set_start_addr |-> "start", start |-> "wait_start", wait_start |-> "wait_stop",
   wait_stop |-> "return", return |-> "destroy", destroy |-> "done"]

LInit == HInit /\ lpc = "load"

At(p)    == lpc = p
Advance  == lpc' = After[lpc]
Stay     == UNCHANGED lpc

(* rom.load(file) and ram.set_size(n): a failure returns from main at once. *)
LPrepare ==
  /\ lpc \in {"load", "size"}
  /\ lpc' \in {After[lpc], "return"}
  /\ UNCHANGED hvars

LConfigBegin == lpc \in ConfigCalls /\ ConfigBegin(Main) /\ Stay /\ UNCHANGED seen
LConfigEnd   == ConfigEnd(Main) /\ Advance /\ UNCHANGED seen

LStartArm == At("start") /\ StartArm(Main) /\ Stay /\ UNCHANGED seen

LStartSpawn ==
  /\ \E t \in VMThreads : StartSpawn(Main, t)
  /\ seenStart' = FALSE /\ seenStop' = FALSE
  /\ Stay

LStartFinish == StartFinish(Main) /\ Advance /\ UNCHANGED seen

(* Mutant: the exception is swallowed and main goes on to wait. *)
Bug_LStartThrow == StartThrow(Main) /\ Advance /\ UNCHANGED seen

(* The exception of std::thread is not caught: the process terminates      *)
(* without destroying anything.                                            *)
LStartThrow == StartThrow(Main) /\ lpc' = "terminated" /\ UNCHANGED seen

(* vm.wait_for_start(1000), vm.wait_for_stop(0) *)
LWaitStart == At("wait_start") /\ WaitCall(Main, WaitFor("START", TRUE)) /\ Stay /\ UNCHANGED seen
(* Mutant: the wait for the stop has a limit, too. *)
Bug_LWaitStop ==
  At("wait_stop") /\ WaitCall(Main, WaitFor("STOP", TRUE)) /\ Stay /\ UNCHANGED seen

LWaitStop  == At("wait_stop") /\ WaitCall(Main, WaitFor("STOP", FALSE)) /\ Stay /\ UNCHANGED seen

LWaitTake    == HWaitTake(Main) /\ Advance
LWaitTimeout == WaitTimeout(Main) /\ Advance /\ UNCHANGED seen

(* return: rvlog, ram, rom and rv32i are destroyed ... *)
LReturn == At("return") /\ Advance /\ UNCHANGED hvars

(* ... and then vm *)
LDestroy ==
  /\ At("destroy")
  /\ DestroyStopped(Main) \/ DestroyStarted(Main)
  /\ Stay /\ UNCHANGED seen

LDestroyStop == (StopDrained(Main) \/ StopFinish(Main)) /\ Stay /\ UNCHANGED seen
LDestroyFree == DestroyFree(Main) /\ Advance /\ UNCHANGED seen

LMain ==
  \/ LPrepare \/ LConfigBegin \/ LConfigEnd
  \/ LStartArm \/ LStartSpawn \/ LStartFinish \/ LStartThrow
  \/ LWaitStart \/ LWaitStop \/ LWaitTake \/ LWaitTimeout
  \/ LReturn \/ LDestroy \/ LDestroyStop \/ LDestroyFree

LThread(t) == HThread(t) /\ Stay

LNext == LMain \/ \E t \in VMThreads : LThread(t)

LSpec == LInit /\ [][LNext]_lvars

(* main goes on by itself, and so does every VM thread. *)
LFairSpec ==
  LSpec /\ WF_lvars(LMain) /\ \A t \in VMThreads : WF_lvars(LThread(t))
-----------------------------------------------------------------------------
(* lpc names a statement of main(), or how main() ended.                   *)
LTypeOK == lpc \in DOMAIN After \cup {"done", "terminated"}

(* Where main is in rv32 agrees with the statement it executes; the stop of*)
(* the last run has been seen before start() and from the return on.       *)
LOrder ==
  /\ cpc[Main] \in {"arm", "spawned"} => lpc = "start"
  /\ cpc[Main] = "config" => lpc \in ConfigCalls
  /\ cpc[Main] = "wait" =>
       \/ lpc = "wait_start" /\ want[Main] = WaitFor("START", TRUE)
       \/ lpc = "wait_stop" /\ want[Main] = WaitFor("STOP", FALSE)
  /\ cpc[Main] \in {"drain", "linger", "free"} => lpc = "destroy"
  /\ cpc[Main] = "gone" => lpc = "done"
  /\ lpc \notin {"wait_start", "wait_stop", "terminated"} /\ cpc[Main] # "spawned"
       => seenStop

(* The inductive invariant of the loader. *)
LInv == HInv /\ LTypeOK /\ LOrder

(* main keeps the order that RV32Handshake asks of its clients, although   *)
(* it ignores whether wait_for_start succeeded: what Handshake proves of   *)
(* rv32 holds for the loader.                                              *)
KeepsOrder == HSpec

(* When the devices, the log and the instruction set are destroyed no VM   *)
(* thread is left to read or to write them.                                *)
PartsOutliveRun ==
  lpc \in {"destroy", "done"} => \A t \in VMThreads : vpc[t] \in {"unborn", "dead"}

(* The loader ends, unless the guest executes for ever or the process was  *)
(* terminated: no call of main hangs on a machine that has halted.         *)
LoaderEnds ==
  \/ <>(lpc \in {"done", "terminated"})
  \/ []<>(\E t \in VMThreads : Executing(t))
=============================================================================
