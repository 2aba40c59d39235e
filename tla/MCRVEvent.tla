----------------------------- MODULE MCRVEvent -----------------------------
(***************************************************************************)
(* Instances of RVEvent for TLC: two flags (START and STOP of RV32.cc) and *)
(* the kinds of wait the interface offers.                                 *)
(***************************************************************************)
EXTENDS RVEvent

MCFlags == {"START", "STOP"}

(* wait(START, toms), wait(START|STOP, allwait) and a wait for any of both *)
(* that leaves the bits set, as every caller may ask.                      *)
MCWaits ==
  { [mask |-> {"START"}, allwait |-> FALSE, clear |-> TRUE, timed |-> TRUE],
    [mask |-> MCFlags, allwait |-> TRUE, clear |-> TRUE, timed |-> FALSE],
    [mask |-> MCFlags, allwait |-> FALSE, clear |-> FALSE, timed |-> FALSE] }

MCMasks == {{"START"}, {"STOP"}}
=============================================================================
