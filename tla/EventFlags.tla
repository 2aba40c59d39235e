---------------------------- MODULE EventFlags ----------------------------
(***************************************************************************)
(* The bit set m_event of Event<ET> (include/ZoraGA/RVEvent.h) and the     *)
(* three things the class does to it under its lock: test it against a     *)
(* mask, clear the bits a wait has consumed, and set bits.  A bit mask is  *)
(* the set of its flags.  EventGroup, RVEvent and RV32VM all use this      *)
(* module, so "what a wait consumes" is written down once.                 *)
(***************************************************************************)

VARIABLE m_event

(* The argument record of wait(): mask, allwait and clear as in the code;  *)
(* timed stands for toms # 0.                                              *)
WaitArg(flags) == [mask : (SUBSET flags) \ {{}}, allwait : BOOLEAN,
                   clear : BOOLEAN, timed : BOOLEAN]

(* cond_chk: every bit of the mask, or any bit of it. *)
Satisfied(a) ==
  IF a.allwait THEN a.mask \subseteq m_event ELSE a.mask \cap m_event # {}

(* if(out) *out = m_event & mask *)
Out(a) == m_event \cap a.mask

(* if(clear) m_event &= ~mask *)
Consume(a) == m_event' = IF a.clear THEN m_event \ a.mask ELSE m_event

(* m_event |= mask *)
Raise(mask) == m_event' = m_event \cup mask

=============================================================================
