--------------------------- MODULE RV32Privileged ---------------------------
(***************************************************************************)
(* The privileged instructions (src/RV32Privileged.cc): the words that     *)
(* isValid accepts and the CSRs that regist creates.  exec has an empty    *)
(* body: no word has a handler here.  Addresses of CSRs are those of       *)
(* defs/RVCSRAddr.h; a CSR is the set of the bits that are set in it.      *)
(***************************************************************************)
EXTENDS RV32Zicsr

(* Mutant: the case of sret and wfi does not go on into that of mret. *)
Bug_PrivIsValid(i, m_smode) ==
  /\ System(i) /\ i.funct3 = 0
  /\ \/ i.funct7 = 24
     \/ m_smode /\ i.funct7 \in {17, 49, 19, 51}

(* isValid: mret; sret and wfi, of which the machine without S-mode takes  *)
(* only the words with rs2 = 5; the fences of S-mode.                      *)
PrivIsValid(i, m_smode) ==
  /\ System(i) /\ i.funct3 = 0
  /\ \/ i.funct7 = 24
     \/ i.funct7 = 8 /\ (m_smode \/ i.rs2 = 5)
     \/ m_smode /\ i.funct7 \in {17, 49, 19, 51}
-----------------------------------------------------------------------------
CSR_misa == \h301

UnprivilegedCsrs == (\hC00..\hC1F) \cup (\hC80..\hC9F)

(* mvendorid to mconfigptr, mstatus to mcounteren, mscratch to mip, and    *)
(* those that stand alone.                                                 *)
MachineCsrs ==
  (\hF11..\hF15) \cup (\h300..\h306) \cup (\h340..\h344)
    \cup {\h310, \h34A, \h34B, \h30A, \h31A, \h747, \h757}

PmpCsrs     == \h3A0..\h3EF
CounterCsrs == {\hB00, \hB80, \h320} \cup (\hB02..\hB1F) \cup (\hB82..\hB9F)
                 \cup (\h323..\h33F)
DebugCsrs   == (\h7A0..\h7A3) \cup {\h7A8} \cup (\h7B0..\h7B3)

PrivCsrs ==
  UnprivilegedCsrs \cup MachineCsrs \cup PmpCsrs \cup CounterCsrs \cup DebugCsrs

(* misa says 32 bits (0x40000000) and no extension. *)
PrivReset == [c \in PrivCsrs |-> IF c = CSR_misa THEN {30} ELSE {}]

(* regist: every CSR of the list is created or reset, others stay.         *)
PrivRegist(csrs) ==
  [c \in DOMAIN csrs \cup PrivCsrs |->
     IF c \in PrivCsrs THEN PrivReset[c] ELSE csrs[c]]
=============================================================================
