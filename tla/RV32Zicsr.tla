----------------------------- MODULE RV32Zicsr -----------------------------
(***************************************************************************)
(* The CSR instructions (src/RV32Zicsr.cc).  A CSR instruction d is        *)
(* [op, rd, rs1, imm], where imm is the address of the CSR (imm_11_0) and  *)
(* rs1 names a register or is the immediate zimm itself.  The state h of a *)
(* handler has the registers x and the CSRs that exist, csrs, which is     *)
(* the map m_regs.ctl->csrs; a handler is the state it leaves behind.      *)
(***************************************************************************)
EXTENDS RV32IDecode

CsrAddress == 0..4095

(* rwro, the upper two bits of the address of a CSR *)
ReadOnly(addr) == addr \div 1024 = 3
-----------------------------------------------------------------------------
CsrCodes ==
  <<Undef, "csrrw", "csrrs", "csrrc", Undef, "csrrwi", "csrrsi", "csrrci">>

CsrOps    == Named(CsrCodes)
CsrImmOps == {"csrrwi", "csrrsi", "csrrci"}

System(i) == i.aa = 3 /\ i.bbb = 4 /\ i.cc = 3

(* exec(): the handler of a word; the immediate forms have funct3[2].      *)
CsrDecode(i) == IF System(i) THEN CsrCodes[i.funct3 + 1] ELSE Undef

(* Mutant: every word of the SYSTEM opcode is accepted. *)
Bug_CsrIsValid(i) == System(i)

(* isValid *)
CsrIsValid(i) == System(i) /\ i.funct3 \in {1, 2, 3, 5, 6, 7}
-----------------------------------------------------------------------------
AndNot(a, b) == And(a, ToU(-1 - b))

(* zimm, or the word in rs1 *)
Operand(d, h) == IF d.op \in CsrImmOps THEN d.rs1 ELSE h.x[d.rs1]

(* Mutant: rd receives what was written. *)
Bug_Swap(d, h) ==
  [h EXCEPT !.csrs[d.imm] = Operand(d, h),
            !.x = IF d.rd = 0 THEN @ ELSE [@ EXCEPT ![d.rd] = Operand(d, h)]]

(* csrrw, csrrwi: the old value is kept aside until the CSR is written.    *)
Swap(d, h) ==
  [h EXCEPT !.csrs[d.imm] = Operand(d, h),
            !.x = IF d.rd = 0 THEN @ ELSE [@ EXCEPT ![d.rd] = h.csrs[d.imm]]]

(* csrrs, csrrc and their immediate forms: rd is written also if it is 0,  *)
(* the CSR only if the field of rs1 is not 0.                              *)
Update(d, h, v) ==
  [h EXCEPT !.csrs[d.imm] = IF d.rs1 = 0 THEN @ ELSE v,
            !.x[d.rd]     = h.csrs[d.imm]]

(* Mutant: no instruction looks at rwro. *)
Bug_Denied(d, h) == d.imm \notin DOMAIN h.csrs

(* RV_EININST: there is no such CSR.  RV_EACCESS: csrrsi and csrrci, and   *)
(* no other, refuse a read-only one, also when they would only read it.    *)
Denied(d, h) ==
  \/ d.imm \notin DOMAIN h.csrs
  \/ d.op \in {"csrrsi", "csrrci"} /\ ReadOnly(d.imm)

CsrExec(d, h) ==
  IF Denied(d, h) THEN [h EXCEPT !.err = TRUE]
  ELSE LET old == h.csrs[d.imm]
       IN  CASE d.op \in {"csrrw", "csrrwi"} -> Swap(d, h)
             [] d.op \in {"csrrs", "csrrsi"} -> Update(d, h, Or(old, Operand(d, h)))
             [] d.op \in {"csrrc", "csrrci"} -> Update(d, h, AndNot(old, Operand(d, h)))
             [] OTHER -> [h EXCEPT !.err = TRUE]
=============================================================================
