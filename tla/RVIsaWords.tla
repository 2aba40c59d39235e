----------------------------- MODULE RVIsaWords -----------------------------
(***************************************************************************)
(* What the RISC-V base integer instructions and the CSR instructions do   *)
(* to words, as the instruction set defines it: nothing here is taken from *)
(* the code that RVIsa and MCRV32I compare with it.                        *)
(***************************************************************************)
EXTENDS RVWords

IsTrue(b) == IF b THEN 1 ELSE 0

(* The register-register instructions. *)
IsaReg(op, a, b) ==
  CASE op = "add"  -> ToU(a + b)
    [] op = "sub"  -> ToU(a - b)
    [] op = "sll"  -> ToU(a * 2^(b % XLEN))
    [] op = "slt"  -> IsTrue(ToS(a) < ToS(b))
    [] op = "sltu" -> IsTrue(a < b)
    [] op = "xor"  -> Xor(a, b)
    [] op = "srl"  -> a \div 2^(b % XLEN)
    [] op = "sra"  -> ToU(ToS(a) \div 2^(b % XLEN))
    [] op = "or"   -> Or(a, b)
    [] op = "and"  -> And(a, b)

(* Each immediate instruction is a register one whose second operand is    *)
(* the sign-extended immediate.                                            *)
RegForm == [addi |-> "add", slti |-> "slt", sltiu |-> "sltu", xori |-> "xor",
            ori |-> "or", andi |-> "and", slli |-> "sll", srli |-> "srl",
            srai |-> "sra"]

IsaImm(op, a, imm) == IsaReg(RegForm[op], a, ToU(imm))

IsaTaken(op, a, b) ==
  CASE op = "beq"  -> a = b
    [] op = "bne"  -> a # b
    [] op = "blt"  -> IsaReg("slt", a, b) = 1
    [] op = "bge"  -> IsaReg("slt", a, b) = 0
    [] op = "bltu" -> IsaReg("sltu", a, b) = 1
    [] op = "bgeu" -> IsaReg("sltu", a, b) = 0
-----------------------------------------------------------------------------
(* What a CSR instruction writes, given the old word and the operand: the  *)
(* number in the field of rs1 or the word in the register.                 *)
IsaCsrWord(op, old, v) ==
  CASE op \in {"csrrw", "csrrwi"} -> v
    [] op \in {"csrrs", "csrrsi"} -> Or(old, v)
    [] op \in {"csrrc", "csrrci"} -> WordOf(Bits(old) \ Bits(v))

IsaCsrWrites(d) == d.op \in {"csrrw", "csrrwi"} \/ d.rs1 # 0

IsaCsrReadOnly(addr) == addr >= 3072
=============================================================================
