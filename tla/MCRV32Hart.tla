----------------------------- MODULE MCRV32Hart -----------------------------
(***************************************************************************)
(* Instances of RV32Hart for TLC: words of four bits, so that the whole    *)
(* address space is 16 bytes of one bit; a rom at 0..7 whose file ends     *)
(* before a fetch from 7 does; a ram at 8..11, nothing behind it; x0 and   *)
(* one register; a CSR of each kind.                                       *)
(***************************************************************************)
EXTENDS RV32Hart

MCMap == <<[addr |-> 0, len |-> 8, mem |-> "rom"],
           [addr |-> 8, len |-> 4, mem |-> "ram"]>>

(* A client may give RV32Zicsr a name before "I". *)
MCSets == <<"Zicsr", "I">>

I(op, rd, rs1, rs2, imm) ==
  [op |-> op, rd |-> rd, rs1 |-> rs1, rs2 |-> rs2, imm |-> imm]

(* One or two instructions of each shape of handler, with operands that    *)
(* reach its cases: x0 written and read, a link register that is the base, *)
(* a jump to itself, accesses inside, across the end of and beside the ram,*)
(* a CSR read, written, read-only and missing.                             *)
MCInsts ==
  {I("addi", 0, 0, 0, 5), I("addi", 1, 0, 0, 3), I("addi", 1, 1, 0, -1),
   I("add", 1, 1, 1, 0), I("sltu", 1, 0, 1, 0), I("sra", 1, 1, 1, 0),
   I("srai", 1, 1, 0, 1), I("lui", 1, 0, 0, 8), I("auipc", 1, 0, 0, 8),
   I("beq", 0, 0, 1, 0), I("bltu", 0, 0, 1, -4), I("bge", 0, 1, 0, 4),
   I("jal", 1, 0, 0, 0), I("jal", 1, 0, 0, -2), I("jalr", 1, 1, 0, 1),
   I("lb", 1, 0, 0, 9), I("lhu", 1, 1, 0, 0), I("lw", 1, 0, 0, 8),
   I("sb", 0, 0, 1, 11), I("sh", 0, 1, 1, 1), I("sw", 0, 0, 1, 8),
   I("ecall", 0, 0, 0, 0), I("undef", 0, 0, 0, 0), I("none", 0, 0, 0, 0),
   I("csrrwi", 0, 2, 0, 832), I("csrrs", 1, 0, 0, 832), I("csrrsi", 0, 2, 0, 832),
   I("csrrc", 1, 1, 0, 832), I("csrrsi", 1, 1, 0, 3072), I("csrrc", 1, 1, 0, 768)}

(* Compressed forms: c.li, c.addi, c.mv, c.srai, c.lui, c.beqz, c.lw and   *)
(* c.sw; not the jumps, whose link is behind a full instruction.           *)
MCCompressible ==
  {d \in MCInsts :
     \/ d.op \in {"addi", "srai", "lui", "lw", "sw"} /\ d.rs2 \in {0, 1}
     \/ d.op = "beq"}

ASSUME MCConforms == ConformingGuest /\ RamPlaced /\ SumsFit
=============================================================================
