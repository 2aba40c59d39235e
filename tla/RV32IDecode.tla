---------------------------- MODULE RV32IDecode ----------------------------
(***************************************************************************)
(* What RV32I (src/RV32I.cc) makes of an instruction word: isValid, the    *)
(* nested switches of exec(), and the immediates, which every handler puts *)
(* together from the bit-fields of rv32_inst_fmt through rv32_imm_fmt      *)
(* (defs/RV32InstFmt.h).                                                   *)
(*                                                                         *)
(* An instruction word is given by its fields in the R layout, which cover *)
(* all 32 bits: aa, bbb and cc (the opcode), rd, funct3, rs1, rs2, funct7. *)
(* The fields of the other layouts are the same bits.                      *)
(***************************************************************************)
EXTENDS RVWords, Sequences

Instruction ==
  [aa : 0..3, bbb : 0..7, cc : 0..3, rd : 0..31, funct3 : 0..7,
   rs1 : 0..31, rs2 : 0..31, funct7 : 0..127]

(* inst.inst == 0 *)
ZeroInst ==
  [aa |-> 0, bbb |-> 0, cc |-> 0, rd |-> 0, funct3 |-> 0,
   rs1 |-> 0, rs2 |-> 0, funct7 |-> 0]

Undef == "undef"

(* op_aa_match, op_bbb_match, op_cc_match *)
IsValid(i) == i.aa = 3 /\ i.bbb \notin {2, 7} /\ i.cc # 2
-----------------------------------------------------------------------------
(* The immediates, as the int32_t the handlers compute with.               *)

imm_11_0(i) == i.funct7 * 32 + i.rs2

ImmI(i) == Sext(imm_11_0(i), 11)
ImmS(i) == Sext(i.funct7 * 32 + i.rd, 11)

(* Mutant: bit 11 of the offset is taken for bit 0.                        *)
Bug_ImmB(i) ==
  Sext((i.funct7 \div 64) * 4096 + (i.funct7 % 64) * 32
       + (i.rd \div 2) * 2 + (i.rd % 2), 12)

(* imm_12 | imm_11 | imm_10_5 | imm_4_1 *)
ImmB(i) ==
  Sext((i.funct7 \div 64) * 4096 + (i.rd % 2) * 2048
       + (i.funct7 % 64) * 32 + (i.rd \div 2) * 2, 12)

(* Mutant: the offset is extended from its bit 19. *)
Bug_ImmJ(i) ==
  Sext((i.rs1 * 8 + i.funct3) * 4096 + (i.rs2 % 2) * 2048
       + (i.funct7 % 64) * 32 + (i.rs2 \div 2) * 2, 19)

(* imm_20 | imm_19_12 | imm_11 | imm_10_1 *)
ImmJ(i) ==
  Sext((i.funct7 \div 64) * 2^20 + (i.rs1 * 8 + i.funct3) * 4096
       + (i.rs2 % 2) * 2048 + (i.funct7 % 64) * 32 + (i.rs2 \div 2) * 2, 20)

(* imm_31_12, the upper bits of the immediate of lui and auipc             *)
ImmU(i) == i.funct7 * 2^13 + i.rs2 * 2^8 + i.rs1 * 2^3 + i.funct3

(* Six bits: shamt[5] is bit 25 of the word, the lowest bit of funct7.     *)
Shamt(i) == imm_11_0(i) % 64

(* The handler of ori takes imm_11_0 from the R layout, where it is the    *)
(* name of the seven bits of funct7.                                       *)
ImmOri(i) == Sext(i.funct7, 11)
-----------------------------------------------------------------------------
(* exec(): the handler of an instruction, chosen by cc, bbb, funct3 and,   *)
(* where the code looks at it, funct7.                                     *)

LoadCodes  == <<"lb", "lh", "lw", Undef, "lbu", "lhu", Undef, Undef>>
ImmCodes   == <<"addi", "slli", "slti", "sltiu", "xori", Undef, "ori", "andi">>
StoreCodes == <<"sb", "sh", "sw", Undef, Undef, Undef, Undef, Undef>>
RegCodes   == <<Undef, "sll", "slt", "sltu", "xor", Undef, "or", "and">>

(* Mutant: blt and bltu change places. *)
Bug_BranchCodes ==
  <<"beq", "bne", Undef, Undef, "bltu", "bge", "blt", "bgeu">>

BranchCodes == <<"beq", "bne", Undef, Undef, "blt", "bge", "bltu", "bgeu">>

(* The two instructions that funct7 tells apart, or none of them.          *)
ByFunct7(i, plain, alternate) ==
  CASE i.funct7 = 0  -> plain
    [] i.funct7 = 32 -> alternate
    [] OTHER         -> Undef

Decode00(i) ==
  CASE i.bbb = 0                  -> LoadCodes[i.funct3 + 1]
    [] i.bbb = 3 /\ i.funct3 = 0  -> "fence"
    [] i.bbb = 3 /\ i.funct3 = 1  -> "fencei"
    [] i.bbb = 4 /\ i.funct3 = 5  -> ByFunct7(i, "srli", "srai")
    [] i.bbb = 4 /\ i.funct3 # 5  -> ImmCodes[i.funct3 + 1]
    [] i.bbb = 5                  -> "auipc"
    [] OTHER                      -> Undef

Decode01(i) ==
  CASE i.bbb = 0                  -> StoreCodes[i.funct3 + 1]
    [] i.bbb = 4 /\ i.funct3 = 0  -> ByFunct7(i, "add", "sub")
    [] i.bbb = 4 /\ i.funct3 = 5  -> ByFunct7(i, "srl", "sra")
    [] i.bbb = 4 /\ i.funct3 \notin {0, 5} -> RegCodes[i.funct3 + 1]
    [] i.bbb = 5                  -> "lui"
    [] OTHER                      -> Undef

Decode11(i) ==
  CASE i.bbb = 0                  -> BranchCodes[i.funct3 + 1]
    [] i.bbb = 1                  -> "jalr"
    [] i.bbb = 3                  -> "jal"
    [] i.bbb = 4 /\ i.funct3 = 0  ->
         (CASE imm_11_0(i) = 0 -> "ecall"
            [] imm_11_0(i) = 1 -> "ebreak"
            [] OTHER           -> Undef)
    [] OTHER                      -> Undef

(* slli, srli and srai refuse a shift amount of 32 and more themselves.    *)
Decode(i) ==
  LET op == CASE i.cc = 0 -> Decode00(i)
              [] i.cc = 1 -> Decode01(i)
              [] i.cc = 3 -> Decode11(i)
              [] OTHER    -> Undef
  IN  IF op \in {"slli", "srli", "srai"} /\ Shamt(i) >= 32 THEN Undef ELSE op

Named(ops) == {ops[k] : k \in DOMAIN ops} \ {Undef}

(* The immediate that the handler of an instruction puts together.         *)
Imm(i) ==
  LET op == Decode(i)
  IN  CASE op = "ori"                              -> ImmOri(i)
        [] op \in {"slli", "srli", "srai"}         -> Shamt(i)
        [] op \in Named(LoadCodes) \cup {"jalr"}    -> ImmI(i)
        [] op \in Named(ImmCodes) \ {"ori", "slli"} -> ImmI(i)
        [] op \in Named(StoreCodes)                -> ImmS(i)
        [] op \in Named(BranchCodes)               -> ImmB(i)
        [] op = "jal"                              -> ImmJ(i)
        [] op \in {"lui", "auipc"}                 -> ImmU(i)
        [] op \in {"ecall", "ebreak"}              -> imm_11_0(i)
        [] OTHER                                   -> 0
=============================================================================
