------------------------------ MODULE MCRV32I ------------------------------
(***************************************************************************)
(* The pure parts of the machine against the RISC-V instruction set.  A    *)
(* behaviour is one case:                                                  *)
(*   "word"   an instruction is encoded with some immediate of its format  *)
(*            (a sample of those of 20 bits), at its true width, and       *)
(*            RV32IDecode and RV32Zicsr are asked what they make of it;    *)
(*   "value"  operands of a short word for RV32IExec, all of them;         *)
(*   "csr"    a CSR instruction with a register and a CSR for RV32Zicsr;   *)
(*   "fetch"  memory, an address and a decompressor for RV32Fetch;         *)
(*   "forms"  one register and one immediate for every immediate form,     *)
(*            from its word to its result, and the forms that miss it.     *)
(***************************************************************************)
EXTENDS RV32Zicsr, RV32Fetch, RVIsaWords

CONSTANTS Mnemonics,     \* the instructions that are encoded
          Compared,      \* the instructions whose results are compared
          Comprs,        \* the decompressors
          FormOperands   \* register and immediate of the immediate forms

VARIABLE case

(* Where the base instruction set puts each instruction: bits 6..2 of the  *)
(* opcode as <<cc, bbb>>, funct3, and funct7 where it is part of the code. *)
Coding ==
  [lb |-> <<0, 0, 0>>, lh |-> <<0, 0, 1>>, lw |-> <<0, 0, 2>>,
   lbu |-> <<0, 0, 4>>, lhu |-> <<0, 0, 5>>,
   fence |-> <<0, 3, 0>>, fencei |-> <<0, 3, 1>>,
   addi |-> <<0, 4, 0>>, slti |-> <<0, 4, 2>>, sltiu |-> <<0, 4, 3>>,
   xori |-> <<0, 4, 4>>, ori |-> <<0, 4, 6>>, andi |-> <<0, 4, 7>>,
   slli |-> <<0, 4, 1>>, srli |-> <<0, 4, 5>>, srai |-> <<0, 4, 5>>,
   auipc |-> <<0, 5>>,
   sb |-> <<1, 0, 0>>, sh |-> <<1, 0, 1>>, sw |-> <<1, 0, 2>>,
   add |-> <<1, 4, 0>>, sub |-> <<1, 4, 0>>, sll |-> <<1, 4, 1>>,
   slt |-> <<1, 4, 2>>, sltu |-> <<1, 4, 3>>, xor |-> <<1, 4, 4>>,
   srl |-> <<1, 4, 5>>, sra |-> <<1, 4, 5>>, or |-> <<1, 4, 6>>,
   and |-> <<1, 4, 7>>, lui |-> <<1, 5>>,
   beq |-> <<3, 0, 0>>, bne |-> <<3, 0, 1>>, blt |-> <<3, 0, 4>>,
   bge |-> <<3, 0, 5>>, bltu |-> <<3, 0, 6>>, bgeu |-> <<3, 0, 7>>,
   jalr |-> <<3, 1, 0>>, jal |-> <<3, 3>>,
   csrrw |-> <<3, 4, 1>>, csrrs |-> <<3, 4, 2>>, csrrc |-> <<3, 4, 3>>,
   csrrwi |-> <<3, 4, 5>>, csrrsi |-> <<3, 4, 6>>, csrrci |-> <<3, 4, 7>>,
   ecall |-> <<3, 4, 0>>, ebreak |-> <<3, 4, 0>>]

AllButOri == DOMAIN Coding \ {"ori"}

Shifts == {"slli", "srli", "srai"}
IType  == LoadOps \cup (ImmOps \ Shifts) \cup {"jalr"}
UType  == {"lui", "auipc"}

(* Offsets and upper immediates in which at most two bits differ from the  *)
(* sign.                                                                   *)
Sample20 == {2^i + 2^j : i \in 0..17, j \in 0..18} \ {2^19}

Immediates(op) ==
  CASE op \in IType \cup StoreOps -> -2048..2047
    [] op \in BranchOps         -> {2 * n : n \in -2048..2047}
    [] op \in Shifts            -> 0..31
    [] op = "jal"               -> {2 * n : n \in Sample20}
                                    \cup {-2 * (n + 1) : n \in Sample20}
    [] op \in UType             -> Sample20 \cup {2^20 - 1}
    [] op = "ebreak"            -> {1}
    [] op \in CsrOps            -> CsrAddress
    [] OTHER                    -> {0}

Field(n, low, width) == (n \div 2^low) % 2^width

(* The word of an instruction; rd, rs1 and rs2 are 21, 10 and 5 where the  *)
(* format has them.                                                        *)
Encode(op, imm) ==
  LET code == Coding[op]
      word == [aa |-> 3, bbb |-> code[2], cc |-> code[1], rd |-> 21,
               funct3 |-> IF Len(code) = 3 THEN code[3] ELSE 0,
               rs1 |-> 10, rs2 |-> 5,
               funct7 |-> IF op \in {"sub", "sra", "srai"} THEN 32 ELSE 0]
  IN  CASE op \in IType \cup CsrOps \cup {"fence", "fencei", "ecall", "ebreak"} ->
             [word EXCEPT !.funct7 = Field(imm, 5, 7), !.rs2 = Field(imm, 0, 5)]
        [] op \in Shifts -> [word EXCEPT !.rs2 = imm]
        [] op \in StoreOps ->
             [word EXCEPT !.funct7 = Field(imm, 5, 7), !.rd = Field(imm, 0, 5)]
        [] op \in BranchOps ->
             [word EXCEPT !.funct7 = 64 * Field(imm, 12, 1) + Field(imm, 5, 6),
                          !.rd = 2 * Field(imm, 1, 4) + Field(imm, 11, 1)]
        [] op = "jal" ->
             [word EXCEPT !.funct7 = 64 * Field(imm, 20, 1) + Field(imm, 5, 6),
                          !.rs2 = 2 * Field(imm, 1, 4) + Field(imm, 11, 1),
                          !.rs1 = Field(imm, 15, 5), !.funct3 = Field(imm, 12, 3)]
        [] op \in UType ->
             [word EXCEPT !.funct7 = Field(imm, 13, 7), !.rs2 = Field(imm, 8, 5),
                          !.rs1 = Field(imm, 3, 5), !.funct3 = Field(imm, 0, 3)]
        [] op \in RegOps -> word
-----------------------------------------------------------------------------
MCMap == <<[addr |-> 0, len |-> 4, mem |-> "ram"]>>

(* The memory of the cases is a ram at the lowest addresses, and no more.  *)
ASSUME CasesAssumption ==
  /\ RamLen \in 4..(2^XLEN - 4)
  /\ \A a \in 0..RamLen :
       IF a < RamLen THEN Device(a) = "ram" /\ Offset(a) = a ELSE Device(a) = "none"

(* Any word that says which half it stands for. *)
MCExpand(half) == 4 * half + 3

AllButSlti == (RegOps \cup ImmOps \cup BranchOps \cup LoadOps \cup CsrOps) \ {"slti"}

(* An immediate is an int32_t; here it may be any, of which those of 12    *)
(* bits are a part.  The operands of a load are the word it finds.         *)
Operands(op) ==
  CASE op \in Shifts          -> Word \X (0..(XLEN - 1))
    [] op \in ImmOps \ Shifts -> Word \X ((-2^(XLEN - 1))..(2^(XLEN - 1) - 1))
    [] op \in LoadOps         -> Word \X {0}
    [] OTHER                  -> Word \X Word

(* mscratch and cycle: one CSR of each kind.                               *)
MCCsrs == {832, 3072}

(* The bits of a CSR do not meet: all ones, all zeros and a mixture do.    *)
MCOldWords == {0, 2^XLEN - 1, (2^XLEN - 1) \div 3}

CsrCases ==
  {[op |-> op, rd |-> rd, rs1 |-> rs1, imm |-> c] :
     op \in CsrOps, rd \in {0, 1}, rs1 \in {0, 1, 21, 31}, c \in MCCsrs}

(* The lowest register, which is negative, and the immediate 1, which is   *)
(* not.                                                                    *)
MCForms == {<<2^(XLEN - 1), 1>>}
-----------------------------------------------------------------------------
Init == case = [kind |-> "none"]

(* An instruction is encoded. *)
Assemble ==
  \E op \in Mnemonics : \E imm \in Immediates(op) :
    case' = [kind |-> "word", op |-> op, imm |-> imm, word |-> Encode(op, imm)]

(* An instruction is given its operands. *)
PickOperands ==
  \E op \in Compared : \E o \in Operands(op) :
    case' = [kind |-> "value", op |-> op, a |-> o[1], b |-> o[2]]

(* A CSR instruction is given what x1 and the CSR hold. *)
PickCsr ==
  \E d \in CsrCases, w \in Word, old \in MCOldWords :
    /\ d.op \in Compared
    /\ d.op \notin CsrImmOps => d.rs1 < 2
    /\ case' = [kind |-> "csr", d |-> d, a |-> w, old |-> old]

(* Four bytes of memory, and the place of a fetch in them.                 *)
PickFetch ==
  \E c \in Comprs, ram \in [0..(RamLen - 1) -> Byte], addr \in 0..RamLen, out \in {0, 1} :
    case' = [kind |-> "fetch", comprs |-> c, ram |-> ram, addr |-> addr, out |-> out]

(* One register and one immediate: the forms that do not put the word into *)
(* rd that the instruction set asks for, from the word of the instruction. *)
PickForm ==
  \E o \in FormOperands :
    case' = [kind |-> "forms", a |-> o[1], imm |-> o[2],
             differ |-> {op \in ImmOps \ Shifts :
                           ImmValue(op, o[1], Imm(Encode(op, o[2]))) # IsaImm(op, o[1], o[2])}]

Next ==
  /\ case.kind = "none"
  /\ Assemble \/ PickOperands \/ PickCsr \/ PickFetch \/ PickForm

Spec == Init /\ [][Next]_case
-----------------------------------------------------------------------------
(* An instruction is accepted by isValid and reaches its own handler,      *)
(* whatever its immediate: no bit of an immediate is taken for a part of   *)
(* the opcode by the nested switches of exec().  RV32I accepts the CSR     *)
(* instructions too, and has no handler for them.                          *)
DecodesBack ==
  case.kind = "word" =>
    /\ IsValid(case.word)
    /\ IF case.op \in CsrOps
       THEN /\ CsrIsValid(case.word) /\ CsrDecode(case.word) = case.op
            /\ Decode(case.word) = Undef
       ELSE ~CsrIsValid(case.word) /\ Decode(case.word) = case.op

(* The handler recovers the immediate that was encoded, every bit of it in *)
(* its place and with its sign (rv32_inst_fmt, rv32_imm_fmt, rv32_sext).   *)
ImmediateBack ==
  case.kind = "word" =>
    case.imm = IF case.op \in CsrOps THEN imm_11_0(case.word) ELSE Imm(case.word)

(* What the program of C++ promises of a shift is defined for amounts      *)
(* below XLEN only.                                                        *)
Defined == case.op \in {"sll", "srl"} => case.b < XLEN

(* The word in rd is the one the instruction set asks for, for immediate   *)
(* forms the one of the register form with the extended immediate: the     *)
(* sign tricks of slt, sra and srai, and the wrapping of sums, included.   *)
ValuesAgree ==
  case.kind = "value" =>
    /\ case.op \in RegOps /\ Defined =>
         RegValues(case.op, case.a, case.b) = {IsaReg(case.op, case.a, case.b)}
    /\ case.op \in ImmOps =>
         ImmValue(case.op, case.a, case.b) = IsaImm(case.op, case.a, case.b)

(* Each branch goes where the order of its two operands, as signed or as   *)
(* unsigned numbers, says.                                                 *)
BranchesAgree ==
  case.kind = "value" /\ case.op \in BranchOps =>
    (Taken(case.op, case.a, case.b) <=> IsaTaken(case.op, case.a, case.b))

(* A load returns what a store of the same width wrote, cut to that width  *)
(* and extended as the load says: bytes in the same order both ways.       *)
StoreThenLoad ==
  case.kind = "value" /\ case.op \in LoadOps =>
    LET n     == Width(case.op)
        ram   == [i \in 0..(RamLen - 1) |-> 0]
        after == Written(ram, 0, n, case.a)
        low   == case.a % 2^(n * ByteBits)
        half  == 2^(n * ByteBits - 1)
    IN  {Extended(case.op, b) : b \in Read(after, 0, n)}
          = {IF case.op \in {"lb", "lh"} /\ low >= half THEN ToU(low - 2 * half)
             ELSE low}

(* A CSR instruction exchanges, sets or clears in one step: rd receives    *)
(* the word from before also when rd and rs1 are the same register, and an *)
(* instruction whose rs1 field is 0 reads only.  csrrsi and csrrci refuse  *)
(* a read-only CSR, also with a zimm of 0 that would write nothing, and    *)
(* leave it and the registers alone; of the other four the property says   *)
(* nothing there unless they only read, since they do not check.           *)
CsrAgrees ==
  case.kind = "csr" =>
    LET d == case.d
        before == [x    |-> [r \in {0, 1} |-> IF r = 0 THEN 0 ELSE case.a],
                   csrs |-> [c \in {d.imm} |-> case.old], err |-> FALSE]
        after  == CsrExec(d, before)
        v      == IF d.op \in CsrImmOps THEN d.rs1 ELSE before.x[d.rs1]
    IN  IF ReadOnly(d.imm) /\ d.op \in {"csrrsi", "csrrci"}
        THEN after = [before EXCEPT !.err = TRUE]
        ELSE (ReadOnly(d.imm) => ~IsaCsrWrites(d))
          => /\ ~after.err
             /\ after.csrs[d.imm] = IF IsaCsrWrites(d)
                                    THEN IsaCsrWord(d.op, case.old, v)
                                    ELSE case.old
             /\ after.x[1] = IF d.rd = 1 THEN case.old ELSE case.a

(* The instruction at an address: compressed or full, if it is all there.  *)
ThereIs(comprs, ram, addr) ==
  LET held(n)  == addr..(addr + n - 1) \subseteq DOMAIN ram
      half(at) == ram[at] + ram[at + 1] * 2^ByteBits
      short    == comprs # "none" /\ held(2) /\ Compressed(half(addr))
  IN  IF short THEN Fetched(Expand(half(addr)), TRUE)
      ELSE IF held(4) THEN Fetched(Joined(half(addr), half(addr + 2)), FALSE)
      ELSE NotFetched

FetchCase == inst_fetch(case.comprs, case.ram, case.addr, case.out)

(* Without a decompressor inst_fetch delivers the word at an address or,   *)
(* when the device ends before it does, nothing.  With one it delivers a   *)
(* compressed instruction as what it stands for and with its size, also in *)
(* the last two bytes of a device, and whatever was fetched before.        *)
FetchDelivers ==
  case.kind = "fetch" =>
    LET it == ThereIs(case.comprs, case.ram, case.addr)
    IN  case.comprs = "none" \/ (it.ok /\ it.is_compress) => FetchCase = {it}

(* What is fetched is what is there, full instructions behind a            *)
(* decompressor included.                                                  *)
FetchedIsThere ==
  case.kind = "fetch" => FetchCase = {ThereIs(case.comprs, case.ram, case.addr)}

(* Every immediate form computes its register form on the immediate that   *)
(* was encoded, from the word of the instruction to the word in rd: no     *)
(* form is among those that differ.                                        *)
ImmediateFormsAgree == case.kind = "forms" => case.differ = {}
=============================================================================
