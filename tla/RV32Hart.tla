------------------------------ MODULE RV32Hart ------------------------------
(***************************************************************************)
(* The run loop of class rv32 (rv32::run, inst_fetch and inst_exec of      *)
(* src/RV32.cc) with RV32I and RV32Zicsr, and what a client may do to the  *)
(* machine between two runs.  What one pass of the loop does to the        *)
(* registers, the CSRs and the memory of the guest is the matter here;     *)
(* when the loop is entered and told to end is RV32VM's: it may be told at *)
(* any pass.                                                               *)
(*                                                                         *)
(* The guest program is abstract: the word fetched from a place that holds *)
(* a word may be any instruction of Insts, also a different one each time. *)
(* With a decompressor the guest is made of compressed instructions only,  *)
(* since inst_fetch does not deliver others (RV32Fetch): those that        *)
(* Compressible stand for.                                                 *)
(***************************************************************************)
EXTENDS RV32IExec, RV32Zicsr

CONSTANTS Registers,    \* the indices of x, 0 among them
          Insts,        \* the decoded instructions of the guest
          Compressible, \* those of Insts that have a compressed form
          CsrAddrs,     \* the CSRs that regist() created
          RamAddrs,     \* the addresses that the map routes to the ram
          Sets,         \* the instruction sets, in the order of their names
          StartAddrs    \* the addresses given to set_start_addr

(* What is in the fields of an instruction: an immediate shift by XLEN and *)
(* more has no handler, and the zimm of a CSR instruction fits into a word.*)
Fields(d) ==
  /\ d.rd \in Registers /\ d.rs2 \in Registers /\ d.imm \in Int
  /\ d.rs1 \in IF d.op \in CsrImmOps THEN Word ELSE Registers
  /\ d.op \in {"slli", "srli", "srai"} => d.imm \in 0..(XLEN - 1)

ASSUME HartAssumption ==
  /\ 0 \in Registers
  /\ \A d \in Insts : Fields(d)
  /\ CsrAddrs \subseteq CsrAddress
  /\ StartAddrs \subseteq Word
  /\ Compressible \subseteq Insts
  /\ RamAddrs = {a \in Word : Device(a) = "ram" /\ Offset(a) < RamLen}
  /\ Sets \in Seq({"I", "Zicsr"})

VARIABLES x,           \* m_regs.reg->x
          pc,          \* m_regs.reg->pc
          pc_changed,  \* m_regs.ctl->pc_changed
          csrs,        \* m_regs.ctl->csrs
          ram,         \* the bytes of the mem_ram
          m_comprs,    \* there is a decompressor
          pc_prv,      \* local of run(), 0 while its value is dead
          is_compress, \* local of run(), FALSE while its value is dead
          phase        \* what the loop does next

guest == <<x, pc, pc_changed, csrs, ram>>
vars == <<guest, m_comprs, pc_prv, is_compress, phase>>

Init ==
  /\ x = [r \in Registers |-> 0]
  /\ pc \in StartAddrs
  /\ pc_changed = FALSE
  /\ csrs = [c \in CsrAddrs |-> 0]
  /\ ram = [i \in 0..(RamLen - 1) |-> 0]
  /\ m_comprs = FALSE
  /\ pc_prv = 0 /\ is_compress = FALSE
  /\ phase = "check"
-----------------------------------------------------------------------------
(* inst_exec: the first set by name that accepts the word has it for good. *)
(* RV32I accepts every word with an opcode of its own, which SYSTEM is,    *)
(* whether it has a handler for the rest of the word or not.               *)

Accepts(s, d) == IF s = "I" THEN d.op # "none" ELSE d.op \in CsrOps

Takers(d) == {i \in DOMAIN Sets : Accepts(Sets[i], d)}

InstExec(d, h) ==
  IF Takers(d) = {} THEN Failed(h)
  ELSE IF Sets[Min(Takers(d))] = "I" THEN Exec(d, h)
  ELSE {CsrExec(d, h)}
-----------------------------------------------------------------------------
Leave == phase' = "left" /\ UNCHANGED <<guest, m_comprs, pc_prv, is_compress>>

(* m_exit_req is set: break. *)
CheckExit == phase = "check" /\ Leave

(* The bytes of the first read of inst_fetch.                              *)
FetchBytes == IF m_comprs THEN 2 ELSE 4

(* No region accepts pc, or the device refuses to deliver the bytes.       *)
FetchFail ==
  /\ phase = "check" /\ Read(ram, pc, FetchBytes) = {}
  /\ Leave

(* inst.inst == 0: the file of the rom ends before the word does, or the   *)
(* device holds zeros there.                                               *)
FetchZero ==
  /\ phase = "check" /\ Read(ram, pc, FetchBytes) # {}
  /\ Leave

Fetchable ==
  /\ Read(ram, pc, FetchBytes) # {}
  /\ Device(pc) = "rom" => DeviceEnd(pc, FetchBytes) <= RomFileLen

(* Mutant: x[0] keeps what the last instruction left in it. *)
Bug_Entry == [x |-> x, pc |-> pc, pc_changed |-> FALSE,
              csrs |-> csrs, ram |-> ram, err |-> FALSE]

(* What the handler starts from: pc_changed and x[0] are reset first.      *)
Entry == [x |-> [x EXCEPT ![0] = 0], pc |-> pc, pc_changed |-> FALSE,
          csrs |-> csrs, ram |-> ram, err |-> FALSE]

(* inst_fetch delivers an instruction and inst_exec hands it to the set    *)
(* that takes it; the loop ends when that fails.                           *)
ExecInst(d) ==
  /\ phase = "check" /\ Fetchable
  /\ m_comprs => d \in Compressible
  /\ \E h \in InstExec(d, Entry) :
       /\ x' = h.x /\ pc' = h.pc /\ pc_changed' = h.pc_changed
       /\ csrs' = h.csrs /\ ram' = h.ram
       /\ IF h.err THEN phase' = "left" /\ UNCHANGED <<pc_prv, is_compress>>
          ELSE phase' = "advance" /\ pc_prv' = pc /\ is_compress' = m_comprs
  /\ UNCHANGED m_comprs

(* Where run() goes from here: on, unless the handler moved pc. *)
NextPc ==
  IF pc # pc_prv \/ pc_changed THEN pc ELSE ToU(pc + IF is_compress THEN 2 ELSE 4)

Advance ==
  /\ phase = "advance"
  /\ pc' = NextPc
  /\ phase' = "check"
  /\ pc_prv' = 0 /\ is_compress' = FALSE
  /\ UNCHANGED <<x, pc_changed, csrs, ram, m_comprs>>
-----------------------------------------------------------------------------
(* Between two runs: the registers of the guest are those of the machine,  *)
(* and run() starts with new locals.                                       *)

Restart ==
  /\ phase = "left"
  /\ phase' = "check"
  /\ UNCHANGED <<guest, m_comprs, pc_prv, is_compress>>

SetStartAddr ==
  /\ phase = "left"
  /\ pc' \in StartAddrs
  /\ UNCHANGED <<x, pc_changed, csrs, ram, m_comprs, pc_prv, is_compress, phase>>

(* Refused when there is one already. *)
SetCompress ==
  /\ phase = "left" /\ ~m_comprs
  /\ m_comprs' = TRUE
  /\ UNCHANGED <<guest, pc_prv, is_compress, phase>>

Next ==
  \/ CheckExit \/ FetchFail \/ FetchZero
  \/ \E d \in Insts : ExecInst(d)
  \/ Advance
  \/ Restart \/ SetStartAddr \/ SetCompress

Spec == Init /\ [][Next]_vars
-----------------------------------------------------------------------------
(* The types of the machine's state.  That the memory is still the bytes   *)
(* of the mem_ram says that no store has gone past them.                   *)
TypeOK ==
  /\ x \in [Registers -> Word]
  /\ pc \in Word /\ pc_prv \in Word
  /\ pc_changed \in BOOLEAN
  /\ csrs \in [CsrAddrs -> Word]
  /\ ram \in [0..(RamLen - 1) -> Byte]
  /\ m_comprs \in BOOLEAN /\ is_compress \in BOOLEAN
  /\ phase \in {"check", "advance", "left"}

(* Only a handler that says so moves pc: the comparison with pc_prv in     *)
(* run() never decides alone, and an instruction that falls through is the *)
(* one that pc still points at.                                            *)
JumpsAreMarked == phase = "advance" /\ ~pc_changed => pc = pc_prv

(* A pass that ends the run leaves nothing of its instruction behind: the  *)
(* guest finds its memory, its CSRs, its registers and pc as they were     *)
(* before the instruction that failed, and may be started again on it.     *)
FaultIsClean ==
  [][phase = "check" /\ phase' = "left"
       => /\ UNCHANGED <<pc, csrs, ram>>
          /\ \A r \in Registers \ {0} : x'[r] = x[r]]_vars

(* The abstract machine sees an instruction complete when its handler      *)
(* returns: the pass that follows only moves pc to where it is going.      *)
IsaMachine == INSTANCE RVIsa WITH
         x      <- [r \in Registers \ {0} |-> x[r]],
         pc     <- IF phase = "advance" THEN NextPc ELSE pc,
         mem    <- [a \in RamAddrs |-> ram[Offset(a)]],
         short  <- m_comprs,
         halted <- phase = "left"

(* The loop executes the instruction set of RISC-V: x0 reads as zero       *)
(* whatever was written to it, a jump to itself stays where it is, a link  *)
(* register may be its own base, an instruction that fails leaves nothing  *)
(* of itself behind, and a run goes on where the one before it ended.      *)
ImplementsIsa == IsaMachine!IsaSpec
-----------------------------------------------------------------------------
(* Where the machine is not that of the instruction set, and what is asked *)
(* of a guest and a map for it to be: no slti, no write to a read-only CSR *)
(* by the four instructions that do not check, no link behind a compressed *)
(* jump; a ram that is mapped once, from its first byte, and all of it; no *)
(* shift by a register that holds XLEN or more.                            *)
ConformingGuest ==
  /\ \A d \in Insts :
       /\ d.op # "slti"
       /\ d.op \in {"csrrw", "csrrwi"} => ~ReadOnly(d.imm)
       /\ d.op \in {"csrrs", "csrrc"} /\ d.rs1 # 0 => ~ReadOnly(d.imm)
  /\ \A d \in Compressible : d.op \notin {"jal", "jalr"}

RamPlaced ==
  \E base \in Word :
    /\ RamAddrs = base..(base + RamLen - 1)
    /\ \A a \in Word : Device(a) = "ram" => Offset(a) = a - base

(* Where the sum that mem_ram compares with its size cannot wrap.          *)
SumsFit == \A i \in DOMAIN MemMap : MemMap[i].mem = "ram" => MemMap[i].len <= 2^XLEN - 4

ShiftsDefined ==
  [][\A d \in Insts :
       d.op \in {"sll", "srl"} /\ ExecInst(d) => Entry.x[d.rs2] < XLEN]_vars
=============================================================================
