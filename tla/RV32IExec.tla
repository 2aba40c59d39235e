----------------------------- MODULE RV32IExec -----------------------------
(***************************************************************************)
(* The handlers of RV32I (src/RV32I.cc): what each of the instructions     *)
(* does to the registers, the program counter and the memory, which it     *)
(* reaches through the memory map (mem_read and mem_write of RVdefs.h) and *)
(* the two devices of the loader, mem_rom and mem_ram.                     *)
(*                                                                         *)
(* A decoded instruction d is [op, rd, rs1, rs2, imm], with the names and  *)
(* the immediates of RV32IDecode.  The state a handler works on is h:      *)
(* [x, pc, pc_changed, ram, err], where err says that it did not return    *)
(* RV_EOK.  A handler is the set of the states it may leave behind.        *)
(***************************************************************************)
EXTENDS RVWords, Sequences, FiniteSetsExt

CONSTANTS MemMap,      \* the regions of the map, in the order of add_mem
          RamLen,      \* bytes in the mem_ram
          RomFileLen   \* bytes in the file behind the mem_rom

Map == INSTANCE RV32Regions WITH AddrSpace <- 2^XLEN, Devices <- {"rom", "ram"}

ASSUME ExecAssumption ==
  RamLen \in Nat /\ RomFileLen \in Nat /\ MemMap \in Seq(Map!Region)

Truth(b) == IF b THEN 1 ELSE 0
-----------------------------------------------------------------------------
(* Values.  a and b are the words in rs1 and rs2.                          *)

(* << and >> by XLEN and more have no defined value in C++: the machine    *)
(* masks the amount, or the bits are all shifted out.                      *)
Amounts(b) == IF b < XLEN THEN {b} ELSE {b % XLEN, XLEN}

(* Mutant: the sign is looked for one bit too high. *)
Bug_Sra(a, n) == ToU(Sext(a \div 2^n, XLEN - n))

(* srai and sra: a logical shift, then rv32_sext from where the sign went. *)
Sra(a, n) == ToU(Sext(a \div 2^n, XLEN - 1 - n))

RegValues(op, a, b) ==
  CASE op = "add"  -> {ToU(a + b)}
    [] op = "sub"  -> {ToU(a - b)}
    [] op = "sll"  -> {ToU(a * 2^n) : n \in Amounts(b)}
    [] op = "slt"  -> {Truth(ToS(a) < ToS(b))}
    [] op = "sltu" -> {Truth(a < b)}
    [] op = "xor"  -> {Xor(a, b)}
    [] op = "srl"  -> {a \div 2^n : n \in Amounts(b)}
    [] op = "sra"  -> {Sra(a, b % XLEN)}
    [] op = "or"   -> {Or(a, b)}
    [] op = "and"  -> {And(a, b)}

(* imm is an int32_t; slti compares it with a, converted from uint32_t to  *)
(* int64_t, and the others convert it to uint32_t.                         *)
ImmValue(op, a, imm) ==
  CASE op = "addi"  -> ToU(a + imm)
    [] op = "slti"  -> Truth(a < imm)
    [] op = "sltiu" -> Truth(a < ToU(imm))
    [] op = "xori"  -> Xor(a, ToU(imm))
    [] op = "ori"   -> Or(a, ToU(imm))
    [] op = "andi"  -> And(a, ToU(imm))
    [] op = "slli"  -> ToU(a * 2^imm)
    [] op = "srli"  -> a \div 2^imm
    [] op = "srai"  -> Sra(a, imm)

(* Mutant: the operands of bltu are compared as signed numbers.            *)
Bug_Taken(op, a, b) ==
  CASE op = "beq"  -> a = b
    [] op = "bne"  -> a # b
    [] op \in {"blt", "bltu"}  -> ToS(a) < ToS(b)
    [] op = "bge"  -> ToS(a) >= ToS(b)
    [] op = "bgeu" -> a >= b

Taken(op, a, b) ==
  CASE op = "beq"  -> a = b
    [] op = "bne"  -> a # b
    [] op = "blt"  -> ToS(a) < ToS(b)
    [] op = "bge"  -> ToS(a) >= ToS(b)
    [] op = "bltu" -> a < b
    [] op = "bgeu" -> a >= b
-----------------------------------------------------------------------------
(* Memory.                                                                 *)

Width(op) ==
  CASE op \in {"lb", "lbu", "sb"} -> 1
    [] op \in {"lh", "lhu", "sh"} -> 2
    [] op \in {"lw", "sw"}        -> 4

(* A byte of a little-endian word. *)
ByteOf(w, k) == (w \div 2^(ByteBits * k)) % 2^ByteBits

(* The first region that accepts an address answers it.                    *)
Regions(addr) == {i \in DOMAIN MemMap : Map!InRange(addr, MemMap[i])}

Device(addr) ==
  IF Regions(addr) = {} THEN "none" ELSE MemMap[Min(Regions(addr))].mem

Offset(addr) == addr - MemMap[Min(Regions(addr))].addr

(* addr + len of the devices: a uint32_t, which wraps. *)
DeviceEnd(addr, n) == ToU(Offset(addr) + n)

(* rv32_mem_read: the byte strings it may deliver, none when it fails.     *)
(* mem_rom delivers zeros behind its file, and whatever is in the file     *)
(* before; mem_ram refuses what it does not hold to the last byte.  Past   *)
(* its vector, where a sum that wrapped lets it read, it may find anything.*)
Read(ram, addr, n) ==
  CASE Device(addr) = "none" -> {}
    [] Device(addr) = "rom"  ->
         IF DeviceEnd(addr, n) > RomFileLen THEN {[k \in 0..(n - 1) |-> 0]}
         ELSE [0..(n - 1) -> Byte]
    [] Device(addr) = "ram"  ->
         IF DeviceEnd(addr, n) > RamLen THEN {}
         ELSE IF Offset(addr) + n > RamLen THEN [0..(n - 1) -> Byte]
         ELSE {[k \in 0..(n - 1) |-> ram[Offset(addr) + k]]}

(* Mutant: the length of the access is forgotten. *)
Bug_Writable(addr, n) == Device(addr) = "ram" /\ Offset(addr) < RamLen

(* rv32_mem_write: mem_rom refuses it (RV_EACCESS).                        *)
Writable(addr, n) == Device(addr) = "ram" /\ DeviceEnd(addr, n) <= RamLen

(* The bytes go where they are sent, in the vector of mem_ram or past it:  *)
(* a store that leaves the vector shows as a memory of another domain.     *)
Written(ram, addr, n, w) ==
  LET place == Offset(addr)..(Offset(addr) + n - 1)
  IN  [i \in DOMAIN ram \cup place |->
         IF i \in place THEN ByteOf(w, i - Offset(addr)) ELSE ram[i]]

(* Mutant: lh is extended from the sign of a byte. *)
Bug_Extended(op, b) ==
  LET v == FromBytes(b, Width(op))
  IN  IF op \in {"lb", "lh"} THEN ToU(Sext(v, ByteBits - 1)) ELSE v

Extended(op, b) ==
  LET v == FromBytes(b, Width(op))
  IN  IF op \in {"lb", "lh"} THEN ToU(Sext(v, Width(op) * ByteBits - 1)) ELSE v
-----------------------------------------------------------------------------
(* The handlers, by the shape they share.                                  *)

Put(h, d, v) == [h EXCEPT !.x[d.rd] = v]
Failed(h)    == {[h EXCEPT !.err = TRUE]}
Address(h, d) == ToU(h.x[d.rs1] + d.imm)

ExecReg(d, h) ==
  {Put(h, d, v) : v \in RegValues(d.op, h.x[d.rs1], h.x[d.rs2])}

ExecImm(d, h) == {Put(h, d, ImmValue(d.op, h.x[d.rs1], d.imm))}

(* imm is the upper immediate in its place. *)
Lui(d, h)   == {Put(h, d, ToU(d.imm))}
Auipc(d, h) == {Put(h, d, ToU(h.pc + d.imm))}

(* Mutant: a branch that is taken does not tell. *)
Bug_Branch(d, h) ==
  IF Taken(d.op, h.x[d.rs1], h.x[d.rs2])
  THEN {[h EXCEPT !.pc = ToU(h.pc + d.imm)]}
  ELSE {h}

Branch(d, h) ==
  IF Taken(d.op, h.x[d.rs1], h.x[d.rs2])
  THEN {[h EXCEPT !.pc = ToU(h.pc + d.imm), !.pc_changed = TRUE]}
  ELSE {h}

Jal(d, h) ==
  {[Put(h, d, ToU(h.pc + 4)) EXCEPT !.pc = ToU(h.pc + d.imm), !.pc_changed = TRUE]}

(* Mutant: the link is written before rs1 is read. *)
Bug_Jalr(d, h) ==
  LET g      == Put(h, d, ToU(h.pc + 4))
      target == ToU(g.x[d.rs1] + d.imm)
  IN  {[g EXCEPT !.pc = target - (target % 2), !.pc_changed = TRUE]}

Jalr(d, h) ==
  LET target == ToU(h.x[d.rs1] + d.imm)
  IN  {[Put(h, d, ToU(h.pc + 4)) EXCEPT !.pc = target - (target % 2),
                                        !.pc_changed = TRUE]}

Load(d, h) ==
  LET found == Read(h.ram, Address(h, d), Width(d.op))
  IN  IF found = {} THEN Failed(h)
      ELSE {Put(h, d, Extended(d.op, b)) : b \in found}

Store(d, h) ==
  IF Writable(Address(h, d), Width(d.op))
  THEN {[h EXCEPT !.ram = Written(h.ram, Address(h, d), Width(d.op), h.x[d.rs2])]}
  ELSE Failed(h)

RegOps    == {"add", "sub", "sll", "slt", "sltu", "xor", "srl", "sra", "or", "and"}
ImmOps    == {"addi", "slti", "sltiu", "xori", "ori", "andi", "slli", "srli", "srai"}
BranchOps == {"beq", "bne", "blt", "bge", "bltu", "bgeu"}
LoadOps   == {"lb", "lh", "lw", "lbu", "lhu"}
StoreOps  == {"sb", "sh", "sw"}
IdleOps   == {"fence", "fencei", "ecall", "ebreak"}   \* handlers that do nothing

(* RV32I::exec, on a decoded instruction. *)
Exec(d, h) ==
  CASE d.op \in RegOps    -> ExecReg(d, h)
    [] d.op \in ImmOps    -> ExecImm(d, h)
    [] d.op = "lui"       -> Lui(d, h)
    [] d.op = "auipc"     -> Auipc(d, h)
    [] d.op \in BranchOps -> Branch(d, h)
    [] d.op = "jal"       -> Jal(d, h)
    [] d.op = "jalr"      -> Jalr(d, h)
    [] d.op \in LoadOps   -> Load(d, h)
    [] d.op \in StoreOps  -> Store(d, h)
    [] d.op \in IdleOps   -> {h}
    [] OTHER              -> Failed(h)
=============================================================================
