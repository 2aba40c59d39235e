------------------------------- MODULE RVIsa -------------------------------
(***************************************************************************)
(* What a guest program may rely on: the RISC-V base integer instructions  *)
(* as an abstract machine.  Every step is one whole instruction, x0 is no  *)
(* register but the number zero, and nothing but a completed instruction   *)
(* changes what the guest can see.  The machine may halt between two       *)
(* instructions, which is all that becomes of an instruction that faults,  *)
(* and goes on where it halted, or from where it is told to.               *)
(*                                                                         *)
(* A load that is not all in RAM delivers any value: devices other than    *)
(* RAM are not part of this machine.  A CSR instruction reads and writes   *)
(* in one step, and no write reaches a CSR whose address says read-only.   *)
(***************************************************************************)
EXTENDS RVIsaWords

CONSTANTS Registers,   \* the registers, 0 among them
          Insts,       \* the instructions a guest may be made of
          RamAddrs,    \* the addresses of RAM
          CsrAddrs,    \* the addresses of the CSRs there are
          Compressible \* the instructions that have a form of two bytes

VARIABLES x,           \* the registers other than 0
          pc,
          mem,         \* the bytes of RAM
          csrs,
          short,       \* the guest is made of instructions of two bytes
          halted

isaVars == <<x, pc, mem, csrs, short, halted>>

IsaInit ==
  /\ x = [r \in Registers \ {0} |-> 0]
  /\ pc \in Word
  /\ mem = [a \in RamAddrs |-> 0]
  /\ csrs = [c \in CsrAddrs |-> 0]
  /\ short = FALSE
  /\ halted = FALSE
-----------------------------------------------------------------------------
X(r) == IF r = 0 THEN 0 ELSE x[r]

AccessBytes(op) == CASE op \in {"lb", "lbu", "sb"} -> 1
                     [] op \in {"lh", "lhu", "sh"} -> 2
                     [] op \in {"lw", "sw"}        -> 4

Footprint(addr, n) == {ToU(addr + k) : k \in 0..(n - 1)}

(* What a load of RAM delivers, the last byte the most significant.        *)
Loaded(op, addr) ==
  LET n == AccessBytes(op)
      v == FromBytes([k \in 0..(n - 1) |-> mem[ToU(addr + k)]], n)
      signBit == 2^(n * ByteBits - 1)
  IN  IF op \in {"lb", "lh"} /\ v >= signBit THEN ToU(v - 2 * signBit) ELSE v
-----------------------------------------------------------------------------
Size == IF short THEN 2 ELSE 4

Retire(d, v, next) ==
  /\ x' = IF d.rd = 0 THEN x ELSE [x EXCEPT ![d.rd] = v]
  /\ pc' = ToU(next)
  /\ UNCHANGED <<short, halted>>

Compute(d) ==
  /\ \/ d.op \in {"add", "sub", "sll", "slt", "sltu", "xor", "srl", "sra", "or", "and"}
        /\ Retire(d, IsaReg(d.op, X(d.rs1), X(d.rs2)), pc + Size)
     \/ d.op \in DOMAIN RegForm
        /\ Retire(d, IsaImm(d.op, X(d.rs1), d.imm), pc + Size)
     \/ d.op = "lui"   /\ Retire(d, ToU(d.imm), pc + Size)
     \/ d.op = "auipc" /\ Retire(d, ToU(pc + d.imm), pc + Size)
  /\ UNCHANGED <<mem, csrs>>

Jump(d) ==
  /\ \/ d.op = "jal" /\ Retire(d, ToU(pc + Size), pc + d.imm)
     \/ d.op = "jalr"
        /\ LET target == ToU(X(d.rs1) + d.imm)
           IN  Retire(d, ToU(pc + Size), target - (target % 2))
  /\ UNCHANGED <<mem, csrs>>

BranchTo(d) ==
  /\ d.op \in {"beq", "bne", "blt", "bge", "bltu", "bgeu"}
  /\ pc' = ToU(pc + IF IsaTaken(d.op, X(d.rs1), X(d.rs2)) THEN d.imm ELSE Size)
  /\ UNCHANGED <<x, mem, csrs, short, halted>>

LoadRam(d) ==
  /\ d.op \in {"lb", "lh", "lw", "lbu", "lhu"}
  /\ LET addr == ToU(X(d.rs1) + d.imm)
     IN  IF Footprint(addr, AccessBytes(d.op)) \subseteq RamAddrs
         THEN Retire(d, Loaded(d.op, addr), pc + Size)
         ELSE \E v \in Word : Retire(d, v, pc + Size)
  /\ UNCHANGED <<mem, csrs>>

StoreRam(d) ==
  /\ d.op \in {"sb", "sh", "sw"}
  /\ LET addr == ToU(X(d.rs1) + d.imm)
         n    == AccessBytes(d.op)
     IN  /\ Footprint(addr, n) \subseteq RamAddrs
         /\ mem' = [a \in RamAddrs |->
                      IF a \in Footprint(addr, n)
                      THEN (X(d.rs2) \div 2^(ByteBits * ToU(a - addr))) % 2^ByteBits
                      ELSE mem[a]]
  /\ pc' = ToU(pc + Size)
  /\ UNCHANGED <<x, csrs, short, halted>>

Idle(d) ==
  /\ d.op \in {"fence", "fencei", "ecall", "ebreak"}
  /\ pc' = ToU(pc + Size)
  /\ UNCHANGED <<x, mem, csrs, short, halted>>

Csr(d) ==
  /\ d.op \in {"csrrw", "csrrs", "csrrc", "csrrwi", "csrrsi", "csrrci"}
  /\ d.imm \in CsrAddrs
  /\ IsaCsrWrites(d) => ~IsaCsrReadOnly(d.imm)
  /\ LET v == IF d.op \in {"csrrwi", "csrrsi", "csrrci"} THEN d.rs1 ELSE X(d.rs1)
     IN  csrs' = IF IsaCsrWrites(d)
                 THEN [csrs EXCEPT ![d.imm] = IsaCsrWord(d.op, csrs[d.imm], v)]
                 ELSE csrs
  /\ Retire(d, csrs[d.imm], pc + Size)
  /\ UNCHANGED mem

Halt == ~halted /\ halted' = TRUE /\ UNCHANGED <<x, pc, mem, csrs, short>>

Resume == halted /\ halted' = FALSE /\ UNCHANGED <<x, pc, mem, csrs, short>>

Redirect == halted /\ pc' \in Word /\ UNCHANGED <<x, mem, csrs, short, halted>>

(* The guest may be given another form while the machine is halted.        *)
Reform == halted /\ short' \in BOOLEAN /\ UNCHANGED <<x, pc, mem, csrs, halted>>

IsaNext ==
  \/ /\ ~halted
     /\ \E d \in IF short THEN Compressible ELSE Insts :
                          \/ Compute(d)
                          \/ Jump(d)
                          \/ BranchTo(d)
                          \/ LoadRam(d)
                          \/ StoreRam(d)
                          \/ Idle(d)
                          \/ Csr(d)
  \/ Halt \/ Resume \/ Redirect \/ Reform

IsaSpec == IsaInit /\ [][IsaNext]_isaVars
=============================================================================
