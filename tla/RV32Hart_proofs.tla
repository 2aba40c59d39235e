-------------------------- MODULE RV32Hart_proofs --------------------------
(***************************************************************************)
(* What the run loop keeps for every word size, guest program, memory map, *)
(* number of registers and order of the instruction sets, and that it      *)
(* implements the abstract machine of RVIsa.  The first part follows from  *)
(* what a handler may leave behind (HandlerEffect): either it fails and    *)
(* has changed nothing but err, or it has moved pc and said so, or it has  *)
(* left pc alone.  The types and the refinement rest on the arithmetic of  *)
(* words as well, which is in RV32IExec_proofs.                            *)
(***************************************************************************)
EXTENDS RV32Hart, RV32IExec_proofs

(* The state a handler starts from; Entry is one of these.                 *)
Start(a, p, c, m) ==
  [x |-> a, pc |-> p, pc_changed |-> FALSE, csrs |-> c, ram |-> m, err |-> FALSE]

(* What may become of it. *)
Effect(h, g) ==
  /\ g.err \in BOOLEAN /\ g.pc_changed \in BOOLEAN
  /\ DOMAIN g.csrs = DOMAIN h.csrs
  /\ ~g.pc_changed => g.pc = h.pc
  /\ g.err => g.x = h.x /\ g.pc = h.pc /\ g.csrs = h.csrs /\ g.ram = h.ram

LEMMA FailedEffect ==
  ASSUME NEW a, NEW p, NEW c, NEW m, NEW g \in Failed(Start(a, p, c, m))
  PROVE  Effect(Start(a, p, c, m), g)
BY DEF Failed, Effect, Start

LEMMA PutEffect ==
  ASSUME NEW a, NEW p, NEW c, NEW m, NEW d, NEW v
  PROVE  Effect(Start(a, p, c, m), Put(Start(a, p, c, m), d, v))
BY DEF Put, Effect, Start

(* The handlers that only write rd. *)
LEMMA ComputeEffect ==
  ASSUME NEW a, NEW p, NEW c, NEW m, NEW d,
         NEW g \in ExecReg(d, Start(a, p, c, m)) \cup ExecImm(d, Start(a, p, c, m))
                     \cup Lui(d, Start(a, p, c, m)) \cup Auipc(d, Start(a, p, c, m))
  PROVE  Effect(Start(a, p, c, m), g)
<1>1. \E v : g = Put(Start(a, p, c, m), d, v)
  BY DEF ExecReg, ExecImm, Lui, Auipc
<1>2. PICK v : g = Put(Start(a, p, c, m), d, v)
  BY <1>1
<1> QED
  BY <1>2, PutEffect

(* The handlers that move pc. *)
LEMMA ControlEffect ==
  ASSUME NEW a, NEW p, NEW c, NEW m, NEW d,
         NEW g \in Branch(d, Start(a, p, c, m)) \cup Jal(d, Start(a, p, c, m))
                     \cup Jalr(d, Start(a, p, c, m))
  PROVE  Effect(Start(a, p, c, m), g)
<1> DEFINE h == Start(a, p, c, m)
<1>1. CASE g \in Branch(d, h)
  <2>1. g = h \/ \E t : g = [h EXCEPT !.pc = t, !.pc_changed = TRUE]
    BY <1>1 DEF Branch
  <2>2. CASE g = h
    BY <2>2 DEF Effect, Start
  <2>3. CASE \E t : g = [h EXCEPT !.pc = t, !.pc_changed = TRUE]
    BY <2>3 DEF Effect, Start
  <2> QED
    BY <2>1, <2>2, <2>3
<1>2. CASE g \in Jal(d, h) \cup Jalr(d, h)
  <2>1. \E v, t : g = [Put(h, d, v) EXCEPT !.pc = t, !.pc_changed = TRUE]
    BY <1>2 DEF Jal, Jalr
  <2>2. PICK v, t : g = [Put(h, d, v) EXCEPT !.pc = t, !.pc_changed = TRUE]
    BY <2>1
  <2> QED
    BY <2>2 DEF Effect, Put, Start
<1> QED
  BY <1>1, <1>2

(* The handlers that reach the memory. *)
LEMMA MemoryEffect ==
  ASSUME NEW a, NEW p, NEW c, NEW m, NEW d,
         NEW g \in Load(d, Start(a, p, c, m)) \cup Store(d, Start(a, p, c, m))
  PROVE  Effect(Start(a, p, c, m), g)
<1> DEFINE h == Start(a, p, c, m)
<1>1. CASE g \in Failed(h)
  BY <1>1, FailedEffect
<1>2. CASE g \in Load(d, h) /\ g \notin Failed(h)
  <2>1. \E v : g = Put(h, d, v)
    BY <1>2 DEF Load
  <2>2. PICK v : g = Put(h, d, v)
    BY <2>1
  <2> QED
    BY <2>2, PutEffect
<1>3. CASE g \in Store(d, h) /\ g \notin Failed(h)
  <2>1. \E n : g = [h EXCEPT !.ram = n]
    BY <1>3 DEF Store
  <2> QED
    BY <2>1 DEF Effect, Start
<1> QED
  BY <1>1, <1>2, <1>3

(* The handlers of RV32Zicsr: the CSR that is written exists before.       *)
LEMMA CsrEffect ==
  ASSUME NEW a, NEW p, NEW c, NEW m, NEW d
  PROVE  Effect(Start(a, p, c, m), CsrExec(d, Start(a, p, c, m)))
<1> DEFINE h == Start(a, p, c, m)
<1>1. CASE CsrExec(d, h) \in Failed(h)
  BY <1>1, FailedEffect
<1>2. CASE CsrExec(d, h) \notin Failed(h)
  <2>1. \E w, y : CsrExec(d, h) = [h EXCEPT !.csrs[d.imm] = w, !.x = y]
    <3>1. CASE d.op \in {"csrrw", "csrrwi"}
      BY <1>2, <3>1 DEF CsrExec, Failed, Swap
    <3>2. CASE d.op \in {"csrrs", "csrrsi"}
      BY <1>2, <3>2 DEF CsrExec, Failed, Update
    <3>3. CASE d.op \in {"csrrc", "csrrci"}
      BY <1>2, <3>3 DEF CsrExec, Failed, Update
    <3> QED
      BY <1>2, <3>1, <3>2, <3>3 DEF CsrExec, Failed
  <2>2. PICK w, y : CsrExec(d, h) = [h EXCEPT !.csrs[d.imm] = w, !.x = y]
    BY <2>1
  <2> QED
    BY <2>2 DEF Effect, Start
<1> QED
  BY <1>1, <1>2

(* The lemma the theorems rest on: whatever set takes the instruction.     *)
LEMMA HandlerEffect ==
  ASSUME NEW d, NEW g \in InstExec(d, Entry)
  PROVE  Effect(Entry, g)
<1> DEFINE e == [x EXCEPT ![0] = 0]
           h == Start(e, pc, csrs, ram)
<1>1. Entry = h
  BY DEF Entry, Start
<1>2. g \in Exec(d, h) \cup Failed(h) \cup {CsrExec(d, h)}
  BY <1>1 DEF InstExec
<1> HIDE DEF e
<1>3. CASE g \in Exec(d, h)
  <2>1. g \in ExecReg(d, h) \cup ExecImm(d, h) \cup Lui(d, h) \cup Auipc(d, h)
          \cup Branch(d, h) \cup Jal(d, h) \cup Jalr(d, h)
          \cup Load(d, h) \cup Store(d, h) \cup {h} \cup Failed(h)
    BY <1>3 DEF Exec
  <2>2. Effect(h, h)
    BY DEF Effect, Start
  <2> QED
    BY <1>1, <2>1, <2>2, ComputeEffect, ControlEffect, MemoryEffect, FailedEffect
<1> QED
  BY <1>1, <1>2, <1>3, FailedEffect, CsrEffect
-----------------------------------------------------------------------------
(* Only a handler that says so moves pc, whichever set it belongs to, for  *)
(* every guest program and also over restarts, set_start_addr and          *)
(* set_compress in between: run()'s comparison of pc with pc_prv never     *)
(* decides alone.                                                          *)
THEOREM JumpsMarked == Spec => []JumpsAreMarked
<1>1. Init => JumpsAreMarked
  BY DEF Init, JumpsAreMarked
<1>2. JumpsAreMarked /\ [Next]_vars => JumpsAreMarked'
  <2> SUFFICES ASSUME JumpsAreMarked, [Next]_vars
               PROVE  JumpsAreMarked'
    OBVIOUS
  <2>1. ASSUME NEW d \in Insts, ExecInst(d)
        PROVE  JumpsAreMarked'
    <3>1. PICK g \in InstExec(d, Entry) :
            /\ pc' = g.pc /\ pc_changed' = g.pc_changed
            /\ \/ phase' = "left"
               \/ pc_prv' = pc
      BY <2>1 DEF ExecInst
    <3>2. ~g.pc_changed => g.pc = Entry.pc
      BY HandlerEffect DEF Effect
    <3> QED
      BY <3>1, <3>2 DEF JumpsAreMarked, Entry
  <2>2. CASE CheckExit \/ FetchFail \/ FetchZero
    BY <2>2 DEF CheckExit, FetchFail, FetchZero, Leave, JumpsAreMarked
  <2>3. CASE Advance \/ Restart
    BY <2>3 DEF Advance, Restart, JumpsAreMarked
  <2>4. CASE SetStartAddr \/ SetCompress
    BY <2>4 DEF SetStartAddr, SetCompress, JumpsAreMarked
  <2>5. CASE UNCHANGED vars
    BY <2>5 DEF vars, guest, JumpsAreMarked
  <2> QED
    BY <2>1, <2>2, <2>3, <2>4, <2>5 DEF Next
<1> QED
  BY <1>1, <1>2, PTL DEF Spec

(* An instruction that fails leaves nothing of itself behind: a run that   *)
(* ended so may be started again on it.                                    *)
THEOREM FaultClean == Spec => FaultIsClean
<1> DEFINE Clean == /\ UNCHANGED <<pc, csrs, ram>>
                    /\ \A r \in Registers \ {0} : x'[r] = x[r]
<1>1. ASSUME Next, phase = "check", phase' = "left"
      PROVE  Clean
  <2>1. ASSUME NEW d \in Insts, ExecInst(d)
        PROVE  Clean
    <3>1. PICK g \in InstExec(d, Entry) :
            /\ x' = g.x /\ pc' = g.pc /\ csrs' = g.csrs /\ ram' = g.ram
            /\ ~g.err => phase' = "advance"
      BY <2>1 DEF ExecInst
    <3>2. g.x = Entry.x /\ g.pc = Entry.pc /\ g.csrs = Entry.csrs /\ g.ram = Entry.ram
      BY <1>1, <3>1, HandlerEffect DEF Effect
    <3> QED
      BY <3>1, <3>2 DEF Entry
  <2>2. CASE Leave
    BY <2>2 DEF Leave, guest
  <2> QED
    BY <1>1, <2>1, <2>2 DEF Next, CheckExit, FetchFail, FetchZero, Advance,
         Restart, SetStartAddr, SetCompress
<1>2. [Next]_vars => [phase = "check" /\ phase' = "left" => Clean]_vars
  BY <1>1 DEF vars
<1> QED
  BY <1>2, PTL DEF Spec, FaultIsClean
-----------------------------------------------------------------------------
(* Types: what a handler leaves behind is a state of the machine again.    *)

(* A state a handler works on. *)
Machine(h) ==
  /\ h.x \in [Registers -> Word] /\ h.pc \in Word
  /\ h.csrs \in [CsrAddrs -> Word] /\ h.ram \in Ram

LEMMA PutTyped ==
  ASSUME NEW a, NEW p, NEW c, NEW m, Machine(Start(a, p, c, m)), NEW d, NEW v \in Word
  PROVE  Machine(Put(Start(a, p, c, m), d, v))
BY DEF Machine, Put, Start

LEMMA AddressTyped ==
  ASSUME NEW a \in [Registers -> Word], NEW r \in Registers, NEW n \in Int
  PROVE  a[r] + n \in Int /\ ToU(a[r] + n) \in Word
<1>1. a[r] \in Int
  BY WordNumbers
<1> QED
  BY <1>1, ToUWord

LEMMA ComputeTyped ==
  ASSUME NEW a, NEW p, NEW c, NEW m, Machine(Start(a, p, c, m)), NEW d \in Insts,
         NEW g \in Exec(d, Start(a, p, c, m)),
         d.op \in RegOps \cup ImmOps \cup {"lui", "auipc"}
  PROVE  Machine(g)
<1> DEFINE h == Start(a, p, c, m)
<1>1. /\ h.x \in [Registers -> Word] /\ h.pc \in Word /\ h.pc \in Int
      /\ Fields(d)
  BY HartAssumption, WordNumbers DEF Machine
<1>2. \E v \in Word : g = Put(h, d, v)
  <2>1. CASE d.op \in RegOps
    <3>1. h.x[d.rs1] \in Word /\ h.x[d.rs2] \in Word
      BY <1>1, <2>1 DEF Fields, RegOps, CsrImmOps
    <3>2. RegValues(d.op, h.x[d.rs1], h.x[d.rs2]) \subseteq Word
      BY <2>1, <3>1, RegValuesWord
    <3>3. g \in ExecReg(d, h)
      BY <2>1, HandlerOf
    <3> QED
      BY <3>2, <3>3 DEF ExecReg
  <2>2. CASE d.op \in ImmOps
    <3>1. h.x[d.rs1] \in Word /\ ImmFits(d.op, d.imm)
      BY <1>1, <2>2 DEF Fields, ImmOps, CsrImmOps, ImmFits
    <3>2. ImmValue(d.op, h.x[d.rs1], d.imm) \in Word
      BY <2>2, <3>1, ImmValueWord
    <3>3. g \in ExecImm(d, h)
      BY <2>2, HandlerOf
    <3> QED
      BY <3>2, <3>3 DEF ExecImm
  <2>3. CASE d.op = "lui"
    <3>1. g \in Lui(d, h) /\ ToU(d.imm) \in Word
      BY <1>1, <2>3, HandlerOf, ToUWord DEF Fields
    <3> QED
      BY <3>1 DEF Lui
  <2>4. CASE d.op = "auipc"
    <3>1. g \in Auipc(d, h) /\ ToU(h.pc + d.imm) \in Word
      BY <1>1, <2>4, HandlerOf, ToUWord DEF Fields
    <3> QED
      BY <3>1 DEF Auipc
  <2> QED
    BY <2>1, <2>2, <2>3, <2>4
<1> QED
  BY <1>2, PutTyped

LEMMA ControlTyped ==
  ASSUME NEW a, NEW p, NEW c, NEW m, Machine(Start(a, p, c, m)), NEW d \in Insts,
         NEW g \in Exec(d, Start(a, p, c, m)), d.op \in BranchOps \cup {"jal", "jalr"}
  PROVE  Machine(g)
<1> DEFINE h == Start(a, p, c, m)
<1>1. /\ h.x \in [Registers -> Word] /\ h.pc \in Int
      /\ d.imm \in Int /\ d.rs1 \in Registers
  BY HartAssumption, WordNumbers DEF Machine, Fields, BranchOps, CsrImmOps
<1>2. \A n \in Int : ToU(h.pc + n) \in Word
  BY <1>1, ToUWord
<1>3. CASE d.op \in BranchOps
  <2>1. g \in Branch(d, h)
    BY <1>3, HandlerOf
  <2>2. g = h \/ g = [h EXCEPT !.pc = ToU(h.pc + d.imm), !.pc_changed = TRUE]
    BY <2>1 DEF Branch
  <2> QED
    BY <1>1, <1>2, <2>2 DEF Machine, Start
<1>4. CASE d.op \in {"jal", "jalr"}
  <2>1. \E t \in Word : g = [Put(h, d, ToU(h.pc + 4)) EXCEPT !.pc = t, !.pc_changed = TRUE]
    <3>1. CASE d.op = "jal"
      <4>1. g \in Jal(d, h)
        BY <3>1, HandlerOf
      <4> QED
        BY <1>1, <1>2, <4>1 DEF Jal
    <3>2. CASE d.op = "jalr"
      <4> DEFINE t == ToU(h.x[d.rs1] + d.imm)
      <4>1. g \in Jalr(d, h)
        BY <3>2, HandlerOf
      <4>2. t - (t % 2) \in Word
        BY <1>1, AddressTyped, EvenWord
      <4> QED
        BY <4>1, <4>2 DEF Jalr
    <3> QED
      BY <1>4, <3>1, <3>2
  <2>2. Machine(Put(h, d, ToU(h.pc + 4)))
    BY <1>2, PutTyped
  <2> QED
    BY <2>1, <2>2 DEF Machine, Put, Start
<1> QED
  BY <1>3, <1>4

(* What SumsFit is for. *)
LEMMA OffsetFits ==
  ASSUME SumsFit, NEW a \in Word, Device(a) = "ram"
  PROVE  Offset(a) + 4 < 2^XLEN
BY OffsetInRegion DEF SumsFit

LEMMA MemoryTyped ==
  ASSUME SumsFit,
         NEW a, NEW p, NEW c, NEW m, Machine(Start(a, p, c, m)), NEW d \in Insts,
         NEW g \in Exec(d, Start(a, p, c, m)), d.op \in LoadOps \cup StoreOps
  PROVE  Machine(g)
<1> DEFINE h    == Start(a, p, c, m)
           addr == Address(h, d)
           n    == Width(d.op)
<1>1. /\ h.x \in [Registers -> Word] /\ h.ram \in Ram /\ d.imm \in Int
      /\ d.rs1 \in Registers /\ d.rs2 \in Registers
  BY HartAssumption DEF Machine, Fields, LoadOps, StoreOps, CsrImmOps
<1>2. addr \in Word /\ n \in {1, 2, 4} /\ h.x[d.rs2] \in Word
  BY <1>1, AddressTyped DEF Address, Width, LoadOps, StoreOps
<1> HIDE DEF addr, n
<1>3. CASE g \in Failed(h)
  BY <1>3 DEF Failed, Machine, Start
<1>4. CASE d.op \in LoadOps /\ g \notin Failed(h)
  <2>1. g \in Load(d, h)
    BY <1>4, HandlerOf
  <2>2. PICK b \in Read(h.ram, addr, n) : g = Put(h, d, Extended(d.op, b))
    BY <1>4, <2>1 DEF Load, addr, n
  <2>3. b \in [0..(n - 1) -> Byte]
    BY <1>1, <1>2, ReadBytes
  <2>4. Extended(d.op, b) \in Word
    BY <1>4, <2>3, ExtendedWord DEF n
  <2> QED
    BY <2>2, <2>4, PutTyped
<1>5. CASE d.op \in StoreOps /\ g \notin Failed(h)
  <2>1. g \in Store(d, h)
    BY <1>5, HandlerOf
  <2>2. /\ Writable(addr, n)
        /\ g = [h EXCEPT !.ram = Written(h.ram, addr, n, h.x[d.rs2])]
    BY <1>5, <2>1 DEF Store, addr, n
  <2>3. Offset(addr) + 4 < 2^XLEN
    BY <1>2, <2>2, OffsetFits DEF Writable
  <2>4. Written(h.ram, addr, n, h.x[d.rs2]) \in Ram
    BY <1>1, <1>2, <2>2, <2>3, WrittenBytes
  <2> QED
    BY <2>2, <2>4 DEF Machine, Start
<1> QED
  BY <1>3, <1>4, <1>5

LEMMA CsrTyped ==
  ASSUME NEW a, NEW p, NEW c, NEW m, Machine(Start(a, p, c, m)), NEW d \in Insts,
         d.op \in CsrOps
  PROVE  Machine(CsrExec(d, Start(a, p, c, m)))
<1> DEFINE h   == Start(a, p, c, m)
           old == h.csrs[d.imm]
           v   == Operand(d, h)
<1>1. /\ h.x \in [Registers -> Word] /\ h.csrs \in [CsrAddrs -> Word]
      /\ Fields(d)
  BY HartAssumption DEF Machine
<1>2. v \in Word
  BY <1>1 DEF Operand, Fields
<1>3. CASE Denied(d, h)
  BY <1>3 DEF CsrExec, Machine, Start
<1>4. CASE ~Denied(d, h)
  <2>1. d.imm \in CsrAddrs /\ old \in Word
    BY <1>1, <1>4 DEF Denied
  <2>2. /\ d.op \in {"csrrs", "csrrsi"} => Or(old, v) \in Word
        /\ d.op \in {"csrrc", "csrrci"} => AndNot(old, v) \in Word
    BY WordOfWord DEF Or, And, AndNot
  <2>3. \/ CsrExec(d, h) = Swap(d, h)
        \/ \E w \in Word : CsrExec(d, h) = Update(d, h, w)
        \/ CsrExec(d, h) = [h EXCEPT !.err = TRUE]
    BY <1>4, <2>2 DEF CsrExec
  <2>4. Machine(Swap(d, h))
    BY <1>1, <1>2, <2>1 DEF Swap, Machine, Start
  <2>5. \A w \in Word : Machine(Update(d, h, w))
    BY <1>1, <2>1 DEF Update, Machine, Start
  <2> QED
    BY <2>3, <2>4, <2>5 DEF Machine, Start
<1> QED
  BY <1>3, <1>4

LEMMA HandlerTyped ==
  ASSUME SumsFit, TypeOK, NEW d \in Insts, NEW g \in InstExec(d, Entry)
  PROVE  Machine(g)
<1> DEFINE e == [x EXCEPT ![0] = 0]
           h == Start(e, pc, csrs, ram)
<1>1. Entry = h
  BY DEF Entry, Start
<1>2. Machine(h)
  BY HartAssumption, WordNumbers, WordSize DEF TypeOK, Machine, Start, Ram
<1> HIDE DEF e
<1>3. \/ g \in Failed(h)
      \/ g \in Exec(d, h)
      \/ d.op \in CsrOps /\ g = CsrExec(d, h)
  <2>1. CASE Takers(d) = {}
    BY <1>1, <2>1 DEF InstExec
  <2>2. CASE Takers(d) # {}
    <3> DEFINE i == Min(Takers(d))
    <3>0. Takers(d) \subseteq Nat
      BY HartAssumption DEF Takers
    <3>1. i \in Takers(d)
      BY <2>2, <3>0, FirstRegion
    <3> HIDE DEF i
    <3> QED
      BY <1>1, <2>2, <3>1 DEF InstExec, Takers, Accepts, i
  <2> QED
    BY <2>1, <2>2
<1>4. CASE g \in Failed(h)
  BY <1>2, <1>4 DEF Failed, Machine, Start
<1>5. CASE g \in Exec(d, h) /\ g \notin Failed(h)
  <2>1. g = h \/ d.op \in RegOps \cup ImmOps \cup {"lui", "auipc", "jal", "jalr"}
                    \cup BranchOps \cup LoadOps \cup StoreOps
    BY <1>5 DEF Exec
  <2> QED
    BY <1>2, <1>5, <2>1, ComputeTyped, ControlTyped, MemoryTyped
<1>6. CASE d.op \in CsrOps /\ g = CsrExec(d, h)
  BY <1>2, <1>6, CsrTyped
<1> QED
  BY <1>3, <1>4, <1>5, <1>6

LEMMA NextPcTyped ==
  ASSUME TypeOK
  PROVE  NextPc \in Word
<1>1. pc \in Word /\ pc \in Int
  BY WordNumbers DEF TypeOK
<1>2. ToU(pc + 2) \in Word /\ ToU(pc + 4) \in Word
  BY <1>1, ToUWord
<1> QED
  BY <1>1, <1>2 DEF NextPc

(* The machine's state keeps its types: the registers, pc and the CSRs are *)
(* words and the ram holds bytes, whatever the guest computes, stores and  *)
(* reads from a rom.  No store leaves the ram: it would have brought a     *)
(* place of its own into the domain of ram (Written).  The ram may be as   *)
(* long as the sum of mem_ram allows and no longer: with one byte more     *)
(* there is a store that the wrapped sum lets through.                     *)
THEOREM Types ==
  ASSUME SumsFit
  PROVE  Spec => []TypeOK
<1>1. Init => TypeOK
  <2>1. 0 \in Word
    BY WordNumbers, WordSize
  <2> QED
    BY <2>1, HartAssumption, ByteNumbers DEF Init, TypeOK
<1>2. TypeOK /\ [Next]_vars => TypeOK'
  <2> SUFFICES ASSUME TypeOK, [Next]_vars
               PROVE  TypeOK'
    OBVIOUS
  <2>1. ASSUME NEW d \in Insts, ExecInst(d)
        PROVE  TypeOK'
    <3>1. PICK g \in InstExec(d, Entry) :
            /\ x' = g.x /\ pc' = g.pc /\ pc_changed' = g.pc_changed
            /\ csrs' = g.csrs /\ ram' = g.ram
            /\ \/ phase' = "left" /\ UNCHANGED <<pc_prv, is_compress>>
               \/ phase' = "advance" /\ pc_prv' = pc /\ is_compress' = m_comprs
      BY <2>1 DEF ExecInst
    <3>2. Machine(g)
      BY HandlerTyped
    <3>3. g.pc_changed \in BOOLEAN
      BY HandlerEffect DEF Effect
    <3>4. UNCHANGED m_comprs
      BY <2>1 DEF ExecInst
    <3> QED
      BY <3>1, <3>2, <3>3, <3>4 DEF TypeOK, Machine, Ram
  <2>2. CASE CheckExit \/ FetchFail \/ FetchZero
    BY <2>2 DEF CheckExit, FetchFail, FetchZero, Leave, guest, TypeOK
  <2>3. CASE Advance
    <3>1. 0 \in Word
      BY WordNumbers, WordSize
    <3>2. pc' \in Word
      BY <2>3, NextPcTyped DEF Advance
    <3> QED
      BY <2>3, <3>1, <3>2 DEF Advance, TypeOK
  <2>4. CASE Restart \/ SetCompress
    BY <2>4 DEF Restart, SetCompress, guest, TypeOK
  <2>5. CASE SetStartAddr
    BY <2>5, HartAssumption DEF SetStartAddr, TypeOK
  <2>6. CASE UNCHANGED vars
    BY <2>6 DEF vars, guest, TypeOK
  <2> QED
    BY <2>1, <2>2, <2>3, <2>4, <2>5, <2>6 DEF Next
<1> QED
  BY <1>1, <1>2, PTL DEF Spec
-----------------------------------------------------------------------------
(* The refinement of RVIsa.  Its words are the words of RVIsaWords.        *)

LEMMA IsaWord ==
  /\ IsaMachine!Word = Word /\ IsaMachine!XLEN = XLEN
  /\ \A n : IsaMachine!ToU(n) = ToU(n) /\ IsaMachine!ToS(n) = ToS(n)
BY DEF IsaMachine!Word, Word, IsaMachine!XLEN, XLEN, IsaMachine!ToU, ToU,
       IsaMachine!ToS, ToS

LEMMA IsaBits ==
  ASSUME NEW a, NEW b
  PROVE  /\ IsaMachine!WordOf(a) = WordOf(a) /\ IsaMachine!Bits(a) = Bits(a)
         /\ IsaMachine!And(a, b) = And(a, b)
         /\ IsaMachine!Or(a, b) = Or(a, b)
         /\ IsaMachine!Xor(a, b) = Xor(a, b)
<1>1. \A B : IsaMachine!WordOf(B) = WordOf(B)
  BY DEF IsaMachine!WordOf, WordOf, IsaMachine!XLEN, XLEN
<1>2. \A w : IsaMachine!Bits(w) = Bits(w)
  BY DEF IsaMachine!Bits, Bits, IsaMachine!XLEN, XLEN
<1> QED
  BY <1>1, <1>2 DEF IsaMachine!And, IsaMachine!Or, IsaMachine!Xor, And, Or, Xor

LEMMA IsaValues ==
  ASSUME NEW op, NEW a, NEW b
  PROVE  /\ IsaMachine!IsaReg(op, a, b) = IsaReg(op, a, b)
         /\ IsaMachine!IsaImm(op, a, b) = IsaImm(op, a, b)
         /\ IsaMachine!IsaTaken(op, a, b) <=> IsaTaken(op, a, b)
         /\ IsaMachine!IsaCsrWord(op, a, b) = IsaCsrWord(op, a, b)
<1>1. \A o, p, q : IsaMachine!IsaReg(o, p, q) = IsaReg(o, p, q)
  <2> SUFFICES ASSUME NEW o, NEW p, NEW q
               PROVE  IsaMachine!IsaReg(o, p, q) = IsaReg(o, p, q)
    OBVIOUS
  <2>1. /\ IsaMachine!IsTrue(IsaMachine!ToS(p) < IsaMachine!ToS(q)) = IsTrue(ToS(p) < ToS(q))
        /\ IsaMachine!IsTrue(p < q) = IsTrue(p < q)
    BY IsaWord DEF IsaMachine!IsTrue, IsTrue
  <2>2. /\ IsaMachine!ToU(p * 2^(q % IsaMachine!XLEN)) = ToU(p * 2^(q % XLEN))
        /\ p \div 2^(q % IsaMachine!XLEN) = p \div 2^(q % XLEN)
        /\ IsaMachine!ToU(IsaMachine!ToS(p) \div 2^(q % IsaMachine!XLEN))
             = ToU(ToS(p) \div 2^(q % XLEN))
    BY IsaWord
  <2> QED
    BY <2>1, <2>2, IsaWord, IsaBits, Zenon DEF IsaMachine!IsaReg, IsaReg
<1>2. IsaMachine!IsaImm(op, a, b) = IsaImm(op, a, b)
  BY <1>1, IsaWord DEF IsaMachine!IsaImm, IsaImm, IsaMachine!RegForm, RegForm
<1>3. IsaMachine!IsaTaken(op, a, b) <=> IsaTaken(op, a, b)
  BY <1>1 DEF IsaMachine!IsaTaken, IsaTaken
<1>4. IsaMachine!IsaCsrWord(op, a, b) = IsaCsrWord(op, a, b)
  BY IsaBits DEF IsaMachine!IsaCsrWord, IsaCsrWord
<1> QED
  BY <1>1, <1>2, <1>3, <1>4

LEMMA IsaBytes ==
  ASSUME NEW b, NEW n
  PROVE  IsaMachine!FromBytes(b, n) = FromBytes(b, n)
BY DEF IsaMachine!FromBytes, FromBytes
-----------------------------------------------------------------------------
(* A pass whose handler succeeds, as the abstract machine sees it: g is    *)
(* what the handler left behind, and pc is where the loop goes next.       *)
Size == IF m_comprs THEN 2 ELSE 4

IsaPc == IF phase = "advance" THEN NextPc ELSE pc

Completes(g) ==
  /\ phase = "check" /\ phase' = "advance"
  /\ x' = g.x /\ csrs' = g.csrs /\ ram' = g.ram
  /\ IsaPc' = IF g.pc_changed THEN g.pc ELSE ToU(pc + Size)
  /\ UNCHANGED m_comprs

LEMMA PassCompletes ==
  ASSUME NEW d, ExecInst(d)
  PROVE  \E g \in InstExec(d, Entry) :
           IF g.err THEN phase' = "left" /\ UNCHANGED <<pc_prv, is_compress>>
                         /\ x' = g.x /\ pc' = g.pc /\ csrs' = g.csrs /\ ram' = g.ram
           ELSE Completes(g)
<1>1. PICK g \in InstExec(d, Entry) :
        /\ x' = g.x /\ pc' = g.pc /\ pc_changed' = g.pc_changed
        /\ csrs' = g.csrs /\ ram' = g.ram
        /\ IF g.err THEN phase' = "left" /\ UNCHANGED <<pc_prv, is_compress>>
           ELSE phase' = "advance" /\ pc_prv' = pc /\ is_compress' = m_comprs
  BY DEF ExecInst
<1>2. CASE g.err
  BY <1>1, <1>2
<1>3. CASE ~g.err
  <2>1. ~g.pc_changed => g.pc = pc
    BY HandlerEffect DEF Effect, Entry
  <2>2. IsaPc' = IF g.pc_changed THEN g.pc ELSE ToU(pc + Size)
    BY <1>1, <1>3, <2>1 DEF IsaPc, NextPc, Size
  <2> QED
    BY <1>1, <1>3, <2>2 DEF Completes, ExecInst
<1> QED
  BY <1>2, <1>3

(* x0 reads as zero, and the other registers are as they are.              *)
LEMMA EntryReads ==
  ASSUME TypeOK, NEW r \in Registers
  PROVE  Entry.x[r] \in Word /\ IsaMachine!X(r) = Entry.x[r]
<1>1. 0 \in Word
  BY WordNumbers, WordSize
<1> QED
  BY <1>1, HartAssumption DEF TypeOK, Entry, IsaMachine!X

(* The registers that the abstract machine has, and one of them written.   *)
Visible(y) == [r \in Registers \ {0} |-> y[r]]

Retired(rd, v) == IF rd = 0 THEN Visible(x) ELSE [Visible(x) EXCEPT ![rd] = v]

LEMMA Retires ==
  ASSUME TypeOK, NEW rd \in Registers, NEW v
  PROVE  Visible([Entry.x EXCEPT ![rd] = v]) = Retired(rd, v)
<1>1. Entry.x \in [Registers -> Word] /\ \A r \in Registers \ {0} : Entry.x[r] = x[r]
  BY EntryReads, HartAssumption DEF Entry, TypeOK
<1>2. \A r \in Registers \ {0} : [Entry.x EXCEPT ![rd] = v][r] = IF r = rd THEN v ELSE x[r]
  BY <1>1
<1> QED
  BY <1>2 DEF Visible, Retired

(* A handler that writes v to rd. *)
LEMMA PutCompletes ==
  ASSUME TypeOK, NEW d \in Insts, NEW g, Completes(g), NEW v, g = Put(Entry, d, v)
  PROVE  /\ Visible(x') = Retired(d.rd, v) /\ IsaPc' = ToU(pc + Size)
         /\ UNCHANGED <<csrs, ram, m_comprs>>
<1>1. d.rd \in Registers
  BY HartAssumption DEF Fields
<1>2. /\ g.x = [Entry.x EXCEPT ![d.rd] = v] /\ ~g.pc_changed
      /\ g.csrs = csrs /\ g.ram = ram
  BY DEF Put, Entry
<1>3. Visible(g.x) = Retired(d.rd, v)
  BY <1>1, <1>2, Retires
<1> QED
  BY <1>2, <1>3 DEF Completes

(* The steps of the abstract machine, one for each shape of handler.       *)

LEMMA ComputeStep ==
  ASSUME ConformingGuest, TypeOK, NEW d \in Insts, NEW g \in Exec(d, Entry), Completes(g),
         d.op \in RegOps \cup ImmOps \cup {"lui", "auipc"},
         d.op \in {"sll", "srl"} => Entry.x[d.rs2] < XLEN
  PROVE  IsaMachine!Compute(d)
<1> DEFINE a == Entry.x[d.rs1]
           b == Entry.x[d.rs2]
<1>1. Fields(d)
  BY HartAssumption
<1>2. /\ Size = IsaMachine!Size /\ IsaPc = pc
      /\ phase = "check" /\ phase' = "advance"
  BY DEF Size, IsaMachine!Size, IsaPc, Completes
<1>3. CASE d.op \in RegOps
  <2>1. /\ a \in Word /\ IsaMachine!X(d.rs1) = a
        /\ b \in Word /\ IsaMachine!X(d.rs2) = b
    BY <1>1, <1>3, EntryReads DEF Fields, RegOps, CsrImmOps
  <2>2. RegValues(d.op, a, b) = {IsaReg(d.op, a, b)}
    BY <1>3, <2>1, RegAgrees
  <2>3. g \in ExecReg(d, Entry)
    BY <1>3, HandlerOf
  <2>4. g = Put(Entry, d, IsaReg(d.op, a, b))
    BY <2>2, <2>3 DEF ExecReg
  <2>5. IsaReg(d.op, a, b)
          = IsaMachine!IsaReg(d.op, IsaMachine!X(d.rs1), IsaMachine!X(d.rs2))
    BY <2>1, IsaValues
  <2> HIDE DEF a, b
  <2>6. /\ Visible(x') = Retired(d.rd, IsaReg(d.op, a, b)) /\ IsaPc' = ToU(pc + Size)
        /\ UNCHANGED <<csrs, ram, m_comprs>>
    BY <2>4, PutCompletes
  <2> QED
    BY <1>2, <1>3, <2>5, <2>6, IsaWord
       DEF IsaMachine!Compute, IsaMachine!Retire, RegOps, IsaPc, Visible, Retired
<1>4. CASE d.op \in ImmOps
  <2>1. a \in Word /\ IsaMachine!X(d.rs1) = a /\ ImmFits(d.op, d.imm) /\ d.op # "slti"
    BY <1>1, <1>4, EntryReads DEF Fields, ImmOps, CsrImmOps, ImmFits, ConformingGuest
  <2>2. ImmValue(d.op, a, d.imm) = IsaImm(d.op, a, d.imm)
    BY <1>4, <2>1, ImmAgrees
  <2>3. g \in ExecImm(d, Entry)
    BY <1>4, HandlerOf
  <2>4. g = Put(Entry, d, IsaImm(d.op, a, d.imm))
    BY <2>2, <2>3 DEF ExecImm
  <2>5. IsaImm(d.op, a, d.imm) = IsaMachine!IsaImm(d.op, IsaMachine!X(d.rs1), d.imm)
    BY <2>1, IsaValues
  <2>6. d.op \in DOMAIN IsaMachine!RegForm
    BY <1>4 DEF ImmOps, IsaMachine!RegForm
  <2> HIDE DEF a
  <2>7. /\ Visible(x') = Retired(d.rd, IsaImm(d.op, a, d.imm)) /\ IsaPc' = ToU(pc + Size)
        /\ UNCHANGED <<csrs, ram, m_comprs>>
    BY <2>4, PutCompletes
  <2> QED
    BY <1>2, <2>5, <2>6, <2>7, IsaWord
       DEF IsaMachine!Compute, IsaMachine!Retire, IsaPc, Visible, Retired
<1>5. CASE d.op \in {"lui", "auipc"}
  <2> DEFINE v == IF d.op = "lui" THEN ToU(d.imm) ELSE ToU(pc + d.imm)
  <2>1. g = Put(Entry, d, v)
    <3>1. d.op = "lui" => g \in Lui(d, Entry)
      BY HandlerOf
    <3>2. d.op = "auipc" => g \in Auipc(d, Entry)
      BY HandlerOf
    <3>3. Entry.pc = pc
      BY DEF Entry
    <3> QED
      BY <1>5, <3>1, <3>2, <3>3 DEF Lui, Auipc
  <2> HIDE DEF v
  <2>2. /\ Visible(x') = Retired(d.rd, v) /\ IsaPc' = ToU(pc + Size)
        /\ UNCHANGED <<csrs, ram, m_comprs>>
    BY <2>1, PutCompletes
  <2> QED
    BY <1>2, <1>5, <2>2, IsaWord
       DEF IsaMachine!Compute, IsaMachine!Retire, IsaPc, Visible, Retired, v
<1> QED
  BY <1>3, <1>4, <1>5

LEMMA JumpStep ==
  ASSUME ConformingGuest, TypeOK, NEW d \in Insts, NEW g \in Exec(d, Entry), Completes(g),
         m_comprs => d \in Compressible, d.op \in {"jal", "jalr"}
  PROVE  IsaMachine!Jump(d)
<1>1. d.imm \in Int /\ d.rs1 \in Registers /\ d.rd \in Registers
  BY HartAssumption DEF Fields, CsrImmOps
<1>2. /\ IsaMachine!Size = 4 /\ IsaPc = pc
      /\ phase = "check" /\ phase' = "advance" /\ UNCHANGED m_comprs
  BY DEF ConformingGuest, IsaMachine!Size, IsaPc, Completes
<1>3. /\ Entry.pc = pc /\ Entry.ram = ram /\ Entry.csrs = csrs
      /\ Entry.x[d.rs1] \in Word /\ IsaMachine!X(d.rs1) = Entry.x[d.rs1]
  BY <1>1, EntryReads DEF Entry
<1>4. ASSUME NEW link, NEW t,
             g = [Put(Entry, d, link) EXCEPT !.pc = t, !.pc_changed = TRUE]
      PROVE  /\ Visible(x') = Retired(d.rd, link) /\ IsaPc' = t
             /\ UNCHANGED <<csrs, ram>>
  <2>1. /\ g.pc_changed /\ g.pc = t /\ g.x = [Entry.x EXCEPT ![d.rd] = link]
        /\ g.ram = ram /\ g.csrs = csrs
    BY <1>4 DEF Put, Entry
  <2>2. Visible(g.x) = Retired(d.rd, link)
    BY <1>1, <2>1, Retires
  <2> QED
    BY <2>1, <2>2 DEF Completes
<1>5. CASE d.op = "jal"
  <2>1. g \in Jal(d, Entry)
    BY <1>5, HandlerOf
  <2>2. g = [Put(Entry, d, ToU(pc + 4)) EXCEPT !.pc = ToU(pc + d.imm), !.pc_changed = TRUE]
    BY <1>3, <2>1 DEF Jal
  <2>3. /\ Visible(x') = Retired(d.rd, ToU(pc + 4)) /\ IsaPc' = ToU(pc + d.imm)
        /\ UNCHANGED <<csrs, ram>>
    BY <1>4, <2>2
  <2> QED
    BY <1>2, <1>5, <2>3, IsaWord
       DEF IsaMachine!Jump, IsaMachine!Retire, IsaPc, Visible, Retired
<1>6. CASE d.op = "jalr"
  <2> DEFINE t == ToU(Entry.x[d.rs1] + d.imm)
             u == t - (t % 2)
  <2>1. t \in Word
    BY <1>1, <1>3, WordNumbers, ToUWord
  <2>2. u \in Word /\ ToU(u) = u
    BY <2>1, EvenWord, ToUSame
  <2>3. g \in Jalr(d, Entry)
    BY <1>6, HandlerOf
  <2>4. g = [Put(Entry, d, ToU(pc + 4)) EXCEPT !.pc = u, !.pc_changed = TRUE]
    BY <1>3, <2>3 DEF Jalr
  <2>5. t = IsaMachine!ToU(IsaMachine!X(d.rs1) + d.imm)
    BY <1>3, IsaWord
  <2> HIDE DEF t
  <2>6. /\ Visible(x') = Retired(d.rd, ToU(pc + 4)) /\ IsaPc' = ToU(u)
        /\ UNCHANGED <<csrs, ram>>
    BY <1>4, <2>2, <2>4
  <2> QED
    BY <1>2, <1>6, <2>5, <2>6, IsaWord
       DEF IsaMachine!Jump, IsaMachine!Retire, IsaPc, Visible, Retired
<1> QED
  BY <1>5, <1>6

LEMMA BranchStep ==
  ASSUME TypeOK, NEW d \in Insts, NEW g \in Exec(d, Entry), Completes(g),
         d.op \in BranchOps
  PROVE  IsaMachine!BranchTo(d)
<1> DEFINE a == Entry.x[d.rs1]
           b == Entry.x[d.rs2]
<1>1. d.rs1 \in Registers /\ d.rs2 \in Registers
  BY HartAssumption DEF Fields, BranchOps, CsrImmOps
<1>2. /\ a \in Word /\ IsaMachine!X(d.rs1) = a
      /\ b \in Word /\ IsaMachine!X(d.rs2) = b
  BY <1>1, EntryReads
<1>3. Taken(d.op, a, b) <=> IsaMachine!IsaTaken(d.op, IsaMachine!X(d.rs1), IsaMachine!X(d.rs2))
  BY <1>2, BranchAgrees, IsaValues
<1>4. g \in Branch(d, Entry) /\ Entry.pc = pc
  BY HandlerOf DEF Entry
<1>5. /\ g.x = Entry.x /\ g.ram = ram /\ g.csrs = csrs
      /\ IF Taken(d.op, a, b) THEN g.pc_changed /\ g.pc = ToU(pc + d.imm)
         ELSE ~g.pc_changed
  <2>1. CASE Taken(d.op, a, b)
    <3>1. g = [Entry EXCEPT !.pc = ToU(pc + d.imm), !.pc_changed = TRUE]
      BY <1>4, <2>1 DEF Branch
    <3> QED
      BY <2>1, <3>1 DEF Entry
  <2>2. CASE ~Taken(d.op, a, b)
    <3>1. g = Entry
      BY <1>4, <2>2 DEF Branch
    <3> QED
      BY <2>2, <3>1 DEF Entry
  <2> QED
    BY <2>1, <2>2
<1>6. IsaPc' = IsaMachine!ToU(IsaPc + IF IsaMachine!IsaTaken(d.op, IsaMachine!X(d.rs1), IsaMachine!X(d.rs2))
                                      THEN d.imm ELSE IsaMachine!Size)
  <2>1. IsaPc' = IF Taken(d.op, a, b) THEN ToU(pc + d.imm) ELSE ToU(pc + Size)
    BY <1>5 DEF Completes
  <2>2. Size = IsaMachine!Size /\ IsaPc = pc
    BY DEF Size, IsaMachine!Size, IsaPc, Completes
  <2> QED
    BY <1>3, <2>1, <2>2, IsaWord
<1>7. UNCHANGED [r \in Registers \ {0} |-> x[r]]
  BY <1>5, HartAssumption DEF Completes, Entry, TypeOK
<1>8. UNCHANGED [r \in RamAddrs |-> ram[Offset(r)]]
  BY <1>5 DEF Completes
<1> QED
  BY <1>5, <1>6, <1>7, <1>8 DEF IsaMachine!BranchTo, BranchOps, IsaPc, Completes

LEMMA IdleStep ==
  ASSUME TypeOK, NEW d \in Insts, Completes(Entry), d.op \in IdleOps
  PROVE  IsaMachine!Idle(d)
<1>1. /\ Entry.ram = ram /\ Entry.csrs = csrs /\ ~Entry.pc_changed
      /\ Size = IsaMachine!Size /\ IsaPc = pc
  BY DEF Entry, Size, IsaMachine!Size, IsaPc, Completes
<1>2. IsaPc' = IsaMachine!ToU(IsaPc + IsaMachine!Size)
  BY <1>1, IsaWord DEF Completes
<1>3. UNCHANGED [r \in Registers \ {0} |-> x[r]]
  BY HartAssumption DEF Completes, Entry, TypeOK
<1>4. UNCHANGED [r \in RamAddrs |-> ram[Offset(r)]]
  BY <1>1 DEF Completes
<1> QED
  BY <1>1, <1>2, <1>3, <1>4 DEF IsaMachine!Idle, IdleOps, IsaPc, Completes

(* An access that the ram accepts lies in RAM, byte by byte.               *)
LEMMA FootprintInRam ==
  ASSUME SumsFit, RamPlaced, NEW addr \in Word, NEW n \in {1, 2, 4},
         Writable(addr, n)
  PROVE  \A k \in 0..(n - 1) :
           /\ ToU(addr + k) = addr + k /\ addr + k \in RamAddrs
           /\ Offset(addr + k) = Offset(addr) + k
<1>1. PICK base \in Word :
        /\ RamAddrs = base..(base + RamLen - 1)
        /\ \A a \in Word : Device(a) = "ram" => Offset(a) = a - base
  BY DEF RamPlaced
<1>2. base \in Int /\ addr \in Int /\ RamLen \in Nat
  BY WordNumbers, ExecAssumption
<1>3. Offset(addr) = addr - base /\ Offset(addr) \in Nat /\ Offset(addr) + n <= RamLen
  <2>1. Device(addr) = "ram" /\ DeviceEnd(addr, n) <= RamLen
    BY DEF Writable
  <2>2. Offset(addr) \in Nat /\ Offset(addr) + 4 < 2^XLEN
    BY <2>1, DeviceOfAddress, OffsetFits
  <2> QED
    BY <1>1, <2>1, <2>2, DeviceEndFits
<1> SUFFICES ASSUME NEW k \in 0..(n - 1)
             PROVE  /\ ToU(addr + k) = addr + k /\ addr + k \in RamAddrs
                    /\ Offset(addr + k) = Offset(addr) + k
  OBVIOUS
<1>4. addr + k \in RamAddrs
  BY <1>1, <1>2, <1>3
<1>5. addr + k \in Word /\ Device(addr + k) = "ram"
  BY <1>4, HartAssumption
<1> QED
  BY <1>1, <1>2, <1>3, <1>4, <1>5, ToUSame

(* An address of RAM is that of a byte of the ram. *)
LEMMA RamOffset ==
  ASSUME NEW a \in RamAddrs
  PROVE  a \in Word /\ Device(a) = "ram" /\ Offset(a) \in 0..(RamLen - 1)
<1>1. a \in Word /\ Device(a) = "ram" /\ Offset(a) < RamLen
  BY HartAssumption
<1> QED
  BY <1>1, DeviceOfAddress, ExecAssumption

LEMMA LoadStep ==
  ASSUME SumsFit, RamPlaced, TypeOK, NEW d \in Insts, NEW g \in Exec(d, Entry), Completes(g),
         ~g.err, d.op \in LoadOps
  PROVE  IsaMachine!LoadRam(d)
<1> DEFINE n == Width(d.op)
           at == Address(Entry, d)
           bytes == RamBytes(ram, at, n)
<1>1. d.imm \in Int /\ d.rs1 \in Registers
  BY HartAssumption DEF Fields, LoadOps, CsrImmOps
<1>2. /\ Size = IsaMachine!Size /\ IsaPc = pc
      /\ phase = "check" /\ phase' = "advance"
  BY DEF Size, IsaMachine!Size, IsaPc, Completes
<1>3. Entry.x[d.rs1] \in Word /\ IsaMachine!X(d.rs1) = Entry.x[d.rs1]
  BY <1>1, EntryReads
<1>4. /\ at \in Word /\ at = IsaMachine!ToU(IsaMachine!X(d.rs1) + d.imm)
      /\ n \in {1, 2, 4} /\ n = IsaMachine!AccessBytes(d.op)
  BY <1>1, <1>3, IsaWord, WordNumbers, ToUWord
     DEF Address, Width, IsaMachine!AccessBytes, LoadOps
<1> HIDE DEF n, at
<1>5. PICK b \in Read(ram, at, n) : g = Put(Entry, d, Extended(d.op, b))
  <2>1. g \in Load(d, Entry) /\ g \notin Failed(Entry)
    BY HandlerOf DEF Failed, Entry
  <2>2. Entry.ram = ram
    BY DEF Entry
  <2> QED
    BY <2>1, <2>2 DEF Load, at, n
<1>6. ram \in Ram /\ b \in [0..(n - 1) -> Byte]
  BY <1>4, ReadBytes DEF TypeOK, Ram
<1>7. Extended(d.op, b) \in Word
  BY <1>6, ExtendedWord DEF n
<1>8. /\ Visible(x') = Retired(d.rd, Extended(d.op, b)) /\ IsaPc' = ToU(pc + Size)
      /\ UNCHANGED <<csrs, ram, m_comprs>>
  BY <1>5, PutCompletes
<1>9. CASE IsaMachine!Footprint(at, n) \subseteq RamAddrs
  <2>1. at \in RamAddrs
    <3>1. IsaMachine!ToU(at + 0) = at /\ 0 \in 0..(n - 1)
      BY <1>4, IsaWord, ToUSame, WordNumbers
    <3> QED
      BY <1>9, <3>1 DEF IsaMachine!Footprint
  <2>2. b = bytes /\ Writable(at, n)
    <3>1. Device(at) = "ram" /\ Offset(at) \in Nat
      BY <2>1, RamOffset
    <3>2. Offset(at) + 4 < 2^XLEN
      BY <1>4, <3>1, OffsetFits
    <3>3. Read(ram, at, n) = IF Offset(at) + n > RamLen THEN {} ELSE {bytes}
      BY <1>4, <3>1, <3>2, RamRead
    <3>4. ~(Offset(at) + n > RamLen) /\ b = bytes
      BY <1>5, <3>3
    <3>5. Offset(at) + n <= RamLen
      BY <1>4, <3>1, <3>4, ExecAssumption
    <3>6. DeviceEnd(at, n) <= RamLen
      BY <1>4, <3>1, <3>2, <3>5, DeviceEndFits
    <3> QED
      BY <3>1, <3>4, <3>6 DEF Writable
  <2>3. \A k \in 0..(n - 1) :
          bytes[k] = [a \in RamAddrs |-> ram[Offset(a)]][IsaMachine!ToU(at + k)]
    <3> SUFFICES ASSUME NEW k \in 0..(n - 1)
                 PROVE  ram[Offset(at) + k]
                          = [a \in RamAddrs |-> ram[Offset(a)]][IsaMachine!ToU(at + k)]
      BY DEF RamBytes
    <3> DEFINE t == at + k
    <3>1. ToU(t) = t /\ t \in RamAddrs /\ Offset(t) = Offset(at) + k
      BY <1>4, <2>2, FootprintInRam
    <3>2. IsaMachine!ToU(t) = t
      BY <3>1, IsaWord
    <3> HIDE DEF t
    <3>3. ram[Offset(at) + k] = [a \in RamAddrs |-> ram[Offset(a)]][IsaMachine!ToU(t)]
      BY <3>1, <3>2
    <3> QED
      BY <3>3 DEF t
  <2>4. [k \in 0..(n - 1) |-> [a \in RamAddrs |-> ram[Offset(a)]][IsaMachine!ToU(at + k)]]
          = bytes
    BY <2>3 DEF RamBytes
  <2>5. Extended(d.op, b) = IsaMachine!Loaded(d.op, at)
    <3> DEFINE v == FromBytes(b, n)
    <3>1. v \in Word
      BY <1>4, <1>6, FromBytesWord
    <3>2. Sext(v, n * ByteBits - 1)
            = IF v >= 2^(n * ByteBits - 1) THEN v - 2 * 2^(n * ByteBits - 1) ELSE v
      BY <1>4, <3>1, SignExtends
    <3>3. ToU(v) = v
      BY <3>1, ToUSame
    <3>4. Extended(d.op, b) = IF d.op \in {"lb", "lh"} /\ v >= 2^(n * ByteBits - 1)
                              THEN ToU(v - 2 * 2^(n * ByteBits - 1)) ELSE v
      BY <3>2, <3>3 DEF Extended, n
    <3>5. v = IsaMachine!FromBytes([k \in 0..(n - 1) |->
                [a \in RamAddrs |-> ram[Offset(a)]][IsaMachine!ToU(at + k)]], n)
      BY <2>2, <2>4, IsaBytes
    <3> QED
      BY <1>4, <3>4, <3>5, IsaWord DEF IsaMachine!Loaded
  <2> QED
    BY <1>2, <1>4, <1>8, <1>9, <2>5, IsaWord
       DEF IsaMachine!LoadRam, IsaMachine!Retire, LoadOps, IsaPc, Visible, Retired
<1>10. CASE ~(IsaMachine!Footprint(at, n) \subseteq RamAddrs)
  <2> DEFINE w == Extended(d.op, b)
  <2>1. w \in IsaMachine!Word
    BY <1>7, IsaWord
  <2> HIDE DEF w
  <2>2. IsaMachine!Retire(d, w, IsaPc + IsaMachine!Size)
    BY <1>2, <1>8, IsaWord DEF IsaMachine!Retire, IsaPc, Visible, Retired, w
  <2> QED
    BY <1>2, <1>4, <1>8, <1>10, <2>1, <2>2 DEF IsaMachine!LoadRam, LoadOps, IsaPc
<1> QED
  BY <1>9, <1>10

LEMMA StoreStep ==
  ASSUME SumsFit, RamPlaced, TypeOK, NEW d \in Insts, NEW g \in Exec(d, Entry), Completes(g),
         ~g.err, d.op \in StoreOps
  PROVE  IsaMachine!StoreRam(d)
<1> DEFINE n == Width(d.op)
           at == Address(Entry, d)
           w == Entry.x[d.rs2]
<1>1. d.imm \in Int /\ d.rs1 \in Registers /\ d.rs2 \in Registers
  BY HartAssumption DEF Fields, StoreOps, CsrImmOps
<1>2. /\ Size = IsaMachine!Size /\ IsaPc = pc
      /\ phase = "check" /\ phase' = "advance"
  BY DEF Size, IsaMachine!Size, IsaPc, Completes
<1>3. /\ Entry.x[d.rs1] \in Word /\ IsaMachine!X(d.rs1) = Entry.x[d.rs1]
      /\ w \in Word /\ IsaMachine!X(d.rs2) = w
  BY <1>1, EntryReads
<1>4. /\ at \in Word /\ at = IsaMachine!ToU(IsaMachine!X(d.rs1) + d.imm)
      /\ n \in {1, 2, 4} /\ n = IsaMachine!AccessBytes(d.op)
  BY <1>1, <1>3, IsaWord, WordNumbers, ToUWord
     DEF Address, Width, IsaMachine!AccessBytes, StoreOps
<1> HIDE DEF n, at
<1>5. Writable(at, n) /\ g = [Entry EXCEPT !.ram = Written(ram, at, n, w)]
  <2>1. g \in Store(d, Entry) /\ g \notin Failed(Entry)
    BY HandlerOf DEF Failed, Entry
  <2>2. Entry.ram = ram
    BY DEF Entry
  <2> QED
    BY <2>1, <2>2 DEF Store, at, n
<1> HIDE DEF w
<1>6. /\ x' = Entry.x /\ csrs' = csrs /\ ram' = Written(ram, at, n, w)
      /\ IsaPc' = ToU(pc + Size) /\ UNCHANGED m_comprs
  BY <1>5 DEF Completes, Entry
<1>7. Visible(x') = Visible(x)
  BY <1>6, HartAssumption DEF Visible, Entry, TypeOK
<1>8. \A k \in 0..(n - 1) :
        /\ ToU(at + k) = at + k /\ at + k \in RamAddrs
        /\ Offset(at + k) = Offset(at) + k
  BY <1>4, <1>5, FootprintInRam
<1>9. IsaMachine!Footprint(at, n) \subseteq RamAddrs
  BY <1>8, IsaWord DEF IsaMachine!Footprint
<1>10. ASSUME NEW a \in RamAddrs
       PROVE  ram'[Offset(a)]
                = IF a \in IsaMachine!Footprint(at, n)
                  THEN (w \div 2^(ByteBits * IsaMachine!ToU(a - at))) % 2^ByteBits
                  ELSE ram[Offset(a)]
  <2>1. /\ a \in Word /\ a \in Int /\ at \in Int
        /\ Offset(a) \in 0..(RamLen - 1) /\ Offset(a) \in DOMAIN ram
    BY <1>4, RamOffset, WordNumbers DEF TypeOK
  <2>2. Offset(at) \in Nat /\ Offset(a) - Offset(at) = a - at
    <3>1. PICK base \in Word : \A c \in Word : Device(c) = "ram" => Offset(c) = c - base
      BY DEF RamPlaced
    <3>2. Offset(a) = a - base /\ Offset(at) = at - base /\ base \in Int
      BY <1>4, <1>5, <2>1, <3>1, RamOffset, WordNumbers DEF Writable
    <3>3. Offset(at) \in Nat
      BY <1>4, <1>5, DeviceOfAddress DEF Writable
    <3> QED
      BY <2>1, <3>2, <3>3
  <2>3. ram'[Offset(a)] = IF Offset(a) \in Offset(at)..(Offset(at) + n - 1)
                          THEN ByteOf(w, Offset(a) - Offset(at)) ELSE ram[Offset(a)]
    <3>1. ram \in Ram /\ Offset(at) + 4 < 2^XLEN
      BY <1>4, <1>5, OffsetFits DEF TypeOK, Ram, Writable
    <3>2. ram' = RamWritten(ram, at, n, w)
      BY <1>4, <1>5, <1>6, <3>1, StoreInRam
    <3> QED
      BY <2>1, <3>2 DEF RamWritten
  <2>4. a \in IsaMachine!Footprint(at, n) <=> a - at \in 0..(n - 1)
    <3>1. a \in IsaMachine!Footprint(at, n) <=> \E k \in 0..(n - 1) : a = at + k
      BY <1>8, IsaWord DEF IsaMachine!Footprint
    <3> QED
      BY <1>4, <2>1, <3>1
  <2>5. Offset(a) \in Offset(at)..(Offset(at) + n - 1) <=> a - at \in 0..(n - 1)
    <3> DEFINE p == Offset(a)
               q == Offset(at)
               i == a - at
    <3>1. p \in Int /\ q \in Int /\ i \in Int /\ n \in Int /\ p - q = i
      BY <1>4, <2>1, <2>2
    <3> HIDE DEF p, q, i
    <3>2. p \in q..(q + n - 1) <=> i \in 0..(n - 1)
      BY <3>1
    <3> QED
      BY <3>2 DEF p, q, i
  <2>6. a - at \in 0..(n - 1) => IsaMachine!ToU(a - at) = a - at
    <3>1. ASSUME a - at \in 0..(n - 1) PROVE a - at \in Word
      BY <1>4, <3>1, WordNumbers, WordSize
    <3> QED
      BY <3>1, IsaWord, ToUSame
  <2>7. CASE a - at \in 0..(n - 1)
    BY <2>2, <2>3, <2>4, <2>5, <2>6, <2>7 DEF ByteOf
  <2>8. CASE a - at \notin 0..(n - 1)
    BY <2>3, <2>4, <2>5, <2>8
  <2> QED
    BY <2>7, <2>8
<1>11. [a \in RamAddrs |-> ram'[Offset(a)]]
         = [a \in RamAddrs |-> IF a \in IsaMachine!Footprint(at, n)
              THEN (w \div 2^(ByteBits * IsaMachine!ToU(a - at))) % 2^ByteBits
              ELSE [c \in RamAddrs |-> ram[Offset(c)]][a]]
  BY <1>10
<1> QED
  BY <1>2, <1>3, <1>4, <1>6, <1>7, <1>9, <1>11, IsaWord
     DEF IsaMachine!StoreRam, StoreOps, IsaPc, Visible, w

LEMMA ExistingCsr ==
  ASSUME TypeOK, NEW c \in DOMAIN csrs
  PROVE  c \in CsrAddrs /\ csrs[c] \in Word /\ c \in CsrAddress
<1>1. csrs \in [CsrAddrs -> Word] /\ c \in CsrAddrs
  BY DEF TypeOK
<1>2. csrs[c] \in Word
  BY <1>1
<1>3. CsrAddrs \subseteq CsrAddress
  BY HartAssumption
<1>4. c \in CsrAddress
  BY <1>1, <1>3
<1> QED
  BY <1>1, <1>2, <1>4

(* An instruction that RV32Zicsr takes. *)
LEMMA CsrStep ==
  ASSUME ConformingGuest, TypeOK, NEW d \in Insts, d.op \in CsrOps,
         NEW g, g = CsrExec(d, Entry), Completes(g), ~g.err
  PROVE  IsaMachine!Csr(d)
<1> DEFINE old == csrs[d.imm]
           v   == Operand(d, Entry)
<1>1. Fields(d) /\ d.rd \in Registers
  BY HartAssumption DEF Fields
<1>2. /\ Size = IsaMachine!Size /\ IsaPc = pc
      /\ phase = "check" /\ phase' = "advance"
      /\ Entry.csrs = csrs /\ Entry.ram = ram /\ ~Entry.pc_changed /\ ~Entry.err
  BY DEF Size, IsaMachine!Size, IsaPc, Completes, Entry
<1>3. d.op \in {"csrrw", "csrrs", "csrrc", "csrrwi", "csrrsi", "csrrci"}
  BY DEF CsrOps, Named, CsrCodes, Undef
<1>4. v \in Word /\ v = IF d.op \in {"csrrwi", "csrrsi", "csrrci"} THEN d.rs1
                        ELSE IsaMachine!X(d.rs1)
  BY <1>1, EntryReads DEF Operand, Fields, CsrImmOps
<1>5. ~Denied(d, Entry)
  BY DEF CsrExec
<1>6. d.imm \in CsrAddrs /\ old \in Word /\ d.imm \in CsrAddress
  <2>1. d.imm \in DOMAIN csrs
    BY <1>2, <1>5 DEF Denied
  <2> QED
    BY <2>1, ExistingCsr
<1>7. IsaMachine!IsaCsrWrites(d) => ~IsaMachine!IsaCsrReadOnly(d.imm)
  <2>1. IsaMachine!IsaCsrWrites(d) => ~ReadOnly(d.imm)
    BY <1>3, <1>5 DEF IsaMachine!IsaCsrWrites, ConformingGuest, Denied
  <2>2. IsaMachine!IsaCsrReadOnly(d.imm) => ReadOnly(d.imm)
    <3> DEFINE i == d.imm
    <3>1. i \in 0..4095
      BY <1>6 DEF CsrAddress
    <3> HIDE DEF i
    <3>2. i >= 3072 => i \div 1024 = 3
      BY <3>1
    <3> QED
      BY <3>2 DEF i, IsaMachine!IsaCsrReadOnly, ReadOnly
  <2> QED
    BY <2>1, <2>2
<1> HIDE DEF old, v
<1> DEFINE word == IsaCsrWord(d.op, old, v)
           kept == IF IsaMachine!IsaCsrWrites(d) THEN [csrs EXCEPT ![d.imm] = word] ELSE csrs
<1>8. csrs \in [CsrAddrs -> Word]
  BY DEF TypeOK
<1>9. /\ g.csrs = kept /\ Visible(g.x) = Retired(d.rd, old)
      /\ g.ram = ram /\ ~g.pc_changed
  <2>1. CASE d.op \in {"csrrw", "csrrwi"}
    <3>1. g = Swap(d, Entry)
      BY <1>5, <2>1 DEF CsrExec
    <3>2. /\ g.csrs = [csrs EXCEPT ![d.imm] = v] /\ g.ram = ram /\ ~g.pc_changed
          /\ g.x = IF d.rd = 0 THEN Entry.x ELSE [Entry.x EXCEPT ![d.rd] = old]
      BY <1>2, <3>1 DEF Swap, Entry, old, v
    <3>3. word = v /\ IsaMachine!IsaCsrWrites(d)
      BY <2>1 DEF IsaCsrWord, IsaMachine!IsaCsrWrites
    <3>4. d.rd = 0 => Visible(Entry.x) = Visible(x)
      BY HartAssumption DEF Visible, Entry, TypeOK
    <3>5. Visible([Entry.x EXCEPT ![d.rd] = old]) = Retired(d.rd, old)
      BY <1>1, Retires
    <3> QED
      BY <3>2, <3>3, <3>4, <3>5 DEF Retired
  <2>2. CASE d.op \in {"csrrs", "csrrsi", "csrrc", "csrrci"}
    <3>1. g = Update(d, Entry, word)
      <4>1. CASE d.op \in {"csrrs", "csrrsi"}
        BY <1>2, <1>5, <4>1 DEF CsrExec, IsaCsrWord, old, v
      <4>2. CASE d.op \in {"csrrc", "csrrci"}
        <5>1. word = AndNot(old, v)
          BY <1>4, <1>6, <4>2, AndClears DEF IsaCsrWord, AndNot
        <5> QED
          BY <1>2, <1>5, <4>2, <5>1 DEF CsrExec, old, v
      <4> QED
        BY <2>2, <4>1, <4>2
    <3>2. IsaMachine!IsaCsrWrites(d) <=> d.rs1 # 0
      BY <2>2 DEF IsaMachine!IsaCsrWrites
    <3> HIDE DEF word
    <3>3. /\ g.csrs = [csrs EXCEPT ![d.imm] = IF d.rs1 = 0 THEN old ELSE word]
          /\ g.x = [Entry.x EXCEPT ![d.rd] = old] /\ g.ram = ram /\ ~g.pc_changed
      BY <1>2, <3>1 DEF Update, Entry, old
    <3>4. g.csrs = kept
      <4>1. CASE d.rs1 = 0
        <5>1. [csrs EXCEPT ![d.imm] = old] = csrs
          BY <1>8 DEF old
        <5> QED
          BY <3>2, <3>3, <4>1, <5>1
      <4>2. CASE d.rs1 # 0
        BY <3>2, <3>3, <4>2
      <4> QED
        BY <4>1, <4>2
    <3>5. Visible(g.x) = Retired(d.rd, old)
      BY <1>1, <3>3, Retires
    <3> QED
      BY <3>3, <3>4, <3>5
  <2> QED
    BY <1>3, <2>1, <2>2
<1>10. /\ csrs' = kept /\ Visible(x') = Retired(d.rd, old) /\ ram' = ram
       /\ IsaPc' = ToU(pc + Size) /\ UNCHANGED m_comprs
  BY <1>9 DEF Completes
<1>11. word = IsaMachine!IsaCsrWord(d.op, old, v)
  BY IsaValues
<1> HIDE DEF word
<1> QED
  BY <1>2, <1>3, <1>4, <1>6, <1>7, <1>10, <1>11, IsaWord
     DEF IsaMachine!Csr, IsaMachine!Retire, IsaPc, Visible, Retired, old
-----------------------------------------------------------------------------
LEMMA ExecStep ==
  ASSUME ConformingGuest, SumsFit, RamPlaced, TypeOK, NEW d \in Insts, ExecInst(d),
         d.op \in {"sll", "srl"} => Entry.x[d.rs2] < XLEN
  PROVE  IsaMachine!IsaNext
<1>1. PICK g \in InstExec(d, Entry) :
        IF g.err THEN phase' = "left" /\ UNCHANGED <<pc_prv, is_compress>>
                      /\ x' = g.x /\ pc' = g.pc /\ csrs' = g.csrs /\ ram' = g.ram
        ELSE Completes(g)
  BY PassCompletes
<1>2. phase = "check" /\ UNCHANGED m_comprs /\ (m_comprs => d \in Compressible)
  BY DEF ExecInst
<1>3. CASE g.err
  <2>1. /\ x' = Entry.x /\ pc' = pc /\ csrs' = csrs /\ ram' = ram
        /\ phase' = "left"
    BY <1>1, <1>3, HandlerEffect DEF Effect, Entry
  <2>2. [r \in Registers \ {0} |-> x'[r]] = [r \in Registers \ {0} |-> x[r]]
    BY <2>1, HartAssumption DEF Entry, TypeOK
  <2>3. IsaMachine!Halt
    BY <1>2, <2>1, <2>2 DEF IsaMachine!Halt
  <2> QED
    BY <2>3 DEF IsaMachine!IsaNext
<1>4. CASE ~g.err
  <2>0. Completes(g)
    BY <1>1, <1>4
  <2>1. \/ g \in Exec(d, Entry) /\ g \notin Failed(Entry)
        \/ d.op \in CsrOps /\ g = CsrExec(d, Entry)
    <3>1. \A h \in Failed(Entry) : h.err
      BY DEF Failed, Entry
    <3>2. CASE Takers(d) = {}
      BY <1>4, <3>1, <3>2 DEF InstExec
    <3>3. CASE Takers(d) # {}
      <4> DEFINE i == Min(Takers(d))
      <4>1. Takers(d) \subseteq Nat
        BY HartAssumption DEF Takers
      <4>2. i \in Takers(d)
        BY <3>3, <4>1, FirstRegion
      <4> HIDE DEF i
      <4> QED
        BY <1>4, <3>1, <3>3, <4>2 DEF InstExec, Takers, Accepts, i
    <3> QED
      BY <3>2, <3>3
  <2>2. \/ IsaMachine!Compute(d) \/ IsaMachine!Jump(d) \/ IsaMachine!BranchTo(d)
        \/ IsaMachine!LoadRam(d) \/ IsaMachine!StoreRam(d) \/ IsaMachine!Idle(d)
        \/ IsaMachine!Csr(d)
    <3>1. CASE g \in Exec(d, Entry) /\ g \notin Failed(Entry)
      <4>1. d.op \in RegOps \cup ImmOps \cup {"lui", "auipc", "jal", "jalr"}
                       \cup BranchOps \cup LoadOps \cup StoreOps \cup IdleOps
        BY <3>1 DEF Exec
      <4>2. d.op \in IdleOps => g = Entry
        BY <3>1, HandlerOf
      <4> QED
        BY <1>2, <1>4, <2>0, <3>1, <4>1, <4>2,
           ComputeStep, JumpStep, BranchStep, LoadStep, StoreStep, IdleStep
    <3>2. CASE d.op \in CsrOps /\ g = CsrExec(d, Entry)
      BY <1>4, <2>0, <3>2, CsrStep
    <3> QED
      BY <2>1, <3>1, <3>2
  <2>3. d \in IF m_comprs THEN Compressible ELSE Insts
    BY <1>2
  <2> QED
    BY <1>2, <2>2, <2>3 DEF IsaMachine!IsaNext
<1> QED
  BY <1>3, <1>4

(* Every other action of the loop and of the client.                       *)
LEMMA OtherStep ==
  ASSUME TypeOK, CheckExit \/ FetchFail \/ FetchZero \/ Advance
                   \/ Restart \/ SetStartAddr \/ SetCompress \/ UNCHANGED vars
  PROVE  IsaMachine!IsaNext \/ UNCHANGED IsaMachine!isaVars
<1>1. CASE CheckExit \/ FetchFail \/ FetchZero
  BY <1>1 DEF CheckExit, FetchFail, FetchZero, Leave, guest,
              IsaMachine!Halt, IsaMachine!IsaNext
<1>2. CASE Advance
  BY <1>2 DEF Advance, IsaMachine!isaVars
<1>3. CASE Restart
  BY <1>3 DEF Restart, guest, IsaMachine!Resume, IsaMachine!IsaNext
<1>4. CASE SetStartAddr
  <2>1. pc' \in IsaMachine!Word
    BY <1>4, IsaWord, HartAssumption DEF SetStartAddr
  <2>2. IsaMachine!Redirect
    BY <1>4, <2>1 DEF SetStartAddr, IsaMachine!Redirect
  <2> QED
    BY <2>2 DEF IsaMachine!IsaNext
<1>5. CASE SetCompress
  <2>1. m_comprs' \in BOOLEAN
    BY <1>5 DEF SetCompress
  <2>2. IsaMachine!Reform
    BY <1>5, <2>1 DEF SetCompress, guest, IsaMachine!Reform
  <2> QED
    BY <2>2 DEF IsaMachine!IsaNext
<1>6. CASE UNCHANGED vars
  BY <1>6 DEF vars, guest, NextPc, IsaMachine!isaVars
<1> QED
  BY <1>1, <1>2, <1>3, <1>4, <1>5, <1>6

(* For every guest that conforms, every word size, every number of         *)
(* registers, every map with one ram in it whose sums fit and every order  *)
(* of the instruction sets: a pass of the run loop is one whole instruction of    *)
(* the abstract machine, an instruction that fails and everything a client *)
(* does in between are its halts, resumptions and redirections, and the    *)
(* loop's own bookkeeping is not seen.                                     *)
THEOREM HartImplementsIsa ==
  ASSUME ConformingGuest, RamPlaced, SumsFit
  PROVE  Spec /\ ShiftsDefined => ImplementsIsa
<1> DEFINE Shifts == \A d \in Insts : d.op \in {"sll", "srl"} /\ ExecInst(d)
                                        => Entry.x[d.rs2] < XLEN
<1>1. Init => IsaMachine!IsaInit
  <2> SUFFICES ASSUME Init PROVE IsaMachine!IsaInit
    OBVIOUS
  <2>1. pc \in IsaMachine!Word
    BY IsaWord, HartAssumption DEF Init
  <2>2. [r \in Registers \ {0} |-> x[r]] = [r \in Registers \ {0} |-> 0]
    BY DEF Init
  <2>3. [a \in RamAddrs |-> ram[Offset(a)]] = [a \in RamAddrs |-> 0]
    BY RamOffset DEF Init
  <2> QED
    BY <2>1, <2>2, <2>3 DEF Init, IsaMachine!IsaInit
<1>2. TypeOK /\ [Next]_vars /\ [Shifts]_vars
        => [IsaMachine!IsaNext]_(IsaMachine!isaVars)
  <2> SUFFICES ASSUME TypeOK, [Next]_vars, [Shifts]_vars
               PROVE  IsaMachine!IsaNext \/ UNCHANGED IsaMachine!isaVars
    OBVIOUS
  <2>1. CASE UNCHANGED vars
    BY <2>1, OtherStep
  <2>2. CASE Next /\ Shifts
    <3>1. ASSUME NEW d \in Insts, ExecInst(d)
          PROVE  IsaMachine!IsaNext
      BY <2>2, <3>1, ExecStep
    <3> QED
      BY <2>2, <3>1, OtherStep DEF Next
  <2> QED
    BY <2>1, <2>2
<1>3. Spec => []TypeOK
  BY Types
<1> QED
  BY <1>1, <1>2, <1>3, PTL DEF Spec, ShiftsDefined, ImplementsIsa, IsaMachine!IsaSpec
=============================================================================
