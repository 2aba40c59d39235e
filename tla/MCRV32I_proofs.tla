--------------------------- MODULE MCRV32I_proofs ---------------------------
(***************************************************************************)
(* The pure parts of the machine against the instruction set, for every    *)
(* word of up to 32 bits.  A behaviour of MCRV32I is one case, so each     *)
(* property is a fact about the operators that one action applies; the     *)
(* arithmetic is that of RV32IExec_proofs.                                 *)
(***************************************************************************)
EXTENDS MCRV32I, RV32IExec_proofs

(* What a step may do. *)
LEMMA CaseStep ==
  ASSUME [Next]_case
  PROVE  \/ Assemble \/ PickOperands \/ PickCsr \/ PickFetch \/ PickForm
         \/ UNCHANGED case
BY DEF Next

LEMMA OperandsTyped ==
  ASSUME NEW op, NEW o \in Operands(op)
  PROVE  /\ op \in RegOps \cup BranchOps => o[1] \in Word /\ o[2] \in Word
         /\ op \in ImmOps => o[1] \in Word /\ ImmFits(op, o[2])
         /\ op \in LoadOps => o[1] \in Word
<1>1. CASE op \in RegOps \cup BranchOps
  <2>1. op \notin Shifts /\ op \notin ImmOps \ Shifts /\ op \notin LoadOps
    BY <1>1 DEF RegOps, BranchOps, Shifts, ImmOps, LoadOps
  <2>2. o \in Word \X Word
    BY <2>1 DEF Operands
  <2> QED
    BY <1>1, <2>2 DEF RegOps, BranchOps, ImmOps, LoadOps
<1>2. CASE op \in Shifts
  <2>0. op \notin ImmOps \ Shifts /\ op \notin LoadOps
    BY <1>2 DEF Shifts, LoadOps
  <2>1. o \in Word \X (0..(XLEN - 1))
    BY <1>2, <2>0 DEF Operands
  <2> QED
    BY <1>2, <2>1 DEF RegOps, BranchOps, ImmOps, LoadOps, Shifts, ImmFits
<1>3. CASE op \in ImmOps \ Shifts
  <2>0. op \notin Shifts /\ op \notin LoadOps
    BY <1>3 DEF ImmOps, LoadOps
  <2>1. o \in Word \X ((-2^(XLEN - 1))..(2^(XLEN - 1) - 1))
    BY <1>3, <2>0 DEF Operands
  <2>2. o[1] \in Word /\ o[2] \in Int
    BY <2>1
  <2> QED
    BY <1>3, <2>2 DEF RegOps, BranchOps, ImmOps, LoadOps, Shifts, ImmFits
<1>4. CASE op \in LoadOps
  <2>1. op \notin Shifts /\ op \notin ImmOps \ Shifts
    BY <1>4 DEF Shifts, ImmOps, LoadOps
  <2>2. o \in Word \X {0}
    BY <1>4, <2>1 DEF Operands
  <2> QED
    BY <1>4, <2>2 DEF RegOps, BranchOps, ImmOps, LoadOps
<1> QED
  BY <1>1, <1>2, <1>3, <1>4 DEF ImmOps, Shifts

(* For every two words each branch goes where their order, as signed or as *)
(* unsigned numbers, says.                                                 *)
THEOREM BranchesAgreeAlways == Spec => []BranchesAgree
<1>1. Init => BranchesAgree
  BY DEF Init, BranchesAgree
<1>2. BranchesAgree /\ [Next]_case => BranchesAgree'
  <2> SUFFICES ASSUME BranchesAgree, [Next]_case PROVE BranchesAgree'
    OBVIOUS
  <2>1. CASE PickOperands
    <3>0. PICK op \in Compared : \E o \in Operands(op) :
            case' = [kind |-> "value", op |-> op, a |-> o[1], b |-> o[2]]
      BY <2>1 DEF PickOperands
    <3>1. PICK o \in Operands(op) :
            case' = [kind |-> "value", op |-> op, a |-> o[1], b |-> o[2]]
      BY <3>0
    <3>2. op \in BranchOps => (Taken(op, o[1], o[2]) <=> IsaTaken(op, o[1], o[2]))
      BY OperandsTyped, BranchAgrees
    <3> QED
      BY <3>1, <3>2 DEF BranchesAgree
  <2>2. CASE Assemble \/ PickCsr \/ PickFetch \/ PickForm \/ UNCHANGED case
    <3>1. UNCHANGED case \/ case'.kind # "value"
      BY <2>2 DEF Assemble, PickCsr, PickFetch, PickForm
    <3> QED
      BY <3>1 DEF BranchesAgree
  <2> QED
    BY <2>1, <2>2, CaseStep
<1> QED
  BY <1>1, <1>2, PTL DEF Spec

(* For every two words, and every word and immediate, the word in rd is    *)
(* the one the instruction set asks for; slti is not.                      *)
THEOREM ValuesAgreeAlways ==
  ASSUME "slti" \notin Compared
  PROVE  Spec => []ValuesAgree
<1>1. Init => ValuesAgree
  BY DEF Init, ValuesAgree
<1>2. ValuesAgree /\ [Next]_case => ValuesAgree'
  <2> SUFFICES ASSUME ValuesAgree, [Next]_case PROVE ValuesAgree'
    OBVIOUS
  <2>1. CASE PickOperands
    <3>0. PICK op \in Compared : \E o \in Operands(op) :
            case' = [kind |-> "value", op |-> op, a |-> o[1], b |-> o[2]]
      BY <2>1 DEF PickOperands
    <3>1. PICK o \in Operands(op) :
            case' = [kind |-> "value", op |-> op, a |-> o[1], b |-> o[2]]
      BY <3>0
    <3>2. op \in RegOps /\ (op \in {"sll", "srl"} => o[2] < XLEN)
            => RegValues(op, o[1], o[2]) = {IsaReg(op, o[1], o[2])}
      BY OperandsTyped, RegAgrees
    <3>3. op \in ImmOps => ImmValue(op, o[1], o[2]) = IsaImm(op, o[1], o[2])
      BY OperandsTyped, ImmAgrees
    <3> QED
      BY <3>1, <3>2, <3>3 DEF ValuesAgree, Defined
  <2>2. CASE Assemble \/ PickCsr \/ PickFetch \/ PickForm \/ UNCHANGED case
    <3>1. UNCHANGED case \/ case'.kind # "value"
      BY <2>2 DEF Assemble, PickCsr, PickFetch, PickForm
    <3> QED
      BY <3>1 DEF ValuesAgree, Defined
  <2> QED
    BY <2>1, <2>2, CaseStep
<1> QED
  BY <1>1, <1>2, PTL DEF Spec
-----------------------------------------------------------------------------
(* The two sides of StoreThenLoad: what is loaded, and the word cut to the *)
(* width of the load and extended.                                         *)
Loaded(op, w) ==
  LET n == Width(op)
      ram == [i \in 0..(RamLen - 1) |-> 0]
  IN  {Extended(op, b) : b \in Read(Written(ram, 0, n, w), 0, n)}

CutAndExtended(op, w) ==
  LET n    == Width(op)
      low  == w % 2^(n * ByteBits)
      half == 2^(n * ByteBits - 1)
  IN  IF op \in {"lb", "lh"} /\ low >= half THEN ToU(low - 2 * half) ELSE low

LEMMA LoadedIsStored ==
  ASSUME NEW op \in LoadOps, NEW w \in Word
  PROVE  Loaded(op, w) = {CutAndExtended(op, w)}
<1> DEFINE n == Width(op)
           ram == [i \in 0..(RamLen - 1) |-> 0]
           bytes == BytesOf(w, n)
           low == w % 2^(n * ByteBits)
           half == 2^(n * ByteBits - 1)
<1>1. n \in {1, 2, 4}
  BY DEF Width, LoadOps
<1>2. ram \in Ram /\ 0 \in Word
  BY ByteNumbers, WordSize DEF Ram, Word
<1>3. Writable(0, n) /\ Offset(0) + 4 < 2^XLEN
  <2>1. 0 \in 0..RamLen /\ 0 < RamLen /\ 0 + n <= RamLen
    BY <1>1, CasesAssumption
  <2>2. Device(0) = "ram" /\ Offset(0) = 0
    BY <2>1, CasesAssumption
  <2>3. Offset(0) + 4 < 2^XLEN
    BY <2>2, WordSize, CasesAssumption
  <2>4. DeviceEnd(0, n) = n
    BY <1>1, <2>2, <2>3, DeviceEndFits
  <2> QED
    BY <1>1, <2>1, <2>2, <2>3, <2>4 DEF Writable
<1> HIDE DEF n, ram
<1>4. Read(Written(ram, 0, n, w), 0, n) = {bytes}
  BY <1>1, <1>2, <1>3, StoredIsRead
<1>5. FromBytes(bytes, n) = low
  BY <1>1, FromBytesOf
<1>6. low \in Word
  <2>1. \A k \in 0..(n - 1) : ByteOf(w, k) \in Byte
    <3>1. 0..(n - 1) \subseteq 0..3
      BY <1>1
    <3> QED
      BY <3>1, ByteOfByte
  <2>2. bytes \in [0..(n - 1) -> Byte]
    BY <2>1 DEF BytesOf
  <2> QED
    BY <1>1, <1>5, <2>2, FromBytesWord
<1> HIDE DEF bytes, low
<1>7. Sext(low, n * ByteBits - 1) = IF low >= half THEN low - 2 * half ELSE low
  BY <1>1, <1>6, SignExtends
<1>8. ToU(low) = low
  BY <1>6, ToUSame
<1>9. Extended(op, bytes)
        = IF op \in {"lb", "lh"} THEN ToU(Sext(low, n * ByteBits - 1)) ELSE low
  BY <1>5 DEF Extended, n
<1> HIDE DEF half
<1>10. Extended(op, bytes)
         = IF op \in {"lb", "lh"} /\ low >= half THEN ToU(low - 2 * half) ELSE low
  BY <1>7, <1>8, <1>9
<1>11. Loaded(op, w) = {Extended(op, bytes)}
  BY <1>4 DEF Loaded, n, ram
<1> QED
  BY <1>10, <1>11 DEF CutAndExtended, low, half, n

(* For every word, a load from where a store of its width wrote returns    *)
(* the word, cut to the width and extended.                                *)
THEOREM StoreThenLoadAlways == Spec => []StoreThenLoad
<1>1. Init => StoreThenLoad
  BY DEF Init, StoreThenLoad
<1>2. StoreThenLoad /\ [Next]_case => StoreThenLoad'
  <2> SUFFICES ASSUME StoreThenLoad, [Next]_case PROVE StoreThenLoad'
    OBVIOUS
  <2>1. CASE PickOperands
    <3>0. PICK op \in Compared : \E o \in Operands(op) :
            case' = [kind |-> "value", op |-> op, a |-> o[1], b |-> o[2]]
      BY <2>1 DEF PickOperands
    <3>1. PICK o \in Operands(op) :
            case' = [kind |-> "value", op |-> op, a |-> o[1], b |-> o[2]]
      BY <3>0
    <3>2. op \in LoadOps => Loaded(op, o[1]) = {CutAndExtended(op, o[1])}
      BY OperandsTyped, LoadedIsStored
    <3> QED
      BY <3>1, <3>2 DEF StoreThenLoad, Loaded, CutAndExtended
  <2>2. CASE Assemble \/ PickCsr \/ PickFetch \/ PickForm \/ UNCHANGED case
    <3>1. UNCHANGED case \/ case'.kind # "value"
      BY <2>2 DEF Assemble, PickCsr, PickFetch, PickForm
    <3> QED
      BY <3>1 DEF StoreThenLoad
  <2> QED
    BY <2>1, <2>2, CaseStep
<1> QED
  BY <1>1, <1>2, PTL DEF Spec
-----------------------------------------------------------------------------
(* The fetches.                                                            *)
BytesAt(ram, addr, n) == [k \in 0..(n - 1) |-> ram[addr + k]]

LEMMA ReadHere ==
  ASSUME NEW ram \in Ram, NEW addr \in 0..RamLen, NEW n \in {2, 4}
  PROVE  Read(ram, addr, n) = IF addr..(addr + n - 1) \subseteq DOMAIN ram
                              THEN {BytesAt(ram, addr, n)} ELSE {}
<1> DEFINE held == addr..(addr + n - 1) \subseteq DOMAIN ram
           bytes == BytesAt(ram, addr, n)
<1>1. RamLen \in Nat /\ DOMAIN ram = 0..(RamLen - 1) /\ addr \in Nat
  BY ExecAssumption DEF Ram
<1>2. held <=> addr + n <= RamLen
  <2>1. addr + n - 1 \in addr..(addr + n - 1)
    BY <1>1
  <2>2. addr..(addr + n - 1) \subseteq 0..(RamLen - 1) <=> addr + n <= RamLen
    BY <1>1, <2>1
  <2> QED
    BY <1>1, <2>2
<1> HIDE DEF held
<1>3. CASE addr < RamLen
  <2>1. Device(addr) = "ram" /\ Offset(addr) = addr
    BY <1>3, CasesAssumption
  <2>2. Read(ram, addr, n) = IF addr + n > RamLen THEN {} ELSE {bytes}
    <3>1. addr + 4 < 2^XLEN
      BY <1>1, <1>3, WordSize, CasesAssumption
    <3>2. RamBytes(ram, addr, n) = bytes
      BY <2>1 DEF RamBytes, BytesAt
    <3> HIDE DEF bytes
    <3> QED
      BY <1>1, <2>1, <3>1, <3>2, RamRead
  <2> HIDE DEF bytes
  <2>3. Read(ram, addr, n) = IF held THEN {bytes} ELSE {}
    BY <1>1, <1>2, <2>2
  <2> QED
    BY <2>3 DEF held, bytes
<1>4. CASE addr = RamLen
  <2>1. Device(addr) = "none"
    BY <1>1, <1>4, CasesAssumption
  <2>2. Read(ram, addr, n) = {}
    BY <2>1 DEF Read
  <2>3. ~held
    BY <1>1, <1>2, <1>4
  <2> QED
    BY <2>2, <2>3 DEF held
<1>5. addr < RamLen \/ addr = RamLen
  BY <1>1
<1> QED
  BY <1>3, <1>4, <1>5

(* The number in two bytes and the number in four. *)
LEMMA HalvesJoined ==
  ASSUME NEW ram \in Ram, NEW addr \in Nat, NEW n \in {2, 4}, addr + n <= RamLen
  PROVE  LET half(at) == ram[at] + ram[at + 1] * 2^ByteBits
         IN  /\ n = 2 => FromBytes(BytesAt(ram, addr, n), n) = half(addr)
             /\ n = 4 => FromBytes(BytesAt(ram, addr, n), n)
                          = Joined(half(addr), half(addr + 2))
<1> DEFINE B == 2^ByteBits
           b0 == ram[addr]
           b1 == ram[addr + 1]
<1>1. B \in Nat \ {0} /\ 2^(2 * ByteBits) = B * B /\ 2^(3 * ByteBits) = B * (B * B)
  BY BytePowers
<1>2. addr \in 0..(RamLen - 1) /\ addr + 1 \in 0..(RamLen - 1)
  BY ExecAssumption
<1>3. b0 \in Int /\ b1 \in Int
  BY <1>2, WordSize DEF Ram, Byte
<1>4. CASE n = 2
  BY <1>4 DEF FromBytes, BytesAt
<1>5. CASE n = 4
  <2> DEFINE b2 == ram[addr + 2]
             b3 == ram[addr + 3]
  <2>1. addr + 2 \in 0..(RamLen - 1) /\ addr + 3 \in 0..(RamLen - 1)
    BY <1>5, ExecAssumption
  <2>2. b2 \in Int /\ b3 \in Int
    BY <2>1, WordSize DEF Ram, Byte
  <2>3. FromBytes(BytesAt(ram, addr, n), n)
          = b0 + b1 * B + b2 * (B * B) + b3 * (B * (B * B))
    BY <1>1, <1>5 DEF FromBytes, BytesAt
  <2>4. Joined(b0 + b1 * B, b2 + b3 * B) = (b0 + b1 * B) + (b2 + b3 * B) * (B * B)
    BY <1>1 DEF Joined
  <2>5. (addr + 2) + 1 = addr + 3
    OBVIOUS
  <2> HIDE DEF B, b0, b1, b2, b3
  <2>6. (b2 + b3 * B) * (B * B) = b2 * (B * B) + b3 * (B * (B * B))
    BY <1>1, <2>2
  <2>7. b1 * B \in Int /\ b2 * (B * B) \in Int /\ b3 * (B * (B * B)) \in Int
    BY <1>1, <1>3, <2>2
  <2>8. b0 + b1 * B + b2 * (B * B) + b3 * (B * (B * B))
          = (b0 + b1 * B) + (b2 + b3 * B) * (B * B)
    BY <1>3, <2>6, <2>7
  <2> QED
    BY <1>5, <2>3, <2>4, <2>5, <2>8 DEF B, b0, b1, b2, b3
<1> QED
  BY <1>4, <1>5

(* Without a decompressor the word is fetched that is there; with one that *)
(* tells, a compressed instruction.                                        *)
LEMMA FetchedRight ==
  ASSUME NEW comprs \in {"none", "tells"}, NEW ram \in Ram, NEW addr \in 0..RamLen,
         NEW out
  PROVE  LET it == ThereIs(comprs, ram, addr)
         IN  comprs = "none" \/ (it.ok /\ it.is_compress)
               => inst_fetch(comprs, ram, addr, out) = {it}
<1> DEFINE half(at) == ram[at] + ram[at + 1] * 2^ByteBits
           held(n) == addr..(addr + n - 1) \subseteq DOMAIN ram
           bytes(n) == BytesAt(ram, addr, n)
           it == ThereIs(comprs, ram, addr)
<1>1. addr \in Nat /\ RamLen \in Nat /\ DOMAIN ram = 0..(RamLen - 1)
  BY ExecAssumption DEF Ram
<1>2. \A n \in {2, 4} : held(n) => addr + n <= RamLen
  <2> SUFFICES ASSUME NEW n \in {2, 4}, held(n) PROVE addr + n <= RamLen
    OBVIOUS
  <2>1. addr + n - 1 \in addr..(addr + n - 1)
    BY <1>1
  <2>2. addr + n - 1 \in 0..(RamLen - 1)
    BY <1>1, <2>1
  <2> QED
    BY <1>1, <2>2
<1>3. held(2) => FromBytes(bytes(2), 2) = half(addr)
  BY <1>1, <1>2, HalvesJoined
<1>4. held(4) => FromBytes(bytes(4), 4) = Joined(half(addr), half(addr + 2))
  <2>1. held(4) => addr + 4 <= RamLen
    BY <1>2
  <2> HIDE DEF held
  <2> SUFFICES ASSUME held(4)
               PROVE  FromBytes(bytes(4), 4) = Joined(half(addr), half(addr + 2))
    OBVIOUS
  <2> QED
    BY <1>1, <2>1, HalvesJoined
<1>5. /\ held(2) => Read(ram, addr, 2) = {bytes(2)}
      /\ IF held(4) THEN Read(ram, addr, 4) = {bytes(4)} ELSE Read(ram, addr, 4) = {}
  BY ReadHere
<1>6. it = IF comprs # "none" /\ held(2) /\ Compressed(half(addr))
           THEN Fetched(Expand(half(addr)), TRUE)
           ELSE IF held(4) THEN Fetched(Joined(half(addr), half(addr + 2)), FALSE)
           ELSE NotFetched
  BY DEF ThereIs
<1> HIDE DEF half, held, bytes, it
<1>7. CASE comprs = "none"
  <2>1. inst_fetch(comprs, ram, addr, out) = FetchWord(ram, addr)
    BY <1>7 DEF inst_fetch
  <2>2. CASE held(4)
    <3>1. FetchWord(ram, addr) = {Fetched(FromBytes(bytes(4), 4), FALSE)}
      BY <1>5, <2>2 DEF FetchWord
    <3> QED
      BY <1>4, <1>6, <1>7, <2>1, <2>2, <3>1 DEF it
  <2>3. CASE ~held(4)
    <3>1. FetchWord(ram, addr) = {NotFetched}
      BY <1>5, <2>3 DEF FetchWord
    <3> QED
      BY <1>6, <1>7, <2>1, <2>3, <3>1 DEF it
  <2> QED
    BY <2>2, <2>3
<1>8. CASE comprs = "tells" /\ it.ok /\ it.is_compress
  <2>1. held(2) /\ Compressed(half(addr)) /\ it = Fetched(Expand(half(addr)), TRUE)
    BY <1>6, <1>8 DEF Fetched, NotFetched
  <2>2. inst_fetch(comprs, ram, addr, out) = {FetchHalf(comprs, bytes(2), out)}
    BY <1>5, <1>8, <2>1 DEF inst_fetch
  <2>3. FetchHalf(comprs, bytes(2), out) = Fetched(Expand(half(addr)), TRUE)
    BY <1>3, <1>8, <2>1 DEF FetchHalf, ReadsAsTrue, OutAfter
  <2> QED
    BY <2>1, <2>2, <2>3 DEF it
<1> QED
  BY <1>7, <1>8 DEF it

(* For every memory and every address: what is there is fetched by a       *)
(* machine without a decompressor, and a compressed instruction by one     *)
(* whose decompressor answers what inst_fetch asks.                        *)
THEOREM FetchDeliversAlways ==
  ASSUME Comprs \subseteq {"none", "tells"}
  PROVE  Spec => []FetchDelivers
<1>1. Init => FetchDelivers
  BY DEF Init, FetchDelivers
<1>2. FetchDelivers /\ [Next]_case => FetchDelivers'
  <2> SUFFICES ASSUME FetchDelivers, [Next]_case PROVE FetchDelivers'
    OBVIOUS
  <2>1. CASE PickFetch
    <3>1. PICK c \in Comprs, ram \in [0..(RamLen - 1) -> Byte], addr \in 0..RamLen,
               out \in {0, 1} :
            case' = [kind |-> "fetch", comprs |-> c, ram |-> ram, addr |-> addr,
                     out |-> out]
      BY <2>1 DEF PickFetch
    <3>2. LET it == ThereIs(c, ram, addr)
          IN  c = "none" \/ (it.ok /\ it.is_compress)
                => inst_fetch(c, ram, addr, out) = {it}
      BY FetchedRight DEF Ram
    <3> QED
      BY <3>1, <3>2 DEF FetchDelivers, FetchCase
  <2>2. CASE Assemble \/ PickOperands \/ PickCsr \/ PickForm \/ UNCHANGED case
    <3>1. UNCHANGED case \/ case'.kind # "fetch"
      BY <2>2 DEF Assemble, PickOperands, PickCsr, PickForm
    <3> QED
      BY <3>1 DEF FetchDelivers, FetchCase
  <2> QED
    BY <2>1, <2>2, CaseStep
<1> QED
  BY <1>1, <1>2, PTL DEF Spec
-----------------------------------------------------------------------------
(* The CSR instructions.                                                   *)
LEMMA CsrOpsAre ==
  CsrOps = {"csrrw", "csrrs", "csrrc", "csrrwi", "csrrsi", "csrrci"}
BY DEF CsrOps, Named, CsrCodes, Undef

LEMMA SmallNumbers ==
  ASSUME ByteBits >= 2
  PROVE  0..31 \subseteq Word
<1> DEFINE B == 2^ByteBits
           C == B * B
<1>1. B \in Nat /\ 2^XLEN = B * (B * (B * B))
  BY BytePowers
<1>2. B >= 4
  <2> DEFINE two  == 2
             rest == ByteBits - 2
             all  == ByteBits
  <2>1. two \in 0..32 /\ rest \in 0..32 /\ two + rest <= 32 /\ all = two + rest
    BY WordSize
  <2>2. Pow(two) = 4 /\ Pow(all) = B
    BY DEF Pow
  <2> HIDE DEF two, rest, all, B
  <2>3. Pow(all) = Pow(two) * Pow(rest)
    BY <2>1, PowSum
  <2>4. Pow(rest) \in Nat \ {0}
    BY <2>1, PowType
  <2> QED
    BY <2>2, <2>3, <2>4
<1> HIDE DEF B
<1>3. C \in Nat /\ C >= 4 * B
  BY <1>1, <1>2
<1>4. B * (B * (B * B)) = C * C
  BY <1>1
<1> HIDE DEF C
<1>5. C >= 16
  BY <1>1, <1>2, <1>3
<1>6. C * C >= 16 * C
  BY <1>3, <1>5
<1> QED
  BY <1>1, <1>3, <1>4, <1>5, <1>6 DEF Word

(* What CsrAgrees says of one case. *)
CsrRight(d, w, old) ==
  LET before == [x    |-> [r \in {0, 1} |-> IF r = 0 THEN 0 ELSE w],
                 csrs |-> [c \in {d.imm} |-> old], err |-> FALSE]
      after  == CsrExec(d, before)
      v      == IF d.op \in CsrImmOps THEN d.rs1 ELSE before.x[d.rs1]
  IN  IF ReadOnly(d.imm) /\ d.op \in {"csrrsi", "csrrci"}
      THEN after = [before EXCEPT !.err = TRUE]
      ELSE (ReadOnly(d.imm) => ~IsaCsrWrites(d))
        => /\ ~after.err
           /\ after.csrs[d.imm] = IF IsaCsrWrites(d) THEN IsaCsrWord(d.op, old, v) ELSE old
           /\ after.x[1] = IF d.rd = 1 THEN old ELSE w

LEMMA CsrsRight ==
  ASSUME ByteBits >= 2, NEW d \in CsrCases, d.op \notin CsrImmOps => d.rs1 < 2,
         NEW w \in Word, NEW old \in Word
  PROVE  CsrRight(d, w, old)
<1> DEFINE before == [x    |-> [r \in {0, 1} |-> IF r = 0 THEN 0 ELSE w],
                      csrs |-> [c \in {d.imm} |-> old], err |-> FALSE]
           after  == CsrExec(d, before)
           v      == IF d.op \in CsrImmOps THEN d.rs1 ELSE before.x[d.rs1]
<1>1. d.op \in CsrOps /\ d.rd \in {0, 1} /\ d.rs1 \in {0, 1, 21, 31}
  BY DEF CsrCases
<1>2. v = Operand(d, before)
  BY DEF Operand
<1>3. v \in Word
  <2>1. d.rs1 \in Word /\ 0 \in Word
    BY <1>1, SmallNumbers
  <2>2. CASE d.op \in CsrImmOps
    BY <2>1, <2>2
  <2>3. CASE d.op \notin CsrImmOps
    <3>1. d.rs1 \in {0, 1}
      BY <1>1, <2>3
    <3> QED
      BY <2>1, <2>3, <3>1
  <2> QED
    BY <2>2, <2>3
<1>4. Denied(d, before) <=> d.op \in {"csrrsi", "csrrci"} /\ ReadOnly(d.imm)
  BY DEF Denied
<1>5. before.csrs[d.imm] = old /\ DOMAIN before.csrs = {d.imm}
  OBVIOUS
<1>6. before.x \in [{0, 1} -> Word] /\ before.x[1] = w /\ ~before.err
  BY SmallNumbers
<1>7. CASE Denied(d, before)
  <2>1. after = [before EXCEPT !.err = TRUE]
    BY <1>7 DEF CsrExec
  <2> QED
    BY <1>4, <1>7, <2>1 DEF CsrRight
<1>8. CASE ~Denied(d, before)
  <2> DEFINE word == IsaCsrWord(d.op, old, v)
  <2>1. /\ ~after.err
        /\ after.csrs[d.imm] = IF IsaCsrWrites(d) THEN word ELSE old
        /\ after.x[1] = IF d.rd = 1 THEN old ELSE w
    <3>1. CASE d.op \in {"csrrw", "csrrwi"}
      <4>1. after = Swap(d, before)
        BY <1>8, <3>1 DEF CsrExec
      <4>2. word = v /\ IsaCsrWrites(d)
        BY <3>1 DEF IsaCsrWord, IsaCsrWrites
      <4> HIDE DEF word, v, after
      <4>3. /\ ~after.err /\ after.csrs[d.imm] = v
            /\ after.x = IF d.rd = 0 THEN before.x ELSE [before.x EXCEPT ![d.rd] = old]
        BY <1>2, <1>5, <4>1 DEF Swap
      <4> QED
        BY <1>1, <1>6, <4>2, <4>3
    <3>2. CASE d.op \in {"csrrs", "csrrsi", "csrrc", "csrrci"}
      <4>1. after = Update(d, before, word)
        <5>1. CASE d.op \in {"csrrs", "csrrsi"}
          BY <1>2, <1>5, <1>8, <5>1 DEF CsrExec, IsaCsrWord
        <5>2. CASE d.op \in {"csrrc", "csrrci"}
          <6>1. word = AndNot(old, v)
            BY <1>3, <5>2, AndClears DEF IsaCsrWord, AndNot
          <6> QED
            BY <1>2, <1>5, <1>8, <5>2, <6>1 DEF CsrExec
        <5> QED
          BY <3>2, <5>1, <5>2
      <4>2. IsaCsrWrites(d) <=> d.rs1 # 0
        BY <3>2 DEF IsaCsrWrites
      <4> HIDE DEF word, v, after
      <4>3. /\ ~after.err
            /\ after.csrs[d.imm] = IF d.rs1 = 0 THEN old ELSE word
            /\ after.x = [before.x EXCEPT ![d.rd] = old]
        BY <1>5, <4>1 DEF Update
      <4> QED
        BY <1>1, <1>6, <4>2, <4>3
    <3> QED
      BY <1>1, <3>1, <3>2, CsrOpsAre
  <2> HIDE DEF after, word, v
  <2> QED
    BY <1>4, <1>8, <2>1 DEF CsrRight, after, word, v
<1> QED
  BY <1>7, <1>8

LEMMA OldWords == MCOldWords \subseteq Word
<1> DEFINE M == 2^XLEN
<1>1. M \in Nat \ {0} /\ Word = 0..(M - 1)
  BY WordSize DEF Word
<1> HIDE DEF M
<1>2. 0 \in 0..(M - 1) /\ M - 1 \in 0..(M - 1) /\ (M - 1) \div 3 \in 0..(M - 1)
  BY <1>1
<1> QED
  BY <1>1, <1>2 DEF MCOldWords, M

(* For every word in the register and a CSR: each of the six instructions  *)
(* exchanges, sets or clears, or refuses, as one step.                     *)
THEOREM CsrAgreesAlways ==
  ASSUME ByteBits >= 2
  PROVE  Spec => []CsrAgrees
<1>1. Init => CsrAgrees
  BY DEF Init, CsrAgrees
<1>2. CsrAgrees /\ [Next]_case => CsrAgrees'
  <2> SUFFICES ASSUME CsrAgrees, [Next]_case PROVE CsrAgrees'
    OBVIOUS
  <2>1. CASE PickCsr
    <3>1. PICK d \in CsrCases, w \in Word, old \in MCOldWords :
            /\ d.op \notin CsrImmOps => d.rs1 < 2
            /\ case' = [kind |-> "csr", d |-> d, a |-> w, old |-> old]
      BY <2>1 DEF PickCsr
    <3>2. CsrRight(d, w, old)
      BY <3>1, OldWords, CsrsRight
    <3> QED
      BY <3>1, <3>2 DEF CsrAgrees, CsrRight
  <2>2. CASE Assemble \/ PickOperands \/ PickFetch \/ PickForm \/ UNCHANGED case
    <3>1. UNCHANGED case \/ case'.kind # "csr"
      BY <2>2 DEF Assemble, PickOperands, PickFetch, PickForm
    <3> QED
      BY <3>1 DEF CsrAgrees
  <2> QED
    BY <2>1, <2>2, CaseStep
<1> QED
  BY <1>1, <1>2, PTL DEF Spec
-----------------------------------------------------------------------------
(* The fields of an encoded instruction.                                   *)
IFormat == IType \cup CsrOps \cup {"fence", "fencei", "ecall", "ebreak"}

LEMMA DomainOfCoding ==
  ASSUME NEW op \in DOMAIN Coding
  PROVE  op \in IFormat \cup Shifts \cup StoreOps \cup BranchOps \cup {"jal"}
                \cup UType \cup RegOps
BY CsrOpsAre DEF IFormat, IType, LoadOps, ImmOps, Shifts, StoreOps, BranchOps,
                 UType, RegOps, Coding

Funct3(op) == IF Len(Coding[op]) = 3 THEN Coding[op][3] ELSE 0

Built(op, funct7, rs2, rs1, funct3, rd) ==
  [aa |-> 3, bbb |-> Coding[op][2], cc |-> Coding[op][1], rd |-> rd,
   funct3 |-> funct3, rs1 |-> rs1, rs2 |-> rs2, funct7 |-> funct7]

(* The formats do not meet. *)
LEMMA Formats ==
  ASSUME NEW op
  PROVE  /\ op \in IFormat => op \notin Shifts \cup StoreOps \cup BranchOps \cup {"jal"}
                                          \cup UType \cup RegOps
         /\ op \in Shifts => op \notin IFormat \cup StoreOps \cup BranchOps \cup {"jal"}
                                         \cup UType \cup RegOps
         /\ op \in StoreOps => op \notin IFormat \cup Shifts \cup BranchOps \cup {"jal"}
                                           \cup UType \cup RegOps
         /\ op \in BranchOps => op \notin IFormat \cup Shifts \cup StoreOps \cup {"jal"}
                                            \cup UType \cup RegOps
         /\ op = "jal" => op \notin IFormat \cup Shifts \cup StoreOps \cup BranchOps
                                       \cup UType \cup RegOps
         /\ op \in UType => op \notin IFormat \cup Shifts \cup StoreOps \cup BranchOps
                                        \cup {"jal"} \cup RegOps
         /\ op \in RegOps => op \notin IFormat \cup Shifts \cup StoreOps \cup BranchOps
                                         \cup {"jal"} \cup UType
BY CsrOpsAre DEF IFormat, IType, LoadOps, ImmOps, Shifts, StoreOps, BranchOps,
                 UType, RegOps

LEMMA EncodedI ==
  ASSUME NEW op \in IFormat, NEW imm
  PROVE  Encode(op, imm) = Built(op, Field(imm, 5, 7), Field(imm, 0, 5), 10,
                                 Funct3(op), 21)
<1> DEFINE word == Built(op, IF op \in {"sub", "sra", "srai"} THEN 32 ELSE 0, 5, 10,
                         Funct3(op), 21)
<1>1. /\ op \notin Shifts /\ op \notin StoreOps /\ op \notin BranchOps
      /\ op # "jal" /\ op \notin UType /\ op \notin RegOps
  BY Formats
<1>2. Encode(op, imm) = [word EXCEPT !.funct7 = Field(imm, 5, 7),
                                     !.rs2 = Field(imm, 0, 5)]
  BY <1>1 DEF Encode, IFormat, Built, Funct3
<1> QED
  BY <1>2 DEF Built

LEMMA EncodedShift ==
  ASSUME NEW op \in Shifts, NEW imm
  PROVE  Encode(op, imm) = Built(op, IF op = "srai" THEN 32 ELSE 0, imm, 10, Funct3(op), 21)
<1> DEFINE word == Built(op, IF op \in {"sub", "sra", "srai"} THEN 32 ELSE 0, 5, 10,
                         Funct3(op), 21)
<1>1. /\ op \notin IFormat /\ op \notin StoreOps /\ op \notin BranchOps
      /\ op # "jal" /\ op \notin UType /\ op \notin RegOps
  BY Formats
<1>2. Encode(op, imm) = [word EXCEPT !.rs2 = imm]
  BY <1>1 DEF Encode, IFormat, Built, Funct3
<1> QED
  BY <1>2 DEF Built, Shifts

LEMMA EncodedStore ==
  ASSUME NEW op \in StoreOps, NEW imm
  PROVE  Encode(op, imm) = Built(op, Field(imm, 5, 7), 5, 10, Funct3(op), Field(imm, 0, 5))
<1> DEFINE word == Built(op, IF op \in {"sub", "sra", "srai"} THEN 32 ELSE 0, 5, 10,
                         Funct3(op), 21)
<1>1. /\ op \notin IFormat /\ op \notin Shifts /\ op \notin BranchOps
      /\ op # "jal" /\ op \notin UType /\ op \notin RegOps
  BY Formats
<1>2. Encode(op, imm) = [word EXCEPT !.funct7 = Field(imm, 5, 7),
                                     !.rd = Field(imm, 0, 5)]
  BY <1>1 DEF Encode, IFormat, Built, Funct3
<1> QED
  BY <1>2 DEF Built

LEMMA EncodedBranch ==
  ASSUME NEW op \in BranchOps, NEW imm
  PROVE  Encode(op, imm)
           = Built(op, 64 * Field(imm, 12, 1) + Field(imm, 5, 6), 5, 10, Funct3(op),
                   2 * Field(imm, 1, 4) + Field(imm, 11, 1))
<1> DEFINE word == Built(op, IF op \in {"sub", "sra", "srai"} THEN 32 ELSE 0, 5, 10,
                         Funct3(op), 21)
<1>1. /\ op \notin IFormat /\ op \notin Shifts /\ op \notin StoreOps
      /\ op # "jal" /\ op \notin UType /\ op \notin RegOps
  BY Formats
<1>2. Encode(op, imm)
        = [word EXCEPT !.funct7 = 64 * Field(imm, 12, 1) + Field(imm, 5, 6),
                       !.rd = 2 * Field(imm, 1, 4) + Field(imm, 11, 1)]
  BY <1>1 DEF Encode, IFormat, Built, Funct3
<1> QED
  BY <1>2 DEF Built

LEMMA EncodedJal ==
  ASSUME NEW imm
  PROVE  Encode("jal", imm)
           = Built("jal", 64 * Field(imm, 20, 1) + Field(imm, 5, 6),
                   2 * Field(imm, 1, 4) + Field(imm, 11, 1),
                   Field(imm, 15, 5), Field(imm, 12, 3), 21)
<1> DEFINE word == Built("jal", 0, 5, 10, Funct3("jal"), 21)
<1>1. /\ "jal" \notin IFormat /\ "jal" \notin Shifts /\ "jal" \notin StoreOps
      /\ "jal" \notin BranchOps /\ "jal" \notin UType /\ "jal" \notin RegOps
  BY Formats
<1>2. Encode("jal", imm)
        = [word EXCEPT !.funct7 = 64 * Field(imm, 20, 1) + Field(imm, 5, 6),
                       !.rs2 = 2 * Field(imm, 1, 4) + Field(imm, 11, 1),
                       !.rs1 = Field(imm, 15, 5), !.funct3 = Field(imm, 12, 3)]
  BY <1>1 DEF Encode, IFormat, Built, Funct3
<1> QED
  BY <1>2 DEF Built

LEMMA EncodedU ==
  ASSUME NEW op \in UType, NEW imm
  PROVE  Encode(op, imm)
           = Built(op, Field(imm, 13, 7), Field(imm, 8, 5), Field(imm, 3, 5),
                   Field(imm, 0, 3), 21)
<1> DEFINE word == Built(op, IF op \in {"sub", "sra", "srai"} THEN 32 ELSE 0, 5, 10,
                         Funct3(op), 21)
<1>1. /\ op \notin IFormat /\ op \notin Shifts /\ op \notin StoreOps
      /\ op \notin BranchOps /\ op # "jal" /\ op \notin RegOps
  BY Formats
<1>2. Encode(op, imm)
        = [word EXCEPT !.funct7 = Field(imm, 13, 7), !.rs2 = Field(imm, 8, 5),
                       !.rs1 = Field(imm, 3, 5), !.funct3 = Field(imm, 0, 3)]
  BY <1>1 DEF Encode, IFormat, Built, Funct3
<1> QED
  BY <1>2 DEF Built

LEMMA EncodedReg ==
  ASSUME NEW op \in RegOps, NEW imm
  PROVE  Encode(op, imm)
           = Built(op, IF op \in {"sub", "sra"} THEN 32 ELSE 0, 5, 10, Funct3(op), 21)
<1> DEFINE word == Built(op, IF op \in {"sub", "sra", "srai"} THEN 32 ELSE 0, 5, 10,
                         Funct3(op), 21)
<1>1. /\ op \notin IFormat /\ op \notin Shifts /\ op \notin StoreOps
      /\ op \notin BranchOps /\ op # "jal" /\ op \notin UType
  BY Formats
<1>2. Encode(op, imm) = word
  BY <1>1 DEF Encode, IFormat, Built, Funct3
<1> QED
  BY <1>2 DEF Built, RegOps

(* Where the base instruction set and the switches of exec() put an        *)
(* instruction.                                                            *)
LEMMA CodedI ==
  ASSUME NEW op
  PROVE  /\ op \in LoadOps =>
              /\ Coding[op][1] = 0 /\ Coding[op][2] = 0
              /\ Funct3(op) \in 0..7 /\ LoadCodes[Funct3(op) + 1] = op
         /\ op \in ImmOps \ {"srli", "srai"} =>
              /\ Coding[op][1] = 0 /\ Coding[op][2] = 4
              /\ Funct3(op) \in 0..7 \ {5} /\ ImmCodes[Funct3(op) + 1] = op
         /\ op \in {"srli", "srai"} =>
              Coding[op][1] = 0 /\ Coding[op][2] = 4 /\ Funct3(op) = 5
         /\ op = "fence" => Coding[op][1] = 0 /\ Coding[op][2] = 3 /\ Funct3(op) = 0
         /\ op = "fencei" => Coding[op][1] = 0 /\ Coding[op][2] = 3 /\ Funct3(op) = 1
         /\ op = "jalr" => Coding[op][1] = 3 /\ Coding[op][2] = 1
         /\ op \in {"ecall", "ebreak"} =>
              Coding[op][1] = 3 /\ Coding[op][2] = 4 /\ Funct3(op) = 0
<1>1. op \in LoadOps =>
         /\ Coding[op][1] = 0 /\ Coding[op][2] = 0
         /\ Funct3(op) \in 0..7 /\ LoadCodes[Funct3(op) + 1] = op
  BY DEF Coding, Funct3, LoadOps, LoadCodes
<1>2. op \in ImmOps \ {"srli", "srai"} =>
         /\ Coding[op][1] = 0 /\ Coding[op][2] = 4
         /\ Funct3(op) \in 0..7 \ {5} /\ ImmCodes[Funct3(op) + 1] = op
  BY DEF Coding, Funct3, ImmOps, ImmCodes
<1>3. op \in {"srli", "srai"} =>
         Coding[op][1] = 0 /\ Coding[op][2] = 4 /\ Funct3(op) = 5
  BY DEF Coding, Funct3
<1>4. op = "fence" => Coding[op][1] = 0 /\ Coding[op][2] = 3 /\ Funct3(op) = 0
  BY DEF Coding, Funct3
<1>5. op = "fencei" => Coding[op][1] = 0 /\ Coding[op][2] = 3 /\ Funct3(op) = 1
  BY DEF Coding, Funct3
<1>6. op = "jalr" => Coding[op][1] = 3 /\ Coding[op][2] = 1
  BY DEF Coding
<1>7. op \in {"ecall", "ebreak"} =>
         Coding[op][1] = 3 /\ Coding[op][2] = 4 /\ Funct3(op) = 0
  BY DEF Coding, Funct3
<1> QED
  BY <1>1, <1>2, <1>3, <1>4, <1>5, <1>6, <1>7

LEMMA CodedOther ==
  ASSUME NEW op
  PROVE  /\ op \in StoreOps =>
              /\ Coding[op][1] = 1 /\ Coding[op][2] = 0
              /\ Funct3(op) \in 0..7 /\ StoreCodes[Funct3(op) + 1] = op
         /\ op \in {"add", "sub"} =>
              Coding[op][1] = 1 /\ Coding[op][2] = 4 /\ Funct3(op) = 0
         /\ op \in {"srl", "sra"} =>
              Coding[op][1] = 1 /\ Coding[op][2] = 4 /\ Funct3(op) = 5
         /\ op \in RegOps \ {"add", "sub", "srl", "sra"} =>
              /\ Coding[op][1] = 1 /\ Coding[op][2] = 4
              /\ Funct3(op) \in 0..7 \ {0, 5} /\ RegCodes[Funct3(op) + 1] = op
         /\ op \in BranchOps =>
              /\ Coding[op][1] = 3 /\ Coding[op][2] = 0
              /\ Funct3(op) \in 0..7 /\ BranchCodes[Funct3(op) + 1] = op
         /\ op = "jal" => Coding[op][1] = 3 /\ Coding[op][2] = 3
         /\ op = "auipc" => Coding[op][1] = 0 /\ Coding[op][2] = 5
         /\ op = "lui" => Coding[op][1] = 1 /\ Coding[op][2] = 5
         /\ op \in CsrOps =>
              /\ Coding[op][1] = 3 /\ Coding[op][2] = 4
              /\ Funct3(op) \in {1, 2, 3, 5, 6, 7} /\ CsrCodes[Funct3(op) + 1] = op
<1>1. op \in StoreOps =>
         /\ Coding[op][1] = 1 /\ Coding[op][2] = 0
         /\ Funct3(op) \in 0..7 /\ StoreCodes[Funct3(op) + 1] = op
  BY DEF Coding, Funct3, StoreOps, StoreCodes
<1>2. op \in {"add", "sub"} =>
         Coding[op][1] = 1 /\ Coding[op][2] = 4 /\ Funct3(op) = 0
  BY DEF Coding, Funct3
<1>3. op \in {"srl", "sra"} =>
         Coding[op][1] = 1 /\ Coding[op][2] = 4 /\ Funct3(op) = 5
  BY DEF Coding, Funct3
<1>4. op \in RegOps \ {"add", "sub", "srl", "sra"} =>
         /\ Coding[op][1] = 1 /\ Coding[op][2] = 4
         /\ Funct3(op) \in 0..7 \ {0, 5} /\ RegCodes[Funct3(op) + 1] = op
  BY DEF Coding, Funct3, RegOps, RegCodes
<1>5. op \in BranchOps =>
         /\ Coding[op][1] = 3 /\ Coding[op][2] = 0
         /\ Funct3(op) \in 0..7 /\ BranchCodes[Funct3(op) + 1] = op
  BY DEF Coding, Funct3, BranchOps, BranchCodes
<1>6. op = "jal" => Coding[op][1] = 3 /\ Coding[op][2] = 3
  BY DEF Coding
<1>7. op = "auipc" => Coding[op][1] = 0 /\ Coding[op][2] = 5
  BY DEF Coding
<1>8. op = "lui" => Coding[op][1] = 1 /\ Coding[op][2] = 5
  BY DEF Coding
<1>9. op \in CsrOps =>
         /\ Coding[op][1] = 3 /\ Coding[op][2] = 4
         /\ Funct3(op) \in {1, 2, 3, 5, 6, 7} /\ CsrCodes[Funct3(op) + 1] = op
  BY CsrOpsAre DEF Coding, Funct3, CsrCodes
<1> QED
  BY <1>1, <1>2, <1>3, <1>4, <1>5, <1>6, <1>7, <1>8, <1>9

(* What the switches make of the places in a word. *)
LEMMA Decodes00 ==
  ASSUME NEW i, NEW op, i.cc = 0
  PROVE  /\ i.bbb = 0 /\ op \in LoadOps /\ LoadCodes[i.funct3 + 1] = op => Decode(i) = op
         /\ ( /\ i.bbb = 4 /\ i.funct3 # 5 /\ op \in ImmOps \ {"srli", "srai"}
              /\ ImmCodes[i.funct3 + 1] = op
              /\ (op = "slli" => Shamt(i) \in 0..31) ) => Decode(i) = op
         /\ ( /\ i.bbb = 4 /\ i.funct3 = 5 /\ Shamt(i) \in 0..31
              /\ (op = "srli" /\ i.funct7 = 0) \/ (op = "srai" /\ i.funct7 = 32) )
            => Decode(i) = op
         /\ i.bbb = 3 /\ i.funct3 = 0 => Decode(i) = "fence"
         /\ i.bbb = 3 /\ i.funct3 = 1 => Decode(i) = "fencei"
         /\ i.bbb = 5 => Decode(i) = "auipc"
<1>1. /\ i.bbb = 0 => Decode00(i) = LoadCodes[i.funct3 + 1]
      /\ i.bbb = 4 /\ i.funct3 # 5 => Decode00(i) = ImmCodes[i.funct3 + 1]
      /\ i.bbb = 4 /\ i.funct3 = 5 => Decode00(i) = ByFunct7(i, "srli", "srai")
      /\ i.bbb = 3 /\ i.funct3 = 0 => Decode00(i) = "fence"
      /\ i.bbb = 3 /\ i.funct3 = 1 => Decode00(i) = "fencei"
      /\ i.bbb = 5 => Decode00(i) = "auipc"
  BY DEF Decode00
<1>2. Decode(i) = IF Decode00(i) \in {"slli", "srli", "srai"} /\ Shamt(i) >= 32
                  THEN Undef ELSE Decode00(i)
  BY DEF Decode
<1>3. /\ i.funct7 = 0 => ByFunct7(i, "srli", "srai") = "srli"
      /\ i.funct7 = 32 => ByFunct7(i, "srli", "srai") = "srai"
  BY DEF ByFunct7
<1>4. Shamt(i) \in 0..31 => ~(Shamt(i) >= 32)
  OBVIOUS
<1>5. op \in LoadOps => op \notin {"slli", "srli", "srai"}
  BY DEF LoadOps
<1>6. op \in ImmOps \ {"srli", "srai"} /\ op # "slli"
        => op \notin {"slli", "srli", "srai"}
  OBVIOUS
<1> QED
  BY <1>1, <1>2, <1>3, <1>4, <1>5, <1>6

LEMMA Decodes01 ==
  ASSUME NEW i, NEW op, i.cc = 1
  PROVE  /\ i.bbb = 0 /\ op \in StoreOps /\ StoreCodes[i.funct3 + 1] = op => Decode(i) = op
         /\ ( /\ i.bbb = 4 /\ i.funct3 = 0
              /\ (op = "add" /\ i.funct7 = 0) \/ (op = "sub" /\ i.funct7 = 32) )
            => Decode(i) = op
         /\ ( /\ i.bbb = 4 /\ i.funct3 = 5
              /\ (op = "srl" /\ i.funct7 = 0) \/ (op = "sra" /\ i.funct7 = 32) )
            => Decode(i) = op
         /\ ( /\ i.bbb = 4 /\ i.funct3 # 0 /\ i.funct3 # 5 /\ op \in RegOps
              /\ RegCodes[i.funct3 + 1] = op ) => Decode(i) = op
         /\ i.bbb = 5 => Decode(i) = "lui"
<1>1. /\ i.bbb = 0 => Decode01(i) = StoreCodes[i.funct3 + 1]
      /\ i.bbb = 4 /\ i.funct3 = 0 => Decode01(i) = ByFunct7(i, "add", "sub")
      /\ i.bbb = 4 /\ i.funct3 = 5 => Decode01(i) = ByFunct7(i, "srl", "sra")
      /\ i.bbb = 4 /\ i.funct3 # 0 /\ i.funct3 # 5 => Decode01(i) = RegCodes[i.funct3 + 1]
      /\ i.bbb = 5 => Decode01(i) = "lui"
  BY DEF Decode01
<1>2. Decode(i) = IF Decode01(i) \in {"slli", "srli", "srai"} /\ Shamt(i) >= 32
                  THEN Undef ELSE Decode01(i)
  BY DEF Decode
<1>3. /\ i.funct7 = 0 => /\ ByFunct7(i, "add", "sub") = "add"
                         /\ ByFunct7(i, "srl", "sra") = "srl"
      /\ i.funct7 = 32 => /\ ByFunct7(i, "add", "sub") = "sub"
                          /\ ByFunct7(i, "srl", "sra") = "sra"
  BY DEF ByFunct7
<1>4. op \in StoreOps \cup RegOps => op \notin {"slli", "srli", "srai"}
  BY DEF StoreOps, RegOps
<1> QED
  BY <1>1, <1>2, <1>3, <1>4

LEMMA Decodes11 ==
  ASSUME NEW i, NEW op, i.cc = 3
  PROVE  /\ i.bbb = 0 /\ op \in BranchOps /\ BranchCodes[i.funct3 + 1] = op
              => Decode(i) = op
         /\ i.bbb = 1 => Decode(i) = "jalr"
         /\ i.bbb = 3 => Decode(i) = "jal"
         /\ i.bbb = 4 /\ i.funct3 = 0 /\ imm_11_0(i) = 0 => Decode(i) = "ecall"
         /\ i.bbb = 4 /\ i.funct3 = 0 /\ imm_11_0(i) = 1 => Decode(i) = "ebreak"
         /\ i.bbb = 4 /\ i.funct3 # 0 => Decode(i) = Undef
<1>1. /\ i.bbb = 0 => Decode11(i) = BranchCodes[i.funct3 + 1]
      /\ i.bbb = 1 => Decode11(i) = "jalr"
      /\ i.bbb = 3 => Decode11(i) = "jal"
      /\ i.bbb = 4 /\ i.funct3 = 0 /\ imm_11_0(i) = 0 => Decode11(i) = "ecall"
      /\ i.bbb = 4 /\ i.funct3 = 0 /\ imm_11_0(i) = 1 => Decode11(i) = "ebreak"
      /\ i.bbb = 4 /\ i.funct3 # 0 => Decode11(i) = Undef
  BY DEF Decode11
<1>2. Decode(i) = IF Decode11(i) \in {"slli", "srli", "srai"} /\ Shamt(i) >= 32
                  THEN Undef ELSE Decode11(i)
  BY DEF Decode
<1>3. op \in BranchOps => op \notin {"slli", "srli", "srai"}
  BY DEF BranchOps
<1> QED
  BY <1>1, <1>2, <1>3 DEF Undef

(* The immediate of a decoded instruction. *)
LEMMA ImmOf ==
  ASSUME NEW i, NEW op, Decode(i) = op
  PROVE  /\ op \in Shifts => Imm(i) = Shamt(i)
         /\ op \in IType \ {"ori"} => Imm(i) = ImmI(i)
         /\ op \in StoreOps => Imm(i) = ImmS(i)
         /\ op \in BranchOps => Imm(i) = ImmB(i)
         /\ op = "jal" => Imm(i) = ImmJ(i)
         /\ op \in UType => Imm(i) = ImmU(i)
         /\ op \in {"ecall", "ebreak"} => Imm(i) = imm_11_0(i)
         /\ op \in {"fence", "fencei"} \cup RegOps => Imm(i) = 0
<1>1. /\ Named(LoadCodes) = LoadOps
      /\ Named(ImmCodes) = ImmOps \ {"srli", "srai"}
      /\ Named(StoreCodes) = StoreOps
      /\ Named(BranchCodes) = BranchOps
  BY DEF Named, LoadCodes, LoadOps, ImmCodes, ImmOps, StoreCodes, StoreOps, BranchCodes,
         BranchOps, Undef
<1>2. Imm(i) = CASE op = "ori"                   -> ImmOri(i)
                 [] op \in Shifts                -> Shamt(i)
                 [] op \in LoadOps \cup {"jalr"}  -> ImmI(i)
                 [] op \in {"addi", "slti", "sltiu", "xori", "andi"} -> ImmI(i)
                 [] op \in StoreOps              -> ImmS(i)
                 [] op \in BranchOps             -> ImmB(i)
                 [] op = "jal"                   -> ImmJ(i)
                 [] op \in UType                 -> ImmU(i)
                 [] op \in {"ecall", "ebreak"}   -> imm_11_0(i)
                 [] OTHER                        -> 0
  BY <1>1 DEF Imm, Shifts, UType, ImmOps
<1> QED
  BY <1>2 DEF IType, ImmOps, Shifts, LoadOps, StoreOps, BranchOps, UType, RegOps

(* What the places of an immediate hold, put together. *)
PartsI(imm) == Field(imm, 5, 7) * 32 + Field(imm, 0, 5)

PartsB(imm) ==
  LET funct7 == 64 * Field(imm, 12, 1) + Field(imm, 5, 6)
      rd     == 2 * Field(imm, 1, 4) + Field(imm, 11, 1)
  IN  (funct7 \div 64) * 4096 + (rd % 2) * 2048 + (funct7 % 64) * 32 + (rd \div 2) * 2

PartsJ(imm) ==
  LET funct7 == 64 * Field(imm, 20, 1) + Field(imm, 5, 6)
      rs2    == 2 * Field(imm, 1, 4) + Field(imm, 11, 1)
      rs1    == Field(imm, 15, 5)
      funct3 == Field(imm, 12, 3)
  IN  (funct7 \div 64) * 2^20 + (rs1 * 8 + funct3) * 4096
        + (rs2 % 2) * 2048 + (funct7 % 64) * 32 + (rs2 \div 2) * 2

PartsU(imm) ==
  Field(imm, 13, 7) * 2^13 + Field(imm, 8, 5) * 2^8 + Field(imm, 3, 5) * 2^3
    + Field(imm, 0, 3)

(* The immediates that fit into their places. *)
SignedTwelve  == (-2048)..2047
SignedTwenty  == (-2^19)..(2^19 - 1)
BranchOffsets == {2 * n : n \in SignedTwelve}
JumpOffsets   == {2 * n : n \in SignedTwenty}
UpperNumbers  == 0..(2^20 - 1)
LowerNumbers  == 0..(2^19 - 1)

(* The parts of an immediate make the immediate. *)
LEMMA TwelveBits ==
  ASSUME NEW imm \in SignedTwelve
  PROVE  /\ Sext(PartsI(imm), 11) = imm
         /\ imm \in 0..31 => PartsI(imm) = imm
BY DEF Sext, Field, PartsI, SignedTwelve

LEMMA TwelveBitsUnsigned ==
  ASSUME NEW c \in CsrAddress
  PROVE  PartsI(c) = c
BY DEF Field, PartsI, CsrAddress

LEMMA BranchBits ==
  ASSUME NEW imm \in BranchOffsets
  PROVE  Sext(PartsB(imm), 12) = imm
<1>1. \A n \in SignedTwelve : Sext(PartsB(2 * n), 12) = 2 * n
  BY DEF Sext, Field, PartsB, SignedTwelve
<1>2. PICK n \in SignedTwelve : imm = 2 * n
  BY DEF BranchOffsets
<1> QED
  BY <1>1, <1>2

(* A field and what is above it are the number from the field upwards.     *)
LEMMA FieldBelow ==
  ASSUME NEW imm \in Int, NEW low \in 0..32, NEW width \in 0..32, low + width <= 32
  PROVE  /\ imm \div 2^low = 2^width * (imm \div 2^(low + width)) + Field(imm, low, width)
         /\ Field(imm, low, width) \in 0..(2^width - 1)
         /\ imm \div 2^low \in Int
<1> DEFINE B == 2^low
           C == 2^width
<1>1. B \in Nat \ {0} /\ C \in Nat \ {0} /\ 2^(low + width) = B * C
  BY PowerNext, PowerSum
<1> HIDE DEF B, C
<1>2. imm \div (B * C) = (imm \div B) \div C
  BY <1>1, DigitsMore
<1>3. imm \div B \in Int
  BY <1>1, DivModOf
<1>4. /\ imm \div B = C * ((imm \div B) \div C) + ((imm \div B) % C)
      /\ ((imm \div B) % C) \in 0..(C - 1)
  BY <1>1, <1>3, DivModOf
<1> QED
  BY <1>1, <1>2, <1>3, <1>4 DEF Field, B, C

LEMMA UpperBits ==
  ASSUME NEW imm \in UpperNumbers
  PROVE  PartsU(imm) = imm
<1> USE DEF UpperNumbers
<1> DEFINE n   == imm
           q3  == n \div 2^3
           q8  == n \div 2^8
           q13 == n \div 2^13
           q20 == n \div 2^20
           f0  == Field(n, 0, 3)
           f3  == Field(n, 3, 5)
           f8  == Field(n, 8, 5)
           f13 == Field(n, 13, 7)
<1>0. n \in Int
  BY SMT
<1>1. q20 = 0
  BY SMT
<1>2. n = 2^3 * q3 + f0 /\ f0 \in Int
  BY SMT DEF Field
<1> HIDE DEF n
<1>3. q3 = 2^5 * q8 + f3 /\ f3 \in 0..(2^5 - 1) /\ q3 \in Int
  BY <1>0, FieldBelow
<1>4. q8 = 2^5 * q13 + f8 /\ f8 \in 0..(2^5 - 1) /\ q8 \in Int
  BY <1>0, FieldBelow
<1>5. q13 = 2^7 * q20 + f13 /\ f13 \in 0..(2^7 - 1) /\ q13 \in Int
  BY <1>0, FieldBelow
<1> HIDE DEF q3, q8, q13, q20, f0, f3, f8, f13
<1>6. f13 * 2^13 + f8 * 2^8 + f3 * 2^3 + f0 = n
  BY <1>1, <1>2, <1>3, <1>4, <1>5, SMT
<1> QED
  BY <1>6 DEF n, f0, f3, f8, f13, PartsU

LEMMA JumpPairs ==
  ASSUME NEW n \in SignedTwenty
  PROVE  Sext(PartsJ(2 * n), 20) = 2 * n
<1> USE DEF SignedTwenty
<1> DEFINE imm == 2 * n
           q5  == imm \div 2^5
           q11 == imm \div 2^11
           q12 == imm \div 2^12
           q15 == imm \div 2^15
           q20 == imm \div 2^20
           f1  == Field(imm, 1, 4)
           f5  == Field(imm, 5, 6)
           f11 == Field(imm, 11, 1)
           f12 == Field(imm, 12, 3)
           f15 == Field(imm, 15, 5)
           f20 == Field(imm, 20, 1)
<1>1. imm \div 2^1 = n
  BY SMT
<1>2. q20 \in {-1, 0} /\ f20 = q20 % 2
  BY SMT DEF Field
<1>3. imm \in Int
  BY SMT
<1> HIDE DEF imm
<1>4. /\ imm \div 2^1 = 2^4 * q5 + f1 /\ f1 \in 0..(2^4 - 1)
      /\ q5 = 2^6 * q11 + f5 /\ f5 \in 0..(2^6 - 1) /\ q5 \in Int
      /\ q11 = 2^1 * q12 + f11 /\ f11 \in 0..(2^1 - 1) /\ q11 \in Int
      /\ q12 = 2^3 * q15 + f12 /\ f12 \in 0..(2^3 - 1) /\ q12 \in Int
      /\ q15 = 2^5 * q20 + f15 /\ f15 \in 0..(2^5 - 1) /\ q15 \in Int
  BY <1>3, FieldBelow
<1> HIDE DEF q5, q11, q12, q15, q20, f1, f5, f11, f12, f15, f20
<1>5. /\ (64 * f20 + f5) \div 64 = f20 /\ (64 * f20 + f5) % 64 = f5
      /\ (2 * f1 + f11) \div 2 = f1 /\ (2 * f1 + f11) % 2 = f11
  BY <1>2, <1>4, SMT
<1> DEFINE v == f20 * 2^20 + (f15 * 8 + f12) * 4096 + f11 * 2048 + f5 * 32 + f1 * 2
<1>6. v = f20 * 2^20 + (imm - q20 * 2^20)
  BY <1>1, <1>2, <1>4, SMT DEF imm
<1>7. /\ imm - q20 * 2^20 >= 0 /\ imm - q20 * 2^20 < 2^20
  BY <1>2, <1>4, SMT DEF imm, q20
<1> HIDE DEF v
<1>8. Sext(v, 20) = imm
  BY <1>2, <1>3, <1>6, <1>7, SMT DEF Sext
<1> QED
  BY <1>5, <1>8 DEF v, imm, f1, f5, f11, f12, f15, f20, PartsJ

LEMMA JumpBits ==
  ASSUME NEW imm \in JumpOffsets
  PROVE  Sext(PartsJ(imm), 20) = imm
<1>1. PICK n \in SignedTwenty : imm = 2 * n
  BY DEF JumpOffsets
<1>2. Sext(PartsJ(2 * n), 20) = 2 * n
  BY JumpPairs
<1> QED
  BY <1>1, <1>2

(* The immediates of each format. *)
LEMMA PowerBelow ==
  ASSUME NEW m \in 0..32, NEW n \in 0..32, m <= n
  PROVE  2^m \in Nat /\ 2^m <= 2^n
<1> DEFINE k == n - m
           M == Pow(m)
           K == Pow(k)
<1>1. k \in 0..32 /\ m + k = n /\ m + k <= 32
  OBVIOUS
<1> HIDE DEF k
<1>2. Pow(m + k) = M * K
  BY <1>1, PowSum
<1>3. M \in Nat \ {0} /\ K \in Nat \ {0}
  BY <1>1, PowType
<1> HIDE DEF M, K
<1>4. M <= M * K
  BY <1>3
<1>5. M \in Nat /\ M <= Pow(n)
  BY <1>1, <1>2, <1>3, <1>4
<1> QED
  BY <1>5 DEF M, Pow

LEMMA SampleRange == Sample20 \subseteq LowerNumbers
<1> DEFINE s == 17
           t == 18
<1> SUFFICES ASSUME NEW n \in Sample20 PROVE n \in LowerNumbers
  OBVIOUS
<1>1. PICK i \in 0..17, j \in 0..18 : n = 2^i + 2^j
  BY DEF Sample20
<1>2. s \in 0..32 /\ t \in 0..32 /\ i \in 0..32 /\ j \in 0..32 /\ i <= s /\ j <= t
  OBVIOUS
<1>3. 2^s + 2^t <= 2^19 - 1 /\ 2^s \in Nat /\ 2^t \in Nat
  BY SMT
<1> HIDE DEF s, t
<1>4. 2^i \in Nat /\ 2^i <= 2^s /\ 2^j \in Nat /\ 2^j <= 2^t
  BY <1>2, PowerBelow
<1> QED
  BY <1>1, <1>3, <1>4, SMT DEF LowerNumbers

LEMMA ImmediatesOf ==
  ASSUME NEW op
  PROVE  /\ op \in IType \cup StoreOps => Immediates(op) = -2048..2047
         /\ op \in BranchOps => Immediates(op) = {2 * n : n \in -2048..2047}
         /\ op \in Shifts => Immediates(op) = 0..31
         /\ op = "jal" => Immediates(op) = {2 * n : n \in Sample20}
                                             \cup {-2 * (n + 1) : n \in Sample20}
         /\ op \in UType => Immediates(op) = Sample20 \cup {2^20 - 1}
         /\ op = "ebreak" => Immediates(op) = {1}
         /\ op \in CsrOps => Immediates(op) = CsrAddress
         /\ op \in {"fence", "fencei", "ecall"} \cup RegOps => Immediates(op) = {0}
<1>1. /\ op \in IType \cup StoreOps =>
           /\ op \notin BranchOps /\ op \notin Shifts /\ op # "jal"
           /\ op \notin UType /\ op # "ebreak" /\ op \notin CsrOps
      /\ op \in BranchOps =>
           /\ op \notin IType \cup StoreOps /\ op \notin Shifts /\ op # "jal"
           /\ op \notin UType /\ op # "ebreak" /\ op \notin CsrOps
      /\ op \in Shifts =>
           /\ op \notin IType \cup StoreOps /\ op \notin BranchOps /\ op # "jal"
           /\ op \notin UType /\ op # "ebreak" /\ op \notin CsrOps
      /\ op = "jal" =>
           /\ op \notin IType \cup StoreOps /\ op \notin BranchOps /\ op \notin Shifts
           /\ op \notin UType /\ op # "ebreak" /\ op \notin CsrOps
      /\ op \in UType =>
           /\ op \notin IType \cup StoreOps /\ op \notin BranchOps /\ op \notin Shifts
           /\ op # "jal" /\ op # "ebreak" /\ op \notin CsrOps
      /\ op = "ebreak" =>
           /\ op \notin IType \cup StoreOps /\ op \notin BranchOps /\ op \notin Shifts
           /\ op # "jal" /\ op \notin UType /\ op \notin CsrOps
      /\ op \in CsrOps =>
           /\ op \notin IType \cup StoreOps /\ op \notin BranchOps /\ op \notin Shifts
           /\ op # "jal" /\ op \notin UType /\ op # "ebreak"
      /\ op \in {"fence", "fencei", "ecall"} \cup RegOps =>
           /\ op \notin IType \cup StoreOps /\ op \notin BranchOps /\ op \notin Shifts
           /\ op # "jal" /\ op \notin UType /\ op # "ebreak" /\ op \notin CsrOps
  BY CsrOpsAre DEF IType, LoadOps, ImmOps, Shifts, StoreOps, BranchOps, UType, RegOps
<1> HIDE DEF Sample20
<1>2. op \in IType \cup StoreOps => Immediates(op) = -2048..2047
  BY <1>1 DEF Immediates
<1>3. op \in BranchOps => Immediates(op) = {2 * n : n \in -2048..2047}
  BY <1>1 DEF Immediates
<1>4. op \in Shifts => Immediates(op) = 0..31
  BY <1>1 DEF Immediates
<1>5. op = "jal" => Immediates(op) = {2 * n : n \in Sample20}
                                       \cup {-2 * (n + 1) : n \in Sample20}
  BY <1>1 DEF Immediates
<1>6. op \in UType => Immediates(op) = Sample20 \cup {2^20 - 1}
  BY <1>1 DEF Immediates
<1>7. op = "ebreak" => Immediates(op) = {1}
  BY <1>1 DEF Immediates
<1>8. op \in CsrOps => Immediates(op) = CsrAddress
  BY <1>1 DEF Immediates
<1>9. op \in {"fence", "fencei", "ecall"} \cup RegOps => Immediates(op) = {0}
  BY <1>1 DEF Immediates
<1> QED
  BY <1>2, <1>3, <1>4, <1>5, <1>6, <1>7, <1>8, <1>9

(* What DecodesBack and ImmediateBack say of one instruction.              *)
WordDecodes(op, i) ==
  /\ IsValid(i)
  /\ IF op \in CsrOps
     THEN CsrIsValid(i) /\ CsrDecode(i) = op /\ Decode(i) = Undef
     ELSE ~CsrIsValid(i) /\ Decode(i) = op

ImmediateOf(op, i) == IF op \in CsrOps THEN imm_11_0(i) ELSE Imm(i)

LEMMA BuiltFields ==
  ASSUME NEW op, NEW funct7, NEW rs2, NEW rs1, NEW funct3, NEW rd
  PROVE  LET i == Built(op, funct7, rs2, rs1, funct3, rd)
         IN  /\ i.aa = 3 /\ i.cc = Coding[op][1] /\ i.bbb = Coding[op][2]
             /\ i.funct7 = funct7 /\ i.rs2 = rs2 /\ i.rs1 = rs1
             /\ i.funct3 = funct3 /\ i.rd = rd
BY DEF Built

(* A word whose handler RV32I has is not one of RV32Zicsr. *)
LEMMA NotCsr ==
  ASSUME NEW i, NEW op, op \notin CsrOps, Decode(i) = op, IsValid(i),
         i.bbb # 4 \/ i.cc # 3 \/ i.funct3 = 0
  PROVE  WordDecodes(op, i)
BY DEF WordDecodes, CsrIsValid, System

LEMMA LoadWords ==
  ASSUME NEW op \in LoadOps, NEW imm \in SignedTwelve
  PROVE  WordDecodes(op, Encode(op, imm)) /\ ImmediateOf(op, Encode(op, imm)) = imm
<1> DEFINE i == Encode(op, imm)
<1>1. op \in IFormat /\ op \in IType /\ op # "ori" /\ op \notin CsrOps
  BY CsrOpsAre DEF IFormat, IType, LoadOps
<1>2. /\ i.aa = 3 /\ i.cc = 0 /\ i.bbb = 0 /\ LoadCodes[i.funct3 + 1] = op
      /\ i.funct7 = Field(imm, 5, 7) /\ i.rs2 = Field(imm, 0, 5)
  BY <1>1, EncodedI, CodedI, BuiltFields
<1> HIDE DEF i
<1>3. Decode(i) = op
  BY <1>2, Decodes00
<1>4. IsValid(i)
  BY <1>2 DEF IsValid
<1>5. Imm(i) = imm
  <2>1. Imm(i) = ImmI(i)
    BY <1>1, <1>3, ImmOf
  <2>2. ImmI(i) = Sext(PartsI(imm), 11)
    BY <1>2 DEF ImmI, imm_11_0, PartsI
  <2> QED
    BY <2>1, <2>2, TwelveBits
<1> QED
  BY <1>1, <1>2, <1>3, <1>4, <1>5, NotCsr DEF ImmediateOf, i

LEMMA ImmWords ==
  ASSUME NEW op \in ImmOps \ Shifts, NEW imm \in SignedTwelve
  PROVE  /\ WordDecodes(op, Encode(op, imm))
         /\ op # "ori" => ImmediateOf(op, Encode(op, imm)) = imm
<1> DEFINE i == Encode(op, imm)
<1>1. /\ op \in IFormat /\ op \in IType /\ op \notin CsrOps
      /\ op \in ImmOps \ {"srli", "srai"} /\ op # "slli"
  BY CsrOpsAre DEF IFormat, IType, Shifts, ImmOps
<1>2. /\ i.aa = 3 /\ i.cc = 0 /\ i.bbb = 4 /\ i.funct3 # 5
      /\ ImmCodes[i.funct3 + 1] = op
      /\ i.funct7 = Field(imm, 5, 7) /\ i.rs2 = Field(imm, 0, 5)
  BY <1>1, EncodedI, CodedI, BuiltFields
<1> HIDE DEF i
<1>3. Decode(i) = op
  BY <1>1, <1>2, Decodes00
<1>4. IsValid(i)
  BY <1>2 DEF IsValid
<1>5. op # "ori" => Imm(i) = imm
  <2>1. op # "ori" => Imm(i) = ImmI(i)
    BY <1>1, <1>3, ImmOf
  <2>2. ImmI(i) = Sext(PartsI(imm), 11)
    BY <1>2 DEF ImmI, imm_11_0, PartsI
  <2> QED
    BY <2>1, <2>2, TwelveBits
<1> QED
  BY <1>1, <1>2, <1>3, <1>4, <1>5, NotCsr DEF ImmediateOf, i

LEMMA ShiftWords ==
  ASSUME NEW op \in Shifts, NEW imm \in 0..31
  PROVE  WordDecodes(op, Encode(op, imm)) /\ ImmediateOf(op, Encode(op, imm)) = imm
<1> DEFINE i == Encode(op, imm)
<1>1. op \notin CsrOps /\ op \in {"slli", "srli", "srai"} /\ op \in ImmOps
  BY CsrOpsAre DEF Shifts, ImmOps
<1>2. /\ i.aa = 3 /\ i.cc = 0 /\ i.bbb = 4 /\ i.rs2 = imm
      /\ i.funct7 = IF op = "srai" THEN 32 ELSE 0
      /\ op = "slli" => i.funct3 # 5 /\ ImmCodes[i.funct3 + 1] = op
      /\ op \in {"srli", "srai"} => i.funct3 = 5
  BY <1>1, EncodedShift, CodedI, BuiltFields
<1> HIDE DEF i
<1>3. Shamt(i) = imm
  BY <1>2 DEF Shamt, imm_11_0
<1>4. Decode(i) = op
  BY <1>1, <1>2, <1>3, Decodes00
<1>5. IsValid(i)
  BY <1>2 DEF IsValid
<1>6. Imm(i) = imm
  BY <1>3, <1>4, ImmOf
<1> QED
  BY <1>1, <1>2, <1>4, <1>5, <1>6, NotCsr DEF ImmediateOf, i

LEMMA StoreWords ==
  ASSUME NEW op \in StoreOps, NEW imm \in SignedTwelve
  PROVE  WordDecodes(op, Encode(op, imm)) /\ ImmediateOf(op, Encode(op, imm)) = imm
<1> DEFINE i == Encode(op, imm)
<1>1. op \notin CsrOps
  BY CsrOpsAre DEF StoreOps
<1>2. /\ i.aa = 3 /\ i.cc = 1 /\ i.bbb = 0 /\ StoreCodes[i.funct3 + 1] = op
      /\ i.funct7 = Field(imm, 5, 7) /\ i.rd = Field(imm, 0, 5)
  BY EncodedStore, CodedOther, BuiltFields
<1> HIDE DEF i
<1>3. Decode(i) = op
  BY <1>2, Decodes01
<1>4. IsValid(i)
  BY <1>2 DEF IsValid
<1>5. Imm(i) = imm
  <2>1. Imm(i) = ImmS(i)
    BY <1>3, ImmOf
  <2>2. ImmS(i) = Sext(PartsI(imm), 11)
    BY <1>2 DEF ImmS, PartsI
  <2> QED
    BY <2>1, <2>2, TwelveBits
<1> QED
  BY <1>1, <1>2, <1>3, <1>4, <1>5, NotCsr DEF ImmediateOf, i

LEMMA BranchWords ==
  ASSUME NEW op \in BranchOps, NEW imm \in BranchOffsets
  PROVE  /\ WordDecodes(op, Encode(op, imm))
         /\ ImmediateOf(op, Encode(op, imm)) = imm
<1> DEFINE i == Encode(op, imm)
<1>1. op \notin CsrOps
  BY CsrOpsAre DEF BranchOps
<1>2. /\ i.aa = 3 /\ i.cc = 3 /\ i.bbb = 0 /\ BranchCodes[i.funct3 + 1] = op
      /\ i.funct7 = 64 * Field(imm, 12, 1) + Field(imm, 5, 6)
      /\ i.rd = 2 * Field(imm, 1, 4) + Field(imm, 11, 1)
  BY EncodedBranch, CodedOther, BuiltFields
<1> HIDE DEF i
<1>3. Decode(i) = op
  BY <1>2, Decodes11
<1>4. IsValid(i)
  BY <1>2 DEF IsValid
<1>5. Imm(i) = ImmB(i)
  BY <1>3, ImmOf
<1>6. ImmB(i) = imm
  <2>1. ImmB(i) = Sext(PartsB(imm), 12)
    BY <1>2 DEF ImmB, PartsB
  <2> QED
    BY <2>1, BranchBits
<1> QED
  BY <1>1, <1>2, <1>3, <1>4, <1>5, <1>6, NotCsr DEF ImmediateOf, i

LEMMA JalWords ==
  ASSUME NEW imm \in JumpOffsets
  PROVE  /\ WordDecodes("jal", Encode("jal", imm))
         /\ ImmediateOf("jal", Encode("jal", imm)) = imm
<1> DEFINE i == Encode("jal", imm)
<1>1. "jal" \notin CsrOps
  BY CsrOpsAre
<1>2. /\ i.aa = 3 /\ i.cc = 3 /\ i.bbb = 3
      /\ i.funct7 = 64 * Field(imm, 20, 1) + Field(imm, 5, 6)
      /\ i.rs2 = 2 * Field(imm, 1, 4) + Field(imm, 11, 1)
      /\ i.rs1 = Field(imm, 15, 5) /\ i.funct3 = Field(imm, 12, 3)
  BY EncodedJal, CodedOther, BuiltFields, SMT
<1> HIDE DEF i
<1>3. Decode(i) = "jal"
  BY <1>2, Decodes11, SMT
<1>4. IsValid(i)
  BY <1>2, SMT DEF IsValid
<1>5. Imm(i) = ImmJ(i)
  BY <1>3, ImmOf, SMT
<1>6. ImmJ(i) = imm
  <2>1. ImmJ(i) = Sext(PartsJ(imm), 20)
    BY <1>2, SMT DEF ImmJ, PartsJ
  <2> QED
    BY <2>1, JumpBits, SMT
<1> QED
  BY <1>1, <1>2, <1>3, <1>4, <1>5, <1>6, NotCsr, SMT DEF ImmediateOf, i

LEMMA UpperWords ==
  ASSUME NEW op \in UType, NEW imm \in UpperNumbers
  PROVE  WordDecodes(op, Encode(op, imm)) /\ ImmediateOf(op, Encode(op, imm)) = imm
<1> DEFINE i == Encode(op, imm)
<1>1. op \notin CsrOps /\ op \in {"lui", "auipc"}
  BY CsrOpsAre, SMT DEF UType
<1>2. /\ i.aa = 3 /\ i.cc = (IF op = "lui" THEN 1 ELSE 0) /\ i.bbb = 5
      /\ i.funct7 = Field(imm, 13, 7) /\ i.rs2 = Field(imm, 8, 5)
      /\ i.rs1 = Field(imm, 3, 5) /\ i.funct3 = Field(imm, 0, 3)
  BY <1>1, EncodedU, CodedOther, BuiltFields, SMT
<1> HIDE DEF i
<1>3. Decode(i) = op
  BY <1>1, <1>2, Decodes00, Decodes01, SMT
<1>4. IsValid(i)
  BY <1>2, SMT DEF IsValid
<1>5. Imm(i) = ImmU(i)
  BY <1>3, ImmOf, SMT
<1>6. ImmU(i) = imm
  <2>1. ImmU(i) = PartsU(imm)
    BY <1>2, SMT DEF ImmU, PartsU
  <2> QED
    BY <2>1, UpperBits, SMT
<1> QED
  BY <1>1, <1>2, <1>3, <1>4, <1>5, <1>6, NotCsr, SMT DEF ImmediateOf, i

LEMMA RegWords ==
  ASSUME NEW op \in RegOps
  PROVE  WordDecodes(op, Encode(op, 0)) /\ ImmediateOf(op, Encode(op, 0)) = 0
<1> DEFINE i == Encode(op, 0)
<1>1. op \notin CsrOps
  BY CsrOpsAre DEF RegOps
<1>2. /\ i.aa = 3 /\ i.cc = 1 /\ i.bbb = 4
      /\ i.funct7 = IF op \in {"sub", "sra"} THEN 32 ELSE 0
      /\ op \in {"add", "sub"} => i.funct3 = 0
      /\ op \in {"srl", "sra"} => i.funct3 = 5
      /\ op \notin {"add", "sub", "srl", "sra"} =>
           i.funct3 # 0 /\ i.funct3 # 5 /\ RegCodes[i.funct3 + 1] = op
  BY EncodedReg, CodedOther, BuiltFields DEF RegOps
<1> HIDE DEF i
<1>3. Decode(i) = op
  BY <1>2, Decodes01
<1>4. IsValid(i)
  BY <1>2 DEF IsValid
<1>5. Imm(i) = 0
  BY <1>3, ImmOf
<1> QED
  BY <1>1, <1>2, <1>3, <1>4, <1>5, NotCsr DEF ImmediateOf, i

LEMMA JalrWords ==
  ASSUME NEW imm \in SignedTwelve
  PROVE  /\ WordDecodes("jalr", Encode("jalr", imm))
         /\ ImmediateOf("jalr", Encode("jalr", imm)) = imm
<1> DEFINE i == Encode("jalr", imm)
<1>1. "jalr" \in IFormat /\ "jalr" \in IType /\ "jalr" \notin CsrOps
  BY CsrOpsAre DEF IFormat, IType
<1>2. /\ i.aa = 3 /\ i.cc = 3 /\ i.bbb = 1
      /\ i.funct7 = Field(imm, 5, 7) /\ i.rs2 = Field(imm, 0, 5)
  BY <1>1, EncodedI, CodedI, BuiltFields
<1> HIDE DEF i
<1>3. Decode(i) = "jalr"
  BY <1>2, Decodes11
<1>4. IsValid(i)
  BY <1>2 DEF IsValid
<1>5. Imm(i) = imm
  <2>1. Imm(i) = ImmI(i)
    BY <1>1, <1>3, ImmOf
  <2>2. ImmI(i) = Sext(PartsI(imm), 11)
    BY <1>2 DEF ImmI, imm_11_0, PartsI
  <2> QED
    BY <2>1, <2>2, TwelveBits
<1> QED
  BY <1>1, <1>2, <1>3, <1>4, <1>5, NotCsr DEF ImmediateOf, i

LEMMA OtherWords ==
  ASSUME NEW op \in {"fence", "fencei", "ecall", "ebreak"},
         NEW imm, imm = IF op = "ebreak" THEN 1 ELSE 0
  PROVE  WordDecodes(op, Encode(op, imm)) /\ ImmediateOf(op, Encode(op, imm)) = imm
<1> DEFINE i == Encode(op, imm)
<1>1. op \in IFormat /\ op \notin CsrOps
  BY CsrOpsAre DEF IFormat
<1>2. /\ i.aa = 3 /\ i.funct3 = (IF op = "fencei" THEN 1 ELSE 0)
      /\ op \in {"fence", "fencei"} => i.cc = 0 /\ i.bbb = 3
      /\ op \in {"ecall", "ebreak"} => i.cc = 3 /\ i.bbb = 4
      /\ i.funct7 = Field(imm, 5, 7) /\ i.rs2 = Field(imm, 0, 5)
  BY <1>1, EncodedI, CodedI, BuiltFields
<1>3. imm \in 0..31 /\ imm \in SignedTwelve
  BY DEF SignedTwelve
<1> HIDE DEF i
<1>4. imm_11_0(i) = imm
  <2>1. imm_11_0(i) = PartsI(imm)
    BY <1>2 DEF imm_11_0, PartsI
  <2> QED
    BY <1>3, <2>1, TwelveBits
<1>5. Decode(i) = op
  BY <1>2, <1>4, Decodes00, Decodes11
<1>6. IsValid(i)
  BY <1>2 DEF IsValid
<1>7. Imm(i) = imm
  BY <1>4, <1>5, ImmOf
<1> QED
  BY <1>1, <1>2, <1>5, <1>6, <1>7, NotCsr DEF ImmediateOf, i

LEMMA CsrWords ==
  ASSUME NEW op \in CsrOps, NEW c \in CsrAddress
  PROVE  WordDecodes(op, Encode(op, c)) /\ ImmediateOf(op, Encode(op, c)) = c
<1> DEFINE i == Encode(op, c)
<1>1. op \in IFormat
  BY DEF IFormat
<1>2. /\ i.aa = 3 /\ i.cc = 3 /\ i.bbb = 4
      /\ i.funct3 \in {1, 2, 3, 5, 6, 7} /\ CsrCodes[i.funct3 + 1] = op
      /\ i.funct7 = Field(c, 5, 7) /\ i.rs2 = Field(c, 0, 5)
  BY <1>1, EncodedI, CodedOther, BuiltFields
<1> HIDE DEF i
<1>3. Decode(i) = Undef
  BY <1>2, Decodes11
<1>4. IsValid(i) /\ CsrIsValid(i) /\ CsrDecode(i) = op
  BY <1>2 DEF IsValid, CsrIsValid, CsrDecode, System
<1>5. imm_11_0(i) = c
  <2>1. imm_11_0(i) = PartsI(c)
    BY <1>2 DEF imm_11_0, PartsI
  <2> QED
    BY <2>1, TwelveBitsUnsigned
<1> QED
  BY <1>3, <1>4, <1>5 DEF WordDecodes, ImmediateOf, i

(* Every immediate of the format of an instruction: those of 20 bits that  *)
(* TLC takes a sample of as well.                                          *)
AllImmediates(op) ==
  CASE op = "jal"   -> JumpOffsets
    [] op \in UType -> UpperNumbers
    [] OTHER        -> Immediates(op)

LEMMA AllImmediatesOf ==
  ASSUME NEW op
  PROVE  /\ op = "jal" => AllImmediates(op) = JumpOffsets
         /\ op \in UType => AllImmediates(op) = UpperNumbers
         /\ op # "jal" /\ op \notin UType => AllImmediates(op) = Immediates(op)
BY DEF AllImmediates, UType

LEMMA SampleIncluded ==
  ASSUME NEW op, NEW imm \in Immediates(op)
  PROVE  imm \in AllImmediates(op)
<1>1. CASE op = "jal"
  <2>1. imm \in {2 * n : n \in Sample20} \cup {-2 * (n + 1) : n \in Sample20}
    BY <1>1, ImmediatesOf
  <2>2. \A n \in Sample20 : 2 * n \in JumpOffsets /\ -2 * (n + 1) \in JumpOffsets
    <3> SUFFICES ASSUME NEW n \in Sample20
                 PROVE  2 * n \in JumpOffsets /\ -2 * (n + 1) \in JumpOffsets
      OBVIOUS
    <3>1. n \in LowerNumbers
      BY SampleRange
    <3>2. n \in SignedTwenty /\ -(n + 1) \in SignedTwenty
      BY <3>1, SMT DEF SignedTwenty, LowerNumbers
    <3>3. -2 * (n + 1) = 2 * (-(n + 1))
      BY <3>1, SMT DEF LowerNumbers
    <3> QED
      BY <3>2, <3>3 DEF JumpOffsets
  <2>3. imm \in JumpOffsets
    BY <2>1, <2>2
  <2> QED
    BY <1>1, <2>3, AllImmediatesOf
<1>2. CASE op \in UType
  <2>1. imm \in Sample20 \cup {2^20 - 1}
    BY <1>2, ImmediatesOf
  <2>2. 2^20 - 1 \in UpperNumbers
    BY SMT DEF UpperNumbers
  <2>3. Sample20 \subseteq UpperNumbers
    <3>1. ASSUME NEW n \in LowerNumbers PROVE n \in UpperNumbers
      BY SMT DEF UpperNumbers, LowerNumbers
    <3> QED
      BY <3>1, SampleRange
  <2> QED
    BY <1>2, <2>1, <2>2, <2>3, AllImmediatesOf
<1> QED
  BY <1>1, <1>2, AllImmediatesOf

LEMMA ListedWord ==
  ASSUME NEW op \in DOMAIN Coding, op # "jal", op \notin UType,
         NEW imm \in Immediates(op)
  PROVE  /\ WordDecodes(op, Encode(op, imm))
         /\ op # "ori" => ImmediateOf(op, Encode(op, imm)) = imm
<1>1. CASE op \in LoadOps
  <2>1. imm \in SignedTwelve
    BY <1>1, ImmediatesOf DEF IType, SignedTwelve
  <2> QED
    BY <1>1, <2>1, LoadWords
<1>2. CASE op \in ImmOps \ Shifts
  <2>1. imm \in SignedTwelve
    BY <1>2, ImmediatesOf DEF IType, SignedTwelve
  <2> QED
    BY <1>2, <2>1, ImmWords
<1>3. CASE op = "jalr"
  <2>1. imm \in SignedTwelve
    BY <1>3, ImmediatesOf DEF IType, SignedTwelve
  <2> QED
    BY <1>3, <2>1, JalrWords
<1>4. CASE op \in CsrOps
  BY <1>4, ImmediatesOf, CsrWords
<1>5. CASE op \in {"fence", "fencei", "ecall", "ebreak"}
  BY <1>5, ImmediatesOf, OtherWords
<1>6. CASE op \in Shifts
  BY <1>6, ImmediatesOf, ShiftWords
<1>7. CASE op \in StoreOps
  <2>1. imm \in SignedTwelve
    BY <1>7, ImmediatesOf DEF SignedTwelve
  <2> QED
    BY <1>7, <2>1, StoreWords
<1>8. CASE op \in BranchOps
  <2>1. imm \in BranchOffsets
    BY <1>8, ImmediatesOf DEF BranchOffsets, SignedTwelve
  <2> QED
    BY <1>8, <2>1, BranchWords
<1>9. CASE op \in RegOps
  <2>1. imm = 0 /\ op # "ori"
    BY <1>9, ImmediatesOf DEF RegOps
  <2> QED
    BY <1>9, <2>1, RegWords
<1>10. op \in IFormat => \/ op \in LoadOps \/ op \in ImmOps \ Shifts \/ op = "jalr"
                        \/ op \in CsrOps
                        \/ op \in {"fence", "fencei", "ecall", "ebreak"}
  BY DEF IFormat, IType
<1> QED
  BY <1>1, <1>2, <1>3, <1>4, <1>5, <1>6, <1>7, <1>8, <1>9, <1>10, DomainOfCoding

(* Every instruction with every immediate of its format, also those of 20  *)
(* bits that no run tries: exec() sends the word to its own handler, and   *)
(* the handler (that of ori excepted) recovers the immediate.              *)
THEOREM EveryWord ==
  ASSUME NEW op \in DOMAIN Coding, NEW imm \in AllImmediates(op)
  PROVE  /\ WordDecodes(op, Encode(op, imm))
         /\ op # "ori" => ImmediateOf(op, Encode(op, imm)) = imm
<1>1. CASE op = "jal"
  BY <1>1, AllImmediatesOf, JalWords
<1>2. CASE op \in UType
  BY <1>2, AllImmediatesOf, UpperWords
<1>3. CASE op # "jal" /\ op \notin UType
  BY <1>3, AllImmediatesOf, ListedWord
<1> QED
  BY <1>1, <1>2, <1>3

LEMMA AssembledWord ==
  ASSUME Assemble, Mnemonics \subseteq DOMAIN Coding
  PROVE  \E op \in Mnemonics : \E imm \in Immediates(op) :
           /\ case' = [kind |-> "word", op |-> op, imm |-> imm, word |-> Encode(op, imm)]
           /\ WordDecodes(op, Encode(op, imm))
           /\ op # "ori" => ImmediateOf(op, Encode(op, imm)) = imm
<1>1. PICK op \in Mnemonics : \E imm \in Immediates(op) :
        case' = [kind |-> "word", op |-> op, imm |-> imm, word |-> Encode(op, imm)]
  BY DEF Assemble
<1>2. PICK imm \in Immediates(op) :
        case' = [kind |-> "word", op |-> op, imm |-> imm, word |-> Encode(op, imm)]
  BY <1>1
<1>3. op \in DOMAIN Coding
  OBVIOUS
<1> QED
  BY <1>2, <1>3, SampleIncluded, EveryWord

(* Every instruction of the base set and of Zicsr is accepted and reaches  *)
(* its own handler, whatever its immediate.                                *)
THEOREM DecodesBackAlways ==
  ASSUME Mnemonics \subseteq DOMAIN Coding
  PROVE  Spec => []DecodesBack
<1>1. Init => DecodesBack
  BY DEF Init, DecodesBack
<1>2. DecodesBack /\ [Next]_case => DecodesBack'
  <2> SUFFICES ASSUME DecodesBack, [Next]_case PROVE DecodesBack'
    OBVIOUS
  <2>1. CASE Assemble
    <3>1. PICK op \in Mnemonics : \E imm \in Immediates(op) :
            /\ case' = [kind |-> "word", op |-> op, imm |-> imm,
                        word |-> Encode(op, imm)]
            /\ WordDecodes(op, Encode(op, imm))
      BY <2>1, AssembledWord
    <3> QED
      BY <3>1 DEF DecodesBack, WordDecodes
  <2>2. CASE PickOperands \/ PickCsr \/ PickFetch \/ PickForm \/ UNCHANGED case
    <3>1. UNCHANGED case \/ case'.kind # "word"
      BY <2>2 DEF PickOperands, PickCsr, PickFetch, PickForm
    <3> QED
      BY <3>1 DEF DecodesBack
  <2> QED
    BY <2>1, <2>2, CaseStep
<1> QED
  BY <1>1, <1>2, PTL DEF Spec

(* The handler recovers the immediate; that of ori does not.               *)
THEOREM ImmediateBackAlways ==
  ASSUME Mnemonics \subseteq AllButOri
  PROVE  Spec => []ImmediateBack
<1>1. Init => ImmediateBack
  BY DEF Init, ImmediateBack
<1>2. ImmediateBack /\ [Next]_case => ImmediateBack'
  <2> SUFFICES ASSUME ImmediateBack, [Next]_case PROVE ImmediateBack'
    OBVIOUS
  <2>1. CASE Assemble
    <3>1. Mnemonics \subseteq DOMAIN Coding /\ "ori" \notin Mnemonics
      BY DEF AllButOri
    <3>2. PICK op \in Mnemonics : \E imm \in Immediates(op) :
            /\ case' = [kind |-> "word", op |-> op, imm |-> imm,
                        word |-> Encode(op, imm)]
            /\ ImmediateOf(op, Encode(op, imm)) = imm
      BY <2>1, <3>1, AssembledWord
    <3> QED
      BY <3>2 DEF ImmediateBack, ImmediateOf
  <2>2. CASE PickOperands \/ PickCsr \/ PickFetch \/ PickForm \/ UNCHANGED case
    <3>1. UNCHANGED case \/ case'.kind # "word"
      BY <2>2 DEF PickOperands, PickCsr, PickFetch, PickForm
    <3> QED
      BY <3>1 DEF ImmediateBack
  <2> QED
    BY <2>1, <2>2, CaseStep
<1> QED
  BY <1>1, <1>2, PTL DEF Spec
=============================================================================
