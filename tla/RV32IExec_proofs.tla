-------------------------- MODULE RV32IExec_proofs --------------------------
(***************************************************************************)
(* The arithmetic of machine words, for every width of up to 32 bits: that *)
(* handlers compute words and that loads and stores stay in the memory     *)
(* (for the types of RV32Hart), and that what they compute is what the     *)
(* instruction set asks for (for its refinement of RVIsa and for MCRV32I). *)
(* Bits, bytes and powers of two come first, handlers after them.  NatSet  *)
(* is induction over the numbers for a set, since the provers cannot use   *)
(* the library's, whose premise is an operator.                            *)
(***************************************************************************)
EXTENDS RV32IExec, RVIsaWords, TLAPS, WellFoundedInduction

(* The powers of two that fit into a word. *)
LEMMA PowerNext ==
  ASSUME NEW n \in 0..32
  PROVE  2^n \in Nat \ {0} /\ 2^(n + 1) = 2 * 2^n /\ n < 2^n
<1> DEFINE P(k) == 2^k
           Q(k) == P(k) \in Nat \ {0} /\ P(k + 1) = 2 * P(k) /\ k < P(k)
<1>1. /\ Q(0) /\ Q(1) /\ Q(2) /\ Q(3) /\ Q(4) /\ Q(5) /\ Q(6) /\ Q(7) /\ Q(8)
      /\ Q(9) /\ Q(10) /\ Q(11) /\ Q(12) /\ Q(13) /\ Q(14) /\ Q(15) /\ Q(16)
      /\ Q(17) /\ Q(18) /\ Q(19) /\ Q(20) /\ Q(21) /\ Q(22) /\ Q(23) /\ Q(24)
      /\ Q(25) /\ Q(26) /\ Q(27) /\ Q(28) /\ Q(29) /\ Q(30) /\ Q(31) /\ Q(32)
  OBVIOUS
<1>2. \/ n = 0 \/ n = 1 \/ n = 2 \/ n = 3 \/ n = 4 \/ n = 5 \/ n = 6 \/ n = 7
      \/ n = 8 \/ n = 9 \/ n = 10 \/ n = 11 \/ n = 12 \/ n = 13 \/ n = 14
      \/ n = 15 \/ n = 16 \/ n = 17 \/ n = 18 \/ n = 19 \/ n = 20 \/ n = 21
      \/ n = 22 \/ n = 23 \/ n = 24 \/ n = 25 \/ n = 26 \/ n = 27 \/ n = 28
      \/ n = 29 \/ n = 30 \/ n = 31 \/ n = 32
  OBVIOUS
<1>3. Q(n)
  <2> HIDE DEF Q
  <2> QED
    BY <1>1, <1>2, Zenon
<1> QED
  BY <1>3

(* Induction over numbers, for a set in the place of a predicate.          *)
LEMMA NatSet ==
  ASSUME NEW S, 0 \in S, \A n \in Nat : n \in S => n + 1 \in S
  PROVE  Nat \subseteq S
<1> SUFFICES ASSUME Nat \ S # {} PROVE FALSE
  OBVIOUS
<1> DEFINE T == Nat \ S
           R == OpToRel(<, Nat)
<1>1. IsWellFoundedOn(R, Nat)
  BY NatLessThanWellFounded
<1>2. \A k, n \in Nat : k < n => <<k, n>> \in R
  BY DEF OpToRel
<1> HIDE DEF R
<1>3. \E n \in T : \A k \in T : ~(<<k, n>> \in R)
  BY <1>1, WFMin
<1> HIDE DEF T
<1>4. PICK n \in T : \A k \in T : ~(<<k, n>> \in R)
  BY <1>3
<1>5. n \in Nat /\ n # 0
  BY DEF T
<1>6. n - 1 \in Nat /\ n - 1 < n /\ n - 1 \in T
  BY <1>5 DEF T
<1>7. <<n - 1, n>> \in R
  BY <1>2, <1>5, <1>6
<1> QED
  BY <1>4, <1>6, <1>7

LEMMA PowerSum ==
  ASSUME NEW m \in 0..32, NEW n \in 0..32, m + n <= 32
  PROVE  2^(m + n) = 2^m * 2^n
<1> DEFINE S == {k \in Nat : m + k <= 32 => 2^(m + k) = 2^m * 2^k}
<1>1. 0 \in S
  BY PowerNext
<1>2. ASSUME NEW k \in Nat, k \in S
      PROVE  k + 1 \in S
  <2> SUFFICES ASSUME m + (k + 1) <= 32
               PROVE  2^(m + (k + 1)) = 2^m * 2^(k + 1)
    OBVIOUS
  <2>0. m + k \in 0..32 /\ k \in 0..32
    OBVIOUS
  <2>1. 2^(m + k) = 2^m * 2^k
    BY <1>2
  <2>2. 2^((m + k) + 1) = 2 * 2^(m + k) /\ 2^(k + 1) = 2 * 2^k
    BY <2>0, PowerNext
  <2>3. 2^m \in Nat /\ 2^k \in Nat
    BY <2>0, PowerNext
  <2>4. (m + k) + 1 = m + (k + 1)
    OBVIOUS
  <2> DEFINE A == 2^m
             B == 2^k
  <2> HIDE DEF A, B
  <2>5. 2 * (A * B) = A * (2 * B)
    BY <2>3 DEF A, B
  <2> QED
    BY <2>1, <2>2, <2>4, <2>5 DEF A, B
<1> HIDE DEF S
<1>3. Nat \subseteq S
  BY <1>1, <1>2, NatSet
<1> QED
  BY <1>3 DEF S

(* The same for names: the provers do not match terms with ^. *)
Pow(n) == 2^n

LEMMA PowType ==
  ASSUME NEW n \in 0..32
  PROVE  Pow(n) \in Nat \ {0}
BY PowerNext DEF Pow

LEMMA PowSum ==
  ASSUME NEW m \in 0..32, NEW n \in 0..32, NEW s, s = m + n, s <= 32
  PROVE  Pow(s) = Pow(m) * Pow(n)
<1>1. m + n <= 32
  OBVIOUS
<1>2. 2^(m + n) = 2^m * 2^n
  BY <1>1, PowerSum
<1> QED
  BY <1>2 DEF Pow
-----------------------------------------------------------------------------
LEMMA WordSize ==
  /\ ByteBits \in 1..8 /\ XLEN \in 4..32 /\ XLEN = 4 * ByteBits
  /\ 2^XLEN \in Nat \ {0} /\ 2^ByteBits \in Nat \ {0} /\ XLEN < 2^XLEN
<1>1. ByteBits \in 1..8
  BY WordsAssumption
<1>2. XLEN \in 4..32 /\ XLEN = 4 * ByteBits
  BY <1>1 DEF XLEN
<1>3. XLEN \in 0..32 /\ ByteBits \in 0..32
  BY <1>1, <1>2
<1> QED
  BY <1>1, <1>2, <1>3, PowerNext

LEMMA WordNumbers ==
  /\ 0..XLEN \subseteq Word
  /\ \A w \in Word : w \in Int /\ ToS(w) \in Int
BY WordSize DEF Word, ToS

LEMMA ByteNumbers == 0 \in Byte
BY WordSize DEF Byte

(* Division has one result. *)
LEMMA DivMod ==
  ASSUME NEW M \in Nat \ {0}, NEW q \in Int, NEW r \in 0..(M - 1)
  PROVE  (M * q + r) \div M = q /\ (M * q + r) % M = r
OBVIOUS

LEMMA DivModOf ==
  ASSUME NEW M \in Nat \ {0}, NEW n \in Int
  PROVE  n \div M \in Int /\ n % M \in 0..(M - 1) /\ n = M * (n \div M) + (n % M)
OBVIOUS

LEMMA ModSum ==
  ASSUME NEW M \in Nat \ {0}, NEW a \in Int, NEW n \in Int
  PROVE  (a + n) % M = (a + (n % M)) % M
<1> DEFINE q == n \div M
           r == n % M
           p == (a + r) \div M
           s == (a + r) % M
<1>1. q \in Int /\ r \in 0..(M - 1) /\ n = M * q + r
  BY DivModOf
<1>2. p \in Int /\ s \in 0..(M - 1) /\ a + r = M * p + s
  BY <1>1, DivModOf
<1> HIDE DEF q, r, p, s
<1>3. a + n = M * (q + p) + s
  BY <1>1, <1>2
<1>4. q + p \in Int
  BY <1>1, <1>2
<1>5. (a + n) % M = s
  BY <1>2, <1>3, <1>4, DivMod
<1> QED
  BY <1>5 DEF s, r

LEMMA ToUWord ==
  ASSUME NEW n \in Int
  PROVE  ToU(n) \in Word
BY WordSize, DivModOf DEF ToU, Word

LEMMA ToUSame ==
  ASSUME NEW w \in Word
  PROVE  ToU(w) = w
<1> DEFINE M == 2^XLEN
<1>1. M \in Nat \ {0} /\ w \in 0..(M - 1)
  BY WordSize DEF Word
<1> HIDE DEF M
<1>2. w % M = w
  BY <1>1
<1> QED
  BY <1>2 DEF M, ToU

LEMMA EvenWord ==
  ASSUME NEW t \in Word
  PROVE  t - (t % 2) \in Word
<1>1. t \in Int /\ t >= 0
  BY WordSize DEF Word
<1>2. t % 2 \in 0..1 /\ t - (t % 2) >= 0
  BY <1>1
<1> QED
  BY <1>1, <1>2, WordSize DEF Word

LEMMA ToUSum ==
  ASSUME NEW a \in Int, NEW n \in Int
  PROVE  ToU(a + ToU(n)) = ToU(a + n)
<1>1. (a + n) % (2^XLEN) = (a + (n % (2^XLEN))) % (2^XLEN)
  BY WordSize, ModSum
<1> QED
  BY <1>1 DEF ToU

LEMMA ShiftRight ==
  ASSUME NEW a \in Word, NEW n \in 0..32
  PROVE  a \div 2^n \in Word
<1> DEFINE P == 2^n
           M == 2^XLEN
           q == a \div P
           r == a % P
<1>1. P \in Nat \ {0} /\ M \in Nat \ {0} /\ a \in 0..(M - 1)
  BY WordSize, PowerNext DEF Word
<1> HIDE DEF P, M
<1>2. q \in Int /\ r \in 0..(P - 1) /\ a = P * q + r
  BY <1>1, DivModOf
<1> HIDE DEF q, r
<1>3. q >= 0
  <2> SUFFICES ASSUME q <= -1 PROVE FALSE
    BY <1>2
  <2>1. P * q <= -P
    BY <1>1, <1>2
  <2> QED
    BY <1>1, <1>2, <2>1
<1>4. q <= P * q
  BY <1>1, <1>2, <1>3
<1>5. q \in 0..(M - 1)
  BY <1>1, <1>2, <1>3, <1>4
<1> QED
  BY <1>5 DEF Word, M, q, P
-----------------------------------------------------------------------------
(* The recursion of WordOf, for every set of bits.                         *)
LowBits(B, low) ==
  low = [n \in 0..XLEN |-> IF n = 0 THEN 0
                           ELSE low[n - 1] + IF n - 1 \in B THEN 2^(n - 1) ELSE 0]

LEMMA LowBitsExist ==
  ASSUME NEW B
  PROVE  \E low : LowBits(B, low)
<1> DEFINE Bit(n) == IF n - 1 \in B THEN 2^(n - 1) ELSE 0
           Part(m, f) == f = [n \in 0..m |-> IF n = 0 THEN 0 ELSE f[n - 1] + Bit(n)]
           S == {m \in Nat : \E f : Part(m, f)}
<1>1. 0 \in S
  <2>1. Part(0, [n \in 0..0 |-> 0])
    OBVIOUS
  <2> QED
    BY <2>1
<1>2. ASSUME NEW m \in Nat, m \in S
      PROVE  m + 1 \in S
  <2>1. PICK f : Part(m, f)
    BY <1>2
  <2> DEFINE g == [n \in 0..(m + 1) |-> IF n = m + 1 THEN f[m] + Bit(n) ELSE f[n]]
  <2> HIDE DEF Bit
  <2>2. Part(m + 1, g)
    <3>1. ASSUME NEW n \in 0..(m + 1)
          PROVE  g[n] = IF n = 0 THEN 0 ELSE g[n - 1] + Bit(n)
      <4>1. CASE n = m + 1
        BY <4>1
      <4>2. CASE n = 0
        BY <2>1, <4>2
      <4>3. CASE n \in 1..m
        <5>1. n - 1 \in 0..m /\ n \in 0..m
          BY <4>3
        <5>2. f[n] = f[n - 1] + Bit(n)
          BY <2>1, <4>3, <5>1
        <5> QED
          BY <4>3, <5>1, <5>2
      <4> QED
        BY <4>1, <4>2, <4>3
    <3> QED
      BY <3>1
  <2> HIDE DEF Part, g
  <2> QED
    BY <2>2
<1> HIDE DEF S
<1>3. XLEN \in S
  BY <1>1, <1>2, NatSet, WordSize
<1> QED
  BY <1>3 DEF S, LowBits

LEMMA WordOfWord ==
  ASSUME NEW B
  PROVE  WordOf(B) \in Word
<1> DEFINE low == CHOOSE f : LowBits(B, f)
<1>1. LowBits(B, low)
  BY LowBitsExist
<1>2. WordOf(B) = low[XLEN]
  BY DEF WordOf, LowBits
<1> HIDE DEF low
<1> DEFINE S == {n \in Nat : n <= XLEN => low[n] \in 0..(2^n - 1)}
<1>3. 0 \in S
  BY <1>1, WordSize DEF LowBits
<1>4. ASSUME NEW n \in Nat, n \in S
      PROVE  n + 1 \in S
  <2> SUFFICES ASSUME n + 1 <= XLEN
               PROVE  low[n + 1] \in 0..(2^(n + 1) - 1)
    OBVIOUS
  <2>1. n \in 0..32 /\ n + 1 \in 0..XLEN /\ n + 1 # 0 /\ (n + 1) - 1 = n
    BY WordSize
  <2>2. low[n + 1] = low[n] + IF n \in B THEN 2^n ELSE 0
    BY <1>1, <2>1 DEF LowBits
  <2>3. 2^n \in Nat \ {0} /\ 2^(n + 1) = 2 * 2^n
    BY <2>1, PowerNext
  <2>4. low[n] \in 0..(2^n - 1)
    BY <1>4, <2>1, WordSize
  <2> QED
    BY <2>2, <2>3, <2>4
<1> HIDE DEF S
<1>5. XLEN \in S
  BY <1>3, <1>4, NatSet, WordSize
<1> QED
  BY <1>2, <1>5 DEF S, Word
-----------------------------------------------------------------------------
(* ~b has the bits that b has not. *)
LEMMA Complement ==
  ASSUME NEW b \in Word
  PROVE  Bits(ToU(-1 - b)) = (0..(XLEN - 1)) \ Bits(b)
<1> DEFINE M == 2^XLEN
           c == M - 1 - b
<1>1. M \in Nat \ {0} /\ b \in 0..(M - 1)
  BY WordSize DEF Word
<1>2. ToU(-1 - b) = c
  <2>1. (-1 - b) = M * (-1) + c /\ c \in 0..(M - 1)
    BY <1>1
  <2> HIDE DEF M, c
  <2>2. (-1 - b) % M = c
    BY <1>1, <2>1, DivMod
  <2> QED
    BY <2>2 DEF ToU, M
<1>3. ASSUME NEW i \in 0..(XLEN - 1)
      PROVE  (c \div 2^i) % 2 = 1 <=> ~((b \div 2^i) % 2 = 1)
  <2> DEFINE P == 2^i
             R == 2^(XLEN - 1 - i)
             q == b \div P
             r == b % P
  <2>1. i \in 0..32 /\ XLEN - 1 - i \in 0..32 /\ XLEN - 1 \in 0..32
    BY WordSize
  <2>2. P \in Nat \ {0} /\ R \in Nat
    BY <2>1, PowerNext
  <2>3. M = P * (2 * R)
    <3>1. \A k \in 0..32 : i + k <= 32 => 2^(i + k) = P * 2^k
      BY <2>1, PowerSum
    <3>2. 2^(XLEN - 1) = P * R
      <4> DEFINE k == XLEN - 1 - i
      <4>1. k \in 0..32 /\ i + k <= 32 /\ i + k = XLEN - 1
        BY <2>1, WordSize
      <4> HIDE DEF k
      <4>2. 2^(i + k) = P * 2^k
        BY <3>1, <4>1
      <4> QED
        BY <4>1, <4>2 DEF k
    <3>3. 2^((XLEN - 1) + 1) = 2 * 2^(XLEN - 1)
      BY <2>1, PowerNext
    <3>4. (XLEN - 1) + 1 = XLEN
      BY WordSize
    <3>5. M = 2 * (P * R)
      BY <3>2, <3>3, <3>4
    <3> HIDE DEF P, R, M
    <3> QED
      BY <2>2, <3>5
  <2> HIDE DEF P, R
  <2>4. q \in Int /\ r \in 0..(P - 1) /\ b = P * q + r
    BY <1>1, <2>2, DivModOf
  <2> HIDE DEF q, r, M
  <2>5. c = P * (2 * R - 1 - q) + (P - 1 - r)
    BY <2>2, <2>3, <2>4
  <2>6. P - 1 - r \in 0..(P - 1) /\ 2 * R - 1 - q \in Int
    BY <2>2, <2>4
  <2> HIDE DEF c
  <2>7. c \div P = 2 * R - 1 - q
    BY <2>2, <2>5, <2>6, DivMod
  <2>8. (2 * R - 1 - q) % 2 = 1 <=> ~(q % 2 = 1)
    BY <2>2, <2>4
  <2> QED
    BY <2>7, <2>8 DEF P, q
<1> HIDE DEF c
<1> QED
  BY <1>2, <1>3 DEF Bits

(* And with ~b clears the bits of b. *)
LEMMA AndClears ==
  ASSUME NEW a \in Word, NEW b \in Word
  PROVE  And(a, ToU(-1 - b)) = WordOf(Bits(a) \ Bits(b))
<1>1. Bits(ToU(-1 - b)) = (0..(XLEN - 1)) \ Bits(b)
  BY Complement
<1>2. Bits(a) \subseteq 0..(XLEN - 1)
  BY DEF Bits
<1>3. Bits(a) \cap Bits(ToU(-1 - b)) = Bits(a) \ Bits(b)
  BY <1>1, <1>2
<1> QED
  BY <1>3 DEF And

(* srai and sra: the sign goes where it belongs. *)
LEMMA SraShifts ==
  ASSUME NEW a \in Word, NEW n \in 0..(XLEN - 1)
  PROVE  Sra(a, n) = ToU(ToS(a) \div 2^n)
<1> DEFINE P == 2^n
           H == 2^(XLEN - 1 - n)
           q == a \div P
           r == a % P
<1>1. n \in 0..32 /\ XLEN - 1 - n \in 0..32 /\ XLEN - 1 \in 0..32
  BY WordSize
<1>2. P \in Nat \ {0} /\ H \in Nat \ {0}
  BY <1>1, PowerNext
<1>3. 2^(XLEN - 1) = P * H
  <2> DEFINE k == XLEN - 1 - n
  <2>1. k \in 0..32 /\ n + k <= 32 /\ n + k = XLEN - 1
    BY <1>1, WordSize
  <2> HIDE DEF k
  <2>2. 2^(n + k) = P * 2^k
    BY <1>1, <2>1, PowerSum
  <2> QED
    BY <2>1, <2>2 DEF k
<1>4. 2^XLEN = 2 * (P * H)
  <2>1. 2^((XLEN - 1) + 1) = 2 * 2^(XLEN - 1)
    BY <1>1, PowerNext
  <2>2. (XLEN - 1) + 1 = XLEN
    BY WordSize
  <2> QED
    BY <1>3, <2>1, <2>2
<1>5. 2^((XLEN - 1 - n) + 1) = 2 * H
  BY <1>1, PowerNext
<1>6. a \in Int
  BY WordSize DEF Word
<1> HIDE DEF P, H
<1>7. q \in Int /\ r \in 0..(P - 1) /\ a = P * q + r
  BY <1>2, <1>6, DivModOf
<1> HIDE DEF q, r
<1>8. a >= P * H <=> q >= H
  <2>1. ASSUME q >= H PROVE a >= P * H
    <3>1. P * q >= P * H
      BY <1>2, <1>7, <2>1
    <3> QED
      BY <1>2, <1>7, <3>1
  <2>2. ASSUME q <= H - 1 PROVE a < P * H
    <3>1. P * q <= P * (H - 1)
      BY <1>2, <1>7, <2>2
    <3>2. P * (H - 1) = P * H - P
      BY <1>2
    <3> QED
      BY <1>2, <1>7, <3>1, <3>2
  <2> QED
    BY <1>2, <1>7, <2>1, <2>2
<1>9. (a - 2 * (P * H)) \div P = q - 2 * H
  <2> DEFINE t == q - 2 * H
  <2>1. a - 2 * (P * H) = P * t + r
    BY <1>2, <1>7
  <2>2. t \in Int
    BY <1>2, <1>7
  <2> HIDE DEF t
  <2>3. (P * t + r) \div P = t
    BY <1>2, <1>7, <2>2, DivMod
  <2> QED
    BY <2>1, <2>3 DEF t
<1>10. Sext(a \div P, XLEN - 1 - n) = IF q >= H THEN q - 2 * H ELSE q
  BY <1>5 DEF Sext, H, q
<1>11. ToS(a) = IF a >= P * H THEN a - 2 * (P * H) ELSE a
  BY <1>3, <1>4 DEF ToS
<1>12. Sext(a \div P, XLEN - 1 - n) = ToS(a) \div P
  BY <1>8, <1>9, <1>10, <1>11 DEF q
<1> QED
  BY <1>12 DEF Sra, P
-----------------------------------------------------------------------------
(* The places of the bytes in a word. *)
LEMMA BytePowers ==
  LET B == 2^ByteBits
  IN  /\ B \in Nat \ {0}
      /\ 2^(2 * ByteBits) = B * B
      /\ 2^(3 * ByteBits) = B * (B * B)
      /\ 2^XLEN = B * (B * (B * B))
<1> DEFINE one   == ByteBits
           two   == 2 * ByteBits
           three == 3 * ByteBits
<1>1. /\ one \in 0..32 /\ two \in 0..32 /\ three \in 0..32 /\ XLEN \in 0..32
      /\ two = one + one /\ three = one + two /\ XLEN = one + three
  BY WordSize
<1> HIDE DEF one, two, three
<1>2. Pow(two) = Pow(one) * Pow(one)
  BY <1>1, PowSum
<1>3. Pow(three) = Pow(one) * Pow(two)
  BY <1>1, PowSum
<1>4. Pow(XLEN) = Pow(one) * Pow(three)
  BY <1>1, PowSum
<1> QED
  BY <1>2, <1>3, <1>4, WordSize DEF one, two, three, Pow

LEMMA Horner ==
  ASSUME NEW B \in Nat \ {0}, NEW R \in Nat \ {0}, NEW b \in 0..(B - 1), NEW r \in 0..(R - 1)
  PROVE  b + B * r \in 0..(B * R - 1) /\ B * R \in Nat \ {0} /\ B <= B * R
<1>1. B * r >= 0 /\ B * r <= B * (R - 1) /\ B * (R - 1) = B * R - B
  OBVIOUS
<1>2. B * (R - 1) >= 0
  OBVIOUS
<1> QED
  BY <1>1, <1>2

LEMMA FromBytesWord ==
  ASSUME NEW n \in {1, 2, 4}, NEW b \in [0..(n - 1) -> Byte]
  PROVE  FromBytes(b, n) \in Word
<1> DEFINE B == 2^ByteBits
           C == B * B
           D == B * C
           E == B * D
<1>1. /\ B \in Nat \ {0} /\ 2^(2 * ByteBits) = C
      /\ 2^(3 * ByteBits) = D /\ 2^XLEN = E
  BY BytePowers
<1>2. Byte = 0..(B - 1) /\ Word = 0..(E - 1)
  BY <1>1 DEF Byte, Word
<1> HIDE DEF B
<1>3. 0 \in 0..(B - 1)
  BY <1>1
<1>4. C \in Nat \ {0} /\ B <= C
  BY <1>1, <1>3, Horner
<1> HIDE DEF C
<1>5. D \in Nat \ {0} /\ C <= D
  <2>1. 0 \in 0..(C - 1) /\ D = B * C
    BY <1>4
  <2>2. B * 1 <= B * C
    BY <1>1, <1>4
  <2> QED
    BY <1>1, <1>4, <2>1, <2>2
<1> HIDE DEF D
<1>6. E \in Nat \ {0} /\ D <= E
  BY <1>1, <1>5
<1> HIDE DEF E
<1>7. CASE n = 1
  <2>1. FromBytes(b, n) = b[0] /\ b[0] \in 0..(B - 1)
    BY <1>2, <1>7 DEF FromBytes
  <2> QED
    BY <1>1, <1>2, <1>4, <1>5, <1>6, <2>1
<1>8. CASE n = 2
  <2>1. b[0] \in 0..(B - 1) /\ b[1] \in 0..(B - 1)
    BY <1>2, <1>8
  <2>2. FromBytes(b, n) = b[0] + b[1] * B
    BY <1>8 DEF FromBytes, B
  <2>3. b[0] + B * b[1] \in 0..(C - 1)
    BY <1>1, <2>1, Horner DEF C
  <2>4. b[1] * B = B * b[1]
    BY <1>1, <2>1
  <2> QED
    BY <1>2, <1>4, <1>5, <1>6, <2>2, <2>3, <2>4
<1>9. CASE n = 4
  <2>1. /\ b[0] \in 0..(B - 1) /\ b[1] \in 0..(B - 1)
        /\ b[2] \in 0..(B - 1) /\ b[3] \in 0..(B - 1)
    BY <1>2, <1>9
  <2>2. FromBytes(b, n) = b[0] + b[1] * B + b[2] * C + b[3] * D
    BY <1>1, <1>9 DEF FromBytes, B
  <2>3. b[2] + B * b[3] \in 0..(C - 1)
    BY <1>1, <2>1, Horner DEF C
  <2>4. b[1] + B * (b[2] + B * b[3]) \in 0..(D - 1)
    BY <1>1, <1>4, <2>1, <2>3, Horner DEF D
  <2>5. b[0] + B * (b[1] + B * (b[2] + B * b[3])) \in 0..(E - 1)
    BY <1>1, <1>5, <2>1, <2>4, Horner DEF E
  <2>6. b[0] \in Int /\ b[1] \in Int /\ b[2] \in Int /\ b[3] \in Int /\ B \in Int
    BY <1>1, <2>1
  <2>7. b[0] + b[1] * B + b[2] * C + b[3] * D
          = b[0] + B * (b[1] + B * (b[2] + B * b[3]))
    <3> DEFINE b0 == b[0]
               b1 == b[1]
               b2 == b[2]
               b3 == b[3]
    <3>1. C = B * B /\ D = B * C
      BY DEF C, D
    <3> HIDE DEF b0, b1, b2, b3
    <3>2. b0 \in Int /\ b1 \in Int /\ b2 \in Int /\ b3 \in Int
      BY <2>6 DEF b0, b1, b2, b3
    <3>3. b0 + b1 * B + b2 * C + b3 * D = b0 + B * (b1 + B * (b2 + B * b3))
      BY <2>6, <3>1, <3>2
    <3> QED
      BY <3>3 DEF b0, b1, b2, b3
  <2> QED
    BY <1>2, <2>2, <2>5, <2>7
<1> QED
  BY <1>7, <1>8, <1>9

LEMMA ByteOfByte ==
  ASSUME NEW w \in Word, NEW k \in 0..3
  PROVE  ByteOf(w, k) \in Byte
<1>1. ByteBits * k \in 0..32 /\ w \in Int
  BY WordSize DEF Word
<1>2. 2^(ByteBits * k) \in Nat \ {0}
  BY <1>1, PowerNext
<1>3. w \div 2^(ByteBits * k) \in Int
  BY <1>1, <1>2, DivModOf
<1> QED
  BY <1>3, WordSize, DivModOf DEF ByteOf, Byte

(* rv32_sext and the sign of a number of one, two or four bytes. *)
LEMMA SignExtends ==
  ASSUME NEW n \in {1, 2, 4}, NEW v \in Word
  PROVE  Sext(v, n * ByteBits - 1)
           = IF v >= 2^(n * ByteBits - 1) THEN v - 2 * 2^(n * ByteBits - 1) ELSE v
<1> DEFINE k == n * ByteBits - 1
<1>1. k \in 0..32
  <2>1. CASE n = 1
    BY <2>1, WordSize
  <2>2. CASE n = 2
    BY <2>2, WordSize
  <2>3. CASE n = 4
    BY <2>3, WordSize
  <2> QED
    BY <2>1, <2>2, <2>3
<1> HIDE DEF k
<1>2. 2^(k + 1) = 2 * 2^k
  BY <1>1, PowerNext
<1>3. Sext(v, k) = IF v >= 2^k THEN v - 2 * 2^k ELSE v
  BY <1>2 DEF Sext
<1> QED
  BY <1>3 DEF k

(* The digits of a number to the base B, and what is left above them.      *)
LEMMA DigitsMore ==
  ASSUME NEW B \in Nat \ {0}, NEW C \in Nat \ {0}, NEW w \in Int
  PROVE  /\ w \div (B * C) = (w \div B) \div C
         /\ w % (B * C) = (w % B) + B * ((w \div B) % C)
<1> DEFINE r == w % B
           q == w \div B
           s == q % C
           p == q \div C
<1>1. r \in 0..(B - 1) /\ q \in Int /\ w = B * q + r
  BY DivModOf
<1>2. s \in 0..(C - 1) /\ p \in Int /\ q = C * p + s
  BY <1>1, DivModOf
<1> HIDE DEF r, q, s, p
<1>3. r + B * s \in 0..(B * C - 1) /\ B * C \in Nat \ {0}
  BY <1>1, <1>2, Horner
<1>4. w = (B * C) * p + (r + B * s)
  <2>1. B * (C * p + s) = B * (C * p) + B * s /\ B * (C * p) = (B * C) * p
    BY <1>2
  <2> QED
    BY <1>1, <1>2, <2>1
<1>5. w \div (B * C) = p /\ w % (B * C) = r + B * s
  BY <1>2, <1>3, <1>4, DivMod
<1> QED
  BY <1>5 DEF r, q, s, p

(* The n lowest bytes of a word. *)
BytesOf(w, n) == [k \in 0..(n - 1) |-> ByteOf(w, k)]

(* The bytes of a word, put together again, are its lower part.            *)
LEMMA FromBytesOf ==
  ASSUME NEW n \in {1, 2, 4}, NEW w \in Word
  PROVE  FromBytes(BytesOf(w, n), n) = w % 2^(n * ByteBits)
<1> DEFINE B == 2^ByteBits
           C == B * B
           D == B * C
           E == B * D
           b == BytesOf(w, n)
<1>1. /\ B \in Nat \ {0} /\ 2^(2 * ByteBits) = C
      /\ 2^(3 * ByteBits) = D /\ 2^(4 * ByteBits) = E
  BY BytePowers, WordSize
<1>2. w \in Int
  BY WordSize DEF Word
<1>3. /\ ByteBits * 0 = 0 /\ ByteBits * 1 = ByteBits /\ 1 * ByteBits = ByteBits
      /\ ByteBits * 2 = 2 * ByteBits /\ ByteBits * 3 = 3 * ByteBits
  BY WordSize
<1>4. 2^0 = 1
  BY PowerNext
<1>5. /\ ByteOf(w, 0) = (w \div 1) % B /\ ByteOf(w, 1) = (w \div B) % B
      /\ ByteOf(w, 2) = (w \div C) % B /\ ByteOf(w, 3) = (w \div D) % B
  BY <1>1, <1>3, <1>4 DEF ByteOf
<1> HIDE DEF B
<1>6. w \div 1 = w
  BY <1>2
<1>7. C \in Nat \ {0}
  BY <1>1
<1>8. w \div B \in Int /\ (w \div B) \div B \in Int
  BY <1>1, <1>2, DivModOf
<1>9. w \div C = (w \div B) \div B /\ w % C = (w % B) + B * ((w \div B) % B)
  BY <1>1, <1>2, DigitsMore
<1>10. /\ (w \div B) \div C = ((w \div B) \div B) \div B
       /\ (w \div B) % C = ((w \div B) % B) + B * (((w \div B) \div B) % B)
  BY <1>1, <1>8, DigitsMore
<1>11. ((w \div B) \div B) % C
         = (((w \div B) \div B) % B) + B * ((((w \div B) \div B) \div B) % B)
  BY <1>1, <1>8, DigitsMore
<1> HIDE DEF C
<1>12. D \in Nat \ {0}
  BY <1>1, <1>7
<1>13. w \div D = (w \div B) \div C
  BY <1>1, <1>2, <1>7, DigitsMore
<1>14. (w \div B) % D = ((w \div B) % B) + B * (((w \div B) \div B) % C)
  BY <1>1, <1>7, <1>8, DigitsMore
<1> HIDE DEF D
<1>15. w % E = (w % B) + B * ((w \div B) % D)
  BY <1>1, <1>2, <1>12, DigitsMore
<1> HIDE DEF E
<1>16. CASE n = 1
  <2>1. FromBytes(b, n) = ByteOf(w, 0)
    BY <1>16 DEF FromBytes, BytesOf
  <2> QED
    BY <1>3, <1>5, <1>6, <1>16, <2>1 DEF B
<1>17. CASE n = 2
  <2>1. FromBytes(b, n) = ByteOf(w, 0) + ByteOf(w, 1) * B
    BY <1>17 DEF FromBytes, BytesOf, B
  <2>2. w % B \in Int /\ (w \div B) % B \in Int
    BY <1>1, <1>2, <1>8, DivModOf
  <2>3. ((w \div B) % B) * B = B * ((w \div B) % B)
    BY <1>1, <2>2
  <2> QED
    BY <1>1, <1>5, <1>6, <1>9, <1>17, <2>1, <2>3
<1>18. CASE n = 4
  <2> DEFINE b0 == w % B
             b1 == (w \div B) % B
             b2 == ((w \div B) \div B) % B
             b3 == (((w \div B) \div B) \div B) % B
  <2>1. FromBytes(b, n)
          = ByteOf(w, 0) + ByteOf(w, 1) * B + ByteOf(w, 2) * C + ByteOf(w, 3) * D
    BY <1>1, <1>18 DEF FromBytes, BytesOf, B
  <2>2. FromBytes(b, n) = b0 + b1 * B + b2 * C + b3 * D
    BY <1>5, <1>6, <1>9, <1>10, <1>13, <2>1
  <2>3. w % E = b0 + B * (b1 + B * (b2 + B * b3))
    BY <1>11, <1>14, <1>15
  <2>4. b0 \in Int /\ b1 \in Int /\ b2 \in Int /\ b3 \in Int /\ B \in Int
    BY <1>1, <1>2, <1>8, DivModOf
  <2>5. C = B * B /\ D = B * C
    BY DEF C, D
  <2> HIDE DEF b0, b1, b2, b3
  <2>6. b0 + b1 * B + b2 * C + b3 * D = b0 + B * (b1 + B * (b2 + B * b3))
    BY <2>4, <2>5
  <2> QED
    BY <1>1, <1>18, <2>2, <2>3, <2>6
<1> QED
  BY <1>16, <1>17, <1>18
-----------------------------------------------------------------------------
(* What a handler computes is a word again. *)

LEMMA RegValuesWord ==
  ASSUME NEW op \in RegOps, NEW a \in Word, NEW b \in Word
  PROVE  RegValues(op, a, b) \subseteq Word
<1>1. a \in Int /\ b \in Int /\ 0 \in Word /\ 1 \in Word
  BY WordNumbers, WordSize
<1>2. Amounts(b) \subseteq 0..32
  <2>1. XLEN \in Nat \ {0} /\ XLEN <= 32 /\ b >= 0
    BY WordSize DEF Word
  <2>2. b % XLEN \in 0..(XLEN - 1)
    BY <1>1, <2>1, DivModOf
  <2> QED
    BY <1>1, <2>1, <2>2 DEF Amounts
<1>3. \A n \in 0..32 : 2^n \in Int /\ a * 2^n \in Int
  BY <1>1, PowerNext
<1>4. CASE op \in {"add", "sub"}
  BY <1>1, <1>4, ToUWord DEF RegValues
<1>5. CASE op \in {"slt", "sltu"}
  BY <1>1, <1>5 DEF RegValues, Truth
<1>6. CASE op = "sll"
  BY <1>2, <1>3, <1>6, ToUWord DEF RegValues
<1>7. CASE op = "srl"
  BY <1>2, <1>7, ShiftRight DEF RegValues
<1>8. CASE op \in {"xor", "or", "and"}
  BY <1>8, WordOfWord DEF RegValues, Xor, Or, And
<1>9. CASE op = "sra"
  <2> DEFINE n == b % XLEN
  <2>1. n \in 0..(XLEN - 1) /\ n \in 0..32
    BY <1>1, WordSize, DivModOf
  <2>2. ToS(a) \in Int /\ 2^n \in Nat \ {0}
    BY <2>1, WordNumbers, PowerNext
  <2> HIDE DEF n
  <2>3. ToS(a) \div 2^n \in Int
    BY <2>2, DivModOf
  <2>4. Sra(a, n) \in Word
    BY <2>1, <2>3, SraShifts, ToUWord
  <2> QED
    BY <1>9, <2>4 DEF RegValues, n
<1> QED
  BY <1>4, <1>5, <1>6, <1>7, <1>8, <1>9 DEF RegOps

(* The amount of an immediate shift is that of its field. *)
ImmFits(op, imm) == imm \in Int /\ (op \in {"slli", "srli", "srai"} => imm \in 0..(XLEN - 1))

LEMMA ImmValueWord ==
  ASSUME NEW op \in ImmOps, NEW a \in Word, NEW imm, ImmFits(op, imm)
  PROVE  ImmValue(op, a, imm) \in Word
<1>1. a \in Int /\ imm \in Int /\ 0 \in Word /\ 1 \in Word
  BY WordNumbers, WordSize DEF ImmFits
<1>2. CASE op = "addi"
  BY <1>1, <1>2, ToUWord DEF ImmValue
<1>3. CASE op \in {"slti", "sltiu"}
  BY <1>1, <1>3 DEF ImmValue, Truth
<1>4. CASE op \in {"xori", "ori", "andi"}
  BY <1>4, WordOfWord DEF ImmValue, Xor, Or, And
<1>5. CASE op \in {"slli", "srli", "srai"}
  <2>1. imm \in 0..(XLEN - 1) /\ imm \in 0..32
    BY <1>5, WordSize DEF ImmFits
  <2>2. 2^imm \in Nat \ {0}
    BY <2>1, PowerNext
  <2>3. ToS(a) \in Int
    BY WordNumbers
  <2>4. ToS(a) \div 2^imm \in Int
    BY <2>2, <2>3, DivModOf
  <2>5. Sra(a, imm) \in Word
    BY <2>1, <2>4, SraShifts, ToUWord
  <2>6. a \div 2^imm \in Word
    BY <2>1, ShiftRight
  <2>7. a * 2^imm \in Int
    BY <1>1, <2>2
  <2>8. ToU(a * 2^imm) \in Word
    BY <2>7, ToUWord
  <2> QED
    BY <1>5, <2>5, <2>6, <2>8 DEF ImmValue
<1> QED
  BY <1>2, <1>3, <1>4, <1>5 DEF ImmOps

LEMMA ExtendedWord ==
  ASSUME NEW op \in LoadOps, NEW b \in [0..(Width(op) - 1) -> Byte]
  PROVE  Extended(op, b) \in Word
<1>1. Width(op) \in {1, 2, 4}
  BY DEF Width, LoadOps
<1>2. FromBytes(b, Width(op)) \in Word
  BY <1>1, FromBytesWord
<1> DEFINE v == FromBytes(b, Width(op))
           k == Width(op) * ByteBits - 1
<1>3. v \in Int
  BY <1>2, WordNumbers
<1>4. k + 1 \in 0..32
  <2>1. CASE Width(op) = 1
    BY <2>1, WordSize
  <2>2. CASE Width(op) = 2
    BY <2>2, WordSize
  <2>3. CASE Width(op) = 4
    BY <2>3, WordSize
  <2> QED
    BY <1>1, <2>1, <2>2, <2>3
<1> HIDE DEF k, v
<1>5. 2^(k + 1) \in Int
  <2>1. Pow(k + 1) \in Nat \ {0}
    BY <1>4, PowType
  <2> QED
    BY <2>1 DEF Pow
<1>6. v - 2^(k + 1) \in Int
  BY <1>3, <1>5
<1>7. Sext(v, k) \in Int
  BY <1>3, <1>6 DEF Sext
<1> QED
  BY <1>2, <1>7, ToUWord DEF Extended, k, v
-----------------------------------------------------------------------------
(* What a handler computes is what the instruction set asks for, except by *)
(* slti, and by sll and srl with an amount of XLEN and more.               *)

LEMMA SmallAmount ==
  ASSUME NEW b \in 0..(XLEN - 1)
  PROVE  b % XLEN = b /\ b \in Word /\ ToU(b) = b
BY WordSize, WordNumbers, ToUSame

LEMMA RegAgrees ==
  ASSUME NEW op \in RegOps, NEW a \in Word, NEW b \in Word,
         op \in {"sll", "srl"} => b < XLEN
  PROVE  RegValues(op, a, b) = {IsaReg(op, a, b)}
<1>1. a \in Int /\ b \in Int /\ XLEN \in Nat \ {0} /\ b >= 0
  BY WordNumbers, WordSize DEF Word
<1>2. CASE op \in {"add", "sub"}
  BY <1>2 DEF RegValues, IsaReg
<1>3. CASE op \in {"slt", "sltu"}
  BY <1>3 DEF RegValues, IsaReg, Truth, IsTrue
<1>4. CASE op \in {"sll", "srl"}
  <2>1. b \in 0..(XLEN - 1)
    BY <1>1, <1>4
  <2>2. b % XLEN = b
    BY <2>1, SmallAmount
  <2>3. Amounts(b) = {b}
    BY <1>4 DEF Amounts
  <2>4. RegValues(op, a, b) = {IF op = "sll" THEN ToU(a * 2^b) ELSE a \div 2^b}
    BY <1>4, <2>3 DEF RegValues
  <2> QED
    BY <1>4, <2>2, <2>4 DEF IsaReg
<1>5. CASE op \in {"xor", "or", "and"}
  BY <1>5 DEF RegValues, IsaReg
<1>6. CASE op = "sra"
  <2> DEFINE n == b % XLEN
  <2>1. n \in 0..(XLEN - 1)
    BY <1>1, DivModOf
  <2> HIDE DEF n
  <2>2. Sra(a, n) = ToU(ToS(a) \div 2^n)
    BY <2>1, SraShifts
  <2> QED
    BY <1>6, <2>2 DEF RegValues, IsaReg, n
<1> QED
  BY <1>2, <1>3, <1>4, <1>5, <1>6 DEF RegOps

LEMMA ImmAgrees ==
  ASSUME NEW op \in ImmOps \ {"slti"}, NEW a \in Word, NEW imm, ImmFits(op, imm)
  PROVE  ImmValue(op, a, imm) = IsaImm(op, a, imm)
<1>1. a \in Int /\ imm \in Int
  BY WordNumbers DEF ImmFits
<1>2. CASE op = "addi"
  <2>1. IsaImm(op, a, imm) = ToU(a + ToU(imm))
    BY <1>2 DEF IsaImm, IsaReg, RegForm
  <2> QED
    BY <1>1, <1>2, <2>1, ToUSum DEF ImmValue
<1>3. CASE op \in {"sltiu", "xori", "ori", "andi"}
  BY <1>3 DEF IsaImm, IsaReg, RegForm, ImmValue, Truth, IsTrue
<1>4. CASE op \in {"slli", "srli", "srai"}
  <2>1. imm \in 0..(XLEN - 1)
    BY <1>4 DEF ImmFits
  <2>2. ToU(imm) % XLEN = imm
    BY <2>1, SmallAmount
  <2>3. Sra(a, imm) = ToU(ToS(a) \div 2^imm)
    BY <2>1, SraShifts
  <2> QED
    BY <1>4, <2>2, <2>3 DEF IsaImm, IsaReg, RegForm, ImmValue
<1> QED
  BY <1>2, <1>3, <1>4 DEF ImmOps

LEMMA BranchAgrees ==
  ASSUME NEW op \in BranchOps, NEW a \in Word, NEW b \in Word
  PROVE  Taken(op, a, b) <=> IsaTaken(op, a, b)
<1>1. a \in Int /\ b \in Int /\ ToS(a) \in Int /\ ToS(b) \in Int
  BY WordNumbers
<1>2. CASE op \in {"beq", "bne"}
  BY <1>2 DEF Taken, IsaTaken
<1>3. CASE op \in {"blt", "bge"}
  BY <1>1, <1>3 DEF Taken, IsaTaken, IsaReg, IsTrue
<1>4. CASE op \in {"bltu", "bgeu"}
  BY <1>1, <1>4 DEF Taken, IsaTaken, IsaReg, IsTrue
<1> QED
  BY <1>2, <1>3, <1>4 DEF BranchOps
-----------------------------------------------------------------------------
(* The memory.  The lemmas speak of one access: n bytes from addr.         *)

LEMMA FirstRegion ==
  ASSUME NEW S, S \subseteq Nat, S # {}
  PROVE  Min(S) \in S
<1>1. \E n \in S : \A k \in S : ~(<<k, n>> \in OpToRel(<, Nat))
  BY NatLessThanWellFounded, WFMin
<1>2. PICK n \in S : \A k \in S : ~(<<k, n>> \in OpToRel(<, Nat))
  BY <1>1
<1>3. \A k \in S : n <= k
  <2> SUFFICES ASSUME NEW k \in S, ~(n <= k)
               PROVE  FALSE
    OBVIOUS
  <2>1. k \in Nat /\ n \in Nat /\ k < n
    OBVIOUS
  <2>2. <<k, n>> \in OpToRel(<, Nat)
    BY <2>1 DEF OpToRel
  <2> QED
    BY <1>2, <2>2
<1> QED
  BY <1>3 DEF Min

(* What the first region that accepts an address says of it.               *)
LEMMA DeviceOfAddress ==
  ASSUME NEW addr \in Word
  PROVE  /\ Device(addr) \in {"none", "rom", "ram"}
         /\ Device(addr) # "none" => Offset(addr) \in Nat
<1>1. CASE Regions(addr) = {}
  BY <1>1 DEF Device
<1>2. CASE Regions(addr) # {}
  <2> DEFINE i == Min(Regions(addr))
  <2>1. Regions(addr) \subseteq Nat
    BY ExecAssumption DEF Regions
  <2>2. i \in Regions(addr)
    BY <1>2, <2>1, FirstRegion
  <2> HIDE DEF i
  <2>3. i \in DOMAIN MemMap /\ Map!InRange(addr, MemMap[i])
    BY <2>2 DEF Regions
  <2>4. MemMap[i] \in Map!Region
    BY <2>3, ExecAssumption
  <2>5. /\ MemMap[i].mem \in {"rom", "ram"} /\ MemMap[i].addr \in Nat
        /\ addr >= MemMap[i].addr
    BY <2>3, <2>4, WordSize DEF Map!Region, Map!Address, Map!InRange
  <2>6. addr \in Nat
    BY WordSize DEF Word
  <2> QED
    BY <1>2, <2>5, <2>6 DEF Device, Offset, i
<1> QED
  BY <1>1, <1>2

(* The offset lies in the region: one whose end wraps accepts nothing.     *)
LEMMA OffsetInRegion ==
  ASSUME NEW addr \in Word, Device(addr) = "ram",
         \A i \in DOMAIN MemMap : MemMap[i].mem = "ram" => MemMap[i].len <= 2^XLEN - 4
  PROVE  Offset(addr) + 4 < 2^XLEN
<1> DEFINE i == Min(Regions(addr))
           M == 2^XLEN
<1>1. Regions(addr) # {}
  BY DEF Device
<1>2. Regions(addr) \subseteq Nat
  BY ExecAssumption DEF Regions
<1>3. i \in Regions(addr)
  BY <1>1, <1>2, FirstRegion
<1>4. MemMap[i].mem = "ram" /\ Offset(addr) = addr - MemMap[i].addr
  BY <1>1 DEF Device, Offset
<1> HIDE DEF i
<1>5. i \in DOMAIN MemMap /\ Map!InRange(addr, MemMap[i])
  BY <1>3 DEF Regions
<1>6. MemMap[i] \in Map!Region
  BY <1>5, ExecAssumption
<1> DEFINE r == MemMap[i]
<1>7. /\ r.addr \in 0..(M - 1) /\ r.len \in 0..(M - 1) /\ r.len <= M - 4
      /\ addr >= r.addr /\ addr < (r.addr + r.len) % M
  BY <1>4, <1>5, <1>6 DEF Map!Region, Map!Address, Map!InRange, Map!End
<1>8. M \in Nat \ {0} /\ addr \in Nat
  BY WordSize DEF Word
<1> DEFINE b == r.addr
           l == r.len
<1> HIDE DEF M, b, l
<1>9. b + l < M
  <2> SUFFICES ASSUME b + l >= M PROVE FALSE
    BY <1>7, <1>8 DEF b, l
  <2> DEFINE e == b + l - M
  <2>1. e \in 0..(M - 1) /\ b + l = M * 1 + e
    BY <1>7, <1>8 DEF b, l
  <2>2. e = b + l - M
    OBVIOUS
  <2> HIDE DEF e
  <2>3. (M * 1 + e) % M = e
    BY <1>8, <2>1, DivMod
  <2>4. (b + l) % M = e
    BY <2>1, <2>3
  <2> QED
    BY <1>7, <1>8, <2>2, <2>4 DEF b, l
<1>10. (b + l) % M = b + l
  BY <1>7, <1>8, <1>9 DEF b, l
<1>11. addr - b + 4 < M
  BY <1>7, <1>8, <1>10 DEF b, l
<1> QED
  BY <1>4, <1>11 DEF b, M

(* A sum that does not wrap is the sum. *)
LEMMA DeviceEndFits ==
  ASSUME NEW addr, NEW n \in {1, 2, 4}, Offset(addr) \in Nat, Offset(addr) + 4 < 2^XLEN
  PROVE  DeviceEnd(addr, n) = Offset(addr) + n
<1>1. Offset(addr) + n \in Word
  BY WordSize DEF Word
<1> QED
  BY <1>1, ToUSame DEF DeviceEnd

(* A memory the devices may hold. *)
Ram == [0..(RamLen - 1) -> Byte]

LEMMA ReadBytes ==
  ASSUME NEW ram \in Ram, NEW addr \in Word, NEW n \in {1, 2, 4}
  PROVE  Read(ram, addr, n) \subseteq [0..(n - 1) -> Byte]
<1>1. 0 \in Byte
  BY ByteNumbers
<1>2. CASE Device(addr) = "none"
  BY <1>2 DEF Read
<1>3. CASE Device(addr) = "rom"
  BY <1>1, <1>3 DEF Read
<1>4. CASE Device(addr) = "ram"
  <2>1. Offset(addr) \in Nat
    BY <1>4, DeviceOfAddress
  <2>2. ASSUME Offset(addr) + n <= RamLen, NEW k \in 0..(n - 1)
        PROVE  ram[Offset(addr) + k] \in Byte
    <3>1. Offset(addr) + k \in 0..(RamLen - 1)
      BY <2>1, <2>2, ExecAssumption
    <3> QED
      BY <3>1 DEF Ram
  <2> DEFINE found == [k \in 0..(n - 1) |-> ram[Offset(addr) + k]]
  <2>3. Offset(addr) + n <= RamLen => found \in [0..(n - 1) -> Byte]
    BY <2>2
  <2>4. \/ Read(ram, addr, n) = {} \/ Read(ram, addr, n) = [0..(n - 1) -> Byte]
        \/ ~(Offset(addr) + n > RamLen) /\ Read(ram, addr, n) = {found}
    BY <1>4 DEF Read
  <2>5. Offset(addr) + n > RamLen \/ Offset(addr) + n <= RamLen
    BY <2>1, ExecAssumption
  <2> HIDE DEF found
  <2> QED
    BY <2>3, <2>4, <2>5
<1> QED
  BY <1>2, <1>3, <1>4, DeviceOfAddress

(* The bytes of a memory from an address on. *)
RamBytes(ram, addr, n) == [k \in 0..(n - 1) |-> ram[Offset(addr) + k]]

(* Where the sum does not wrap, mem_ram reads what it holds or refuses.    *)
LEMMA RamRead ==
  ASSUME NEW ram, NEW addr, NEW n \in {1, 2, 4}, Device(addr) = "ram",
         Offset(addr) \in Nat, Offset(addr) + 4 < 2^XLEN
  PROVE  Read(ram, addr, n) = IF Offset(addr) + n > RamLen THEN {}
                              ELSE {RamBytes(ram, addr, n)}
<1>1. DeviceEnd(addr, n) = Offset(addr) + n
  BY DeviceEndFits
<1> QED
  BY <1>1 DEF Read, RamBytes

(* ... and it writes into its vector. *)
RamWritten(ram, addr, n, w) ==
  [i \in 0..(RamLen - 1) |->
     IF i \in Offset(addr)..(Offset(addr) + n - 1)
     THEN ByteOf(w, i - Offset(addr)) ELSE ram[i]]

LEMMA StoreInRam ==
  ASSUME NEW ram \in Ram, NEW addr \in Word, NEW n \in {1, 2, 4}, NEW w,
         Writable(addr, n), Offset(addr) + 4 < 2^XLEN
  PROVE  /\ Device(addr) = "ram" /\ Offset(addr) \in Nat /\ Offset(addr) + n <= RamLen
         /\ Written(ram, addr, n, w) = RamWritten(ram, addr, n, w)
<1> DEFINE place == Offset(addr)..(Offset(addr) + n - 1)
<1>1. Device(addr) = "ram" /\ DeviceEnd(addr, n) <= RamLen
  BY DEF Writable
<1>2. Offset(addr) \in Nat
  BY <1>1, DeviceOfAddress
<1>3. Offset(addr) + n <= RamLen
  BY <1>1, <1>2, DeviceEndFits
<1>4. place \subseteq 0..(RamLen - 1)
  BY <1>2, <1>3, ExecAssumption
<1>5. DOMAIN ram = 0..(RamLen - 1)
  BY DEF Ram
<1> HIDE DEF place
<1>6. DOMAIN ram \cup place = 0..(RamLen - 1)
  BY <1>4, <1>5
<1> QED
  BY <1>1, <1>2, <1>3, <1>6 DEF Written, RamWritten, place

LEMMA WrittenBytes ==
  ASSUME NEW ram \in Ram, NEW addr \in Word, NEW n \in {1, 2, 4}, NEW w \in Word,
         Writable(addr, n), Offset(addr) + 4 < 2^XLEN
  PROVE  Written(ram, addr, n, w) \in Ram
<1>1. /\ Offset(addr) \in Nat
      /\ Written(ram, addr, n, w) = RamWritten(ram, addr, n, w)
  BY StoreInRam
<1>2. ASSUME NEW i \in 0..(RamLen - 1), i \in Offset(addr)..(Offset(addr) + n - 1)
      PROVE  ByteOf(w, i - Offset(addr)) \in Byte
  <2>1. i - Offset(addr) \in 0..3
    BY <1>1, <1>2, ExecAssumption
  <2> QED
    BY <2>1, ByteOfByte
<1> QED
  BY <1>1, <1>2 DEF Ram, RamWritten

(* What is stored is what is read from the same place. *)
LEMMA StoredIsRead ==
  ASSUME NEW ram \in Ram, NEW addr \in Word, NEW n \in {1, 2, 4}, NEW w \in Word,
         Writable(addr, n), Offset(addr) + 4 < 2^XLEN
  PROVE  Read(Written(ram, addr, n, w), addr, n) = {BytesOf(w, n)}
<1> DEFINE after == Written(ram, addr, n, w)
<1>1. /\ Device(addr) = "ram" /\ Offset(addr) + n <= RamLen /\ Offset(addr) \in Nat
      /\ after = RamWritten(ram, addr, n, w)
  BY StoreInRam
<1> HIDE DEF after
<1>2. ASSUME NEW k \in 0..(n - 1)
      PROVE  after[Offset(addr) + k] = ByteOf(w, k)
  <2> DEFINE i == Offset(addr) + k
  <2>1. /\ i \in 0..(RamLen - 1) /\ i \in Offset(addr)..(Offset(addr) + n - 1)
        /\ i - Offset(addr) = k
    BY <1>1, ExecAssumption
  <2> HIDE DEF i
  <2>2. after[i] = ByteOf(w, i - Offset(addr))
    BY <1>1, <2>1 DEF RamWritten
  <2> QED
    BY <2>1, <2>2 DEF i
<1>3. Read(after, addr, n) = {RamBytes(after, addr, n)}
  <2>1. ~(Offset(addr) + n > RamLen)
    BY <1>1, ExecAssumption
  <2>2. Read(after, addr, n) = IF Offset(addr) + n > RamLen THEN {}
                               ELSE {RamBytes(after, addr, n)}
    BY <1>1, RamRead
  <2> QED
    BY <2>1, <2>2
<1>4. RamBytes(after, addr, n) = BytesOf(w, n)
  BY <1>2 DEF BytesOf, RamBytes
<1> QED
  BY <1>3, <1>4 DEF after

-----------------------------------------------------------------------------
(* The handler of an instruction. *)
LEMMA HandlerOf ==
  ASSUME NEW d, NEW h
  PROVE  /\ d.op \in RegOps => Exec(d, h) = ExecReg(d, h)
         /\ d.op \in ImmOps => Exec(d, h) = ExecImm(d, h)
         /\ d.op = "lui" => Exec(d, h) = Lui(d, h)
         /\ d.op = "auipc" => Exec(d, h) = Auipc(d, h)
         /\ d.op \in BranchOps => Exec(d, h) = Branch(d, h)
         /\ d.op = "jal" => Exec(d, h) = Jal(d, h)
         /\ d.op = "jalr" => Exec(d, h) = Jalr(d, h)
         /\ d.op \in LoadOps => Exec(d, h) = Load(d, h)
         /\ d.op \in StoreOps => Exec(d, h) = Store(d, h)
         /\ d.op \in IdleOps => Exec(d, h) = {h}
BY DEF Exec, RegOps, ImmOps, BranchOps, LoadOps, StoreOps, IdleOps
=============================================================================
