------------------------------ MODULE RVWords ------------------------------
(***************************************************************************)
(* The machine words of RV32 and what C++ does with them: uint32_t and     *)
(* int32_t readings of a word, sext of RVdefs.h, and the bitwise           *)
(* operators.  A byte has ByteBits bits: 8 in the code, fewer where TLC    *)
(* has to go through all words.  A word is four bytes, a half two.         *)
(***************************************************************************)
EXTENDS Integers

CONSTANT ByteBits

ASSUME WordsAssumption == ByteBits \in 1..8

XLEN == 4 * ByteBits

Byte == 0..(2^ByteBits - 1)
Word == 0..(2^XLEN - 1)

(* An integer stored into a uint32_t, and a uint32_t read as an int32_t.   *)
ToU(n) == n % 2^XLEN
ToS(w) == IF w >= 2^(XLEN - 1) THEN w - 2^XLEN ELSE w

(* rv32_sext(v, bit), as an int32_t; every caller's v has no bit above bit.*)
Sext(v, bit) == IF v >= 2^bit THEN v - 2^(bit + 1) ELSE v

(* The bits that are set in a word, and the word of a set of bits. *)
Bits(w) == {i \in 0..(XLEN - 1) : (w \div 2^i) % 2 = 1}

WordOf(B) ==
  LET low[n \in 0..XLEN] ==
        IF n = 0 THEN 0
        ELSE low[n - 1] + IF n - 1 \in B THEN 2^(n - 1) ELSE 0
  IN  low[XLEN]

And(a, b) == WordOf(Bits(a) \cap Bits(b))
Or(a, b)  == WordOf(Bits(a) \cup Bits(b))
Xor(a, b) == WordOf((Bits(a) \cup Bits(b)) \ (Bits(a) \cap Bits(b)))

(* The number in n bytes, the last of them the most significant. *)
FromBytes(b, n) ==
  CASE n = 1 -> b[0]
    [] n = 2 -> b[0] + b[1] * 2^ByteBits
    [] n = 4 -> b[0] + b[1] * 2^ByteBits
                  + b[2] * 2^(2 * ByteBits) + b[3] * 2^(3 * ByteBits)
=============================================================================
