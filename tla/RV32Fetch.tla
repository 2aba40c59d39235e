----------------------------- MODULE RV32Fetch -----------------------------
(***************************************************************************)
(* rv32::inst_fetch (src/RV32.cc), with and without a decompressor.  The   *)
(* decompressor is an object of the client (rv32_comprs of RVdefs.h) that  *)
(* the repository does not implement: given the lower half of a word it    *)
(* says whether that is a compressed instruction, and writes the full one  *)
(* it stands for if it is.                                                 *)
(*                                                                         *)
(* What it returns is declared an rv_err and read as a bool.  A comprs is  *)
(* "none", the null pointer, "errs", which returns RV_EOK (zero) for a     *)
(* compressed instruction and an error for another one, or "tells", which  *)
(* returns what a bool would be.                                           *)
(***************************************************************************)
EXTENDS RV32IExec

CONSTANT Expand(_)   \* the word a compressed half stands for

(* A half that does not end in 11 is a compressed instruction. *)
Compressed(half) == half % 4 # 3

(* What if (m_comprs->isCompress(...)) makes of the answer. *)
ReadsAsTrue(comprs, half) ==
  CASE comprs = "tells" -> Compressed(half)
    [] comprs = "errs"  -> ~Compressed(half)

(* Mutant: isCompress leaves out alone. *)
Bug_OutAfter(half, out) == out

(* out, after isCompress has had it. *)
OutAfter(half, out) == IF Compressed(half) THEN Expand(half) ELSE out

Fetched(inst, is_compress) == [ok |-> TRUE, inst |-> inst, is_compress |-> is_compress]
NotFetched == [ok |-> FALSE]

(* Without a decompressor is_compress keeps what run() gave it, false.     *)
FetchWord(ram, addr) ==
  IF Read(ram, addr, 4) = {} THEN {NotFetched}
  ELSE {Fetched(FromBytes(b, 4), FALSE) : b \in Read(ram, addr, 4)}

(* Two halves, the lower one first. *)
Joined(low, high) == low + high * 2^(2 * ByteBits)

(* b is the lower half.  The upper one is read from the same address, so   *)
(* what is read is the lower half again.                                   *)
FetchHalf(comprs, b, out) ==
  LET half == FromBytes(b, 2)
  IN  IF ReadsAsTrue(comprs, half) THEN Fetched(OutAfter(half, out), TRUE)
      ELSE Fetched(Joined(half, half), FALSE)

(* inst_fetch: the results it may have; out is the instruction that was    *)
(* fetched before, which run() passes by reference.                        *)
inst_fetch(comprs, ram, addr, out) ==
  IF comprs = "none" THEN FetchWord(ram, addr)
  ELSE IF Read(ram, addr, 2) = {} THEN {NotFetched}
  ELSE {FetchHalf(comprs, b, out) : b \in Read(ram, addr, 2)}
=============================================================================
