---------------------------- MODULE MCRV32Config ----------------------------
(***************************************************************************)
(* Everything a caller configures before the first start: the memory map   *)
(* (add_mem) and the instruction sets with the log.  The two parts share   *)
(* no state and no condition, so each is explored with the other one at    *)
(* rest.                                                                   *)
(***************************************************************************)
EXTENDS RV32Mems, RV32Config

Word32(bbb, cc, funct3, funct7, rs2) ==
  [aa |-> 3, bbb |-> bbb, cc |-> cc, rd |-> 1, funct3 |-> funct3,
   rs1 |-> 2, rs2 |-> rs2, funct7 |-> funct7]

(* SYSTEM words: ecall, ebreak, sret, wfi, mret, sfence.vma, the six of    *)
(* Zicsr and the code between them that is none; addi; one that is not     *)
(* RV32I's.                                                                *)
MCWords ==
  {Word32(4, 3, 0, f[1], f[2]) :
     f \in {<<0, 0>>, <<0, 1>>, <<8, 2>>, <<8, 5>>, <<24, 2>>, <<17, 3>>}}
    \cup {Word32(4, 3, funct3, 26, 0) : funct3 \in 1..7}
    \cup {Word32(4, 0, 0, 0, 0), Word32(4, 2, 0, 0, 0)}

(* "Z" stands for any name behind the others. *)
MCNames == <<"F", "I", "PRIVILEGED", "Z">>

MCUpper ==
  [s \in Spellings |->
     CASE s = "F" -> 1 [] s \in {"I", "i"} -> 2 [] s = "PRIVILEGED" -> 3 [] s = "Z" -> 4]

MCClass ==
  [o \in Objects |->
     CASE o = "rv32i" -> "I" [] o = "zicsr" -> "Zicsr" [] o = "priv" -> "Privileged"]

Init == MemsInit /\ ConfigInit

Next ==
  \/ MemsNext /\ added = <<>> /\ ~m_log /\ UNCHANGED config
  \/ ConfigNext /\ m_mems = <<>> /\ UNCHANGED m_mems

Spec == Init /\ [][Next]_<<m_mems, config>>
=============================================================================
