---------------------------- MODULE RV32Regions ----------------------------
(***************************************************************************)
(* A region of the memory map of class rv32 (rv32_mem_info of RVdefs.h)    *)
(* and the range test every access applies to it (mem_is_range).  Sums of  *)
(* addresses are uint32_t, so they wrap at AddrSpace.                      *)
(***************************************************************************)
EXTENDS Naturals

CONSTANTS AddrSpace,  \* number of addresses: 2^32 in the code
          Devices     \* the rv32_mem objects

Address == 0..(AddrSpace - 1)

(* rv32_mem_info *)
Region == [addr : Address, len : Address, mem : Devices]

(* uint32_t addr + length *)
End(r) == (r.addr + r.len) % AddrSpace

(* mem_is_range *)
InRange(a, r) == a >= r.addr /\ a < End(r)
=============================================================================
