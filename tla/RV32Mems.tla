------------------------------ MODULE RV32Mems ------------------------------
(***************************************************************************)
(* The memory map m_mems of class rv32: rv32::add_mem (src/RV32.cc), and   *)
(* how mem_read, mem_write and inst_fetch find the device that answers an  *)
(* address (mem_is_range, mem_read and mem_write of RVdefs.h): the first   *)
(* region, in the order of the calls, whose range test accepts it.  The    *)
(* range tests add addresses in uint32_t, so sums wrap at AddrSpace.  When *)
(* add_mem may be called at all (m_mutex, m_started) is RV32VM's matter.   *)
(***************************************************************************)
EXTENDS RV32Regions, Sequences

CONSTANT MaxMems      \* bound on the length of the map

ASSUME MemsAssumption == AddrSpace \in Nat \ {0} /\ MaxMems \in Nat

VARIABLE m_mems

(* The regions whose range test accepts a; the loops of mem_read, mem_write*)
(* and inst_fetch stop at the first of them.                               *)
Accepting(a) == {i \in DOMAIN m_mems : InRange(a, m_mems[i])}

Answers(i, a) == i \in Accepting(a) /\ \A j \in Accepting(a) : i <= j

(* Mutants: the first, the second, the third comparison is missing. *)
Bug_ClashSameStart(r, it) ==
  \/ r.addr > it.addr /\ r.addr < End(it)
  \/ End(r) > it.addr /\ End(r) < End(it)

Bug_ClashInside(r, it) ==
  \/ it.addr = r.addr
  \/ End(r) > it.addr /\ End(r) < End(it)

Bug_ClashEnd(r, it) ==
  \/ it.addr = r.addr
  \/ r.addr > it.addr /\ r.addr < End(it)

(* What add_mem compares a new region r with each region it already has.   *)
Clash(r, it) ==
  \/ it.addr = r.addr
  \/ r.addr > it.addr /\ r.addr < End(it)
  \/ End(r) > it.addr /\ End(r) < End(it)

MemsInit == m_mems = <<>>

(* Mutant: the region is put in front. *)
Bug_AddMem(r) ==
  /\ Len(m_mems) < MaxMems
  /\ \A i \in DOMAIN m_mems : ~Clash(r, m_mems[i])
  /\ m_mems' = <<r>> \o m_mems

AddMem(r) ==
  /\ Len(m_mems) < MaxMems
  /\ \A i \in DOMAIN m_mems : ~Clash(r, m_mems[i])
  /\ m_mems' = Append(m_mems, r)

(* A region that clashes is refused and changes nothing.                   *)
AddMemRefused(r) ==
  /\ \E i \in DOMAIN m_mems : Clash(r, m_mems[i])
  /\ UNCHANGED m_mems

MemsNext == \E r \in Region : AddMem(r) \/ AddMemRefused(r)

MemsSpec == MemsInit /\ [][MemsNext]_m_mems
-----------------------------------------------------------------------------
MemsTypeOK == m_mems \in Seq(Region) /\ Len(m_mems) <= MaxMems

(* No two regions start at the same address, and none starts inside one    *)
(* that was added before it.                                               *)
StartsApart ==
  \A i, j \in DOMAIN m_mems :
    i < j => /\ m_mems[i].addr # m_mems[j].addr
             /\ ~InRange(m_mems[j].addr, m_mems[i])

(* The inductive invariant of the memory map. *)
MemsInv == MemsTypeOK /\ StartsApart

(* A region answers its own first address: the device the caller added     *)
(* there, and no other one, is reached at offset 0.  Only a region that is *)
(* empty, or that reaches the last address so that its end wraps, answers  *)
(* none at all.                                                            *)
FirstByteOwned ==
  \A i \in DOMAIN m_mems :
    LET r == m_mems[i]
    IN  IF r.len > 0 /\ r.addr + r.len < AddrSpace THEN Answers(i, r.addr)
        ELSE \A a \in Address : i \notin Accepting(a)

(* Regions may overlap after all: add_mem refuses neither a region that    *)
(* contains an earlier one nor one that ends where it ends.  Nothing else  *)
(* goes through: where two regions both accept an address, the later one   *)
(* begins below the earlier one and ends no earlier than it ends.          *)
OverlapsContain ==
  \A i, j \in DOMAIN m_mems :
    i < j /\ (\E a \in Address : InRange(a, m_mems[i]) /\ InRange(a, m_mems[j]))
      => m_mems[j].addr < m_mems[i].addr /\ End(m_mems[j]) >= End(m_mems[i])

(* Adding a region takes no address away from the device that answers it.  *)
RoutesStay ==
  [][\A a \in Address, i \in DOMAIN m_mems : Answers(i, a) => Answers(i, a)']_m_mems
=============================================================================
