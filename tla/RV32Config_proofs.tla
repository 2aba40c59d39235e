------------------------- MODULE RV32Config_proofs -------------------------
(***************************************************************************)
(* What the order of the configuring calls decides, for every set of names *)
(* and objects, every address space, every set of devices and any number   *)
(* of calls.  ConfigInv and MemsInv are inductive as they are;             *)
(* MisaTellsI is, with ConfigInv: a call adds one object behind all others,*)
(* so only what its own class does to misa is to be compared with what the *)
(* new last place of the history says.                                     *)
(***************************************************************************)
EXTENDS RV32Mems, RV32Config, WellFoundedInduction, TLAPS

(* What add_inst does to the map and the history.                          *)
LEMMA Added ==
  ASSUME ConfigTypeOK, NEW s \in Spellings, NEW o \in Objects, AddInst(s, o)
  PROVE  /\ Len(added) \in Nat
         /\ DOMAIN added = 1..Len(added)
         /\ DOMAIN added' = 1..(Len(added) + 1)
         /\ \A k \in DOMAIN added : added'[k] = added[k] /\ added[k] \in DOMAIN m_insts
         /\ added'[Len(added) + 1] = Upper[s]
         /\ Upper[s] \in DOMAIN Names
         /\ DOMAIN m_insts' = DOMAIN m_insts \cup {Upper[s]}
         /\ \A n \in DOMAIN m_insts : m_insts'[n] = m_insts[n]
         /\ m_insts'[Upper[s]] = o
         /\ Upper[s] \notin DOMAIN m_insts
<1>1. added \in Seq(DOMAIN Names) /\ added' = Append(added, Upper[s])
  BY DEF ConfigTypeOK, AddInst
<1>2. Upper[s] \in DOMAIN Names
  BY ConfigAssumption
<1>3. DOMAIN m_insts = {added[k] : k \in DOMAIN added}
  BY DEF ConfigTypeOK
<1> QED
  BY <1>1, <1>2, <1>3 DEF AddInst

(* The classes of the objects in the history stay, the last one is new.    *)
LEMMA AddedClasses ==
  ASSUME ConfigTypeOK, NEW s \in Spellings, NEW o \in Objects, AddInst(s, o)
  PROVE  /\ \A k \in DOMAIN added : ClassAt(k)' = ClassAt(k)
         /\ \A k : k = Len(added) + 1 => ClassAt(k)' = Class[o]
         /\ Class[o] \in {"I", "Zicsr", "Privileged"}
<1>1. \A k \in DOMAIN added : m_insts'[added'[k]] = m_insts[added[k]]
  BY Added
<1>2. \A k : k = Len(added) + 1 => m_insts'[added'[k]] = o
  <2>1. added'[Len(added) + 1] = Upper[s]
    BY Added
  <2>2. m_insts'[Upper[s]] = o
    BY Added
  <2> QED
    BY <2>1, <2>2
<1>3. Class[o] \in {"I", "Zicsr", "Privileged"}
  BY ConfigAssumption
<1> QED
  BY <1>1, <1>2, <1>3 DEF ClassAt
-----------------------------------------------------------------------------
LEMMA ConfigInvInit == ConfigInit => ConfigInv
<1> SUFFICES ASSUME ConfigInit
             PROVE  ConfigInv
  OBVIOUS
<1>1. DOMAIN added = {} /\ added \in Seq(DOMAIN Names) /\ Len(added) = 0
  BY DEF ConfigInit
<1>2. DOMAIN m_insts = {} /\ m_insts \in [{added[k] : k \in DOMAIN added} -> Objects]
  BY <1>1 DEF ConfigInit
<1>3. m_fp = FALSE /\ m_log = FALSE /\ told = 0 /\ logs = {} /\ m_smode = {}
  BY DEF ConfigInit
<1>4. 0 <= MaxInsts /\ 0 \in 0..Len(added)
  BY <1>1, ConfigAssumption
<1>5. ConfigTypeOK
  BY <1>1, <1>2, <1>3, <1>4 DEF ConfigTypeOK
<1> QED
  BY <1>1, <1>3, <1>5 DEF ConfigInit, ConfigInv, CsrsComplete, LogReaches

LEMMA AddInstInv ==
  ASSUME ConfigInv, NEW L, L = Len(added),
         NEW s \in Spellings, NEW o \in Objects, AddInst(s, o)
  PROVE  ConfigInv'
<1>1. ConfigTypeOK /\ CsrsComplete /\ LogReaches
  BY DEF ConfigInv
<1>2. /\ L \in Nat /\ DOMAIN added = 1..L /\ DOMAIN added' = 1..(L + 1)
      /\ \A k \in DOMAIN added : added'[k] = added[k] /\ added[k] \in DOMAIN m_insts
      /\ added'[L + 1] = Upper[s] /\ Upper[s] \notin DOMAIN m_insts
  BY <1>1, Added
<1>3. /\ DOMAIN m_insts' = DOMAIN m_insts \cup {Upper[s]}
      /\ \A n \in DOMAIN m_insts : m_insts'[n] = m_insts[n]
      /\ m_insts'[Upper[s]] = o
  BY <1>1, Added
<1>4. ConfigTypeOK'
  <2>1. added' \in Seq(DOMAIN Names) /\ Len(added') = L + 1 /\ L + 1 <= MaxInsts
    <3>1. Upper[s] \in DOMAIN Names
      BY <1>1, Added
    <3>2. added \in Seq(DOMAIN Names)
      BY <1>1 DEF ConfigTypeOK
    <3> QED
      BY <1>2, <3>1, <3>2, ConfigAssumption DEF AddInst
  <2>2. m_insts' \in [{added'[k] : k \in DOMAIN added'} -> Objects]
    <3>1. DOMAIN m_insts = {added[k] : k \in DOMAIN added}
      BY <1>1 DEF ConfigTypeOK
    <3>2. DOMAIN m_insts' = {added'[k] : k \in DOMAIN added'}
      <4>1. \A n : n \in DOMAIN m_insts
                     <=> \E k \in DOMAIN added : n = added'[k]
        BY <1>2, <3>1
      <4>2. \A k : k \in DOMAIN added' <=> k \in DOMAIN added \/ k = L + 1
        BY <1>2
      <4>3. \A n : n \in DOMAIN m_insts' <=> \E k \in DOMAIN added' : n = added'[k]
        BY <1>2, <1>3, <4>1, <4>2, Zenon
      <4> QED
        BY <4>3
    <3>3. \A n \in DOMAIN m_insts : m_insts[n] \in Objects
      BY <1>1 DEF ConfigTypeOK
    <3>4. \A n \in DOMAIN m_insts' : m_insts'[n] \in Objects
      BY <1>3, <3>3
    <3>5. m_insts' = [n \in DOMAIN m_insts' |-> m_insts'[n]]
      BY <1>3 DEF AddInst
    <3> QED
      BY <3>2, <3>4, <3>5
  <2>3. \A j, k \in DOMAIN added' : added'[j] = added'[k] => j = k
    <3>1. \A j, k \in DOMAIN added : added[j] = added[k] => j = k
      BY <1>1 DEF ConfigTypeOK
    <3> QED
      BY <1>2, <3>1
  <2>4. m_fp' \in BOOLEAN /\ (m_fp' <=> \E n \in DOMAIN m_insts' : Names[n] \in {"F", "D"})
    <3>1. m_fp <=> \E n \in DOMAIN m_insts : Names[n] \in {"F", "D"}
      BY <1>1 DEF ConfigTypeOK
    <3>2. m_fp' = (m_fp \/ Names[Upper[s]] \in {"F", "D"})
      BY DEF AddInst
    <3> QED
      BY <1>3, <3>1, <3>2
  <2>5. m_log' \in BOOLEAN /\ told' \in 0..Len(added')
    BY <1>1, <1>2, <2>1 DEF ConfigTypeOK, AddInst
  <2>6. logs' \subseteq Objects /\ m_smode' \subseteq {p \in Objects : Class[p] = "Privileged"}
    BY <1>1 DEF ConfigTypeOK, AddInst
  <2> QED
    BY <2>1, <2>2, <2>3, <2>4, <2>5, <2>6 DEF ConfigTypeOK
<1>5. CsrsComplete'
  <2>1. /\ \A k \in DOMAIN added : ClassAt(k)' = ClassAt(k)
        /\ \A k : k = L + 1 => ClassAt(k)' = Class[o]
        /\ Class[o] \in {"I", "Zicsr", "Privileged"}
    BY <1>1, AddedClasses
  <2>2. (\E k \in DOMAIN added' : ClassAt(k)' = "Privileged")
          <=> \/ \E k \in DOMAIN added : ClassAt(k) = "Privileged"
              \/ Class[o] = "Privileged"
    <3> DEFINE was(k) == ClassAt(k)
               is(k)  == ClassAt(k)'
    <3>1. \A k : k \in DOMAIN added' <=> k \in DOMAIN added \/ k = L + 1
      BY <1>2
    <3>2. /\ \A k \in DOMAIN added : is(k) = was(k)
          /\ \A k : k = L + 1 => is(k) = Class[o]
      BY <2>1
    <3> HIDE DEF was, is
    <3>3. (\E k \in DOMAIN added' : is(k) = "Privileged")
            <=> (\E k \in DOMAIN added : was(k) = "Privileged") \/ Class[o] = "Privileged"
      BY <3>1, <3>2, Zenon
    <3> QED
      BY <3>3 DEF was, is
  <2>3. CASE Class[o] = "Privileged"
    <3>1. csrs' = PrivRegist(csrs)
      BY <2>3 DEF AddInst, Regist
    <3>2. DOMAIN csrs' = PrivCsrs
      BY <1>1, <3>1 DEF PrivRegist, CsrsComplete
    <3> QED
      BY <2>2, <2>3, <3>2 DEF CsrsComplete
  <2>4. CASE Class[o] # "Privileged"
    <3>1. DOMAIN csrs' = DOMAIN csrs
      BY <2>1, <2>4 DEF AddInst, Regist, RegistI
    <3> QED
      BY <1>1, <2>2, <2>4, <3>1 DEF CsrsComplete
  <2> QED
    BY <2>3, <2>4
<1>6. LogReaches'
  <2>1. \A k \in 1..told : k \in DOMAIN added
    BY <1>1, <1>2 DEF ConfigTypeOK
  <2>2. \A k \in 1..told : m_insts'[added'[k]] = m_insts[added[k]]
    BY <1>2, <1>3, <2>1
  <2>3. logs' = logs /\ m_log' = m_log /\ told' = told
    BY DEF AddInst
  <2>4. {m_insts'[added'[k]] : k \in 1..told} = {m_insts[added[k]] : k \in 1..told}
    BY <2>2
  <2>5. logs = IF m_log THEN {m_insts[added[k]] : k \in 1..told} ELSE {}
    BY <1>1 DEF LogReaches
  <2> QED
    BY <2>3, <2>4, <2>5 DEF LogReaches
<1> QED
  BY <1>4, <1>5, <1>6 DEF ConfigInv

LEMMA ConfigInvStep ==
  ASSUME ConfigInv, [ConfigNext]_config
  PROVE  ConfigInv'
<1>1. CASE \E s \in Spellings : \E o \in Objects : AddInst(s, o)
  BY <1>1, AddInstInv
<1>2. CASE SetLog
  <2>1. DOMAIN added = 1..Len(added) /\ Len(added) \in Nat
    BY DEF ConfigInv, ConfigTypeOK
  <2>2. {m_insts[n] : n \in DOMAIN m_insts} = {m_insts[added[k]] : k \in 1..Len(added)}
    BY <2>1 DEF ConfigInv, ConfigTypeOK
  <2>3. ConfigTypeOK'
    BY <1>2, <2>1 DEF ConfigInv, ConfigTypeOK, SetLog
  <2> QED
    BY <1>2, <2>2, <2>3 DEF ConfigInv, SetLog, CsrsComplete, LogReaches, ClassAt
<1>3. ASSUME NEW o \in Objects, NEW ena \in BOOLEAN, SMode(o, ena)
      PROVE  ConfigInv'
  BY <1>3 DEF ConfigInv, SMode, ConfigTypeOK, CsrsComplete, LogReaches, ClassAt
<1>4. CASE UNCHANGED config
  BY <1>4 DEF ConfigInv, config, ConfigTypeOK, CsrsComplete, LogReaches, ClassAt
<1> QED
  BY <1>1, <1>2, <1>3, <1>4 DEF ConfigNext, AddInstRefused

(* The map, the CSRs and the log are what the history of the calls says    *)
(* (RV32.cc:32-52 and 84-98, regist and set_log of the sets).              *)
THEOREM ConfigInvariant == ConfigSpec => []ConfigInv
<1>1. ConfigInit => ConfigInv
  BY ConfigInvInit
<1>2. ConfigInv /\ [ConfigNext]_config => ConfigInv'
  BY ConfigInvStep
<1> QED
  BY <1>1, <1>2, PTL DEF ConfigSpec
-----------------------------------------------------------------------------
LEMMA AddInstMisa ==
  ASSUME ConfigInv, MisaTellsI, NEW L, L = Len(added),
         NEW s \in Spellings, NEW o \in Objects, AddInst(s, o)
  PROVE  MisaTellsI'
<1> DEFINE was(k) == ClassAt(k)
           is(k)  == ClassAt(k)'
           Says(regs) == \E c \in DOMAIN regs : c = CSR_misa /\ 8 \in regs[c]
<1>1. ConfigTypeOK /\ CsrsComplete
  BY DEF ConfigInv
<1>2. L \in Nat /\ DOMAIN added = 1..L /\ DOMAIN added' = 1..(L + 1)
  BY <1>1, Added
<1>3. /\ \A k \in 1..L : is(k) = was(k)
      /\ is(L + 1) = Class[o]
      /\ Class[o] \in {"I", "Zicsr", "Privileged"}
  <2>1. \A k \in DOMAIN added : is(k) = was(k)
    BY <1>1, AddedClasses
  <2>2. \A k : k = L + 1 => is(k) = Class[o]
    BY <1>1, AddedClasses
  <2>3. Class[o] \in {"I", "Zicsr", "Privileged"}
    BY <1>1, AddedClasses
  <2> HIDE DEF was, is
  <2> QED
    BY <1>2, <2>1, <2>2, <2>3
<1>4. Says(csrs) <=> \E j \in 1..L :
                       /\ was(j) = "I"
                       /\ \E k \in 1..L : k < j /\ was(k) = "Privileged"
                       /\ \A k \in 1..L : k > j => was(k) # "Privileged"
  BY <1>2 DEF MisaTellsI
<1>5. CSR_misa \in DOMAIN csrs <=> \E k \in 1..L : was(k) = "Privileged"
  <2>1. CSR_misa \in PrivCsrs
    BY DEF CSR_misa, PrivCsrs, MachineCsrs
  <2> QED
    BY <1>1, <1>2, <2>1 DEF CsrsComplete
<1>6. csrs' = Regist(o, csrs)
  BY DEF AddInst
<1> SUFFICES Says(csrs') <=> \E j \in 1..(L + 1) :
                       /\ is(j) = "I"
                       /\ \E k \in 1..(L + 1) : k < j /\ is(k) = "Privileged"
                       /\ \A k \in 1..(L + 1) : k > j => is(k) # "Privileged"
  BY <1>2 DEF MisaTellsI
<1>7. CASE Class[o] = "Zicsr"
  <2>1. csrs' = csrs
    BY <1>6, <1>7 DEF Regist
  <2> HIDE DEF was, is, Says
  <2> QED
    BY <1>2, <1>3, <1>4, <1>7, <2>1
<1>8. CASE Class[o] = "Privileged"
  <2>1. ~Says(csrs')
    <3>1. csrs' = PrivRegist(csrs)
      BY <1>6, <1>8 DEF Regist
    <3>2. CSR_misa \in PrivCsrs
      BY DEF CSR_misa, PrivCsrs, MachineCsrs
    <3>3. csrs'[CSR_misa] = {30}
      BY <3>1, <3>2 DEF PrivRegist, PrivReset
    <3> QED
      BY <3>3
  <2> HIDE DEF was, is, Says
  <2> QED
    BY <1>2, <1>3, <1>8, <2>1
<1>9. CASE Class[o] = "I"
  <2>1. csrs' = RegistI(csrs)
    BY <1>6, <1>9 DEF Regist
  <2>2. Says(csrs') <=> CSR_misa \in DOMAIN csrs
    BY <2>1 DEF RegistI
  <2> HIDE DEF was, is, Says
  <2>3. Says(csrs') <=> \E k \in 1..L : was(k) = "Privileged"
    BY <1>5, <2>2
  <2>4. \A k \in 1..(L + 1) : ~(k > L + 1)
    BY <1>2
  <2> QED
    BY <1>2, <1>3, <1>9, <2>3, <2>4
<1> QED
  BY <1>3, <1>7, <1>8, <1>9

(* Whatever is added and in whatever order, misa has the bit of "I" just   *)
(* when an RV32I came after the last privileged set                        *)
(* (RV32I.cc:243-249, RV32Privileged.cc:56-134).                           *)
THEOREM MisaTold == ConfigSpec => []MisaTellsI
<1>1. ConfigInit => ConfigInv /\ MisaTellsI
  <2>1. ConfigInit => MisaTellsI
    BY DEF ConfigInit, MisaTellsI
  <2> QED
    BY <2>1, ConfigInvInit
<1>2. ConfigInv /\ MisaTellsI /\ [ConfigNext]_config => ConfigInv' /\ MisaTellsI'
  <2> SUFFICES ASSUME ConfigInv, MisaTellsI, [ConfigNext]_config
               PROVE  MisaTellsI'
    BY ConfigInvStep
  <2>1. CASE \E s \in Spellings : \E o \in Objects : AddInst(s, o)
    BY <2>1, AddInstMisa
  <2>2. CASE SetLog
    BY <2>2 DEF SetLog, MisaTellsI, ClassAt
  <2>3. CASE \E o \in Objects, ena \in BOOLEAN : SMode(o, ena)
    BY <2>3 DEF SMode, MisaTellsI, ClassAt
  <2>4. CASE UNCHANGED config
    BY <2>4 DEF config, MisaTellsI, ClassAt
  <2> QED
    BY <2>1, <2>2, <2>3, <2>4 DEF ConfigNext, AddInstRefused
<1> QED
  BY <1>1, <1>2, PTL DEF ConfigSpec
-----------------------------------------------------------------------------
(* Adding an instruction set moves a word only to that set, and only from  *)
(* a set whose name comes later (RV32.cc:40 and 279-285).                  *)
THEOREM TakersKept == ConfigSpec => TakersStay
<1>1. ASSUME ConfigInv, [ConfigNext]_config, NEW i \in Words, NEW n \in DOMAIN m_insts,
             m_smode' = m_smode, Taken(n, i)
      PROVE  \/ Taken(n, i)'
             \/ \E k \in DOMAIN m_insts' \ DOMAIN m_insts : k < n /\ Taken(k, i)'
  <2>1. ASSUME NEW s \in Spellings, NEW o \in Objects, AddInst(s, o)
        PROVE  \/ Taken(n, i)'
               \/ \E k \in DOMAIN m_insts' \ DOMAIN m_insts : k < n /\ Taken(k, i)'
    <3>1. /\ DOMAIN m_insts' = DOMAIN m_insts \cup {Upper[s]}
          /\ \A k \in DOMAIN m_insts : m_insts'[k] = m_insts[k]
          /\ Upper[s] \notin DOMAIN m_insts /\ Upper[s] \in DOMAIN Names
      BY <1>1, <2>1, Added DEF ConfigInv
    <3>2. DOMAIN m_insts \subseteq Nat /\ Upper[s] \in Nat
      BY <1>1, <3>1, ConfigAssumption DEF ConfigInv, ConfigTypeOK
    <3>3. \A k \in DOMAIN m_insts : Accepts(m_insts[k], i)' <=> Accepts(m_insts[k], i)
      BY <1>1, <3>1 DEF Accepts
    <3>4. \A k \in DOMAIN m_insts : k \in Candidates(i)' <=> k \in Candidates(i)
      BY <3>1, <3>3 DEF Candidates
    <3>5. /\ n \in Candidates(i)' /\ n \in Nat
          /\ \A k \in Candidates(i)' : k = Upper[s] \/ n <= k
      BY <1>1, <3>1, <3>2, <3>4 DEF Taken, Candidates
    <3>6. CASE Upper[s] \in Candidates(i)' /\ Upper[s] < n
      <4>1. \A k \in Candidates(i)' : Upper[s] <= k
        <5>1. Candidates(i)' \subseteq Nat
          BY <3>1, <3>2 DEF Candidates
        <5> QED
          BY <3>2, <3>5, <3>6, <5>1
      <4>2. ASSUME NEW k, k = Upper[s]
            PROVE  Taken(k, i)'
        BY <3>6, <4>1, <4>2 DEF Taken
      <4> QED
        BY <3>1, <3>6, <4>2
    <3>7. CASE ~(Upper[s] \in Candidates(i)' /\ Upper[s] < n)
      <4>1. \A k \in Candidates(i)' : n <= k
        BY <3>2, <3>5, <3>7
      <4> QED
        BY <3>5, <4>1 DEF Taken
    <3> QED
      BY <3>6, <3>7
  <2>2. CASE m_insts' = m_insts
    BY <1>1, <2>2 DEF Taken, Candidates, Accepts
  <2> QED
    BY <1>1, <2>1, <2>2 DEF ConfigNext, AddInstRefused, SetLog, SMode, config
<1>2. ConfigInv /\ [ConfigNext]_config
        => [\A i \in Words, n \in DOMAIN m_insts :
              m_smode' = m_smode /\ Taken(n, i)
                => \/ Taken(n, i)'
                   \/ \E k \in DOMAIN m_insts' \ DOMAIN m_insts :
                        k < n /\ Taken(k, i)']_config
  BY <1>1
<1> QED
  BY <1>2, ConfigInvariant, PTL DEF ConfigSpec, TakersStay
-----------------------------------------------------------------------------
(* A set of natural numbers that is not empty has a least one.             *)
LEMMA Least ==
  ASSUME NEW T \in SUBSET Nat, T # {}
  PROVE  \E n \in T : \A k \in T : n <= k
<1> DEFINE R == OpToRel(<, Nat)
<1>1. IsWellFoundedOn(R, Nat)
  BY NatLessThanWellFounded
<1> HIDE DEF R
<1>2. \E n \in T : \A k \in T : ~(<<k, n>> \in R)
  BY <1>1, WFMin
<1>3. \A k, n \in Nat : k < n => <<k, n>> \in R
  BY DEF R, OpToRel
<1>4. PICK n \in T : \A k \in T : ~(<<k, n>> \in R)
  BY <1>2
<1>5. \A k \in T : ~(k < n)
  BY <1>3, <1>4
<1> QED
  BY <1>5

(* RV32I has no handler for what the other sets accept.                    *)
LEMMA NothingShared ==
  ASSUME NEW i \in Instruction, NEW s \in BOOLEAN,
         CsrIsValid(i) \/ PrivIsValid(i, s)
  PROVE  Decode(i) = Undef
<1>1. i.bbb = 4 /\ i.cc = 3
  BY DEF CsrIsValid, PrivIsValid, System
<1>2. i.funct3 # 0 \/ imm_11_0(i) \notin {0, 1}
  <2>1. i.rs2 \in Nat
    BY DEF Instruction
  <2> QED
    BY <2>1 DEF CsrIsValid, PrivIsValid, imm_11_0
<1>3. Decode11(i) = Undef
  BY <1>1, <1>2 DEF Decode11
<1> QED
  BY <1>1, <1>3 DEF Decode, Undef

(* With RV32I behind all others by name, an instruction that some set can  *)
(* execute is executed (RV32.cc:277-285): what makes it fail in the usual  *)
(* order is the place of the name alone.                                   *)
THEOREM OrderedNames == ConfigSpec => []OrderedNamesRun
<1>1. ASSUME ConfigInv,
             \A n, k \in DOMAIN m_insts :
               Class[m_insts[n]] # "I" /\ Class[m_insts[k]] = "I" => n < k,
             NEW i \in Words, NEW n \in DOMAIN m_insts, Handles(m_insts[n], i)
      PROVE  \E k \in DOMAIN m_insts : Taken(k, i) /\ Handles(m_insts[k], i)
  <2>1. DOMAIN m_insts \subseteq Nat /\ \A k \in DOMAIN m_insts : m_insts[k] \in Objects
    BY <1>1, ConfigAssumption DEF ConfigInv, ConfigTypeOK
  <2>2. n \in Candidates(i) /\ Candidates(i) \in SUBSET Nat
    BY <1>1, <2>1 DEF Candidates, Handles
  <2>3. PICK k \in Candidates(i) : \A m \in Candidates(i) : k <= m
    BY <2>2, Least
  <2>4. /\ Taken(k, i) /\ k \in DOMAIN m_insts /\ Accepts(m_insts[k], i)
        /\ k \in Nat /\ n \in Nat /\ k <= n
    BY <2>1, <2>2, <2>3 DEF Taken, Candidates
  <2>5. i \in Instruction
    BY ConfigAssumption
  <2>6. Class[m_insts[k]] \in {"I", "Zicsr", "Privileged"}
    BY <2>1, <2>4, ConfigAssumption
  <2>7. /\ Class[m_insts[k]] = "Zicsr" => CsrIsValid(i)
        /\ Class[m_insts[k]] = "Privileged" => PrivIsValid(i, m_insts[k] \in m_smode)
    BY <2>4 DEF Accepts
  <2>8. CASE Class[m_insts[n]] = "I"
    <3>1. Decode(i) # Undef
      BY <1>1, <2>8 DEF Handles
    <3>2. ~CsrIsValid(i) /\ \A b \in BOOLEAN : ~PrivIsValid(i, b)
      BY <2>5, <3>1, NothingShared
    <3>3. (m_insts[k] \in m_smode) \in BOOLEAN
      OBVIOUS
    <3>4. Class[m_insts[k]] = "I"
      BY <2>6, <2>7, <3>2, <3>3
    <3> QED
      BY <2>4, <3>1, <3>4 DEF Handles
  <2>9. CASE Class[m_insts[n]] # "I"
    <3>1. CsrDecode(i) # Undef /\ CsrIsValid(i)
      BY <1>1, <2>9 DEF Handles, Accepts
    <3>2. Class[m_insts[k]] # "I"
      BY <1>1, <2>4, <2>9
    <3>3. Class[m_insts[k]] # "Privileged"
      BY <2>7, <3>1 DEF CsrIsValid, PrivIsValid
    <3> QED
      BY <2>4, <2>6, <3>1, <3>2, <3>3 DEF Handles
  <2> QED
    BY <2>8, <2>9
<1>2. ConfigInv => OrderedNamesRun
  BY <1>1 DEF OrderedNamesRun
<1> QED
  BY <1>2, ConfigInvariant, PTL
-----------------------------------------------------------------------------
(* The memory map: MemsInv is inductive as it is.  A region is only ever   *)
(* appended, so only the pairs that end in the new region are to be shown, *)
(* and for them the three comparisons of add_mem are what StartsApart asks.*)

(* Appending a region leaves the others in place and is the last one.      *)
LEMMA Appended ==
  ASSUME MemsTypeOK, NEW r \in Region, m_mems' = Append(m_mems, r)
  PROVE  /\ Len(m_mems) \in Nat
         /\ DOMAIN m_mems = 1..Len(m_mems)
         /\ DOMAIN m_mems' = 1..(Len(m_mems) + 1)
         /\ \A i \in DOMAIN m_mems : m_mems'[i] = m_mems[i]
         /\ m_mems'[Len(m_mems) + 1] = r
BY DEF MemsTypeOK

LEMMA MemsInvInit == MemsInit => MemsInv
BY MemsAssumption DEF MemsInit, MemsInv, MemsTypeOK, StartsApart

LEMMA MemsInvStep ==
  ASSUME MemsInv, [MemsNext]_m_mems
  PROVE  MemsInv'
<1>1. ASSUME NEW r \in Region, AddMem(r)
      PROVE  MemsInv'
  <2>1. m_mems' = Append(m_mems, r) /\ Len(m_mems) < MaxMems
    BY <1>1 DEF AddMem
  <2>2. MemsTypeOK
    BY DEF MemsInv
  <2>3. MemsTypeOK'
    BY <2>1, <2>2, MemsAssumption DEF MemsTypeOK
  <2>4. ASSUME NEW i \in DOMAIN m_mems', NEW j \in DOMAIN m_mems', i < j
        PROVE  /\ m_mems'[i].addr # m_mems'[j].addr
               /\ ~InRange(m_mems'[j].addr, m_mems'[i])
    <3>1. i \in DOMAIN m_mems /\ m_mems'[i] = m_mems[i]
      BY <2>1, <2>2, <2>4, Appended
    <3>2. CASE j \in DOMAIN m_mems
      <4>1. m_mems'[j] = m_mems[j]
        BY <2>1, <2>2, <3>2, Appended
      <4> QED
        BY <2>4, <3>1, <3>2, <4>1 DEF MemsInv, StartsApart
    <3>3. CASE j \notin DOMAIN m_mems
      <4>1. m_mems'[j] = r
        BY <2>1, <2>2, <2>4, <3>3, Appended
      <4>2. ~Clash(r, m_mems[i])
        BY <1>1, <3>1 DEF AddMem
      <4>3. m_mems[i] \in Region
        BY <2>2, <3>1 DEF MemsTypeOK
      <4>4. m_mems[i].addr \in Nat /\ r.addr \in Nat
        BY <4>3, MemsAssumption DEF Region, Address
      <4> QED
        BY <3>1, <4>1, <4>2, <4>4 DEF Clash, InRange
    <3> QED
      BY <3>2, <3>3
  <2> QED
    BY <2>3, <2>4 DEF MemsInv, StartsApart
<1>2. ASSUME UNCHANGED m_mems
      PROVE  MemsInv'
  BY <1>2 DEF MemsInv, MemsTypeOK, StartsApart
<1> QED
  BY <1>1, <1>2 DEF MemsNext, AddMemRefused

(* What add_mem keeps: no two regions start at the same address and none   *)
(* starts inside an earlier one (RV32.cc:61-76).                           *)
THEOREM MemsInvariant == MemsSpec => []MemsInv
<1>1. MemsInit => MemsInv
  BY MemsInvInit
<1>2. MemsInv /\ [MemsNext]_m_mems => MemsInv'
  BY MemsInvStep
<1> QED
  BY <1>1, <1>2, PTL DEF MemsSpec
-----------------------------------------------------------------------------
(* Where a region ends: a sum that reaches the number of addresses wraps   *)
(* to an end that is not above the region's start.                         *)
LEMMA EndOf ==
  ASSUME NEW r \in Region
  PROVE  /\ r.addr \in Nat /\ r.len \in Nat /\ AddrSpace \in Nat
         /\ r.addr + r.len < AddrSpace => End(r) = r.addr + r.len
         /\ r.addr + r.len >= AddrSpace => End(r) < r.addr
<1> DEFINE b == r.addr
           l == r.len
           M == AddrSpace
<1>1. b \in 0..(M - 1) /\ l \in 0..(M - 1) /\ M \in Nat \ {0}
  BY MemsAssumption DEF Region, Address
<1> HIDE DEF b, l, M
<1>2. CASE b + l < M
  <2>1. (b + l) % M = b + l
    BY <1>1, <1>2
  <2> QED
    BY <1>1, <1>2, <2>1 DEF End, b, l, M
<1>3. CASE b + l >= M
  <2> DEFINE e == b + l - M
  <2>1. e \in 0..(M - 1) /\ b + l = M * 1 + e /\ e < b
    BY <1>1, <1>3
  <2> HIDE DEF e
  <2>2. (M * 1 + e) % M = e
    BY <1>1, <2>1
  <2>3. (b + l) % M = e
    BY <2>1, <2>2
  <2> QED
    BY <1>1, <1>3, <2>1, <2>3 DEF End, b, l, M
<1> QED
  BY <1>1, <1>2, <1>3

(* Every region answers its own first address, but for those that are      *)
(* empty or reach the last address: they answer nothing.                   *)
THEOREM FirstByte == MemsSpec => []FirstByteOwned
<1>1. ASSUME MemsInv, NEW i \in DOMAIN m_mems
      PROVE  LET r == m_mems[i]
             IN  IF r.len > 0 /\ r.addr + r.len < AddrSpace THEN Answers(i, r.addr)
                 ELSE \A a \in Address : i \notin Accepting(a)
  <2> DEFINE r == m_mems[i]
  <2>1. MemsTypeOK /\ r \in Region
    BY <1>1 DEF MemsInv, MemsTypeOK
  <2>2. CASE r.len > 0 /\ r.addr + r.len < AddrSpace
    <3>1. i \in Accepting(r.addr)
      BY <2>1, <2>2, EndOf DEF Accepting, InRange
    <3>2. ASSUME NEW j \in Accepting(r.addr)
          PROVE  i <= j
      <4>1. j \in DOMAIN m_mems /\ InRange(r.addr, m_mems[j])
        BY <3>2 DEF Accepting
      <4>2. i \in Nat /\ j \in Nat
        BY <2>1, <4>1 DEF MemsTypeOK
      <4>3. ~(j < i)
        BY <1>1, <4>1 DEF MemsInv, StartsApart
      <4> QED
        BY <4>2, <4>3
    <3>3. Answers(i, r.addr)
      BY <3>1, <3>2 DEF Answers
    <3> QED
      BY <2>2, <3>3
  <2>3. CASE ~(r.len > 0 /\ r.addr + r.len < AddrSpace)
    <3>1. End(r) \in Int /\ r.addr \in Nat /\ End(r) <= r.addr
      <4>1. End(r) \in Int
        BY <2>1, EndOf, MemsAssumption DEF End
      <4> QED
        BY <2>1, <2>3, <4>1, EndOf
    <3>2. ASSUME NEW a \in Address PROVE i \notin Accepting(a)
      <4>1. a \in Nat
        BY MemsAssumption DEF Address
      <4>2. ~InRange(a, r)
        BY <3>1, <4>1 DEF InRange
      <4> QED
        BY <4>2 DEF Accepting
    <3> QED
      BY <2>3, <3>2
  <2> QED
    BY <2>2, <2>3
<1>2. MemsInv => FirstByteOwned
  BY <1>1 DEF FirstByteOwned
<1> QED
  BY <1>2, MemsInvariant, PTL
-----------------------------------------------------------------------------
(* The new region is compared with the earlier ones only when it is added, *)
(* so that it contains those it overlaps is an invariant of its own.       *)
LEMMA ContainStep ==
  ASSUME MemsInv, OverlapsContain, [MemsNext]_m_mems
  PROVE  OverlapsContain'
<1>1. ASSUME NEW r \in Region, AddMem(r)
      PROVE  OverlapsContain'
  <2>1. m_mems' = Append(m_mems, r)
    BY <1>1 DEF AddMem
  <2>2. MemsTypeOK
    BY DEF MemsInv
  <2>3. ASSUME NEW i \in DOMAIN m_mems', NEW j \in DOMAIN m_mems', i < j,
               NEW a \in Address, InRange(a, m_mems'[i]), InRange(a, m_mems'[j])
        PROVE  /\ m_mems'[j].addr < m_mems'[i].addr
               /\ End(m_mems'[j]) >= End(m_mems'[i])
    <3>1. i \in DOMAIN m_mems /\ m_mems'[i] = m_mems[i]
      BY <2>1, <2>2, <2>3, Appended
    <3>2. CASE j \in DOMAIN m_mems
      <4>1. m_mems'[j] = m_mems[j]
        BY <2>1, <2>2, <3>2, Appended
      <4> QED
        BY <2>3, <3>1, <3>2, <4>1 DEF OverlapsContain
    <3>3. CASE j \notin DOMAIN m_mems
      <4>1. m_mems'[j] = r
        BY <2>1, <2>2, <2>3, <3>3, Appended
      <4>2. ~Clash(r, m_mems[i])
        BY <1>1, <3>1 DEF AddMem
      <4>3. m_mems[i] \in Region
        BY <2>2, <3>1 DEF MemsTypeOK
      <4>4. /\ m_mems[i].addr \in Nat /\ r.addr \in Nat /\ a \in Nat
            /\ m_mems[i].addr + m_mems[i].len \in Nat /\ r.addr + r.len \in Nat
        BY <4>3, MemsAssumption DEF Region, Address
      <4>5. End(m_mems[i]) \in Nat /\ End(r) \in Nat
        BY <4>4, MemsAssumption DEF End
      <4>6. /\ a >= m_mems[i].addr /\ a < End(m_mems[i])
            /\ a >= r.addr /\ a < End(r)
        BY <2>3, <3>1, <4>1 DEF InRange
      <4> HIDE DEF End
      <4>7. r.addr < m_mems[i].addr /\ End(r) >= End(m_mems[i])
        BY <4>2, <4>4, <4>5, <4>6 DEF Clash
      <4> QED
        BY <3>1, <4>1, <4>7 DEF End
    <3> QED
      BY <3>2, <3>3
  <2> QED
    BY <2>3 DEF OverlapsContain, Address, InRange, End
<1>2. ASSUME UNCHANGED m_mems
      PROVE  OverlapsContain'
  BY <1>2 DEF OverlapsContain, InRange, End
<1> QED
  BY <1>1, <1>2 DEF MemsNext, AddMemRefused

(* The only overlaps add_mem lets in: a later region around an earlier one.*)
THEOREM Overlaps == MemsSpec => []OverlapsContain
<1>1. MemsInit => OverlapsContain
  BY DEF MemsInit, OverlapsContain
<1>2. MemsInv /\ OverlapsContain /\ [MemsNext]_m_mems => OverlapsContain'
  BY ContainStep
<1> QED
  BY <1>1, <1>2, MemsInvariant, PTL DEF MemsSpec
-----------------------------------------------------------------------------
(* A new region changes no answer that there was.                          *)
THEOREM Routes == MemsSpec => RoutesStay
<1>1. ASSUME MemsTypeOK, [MemsNext]_m_mems,
             NEW a \in Address, NEW i \in DOMAIN m_mems, Answers(i, a)
      PROVE  Answers(i, a)'
  <2>1. CASE UNCHANGED m_mems
    BY <1>1, <2>1 DEF Answers, Accepting, InRange, End
  <2>2. ASSUME NEW r \in Region, AddMem(r)
        PROVE  Answers(i, a)'
    <3>1. m_mems' = Append(m_mems, r)
      BY <2>2 DEF AddMem
    <3>2. i \in Accepting(a)'
      BY <1>1, <3>1, Appended DEF Answers, Accepting, InRange, End
    <3>3. ASSUME NEW j \in Accepting(a)'
          PROVE  i <= j
      <4>1. CASE j \in DOMAIN m_mems
        <5>1. j \in Accepting(a)
          BY <1>1, <3>1, <3>3, <4>1, Appended DEF Accepting, InRange, End
        <5> QED
          BY <1>1, <5>1 DEF Answers
      <4>2. CASE j \notin DOMAIN m_mems
        BY <1>1, <3>1, <3>3, <4>2, Appended DEF Accepting
      <4> QED
        BY <4>1, <4>2
    <3> QED
      BY <3>2, <3>3 DEF Answers
  <2> QED
    BY <1>1, <2>1, <2>2 DEF MemsNext, AddMemRefused
<1>2. MemsInv => MemsTypeOK
  BY DEF MemsInv
<1>3. MemsTypeOK /\ [MemsNext]_m_mems =>
        [\A a \in Address, i \in DOMAIN m_mems : Answers(i, a) => Answers(i, a)']_m_mems
  BY <1>1
<1> QED
  BY <1>2, <1>3, MemsInvariant, PTL DEF MemsSpec, RoutesStay
=============================================================================
