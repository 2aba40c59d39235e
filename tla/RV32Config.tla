----------------------------- MODULE RV32Config -----------------------------
(***************************************************************************)
(* The configuration of class rv32 before its first start: add_inst and    *)
(* set_log of src/RV32.cc, what they call in the instruction sets          *)
(* (regist, set_log), and what the order of the calls decides: which CSRs  *)
(* there are and what misa says, which sets report to the log, and which   *)
(* set takes an instruction (inst_exec).  That these calls are refused     *)
(* while the machine runs is RV32VM's matter.                              *)
(*                                                                         *)
(* A name is a member of Names, in the order of the map, not a string; an  *)
(* object is an instance of one of the classes of instruction sets.        *)
(***************************************************************************)
EXTENDS RV32Privileged

CONSTANTS Spellings, \* the names that callers pass
          Names,     \* the names in upper case, in the order of the map
          Upper,     \* what toupper makes of a spelling
          Objects,   \* the instruction sets that callers pass
          Class,     \* what each of them is an instance of
          Words,     \* the instruction words that are looked at
          MaxInsts   \* bound on the length of the map

ASSUME ConfigAssumption ==
  /\ Names \in Seq(STRING)
  /\ \A i, j \in DOMAIN Names : Names[i] = Names[j] => i = j
  /\ Upper \in [Spellings -> DOMAIN Names]
  /\ Class \in [Objects -> {"I", "Zicsr", "Privileged"}]
  /\ Words \subseteq Instruction
  /\ MaxInsts \in Nat

VARIABLES m_insts, \* the map, from the place of a name in Names
          csrs,    \* m_regs.ctl->csrs
          m_fp,    \* m_regs.fp exists
          m_log,   \* there is a log
          logs,    \* the objects whose m_log is set
          m_smode, \* the privileged objects whose m_smode is set
          added,   \* history: the names in the order of add_inst
          told     \* history: how many there were when set_log came

config == <<m_insts, csrs, m_fp, m_log, logs, m_smode, added, told>>

ConfigInit ==
  /\ m_insts = [n \in {} |-> 0] /\ csrs = [c \in {} |-> {}]
  /\ m_fp = FALSE /\ m_log = FALSE
  /\ logs = {} /\ m_smode = {}
  /\ added = <<>> /\ told = 0
-----------------------------------------------------------------------------
(* inst_exec: the first object by name whose isValid accepts a word has it.*)

Accepts(o, i) ==
  CASE Class[o] = "I"          -> IsValid(i)
    [] Class[o] = "Zicsr"      -> CsrIsValid(i)
    [] Class[o] = "Privileged" -> PrivIsValid(i, o \in m_smode)

(* The object accepts the word and its exec has a handler for it. *)
Handles(o, i) ==
  /\ Accepts(o, i)
  /\ \/ Class[o] = "I" /\ Decode(i) # Undef
     \/ Class[o] = "Zicsr" /\ CsrDecode(i) # Undef

Candidates(i) == {n \in DOMAIN m_insts : Accepts(m_insts[n], i)}

Taken(n, i) == n \in Candidates(i) /\ \A k \in Candidates(i) : n <= k
-----------------------------------------------------------------------------
(* Mutant: misa is created if it is not there. *)
Bug_RegistI(regs) ==
  [c \in DOMAIN regs \cup {CSR_misa} |->
     IF c \notin DOMAIN regs THEN {8}
     ELSE IF c = CSR_misa THEN regs[c] \cup {8} ELSE regs[c]]

(* RV32I::regist: bit 8 of misa, if there is a misa. *)
RegistI(regs) ==
  [c \in DOMAIN regs |-> IF c = CSR_misa THEN regs[c] \cup {8} ELSE regs[c]]

Regist(o, regs) ==
  CASE Class[o] = "I"          -> RegistI(regs)
    [] Class[o] = "Zicsr"      -> regs
    [] Class[o] = "Privileged" -> PrivRegist(regs)

(* Mutants: a name that is there is given to the new object; a set that    *)
(* comes after the log is given the log.                                   *)
Bug_AddInst(s, o) ==
  /\ Len(added) < MaxInsts
  /\ m_insts' = [n \in DOMAIN m_insts \cup {Upper[s]} |->
                   IF n = Upper[s] THEN o ELSE m_insts[n]]
  /\ m_fp' = (m_fp \/ Names[Upper[s]] \in {"F", "D"})
  /\ csrs' = Regist(o, csrs)
  /\ added' = Append(added, Upper[s])
  /\ UNCHANGED <<m_log, logs, m_smode, told>>

Bug_Tell(s, o) ==
  /\ Len(added) < MaxInsts /\ Upper[s] \notin DOMAIN m_insts
  /\ m_insts' = [n \in DOMAIN m_insts \cup {Upper[s]} |->
                   IF n = Upper[s] THEN o ELSE m_insts[n]]
  /\ m_fp' = (m_fp \/ Names[Upper[s]] \in {"F", "D"})
  /\ csrs' = Regist(o, csrs)
  /\ logs' = IF m_log THEN logs \cup {o} ELSE logs
  /\ added' = Append(added, Upper[s])
  /\ UNCHANGED <<m_log, m_smode, told>>

(* A new object is not given the log: set_log has come and gone.           *)
AddInst(s, o) ==
  /\ Len(added) < MaxInsts /\ Upper[s] \notin DOMAIN m_insts
  /\ m_insts' = [n \in DOMAIN m_insts \cup {Upper[s]} |->
                   IF n = Upper[s] THEN o ELSE m_insts[n]]
  /\ m_fp' = (m_fp \/ Names[Upper[s]] \in {"F", "D"})
  /\ csrs' = Regist(o, csrs)
  /\ added' = Append(added, Upper[s])
  /\ UNCHANGED <<m_log, logs, m_smode, told>>

(* nullptr, or a name that is taken in whatever case. *)
AddInstRefused(s) == Upper[s] \in DOMAIN m_insts /\ UNCHANGED config

SetLog ==
  /\ ~m_log
  /\ m_log' = TRUE
  /\ logs' = {m_insts[n] : n \in DOMAIN m_insts}
  /\ told' = Len(added)
  /\ UNCHANGED <<m_insts, csrs, m_fp, m_smode, added>>

(* RV32Privileged::s_mode, by the owner of the object. *)
SMode(o, ena) ==
  /\ Class[o] = "Privileged"
  /\ m_smode' = IF ena THEN m_smode \cup {o} ELSE m_smode \ {o}
  /\ UNCHANGED <<m_insts, csrs, m_fp, m_log, logs, added, told>>

ConfigNext ==
  \/ \E s \in Spellings : \E o \in Objects : AddInst(s, o)
  \/ \E s \in Spellings : AddInstRefused(s)
  \/ SetLog
  \/ \E o \in Objects, ena \in BOOLEAN : SMode(o, ena)

ConfigSpec == ConfigInit /\ [][ConfigNext]_config
-----------------------------------------------------------------------------
ClassAt(k) == Class[m_insts[added[k]]]

(* The types; a name is given away once; the object that was first given a *)
(* name keeps it; floating point registers exist for "F" and "D".          *)
ConfigTypeOK ==
  /\ added \in Seq(DOMAIN Names) /\ Len(added) <= MaxInsts
  /\ m_insts \in [{added[k] : k \in DOMAIN added} -> Objects]
  /\ \A j, k \in DOMAIN added : added[j] = added[k] => j = k
  /\ m_fp \in BOOLEAN
  /\ m_fp <=> \E n \in DOMAIN m_insts : Names[n] \in {"F", "D"}
  /\ m_log \in BOOLEAN /\ told \in 0..Len(added)
  /\ logs \subseteq Objects
  /\ m_smode \subseteq {o \in Objects : Class[o] = "Privileged"}

(* CSRs exist once a privileged set was added, all of them; until then     *)
(* there are none, whatever other sets say.                                *)
CsrsComplete ==
  DOMAIN csrs = IF \E k \in DOMAIN added : ClassAt(k) = "Privileged"
                THEN PrivCsrs ELSE {}

(* set_log reaches exactly the sets that were added before it; a set that  *)
(* comes later stays silent for good, unless it was there before under     *)
(* another name.                                                           *)
LogReaches ==
  logs = IF m_log THEN {m_insts[added[k]] : k \in 1..told} ELSE {}

(* The inductive invariant of the configuration. *)
ConfigInv == ConfigTypeOK /\ CsrsComplete /\ LogReaches

(* misa says "I" just when an RV32I was added after the last privileged    *)
(* set, whose regist starts misa afresh: the other way round, the guest is *)
(* told that there is no base instruction set.                             *)
MisaTellsI ==
  (\E c \in DOMAIN csrs : c = CSR_misa /\ 8 \in csrs[c])
    <=> \E j \in DOMAIN added :
          /\ ClassAt(j) = "I"
          /\ \E k \in DOMAIN added : k < j /\ ClassAt(k) = "Privileged"
          /\ \A k \in DOMAIN added : k > j => ClassAt(k) # "Privileged"

(* RV32I accepts words it has no handler for.  If the names put it behind  *)
(* all others, each word that has a handler anywhere reaches one.          *)
OrderedNamesRun ==
  (\A n, k \in DOMAIN m_insts :
     Class[m_insts[n]] # "I" /\ Class[m_insts[k]] = "I" => n < k)
  => \A i \in Words :
       (\E n \in DOMAIN m_insts : Handles(m_insts[n], i))
         => \E n \in DOMAIN m_insts : Taken(n, i) /\ Handles(m_insts[n], i)

(* Adding an instruction set takes a word from the set that had it only if *)
(* the name of the new one comes before the name of that.                  *)
TakersStay ==
  [][\A i \in Words, n \in DOMAIN m_insts :
       m_smode' = m_smode /\ Taken(n, i)
         => \/ Taken(n, i)'
            \/ \E k \in DOMAIN m_insts' \ DOMAIN m_insts :
                 k < n /\ Taken(k, i)']_config
=============================================================================
