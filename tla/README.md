# RV-VM in TLA+

RV-VM is a virtual machine for 32-bit RISC-V, written as a C++ library (`src/`,
`include/ZoraGA/`) with a small command-line loader (`rv32_loader/`). This
directory holds TLA+ modules that model it, configurations that check them with
TLC, and proofs checked with TLAPS. Paths below are relative to the repository.

    tlc -config RV32VM.cfg RV32VM.tla        model-check one run
    tlapm RV32VM_proofs.tla                  check the proofs of one module

## The system

| part | state it keeps | operations | who uses it |
|---|---|---|---|
| `Event<ET>` (`RVEvent.h`) | a word of event bits, a mutex, a condition variable | `wait`, `set` | the VM thread sets, clients wait |
| `rv32` life cycle (`RV32.h`, `RV32.cc`) | `m_mutex`, `m_started`, `m_thread`, `m_running`, `m_exit_req`, `m_event` | `start`, `stop`, `wait_for_*`, `add_*`, `set_*`, destructor, `run` in a detached thread | any number of client threads |
| run loop (`rv32::run`, `inst_fetch`, `inst_exec`) | registers, `pc`, `pc_changed`; `m_comprs`, the client's decompressor | fetch, decode, execute, advance | the VM thread only |
| memory map (`add_mem`, `mem_read`, `mem_write`, `mem_is_range`) | the vector `m_mems` | add a region, route an access | `run` and the handlers |
| `RV32I` | none but its log | `isValid`, `exec` and a handler for each instruction | `inst_exec` |
| instruction sets (`add_inst`, `set_log`, `regist`) | the map `m_insts`, the map of CSRs in `m_regs`, each set's log | add a set, create CSRs, hand out the log, choose who executes | clients before a start; `inst_exec` |
| `RV32Zicsr` | none of its own | `isValid`, `exec`, the six CSR instructions | `inst_exec` |
| `RV32Privileged` | `m_smode` | `isValid`, `s_mode`, `regist`; an `exec` that does nothing | `add_inst`, `inst_exec` |
| loader (`loader.cc`, `mem_rom`, `mem_ram`) | its locals, the ROM file, the RAM bytes | `main`, `read`, `write` | one client of `rv32` |
| `RVLog` | a file and switches | formatting | everybody |

Clients and the VM thread share the five words of the life cycle and the event
object. `m_started` and `m_thread` are only touched under `m_mutex`; `m_running`
and `m_exit_req` are plain `bool`s with no lock at all; and the VM thread reads
the instruction sets, the memory map and the log without a lock, relying on
the configuration calls being refused while the machine is started. The thread
is detached, so nobody ever joins it: whoever wants to know that it is gone has
`m_running` and the STOP bit.

What is hard to get right, and hardly reached by the tests under `test/insts`
(which execute single instructions with fixed operands):

- `start`, `stop`, the waits and the destructor, called by several clients while
  the VM thread sets its flags and event bits in its own time (life cycle);
- wakeups, timeouts and bits taken by the wrong waiter (`Event<ET>`);
- the lifetime of what the VM thread uses, when `main` returns (loader);
- address ranges that overlap or wrap (memory map);
- immediates scattered over bit-fields, sign extension, mixed signedness, and
  the nested switches that choose a handler (`RV32I`);
- which set takes an instruction, and what the order of the calls leaves in the
  CSRs and the logs (instruction sets);
- a decompressor whose answer is read as something else, and halves of
  instructions (`inst_fetch`);
- `x0`, jumps to themselves, instructions that fail halfway, and runs that go
  on where another one ended (run loop).

`PROJECT.json` lists these one by one, at their lines, under "hazards", with the
properties that would catch each of them.

### What makes each part correct

- `Event<ET>`: it is an event group with atomic operations; no waiter sleeps
  through a set; a timed wait returns.
- Life cycle: `m_started` and `m_thread` agree; a stop never waits for a thread that
  is gone; after `stop` nothing executes; the STOP answer is about the run that
  was waited for; nothing is configured, and nothing destroyed, under a thread.
- Memory map: a region that was added answers its own first byte, unless it is empty or
  reaches the last address (then its end wraps and it answers nothing), later regions
  take nothing away, and overlaps are of one known shape.
- Instruction sets: `misa` tells what was added; every word somebody can execute
  reaches one who can; adding a set disturbs only what its name says.
- `RV32I`, `RV32Zicsr`, `inst_fetch` and the run loop: an abstract machine of the
  base instruction set with its CSR instructions.
- Loader: `main` is a client for which the life cycle is sound.

## Modules

    EventFlags        the bits, and what a wait tests and takes       RVEvent.h
      EventGroup      ABSTRACT: atomic set and wait
      RVEvent         mutex, condition variable, timeouts             RVEvent.h
        MCRVEvent, RVEvent_proofs
      RV32VM          clients, VM threads, the five shared words      RV32.cc, RV32.h
        RV32VM_proofs
        RV32Handshake clients that keep the order of the interface
          RV32Handshake_proofs
          RV32Loader  main() as such a client                         loader.cc
            MCRV32Loader, RV32Loader_proofs
    VMContract        ABSTRACT: what such clients may rely on
    RV32Regions       a region and its range test                     RVdefs.h
      RV32Mems        add_mem, and who answers an address             RV32.cc, RVdefs.h
    RVWords           uint32_t, int32_t, sext, bits, bytes            RVdefs.h
      RVIsaWords      ABSTRACT: what instructions do to words
        RVIsa         ABSTRACT: the base instruction set and Zicsr,
                      one instruction a step
      RV32IDecode     isValid, exec's switches, immediates            RV32I.cc, RV32InstFmt.h
        RV32Zicsr     the same of the CSR instructions, and they      RV32Zicsr.cc
          RV32Privileged  words it accepts, CSRs it creates           RV32Privileged.cc, RVCSRAddr.h
            RV32Config    add_inst, set_log, regist, dispatch         RV32.cc, RV32I.cc
              MCRV32Config  with RV32Mems, all a client configures
              RV32Config_proofs  of RV32Config and RV32Mems
      RV32IExec       the handlers, mem_rom, mem_ram                  RV32I.cc, RVdefs.h, mem_*.cc
        RV32IExec_proofs  the lemmas about words the next two share
        RV32Fetch     inst_fetch and the decompressor                 RV32.cc
        MCRV32I       the pure parts against RVIsaWords
          MCRV32I_proofs
        RV32Hart      run, inst_fetch, inst_exec, restarts            RV32.cc
          MCRV32Hart, RV32Hart_proofs

Variables carry the names of the members they stand for (`m_started`,
`m_event`, `pc_changed`). `PROJECT.json` maps every definition to its lines. A
`Bug_` operator next to a definition is a plausible mistake in that code; each
property is known to be violated when one of them takes the definition's place.

**RVEvent.** A control point per thread for each place in `wait` and `set` where
another thread may come in between. `condition_variable::wait` releases the lock
and joins the wait set in one step, may wake for no reason, and evaluates
`cond_chk` again with the lock held; `wait_for` evaluates it a last time after
its timeout. `toms` is kept as "timed or not". The values of `mask`, `allwait`
and `clear` are those callers may pass.

**RV32VM.** One step per access to a shared word outside `m_mutex`; what happens
under the mutex between two such accesses is one step. The build sets
`set_optimize("none")` (`xmake.lua:3`), so an access to a plain `bool` is one
byte load or store in program order; the data race the C++ standard sees on
`m_running` and `m_exit_req` shows as all interleavings of these. A wait uses
the atomic event group: `ImplementsEventGroup` of `RVEvent` is what allows it. The
destructor is `stop()` and then the end of the object, and may be called when no
other call is in progress, as C++ demands. The guest is arbitrary: any fetch and
any instruction may fail.

**RV32Handshake.** The same object, used by clients that wait for START
successfully before they stop, and for STOP successfully before they start again
or destroy. This is not something the code enforces; it is the order its
interface and its loader suggest, and the violation runs below show what happens
without it. `seenStart` and `seenStop` record what was seen and guard only the
clients' calls.

**RV32Loader.** Each statement of `main` that touches the machine, with `main`'s
disregard of what the calls return. `KeepsOrder` (that `main` is a client of
`RV32Handshake` for all that) is a property and not an assumption.

**RV32Mems.** The vector `m_mems`; addresses are numbers below `AddrSpace`, and
sums wrap, as `uint32_t` does.

**RV32Config, RV32Privileged.** The calls made before the first start, in any order.
`m_insts` is a function on the places of names in the order of the map; a name comes in
several spellings, since `add_inst` puts it into upper case before it looks. One object may be given
several names, and each time it is asked to `regist` again. `Taken` is the choice `inst_exec`
makes for a word; `added` and `told` keep the order of the calls for the properties to
speak of. A CSR is the set of its bits.

**RV32IDecode, RV32Zicsr, RV32IExec.** An instruction word is the tuple of its R
layout's fields, which cover all 32 bits. A handler is the set of states it may
leave: a shift by 32 or more has two outcomes, a read of the ROM file any bytes.
The devices bound an access with `addr + len`, a `uint32_t` that may wrap (`DeviceEnd`;
`mem_ram.cc:19` and `27`, `mem_rom.cc:33`). A read that gets past the vector of `mem_ram` that way finds
any bytes; a store puts its bytes where it is sent, which adds places to the domain of `ram`, so that
`TypeOK` says of `ram \in [0..(RamLen - 1) -> Byte]` that no store has left it. What else a process
does after such a store is not modelled.
A byte has `ByteBits` bits, a word four bytes: with a short byte TLC can go
through every word.

**RV32Fetch.** The repository has an interface for a decompressor and none that implements it;
its operators are external, and the model has three: no decompressor, one that answers as
`rv_err` says, one that answers as the `bool` that `inst_fetch` takes the answer for.

**RV32Hart.** One pass of `run` is a check with fetch and execution, and an advance. It keeps `pc_prv`,
`pc_changed` and `is_compress`, since how `run` tells a jump from an instruction that
falls through, and how far it falls, is one of its hazards. Between two runs a client may
set a start address, give the machine a decompressor, or start it again as it is. With a
decompressor the guest is made of compressed instructions, as `inst_fetch` delivers no
others (`fetch_halves`).

## Runs

| run | what it shows | instance |
|---|---|---|
| `event` | safety, refinement of `EventGroup` and liveness of `Event<ET>` | 3 threads, 3 overlapping calls, 2 bits; 42,513 states |
| `vm` | what `rv32` keeps for any clients; `stop` returns | 2 clients, 2 starts; 134,740 states |
| `stop_then_start` | violates `StoppedIsQuiet` | 1 client, 2 starts |
| `stale_stop_bit` | violates `WaitStopTruthful` | 1 client, 2 starts |
| `second_stop_waiter` | violates `StopWaiterReturns` | 2 clients, 1 start |
| `handshake` | for clients that keep the order: all of the above, `VMContract`, and every start is answered | 2 clients, 3 starts; 37,188 states |
| `loader` | `main` keeps the order, outlives its run, and ends | 1 client, 1 start; 173 states, all there are |
| `config` | routing and overlaps; CSRs, `misa`, logs and dispatch in any order of the configuration calls | every region of 6 addresses, maps of 3; 3 sets under 4 names, 3 adds; 43,122 states |
| `rv32i` | decoding, immediates, values, branches, memory, CSR exchanges, fetches | below; 1,944,678 states |
| `immediate_forms` | violates `ImmediateFormsAgree`, by `slti` and by `ori` | the lowest register and the immediate 1, for every immediate form |
| `fetch_halves` | violates `FetchedIsThere` | every word of memory, a decompressor |
| `hart` | the run loop implements `RVIsa`, over several runs | words of 4 bits, 30 instructions; 68,448 states |

**Bounds, and why they are enough.** In `event` three calls that overlap are what
each hazard needs: two waiters and one set for a stolen bit or a lost wakeup, one
waiter and two sets for `allwait`. `vm` needs two clients for a stop during a start and
two starts for a left-over thread. `handshake` has a third start, so that a bit or a thread
left by one run has two further runs to be seen in. The bound on starts is the size of
`VMThreads`: thread identities are not used twice. A map of three regions has a new region
between, around and across two others, and six addresses hold all orders of the six end points,
the wrapping ones included. The proofs do away with these bounds. `rv32i`
encodes every immediate of 12 bits and, of those of 20, each in which at most two bits
differ from the sign, at true width and in the true layout; values are compared for all pairs
of eight-bit words (`ByteBits = 2`), the shortest in which bytes, halves and words have
signs of their own below each other; a CSR instruction meets a CSR that exists or not,
is read-only or not, `rd` and `rs1` that are zero, equal or neither; `inst_fetch` every word of that memory. In `config`
three adds hold a base set before, between and after privileged ones, and four names one
before, one behind and one of the same spelling but for its case; the words are those on which
the classes differ. The memory map and the instruction sets share no state and no condition, so each is explored with the other at
rest. In `hart` the address space is 16
addresses, with a ROM whose region ends where the RAM begins and a RAM
that a gap follows, so accesses run across each of these ends and `pc` wraps; the program is any of
30 instructions, one or two for each shape of handler, at any place, also a different one
each time: a guest that changes its own code is included. `RV32Zicsr` is named before `RV32I`; the other order, in
which no CSR instruction executes, is a matter of `config`.

**Fairness.** `WF` of the steps of a thread inside a call or in `run`: the
operating system runs every thread that can go on. `SF` on taking the mutex of `Event<ET>`: a
thread that contends for it again and again gets it at some time. `SF` on its timeout: the deadline of
`wait_for` is a fixed time, which repeated spurious wakeups do not put off. `RV32VM` needs none of the
strong ones. No client owes a call, no wakeup is spurious by
obligation, and nothing says that a guest ever ends or fails: `StopReturns`
holds with a guest that loops for ever, because `run` looks at `m_exit_req` on each pass.

**Deadlock** checking is off where the program may really come to rest: an untimed wait for
an event nobody sets, a destroyed object, a `main` that has returned,
a machine that is fully configured, a single case. That nobody is stuck who should not be is what
the liveness properties say.

### What the violations show

1. `stop_then_start`: `stop()` reads `m_running` (`RV32.cc:153`) as soon as `start()`
   has returned. The new thread may not have set it yet, in which case `stop()` waits for
   nothing, returns true, and the thread starts to execute on a machine that counts as
   stopped. `m_exit_req` makes it stop soon, unless a second `start()` resets it first; then two
   threads execute on the same registers for good.
2. `stale_stop_bit`: nothing clears the STOP bit at `start()`. After a stop without a
   `wait_for_stop`, the first `wait_for_stop` of the next run returns true at once.
3. `second_stop_waiter`: a wait clears its bits (`RVEvent.h:37`), and a run sets STOP once; of two
   clients that wait for the same stop one stays.
4. `immediate_forms`: `ori` reads its immediate from `inst.R.imm_11_0` (`RV32I.cc:491`), a field of
   seven bits in that layout, in place of `inst.I.imm_11_0`; and `slti` compares a zero-extended
   register with a signed immediate (`RV32I.cc:446`). Both show in one state, on the register 128 (a word
   of eight bits) and the immediate 1: `differ = {"slti", "ori"}`, since `slti` gives 0 for 1 and `ori` 128 for 129. The run
   fails until neither is in that set. The test of `ori` (`test/insts/src/RV32I.Compute.cc:110-119`) writes
   0x40 into the field the code reads, the immediate 0x800, and expects 0x00000FFF where the instruction
   set gives 0xFFFFFFFF: it asserts what the code does.
5. `fetch_halves`: behind a decompressor that reports a full instruction, the second half is read from
   the address of the first (`RV32.cc:259`), where the comment says "read last 16bit if
   not compress" (`RV32.cc:258`).

The first of these races has more than one face: checked on `RV32VM` in place of
`RV32Handshake`, `SingleRunner`, `ConfigFrozen` and `NoUseAfterFree` fail by it as well
(a destructor right after `start()` frees an object whose thread has yet to boot).
`ori` and `slti` are left out of `rv32i` and of the program of `hart` for the sake of 4, full
instructions behind a decompressor for the sake of 5; everything else that these modules state of
the code holds.

One more thing shows in `RV32Fetch`: `isCompress` is declared to return an `rv_err` and read as a
`bool` (`RV32.cc:252`), so a decompressor that answers `RV_EOK` for a compressed instruction is taken to have said
no. There being no decompressor to contradict it, `FetchDelivers` is stated of one that answers as a
`bool` would.

## Proofs

The theorems hold for every value of the constants that satisfies the named assumptions. These are:
`None` is no thread and no argument; `MaxCalls`, `MaxMems` and `MaxInsts` are natural numbers; the masks
are not empty; `AddrSpace` is positive; `Main` is the only client of the loader; the names of
`RV32Config` are different from each other. About words: a byte has one to eight bits (`ByteBits`; it is
8 in the code), the map of `RV32IExec` is any sequence of regions of a rom and a ram, and the ram and
the file have any length. In `RV32Hart` there is a register 0, the guest is any set of instructions
whose fields name registers and immediates, and the sets are `RV32I` and `RV32Zicsr` in any order, also
one of them alone or none. In `MCRV32I` the memory is a ram at the lowest addresses,
of four bytes at least and `2^XLEN - 4` at most.

| module | results | argument |
|---|---|---|
| `RVEvent_proofs` | `EventInvariant`, `CheckedBits`, `Wakeup`, `EventRefinement` | `EventInv`: exactly the holder of the mutex is in a critical section, so the bits found set stay until they are taken, and a satisfied sleeper has a setter that is about to notify. Each step then maps to one of `EventGroup` or to none: `WaitTake` is the atomic wait, `SetBits` the atomic set |
| `RV32VM_proofs` | `VMInvariant`, `RunningOwned`, `StopBars` | `VMInv`: who is inside which call holds `m_mutex`, what `m_started`, `m_thread` and `m_exit_req` are there, and whoever set `m_running` has yet to clear it |
| `RV32Handshake_proofs` | `HInvariant` and from it `StopIsComplete`, `OneRunner`, `FrozenConfig`, `FinalStop`, `SafeDestruction`, `TruthfulStop`, `Contract` | `HInv`: START and STOP bits belong to the last run, only its thread is alive, `m_running` is exact, the destructor runs alone. None of the results is inductive by itself: that nothing executes after `stop` rests on START having been seen, and that on the bit not being left over |
| `RV32Loader_proofs` | `LoaderInvariant`, `LoaderKeepsOrder`, `PartsOutlive` | `LInv` adds to `HInv` that `main` is at the statement its call belongs to and past `wait_for_stop` has seen the stop. A wait for START that gives up is harmless because `main` never stops the machine before it has seen the STOP |
| `RV32Config_proofs` | of `RV32Mems`: `MemsInvariant`, `FirstByte`, `Overlaps`, `Routes` | `MemsInv`: no two regions start together and none starts inside an older one, for any number of addresses and with wrapping sums; a sum that wraps ends below its start (`EndOf`), so that region is dead |
| | of `RV32Config`: `ConfigInvariant`, `MisaTold`, `TakersKept`, `OrderedNames` | `ConfigInv` relates the map, the CSRs and the logs to the order of the calls; `misa` follows from it because each `regist` either starts it afresh or leaves all but bit 8. Who takes a word is the least name among those that accept it, which exists by well-foundedness; a new name enters that choice only from below |
| `RV32Hart_proofs` | `JumpsMarked`, `FaultClean` | one lemma for each family of handlers says what it may touch: `pc` only together with `pc_changed`, and nothing at all when it fails. Both properties are then those of `HandlerEffect` |
| | `Types` | each handler computes a word from words, a load reads bytes that are there, and a store that the device accepts writes none past the end of the ram: `Writable` bounds the sum, `SumsFit` says that the sum is the sum (`OffsetFits`), and so the places of the store are places of the ram (`StoreInRam`) |
| | `HartImplementsIsa` | the guest sees `x` without `x0`, the `pc` it will be at, the CSRs and the ram, and sees them only between two passes: a pass that executes is one step of `RVIsa`, by one lemma for each family of handlers; an advance is none, because `NextPc` counted it already; one that fails is a halt, since `FaultClean`'s lemmas leave nothing behind, and a restart, a start address or a decompressor is a resumption |
| `RV32IExec_proofs` | lemmas | below |
| `MCRV32I_proofs` | `ValuesAgreeAlways`, `BranchesAgreeAlways`, `StoreThenLoadAlways`, `CsrAgreesAlways`, `FetchDeliversAlways`, `EveryWord`, `DecodesBackAlways`, `ImmediateBackAlways` | a behaviour of `MCRV32I` is one case, so each is a fact about operators. They hold at the true width, where TLC compares words of eight bits, and `EveryWord`, from which the last two follow, is about every immediate of jumps and upper immediates, of which TLC takes a sample. Decoding is by computation with the fields, immediates by their remainders: an offset is put together from the same digits it was taken apart into |

`HandshakeImplementsVM` carries what holds for any client over to those that keep the order.

**Words.** `RV32IExec_proofs` holds what the last two rows need of the arithmetic. Powers of two up to 2^32 are known by
their values, sums of exponents by induction (`NatSet`, over a set, since the library's induction takes an
operator). A bitwise operation is one on sets of bits, and the word of a set (`WordOf`) is a recursion over at
most 32 places, whose result is a word and less than the power above its highest bit. From these follow
`Complement` (`~b` has the bits that `b` has not, `-1 - b` being how C++ gets it), `SraShifts` (a logical
shift and `rv32_sext` from where the sign went are the arithmetic shift, for every amount below the
width), `FromBytesOf` (the bytes of a word give its lower part), and `RegAgrees`, `ImmAgrees` and
`BranchAgrees`, handler by handler against `RVIsaWords`.

**What is excluded, and why.** Hypotheses of theorems are where the code and the instruction set
differ, or where C++ defines nothing, and are needed for that reason:

| hypothesis | of | because |
|---|---|---|
| `ConformingGuest`: no `slti` | `HartImplementsIsa`; `ValuesAgreeAlways` (`"slti" \notin Compared`) | violation 4 |
| `Mnemonics \subseteq AllButOri` | `ImmediateBackAlways` | violation 4. In `RV32Hart` an instruction is already decoded, so `ori` is in `HartImplementsIsa`, as what its handler does with the immediate it has |
| `Comprs \subseteq {"none", "tells"}` | `FetchDeliversAlways` | the `rv_err` read as a `bool`, below violation 5 |
| `ConformingGuest`: the four CSR instructions without a check do not write to a read-only CSR | `HartImplementsIsa` | the source's TODO |
| `ConformingGuest`: no compressed jumps | `HartImplementsIsa` | the link is `pc + 4` |
| `ShiftsDefined`: `sll`, `srl` by less than the width | `HartImplementsIsa` | undefined behaviour; a formula on behaviours, since the amount is in a register |
| `RamPlaced`: the ram is mapped once, from its first byte, and all of it | `HartImplementsIsa` | two views of one ram are two addresses for a byte, which `RVIsa` has not. The loader maps it so |
| `SumsFit`: the ram is mapped with at most `2^XLEN - 4` bytes | `Types`, `HartImplementsIsa` | with one byte more the `uint32_t` sum of `mem_ram.cc:27` wraps for an access at the end, and a store goes past the vector. The loader's ram is far shorter |
| `ByteBits >= 2` | `CsrAgreesAlways` | an immediate of five bits is no word of four |

`MCRV32Hart` assumes `ConformingGuest`, `RamPlaced` and `SumsFit` of its instance (`MCConforms`), which TLC
evaluates, so the run `hart` is one of the machines `HartImplementsIsa` is about; there is no `sll` or `srl` among its
instructions, whose other shifts take their amount from a field or mask it.

`FaultClean` states `FaultIsClean`, that a pass which ends the run leaves memory, CSRs, registers and `pc`
as they were. No run lists it, as `ImplementsIsa` already says so of its instance.

**Only model-checked:** the liveness properties `SatisfiedWaitReturns`, `TimedWaitReturns`, `StopReturns`,
`StartIsAnswered` and `LoaderEnds`, since the prover does not treat fairness. Every other property of
a passing run is stated by a theorem; those of the violation runs are false where they are checked, and
the ones of the life cycle are theorems for the clients of `RV32Handshake`.

## Not modelled

- What privileged instructions do: `RV32Privileged::exec` has an empty body, and its handlers are
  declared and not defined. The words it accepts and the CSRs it creates are modelled.
- Jumps among compressed instructions: the link is `pc + 4` (`RV32I.cc:907`), and with no decompressor
  in the repository nothing says what it would have to be. Nor is a run on full instructions behind a decompressor,
  which `inst_fetch` cannot deliver.
- A check of read-only CSRs in `csrrw`, `csrrs`, `csrrc` and `csrrwi`: the source marks it as to do, the
  model has it as the code has it, and no property asks for more. `csrrsi` and `csrrci` do check, and refuse a
  read-only CSR even with an immediate of 0, which would write nothing; `CsrAgrees` states it as the code has it.
- Instruction sets and regions added between two runs: `RV32Hart` has a fixed map and fixed sets, and knows the
  start address and the decompressor only. What these calls do to the map, the CSRs and the logs is
  the same before any run (`RV32Config`, `RV32Mems`); that they are refused during one is `ConfigFrozen`.
- `RVLog`, and the command line and the file handling of the loader: no state of the machine depends on
  them. (`loader.cc:47` asks the parser for `--ram-size`, which is defined as `--ram_size`.)
- The layouts of CSRs (`RVCSRFmt.h`) and of compressed instructions (`RVCInstFmt.h`), and most addresses of
  `RVCSRAddr.h`: declarations that no code reads.
- `RV64*`, `RV32M`, `RV32C`, `RVVM.h`: declarations without an implementation.
- Alignment: the code never returns `RV_EIALIGN`, and `RVIsa` does not ask for it.
- What a compiler makes of sources that do not compile as they stand: `std::map<rv_csr_addr_fmt, ...>` has no
  `operator<`, and the non-pure virtual `regist` of `RVdefs.h:260` is declared and not defined. The
  models take the source as it reads.

## Plan

Done, in this order: `Event<ET>`, the life cycle, the order its clients need, the
loader, the memory map, `RV32I` with decoding and handlers, the run loop; then the CSR
instructions, `inst_fetch` with a decompressor, the configuration of instruction sets, restarts and
dispatch in the run loop; then proofs that every safety property and refinement holds without the bounds
of its run.

To come:

1. One composition of the life cycle and the run loop, in place of the arbitrary guest of `RV32VM`.
2. Configuration calls between two runs in `RV32Hart`: a map and sets that grow.
3. Compressed jumps and full instructions behind a decompressor, once the code has one.
