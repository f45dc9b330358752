# Verification of the ECGR_5181 simulators

The repository holds six course programs on computer architecture, written in
C++ and sharing no code:

| directory | program |
|---|---|
| `HW1` | a discrete event simulation: a vector of (time, number) events kept sorted by insertion sort |
| `HW2` | five fixed instructions moving through a data path |
| `HW3` | a decoder that prints one RISC-V instruction |
| `HW4` | a RISC-V CPU on a memory bus, in a one-instruction-at-a-time and a pipelined form |
| `HW5` | a multiprocessor with MESI caches kept coherent by snooping |
| `HW5-2` | a multiprocessor with MSI caches and directories |

This directory holds TLA+ modules for all six, TLC configurations that check
them on small instances, and TLAPS proofs of their main properties for every
instance. `PROJECT.json` maps each definition to the
lines it stands for, and lists the runs, the mutations each property is tested
against, the hazards and the theorems.

All programs are single threaded, allocate no resource they wait for and keep
nothing on disk. What is hard in them is order: one simulated actor's step runs
inside another's (HW5's `snoopWrite`, HW5-2's nested message calls), one fact is
kept in two containers, an instruction is in several stages' view at once, or a
variable is read without having been given a value. The decoders and the ALU are
hard in another way: their inputs are 32-bit words, and most words are never
tried.

## Contents

1. [Inventory](#1-inventory)
2. [Modules and how they correspond to the code](#2-modules-and-how-they-correspond-to-the-code)
3. [Runs](#3-runs)
4. [Bounds](#4-bounds)
5. [Fairness](#5-fairness)
6. [Theorems](#6-theorems)
7. [Where the code and its comments disagree](#7-where-the-code-and-its-comments-disagree)
8. [What is not modelled](#8-what-is-not-modelled)
9. [Plan](#9-plan)
10. [Running the checks](#10-running-the-checks)

## 1. Inventory

### HW5, the snooping multiprocessor

| component | state | operations |
|---|---|---|
| `Cache` (`cache.cpp`) | `cacheData` (address to line), `lruOrder`, `waitingForMemoryAccess`, `shareFlag` | `readFromCache`, `writeToCache`, `updateLRUOrder`, `get/setCurrentState`, `updateState`, `updateSnoopingState`, `handleBusRequest`, the flag setters |
| `MemoryBus` (`MemoryBus.cpp`) | `requestQueue`, `busInUse`, `currentProcessorID`, the RAM | `addRequest`, `requestBusAccess`, `releaseBus`, `getRequestByCPUID`, `readFromMemory`, `writeToMemory` |
| `BusArbiter` (`BusArbiter.cpp`) | a second `requestQueue`, of CPU numbers | `queueRequest`, `grantAccess`, `removeEntry` |
| `Snoopy` (`snoopy.cpp`) | references to all caches and the arbiter | `snoopRead`, `snoopWrite` |
| `runSimulation` (`simulation.cpp`) | the loop counter and the locals of an access | a round: one access for each CPU that is not waiting, then one grant |

`runSimulation` calls the caches and, on a miss, the snoopy controller;
`MemoryBus::addRequest` also queues the CPU at the arbiter; `handleBusRequest`
takes the request back out of the memory bus. A miss thus leaves state in three
objects (the wait flag, the bus queue, the arbiter queue), and is undone in two
places: by the grant that ends a round, and by `snoopWrite` in the middle of
another CPU's access. *Correct* means: the two queues tell the same story; a
CPU's request is served in turn, once, or provably never; a line has one owner
and its holders agree; LRU list and map name the same lines; the rounds end.

### HW5-2, the directory multiprocessor

| component | state | operations |
|---|---|---|
| `Cache` | `cacheData`, `pendingReads` (callbacks) | `readFromCache`, `writeToCache`, `handleNetworkMessage`, `setCurrentState` |
| `Directory` | `entries`: a state, a set of sharers and a tag for each index | `receiveMessage` for ReadMiss and WriteMiss |
| `Network`, `NetworkNode` | the nodes | `sendMessage`, `routeMessage` |
| `runSimulation` | a fixed list of ten transitions | plays the list once for each of 4 CPUs |

A message is a nested call, so an access is atomic, answers included. *Correct*
means: the directory knows what the caches hold; CPUs see each other's stores; a
pending read is answered. The first is true of a directory and its own cache
only, and the other two are not true, which the models say precisely.

### HW4, the RISC-V CPU

| component | state | operations |
|---|---|---|
| `CPU` (`CPU.cpp`) | pc, registers, one queue per stage, `dataHazard`, `fpDelay`, `memRequestPending`, `reset` | `updatePipeline`, `updateDataPath`, `flushPipeline`, `dataHazardCheck`, `controlHazardCheck`, `Fetch` ... `WriteBack` |
| `MemBus`, RAM | request and response queues, memory | `Read`, `Write`, `isMemoryRequestComplete`, `isWriteRequestPending`, `processMemoryRequests` |
| `Instruction`, `BranchCtl`, `ALU` | the fields and results of an instruction | decoding, control signals, `doTheThing` |

*Correct* means: whatever the overlap, the program's instructions take effect one
after another; every load gets its own datum; the pipeline does not stall for
good; and an instruction computes what the text printed for it says.

### HW1, the event queue

A vector `events` and the events `processed`; `insertionSort`, `addNewEvent` and
the loop of `main`. *Correct* means: nothing is lost or copied by sorting in
place, and events are processed in the order of their times.

### HW2, the fixed loop

`Simulator` (`simulator.h`): an instruction queue that is refilled when empty, one
variable per stage, `x1`, `f0`, `f4`, and the loop of `simulatePipeline`, which
moves one instruction in a cycle. *Correct* means: an instruction takes effect
once, in order, and the loop ends.

### HW3, the decoder

`decodeInstruction` (`main.cpp`) prints mnemonic, operands, immediate and control
signals of one word. *Correct* means: it says of a word what HW4's decoder says.

### The event logs

The logs (`event.h` of every program) are appended to and printed.
See [section 8](#8-what-is-not-modelled).

## 2. Modules and how they correspond to the code

```
QueueOps ── MesiCache ── SnoopySystem ── MCSnoopy        HW5
   └─ BusService  ........^ (abstract: the bus as one line of CPUs)

DirectorySystem ── DirectoryScript                       HW5-2
   ^.. PrivateMemory (abstract: CPUs without shared memory)

Instruction ── Pipeline ── MCPipeline                    HW4
   └─ SequentialMachine ..^ (abstract: one instruction at a time)

Word, Instruction ── Decoder ── Lab3Decoder ─┐           HW3, HW4
      Instruction ── ALU ─── InstructionUnit ── MCInstructionUnit

Event ── EventQueue ── MCEventQueue                      HW1
   └─ EarliestFirst ..^ (abstract: a bag, earliest first)

LoopSimulator                                            HW2
   ^.. SequentialLoop (abstract: one instruction after another)
```

A solid line is EXTENDS, a dotted one a refinement (`INSTANCE ... WITH`).
`X_proofs` holds the proofs about `X`; `SnoopyOrder_proofs` those about the
steps of `SnoopySystem`. A definition whose comment says *mutation* is not part
of the specification: it is the plausible bug that the property named in
`PROJECT.json` must catch.

### SnoopySystem (with MesiCache, QueueOps)

A cache is a record of its map and its list; each member function is an operator
from a cache to a cache. The system's actions are the branches of `runSimulation`:

| action | code |
|---|---|
| `SkipWaiting` | the `isWaiting` test |
| `ReadHit`, `WriteHit` | the hit branches |
| `ReadMissShared`, `ReadMissMemory` | a read miss with and without a holder (`snoopRead` returns at the first) |
| `WriteMiss`, `SnoopSkip`, `SnoopModified`, `QueueWrite` | a write miss: the loop of `snoopWrite`, one step per cache, and the request queued after it |
| `UpdateState` | `updateState` and the loop of `updateSnoopingState` |
| `GrantBus`, `ServeBus`, `NoGrant` | the bus part: `grantAccess` and `requestBusAccess`; `handleBusRequest`, the broadcast and `releaseBus`; an empty arbiter |

`pc`, `cpu` and `snooped` are the program counter; there is one thread, so the
steps are cut only where a property wants to look in between.

*Uninitialized variables.* `updateState` and `updateSnoopingState` return a
local that some paths never assign. The constants `UninitStates` and
`UninitUpdates` are the sets of values such a read can give; every read chooses
afresh. The unoptimized build behind `HW5/output.txt` prints only `UNKNOWN`;
optimized builds of the same source give other values. The two flags of a
`Cache` have no initializer either, and `Init` lets them hold either value.
A line in state `UNKNOWN` is a hit for `runSimulation` (it only compares with
`INVALID`), and is in none of the branches of the two functions; both are modelled.

*Simplifications.* The tag of a line is never read. The branch of
`requestBusAccess` for a bus in use is in `GrantBus`, but no state takes it
(`QueuesAgree` and `Control` imply so). `busInUse` is `currentProcessorID # NoCPU`.

### DirectorySystem, DirectoryScript

One action per access (`ReadHit`, `ReadMiss`, `WriteHit`, `WriteMiss`), with all
the messages it causes, since a message is a call. `HandleNetworkMessage` is the
cache's handler, `ReadMissEntry`/`ReadMissCaches` and
`WriteMissEntry`/`WriteMissCaches` the directory's, `RouteMessage` the network.
`DirectorySystem` lets any CPU access any address; `DirectoryScript` plays the
program's own list. Addresses that share a directory entry are beyond that list
but within what the classes accept.

A cache keeps the address of its `NetworkNode`, an element of a vector that
grows afterwards. The pointer is used only to answer a Fetch of a MODIFIED line,
and `DirectoryAgrees` shows that no Fetch ever finds one, so the model needs no
value for it. A `DataWriteBack` is never sent, and memory never changes.

### Pipeline, SequentialMachine, Instruction

A stage is an instruction or `None`. A cycle is five steps (`phase`): the move of
the instructions, together with fetching and decoding the new ones; execute;
memory; write-back; the bus. `UpdatePipeline` computes the move from the last
stage to the first as the code does (`NewWriteBack`, `NewMemory`, `NewExecute`,
`NewDecode`), with `dataHazardCheck` seeing the stages already moved. The
non-pipelined form has one action per branch of `updateDataPath`.

The constant `Runs` is the set of (program, pipelined) pairs; programs do not
change, words outside a program are 0, addresses count words, and
`Modulus` is 2^32 in the code. The ALU is a constant operator: `doTheThing` is a
function of the instruction and two operands. Words for which `setALUop` assigns
nothing (`sub`, `sra`, `srai`) have no such function and are left to
`InstructionUnit`. `X1` is the 160 that `main` writes to `x1`; `Memories` are the
contents the data memory can have before (`fillRandomData`). A word that a
floating-point load takes is converted to a float and back, and `AsFloat` says what
comes back: the word itself up to 2^24, a rounded one beyond. (A word that rounds to
2^32 has no defined conversion; TLAPS needs only that `AsFloat` gives a word.)
Addresses go through a float as well, and need no operator: the RAM ends at 0x13FF.
`Slot.at`, the address an instruction was fetched from, is the one variable part the
code does not have; nothing but the refinement mapping reads it.
`PutsBack` names the instructions that write what their register holds, as the nop
`addi x0, x0, 0` does; `dataHazardCheck` treats them as any other (`x0` is a register
like the others), and what it misses of them does no harm.

In `SequentialMachine` an instruction reads what its predecessors left. Under
the mapping `pc` is `OldestPC`, the address of the oldest instruction that has
not taken effect: a store takes effect when the bus writes it, any other
instruction when it is written back.

### InstructionUnit (with Word, Decoder, Lab3Decoder, ALU)

A word is the set of its 1 bits, so the shifts and masks of the source are set
operations (`Word`). `Decoder` has one operator per part of HW4's decoder:
`SetImmediate`, `SetALUop`, `RegWrite`, `Branch` and the others of `Instruction`,
`Mnemonic` and `Operands` for `assembleString`; a text is its mnemonic and the
list of its operands. `Lab3Decoder` is the same for HW3. `ALU` is `doTheThing`
on numbers of `Width` bits; its bitwise operations take the bits of a number
(`BitsOf`) and the number that has given bits (`NumberOf`).

`InstructionUnit` follows one `Instruction` object: built (`Init`), `Decode`,
`Execute` with any contents of its registers and pc, or `Crash`, the division
that has no quotient. Objects share no state, so one is enough. The operation
`op` can be anything until it is assigned, and stays so where `setALUop` assigns
nothing. The shift count is taken modulo the width, as the processor does; in
C++ a larger count has no defined result. Addition and multiplication wrap,
as they do in the builds of the repository.

`Position` and `Meaning` in the properties are the reference: the immediate
formats and the integer instructions of RISC-V, which the source names as what it
implements (`instruction.h:10`, `instruction.cpp:13,15`). What the code does
differently is named, not excused: the immediates that are wrong
(`SurvivesShifts`, negative stores), the words that are performed as others
(`TakenForMultiplication`), the operands with another result (`Differs`), the
divisions that crash and the differences of the decoders (`OffsetIsClean`) are stated
with `<=>`, so that a repair of the code would refute them as well as a new fault.
The exception are the words whose operation is left unassigned (`OperationIsLeft`:
`sub`, `sra`, and the I-type words but `addi` with an immediate outside 0 to 63):
of these the properties say only that the result fits the register and that a crash is a
division of the least number by -1, because the operation can be anything.

### LoopSimulator, SequentialLoop

One action per branch of the chain of `if`s that moves an instruction, each with
the effect of what is then in the store stage. `Oldest` maps the stages to the
instruction that takes effect next.

### EventQueue, EarliestFirst

One action per iteration of the loops of `insertionSort`, so that the moment
when one event is in `temp` only is a state of its own; `Pending` is the vector
with that hole filled. Each number `v` has one follow-up delay, because the code
calls `srand(v)` right before `rand()`: `Delay` is a function.
`EarliestFirst` keeps a bag and takes its earliest element; `BagOn` maps the
vector to its bag.

## 3. Runs

| run | module, cfg | states | what it shows |
|---|---|---:|---|
| `snoopy_queues` | MCSnoopy, SnoopyQueues | 63 000 | queues agree, a waiter has one request, service is first come first served (`BusService`), a dropped CPU never resumes, LRU matches the map, the rounds end |
| `snoopy_owners` | MCSnoopy, SnoopyOwners | 1 815 000 | with two addresses, only `snoopWrite`'s nested request gives a line two owners, and only a stale request makes a coherent line incoherent |
| `snoopy_one_address` | MCSnoopy, SnoopyOneAddress | 775 000 | with one address: one owner, memory stays 0, types |
| `snoopy_write_back` | MCSnoopy, SnoopyWriteBack | violation | a snooped MODIFIED line is not written to memory |
| `directory_nodes` | DirectorySystem, DirectoryNodes | 21 000 | directory entries agree with their own cache, nodes are isolated (`PrivateMemory`), aliased reads starve, types |
| `script_sharers` | DirectoryScript, ScriptSharers | violation | a MODIFIED block is SHARED elsewhere |
| `script_callback` | DirectoryScript, ScriptCallback | violation | a read stays pending after its datum came |
| `pipeline` | MCPipeline, PipelineSafe | 309 000 | the repository's pipelined program and all small safe ones: both forms implement `SequentialMachine`, neighbouring hazards stall, loads get their datum, the CPU keeps retiring, types |
| `pipeline_hazard` | MCPipeline, PipelineHazard | violation | a reader two instructions behind a writer uses the old register |
| `event_queue` | MCEventQueue, EventQueue | 44 000 | the sorted vector implements `EarliestFirst`, processing is in order, a delay of 0 stops time, types |
| `instruction_unit` | MCInstructionUnit, InstructionUnit | 100 000 | which immediates are those encoded, on which operands the result is that of the instruction printed, what kills the simulator, how the ALU's operations fit together, where HW3 and HW4 differ, types |
| `loop_simulator` | LoopSimulator, LoopSimulator | 397 | the loop implements `SequentialLoop`, an instruction takes four cycles, the loop ends, types |

How the coherence properties of HW5 depend on the build and the instance:

* `OneOwner` is true with one address. With two it is not: when a write miss
  finds a MODIFIED line whose holder has a request for *another* address queued,
  `snoopWrite` performs that request, and the update that would have told the
  other caches is dropped. `OnlySnoopMakesTwoOwners` says this is the only way,
  as long as the uninitialized state is not itself an owning one.
* A line is `Coherent` when its owner is its only holder and its holders have
  one datum. This is no invariant, even with one address and whatever an
  unassigned `nextState` is: a request queued as a miss is served
  later, and by then its CPU may have lost the line and another may hold it. Such
  a request is stale (`IsStale`); served as a read, or performed inside `snoopWrite`,
  it takes the line beside the other holder. In `snoopy_owners` both exceptions
  happen: an incoherent line comes up in the second round, two owners in the
  fourth. `OnlyStaleRequestsBreakCoherence` says that nothing else does
  it, as long as the uninitialized state makes no holder.
* `MemoryStaysZero` is a consequence of the inverted `isRead` flag: a write miss is
  queued with `isRead` = 1 and a read miss with 0 (`simulation.cpp:93,109`), so
  what the CPUs write never reaches memory, and what is written is a read
  miss's 0.

`pipeline` takes the programs that are `Safe`: when pipelined, those where no
instruction reads a register written by the one two places before it, unless that one
only puts back what the register holds, and that have no `auipc`. The first are the programs whose
hazards the hazard check misses. The pipelined program the repository comes with
(`assembly_code/instructions.txt`, whose four nops `addi x0, x0, 0` read what the
nop two places before has put back) is one of them and is among those run, with its
numbers in words instead of bytes and a shorter array.
`pipeline_hazard` shows what happens to the programs that are not. An `auipc` adds its immediate to the
`pc` the CPU has when it is executed (`CPU.cpp:67`), which in the pipeline has gone
ahead by what was fetched behind it; without that hypothesis TLC refutes
`ImplementsSequential`. (It refutes it also with the first hypothesis dropped. The
class is not the exact one: an `auipc` with nothing behind it does no harm.)
`SpecImplementsSequential` proves that every safe program runs as it should.

What `instruction_unit` shows of HW4, beside the immediates of section 6:

* With an immediate outside 0 to 31, `slti`, `xori`, `ori` and the other I-type
  operations but `addi` are not performed: bits 5 to 11 of the immediate are read as
  `funct7`. From 32 to 63 the word is performed as the multiplication or division of
  its `funct3`; else, and for `sub`, `sra` and `srai`, the operation was never assigned.
* On the operands of `Differs` the result is not that of the instruction: `srl` of
  a negative number, the upper half of an unsigned product (`mulhu` gives 0),
  division by 0 (0), `lui` (adds a register), `jalr` to an odd target.
* Else the result is right, and the operations agree with each other and with the
  branches (`OperationsFitTogether`).
* HW4's text of `sw` names datum and base in the other order than HW3's, and the two
  know `fsw` by different `funct3` (`DecodersAgree`).

## 4. Bounds

| bound | value | why it is enough |
|---|---|---|
| `NumCPU` (HW5) | 3, or 2 | a requester, a holder and a third queued between them: the order of the queues and the removal from their middle need three. Ownership relates two caches |
| `LoopMax` | 2 or 3 | 3 where owners and holders matter: with 2 no line gets two owners. The loop runs `LoopMax` + 1 rounds: one to fill the queue, one in which a queued CPU is snooped, one to see what the next grant finds. Every disjunct of `Next` fires |
| `MaxCacheLines` | 1 or 2 | eviction happens as soon as there are more addresses than lines; two lines let a CPU own one line and wait for another |
| `Address` (HW5) | {0, 1} or {0} | the protocol handles addresses independently but for evictions, requests for another address, and address 0 of the default request |
| `Data` | {0, 1} or {0} | a written datum that differs from memory's 0; 0 alone where no property reads data |
| HW5-2: `NumCPU`, `Address`, `NumEntries` | 2, {0, 2}, 2 | two addresses with one entry; `RamSize` = 2, so that one address is beyond the RAM and reads as the error value |
| HW4: programs | 3 instructions of 14, and the repository's of 9 | a writer, one between, a reader; a jump with an instruction behind it to flush; backward branches give loops. Each class of instruction is there |
| HW4: `Modulus`, `Reg`, `FpDelay` | 10, {0,1,2,4,13,24}, 2 | room for the repository's program and the word 0 behind it, with the numbers its fields hold; addresses wrap, comparisons have both signs; the delay is counted to its end |
| HW4: `X1`, `AsFloat`, `Memories` | 4, even numbers, one | two iterations of the program's loop, which takes off 2; a conversion that changes a word; no two words of the memory are equal, so that a wrong address shows |
| HW1: `NumEvents`, `MaxEvents` | 4, 8 | insertion at the front, the back and between, with equal times; every initial event and as many follow-ups are processed |
| HW1: `V`, delays, `StartTimes` | {0,1,2} each | delays of 0, 1 and 2, ties in time and in number |

| HW4, HW3: `Words` | 615 words | every opcode with every single further bit: the decoders are built from shifts, masks and unions, which are determined by single bits, and comparisons, for which every `funct3` is there with each value of `funct7` that the code compares with; the words of `lab2.txt`. For the decoders the theorems cover every word |
| HW4: `Modulus`, `Width` | 16, 4 | a power of two, so that shift counts are taken modulo the width; products and quotients have both signs and overflow |
| HW4: `Held`, `PCs` | 8 values, {4} | 0, 1, -1, the least and the greatest number, and others of both signs |
| HW2 | 160, 0, 8 | the program's own numbers. `MaxClock` = 400 is not reached: the loop takes 396 cycles |

The theorems of section 6 hold without any of these bounds.

## 5. Fairness

Each program is one thread with no blocking operation, so weak fairness of the
whole next-state relation is what running it means; no action gets fairness of
its own. `Terminates` (HW5, HW2) and `KeepsRetiring` (HW4) are checked under it.
Programs end, and `InstructionUnit` ends with the result, so deadlock is not
checked except in `directory_nodes`, where an access is always possible.

## 6. Theorems

Proved with TLAPS for every value of the constants that satisfies the named
assumptions (`CacheAssumption`, `SystemAssumption`, `DirectoryAssumption`,
`ModulusAssumption`, `PipelineAssumption`, `EventAssumption`,
`QueueAssumption`, `WidthAssumption`, `UnitAssumption`, `LoopAssumption`), which
say no more than that sizes are naturals, sets of values are subsets of the right
type, the ALU returns a word and a register of `Width` bits holds 2^`Width` values.

| module | theorems | inductive invariant |
|---|---|---|
| `SnoopySystem_proofs` | `SpecTypeOK`, `SpecQueuesAgree`, `SpecOneRequestPerWaiter`, `SpecLruMatchesLines`, `SpecMemoryStaysZero` | `IInv` of SnoopySystem |
| `SnoopyOrder_proofs` | `SpecFirstComeFirstServed` (a refinement), `SpecDroppedNeverResumes`, `SpecOnlySnoopMakesTwoOwners`, `SpecOneOwner`, `SpecOnlyStaleRequestsBreakCoherence` | the same, and `Filled` |
| `DirectorySystem_proofs` | `SpecTypeOK`, `SpecDirectoryAgrees`, `SpecNodesAreIsolated` (a refinement), `SpecAliasedReadsStarve` | `TypeOK /\ DirectoryAgrees` |
| `Pipeline_proofs` | `SpecTypeOK`, `SpecNeighbourHazardsStall`, `SpecLoadsHaveTheirDatum`, `SpecImplementsSequential` (a refinement) | `IInv` of Pipeline, and `InOrder` for the last |
| `EventQueue_proofs` | `SpecTypeOK`, `SpecProcessedInOrder`, `SpecTimeFreezes`, `SpecImplementsEarliestFirst` (a refinement) | `IInv` of EventQueue |
| `InstructionUnit_proofs` | `SpecTypeOK`, `ImmediatesAreEncodedAlways`, `ComputesWhatItIsNamedAlways`, `OperationsFitTogetherAlways`, `OnlyDivisionsCrashAlways`, `DecodersAgreeAlways` | `TypeOK /\ IInv` of InstructionUnit_proofs |
| `LoopSimulator_proofs` | `SpecTypeOK`, `SpecKeepsTime`, `SpecImplementsLoop` (a refinement) | `IInv` of LoopSimulator |

`MesiCache_proofs` holds the lemmas on the queue operators (what stays, in which
order, without repeats) and on the cache's member functions.

**SnoopySystem.** `QueuesAgree` alone is not inductive: when a CPU is taken out of
one queue by *number* and out of the other by *request*, the two stay in step
only if it occurs once in each. `OneRequestPerWaiter` gives that, and needs in
turn that a CPU that makes an access is not waiting, also after the loop of
`snoopWrite` (`Control`). `MemoryStaysZero` needs that a queued request which
will be performed as a write carries 0 (`WritesAreZero`). `LruMatchesLines`
rests on `MesiCache_proofs`: between `updateLRUOrder` and the line being put in
the map the two differ at the address in use (`MatchesBut`).
The theorems on owners and holders assume of the uninitialized `nextState` what
they are about: `SpecOnlySnoopMakesTwoOwners` and `SpecOneOwner` that it is no
owning state, `SpecOneOwner` also that the address is 0 (the address of
the default request, so that a snooped holder gives up the very line it owns), and
`SpecOnlyStaleRequestsBreakCoherence` that it is no valid state (INVALID and
UNKNOWN are what the builds without `-O2` give). The last takes a line through each
step: hits change one holder, the broadcast after a write leaves the writer
alone (`BroadcastHolders`), and the datum of a line filled from another cache is the
holders' (`Filled`, which says what the access in progress has put in its line).

**DirectorySystem.** `DirectoryAgrees` with the types is inductive. The refinement
follows: a message never leaves the node of the CPU that caused it, so each
access is a `Load` or `Store` of one private array, or a stutter (a miss filled from memory
changes no value of the mapped array).

**Pipeline.** `NeighbourHazardsStall` follows from `NeverFeeds`: an instruction
moves to the execute stage only when what has just moved to the memory stage
does not write its registers, and the memory stage is filled from the execute
stage only. When not pipelined there is one instruction at a time
(`OneAtATime`). `LoadsHaveTheirDatum` needs `Outstanding` and `BusIdle`: the bus
holds exactly the request of the instruction in the memory stage before the bus
step and exactly its answer after it, which is why clearing `memRequestPending`
without looking at the responses does no harm with one CPU.
`SpecImplementsSequential` assumes of each run that it is `Safe` (section 3).
Its invariant `InOrder` says of the five stages together what a step of the
sequential machine needs to be true of the oldest alone: each stage holds the instruction
of its address, and the address is the one after its elder's, or the target of
its elder's jump (`InSequence`); nothing is behind a taken jump
(`NothingBehindJumps`); what has been executed has the outcome and the result
the registers *now* give (`ResultsAreRight`); and the bus carries the request of the
memory stage with the datum the register *now* has (`BusCarries`). The word *now* is
where hazards matter: a write-back changes the registers under an executed instruction,
and leaves its result right only if it feeds none of the younger ones
(`WriteBackFeedsNone`) or puts back what is there
(`PutsBackKeeps`): the neighbour by `NeverFeeds`, the next by
`Safe`, the one after it because `dataHazardCheck` sees the write-back stage when
there is a bubble in between. `MovesKeepOrder` shows that the move keeps
this, `OldestPC` included. Of all the actions only the
writing back of an instruction that is no store, and the bus's writing of a
store, are steps of the machine; the others are stutters.

**EventQueue.** `Sorted` describes how far the vector is sorted at each place of
the two loops, with the hole excepted. `ProcessedInOrder` needs that nothing
pending is earlier than what was processed (`NothingEarlier`); `TimeFreezes`
that the earliest event already has its follow-up in the queue
(`FollowUpIsPending`, `LastIsPending`). The first event processed has none,
because `addNewEvent` runs after the erase, on the new head; the property
excepts it. The refinement needs the same invariant: a step of the sort exchanges
two positions of the filled vector, and renaming positions keeps the bag
(`BagOnRenamed`); `Process` takes position 1 away and adds the follow-up
(`BagOnRemove`, `BagOnAdd`), and what a sorted vector has in position 1 is the
only earliest element of the bag (`EarliestOfBag`).

**LoopSimulator.** `KeepsTime` is not inductive without knowing where the
instructions are. `At(n, i, p)` says it: in iteration n the i-th instruction has
moved p stages and the clock shows 20n + 4i - 2 + p. `IInv` asserts that some n, i
and p fit; each action moves to the next, and the pointer is decremented once in an
iteration. `Oldest` is then instruction i until it has stored, and i's successor after.

**InstructionUnit.** The theorems are about all 2^32 words, registers of any
width and all their contents. The invariant says that the fields are those of the
word, that `op` is a fixed point of `setALUop` for the word (true also where
nothing is assigned), that a crashed instruction was at a trapping division, and that an
executed one has the jump and the result of its operands.

* The immediates go format by format, each bit of the result traced to the bit of
  the word it comes from.
* The bits of a number: a number is determined by its low bits, one more at
  a time (`LowBits`, `BitsDetermineNumber`), and there are as many sets of bits as
  numbers, so each set is that of a number (`NumberHasBits`). That sums over bits
  behave (`BitwiseSums`) is again shown one bit at a time. The library's
  induction theorem takes an operator; `HoldsAllNaturals` states it for a set,
  from the well-foundedness of the naturals. The provers know nothing of 2^n, so what is
  needed of it is derived from the size of a power set (`PowerIsSize`).
* Products and quotients: a signed register is half the modulus at most, so the
  upper half of a product and every quotient but one fit a register
  (`HighProductFits`, `QuotientFits`), and taking them modulo 2^Width loses nothing.
* What is computed: for each operation and each name it can have, on which operands the
  result is the named one (`OperationsCompute` and the lemmas before it); then word by
  word, that an assigned operation and the printed name come from the same row of the
  tables (`WordComputes`, `FloatsCompute`, `JumpsAreNamed`).
* A crash goes back from the operation to `funct3`, `funct7` and the printed name.

Only model-checked: the liveness properties, `Terminates` and `KeepsRetiring`
(fairness and ENABLED are outside the prover).

## 7. Where the code and its comments disagree

Each of the four is a run that TLC finds violated.

* **`snoopWrite` writes nothing back** (`snoopy_write_back`). "wite modified line
  to main memory" (`HW5/src/snoopy.cpp:33`) is followed by a call that performs
  whatever request the holder has queued, or a write of 0 to address 0.
* **Invalidations do not reach the sharers** (`script_sharers`). "Send invalidate
  messages to all sharers except the requesting node"
  (`HW5-2/src/directory.cpp:81`): the message is built with source and
  destination swapped, and each directory knows its own cache only.
* **A pending read's callback is not called when its data arrives** (`script_callback`).
  It is stored after the answer has been handled
  (`HW5-2/src/cache.cpp:60-62`; `HW5-2/include/cache.h:28`).
* **Not all data hazards are detected** (`pipeline_hazard`). The write-back stage
  is looked at only when the memory stage is empty (`HW4/CPU.cpp:362`).

A fifth has no run of its own: in the pipeline `auipc` adds to a `pc` that has gone
ahead (section 3, `Safe`).
Others are part of properties that hold because of them: data are "for
write operation" (`HW5/include/MemoryBus.h:16`), but requests with data are flagged
as reads (`MemoryStaysZero`); `ALU.h:42` says "logical shift right" of a shift
that copies the sign (`ComputesWhatItIsNamed`), `instruction.cpp:13,20`
"Sign-extend" of immediates that are not (`ImmediatesAreEncoded`). `ALU.h:64` says
"Multiply Upper Half (Unsigned)" of `MULH`, whose operands are `int32_t` and whose
product is signed, as that of RISC-V's `mulh`; `ComputesWhatItIsNamed` and
`OperationsFitTogether` state the signed one.
Outside the models, the loader fills addresses up to 0x94 where
`simulation.cpp:73` says 0x093, and the last random word written at 0xBFF
reaches beyond the range its comment names (line 111).

## 8. What is not modelled

* HW4: `setRM`, `printSignals` and HW3's signal `ALUop`, which are printed and read
  by nothing else; floating-point arithmetic, whose results the code drops
  (`instruction.h:141`).
* HW4: the bytes of the RAM and its missing bounds check; `loopMax`; the second
  CPU, which is built but whose `runCPUcycle` is commented out
  (`simulation.cpp:142`), so no run has two requesters on the bus.
* HW5: `MemoryBus::getNextRequest`; HW5-2: `updateEntry`, `isCachedElsewhere`,
  `readData`, `NetworkNode::receiveMessage` and the `DataWriteBack` branch.
  Nothing calls or sends them.
* Event logs, printing, reading of the instruction file, random numbers (inputs
  are chosen nondeterministically).

## 9. Plan

Every program has its modules: the snooping system, the directory system, the
pipeline, the event queue, the decoders with the ALU, and the fixed loop. Every
property of the passing runs but the two liveness properties is proved. Next:

1. Two CPUs on the HW4 bus: responses claimed by the wrong CPU
   (`memBus.h:39`), as a module composed of two pipelines' memory stages. No run
   of the program has two, so this is about the classes, not the program.
2. HW5: which requests `snoopWrite` drops, as an abstract specification of a
   CPU's life (running, waiting, dropped) with liveness for CPUs never snooped.

## 10. Running the checks

```
tlc -workers 2 -config SnoopyQueues.cfg MCSnoopy.tla     # any row of section 3
tlapm SnoopySystem_proofs.tla                            # any module of section 6
```

Each TLC run takes about a minute, `snoopy_owners` two or three; the proofs take a few minutes in all.
