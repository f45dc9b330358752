------------------------------- MODULE Pipeline -------------------------------
(***************************************************************************)
(* One CPU of src/HW4 (CPU.cpp) on its memory bus (memBus.h), as the loop  *)
(* of runSimulation runs it: a cycle of the CPU, then the bus.             *)
(*                                                                         *)
(* A stage is a std::queue that never holds more than one instruction: it  *)
(* is that instruction, or None.  phase names the part of the cycle to be  *)
(* executed next:                                                          *)
(*                                                                         *)
(*   update     the instructions move (updatePipeline or updateDataPath),  *)
(*              and the new ones of the first two stages are fetched and   *)
(*              decoded                                                    *)
(*   execute, memory, writeBack    the other stages                        *)
(*   bus        processMemoryRequests                                      *)
(*                                                                         *)
(* Addresses count words.  What is stored at the instructions' addresses   *)
(* is left out, and so is loopMax: a program that jumps back for ever runs *)
(* for ever.  The second CPU is built but never run.  A floating-point     *)
(* register is the word its float converts to; an address in the memory is *)
(* too small to change when a floating-point store converts it.            *)
(***************************************************************************)
EXTENDS Instruction, Sequences

CONSTANTS
    Reg,            \* the numbers of the registers
    ALU(_, _, _),   \* ALU::doTheThing: an instruction and two operands
    None,           \* an empty stage, and the word 0 that ends a program
    FpDelay,        \* the 5 of updateDataPath
    AsFloat(_),     \* a word that was converted to a float, and back: rounded
                    \* from 2^24 on
    X1,             \* 160, what main writes to x1
    Memories,       \* what the memory holds before: words chosen at random
    Runs            \* the programs run, each with the value of pipeline

VARIABLES
    program,            \* the instructions in memory, by their addresses
    pipelined,          \* CPU::pipeline
    pc,
    regs, fpRegs,       \* CPU::registers
    fetch, decode, execute, memory, writeBack,      \* the stages
    dataHazard, fpDelay, memRequestPending, reset,
    requests,           \* MemBus::memoryRequests
    responses,          \* MemBus::memoryResponses
    stack,              \* the memory from stackAddress on
    phase

registers == <<regs, fpRegs>>
stages == <<fetch, decode, execute, memory, writeBack>>
bus == <<requests, responses, stack>>
inputs == <<program, pipelined>>
vars == <<inputs, pc, registers, stages, dataHazard, fpDelay, memRequestPending,
          reset, bus, phase>>

Instr == [opcode : Opcode, funct3 : 0..7, rd : Reg, rs1 : Reg, rs2 : Reg, imm : Value]

\* An instruction on its way, with the results the stages leave in it; at is
\* the address it was fetched from, which the code does not keep.
NoData == -1
Slot == [ins : Instr, at : Value, PCsel : BOOLEAN, ALUresult : Value,
         loadedData : Value \cup {NoData}]

ASSUME PipelineAssumption ==
    /\ FpDelay \in Nat
    /\ 0 \in Reg
    /\ \A i \in Instr, x, y \in Value : ALU(i, x, y) \in Value
    /\ \A x \in Value : AsFloat(x) \in Value
    /\ X1 \in Value /\ Memories \subseteq [Value -> Value]
    /\ None \notin Instr /\ None \notin Slot
    /\ \A run \in Runs : run \in [Value -> Instr \cup {None}] \X BOOLEAN

Init ==
    /\ \E run \in Runs : program = run[1] /\ pipelined = run[2]
    /\ pc = 0
    /\ regs = [r \in Reg |-> IF r = 1 THEN X1 ELSE 0]
    /\ fpRegs = [r \in Reg |-> 0]
    /\ fetch = None /\ decode = None /\ execute = None
    /\ memory = None /\ writeBack = None
    /\ dataHazard = FALSE /\ fpDelay = 0 /\ memRequestPending = FALSE
    /\ reset = FALSE
    /\ requests = << >> /\ responses = << >>
    /\ stack \in Memories
    /\ phase = "update"

After(a) == (a + 1) % Modulus
Before(a) == (a - 1) % Modulus

\* The instruction fetched from address a, and the one decoded from slot s:
\* a branch is assumed taken until it is executed.
Fetched(a) == [ins |-> program[a], at |-> a, PCsel |-> FALSE, ALUresult |-> 0,
               loadedData |-> NoData]
Decoded(s) == [s EXCEPT !.PCsel = PCsel(s.ins.opcode, TRUE)]

Jumps(s) == s # None /\ s.PCsel

-----------------------------------------------------------------------------
\* CPU::updatePipeline.  The instructions move from the last stage to the
\* first; New... is a stage after its move.

\* flushPipeline: the instruction behind a jump is thrown away.
Flushes == Jumps(decode) /\ fetch # None
FlushedPCKept == pc        \* (mutation: the pc is not set back)
FlushedPC == IF Flushes THEN Before(pc) ELSE pc

MemoryMoves == memory # None /\ ~memRequestPending
NewWriteBack == IF MemoryMoves THEN memory ELSE None

ExecuteMoves == execute # None /\ (memory = None \/ MemoryMoves)
NewMemory ==
    IF ExecuteMoves THEN execute ELSE IF MemoryMoves THEN None ELSE memory

\* dataHazardCheck, for the instruction d about to be executed.
Feeds(s, d) == s.ins.rd \in {d.ins.rs1, d.ins.rs2}
\* (Mutations: the memory stage is not looked at; the flag is never cleared.)
DataHazardCheckWriteBackOnly(d) ==
    NewWriteBack # None /\ (dataHazard \/ Feeds(NewWriteBack, d))
DataHazardCheckNeverCleared(d) ==
    \/ dataHazard
    \/ NewMemory # None /\ Feeds(NewMemory, d)
    \/ NewMemory = None /\ NewWriteBack # None /\ Feeds(NewWriteBack, d)
DataHazardCheck(d) ==
    \/ NewMemory # None /\ (dataHazard \/ Feeds(NewMemory, d))
    \/ NewMemory = None /\ NewWriteBack # None /\ (dataHazard \/ Feeds(NewWriteBack, d))

DecodeChecked == decode # None /\ (execute = None \/ ExecuteMoves)
NewDataHazard == IF DecodeChecked THEN DataHazardCheck(decode) ELSE dataHazard
DecodeMoves == DecodeChecked /\ ~NewDataHazard
NewExecute ==
    IF DecodeMoves THEN decode ELSE IF ExecuteMoves THEN None ELSE execute

FetchMoves == fetch # None /\ ~Flushes /\ (decode = None \/ DecodeMoves)
NewDecode ==
    IF FetchMoves THEN Decoded(fetch) ELSE IF DecodeMoves THEN None ELSE decode

\* controlHazardCheck and the fetch of the next instruction.
ControlHazard == Jumps(NewExecute) \/ Jumps(NewMemory)
Fetches ==
    /\ fetch = None \/ Flushes \/ FetchMoves
    /\ ~ControlHazard /\ program[FlushedPC] # None

UpdatePipeline ==
    /\ phase = "update" /\ ~reset /\ pipelined
    /\ writeBack' = NewWriteBack
    /\ memory' = NewMemory
    /\ dataHazard' = NewDataHazard
    /\ execute' = NewExecute
    /\ decode' = NewDecode
    /\ IF Fetches
       THEN fetch' = Fetched(FlushedPC) /\ pc' = After(FlushedPC)
       ELSE /\ fetch' = IF Flushes \/ FetchMoves THEN None ELSE fetch
            /\ pc' = FlushedPC
    /\ phase' = "execute"
    /\ UNCHANGED <<inputs, registers, fpDelay, memRequestPending, reset, bus>>

-----------------------------------------------------------------------------
\* CPU::updateDataPath: one instruction moves, by one stage.

DataPath ==
    /\ phase = "update" /\ ~reset /\ ~pipelined
    /\ phase' = "execute"
    /\ UNCHANGED <<inputs, registers, dataHazard, memRequestPending, reset, bus>>

\* All the stages but the last are empty: the next instruction is fetched.
FetchNext ==
    /\ DataPath /\ <<fetch, decode, execute, memory>> = <<None, None, None, None>>
    /\ writeBack' = None
    /\ IF program[pc] # None
       THEN fetch' = Fetched(pc) /\ pc' = After(pc)
       ELSE UNCHANGED <<fetch, pc>>
    /\ UNCHANGED <<decode, execute, memory, fpDelay>>

FetchToDecode ==
    /\ DataPath /\ fetch # None
    /\ decode' = Decoded(fetch) /\ fetch' = None
    /\ UNCHANGED <<pc, execute, memory, writeBack, fpDelay>>

DecodeToExecute ==
    /\ DataPath /\ fetch = None /\ decode # None
    /\ execute' = decode /\ decode' = None
    /\ UNCHANGED <<pc, fetch, memory, writeBack, fpDelay>>

\* A floating-point instruction stays for FpDelay cycles more.
ExecuteToMemory ==
    /\ DataPath /\ fetch = None /\ decode = None /\ execute # None
    /\ IF IsFloat(execute.ins.opcode) /\ fpDelay < FpDelay
       THEN fpDelay' = fpDelay + 1 /\ UNCHANGED <<execute, memory>>
       ELSE fpDelay' = 0 /\ memory' = execute /\ execute' = None
    /\ UNCHANGED <<pc, fetch, decode, writeBack>>

MemoryToWriteBack ==
    /\ DataPath /\ fetch = None /\ decode = None /\ execute = None /\ memory # None
    /\ IF memRequestPending THEN UNCHANGED <<memory, writeBack>>
       ELSE writeBack' = memory /\ memory' = None
    /\ UNCHANGED <<pc, fetch, decode, execute, fpDelay>>

UpdateDataPath ==
    FetchNext \/ FetchToDecode \/ DecodeToExecute \/ ExecuteToMemory \/ MemoryToWriteBack

-----------------------------------------------------------------------------
\* CPU::Execute, which runs again in every cycle its instruction stays.  A
\* floating-point result is lost: setALUfloatResult assigns the field to itself.
Executed(s) ==
    LET i == s.ins
        x == regs[i.rs1]
        y == regs[i.rs2]
    IN  [s EXCEPT
           !.PCsel = PCsel(i.opcode, ShouldTakeBranch(i.funct3, x, y)),
           !.ALUresult = IF i.opcode = "FP_TYPE" THEN 0
                         ELSE ALU(i, IF ALUsrc1(i.opcode) THEN pc ELSE x,
                                     IF ALUsrc2(i.opcode) THEN i.imm ELSE y)]

Execute ==
    /\ phase = "execute"
    /\ execute' = IF execute = None THEN None ELSE Executed(execute)
    /\ phase' = "memory"
    /\ UNCHANGED <<inputs, pc, registers, fetch, decode, memory, writeBack,
                   dataHazard, fpDelay, memRequestPending, reset, bus>>

-----------------------------------------------------------------------------
\* CPU::Memory.

Accesses(s) == MemRead(s.ins.opcode) \/ MemWrite(s.ins.opcode)

\* The address of an access; a floating-point load uses the float result, 0.
AccessAddress(s) ==
    IF s.ins.opcode = "LOAD_FP" THEN 0 ELSE s.ALUresult

InMemory == phase = "memory" /\ phase' = "writeBack"
AfterMemory == UNCHANGED <<inputs, registers, fetch, decode, execute, writeBack,
                           dataHazard, fpDelay, reset, stack>>

\* The stage is empty, or its instruction has nothing to do.
MemorySkips ==
    /\ InMemory
    /\ memory # None => ~memory.PCsel /\ ~Accesses(memory)
    /\ UNCHANGED <<pc, memory, memRequestPending, requests, responses>>
    /\ AfterMemory

MemoryJumps ==
    /\ InMemory /\ Jumps(memory)
    /\ pc' = memory.ALUresult
    /\ UNCHANGED <<memory, memRequestPending, requests, responses>>
    /\ AfterMemory

\* Read or Write: the request is queued.
MemoryRequests ==
    /\ InMemory /\ memory # None /\ ~memory.PCsel /\ Accesses(memory)
    /\ ~memRequestPending /\ memRequestPending' = TRUE
    /\ LET isFloat == IsFloat(memory.ins.opcode)
           isRead == MemRead(memory.ins.opcode)
       IN  requests' = Append(requests,
               [isRead |-> isRead, address |-> AccessAddress(memory),
                data |-> CASE isRead -> 0
                           [] ~isRead /\ isFloat -> fpRegs[memory.ins.rs2]
                           [] OTHER -> regs[memory.ins.rs2]])
    /\ UNCHANGED <<pc, memory, responses>>
    /\ AfterMemory

\* isWriteRequestPending.
WritePending == \E n \in DOMAIN requests : ~requests[n].isRead

\* loadData and loadDataFP: the word of a response as its load takes it.
Received(s, v) == IF IsFloat(s.ins.opcode) THEN AsFloat(v) ELSE v

\* isMemoryRequestComplete, and what follows it.  The flag is cleared whenever
\* no write is queued, whether the request is complete or not.
MemoryWaits ==
    /\ InMemory /\ memory # None /\ ~memory.PCsel /\ Accesses(memory)
    /\ memRequestPending
    /\ memRequestPending' = (responses = << >> /\ WritePending)
    /\ IF responses # << >> /\ MemRead(memory.ins.opcode)
       THEN /\ memory' = [memory EXCEPT !.loadedData = Received(memory, Head(responses))]
            /\ responses' = Tail(responses)
       ELSE UNCHANGED <<memory, responses>>
    /\ UNCHANGED <<pc, requests>>
    /\ AfterMemory

-----------------------------------------------------------------------------
\* CPU::WriteBack and the end of the cycle.

Datum(s) ==
    CASE WBsel(s.ins.opcode) = 0 -> s.loadedData
      [] s.ins.opcode = "FP_TYPE" -> 0
      [] OTHER -> s.ALUresult

Writes(s) == WBsel(s.ins.opcode) \in {0, 1}

WriteBack ==
    /\ phase = "writeBack" /\ phase' = "bus"
    /\ regs' = IF writeBack # None /\ Writes(writeBack) /\ ~IsFloat(writeBack.ins.opcode)
               THEN [regs EXCEPT ![writeBack.ins.rd] = Datum(writeBack)] ELSE regs
    /\ fpRegs' = IF writeBack # None /\ Writes(writeBack) /\ IsFloat(writeBack.ins.opcode)
                 THEN [fpRegs EXCEPT ![writeBack.ins.rd] = Datum(writeBack)] ELSE fpRegs
    /\ reset' = (stages = <<None, None, None, None, None>>)
    /\ UNCHANGED <<inputs, pc, stages, dataHazard, fpDelay, memRequestPending, bus>>

\* (Mutation: a write is answered as well.)
AnsweredAlways(r) == Append(responses, stack[r.address])
Answered(r) == IF r.isRead THEN Append(responses, stack[r.address]) ELSE responses

\* MemBus::processMemoryRequests.
ProcessMemoryRequests ==
    /\ phase = "bus" /\ phase' = "update"
    /\ IF requests = << >> THEN UNCHANGED bus
       ELSE LET r == Head(requests)
            IN  /\ requests' = Tail(requests)
                /\ responses' = Answered(r)
                /\ stack' = IF r.isRead THEN stack
                            ELSE [stack EXCEPT ![r.address] = r.data]
    /\ UNCHANGED <<inputs, pc, registers, stages, dataHazard, fpDelay,
                   memRequestPending, reset>>

Next ==
    \/ UpdatePipeline \/ UpdateDataPath
    \/ Execute
    \/ MemorySkips \/ MemoryJumps \/ MemoryRequests \/ MemoryWaits
    \/ WriteBack \/ ProcessMemoryRequests

\* The simulation is one thread that never blocks.
Spec == Init /\ [][Next]_vars /\ WF_vars(Next)

-----------------------------------------------------------------------------
Request == [isRead : BOOLEAN, address : Value, data : Value]
Stage == Slot \cup {None}

\* Registers, memory and pc hold words, a stage holds one instruction at most,
\* and no value that was never loaded reaches a register.
TypeOK ==
    /\ <<program, pipelined>> \in Runs
    /\ pc \in Value
    /\ regs \in [Reg -> Value] /\ fpRegs \in [Reg -> Value]
    /\ fetch \in Stage /\ decode \in Stage /\ execute \in Stage
    /\ memory \in Stage /\ writeBack \in Stage
    /\ dataHazard \in BOOLEAN /\ memRequestPending \in BOOLEAN /\ reset \in BOOLEAN
    /\ fpDelay \in 0..FpDelay
    /\ requests \in Seq(Request) /\ responses \in Seq(Value)
    /\ stack \in [Value -> Value]
    /\ phase \in {"update", "execute", "memory", "writeBack", "bus"}

-----------------------------------------------------------------------------
\* The instructions take effect one after the other.

\* A store in the memory stage takes effect when the bus writes its datum;
\* it leaves the stage later.
Stored ==
    /\ memory # None /\ MemWrite(memory.ins.opcode)
    /\ IF memRequestPending THEN ~WritePending
       ELSE phase \in {"writeBack", "bus", "update"}

\* Every other instruction takes effect when it is written back.
WrittenBack ==
    \/ writeBack = None \/ MemWrite(writeBack.ins.opcode)
    \/ phase \in {"bus", "update"}

\* The address the instruction behind the one in a stage comes from.
BehindDecode == IF fetch # None THEN fetch.at ELSE pc
BehindExecute == IF decode # None THEN decode.at ELSE BehindDecode
BehindMemory == IF execute # None THEN execute.at ELSE BehindExecute
BehindWriteBack == IF memory # None THEN memory.at ELSE BehindMemory

\* The address of the oldest instruction that has not taken effect.
OldestPC ==
    CASE ~WrittenBack -> writeBack.at
      [] WrittenBack /\ memory # None /\ ~Stored -> memory.at
      [] OTHER -> BehindMemory

\* An instruction that writes what the register holds, like addi x0, x0, 0.
PutsBack(i) ==
    i.opcode = "I_TYPE" /\ i.rd = i.rs1 /\ \A x \in Value : ALU(i, x, i.imm) = x

\* What dataHazardCheck does not see: the instruction between two others hides
\* the first of them from the last.  Writes and reads of registers are told
\* apart by their numbers only, as the code does.
ReadsAtDistanceTwo(p) ==
    \E a \in Value :
        /\ p[a] # None /\ p[After(a)] # None /\ p[After(After(a))] # None
        /\ WBsel(p[a].opcode) \in {0, 1} /\ ~PutsBack(p[a])
        /\ p[a].rd \in {p[After(After(a))].rs1, p[After(After(a))].rs2}

\* AUIPC adds to the pc it finds in the execute stage, which in the pipeline
\* has gone ahead with the instructions fetched behind it.
AddsToPC(p) == \E a \in Value : p[a] # None /\ p[a].opcode = "AUIPC"

Safe(run) == run[2] => ~ReadsAtDistanceTwo(run[1]) /\ ~AddsToPC(run[1])

\* When every program that is run in the pipeline has neither, the CPU does to
\* its registers and its stack what the program's instructions do one at a time.
Sequential == INSTANCE SequentialMachine WITH pc <- OldestPC
ImplementsSequential == Sequential!Spec

\* No instruction is executed on a register that the instruction before it
\* is still to write.
NeighbourHazardsStall ==
    execute # None /\ memory # None /\ Writes(memory)
        => memory.ins.rd \notin {execute.ins.rs1, execute.ins.rs2}

\* A load has its datum when it is written back, and that datum is its own:
\* the bus holds no other response.
LoadsHaveTheirDatum ==
    /\ writeBack # None /\ MemRead(writeBack.ins.opcode)
         => writeBack.loadedData # NoData
    /\ responses # << >> => memory # None /\ MemRead(memory.ins.opcode)
                              /\ memRequestPending /\ Len(responses) = 1

\* The CPU never stalls for good: either every stage runs dry, or it goes on
\* completing instructions.
KeepsRetiring == []<>(reset \/ (phase = "writeBack" /\ writeBack # None))

-----------------------------------------------------------------------------
\* What a comment of the code says, and the code does not do.

\* CPU.cpp:353: data hazards are checked, so that an instruction leaves the
\* execute stage with the result its registers give when it leaves.
ResultsAreCurrent ==
    phase = "update" /\ pipelined /\ ExecuteMoves /\ ~ALUsrc1(execute.ins.opcode)
        => execute.ALUresult = Executed(execute).ALUresult

-----------------------------------------------------------------------------
\* What makes the invariants above inductive.

\* One instruction at a time, when the CPU is not pipelined.
OneAtATime ==
    ~pipelined =>
        \/ <<fetch, decode, execute>> = <<None, None, None>>
        \/ <<fetch, decode, memory>> = <<None, None, None>>
        \/ <<fetch, execute, memory>> = <<None, None, None>>
        \/ <<decode, execute, memory>> = <<None, None, None>>

NeverFeeds == execute # None /\ memory # None => ~Feeds(memory, execute)

\* Only jumps and branches change the pc.
OnlyJumpsJump ==
    \A s \in {fetch, decode, execute, memory, writeBack} :
        s # None /\ s.PCsel => s.ins.opcode \in {"SB_TYPE", "JALR", "JAL"}

\* What the bus holds is the one request of the memory stage, or its answer.
Outstanding ==
    memRequestPending =>
        /\ memory # None /\ Accesses(memory)
        /\ IF phase \in {"writeBack", "bus"}
           THEN /\ \E r \in Request : /\ requests = <<r>>
                                      /\ r.isRead = MemRead(memory.ins.opcode)
                /\ responses = << >>
           ELSE /\ requests = << >>
                /\ IF MemRead(memory.ins.opcode) THEN \E v \in Value : responses = <<v>>
                   ELSE responses = << >>

BusIdle == ~memRequestPending => requests = << >> /\ responses = << >>

LoadsAreServed ==
    /\ memory # None /\ MemRead(memory.ins.opcode) /\ ~memRequestPending
         /\ phase \in {"writeBack", "bus", "update"} => memory.loadedData # NoData
    /\ writeBack # None /\ MemRead(writeBack.ins.opcode) => writeBack.loadedData # NoData

\* An instruction in a stage is that of its address, and the one behind it that
\* of the address after it, or of where it jumps.
Loaded ==
    \A s \in {fetch, decode, execute, memory, writeBack} : s # None => s.ins = program[s.at]

BeforeWriteBack == phase \in {"execute", "memory", "writeBack"}
Target(s) == IF s.PCsel THEN s.ALUresult ELSE After(s.at)
InSequence ==
    /\ fetch # None => pc = After(fetch.at)
    /\ decode # None => BehindDecode = After(decode.at)
    /\ execute # None => BehindExecute = After(execute.at)
    /\ memory # None /\ ~memory.PCsel => BehindMemory = After(memory.at)
    /\ Jumps(memory) /\ phase \in {"writeBack", "bus", "update"} => pc = memory.ALUresult
    /\ writeBack # None /\ BeforeWriteBack => BehindWriteBack = Target(writeBack)

\* Nothing is behind a jump that is or will be taken, from its execution on.
NothingBehindJumps ==
    /\ decode # None => (decode.PCsel <=> PCsel(decode.ins.opcode, TRUE))
    /\ Jumps(execute) => <<fetch, decode>> = <<None, None>>
    /\ Jumps(memory) => <<fetch, decode, execute>> = <<None, None, None>>

\* An executed instruction has the result that the registers give now.
Taken(s) ==
    PCsel(s.ins.opcode, ShouldTakeBranch(s.ins.funct3, regs[s.ins.rs1], regs[s.ins.rs2]))
Outcome(s) ==
    IF s.ins.opcode = "FP_TYPE" THEN 0
    ELSE ALU(s.ins, IF ALUsrc1(s.ins.opcode) THEN After(s.at) ELSE regs[s.ins.rs1],
                    IF ALUsrc2(s.ins.opcode) THEN s.ins.imm ELSE regs[s.ins.rs2])
Right(s) ==
    /\ s.PCsel <=> Taken(s)
    /\ s.ins.opcode # "SB_TYPE" \/ s.PCsel => s.ALUresult = Outcome(s)
ResultsAreRight ==
    /\ execute # None =>
         IF phase = "execute" THEN Taken(execute) => execute.PCsel ELSE Right(execute)
    /\ memory # None => Right(memory)
    /\ writeBack # None /\ BeforeWriteBack => Right(writeBack)

\* What is written back is not read by the instructions that are on their way,
\* unless it is there already.
WriteBackFeedsNone ==
    \A s \in {execute, memory} :
        writeBack # None /\ Writes(writeBack) /\ ~PutsBack(writeBack.ins) /\ s # None
            => ~Feeds(writeBack, s)

\* Nothing is on its way when an instruction is written back, when the CPU is
\* not pipelined; and else what is behind it has just come to its stage.
WriteBackAlone ==
    ~pipelined /\ writeBack # None =>
        <<fetch, decode, execute, memory>> = <<None, None, None, None>>
MemoryIsNew ==
    writeBack # None =>
        /\ phase \in {"execute", "memory"} => ~memRequestPending
        /\ phase = "writeBack" /\ memory # None /\ MemWrite(memory.ins.opcode)
             => memRequestPending

\* What the bus carries is what the instruction in the memory stage asks for.
StoredDatum(s) == IF IsFloat(s.ins.opcode) THEN fpRegs[s.ins.rs2] ELSE regs[s.ins.rs2]
BusCarries ==
    /\ memRequestPending /\ phase \in {"writeBack", "bus"} =>
         /\ Head(requests).address = AccessAddress(memory)
         /\ MemWrite(memory.ins.opcode) => Head(requests).data = StoredDatum(memory)
    /\ memRequestPending /\ phase \notin {"writeBack", "bus"} /\ MemRead(memory.ins.opcode)
         => Head(responses) = stack[AccessAddress(memory)]
    /\ memory # None /\ MemRead(memory.ins.opcode) /\ ~memRequestPending
         /\ phase \in {"writeBack", "bus", "update"}
         => memory.loadedData = Received(memory, stack[AccessAddress(memory)])
    /\ writeBack # None /\ MemRead(writeBack.ins.opcode) /\ BeforeWriteBack
         => writeBack.loadedData = Received(writeBack, stack[AccessAddress(writeBack)])

IInv ==
    /\ TypeOK /\ OneAtATime /\ NeverFeeds
    /\ OnlyJumpsJump /\ Outstanding /\ BusIdle /\ LoadsAreServed

\* What makes the refinement hold, when the runs are Safe.
InOrder ==
    /\ Loaded /\ InSequence /\ NothingBehindJumps /\ ResultsAreRight
    /\ WriteBackFeedsNone /\ WriteBackAlone /\ MemoryIsNew /\ BusCarries

=============================================================================
