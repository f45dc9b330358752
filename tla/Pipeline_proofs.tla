--------------------------- MODULE Pipeline_proofs ----------------------------
(***************************************************************************)
(* Theorems of Pipeline, for every program, pipelined or not, every number *)
(* of registers, every word size and every ALU.                            *)
(***************************************************************************)
EXTENDS Pipeline, SequenceTheorems, TLAPS

USE ModulusAssumption

-----------------------------------------------------------------------------
\* Arithmetic on addresses, and what the stages make of an instruction.

\* The pc stays an address when it goes on by a word or back by one.
LEMMA Addresses == \A a \in Value : After(a) \in Value /\ Before(a) \in Value
BY DEF Value, After, Before

\* The pc that is set back by a word is that of the word flushed.
LEMMA BeforeAfter == \A a \in Value : Before(After(a)) = a
<1> SUFFICES ASSUME NEW a \in Value PROVE Before(After(a)) = a
  OBVIOUS
<1>1. CASE a + 1 < Modulus
  <2>1. After(a) = a + 1
    BY <1>1 DEF After, Value
  <2> QED
    BY <1>1, <2>1 DEF Before, Value
<1>2. CASE a + 1 = Modulus
  <2>1. After(a) = 0
    BY <1>2 DEF After, Value
  <2>2. (0 - 1) % Modulus = Modulus - 1
    OBVIOUS
  <2> QED
    BY <1>2, <2>1, <2>2 DEF Before, Value
<1> QED
  BY <1>1, <1>2 DEF Value

USE PipelineAssumption

\* A word that is loaded is a word in the register, too.
LEMMA ReceivedType ==
    ASSUME NEW s, NEW v \in Value
    PROVE  Received(s, v) \in Value
BY DEF Received


\* The program that is run holds an instruction or the word 0 at each address.
LEMMA ProgramType ==
    ASSUME TypeOK
    PROVE  \A a \in Value : program[a] \in Instr \cup {None}
BY DEF TypeOK

\* A fetched, a decoded and an executed instruction are instructions on their way.
LEMMA FetchedType ==
    ASSUME TypeOK, NEW a \in Value, program[a] # None
    PROVE  Fetched(a) \in Slot /\ ~Fetched(a).PCsel
BY ProgramType DEF Fetched, Slot, Value, NoData

LEMMA DecodedType ==
    ASSUME NEW s \in Slot
    PROVE  Decoded(s) \in Slot /\ Decoded(s).ins = s.ins
             /\ Decoded(s).loadedData = s.loadedData
             /\ Decoded(s).PCsel = PCsel(s.ins.opcode, TRUE)
BY DEF Decoded, Slot, PCsel

LEMMA ExecutedType ==
    ASSUME TypeOK, NEW s \in Slot
    PROVE  /\ Executed(s) \in Slot
           /\ Executed(s).ins = s.ins
           /\ Executed(s).PCsel => PCsel(s.ins.opcode, TRUE)
<1> DEFINE i == s.ins
           p == PCsel(i.opcode, ShouldTakeBranch(i.funct3, regs[i.rs1], regs[i.rs2]))
           r == IF i.opcode = "FP_TYPE" THEN 0
                ELSE ALU(i, IF ALUsrc1(i.opcode) THEN pc ELSE regs[i.rs1],
                            IF ALUsrc2(i.opcode) THEN i.imm ELSE regs[i.rs2])
<1>1. i \in Instr /\ i.rs1 \in Reg /\ i.rs2 \in Reg /\ i.imm \in Value
  BY DEF Slot, Instr
<1>2. regs[i.rs1] \in Value /\ regs[i.rs2] \in Value /\ pc \in Value /\ 0 \in Value
  <2>1. 0 \in Value
    BY DEF Value
  <2> QED
    BY <1>1, <2>1 DEF TypeOK
<1>3. r \in Value
  BY <1>1, <1>2
<1>4. p \in BOOLEAN /\ (p => PCsel(i.opcode, TRUE))
  BY DEF PCsel
<1>5. Executed(s) = [s EXCEPT !.PCsel = p, !.ALUresult = r]
  BY DEF Executed
<1> QED
  BY <1>3, <1>4, <1>5 DEF Slot


-----------------------------------------------------------------------------
\* The moves of updatePipeline.

LEMMA NewStagesType ==
    ASSUME TypeOK
    PROVE  /\ NewWriteBack \in Stage /\ NewMemory \in Stage
           /\ NewExecute \in Stage /\ NewDecode \in Stage
           /\ NewDataHazard \in BOOLEAN /\ FlushedPC \in Value
<1>1. NewWriteBack \in Stage /\ NewMemory \in Stage
  BY DEF TypeOK, Stage, NewWriteBack, NewMemory
<1>2. NewDataHazard \in BOOLEAN
  BY DEF TypeOK, NewDataHazard, DataHazardCheck
<1>3. NewExecute \in Stage
  BY DEF TypeOK, Stage, NewExecute
<1>4. NewDecode \in Stage
  <2>1. CASE FetchMoves
    BY <2>1, DecodedType DEF TypeOK, Stage, NewDecode, FetchMoves
  <2>2. CASE ~FetchMoves
    BY <2>2 DEF TypeOK, Stage, NewDecode
  <2> QED
    BY <2>1, <2>2
<1>5. FlushedPC \in Value
  BY Addresses DEF TypeOK, FlushedPC
<1> QED
  BY <1>1, <1>2, <1>3, <1>4, <1>5

\* An instruction is not executed behind one in the memory stage that feeds it.
LEMMA MovesNeverFeed ==
    ASSUME NeverFeeds
    PROVE  NewExecute # None /\ NewMemory # None => ~Feeds(NewMemory, NewExecute)
<1> SUFFICES ASSUME NewExecute # None, NewMemory # None
             PROVE  ~Feeds(NewMemory, NewExecute)
  OBVIOUS
<1>1. CASE DecodeMoves
  <2>1. ~DataHazardCheck(decode) /\ NewExecute = decode
    BY <1>1 DEF DecodeMoves, DecodeChecked, NewDataHazard, NewExecute
  <2> QED
    BY <2>1 DEF DataHazardCheck
<1>2. CASE ~DecodeMoves
  <2>1. NewExecute = execute /\ ~ExecuteMoves /\ execute # None
    BY <1>2 DEF NewExecute
  <2>2. NewMemory = memory
    BY <2>1 DEF ExecuteMoves, NewMemory
  <2> QED
    BY <2>1, <2>2 DEF NeverFeeds
<1> QED
  BY <1>1, <1>2

-----------------------------------------------------------------------------
\* The inductive invariant, a part at a time.

LEMMA InitIInv == Init => IInv
<1> SUFFICES ASSUME Init PROVE IInv
  OBVIOUS
<1>1. 0 \in Value
  BY DEF Value
<1>2. regs \in [Reg -> Value] /\ fpRegs \in [Reg -> Value] /\ stack \in [Value -> Value]
  BY <1>1 DEF Init
<1>3. <<program, pipelined>> \in Runs
  BY DEF Init
<1>4. fpDelay \in 0..FpDelay
  BY DEF Init
<1>5. requests \in Seq(Request) /\ responses \in Seq(Value)
  BY DEF Init
<1>6. TypeOK
  BY <1>1, <1>2, <1>3, <1>4, <1>5 DEF Init, TypeOK, Stage
<1>7. OneAtATime /\ NeverFeeds /\ Outstanding /\ BusIdle /\ LoadsAreServed
  BY DEF Init, OneAtATime, NeverFeeds, Outstanding, BusIdle, LoadsAreServed
<1>8. OnlyJumpsJump
  BY DEF Init, OnlyJumpsJump
<1> QED
  BY <1>6, <1>7, <1>8 DEF IInv

\* What the last stages read and write has the right type.
LEMMA AccessType ==
    ASSUME TypeOK, memory # None
    PROVE  /\ memory \in Slot /\ AccessAddress(memory) \in Value
           /\ regs[memory.ins.rs2] \in Value /\ fpRegs[memory.ins.rs2] \in Value
<1>1. 0 \in Value
  BY DEF Value
<1>2. memory \in Slot
  BY DEF TypeOK, Stage
<1>3. memory.ins.rs2 \in Reg /\ memory.ALUresult \in Value
  BY <1>2 DEF Slot, Instr
<1> QED
  BY <1>1, <1>2, <1>3 DEF TypeOK, AccessAddress

LEMMA DatumType ==
    ASSUME TypeOK, LoadsAreServed, writeBack # None, Writes(writeBack)
    PROVE  writeBack.ins.rd \in Reg /\ Datum(writeBack) \in Value
<1>1. 0 \in Value
  BY DEF Value
<1>2. writeBack \in Slot
  BY DEF TypeOK, Stage
<1>3. writeBack.ins.rd \in Reg /\ writeBack.ALUresult \in Value
        /\ writeBack.loadedData \in Value \cup {NoData} /\ writeBack.ins.opcode \in Opcode
  BY <1>2 DEF Slot, Instr
<1>4. CASE WBsel(writeBack.ins.opcode) = 0
  <2>1. writeBack.ins.opcode \in {"LOAD", "LOAD_FP"}
    BY <1>3, <1>4 DEF WBsel, Opcode
  <2>2. writeBack.loadedData # NoData
    BY <2>1 DEF LoadsAreServed, MemRead
  <2>3. Datum(writeBack) = writeBack.loadedData
    BY <1>4, <2>1 DEF Datum
  <2> QED
    BY <1>3, <2>2, <2>3
<1>5. CASE WBsel(writeBack.ins.opcode) # 0
  BY <1>1, <1>3, <1>5 DEF Datum
<1> QED
  BY <1>3, <1>4, <1>5

LEMMA TypePreserved ==
    ASSUME IInv, Next
    PROVE  TypeOK'
<1> USE DEF IInv
<1>1. CASE UpdatePipeline
  <2>1. fetch' \in Stage /\ pc' \in Value
    BY <1>1, FetchedType, NewStagesType, Addresses
       DEF UpdatePipeline, Fetches, Stage, TypeOK
  <2> QED
    BY <1>1, <2>1, NewStagesType DEF UpdatePipeline, TypeOK, inputs, registers, bus
<1>2. CASE UpdateDataPath
  <2> USE DEF DataPath, TypeOK, inputs, registers, bus
  <2>1. CASE FetchNext
    <3>1. fetch' \in Stage /\ pc' \in Value
      BY <2>1, FetchedType, Addresses DEF FetchNext, Stage
    <3> QED
      BY <2>1, <3>1 DEF FetchNext, Stage
  <2>2. CASE FetchToDecode
    BY <2>2, DecodedType DEF FetchToDecode, Stage
  <2>3. CASE DecodeToExecute
    BY <2>3 DEF DecodeToExecute, Stage
  <2>4. CASE ExecuteToMemory
    <3>1. fpDelay' \in 0..FpDelay
      BY <2>4 DEF ExecuteToMemory
    <3> QED
      BY <2>4, <3>1 DEF ExecuteToMemory, Stage
  <2>5. CASE MemoryToWriteBack
    BY <2>5 DEF MemoryToWriteBack, Stage
  <2> QED
    BY <1>2, <2>1, <2>2, <2>3, <2>4, <2>5 DEF UpdateDataPath
<1>3. CASE Execute
  <2>1. execute' \in Stage
    BY <1>3, ExecutedType DEF Execute, TypeOK, Stage
  <2> QED
    BY <1>3, <2>1 DEF Execute, TypeOK, inputs, registers, bus
<1>4. CASE MemorySkips
  BY <1>4 DEF MemorySkips, InMemory, AfterMemory, TypeOK, inputs, registers
<1>5. CASE MemoryJumps
  <2>1. pc' \in Value
    BY <1>5 DEF MemoryJumps, Jumps, TypeOK, Stage, Slot
  <2> QED
    BY <1>5, <2>1 DEF MemoryJumps, InMemory, AfterMemory, TypeOK, inputs, registers
<1>6. CASE MemoryRequests
  <2>1. 0 \in Value
    BY DEF Value
  <2> DEFINE d == CASE MemRead(memory.ins.opcode) -> 0
                    [] ~MemRead(memory.ins.opcode) /\ IsFloat(memory.ins.opcode)
                         -> fpRegs[memory.ins.rs2]
                    [] OTHER -> regs[memory.ins.rs2]
             r == [isRead |-> MemRead(memory.ins.opcode),
                   address |-> AccessAddress(memory), data |-> d]
  <2>2. requests' = Append(requests, r)
    BY <1>6 DEF MemoryRequests
  <2>3. memory # None
    BY <1>6 DEF MemoryRequests
  <2>4. d \in Value
    BY <2>1, <2>3, AccessType
  <2>5. MemRead(memory.ins.opcode) \in BOOLEAN
    BY DEF MemRead
  <2>6. r \in Request
    BY <2>3, <2>4, <2>5, AccessType DEF Request
  <2>7. requests' \in Seq(Request)
    BY <2>2, <2>6 DEF TypeOK
  <2> QED
    BY <1>6, <2>7 DEF MemoryRequests, InMemory, AfterMemory, TypeOK, inputs, registers
<1>7. CASE MemoryWaits
  <2>1. memory' \in Stage /\ responses' \in Seq(Value)
    <3>1. CASE responses # << >> /\ MemRead(memory.ins.opcode)
      <4>1. Head(responses) \in Value /\ Tail(responses) \in Seq(Value)
        BY <3>1 DEF TypeOK
      <4>2. memory \in Slot
        BY <1>7, AccessType DEF MemoryWaits
      <4>3. memory' = [memory EXCEPT !.loadedData = Received(memory, Head(responses))]
              /\ responses' = Tail(responses)
        BY <1>7, <3>1 DEF MemoryWaits
      <4>4. Received(memory, Head(responses)) \in Value
        BY <4>1, ReceivedType
      <4> QED
        BY <4>1, <4>2, <4>3, <4>4 DEF Stage, Slot
    <3>2. CASE ~(responses # << >> /\ MemRead(memory.ins.opcode))
      BY <1>7, <3>2 DEF MemoryWaits, TypeOK
    <3> QED
      BY <3>1, <3>2
  <2>2. memRequestPending' \in BOOLEAN
    BY <1>7 DEF MemoryWaits
  <2> QED
    BY <1>7, <2>1, <2>2 DEF MemoryWaits, InMemory, AfterMemory, TypeOK, inputs, registers
<1>8. CASE WriteBack
  <2>1. regs' \in [Reg -> Value] /\ fpRegs' \in [Reg -> Value]
    BY <1>8, DatumType DEF WriteBack, TypeOK
  <2>2. reset' \in BOOLEAN
    BY <1>8 DEF WriteBack
  <2> QED
    BY <1>8, <2>1, <2>2 DEF WriteBack, TypeOK, inputs, stages, bus
<1>9. CASE ProcessMemoryRequests
  <2>1. requests' \in Seq(Request) /\ responses' \in Seq(Value) /\ stack' \in [Value -> Value]
    <3>1. CASE requests = << >>
      BY <1>9, <3>1 DEF ProcessMemoryRequests, TypeOK, bus
    <3>2. CASE requests # << >>
      <4> DEFINE r == Head(requests)
      <4>1. r \in Request /\ Tail(requests) \in Seq(Request)
        BY <3>2 DEF TypeOK
      <4>2. r.address \in Value /\ r.data \in Value
        BY <4>1 DEF Request
      <4>3. requests' = Tail(requests) /\ responses' = Answered(r)
              /\ stack' = IF r.isRead THEN stack ELSE [stack EXCEPT ![r.address] = r.data]
        BY <1>9, <3>2 DEF ProcessMemoryRequests
      <4>4. responses' \in Seq(Value)
        BY <4>2, <4>3 DEF Answered, TypeOK
      <4> QED
        BY <4>1, <4>2, <4>3, <4>4 DEF TypeOK
    <3> QED
      BY <3>1, <3>2
  <2> QED
    BY <1>9, <2>1 DEF ProcessMemoryRequests, TypeOK, inputs, registers, stages
<1> QED
  BY <1>1, <1>2, <1>3, <1>4, <1>5, <1>6, <1>7, <1>8, <1>9 DEF Next

LEMMA OneAtATimePreserved ==
    ASSUME IInv, Next
    PROVE  OneAtATime'
<1> USE DEF IInv, OneAtATime
<1>1. CASE UpdatePipeline
  BY <1>1 DEF UpdatePipeline, inputs
<1>2. CASE UpdateDataPath
  <2> USE DEF DataPath, inputs
  <2>1. CASE FetchNext
    BY <2>1 DEF FetchNext
  <2>2. CASE FetchToDecode
    BY <2>2 DEF FetchToDecode
  <2>3. CASE DecodeToExecute
    BY <2>3 DEF DecodeToExecute
  <2>4. CASE ExecuteToMemory
    BY <2>4 DEF ExecuteToMemory
  <2>5. CASE MemoryToWriteBack
    BY <2>5 DEF MemoryToWriteBack
  <2> QED
    BY <1>2, <2>1, <2>2, <2>3, <2>4, <2>5 DEF UpdateDataPath
<1>3. CASE Execute
  BY <1>3 DEF Execute, inputs
<1>4. CASE MemorySkips \/ MemoryJumps \/ MemoryRequests
  BY <1>4 DEF MemorySkips, MemoryJumps, MemoryRequests, AfterMemory, inputs
<1>5. CASE MemoryWaits
  BY <1>5 DEF MemoryWaits, AfterMemory, inputs
<1>6. CASE WriteBack \/ ProcessMemoryRequests
  BY <1>6 DEF WriteBack, ProcessMemoryRequests, inputs, stages
<1> QED
  BY <1>1, <1>2, <1>3, <1>4, <1>5, <1>6 DEF Next

LEMMA NeverFeedsPreserved ==
    ASSUME IInv, Next
    PROVE  NeverFeeds'
<1> USE DEF IInv
<1>1. CASE UpdatePipeline
  BY <1>1, MovesNeverFeed DEF UpdatePipeline, NeverFeeds, Feeds
<1>2. CASE UpdateDataPath
  <2> USE DEF DataPath, NeverFeeds
  <2>1. CASE FetchNext
    BY <2>1 DEF FetchNext
  <2>2. CASE FetchToDecode
    BY <2>2 DEF FetchToDecode, Feeds
  <2>3. CASE DecodeToExecute
    BY <2>3 DEF DecodeToExecute, OneAtATime
  <2>4. CASE ExecuteToMemory
    BY <2>4 DEF ExecuteToMemory, Feeds
  <2>5. CASE MemoryToWriteBack
    BY <2>5 DEF MemoryToWriteBack
  <2> QED
    BY <1>2, <2>1, <2>2, <2>3, <2>4, <2>5 DEF UpdateDataPath
<1>3. CASE Execute
  <2>1. execute # None => execute'.ins = execute.ins
    BY <1>3, ExecutedType DEF Execute, TypeOK, Stage
  <2> QED
    BY <1>3, <2>1 DEF Execute, NeverFeeds, Feeds
<1>4. CASE MemorySkips \/ MemoryJumps \/ MemoryRequests
  BY <1>4 DEF MemorySkips, MemoryJumps, MemoryRequests, AfterMemory, NeverFeeds, Feeds
<1>5. CASE MemoryWaits
  <2>1. memory \in Slot
    BY <1>5, AccessType DEF MemoryWaits
  <2>2. memory'.ins = memory.ins /\ memory # None
    BY <1>5, <2>1 DEF MemoryWaits, Slot
  <2> QED
    BY <1>5, <2>2 DEF MemoryWaits, AfterMemory, NeverFeeds, Feeds
<1>6. CASE WriteBack \/ ProcessMemoryRequests
  BY <1>6 DEF WriteBack, ProcessMemoryRequests, stages, NeverFeeds, Feeds
<1> QED
  BY <1>1, <1>2, <1>3, <1>4, <1>5, <1>6 DEF Next

LEMMA OnlyJumpsJumpPreserved ==
    ASSUME IInv, Next
    PROVE  OnlyJumpsJump'
<1> DEFINE J(s) == s # None /\ s.PCsel => s.ins.opcode \in {"SB_TYPE", "JALR", "JAL"}
<1>1. J(fetch) /\ J(decode) /\ J(execute) /\ J(memory) /\ J(writeBack)
  BY DEF IInv, OnlyJumpsJump
<1>2. SUFFICES J(fetch') /\ J(decode') /\ J(execute') /\ J(memory') /\ J(writeBack')
  BY DEF OnlyJumpsJump
<1> USE DEF IInv
<1>3. \A s : s \in Stage /\ s # None => J(Decoded(s))
  BY DecodedType DEF Stage, PCsel
<1>4. CASE UpdatePipeline
  <2>1. J(NewWriteBack) /\ J(NewMemory) /\ J(NewExecute)
    BY <1>1 DEF NewWriteBack, NewMemory, NewExecute
  <2>2. J(NewDecode)
    BY <1>1, <1>3 DEF NewDecode, FetchMoves, TypeOK
  <2>3. J(fetch')
    BY <1>1, <1>4, FetchedType, NewStagesType DEF UpdatePipeline, Fetches
  <2> QED
    BY <1>4, <2>1, <2>2, <2>3 DEF UpdatePipeline
<1>5. CASE UpdateDataPath
  <2>1. CASE FetchNext
    BY <1>1, <2>1, FetchedType DEF FetchNext, TypeOK
  <2>2. CASE FetchToDecode
    BY <1>1, <1>3, <2>2 DEF FetchToDecode, TypeOK
  <2>3. CASE DecodeToExecute
    BY <1>1, <2>3 DEF DecodeToExecute
  <2>4. CASE ExecuteToMemory
    BY <1>1, <2>4 DEF ExecuteToMemory
  <2>5. CASE MemoryToWriteBack
    BY <1>1, <2>5 DEF MemoryToWriteBack
  <2> QED
    BY <1>5, <2>1, <2>2, <2>3, <2>4, <2>5 DEF UpdateDataPath
<1>6. CASE Execute
  <2>1. J(execute')
    BY <1>1, <1>6, ExecutedType DEF Execute, TypeOK, Stage, PCsel
  <2> QED
    BY <1>1, <1>6, <2>1 DEF Execute
<1>7. CASE MemorySkips \/ MemoryJumps \/ MemoryRequests
  BY <1>1, <1>7 DEF MemorySkips, MemoryJumps, MemoryRequests, AfterMemory
<1>8. CASE MemoryWaits
  <2>1. memory \in Slot
    BY <1>8, AccessType DEF MemoryWaits
  <2>2. J(memory')
    BY <1>1, <1>8, <2>1 DEF MemoryWaits, Slot
  <2> QED
    BY <1>1, <1>8, <2>2 DEF MemoryWaits, AfterMemory
<1>9. CASE WriteBack \/ ProcessMemoryRequests
  BY <1>1, <1>9 DEF WriteBack, ProcessMemoryRequests, stages
<1> QED
  BY <1>4, <1>5, <1>6, <1>7, <1>8, <1>9 DEF Next

\* The memory stage and its request stay together while the request is pending.
LEMMA BusPreserved ==
    ASSUME IInv, Next
    PROVE  Outstanding' /\ BusIdle'
<1> USE DEF IInv
<1>1. CASE UpdatePipeline
  <2>1. memRequestPending => NewMemory = memory
    BY DEF NewMemory, ExecuteMoves, MemoryMoves, Outstanding
  <2> QED
    BY <1>1, <2>1 DEF UpdatePipeline, bus, Outstanding, BusIdle
<1>2. CASE UpdateDataPath
  <2> USE DEF DataPath, bus
  <2>1. memRequestPending => memory' = memory
    <3>1. CASE FetchNext
      BY <3>1 DEF FetchNext
    <3>2. CASE FetchToDecode
      BY <3>2 DEF FetchToDecode
    <3>3. CASE DecodeToExecute
      BY <3>3 DEF DecodeToExecute
    <3>4. CASE ExecuteToMemory
      <4>1. memory = None
        BY <3>4 DEF ExecuteToMemory, OneAtATime
      <4> QED
        BY <4>1 DEF Outstanding
    <3>5. CASE MemoryToWriteBack
      BY <3>5 DEF MemoryToWriteBack
    <3> QED
      BY <1>2, <3>1, <3>2, <3>3, <3>4, <3>5 DEF UpdateDataPath
  <2>2. /\ phase = "update" /\ phase' = "execute"
        /\ UNCHANGED <<memRequestPending, requests, responses>>
    BY <1>2 DEF UpdateDataPath, FetchNext, FetchToDecode, DecodeToExecute,
                ExecuteToMemory, MemoryToWriteBack
  <2> QED
    BY <2>1, <2>2 DEF Outstanding, BusIdle
<1>3. CASE Execute
  BY <1>3 DEF Execute, bus, Outstanding, BusIdle
<1>4. CASE MemorySkips
  <2>1. ~memRequestPending
    BY <1>4 DEF MemorySkips, Outstanding
  <2> QED
    BY <1>4, <2>1 DEF MemorySkips, Outstanding, BusIdle
<1>5. CASE MemoryJumps
  <2>1. ~memRequestPending
    BY <1>5 DEF MemoryJumps, Jumps, OnlyJumpsJump, Outstanding, Accesses, MemRead, MemWrite
  <2> QED
    BY <1>5, <2>1 DEF MemoryJumps, Outstanding, BusIdle
<1>6. CASE MemoryRequests
  <2>1. requests = << >> /\ responses = << >>
    BY <1>6 DEF MemoryRequests, BusIdle
  <2>2. requests' \in Seq(Request)
    BY TypePreserved DEF TypeOK
  <2>3. PICK r : requests' = Append(requests, r) /\ r.isRead = MemRead(memory.ins.opcode)
    BY <1>6 DEF MemoryRequests
  <2>4. requests' = <<r>>
    BY <2>1, <2>3
  <2>5. r \in Request
    BY <2>2, <2>4
  <2>6. memory' = memory /\ responses' = << >> /\ phase' = "writeBack" /\ memRequestPending'
          /\ memory # None /\ Accesses(memory)
    BY <1>6, <2>1 DEF MemoryRequests, InMemory
  <2> QED
    BY <2>3, <2>4, <2>5, <2>6 DEF Outstanding, BusIdle
<1>7. CASE MemoryWaits
  <2>1. phase = "memory" /\ requests = << >> /\ memRequestPending /\ memory # None
    BY <1>7 DEF MemoryWaits, InMemory, Outstanding
  <2>2. ~memRequestPending' /\ requests' = << >>
    <3>1. ~WritePending
      BY <2>1 DEF WritePending
    <3> QED
      BY <1>7, <2>1, <3>1 DEF MemoryWaits
  <2>3. responses' = << >>
    <3>1. CASE MemRead(memory.ins.opcode)
      <4>1. PICK v \in Value : responses = <<v>>
        BY <2>1, <3>1 DEF Outstanding
      <4> QED
        BY <1>7, <3>1, <4>1 DEF MemoryWaits
    <3>2. CASE ~MemRead(memory.ins.opcode)
      BY <1>7, <2>1, <3>2 DEF MemoryWaits, Outstanding
    <3> QED
      BY <3>1, <3>2
  <2> QED
    BY <2>2, <2>3 DEF Outstanding, BusIdle
<1>8. CASE WriteBack
  BY <1>8 DEF WriteBack, stages, bus, Outstanding, BusIdle
<1>9. CASE ProcessMemoryRequests
  <2>1. /\ phase = "bus" /\ phase' = "update"
        /\ UNCHANGED <<memRequestPending, memory>>
    BY <1>9 DEF ProcessMemoryRequests, stages
  <2>2. CASE memRequestPending
    <3>1. PICK r \in Request : requests = <<r>> /\ r.isRead = MemRead(memory.ins.opcode)
      BY <2>1, <2>2 DEF Outstanding
    <3>2. responses = << >>
      BY <2>1, <2>2 DEF Outstanding
    <3>3. requests' = << >> /\ responses' = Answered(r)
      BY <1>9, <3>1 DEF ProcessMemoryRequests
    <3>4. CASE r.isRead
      <4>1. responses' = <<stack[r.address]>> /\ stack[r.address] \in Value
        BY <3>1, <3>2, <3>3, <3>4 DEF Answered, TypeOK, Request
      <4> QED
        BY <2>1, <2>2, <3>1, <3>3, <3>4, <4>1 DEF Outstanding, BusIdle
    <3>5. CASE ~r.isRead
      BY <2>1, <2>2, <3>1, <3>2, <3>3, <3>5 DEF Answered, Outstanding, BusIdle
    <3> QED
      BY <3>4, <3>5
  <2>3. CASE ~memRequestPending
    BY <1>9, <2>1, <2>3 DEF ProcessMemoryRequests, Outstanding, BusIdle, bus
  <2> QED
    BY <2>2, <2>3
<1> QED
  BY <1>1, <1>2, <1>3, <1>4, <1>5, <1>6, <1>7, <1>8, <1>9 DEF Next

\* No load leaves the memory stage without its datum.
LEMMA LoadsAreServedPreserved ==
    ASSUME IInv, Next
    PROVE  LoadsAreServed'
<1> USE DEF IInv
<1>1. CASE UpdatePipeline
  BY <1>1 DEF UpdatePipeline, NewWriteBack, MemoryMoves, LoadsAreServed
<1>2. CASE UpdateDataPath
  <2> USE DEF DataPath
  <2>1. CASE FetchNext
    BY <2>1 DEF FetchNext, LoadsAreServed
  <2>2. CASE FetchToDecode
    BY <2>2 DEF FetchToDecode, LoadsAreServed
  <2>3. CASE DecodeToExecute
    BY <2>3 DEF DecodeToExecute, LoadsAreServed
  <2>4. CASE ExecuteToMemory
    BY <2>4 DEF ExecuteToMemory, LoadsAreServed
  <2>5. CASE MemoryToWriteBack
    BY <2>5 DEF MemoryToWriteBack, LoadsAreServed
  <2> QED
    BY <1>2, <2>1, <2>2, <2>3, <2>4, <2>5 DEF UpdateDataPath
<1>3. CASE Execute
  BY <1>3 DEF Execute, LoadsAreServed
<1>4. CASE MemorySkips
  BY <1>4 DEF MemorySkips, AfterMemory, Accesses, LoadsAreServed
<1>5. CASE MemoryJumps
  <2>1. ~MemRead(memory.ins.opcode)
    BY <1>5 DEF MemoryJumps, Jumps, OnlyJumpsJump, MemRead
  <2> QED
    BY <1>5, <2>1 DEF MemoryJumps, AfterMemory, LoadsAreServed
<1>6. CASE MemoryRequests
  BY <1>6 DEF MemoryRequests, AfterMemory, LoadsAreServed
<1>7. CASE MemoryWaits
  <2>1. UNCHANGED writeBack
    BY <1>7 DEF MemoryWaits, AfterMemory
  <2>2. MemRead(memory'.ins.opcode) => memory'.loadedData # NoData
    <3>1. CASE MemRead(memory.ins.opcode)
      <4>1. PICK v \in Value : responses = <<v>>
        BY <1>7, <3>1 DEF MemoryWaits, InMemory, Outstanding
      <4>2. memory' = [memory EXCEPT !.loadedData = Received(memory, v)]
        BY <1>7, <3>1, <4>1 DEF MemoryWaits
      <4>3. memory \in Slot
        BY <1>7, AccessType DEF MemoryWaits
      <4>4. memory'.loadedData = Received(memory, v)
        BY <4>2, <4>3 DEF Slot
      <4>5. Received(memory, v) \in Value
        BY ReceivedType
      <4> QED
        BY <4>4, <4>5 DEF NoData, Value
    <3>2. CASE ~MemRead(memory.ins.opcode)
      BY <1>7, <3>2 DEF MemoryWaits
    <3> QED
      BY <3>1, <3>2
  <2> QED
    BY <2>1, <2>2 DEF LoadsAreServed
<1>8. CASE WriteBack
  BY <1>8 DEF WriteBack, stages, LoadsAreServed
<1>9. CASE ProcessMemoryRequests
  BY <1>9 DEF ProcessMemoryRequests, stages, LoadsAreServed
<1> QED
  BY <1>1, <1>2, <1>3, <1>4, <1>5, <1>6, <1>7, <1>8, <1>9 DEF Next

LEMMA SpecIInv == Spec => []IInv
<1>1. IInv /\ [Next]_vars => IInv'
  <2> SUFFICES ASSUME IInv, [Next]_vars PROVE IInv'
    OBVIOUS
  <2>1. CASE Next
    BY <2>1, TypePreserved, OneAtATimePreserved, NeverFeedsPreserved,
       OnlyJumpsJumpPreserved, BusPreserved, LoadsAreServedPreserved DEF IInv
  <2>2. CASE UNCHANGED vars
    BY <2>2 DEF vars, inputs, registers, stages, bus, IInv, TypeOK, OneAtATime, NeverFeeds,
                OnlyJumpsJump, Outstanding, BusIdle, LoadsAreServed, Feeds
  <2> QED
    BY <2>1, <2>2
<1> QED
  BY InitIInv, <1>1, PTL DEF Spec

-----------------------------------------------------------------------------
\* The variables have their types in every reachable state: in particular no
\* load writes back a datum it does not have, and the bus's queues stay typed.
THEOREM SpecTypeOK == Spec => []TypeOK
<1>1. IInv => TypeOK
  BY DEF IInv
<1> QED
  BY SpecIInv, <1>1, PTL

\* dataHazardCheck keeps the instruction in the execute stage apart from its
\* predecessor, whatever the program.
THEOREM SpecNeighbourHazardsStall == Spec => []NeighbourHazardsStall
<1>1. IInv => NeighbourHazardsStall
  BY DEF IInv, NeverFeeds, NeighbourHazardsStall, Feeds
<1> QED
  BY SpecIInv, <1>1, PTL

\* A load is written back with the response to its own request, although
\* isMemoryRequestComplete does not look at whose response it is and the flag
\* is cleared without a response.
THEOREM SpecLoadsHaveTheirDatum == Spec => []LoadsHaveTheirDatum
<1>1. IInv => LoadsHaveTheirDatum
  <2> SUFFICES ASSUME IInv, responses # << >>
               PROVE  /\ memory # None /\ MemRead(memory.ins.opcode)
                      /\ memRequestPending /\ Len(responses) = 1
    BY DEF IInv, LoadsAreServed, LoadsHaveTheirDatum
  <2>1. memRequestPending
    BY DEF IInv, BusIdle
  <2>2. memory # None /\ MemRead(memory.ins.opcode) /\ \E v \in Value : responses = <<v>>
    BY <2>1 DEF IInv, Outstanding
  <2> QED
    BY <2>1, <2>2
<1> QED
  BY SpecIInv, <1>1, PTL

-----------------------------------------------------------------------------
\* The refinement: InOrder, an instruction's place and what it carries.

\* The addresses of the instructions stay with them.
LEMMA AddressesKept ==
    ASSUME NEW s \in Slot
    PROVE  /\ Decoded(s).at = s.at /\ Executed(s).at = s.at
           /\ s.at \in Value /\ s # None
BY DEF Slot, Decoded, Executed

LEMMA FetchedFrom ==
    ASSUME TypeOK, NEW a \in Value, program[a] # None
    PROVE  Fetched(a).at = a /\ Fetched(a).ins = program[a] /\ Fetched(a) # None
BY FetchedType DEF Fetched

LEMMA StageType ==
    ASSUME TypeOK
    PROVE  \A s \in {fetch, decode, execute, memory, writeBack} : s # None => s \in Slot
BY DEF TypeOK, Stage

LEMMA FlushedAddress ==
    ASSUME IInv, InOrder
    PROVE  FlushedPC = IF Flushes THEN fetch.at ELSE pc
<1>1. CASE Flushes
  <2>1. fetch.at \in Value /\ pc = After(fetch.at)
    BY <1>1, StageType, AddressesKept DEF Flushes, IInv, InOrder, InSequence
  <2> QED
    BY <1>1, <2>1, BeforeAfter DEF FlushedPC
<1>2. CASE ~Flushes
  BY <1>2 DEF FlushedPC
<1> QED
  BY <1>1, <1>2

\* The moves of the pipeline keep the instructions in their order.
LEMMA MovesKeepOrder ==
    ASSUME IInv, InOrder, UpdatePipeline
    PROVE  /\ BehindDecode' = IF FetchMoves THEN pc ELSE BehindDecode
           /\ BehindExecute' = IF DecodeMoves THEN BehindDecode ELSE BehindExecute
           /\ BehindMemory' = IF ExecuteMoves THEN BehindExecute ELSE BehindMemory
           /\ BehindWriteBack' = IF MemoryMoves THEN BehindMemory ELSE BehindWriteBack
<1> USE DEF IInv
<1>1. /\ memory' = NewMemory /\ execute' = NewExecute /\ decode' = NewDecode
      /\ IF Fetches
         THEN fetch' = Fetched(FlushedPC) /\ pc' = After(FlushedPC)
         ELSE /\ fetch' = IF Flushes \/ FetchMoves THEN None ELSE fetch
              /\ pc' = FlushedPC
  BY DEF UpdatePipeline
<1>2. Fetches => fetch'.at = FlushedPC /\ fetch' # None
  BY <1>1, FetchedFrom, NewStagesType DEF Fetches
<1>3. BehindDecode' = IF FetchMoves THEN pc ELSE BehindDecode
  <2>1. CASE FetchMoves
    BY <1>1, <1>2, <2>1, FlushedAddress DEF BehindDecode, FetchMoves
  <2>2. CASE ~FetchMoves /\ Flushes
    BY <1>1, <1>2, <2>2, FlushedAddress DEF BehindDecode, Flushes
  <2>3. CASE ~FetchMoves /\ ~Flushes
    BY <1>1, <1>2, <2>3, FlushedAddress DEF BehindDecode, Fetches
  <2> QED
    BY <2>1, <2>2, <2>3
<1>4. BehindExecute' = IF DecodeMoves THEN BehindDecode ELSE BehindExecute
  <2>1. CASE FetchMoves
    <3>1. fetch \in Slot
      BY <2>1, StageType DEF FetchMoves
    <3>2. decode' # None /\ decode'.at = fetch.at
      BY <1>1, <2>1, <3>1, DecodedType, AddressesKept DEF NewDecode
    <3> QED
      BY <2>1, <3>2 DEF BehindExecute, BehindDecode, FetchMoves
  <2>2. CASE ~FetchMoves
    BY <1>1, <1>3, <2>2 DEF BehindExecute, NewDecode
  <2> QED
    BY <2>1, <2>2
<1>5. BehindMemory' = IF ExecuteMoves THEN BehindExecute ELSE BehindMemory
  <2>1. CASE DecodeMoves
    BY <1>1, <2>1 DEF BehindMemory, BehindExecute, NewExecute, DecodeMoves, DecodeChecked
  <2>2. CASE ~DecodeMoves
    BY <1>1, <1>4, <2>2 DEF BehindMemory, NewExecute
  <2> QED
    BY <2>1, <2>2
<1>6. BehindWriteBack' = IF MemoryMoves THEN BehindMemory ELSE BehindWriteBack
  <2>1. CASE ExecuteMoves
    BY <1>1, <2>1 DEF BehindWriteBack, BehindMemory, NewMemory, ExecuteMoves
  <2>2. CASE ~ExecuteMoves
    BY <1>1, <1>5, <2>2 DEF BehindWriteBack, BehindMemory, NewMemory, ExecuteMoves, MemoryMoves
  <2> QED
    BY <2>1, <2>2
<1> QED
  BY <1>3, <1>4, <1>5, <1>6

\* What the memory stage holds after a step of it.
LEMMA MemoryKept ==
    ASSUME IInv, MemorySkips \/ MemoryJumps \/ MemoryRequests \/ MemoryWaits
    PROVE  /\ memory' = None <=> memory = None
           /\ memory # None => /\ memory' \in Slot
                               /\ memory'.ins = memory.ins /\ memory'.at = memory.at
                               /\ memory'.PCsel = memory.PCsel
                               /\ memory'.ALUresult = memory.ALUresult
           /\ UNCHANGED <<program, pipelined, regs, fpRegs, fetch, decode, execute, writeBack, stack>>
           /\ phase = "memory" /\ phase' = "writeBack"
<1>1. /\ UNCHANGED <<program, pipelined, regs, fpRegs, fetch, decode, execute, writeBack, stack>>
      /\ phase = "memory" /\ phase' = "writeBack"
  BY DEF MemorySkips, MemoryJumps, MemoryRequests, MemoryWaits, InMemory, AfterMemory,
         inputs, registers
<1>2. memory # None => memory \in Slot
  BY AccessType DEF IInv
<1>3. CASE MemorySkips \/ MemoryJumps \/ MemoryRequests
  <2>1. memory' = memory
    BY <1>3 DEF MemorySkips, MemoryJumps, MemoryRequests
  <2> QED
    BY <1>1, <1>2, <2>1
<1>4. CASE MemoryWaits
  <2>1. memory \in Slot /\ memory # None
    BY <1>2, <1>4 DEF MemoryWaits
  <2>2. \/ memory' = memory
        \/ memory' = [memory EXCEPT !.loadedData = Received(memory, Head(responses))]
    BY <1>4 DEF MemoryWaits
  <2>3. memory' \in Slot
    <3>1. TypeOK'
      BY <1>4, TypePreserved DEF Next
    <3>2. memory' # None
      <4>1. responses # << >> => Received(memory, Head(responses)) \in Value
        BY ReceivedType DEF IInv, TypeOK
      <4>2. CASE memory' = memory
        BY <2>1, <4>2
      <4>3. CASE memory' # memory
        <5>1. responses # << >>
          BY <1>4, <4>3 DEF MemoryWaits
        <5> QED
          BY <2>1, <2>2, <4>1, <4>3, <5>1 DEF Slot
      <4> QED
        BY <4>2, <4>3
    <3> QED
      BY <3>1, <3>2 DEF TypeOK, Stage
  <2>4. /\ memory'.ins = memory.ins /\ memory'.at = memory.at
        /\ memory'.PCsel = memory.PCsel /\ memory'.ALUresult = memory.ALUresult
    BY <2>1, <2>2 DEF Slot
  <2> QED
    BY <1>1, <2>1, <2>3, <2>4
<1> QED
  BY <1>1, <1>3, <1>4

LEMMA LoadedPreserved ==
    ASSUME IInv, InOrder, Next
    PROVE  Loaded'
<1> DEFINE L(s) == s # None => s.ins = program[s.at]
<1>1. L(fetch) /\ L(decode) /\ L(execute) /\ L(memory) /\ L(writeBack)
  BY DEF InOrder, Loaded
<1>2. program' = program
  BY DEF Next, UpdatePipeline, UpdateDataPath, FetchNext, FetchToDecode, DecodeToExecute,
         ExecuteToMemory, MemoryToWriteBack, DataPath, Execute, MemorySkips, MemoryJumps,
         MemoryRequests, MemoryWaits, AfterMemory, WriteBack, ProcessMemoryRequests, inputs
<1>3. SUFFICES L(fetch') /\ L(decode') /\ L(execute') /\ L(memory') /\ L(writeBack')
  BY <1>2 DEF Loaded
<1> USE DEF IInv
<1>4. \A s : s \in Stage /\ s # None /\ L(s) => L(Decoded(s))
  BY DecodedType, AddressesKept DEF Stage
<1>5. CASE UpdatePipeline
  <2>1. L(NewWriteBack) /\ L(NewMemory) /\ L(NewExecute)
    BY <1>1 DEF NewWriteBack, NewMemory, NewExecute
  <2>2. L(NewDecode)
    BY <1>1, <1>4 DEF NewDecode, FetchMoves, TypeOK
  <2>3. L(fetch')
    BY <1>1, <1>5, FetchedFrom, NewStagesType DEF UpdatePipeline, Fetches
  <2> QED
    BY <1>5, <2>1, <2>2, <2>3 DEF UpdatePipeline
<1>6. CASE UpdateDataPath
  <2>1. CASE FetchNext
    BY <1>1, <2>1, FetchedFrom DEF FetchNext, TypeOK
  <2>2. CASE FetchToDecode
    BY <1>1, <1>4, <2>2 DEF FetchToDecode, TypeOK
  <2>3. CASE DecodeToExecute
    BY <1>1, <2>3 DEF DecodeToExecute
  <2>4. CASE ExecuteToMemory
    BY <1>1, <2>4 DEF ExecuteToMemory
  <2>5. CASE MemoryToWriteBack
    BY <1>1, <2>5 DEF MemoryToWriteBack
  <2> QED
    BY <1>6, <2>1, <2>2, <2>3, <2>4, <2>5 DEF UpdateDataPath
<1>7. CASE Execute
  <2>1. L(execute')
    BY <1>1, <1>7, ExecutedType, AddressesKept DEF Execute, TypeOK, Stage
  <2> QED
    BY <1>1, <1>7, <2>1 DEF Execute
<1>8. CASE MemorySkips \/ MemoryJumps \/ MemoryRequests \/ MemoryWaits
  BY <1>1, <1>8, MemoryKept
<1>9. CASE WriteBack \/ ProcessMemoryRequests
  BY <1>1, <1>9 DEF WriteBack, ProcessMemoryRequests, stages
<1> QED
  BY <1>5, <1>6, <1>7, <1>8, <1>9 DEF Next

LEMMA NothingBehindJumpsPreserved ==
    ASSUME IInv, InOrder, Next
    PROVE  NothingBehindJumps'
<1> USE DEF IInv, NothingBehindJumps
<1>1. NothingBehindJumps
  BY DEF InOrder
<1>2. CASE UpdatePipeline
  <2>1. /\ memory' = NewMemory /\ execute' = NewExecute /\ decode' = NewDecode
        /\ IF Fetches
           THEN fetch' = Fetched(FlushedPC) /\ pc' = After(FlushedPC)
           ELSE /\ fetch' = IF Flushes \/ FetchMoves THEN None ELSE fetch
                /\ pc' = FlushedPC
    BY <1>2 DEF UpdatePipeline
  <2>2. decode' # None => (decode'.PCsel <=> PCsel(decode'.ins.opcode, TRUE))
    <3>1. CASE FetchMoves
      BY <2>1, <3>1, StageType, DecodedType DEF NewDecode, FetchMoves
    <3>2. CASE ~FetchMoves
      BY <1>1, <2>1, <3>2 DEF NewDecode
    <3> QED
      BY <3>1, <3>2
  <2>3. Jumps(execute') => fetch' = None /\ decode' = None
    <3> SUFFICES ASSUME Jumps(NewExecute) PROVE fetch' = None /\ decode' = None
      BY <2>1
    <3>1. ~Fetches
      BY DEF Fetches, ControlHazard
    <3>2. CASE DecodeMoves
      <4>1. Jumps(decode)
        BY <3>2 DEF NewExecute
      <4>2. ~FetchMoves /\ (fetch # None => Flushes)
        BY <4>1 DEF FetchMoves, Flushes
      <4> QED
        BY <2>1, <3>1, <3>2, <4>2 DEF NewDecode
    <3>3. CASE ~DecodeMoves
      <4>1. Jumps(execute)
        BY <3>3 DEF NewExecute, Jumps
      <4>2. fetch = None /\ decode = None
        BY <1>1, <4>1
      <4> QED
        BY <2>1, <3>1, <3>3, <4>2 DEF NewDecode, FetchMoves
    <3> QED
      BY <3>2, <3>3
  <2>4. Jumps(memory') => fetch' = None /\ decode' = None /\ execute' = None
    <3> SUFFICES ASSUME Jumps(NewMemory)
                 PROVE  fetch' = None /\ decode' = None /\ execute' = None
      BY <2>1
    <3>1. ~Fetches
      BY DEF Fetches, ControlHazard
    <3>2. (Jumps(execute) /\ ExecuteMoves) \/ Jumps(memory)
      BY DEF NewMemory, Jumps
    <3>3. fetch = None /\ decode = None /\ (ExecuteMoves \/ execute = None)
      BY <1>1, <3>2
    <3> QED
      BY <2>1, <3>1, <3>3 DEF NewExecute, NewDecode, FetchMoves, DecodeMoves, DecodeChecked
  <2> QED
    BY <2>2, <2>3, <2>4
<1>3. CASE UpdateDataPath
  <2>1. CASE FetchNext
    BY <1>1, <2>1 DEF FetchNext, Jumps
  <2>2. CASE FetchToDecode
    <3>1. decode' # None => (decode'.PCsel <=> PCsel(decode'.ins.opcode, TRUE))
      BY <2>2, StageType, DecodedType DEF FetchToDecode
    <3>2. execute' = None /\ memory' = None
      BY <2>2 DEF FetchToDecode, DataPath, OneAtATime
    <3> QED
      BY <3>1, <3>2 DEF Jumps
  <2>3. CASE DecodeToExecute
    BY <1>1, <2>3 DEF DecodeToExecute, DataPath, OneAtATime, Jumps
  <2>4. CASE ExecuteToMemory
    BY <1>1, <2>4 DEF ExecuteToMemory, Jumps
  <2>5. CASE MemoryToWriteBack
    BY <1>1, <2>5 DEF MemoryToWriteBack, Jumps
  <2> QED
    BY <1>3, <2>1, <2>2, <2>3, <2>4, <2>5 DEF UpdateDataPath
<1>4. CASE Execute
  <2>1. Jumps(execute') => Jumps(execute)
    <3> SUFFICES ASSUME Jumps(execute'), execute # None PROVE execute.PCsel
      BY <1>4 DEF Execute, Jumps
    <3>1. execute' = Executed(execute)
      BY <1>4 DEF Execute
    <3>2. Taken(execute)
      BY <3>1, StageType DEF Jumps, Executed, Taken, Slot
    <3> QED
      BY <1>4, <3>2 DEF Execute, InOrder, ResultsAreRight
  <2> QED
    BY <1>1, <1>4, <2>1 DEF Execute, Jumps
<1>5. CASE MemorySkips \/ MemoryJumps \/ MemoryRequests \/ MemoryWaits
  BY <1>1, <1>5, MemoryKept DEF Jumps
<1>6. CASE WriteBack \/ ProcessMemoryRequests
  BY <1>1, <1>6 DEF WriteBack, ProcessMemoryRequests, stages, Jumps
<1> QED
  BY <1>2, <1>3, <1>4, <1>5, <1>6 DEF Next

LEMMA InSequencePreserved ==
    ASSUME IInv, InOrder, Next
    PROVE  InSequence'
<1> USE DEF IInv
<1>1. InSequence /\ NothingBehindJumps
  BY DEF InOrder
<1>2. CASE UpdatePipeline
  <2>1. /\ writeBack' = NewWriteBack
        /\ memory' = NewMemory /\ execute' = NewExecute /\ decode' = NewDecode
        /\ IF Fetches
           THEN fetch' = Fetched(FlushedPC) /\ pc' = After(FlushedPC)
           ELSE /\ fetch' = IF Flushes \/ FetchMoves THEN None ELSE fetch
                /\ pc' = FlushedPC
        /\ phase = "update" /\ phase' = "execute"
    BY <1>2 DEF UpdatePipeline
  <2>2. fetch' # None => pc' = After(fetch'.at)
    <3>1. CASE Fetches
      BY <2>1, <3>1, FetchedFrom, NewStagesType DEF Fetches
    <3>2. CASE ~Fetches
      BY <1>1, <2>1, <3>2, FlushedAddress DEF InSequence
    <3> QED
      BY <3>1, <3>2
  <2>3. decode' # None => BehindDecode' = After(decode'.at)
    <3>1. CASE FetchMoves
      <4>1. decode'.at = fetch.at
        BY <2>1, <3>1, StageType, AddressesKept DEF NewDecode, FetchMoves
      <4> QED
        BY <1>1, <1>2, <3>1, <4>1, MovesKeepOrder DEF InSequence, FetchMoves
    <3>2. CASE ~FetchMoves
      BY <1>1, <1>2, <2>1, <3>2, MovesKeepOrder DEF InSequence, NewDecode
    <3> QED
      BY <3>1, <3>2
  <2>4. execute' # None => BehindExecute' = After(execute'.at)
    <3>1. CASE DecodeMoves
      BY <1>1, <1>2, <2>1, <3>1, MovesKeepOrder
         DEF InSequence, NewExecute, DecodeMoves, DecodeChecked
    <3>2. CASE ~DecodeMoves
      BY <1>1, <1>2, <2>1, <3>2, MovesKeepOrder DEF InSequence, NewExecute
    <3> QED
      BY <3>1, <3>2
  <2>5. memory' # None /\ ~memory'.PCsel => BehindMemory' = After(memory'.at)
    <3>1. CASE ExecuteMoves
      BY <1>1, <1>2, <2>1, <3>1, MovesKeepOrder DEF InSequence, NewMemory, ExecuteMoves
    <3>2. CASE ~ExecuteMoves
      BY <1>1, <1>2, <2>1, <3>2, MovesKeepOrder DEF InSequence, NewMemory
    <3> QED
      BY <3>1, <3>2
  <2>6. writeBack' # None => BehindWriteBack' = Target(writeBack')
    <3> SUFFICES ASSUME MemoryMoves PROVE BehindWriteBack' = Target(memory)
      BY <2>1 DEF NewWriteBack, Target
    <3>1. BehindWriteBack' = BehindMemory
      BY <1>2, MovesKeepOrder
    <3>2. CASE memory.PCsel
      BY <1>1, <2>1, <3>1, <3>2
         DEF InSequence, NothingBehindJumps, Jumps, MemoryMoves, Target,
             BehindMemory, BehindExecute, BehindDecode
    <3>3. CASE ~memory.PCsel
      BY <1>1, <3>1, <3>3 DEF InSequence, MemoryMoves, Target
    <3> QED
      BY <3>2, <3>3
  <2> QED
    BY <2>1, <2>2, <2>3, <2>4, <2>5, <2>6 DEF InSequence
<1>3. CASE UpdateDataPath
  <2> USE DEF DataPath, OneAtATime, InSequence, BehindDecode, BehindExecute, BehindMemory,
              BehindWriteBack
  <2>0. WriteBackAlone
    BY DEF InOrder
  <2>1. CASE FetchNext
    <3>1. fetch' # None => pc' = After(fetch'.at)
      BY <2>1, FetchedFrom DEF FetchNext, TypeOK
    <3> QED
      BY <1>1, <2>1, <3>1 DEF FetchNext, Jumps
  <2>2. CASE FetchToDecode
    <3>1. decode'.at = fetch.at
      BY <2>2, StageType, AddressesKept DEF FetchToDecode
    <3>2. execute' = None /\ memory' = None /\ writeBack' = None
      BY <2>0, <2>2 DEF FetchToDecode, WriteBackAlone
    <3> QED
      BY <1>1, <2>2, <3>1, <3>2 DEF FetchToDecode, Jumps
  <2>3. CASE DecodeToExecute
    <3>1. fetch' = None /\ decode' = None /\ memory' = None /\ writeBack' = None
      BY <2>0, <2>3 DEF DecodeToExecute, WriteBackAlone
    <3> QED
      BY <1>1, <2>3, <3>1 DEF DecodeToExecute, Jumps
  <2>4. CASE ExecuteToMemory
    <3>1. fetch' = None /\ decode' = None /\ writeBack' = None /\ memory = None
      BY <2>0, <2>4 DEF ExecuteToMemory, WriteBackAlone
    <3> QED
      BY <1>1, <2>4, <3>1 DEF ExecuteToMemory, Jumps
  <2>5. CASE MemoryToWriteBack
    <3>1. fetch' = None /\ decode' = None /\ execute' = None /\ writeBack = None
      BY <2>0, <2>5 DEF MemoryToWriteBack, WriteBackAlone
    <3> QED
      BY <1>1, <2>5, <3>1 DEF MemoryToWriteBack, Jumps, Target
  <2> QED
    BY <1>3, <2>1, <2>2, <2>3, <2>4, <2>5 DEF UpdateDataPath
<1>4. CASE Execute
  <2>1. execute # None => execute'.at = execute.at /\ execute' # None
    BY <1>4, StageType, ExecutedType, AddressesKept DEF Execute
  <2>2. execute = None => execute' = None
    BY <1>4 DEF Execute
  <2> QED
    BY <1>1, <1>4, <2>1, <2>2
       DEF Execute, InSequence, BehindDecode, BehindExecute, BehindMemory, BehindWriteBack,
           BeforeWriteBack, Target, Jumps
<1>5. CASE MemorySkips \/ MemoryJumps \/ MemoryRequests \/ MemoryWaits
  <2>1. CASE MemoryJumps
    <3>1. fetch = None /\ decode = None /\ execute = None /\ memory # None /\ memory.PCsel
            /\ pc' = memory.ALUresult
      BY <1>1, <2>1 DEF MemoryJumps, NothingBehindJumps, Jumps
    <3> QED
      BY <1>1, <1>5, <3>1, MemoryKept
         DEF InSequence, BehindWriteBack, BeforeWriteBack, Target, Jumps
  <2>2. CASE ~MemoryJumps
    <3>1. pc' = pc /\ ~Jumps(memory)
      BY <1>5, <2>2 DEF MemorySkips, MemoryRequests, MemoryWaits, Jumps
    <3> QED
      BY <1>1, <1>5, <3>1, MemoryKept
         DEF InSequence, BehindDecode, BehindExecute, BehindMemory, BehindWriteBack,
             BeforeWriteBack, Target, Jumps
  <2> QED
    BY <2>1, <2>2
<1>6. CASE WriteBack \/ ProcessMemoryRequests
  BY <1>1, <1>6
     DEF WriteBack, ProcessMemoryRequests, stages, InSequence, BehindDecode, BehindExecute,
         BehindMemory, BehindWriteBack, BeforeWriteBack, Target, Jumps
<1> QED
  BY <1>2, <1>3, <1>4, <1>5, <1>6 DEF Next

\* In a safe program the instruction two places behind one that writes a
\* register does not read it.
LEMMA DistanceTwo ==
    ASSUME IInv, InOrder, Safe(<<program, pipelined>>), pipelined,
           memory # None, execute # None, decode # None,
           Writes(memory), ~PutsBack(memory.ins)
    PROVE  ~Feeds(memory, decode)
<1>1. execute.at = After(memory.at) /\ decode.at = After(execute.at)
  BY DEF InOrder, NothingBehindJumps, InSequence, Jumps, BehindMemory, BehindExecute
<1>2. /\ memory.ins = program[memory.at] /\ execute.ins = program[execute.at]
      /\ decode.ins = program[decode.at]
  BY DEF InOrder, Loaded
<1>3. memory \in Slot /\ execute \in Slot /\ decode \in Slot
  BY StageType DEF IInv
<1>4. memory.ins # None /\ execute.ins # None /\ decode.ins # None /\ memory.at \in Value
  BY <1>3 DEF Slot
<1>5. ~ReadsAtDistanceTwo(program)
  BY DEF Safe
<1> QED
  BY <1>1, <1>2, <1>4, <1>5 DEF ReadsAtDistanceTwo, Feeds, Writes

LEMMA WriteBackFeedsNonePreserved ==
    ASSUME IInv, InOrder, Safe(<<program, pipelined>>), Next
    PROVE  WriteBackFeedsNone'
<1> DEFINE F(w, s) ==
             w # None /\ Writes(w) /\ ~PutsBack(w.ins) /\ s # None => ~Feeds(w, s)
<1> USE DEF IInv
<1>1. F(writeBack, execute) /\ F(writeBack, memory)
  BY DEF InOrder, WriteBackFeedsNone
<1>2. SUFFICES F(writeBack', execute') /\ F(writeBack', memory')
  BY DEF WriteBackFeedsNone
<1>3. CASE UpdatePipeline
  <2>1. writeBack' = NewWriteBack /\ memory' = NewMemory /\ execute' = NewExecute /\ pipelined
    BY <1>3 DEF UpdatePipeline
  <2>2. CASE ~MemoryMoves
    BY <2>1, <2>2 DEF NewWriteBack
  <2>3. CASE MemoryMoves
    <3>1. writeBack' = memory /\ memory # None /\ (execute # None => ExecuteMoves)
      BY <2>1, <2>3 DEF NewWriteBack, MemoryMoves, ExecuteMoves
    <3>2. F(memory, memory')
      BY <2>1, <2>3, <3>1 DEF NewMemory, NeverFeeds
    <3>3. F(memory, execute')
      <4> SUFFICES ASSUME execute' # None, Writes(memory), ~PutsBack(memory.ins)
                   PROVE  ~Feeds(memory, execute')
        BY <3>1
      <4>1. DecodeMoves /\ execute' = decode /\ decode # None
        BY <2>1, <3>1 DEF NewExecute, DecodeMoves, DecodeChecked
      <4>2. CASE execute # None
        BY <2>1, <3>1, <4>1, <4>2, DistanceTwo
      <4>3. CASE execute = None
        <5>1. NewMemory = None /\ NewWriteBack = memory
          BY <2>3, <4>3 DEF NewMemory, ExecuteMoves, NewWriteBack
        <5>2. ~DataHazardCheck(decode)
          BY <4>1 DEF DecodeMoves, DecodeChecked, NewDataHazard
        <5> QED
          BY <3>1, <4>1, <5>1, <5>2 DEF DataHazardCheck
      <4> QED
        BY <4>2, <4>3
    <3> QED
      BY <3>1, <3>2, <3>3
  <2> QED
    BY <2>2, <2>3
<1>4. CASE UpdateDataPath
  <2>0. WriteBackAlone
    BY DEF InOrder
  <2> USE DEF DataPath, OneAtATime, WriteBackAlone
  <2>1. CASE FetchNext
    BY <2>1 DEF FetchNext
  <2>2. CASE FetchToDecode
    BY <1>1, <2>2 DEF FetchToDecode
  <2>3. CASE DecodeToExecute
    BY <2>0, <2>3 DEF DecodeToExecute
  <2>4. CASE ExecuteToMemory
    BY <2>0, <2>4 DEF ExecuteToMemory
  <2>5. CASE MemoryToWriteBack
    BY <1>1, <2>5 DEF MemoryToWriteBack
  <2> QED
    BY <1>4, <2>1, <2>2, <2>3, <2>4, <2>5 DEF UpdateDataPath
<1>5. CASE Execute
  <2>1. execute # None => execute'.ins = execute.ins
    BY <1>5, StageType, ExecutedType DEF Execute
  <2>2. execute = None => execute' = None
    BY <1>5 DEF Execute
  <2> QED
    BY <1>1, <1>5, <2>1, <2>2 DEF Execute, Feeds
<1>6. CASE MemorySkips \/ MemoryJumps \/ MemoryRequests \/ MemoryWaits
  BY <1>1, <1>6, MemoryKept DEF Feeds
<1>7. CASE WriteBack \/ ProcessMemoryRequests
  BY <1>1, <1>7 DEF WriteBack, ProcessMemoryRequests, stages
<1> QED
  BY <1>3, <1>4, <1>5, <1>6, <1>7 DEF Next

LEMMA WriteBackAlonePreserved ==
    ASSUME IInv, InOrder, Next
    PROVE  WriteBackAlone'
<1> USE DEF IInv, WriteBackAlone
<1>1. WriteBackAlone
  BY DEF InOrder
<1>2. CASE UpdatePipeline
  BY <1>2 DEF UpdatePipeline, inputs
<1>3. CASE UpdateDataPath
  <2> USE DEF DataPath, inputs
  <2>1. CASE FetchNext
    BY <2>1 DEF FetchNext
  <2>2. CASE FetchToDecode
    BY <1>1, <2>2 DEF FetchToDecode
  <2>3. CASE DecodeToExecute
    BY <1>1, <2>3 DEF DecodeToExecute
  <2>4. CASE ExecuteToMemory
    BY <1>1, <2>4 DEF ExecuteToMemory
  <2>5. CASE MemoryToWriteBack
    BY <1>1, <2>5 DEF MemoryToWriteBack
  <2> QED
    BY <1>3, <2>1, <2>2, <2>3, <2>4, <2>5 DEF UpdateDataPath
<1>4. CASE Execute
  BY <1>1, <1>4 DEF Execute, inputs
<1>5. CASE MemorySkips \/ MemoryJumps \/ MemoryRequests \/ MemoryWaits
  BY <1>1, <1>5, MemoryKept
<1>6. CASE WriteBack \/ ProcessMemoryRequests
  BY <1>1, <1>6 DEF WriteBack, ProcessMemoryRequests, stages, inputs
<1> QED
  BY <1>2, <1>3, <1>4, <1>5, <1>6 DEF Next

LEMMA MemoryIsNewPreserved ==
    ASSUME IInv, InOrder, Next
    PROVE  MemoryIsNew'
<1> USE DEF IInv, MemoryIsNew
<1>1. MemoryIsNew /\ WriteBackAlone
  BY DEF InOrder
<1>2. CASE UpdatePipeline
  BY <1>2 DEF UpdatePipeline, NewWriteBack, MemoryMoves
<1>3. CASE UpdateDataPath
  <2> USE DEF DataPath, WriteBackAlone
  <2>1. CASE FetchNext
    BY <2>1 DEF FetchNext
  <2>2. CASE FetchToDecode
    BY <1>1, <2>2 DEF FetchToDecode
  <2>3. CASE DecodeToExecute
    BY <1>1, <2>3 DEF DecodeToExecute
  <2>4. CASE ExecuteToMemory
    BY <1>1, <2>4 DEF ExecuteToMemory
  <2>5. CASE MemoryToWriteBack
    BY <1>1, <2>5 DEF MemoryToWriteBack
  <2> QED
    BY <1>3, <2>1, <2>2, <2>3, <2>4, <2>5 DEF UpdateDataPath
<1>4. CASE Execute
  BY <1>1, <1>4 DEF Execute
<1>5. CASE MemorySkips
  BY <1>5, MemoryKept DEF MemorySkips, Accesses
<1>6. CASE MemoryJumps
  <2>1. memory # None /\ ~MemWrite(memory.ins.opcode)
    BY <1>6 DEF MemoryJumps, Jumps, OnlyJumpsJump, MemWrite
  <2> QED
    BY <1>6, <2>1, MemoryKept
<1>7. CASE MemoryRequests
  BY <1>7, MemoryKept DEF MemoryRequests
<1>8. CASE MemoryWaits
  BY <1>1, <1>8, MemoryKept DEF MemoryWaits
<1>9. CASE WriteBack \/ ProcessMemoryRequests
  BY <1>9 DEF WriteBack, ProcessMemoryRequests
<1> QED
  BY <1>2, <1>3, <1>4, <1>5, <1>6, <1>7, <1>8, <1>9 DEF Next

\* What execute computes is what the instruction computes on its turn: its
\* operands are there, and its pc has not gone ahead if it uses it.
LEMMA ExecutedIsRight ==
    ASSUME IInv, InOrder, Safe(<<program, pipelined>>), phase = "execute", execute # None
    PROVE  Right(Executed(execute))
<1> DEFINE s == execute
           i == s.ins
           e == Executed(s)
<1>1. s \in Slot /\ i.opcode \in Opcode
  BY StageType DEF IInv, Slot, Instr
<1>2. e.ins = i /\ e.at = s.at
  BY <1>1, ExecutedType, AddressesKept DEF IInv
<1>3. e.PCsel <=> Taken(s)
  BY <1>1 DEF Executed, Taken, Slot
<1>4. e.ALUresult = IF i.opcode = "FP_TYPE" THEN 0
                    ELSE ALU(i, IF ALUsrc1(i.opcode) THEN pc ELSE regs[i.rs1],
                                IF ALUsrc2(i.opcode) THEN i.imm ELSE regs[i.rs2])
  BY <1>1 DEF Executed, Slot
<1>5. ASSUME ALUsrc1(i.opcode), i.opcode # "SB_TYPE" \/ e.PCsel
      PROVE  pc = After(s.at)
  <2>1. fetch = None /\ decode = None
    <3>1. CASE i.opcode = "AUIPC"
      <4>1. ~pipelined
        <5>1. program[s.at] # None /\ program[s.at].opcode = "AUIPC" /\ s.at \in Value
          BY <1>1, <3>1 DEF InOrder, Loaded, Slot
        <5> QED
          BY <5>1 DEF Safe, AddsToPC
      <4> QED
        BY <4>1 DEF IInv, OneAtATime
    <3>2. CASE i.opcode # "AUIPC"
      <4>1. Taken(s)
        <5>1. i.opcode = "SB_TYPE" \/ i.opcode = "JAL"
          BY <1>5, <3>2 DEF ALUsrc1
        <5> QED
          BY <1>3, <1>5, <5>1 DEF Taken, PCsel
      <4>2. Jumps(execute)
        BY <4>1 DEF InOrder, ResultsAreRight, Jumps
      <4> QED
        BY <4>2 DEF InOrder, NothingBehindJumps
    <3> QED
      BY <3>1, <3>2
  <2> QED
    BY <2>1 DEF InOrder, InSequence, BehindExecute, BehindDecode
<1>6. i.opcode # "SB_TYPE" \/ e.PCsel => e.ALUresult = Outcome(s)
  <2> SUFFICES ASSUME i.opcode # "SB_TYPE" \/ e.PCsel PROVE e.ALUresult = Outcome(s)
    OBVIOUS
  <2>1. CASE ALUsrc1(i.opcode)
    BY <1>4, <1>5, <2>1 DEF Outcome
  <2>2. CASE ~ALUsrc1(i.opcode)
    BY <1>4, <2>2 DEF Outcome
  <2> QED
    BY <2>1, <2>2
<1>7. Taken(e) = Taken(s) /\ Outcome(e) = Outcome(s)
  BY <1>2 DEF Taken, Outcome
<1> QED
  BY <1>2, <1>3, <1>6, <1>7 DEF Right

\* An instruction that writes what its register holds leaves the registers alone.
LEMMA PutsBackKeeps ==
    ASSUME IInv, InOrder, WriteBack, writeBack # None, PutsBack(writeBack.ins)
    PROVE  UNCHANGED registers
<1> DEFINE i == writeBack.ins
<1>1. writeBack \in Slot /\ i \in Instr /\ i.rd \in Reg /\ i.opcode = "I_TYPE" /\ i.rs1 = i.rd
  BY StageType DEF IInv, Slot, Instr, PutsBack
<1>2. regs \in [Reg -> Value]
  BY DEF IInv, TypeOK
<1>3. writeBack.ALUresult = Outcome(writeBack)
  BY <1>1 DEF WriteBack, InOrder, ResultsAreRight, BeforeWriteBack, Right
<1>4. Outcome(writeBack) = ALU(i, regs[i.rd], i.imm)
  BY <1>1 DEF Outcome, ALUsrc1, ALUsrc2, Opcode
<1>5. ALU(i, regs[i.rd], i.imm) = regs[i.rd]
  BY <1>1, <1>2 DEF PutsBack
<1>6. Datum(writeBack) = regs[i.rd]
  BY <1>1, <1>3, <1>4, <1>5 DEF Datum, WBsel
<1>7. ~IsFloat(i.opcode)
  BY <1>1 DEF IsFloat
<1> QED
  BY <1>1, <1>2, <1>6, <1>7 DEF WriteBack, registers

\* Writing back leaves the operands of the instructions behind alone.
LEMMA OperandsKept ==
    ASSUME IInv, InOrder, WriteBack, NEW s \in {execute, memory}, s # None
    PROVE  /\ regs'[s.ins.rs1] = regs[s.ins.rs1] /\ regs'[s.ins.rs2] = regs[s.ins.rs2]
           /\ fpRegs'[s.ins.rs2] = fpRegs[s.ins.rs2]
<1>1. s.ins.rs1 \in Reg /\ s.ins.rs2 \in Reg
  BY StageType DEF IInv, Slot, Instr
<1>2. regs \in [Reg -> Value] /\ fpRegs \in [Reg -> Value]
  BY DEF IInv, TypeOK
<1>3. CASE writeBack # None /\ Writes(writeBack) /\ ~PutsBack(writeBack.ins)
  <2>1. writeBack.ins.rd # s.ins.rs1 /\ writeBack.ins.rd # s.ins.rs2
    BY <1>3 DEF InOrder, WriteBackFeedsNone, Feeds
  <2> QED
    BY <1>1, <1>2, <1>3, <2>1 DEF WriteBack
<1>4. CASE writeBack # None /\ Writes(writeBack) /\ PutsBack(writeBack.ins)
  BY <1>4, PutsBackKeeps DEF registers
<1>5. CASE ~(writeBack # None /\ Writes(writeBack))
  BY <1>5 DEF WriteBack
<1> QED
  BY <1>3, <1>4, <1>5

LEMMA ResultsAreRightPreserved ==
    ASSUME IInv, InOrder, Safe(<<program, pipelined>>), Next
    PROVE  ResultsAreRight'
<1> USE DEF IInv
<1>1. ResultsAreRight /\ WriteBackAlone
  BY DEF InOrder
<1>2. ASSUME UpdatePipeline \/ UpdateDataPath
      PROVE  phase = "update" /\ phase' = "execute" /\ regs' = regs
  BY <1>2 DEF UpdatePipeline, UpdateDataPath, FetchNext, FetchToDecode, DecodeToExecute,
              ExecuteToMemory, MemoryToWriteBack, DataPath, registers
<1>3. CASE UpdatePipeline
  <2>1. writeBack' = NewWriteBack /\ memory' = NewMemory /\ execute' = NewExecute
    BY <1>3 DEF UpdatePipeline
  <2>2. execute' # None /\ Taken(execute)' => execute'.PCsel
    <3>1. CASE DecodeMoves
      <4>1. execute' = decode /\ decode # None
        BY <2>1, <3>1 DEF NewExecute, DecodeMoves, DecodeChecked
      <4> QED
        BY <4>1 DEF InOrder, NothingBehindJumps, Taken, PCsel
    <3>2. CASE ~DecodeMoves
      <4>1. execute' # None => execute' = execute
        BY <2>1, <3>2 DEF NewExecute
      <4> QED
        BY <1>1, <1>2, <1>3, <4>1 DEF ResultsAreRight, Right, Taken
    <3> QED
      BY <3>1, <3>2
  <2>3. memory' # None => Right(memory)'
    <3>1. memory' # None => memory' = memory \/ memory' = execute
      BY <2>1 DEF NewMemory
    <3> QED
      BY <1>1, <1>2, <1>3, <3>1 DEF ResultsAreRight, Right, Taken, Outcome
  <2>4. writeBack' # None => Right(writeBack)'
    <3>1. writeBack' # None => writeBack' = memory
      BY <2>1 DEF NewWriteBack
    <3> QED
      BY <1>1, <1>2, <1>3, <3>1 DEF ResultsAreRight, Right, Taken, Outcome
  <2> QED
    BY <1>2, <1>3, <2>2, <2>3, <2>4 DEF ResultsAreRight
<1>4. CASE UpdateDataPath
  <2> USE DEF DataPath, WriteBackAlone
  <2>1. execute' # None /\ Taken(execute)' => execute'.PCsel
    <3>1. execute' # None => execute' = execute \/ DecodeToExecute
      BY <1>4 DEF UpdateDataPath, FetchNext, FetchToDecode, ExecuteToMemory, MemoryToWriteBack
    <3>2. CASE DecodeToExecute
      BY <3>2 DEF DecodeToExecute, InOrder, NothingBehindJumps, Taken, PCsel
    <3>3. CASE ~DecodeToExecute
      BY <1>1, <1>2, <1>4, <3>1, <3>3 DEF ResultsAreRight, Right, Taken
    <3> QED
      BY <3>2, <3>3
  <2>2. memory' # None => memory' = memory \/ memory' = execute
    BY <1>4 DEF UpdateDataPath, FetchNext, FetchToDecode, DecodeToExecute, ExecuteToMemory,
                MemoryToWriteBack
  <2>3. writeBack' # None => writeBack' = memory
    BY <1>1, <1>4 DEF UpdateDataPath, FetchNext, FetchToDecode, DecodeToExecute,
                      ExecuteToMemory, MemoryToWriteBack
  <2>4. memory' # None => Right(memory)'
    BY <1>1, <1>2, <1>4, <2>2 DEF ResultsAreRight, Right, Taken, Outcome
  <2>5. writeBack' # None => Right(writeBack)'
    BY <1>1, <1>2, <1>4, <2>3 DEF ResultsAreRight, Right, Taken, Outcome
  <2> QED
    BY <1>2, <1>4, <2>1, <2>4, <2>5 DEF ResultsAreRight
<1>5. CASE Execute
  <2>1. regs' = regs /\ phase = "execute" /\ phase' = "memory" /\ memory' = memory
          /\ writeBack' = writeBack
    BY <1>5 DEF Execute, registers
  <2>2. execute' # None => Right(execute)'
    <3>1. execute' # None => execute # None /\ execute' = Executed(execute)
      BY <1>5 DEF Execute
    <3>2. execute # None => Right(Executed(execute))
      BY <2>1, ExecutedIsRight
    <3> QED
      BY <2>1, <3>1, <3>2 DEF Right, Taken, Outcome
  <2> QED
    BY <1>1, <2>1, <2>2 DEF ResultsAreRight, BeforeWriteBack, Right, Taken, Outcome
<1>6. CASE MemorySkips \/ MemoryJumps \/ MemoryRequests \/ MemoryWaits
  <2>1. memory' # None => Right(memory)'
    BY <1>1, <1>6, MemoryKept DEF ResultsAreRight, Right, Taken, Outcome
  <2>2. execute' # None => Right(execute)'
    BY <1>1, <1>6, MemoryKept DEF ResultsAreRight, Right, Taken, Outcome
  <2>3. writeBack' # None => Right(writeBack)'
    BY <1>1, <1>6, MemoryKept DEF ResultsAreRight, BeforeWriteBack, Right, Taken, Outcome
  <2> QED
    BY <1>6, <2>1, <2>2, <2>3, MemoryKept DEF ResultsAreRight
<1>7. CASE WriteBack
  <2>1. phase = "writeBack" /\ phase' = "bus" /\ execute' = execute /\ memory' = memory
    BY <1>7 DEF WriteBack, stages
  <2>2. execute # None => Right(execute)'
    <3> SUFFICES ASSUME execute # None PROVE Right(execute)'
      OBVIOUS
    <3>1. regs'[execute.ins.rs1] = regs[execute.ins.rs1]
            /\ regs'[execute.ins.rs2] = regs[execute.ins.rs2]
      BY <1>7, OperandsKept
    <3> QED
      BY <1>1, <2>1, <3>1 DEF ResultsAreRight, Right, Taken, Outcome
  <2>3. memory # None => Right(memory)'
    <3> SUFFICES ASSUME memory # None PROVE Right(memory)'
      OBVIOUS
    <3>1. regs'[memory.ins.rs1] = regs[memory.ins.rs1]
            /\ regs'[memory.ins.rs2] = regs[memory.ins.rs2]
      BY <1>7, OperandsKept
    <3> QED
      BY <1>1, <2>1, <3>1 DEF ResultsAreRight, Right, Taken, Outcome
  <2> QED
    BY <2>1, <2>2, <2>3 DEF ResultsAreRight, BeforeWriteBack
<1>8. CASE ProcessMemoryRequests
  BY <1>1, <1>8 DEF ProcessMemoryRequests, stages, registers, ResultsAreRight,
                    BeforeWriteBack, Right, Taken, Outcome
<1> QED
  BY <1>3, <1>4, <1>5, <1>6, <1>7, <1>8 DEF Next

\* An instruction that has something to do on the bus is waited for in its stage.
LEMMA WaitingStays ==
    ASSUME IInv, UpdatePipeline \/ UpdateDataPath
    PROVE  /\ memRequestPending => memory' = memory
           /\ UpdatePipeline /\ writeBack' # None => writeBack' = memory /\ ~memRequestPending
           /\ UNCHANGED <<regs, fpRegs, memRequestPending, requests, responses, stack>>
           /\ phase = "update" /\ phase' = "execute"
<1> USE DEF IInv
<1>1. CASE UpdatePipeline
  <2>1. memRequestPending => NewMemory = memory
    BY DEF NewMemory, ExecuteMoves, MemoryMoves, Outstanding
  <2> QED
    BY <1>1, <2>1 DEF UpdatePipeline, NewWriteBack, MemoryMoves, registers, bus
<1>2. CASE UpdateDataPath
  <2> USE DEF DataPath, bus, registers
  <2>0. ~UpdatePipeline
    BY <1>2 DEF UpdatePipeline, UpdateDataPath, FetchNext, FetchToDecode, DecodeToExecute,
                ExecuteToMemory, MemoryToWriteBack
  <2>1. CASE FetchNext
    BY <2>0, <2>1 DEF FetchNext
  <2>2. CASE FetchToDecode
    BY <2>0, <2>2 DEF FetchToDecode
  <2>3. CASE DecodeToExecute
    BY <2>0, <2>3 DEF DecodeToExecute
  <2>4. CASE ExecuteToMemory
    <3>1. memory = None
      BY <2>4 DEF ExecuteToMemory, OneAtATime
    <3>2. ~memRequestPending
      BY <3>1 DEF Outstanding
    <3> QED
      BY <2>0, <2>4, <3>2 DEF ExecuteToMemory
  <2>5. CASE MemoryToWriteBack
    BY <2>0, <2>5 DEF MemoryToWriteBack
  <2> QED
    BY <1>2, <2>1, <2>2, <2>3, <2>4, <2>5 DEF UpdateDataPath
<1> QED
  BY <1>1, <1>2

LEMMA BusCarriesPreserved ==
    ASSUME IInv, InOrder, Next
    PROVE  BusCarries'
<1> USE DEF IInv
<1>1. BusCarries /\ WriteBackAlone
  BY DEF InOrder
<1>2. CASE UpdatePipeline \/ UpdateDataPath
  <2>1. writeBack' # None => writeBack' = memory /\ ~memRequestPending
    <3>1. CASE UpdatePipeline
      BY <3>1, WaitingStays
    <3>2. CASE UpdateDataPath
      BY <1>1, <3>2 DEF UpdateDataPath, FetchNext, FetchToDecode, DecodeToExecute,
                        ExecuteToMemory, MemoryToWriteBack, DataPath, WriteBackAlone
    <3> QED
      BY <1>2, <3>1, <3>2
  <2>2. memRequestPending' /\ MemRead(memory'.ins.opcode)
          => Head(responses') = stack'[AccessAddress(memory)']
    BY <1>1, <1>2, WaitingStays DEF BusCarries, AccessAddress
  <2>3. writeBack' # None /\ MemRead(writeBack'.ins.opcode)
          => writeBack'.loadedData = Received(writeBack, stack[AccessAddress(writeBack)])'
    BY <1>1, <1>2, <2>1, WaitingStays DEF BusCarries, AccessAddress, Received
  <2>4. phase' = "execute"
    BY <1>2, WaitingStays
  <2> QED
    BY <2>2, <2>3, <2>4 DEF BusCarries
<1>3. CASE Execute
  BY <1>1, <1>3 DEF Execute, registers, bus, BusCarries, AccessAddress, BeforeWriteBack,
                    StoredDatum, Received
<1>4. CASE MemorySkips \/ MemoryJumps
  <2>1. ~memRequestPending /\ ~memRequestPending'
    BY <1>4 DEF MemorySkips, MemoryJumps, Outstanding, Jumps, OnlyJumpsJump, Accesses,
                MemRead, MemWrite
  <2>2. memory # None => ~MemRead(memory.ins.opcode)
    BY <1>4 DEF MemorySkips, MemoryJumps, Jumps, OnlyJumpsJump, Accesses, MemRead
  <2> QED
    BY <1>1, <1>4, <2>1, <2>2, MemoryKept DEF BusCarries, AccessAddress, BeforeWriteBack, Received
<1>5. CASE MemoryRequests
  <2>1. memRequestPending' /\ phase = "memory" /\ phase' = "writeBack" /\ memory # None
          /\ memory' = memory
          /\ UNCHANGED <<regs, fpRegs, stack, writeBack>> /\ requests = << >>
    BY <1>5, MemoryKept DEF MemoryRequests, BusIdle
  <2> DEFINE r == [isRead |-> MemRead(memory.ins.opcode), address |-> AccessAddress(memory),
                   data |-> IF MemRead(memory.ins.opcode) THEN 0 ELSE StoredDatum(memory)]
  <2>2. requests' = Append(requests, r)
    BY <1>5 DEF MemoryRequests, StoredDatum
  <2>3. Head(requests') = r
    BY <2>1, <2>2
  <2>4. MemWrite(memory.ins.opcode) => ~MemRead(memory.ins.opcode)
    BY DEF MemWrite, MemRead
  <2>5. Head(requests').address = AccessAddress(memory)
          /\ (MemWrite(memory.ins.opcode) => Head(requests').data = StoredDatum(memory))
    BY <2>3, <2>4
  <2> QED
    BY <1>1, <2>1, <2>5 DEF BusCarries, AccessAddress, BeforeWriteBack, StoredDatum, Received
<1>6. CASE MemoryWaits
  <2>1. phase = "memory" /\ requests = << >> /\ memRequestPending /\ memory # None
    BY <1>6 DEF MemoryWaits, InMemory, Outstanding
  <2>2. ~memRequestPending'
    <3>1. ~WritePending
      BY <2>1 DEF WritePending
    <3> QED
      BY <1>6, <3>1 DEF MemoryWaits
  <2>3. MemRead(memory.ins.opcode)
          => memory'.loadedData = Received(memory, stack[AccessAddress(memory)])
    <3> SUFFICES ASSUME MemRead(memory.ins.opcode)
                 PROVE  memory'.loadedData = Received(memory, stack[AccessAddress(memory)])
      OBVIOUS
    <3>1. PICK v \in Value : responses = <<v>>
      BY <2>1 DEF Outstanding
    <3>2. v = stack[AccessAddress(memory)]
      BY <1>1, <2>1, <3>1 DEF BusCarries
    <3>3. memory' = [memory EXCEPT !.loadedData = Received(memory, v)]
      BY <1>6, <3>1 DEF MemoryWaits
    <3>4. memory \in Slot
      BY <2>1, AccessType
    <3> QED
      BY <3>2, <3>3, <3>4 DEF Slot
  <2>4. AccessAddress(memory)' = AccessAddress(memory) /\ memory'.ins = memory.ins
          /\ UNCHANGED <<stack, writeBack>> /\ phase' = "writeBack"
    BY <1>6, <2>1, MemoryKept DEF AccessAddress
  <2> QED
    BY <1>1, <2>1, <2>2, <2>3, <2>4 DEF BusCarries, AccessAddress, BeforeWriteBack, Received
<1>7. CASE WriteBack
  <2>1. phase = "writeBack" /\ phase' = "bus"
          /\ UNCHANGED <<memory, memRequestPending, requests, responses, stack>>
    BY <1>7 DEF WriteBack, stages, bus
  <2>2. memory # None => StoredDatum(memory)' = StoredDatum(memory)
    BY <1>7, <2>1, OperandsKept DEF StoredDatum
  <2>3. memRequestPending => memory # None
    BY DEF Outstanding
  <2> QED
    BY <1>1, <2>1, <2>2, <2>3 DEF BusCarries, AccessAddress, BeforeWriteBack, Received
<1>8. CASE ProcessMemoryRequests
  <2>1. phase = "bus" /\ phase' = "update" /\ UNCHANGED <<memRequestPending, memory>>
    BY <1>8 DEF ProcessMemoryRequests, stages
  <2>2. CASE memRequestPending
    <3>1. PICK r \in Request : requests = <<r>> /\ r.isRead = MemRead(memory.ins.opcode)
      BY <2>1, <2>2 DEF Outstanding
    <3>2. responses = << >>
      BY <2>1, <2>2 DEF Outstanding
    <3>3. r.address = AccessAddress(memory)
      BY <1>1, <2>1, <2>2, <3>1 DEF BusCarries
    <3>4. MemRead(memory.ins.opcode)
            => responses' = <<stack[AccessAddress(memory)]>> /\ stack' = stack
      <4>1. responses' = Answered(r)
              /\ stack' = IF r.isRead THEN stack ELSE [stack EXCEPT ![r.address] = r.data]
        BY <1>8, <3>1 DEF ProcessMemoryRequests
      <4> QED
        BY <3>1, <3>2, <3>3, <4>1 DEF Answered
    <3>5. MemRead(memory.ins.opcode)
            => Head(responses') = stack'[AccessAddress(memory)]
      BY <3>4
    <3> QED
      BY <2>1, <2>2, <3>5 DEF BusCarries, AccessAddress, BeforeWriteBack, Received
  <2>3. CASE ~memRequestPending
    <3>1. requests = << >> /\ stack' = stack
      BY <1>8, <2>3 DEF BusIdle, ProcessMemoryRequests, bus
    <3> QED
      BY <1>1, <2>1, <2>3, <3>1 DEF BusCarries, AccessAddress, BeforeWriteBack, Received
  <2> QED
    BY <2>2, <2>3
<1> QED
  BY <1>2, <1>3, <1>4, <1>5, <1>6, <1>7, <1>8 DEF Next

\* The order is kept by every run of a safe program.
LEMMA InOrderPreserved ==
    ASSUME IInv, InOrder, Safe(<<program, pipelined>>), [Next]_vars
    PROVE  InOrder'
<1>1. CASE Next
  BY <1>1, LoadedPreserved, InSequencePreserved, NothingBehindJumpsPreserved,
     ResultsAreRightPreserved, WriteBackFeedsNonePreserved, WriteBackAlonePreserved,
     MemoryIsNewPreserved, BusCarriesPreserved DEF InOrder
<1>2. CASE UNCHANGED vars
  <2>1. Loaded' /\ InSequence' /\ NothingBehindJumps'
    BY <1>2 DEF vars, inputs, registers, stages, bus, InOrder, Loaded, InSequence,
                NothingBehindJumps, BehindDecode, BehindExecute, BehindMemory,
                BehindWriteBack, Target, BeforeWriteBack, Jumps
  <2>2. ResultsAreRight'
    BY <1>2 DEF vars, inputs, registers, stages, InOrder, ResultsAreRight, Right, Taken,
                Outcome, BeforeWriteBack
  <2>3. WriteBackFeedsNone' /\ WriteBackAlone' /\ MemoryIsNew'
    BY <1>2 DEF vars, inputs, stages, InOrder, WriteBackFeedsNone, WriteBackAlone,
                MemoryIsNew, Feeds, Writes
  <2>4. BusCarries'
    BY <1>2 DEF vars, registers, stages, bus, InOrder, BusCarries, BeforeWriteBack,
                AccessAddress, StoredDatum, Received
  <2> QED
    BY <2>1, <2>2, <2>3, <2>4 DEF InOrder
<1> QED
  BY <1>1, <1>2

LEMMA InitInOrder == Init => InOrder
BY DEF Init, InOrder, Loaded, InSequence, NothingBehindJumps, ResultsAreRight,
       WriteBackFeedsNone, WriteBackAlone, MemoryIsNew, BusCarries, Jumps

-----------------------------------------------------------------------------
\* The sequential machine decodes as the CPU does.

LEMMA SameDecoding ==
    /\ Sequential!Value = Value /\ Sequential!Opcode = Opcode /\ Sequential!Instr = Instr
    /\ \A a : Sequential!After(a) = After(a)
    /\ \A o : /\ Sequential!WBsel(o) = WBsel(o)
              /\ Sequential!MemWrite(o) <=> MemWrite(o)
              /\ Sequential!IsFloat(o) <=> IsFloat(o)
              /\ Sequential!ALUsrc1(o) <=> ALUsrc1(o)
              /\ Sequential!ALUsrc2(o) <=> ALUsrc2(o)
              /\ Sequential!PCsel(o, TRUE) <=> PCsel(o, TRUE)
              /\ Sequential!PCsel(o, FALSE) <=> PCsel(o, FALSE)
    /\ \A f, x, y : Sequential!ShouldTakeBranch(f, x, y) <=> ShouldTakeBranch(f, x, y)
<1>1. Sequential!Value = Value /\ Sequential!Opcode = Opcode
  BY DEF Sequential!Value, Value, Sequential!Opcode, Opcode
<1>2. Sequential!Instr = Instr
  BY <1>1 DEF Sequential!Instr, Instr
<1>3. \A a : Sequential!After(a) = After(a)
  BY DEF Sequential!After, After
<1>4. \A o : Sequential!WBsel(o) = WBsel(o)
  BY DEF Sequential!WBsel, WBsel
<1>5. \A o : /\ Sequential!MemWrite(o) <=> MemWrite(o)
             /\ Sequential!IsFloat(o) <=> IsFloat(o)
             /\ Sequential!ALUsrc1(o) <=> ALUsrc1(o)
             /\ Sequential!ALUsrc2(o) <=> ALUsrc2(o)
             /\ Sequential!PCsel(o, TRUE) <=> PCsel(o, TRUE)
             /\ Sequential!PCsel(o, FALSE) <=> PCsel(o, FALSE)
  BY <1>1 DEF Sequential!MemWrite, MemWrite, Sequential!IsFloat, IsFloat,
         Sequential!ALUsrc1, ALUsrc1, Sequential!ALUsrc2, ALUsrc2, Sequential!PCsel, PCsel
<1>6. \A f, x, y : Sequential!ShouldTakeBranch(f, x, y) <=> ShouldTakeBranch(f, x, y)
  BY DEF Sequential!ShouldTakeBranch, ShouldTakeBranch, Sequential!Signed, Signed
<1> QED
  BY <1>1, <1>2, <1>3, <1>4, <1>5, <1>6

LEMMA InitSequential == Init => Sequential!Init
<1> SUFFICES ASSUME Init PROVE Sequential!Init
  OBVIOUS
<1>1. program \in [Value -> Instr \cup {None}]
  BY DEF Init
<1>2. OldestPC = 0
  BY DEF Init, OldestPC, WrittenBack, Stored, BehindMemory, BehindExecute, BehindDecode
<1> QED
  BY <1>1, <1>2, SameDecoding DEF Init, Sequential!Init

\* The machine's result and next pc for the oldest instruction are those the CPU
\* has computed.
LEMMA SameOutcome ==
    ASSUME NEW s \in Slot, OldestPC = s.at, Right(s)
    PROVE  /\ Sequential!Result(s.ins) = Outcome(s)
           /\ Sequential!NextPC(s.ins) = Target(s)
<1>1. Sequential!Result(s.ins) = Outcome(s)
  BY SameDecoding DEF Sequential!Result, Outcome
<1>2. Sequential!PCsel(s.ins.opcode,
         Sequential!ShouldTakeBranch(s.ins.funct3, regs[s.ins.rs1], regs[s.ins.rs2]))
      <=> Taken(s)
  BY SameDecoding DEF Taken, Sequential!PCsel, PCsel
<1>3. Sequential!NextPC(s.ins) = IF Taken(s) THEN Outcome(s) ELSE After(s.at)
  BY <1>1, <1>2, SameDecoding DEF Sequential!NextPC
<1>4. Taken(s) => s.ALUresult = Outcome(s)
  BY DEF Right
<1> QED
  BY <1>1, <1>3, <1>4 DEF Target, Right

\* The machine's step for the oldest instruction.
LEMMA SequentialStep ==
    ASSUME NEW s \in Slot, OldestPC = s.at, Right(s), s.ins = program[s.at],
           program' = program, OldestPC' = Target(s),
           regs' = IF Writes(s) /\ ~IsFloat(s.ins.opcode)
                   THEN [regs EXCEPT ![s.ins.rd] = Datum(s)] ELSE regs,
           fpRegs' = IF Writes(s) /\ IsFloat(s.ins.opcode)
                     THEN [fpRegs EXCEPT ![s.ins.rd] = Datum(s)] ELSE fpRegs,
           MemRead(s.ins.opcode) => s.loadedData = Received(s, stack[AccessAddress(s)]),
           stack' = IF MemWrite(s.ins.opcode)
                    THEN [stack EXCEPT ![AccessAddress(s)] = StoredDatum(s)] ELSE stack
    PROVE  Sequential!Next
<1> DEFINE i == s.ins
           o == i.opcode
<1>1. i \in Instr /\ o \in Opcode /\ i # None
  BY DEF Slot, Instr
<1>2. Sequential!Result(i) = Outcome(s) /\ Sequential!NextPC(i) = Target(s)
  BY SameOutcome
<1>3. o # "SB_TYPE" => s.ALUresult = Outcome(s)
  BY DEF Right
<1>4. Writes(s) => Datum(s) = Sequential!Written(i)
  <2>1. CASE o \in {"LOAD", "LOAD_FP"}
    BY <1>2, <1>3, <2>1
       DEF Datum, WBsel, MemRead, AccessAddress, Received, IsFloat, Sequential!Written
  <2>2. CASE o = "FP_TYPE"
    BY <1>2, <2>2 DEF Datum, WBsel, Outcome, Sequential!Written
  <2>3. CASE o \notin {"LOAD", "LOAD_FP", "FP_TYPE"}
    BY <1>2, <1>3, <2>3 DEF Datum, WBsel, Writes, Sequential!Written
  <2> QED
    BY <2>1, <2>2, <2>3
<1>5. MemWrite(o) => AccessAddress(s) = Sequential!Result(i)
  BY <1>2, <1>3 DEF MemWrite, AccessAddress
<1>6. StoredDatum(s) = IF Sequential!IsFloat(o) THEN fpRegs[i.rs2] ELSE regs[i.rs2]
  BY SameDecoding DEF StoredDatum
<1>7. Sequential!Step(i)
  <2>1. stack' = IF Sequential!MemWrite(o)
                 THEN [stack EXCEPT ![Sequential!Result(i)] =
                         IF Sequential!IsFloat(o) THEN fpRegs[i.rs2] ELSE regs[i.rs2]]
                 ELSE stack
    BY <1>5, <1>6, SameDecoding
  <2>2. /\ regs' = IF Sequential!WBsel(o) \in {0, 1} /\ ~Sequential!IsFloat(o)
                   THEN [regs EXCEPT ![i.rd] = Sequential!Written(i)] ELSE regs
        /\ fpRegs' = IF Sequential!WBsel(o) \in {0, 1} /\ Sequential!IsFloat(o)
                     THEN [fpRegs EXCEPT ![i.rd] = Sequential!Written(i)] ELSE fpRegs
    BY <1>4, SameDecoding DEF Writes
  <2> QED
    BY <1>2, <2>1, <2>2 DEF Sequential!Step
<1> QED
  BY <1>1, <1>7 DEF Sequential!Next

-----------------------------------------------------------------------------
\* No other step moves the oldest instruction.

\* Between the cycles a store in the memory stage has been written.
LEMMA StoredAtUpdate ==
    ASSUME IInv, phase = "update"
    PROVE  /\ WrittenBack
           /\ Stored <=> memory # None /\ MemWrite(memory.ins.opcode)
           /\ requests = << >> /\ (memory = None => ~memRequestPending)
<1>1. requests = << >> /\ (memory = None => ~memRequestPending)
  BY DEF IInv, Outstanding, BusIdle
<1>2. ~WritePending
  BY <1>1 DEF WritePending
<1> QED
  BY <1>1, <1>2 DEF WrittenBack, Stored

\* And what comes to the memory stage has not.
LEMMA StoredAfterMoves ==
    ASSUME IInv, UpdatePipeline \/ UpdateDataPath
    PROVE  /\ WrittenBack' <=> writeBack' = None \/ MemWrite(writeBack'.ins.opcode)
           /\ Stored' <=> memory' # None /\ MemWrite(memory'.ins.opcode) /\ memRequestPending
<1>1. phase' = "execute" /\ memRequestPending' = memRequestPending /\ requests' = << >>
  BY WaitingStays, StoredAtUpdate
<1>2. ~WritePending'
  BY <1>1 DEF WritePending
<1> QED
  BY <1>1, <1>2 DEF WrittenBack, Stored

LEMMA MovesKeepOldest ==
    ASSUME IInv, InOrder, UpdatePipeline \/ UpdateDataPath
    PROVE  OldestPC' = OldestPC /\ UNCHANGED <<program, regs, fpRegs, stack>>
<1>1. phase = "update" /\ UNCHANGED <<program, regs, fpRegs, memRequestPending, stack>>
  <2>1. program' = program
    BY DEF UpdatePipeline, UpdateDataPath, FetchNext, FetchToDecode, DecodeToExecute,
           ExecuteToMemory, MemoryToWriteBack, DataPath, inputs
  <2> QED
    BY <2>1, WaitingStays
<1>2. OldestPC = IF memory # None /\ ~MemWrite(memory.ins.opcode)
                 THEN memory.at ELSE BehindMemory
  BY <1>1, StoredAtUpdate DEF OldestPC
<1>3. OldestPC' =
        IF writeBack' # None /\ ~MemWrite(writeBack'.ins.opcode) THEN writeBack'.at
        ELSE IF memory' # None /\ ~(MemWrite(memory'.ins.opcode) /\ memRequestPending)
        THEN memory'.at ELSE BehindMemory'
  BY StoredAfterMoves DEF OldestPC
<1>4. CASE UpdatePipeline
  <2>1. writeBack' = NewWriteBack /\ memory' = NewMemory
    BY <1>4 DEF UpdatePipeline
  <2>2. CASE MemoryMoves
    <3>1. writeBack' = memory /\ memory # None /\ ~memRequestPending
      BY <2>1, <2>2 DEF NewWriteBack, MemoryMoves
    <3>2. BehindWriteBack' = BehindMemory
      BY <1>4, <2>2, MovesKeepOrder
    <3> QED
      BY <1>1, <1>2, <1>3, <3>1, <3>2 DEF BehindWriteBack
  <2>3. CASE memory = None
    <3>1. writeBack' = None /\ ~memRequestPending
      BY <1>1, <2>1, <2>3, StoredAtUpdate DEF NewWriteBack, MemoryMoves
    <3>2. BehindWriteBack' = BehindWriteBack
      BY <1>4, <2>3, MovesKeepOrder DEF MemoryMoves
    <3> QED
      BY <1>1, <1>2, <1>3, <2>3, <3>1, <3>2 DEF BehindWriteBack
  <2>4. CASE memory # None /\ ~MemoryMoves
    <3>1. memRequestPending /\ ~ExecuteMoves
      BY <2>4 DEF MemoryMoves, ExecuteMoves
    <3>2. writeBack' = None /\ memory' = memory
      BY <2>1, <2>4, <3>1 DEF NewWriteBack, NewMemory
    <3>3. BehindMemory' = BehindMemory
      BY <1>4, <3>1, MovesKeepOrder
    <3> QED
      BY <1>1, <1>2, <1>3, <2>4, <3>1, <3>2, <3>3
  <2> QED
    BY <2>2, <2>3, <2>4
<1>5. CASE UpdateDataPath
  <2> USE DEF DataPath, BehindMemory, BehindExecute, BehindDecode
  <2>0. WriteBackAlone
    BY DEF InOrder
  <2>1. CASE FetchNext
    <3>1. fetch' # None => fetch'.at = pc
      BY <2>1, FetchedFrom DEF FetchNext, IInv, TypeOK
    <3>2. fetch' = None => pc' = pc
      BY <2>1, FetchedFrom DEF FetchNext, IInv, TypeOK
    <3> QED
      BY <1>1, <1>2, <1>3, <2>1, <3>1, <3>2 DEF FetchNext
  <2>2. CASE FetchToDecode
    <3>1. decode' # None /\ decode'.at = fetch.at
      BY <2>2, StageType, DecodedType, AddressesKept DEF FetchToDecode, IInv
    <3>2. execute = None /\ decode = None /\ memory = None /\ writeBack = None
      BY <2>0, <2>2 DEF FetchToDecode, IInv, OneAtATime, WriteBackAlone
    <3> QED
      BY <1>1, <1>2, <1>3, <2>2, <3>1, <3>2 DEF FetchToDecode
  <2>3. CASE DecodeToExecute
    <3>1. execute = None /\ memory = None /\ writeBack = None
      BY <2>0, <2>3 DEF DecodeToExecute, IInv, OneAtATime, WriteBackAlone
    <3> QED
      BY <1>1, <1>2, <1>3, <2>3, <3>1 DEF DecodeToExecute
  <2>4. CASE ExecuteToMemory
    <3>1. memory = None /\ writeBack = None
      BY <2>0, <2>4 DEF ExecuteToMemory, IInv, OneAtATime, WriteBackAlone
    <3>2. ~memRequestPending
      BY <1>1, <3>1, StoredAtUpdate
    <3> QED
      BY <1>1, <1>2, <1>3, <2>4, <3>1, <3>2 DEF ExecuteToMemory
  <2>5. CASE MemoryToWriteBack
    <3>1. writeBack = None
      BY <2>0, <2>5 DEF MemoryToWriteBack, WriteBackAlone
    <3> QED
      BY <1>1, <1>2, <1>3, <2>5, <3>1 DEF MemoryToWriteBack
  <2> QED
    BY <1>5, <2>1, <2>2, <2>3, <2>4, <2>5 DEF UpdateDataPath
<1> QED
  BY <1>1, <1>4, <1>5

LEMMA ExecuteKeepsOldest ==
    ASSUME IInv, Execute
    PROVE  OldestPC' = OldestPC /\ UNCHANGED <<program, regs, fpRegs, stack>>
<1>1. (execute' = None <=> execute = None) /\ (execute # None => execute'.at = execute.at)
  BY StageType, ExecutedType, AddressesKept DEF Execute, IInv
<1>2. /\ UNCHANGED <<program, regs, fpRegs, stack, pc, fetch, decode, memory, writeBack,
                     memRequestPending, requests>>
      /\ phase = "execute" /\ phase' = "memory"
  BY DEF Execute, inputs, registers, bus
<1>3. (WrittenBack' <=> WrittenBack) /\ (Stored' <=> Stored)
  BY <1>2 DEF WrittenBack, Stored, WritePending
<1> QED
  BY <1>1, <1>2, <1>3 DEF OldestPC, BehindMemory, BehindExecute, BehindDecode

LEMMA MemoryKeepsOldest ==
    ASSUME IInv, InOrder, MemorySkips \/ MemoryJumps \/ MemoryRequests \/ MemoryWaits
    PROVE  OldestPC' = OldestPC /\ UNCHANGED <<program, regs, fpRegs, stack>>
<1>1. WrittenBack' <=> WrittenBack
  BY MemoryKept DEF WrittenBack
<1>2. CASE MemorySkips
  <2>1. ~Stored /\ ~Stored'
    BY <1>2, MemoryKept DEF MemorySkips, Stored, Accesses
  <2>2. pc' = pc /\ memory' = memory
    BY <1>2 DEF MemorySkips
  <2> QED
    BY <1>1, <1>2, <2>1, <2>2, MemoryKept
       DEF OldestPC, BehindMemory, BehindExecute, BehindDecode
<1>3. CASE MemoryJumps
  <2>1. memory # None /\ ~Stored /\ ~Stored' /\ memory' = memory
    BY <1>3, MemoryKept DEF MemoryJumps, Stored, Jumps, OnlyJumpsJump, MemWrite, IInv
  <2> QED
    BY <1>1, <1>3, <2>1, MemoryKept DEF OldestPC
<1>4. CASE MemoryRequests
  <2>1. memory # None /\ memory' = memory /\ phase = "memory" /\ ~memRequestPending
          /\ requests = << >> /\ memRequestPending' /\ pc' = pc
    BY <1>4, MemoryKept DEF MemoryRequests, IInv, BusIdle
  <2>2. PICK r : requests' = Append(requests, r) /\ r.isRead = MemRead(memory.ins.opcode)
    BY <1>4 DEF MemoryRequests
  <2>3. requests' = <<r>>
    BY <2>1, <2>2
  <2>4. MemWrite(memory.ins.opcode) => WritePending'
    <3> SUFFICES ASSUME MemWrite(memory.ins.opcode) PROVE WritePending'
      OBVIOUS
    <3>1. ~r.isRead
      BY <2>2 DEF MemWrite, MemRead
    <3>2. 1 \in DOMAIN requests' /\ requests'[1] = r
      BY <2>3
    <3> QED
      BY <3>1, <3>2 DEF WritePending
  <2>5. ~Stored /\ ~Stored'
    BY <2>1, <2>4 DEF Stored
  <2> QED
    BY <1>1, <1>4, <2>1, <2>5, MemoryKept DEF OldestPC
<1>5. CASE MemoryWaits
  <2>1. phase = "memory" /\ requests = << >> /\ memRequestPending /\ memory # None
          /\ requests' = << >> /\ pc' = pc
    BY <1>5 DEF MemoryWaits, InMemory, IInv, Outstanding
  <2>2. ~WritePending /\ ~WritePending'
    BY <2>1 DEF WritePending
  <2>3. ~memRequestPending'
    BY <1>5, <2>2 DEF MemoryWaits
  <2>4. Stored <=> Stored'
    BY <1>5, <2>1, <2>2, <2>3, MemoryKept DEF Stored
  <2> QED
    BY <1>1, <1>5, <2>1, <2>4, MemoryKept
       DEF OldestPC, BehindMemory, BehindExecute, BehindDecode
<1> QED
  BY <1>2, <1>3, <1>4, <1>5, MemoryKept

-----------------------------------------------------------------------------
\* Writing back, and the bus's writing of a store, are the machine's steps.

LEMMA WriteBackStep ==
    ASSUME IInv, InOrder, WriteBack
    PROVE  \/ Sequential!Next
           \/ OldestPC' = OldestPC /\ UNCHANGED <<program, regs, fpRegs, stack>>
<1>1. /\ UNCHANGED <<program, pc, fetch, decode, execute, memory, writeBack,
                     memRequestPending, requests, stack>>
      /\ phase = "writeBack" /\ phase' = "bus"
  BY DEF WriteBack, inputs, stages, bus
<1>2. (Stored' <=> Stored) /\ WrittenBack'
  BY <1>1 DEF Stored, WritePending, WrittenBack
<1>3. CASE WrittenBack
  <2>1. OldestPC' = OldestPC
    BY <1>1, <1>2, <1>3 DEF OldestPC, BehindMemory, BehindExecute, BehindDecode
  <2>2. writeBack # None => ~Writes(writeBack)
    BY <1>1, <1>3 DEF WrittenBack, Writes, MemWrite, WBsel
  <2> QED
    BY <1>1, <2>1, <2>2 DEF WriteBack
<1>4. CASE ~WrittenBack
  <2> DEFINE s == writeBack
  <2>1. s # None /\ s \in Slot /\ ~MemWrite(s.ins.opcode) /\ BeforeWriteBack
    BY <1>1, <1>4, StageType DEF WrittenBack, BeforeWriteBack, IInv
  <2>2. ~Stored
    <3> SUFFICES ASSUME memory # None, MemWrite(memory.ins.opcode) PROVE ~Stored
      BY DEF Stored
    <3>1. memRequestPending
      BY <1>1, <2>1 DEF InOrder, MemoryIsNew
    <3>2. PICK r \in Request : requests = <<r>> /\ r.isRead = MemRead(memory.ins.opcode)
      BY <1>1, <3>1 DEF IInv, Outstanding
    <3>3. ~r.isRead
      BY <3>2 DEF MemWrite, MemRead
    <3>4. 1 \in DOMAIN requests /\ requests[1] = r
      BY <3>2
    <3> QED
      BY <3>1, <3>3, <3>4 DEF Stored, WritePending
  <2>3. OldestPC = s.at
    BY <1>4 DEF OldestPC
  <2>4. OldestPC' = BehindWriteBack
    BY <1>1, <1>2, <2>2
       DEF OldestPC, BehindWriteBack, BehindMemory, BehindExecute, BehindDecode
  <2>5. OldestPC' = Target(s) /\ Right(s) /\ s.ins = program[s.at]
    BY <2>1, <2>4 DEF InOrder, InSequence, ResultsAreRight, Loaded
  <2>6. MemRead(s.ins.opcode) => s.loadedData = Received(s, stack[AccessAddress(s)])
    BY <2>1 DEF InOrder, BusCarries
  <2>7. /\ regs' = IF Writes(s) /\ ~IsFloat(s.ins.opcode)
                   THEN [regs EXCEPT ![s.ins.rd] = Datum(s)] ELSE regs
        /\ fpRegs' = IF Writes(s) /\ IsFloat(s.ins.opcode)
                     THEN [fpRegs EXCEPT ![s.ins.rd] = Datum(s)] ELSE fpRegs
    BY <2>1 DEF WriteBack
  <2> QED
    BY <1>1, <2>1, <2>3, <2>5, <2>6, <2>7, SequentialStep
<1> QED
  BY <1>3, <1>4

LEMMA BusStep ==
    ASSUME IInv, InOrder, ProcessMemoryRequests
    PROVE  \/ Sequential!Next
           \/ OldestPC' = OldestPC /\ UNCHANGED <<program, regs, fpRegs, stack>>
<1>1. /\ UNCHANGED <<program, regs, fpRegs, pc, fetch, decode, execute, memory, writeBack,
                     memRequestPending>>
      /\ phase = "bus" /\ phase' = "update"
  BY DEF ProcessMemoryRequests, inputs, registers, stages
<1>2. WrittenBack /\ WrittenBack'
  BY <1>1 DEF WrittenBack
<1>3. CASE memRequestPending
  <2>1. PICK r \in Request : requests = <<r>> /\ r.isRead = MemRead(memory.ins.opcode)
    BY <1>1, <1>3 DEF IInv, Outstanding
  <2>2. memory # None /\ Accesses(memory) /\ memory \in Slot
    BY <1>3, AccessType DEF IInv, Outstanding
  <2>3. /\ requests' = << >>
        /\ stack' = IF r.isRead THEN stack ELSE [stack EXCEPT ![r.address] = r.data]
    BY <2>1 DEF ProcessMemoryRequests
  <2>4. 1 \in DOMAIN requests /\ requests[1] = r
    BY <2>1
  <2>5. ~WritePending' /\ (WritePending <=> ~r.isRead)
    <3>1. ~WritePending'
      BY <2>3 DEF WritePending
    <3>2. \A n \in DOMAIN requests : n = 1
      BY <2>1
    <3> QED
      BY <2>4, <3>1, <3>2 DEF WritePending
  <2>6. CASE MemRead(memory.ins.opcode)
    <3>1. ~MemWrite(memory.ins.opcode)
      BY <2>6 DEF MemRead, MemWrite
    <3>2. ~Stored /\ ~Stored'
      BY <1>1, <3>1 DEF Stored
    <3> QED
      BY <1>1, <1>2, <2>1, <2>2, <2>3, <2>6, <3>2 DEF OldestPC
  <2>7. CASE ~MemRead(memory.ins.opcode)
    <3> DEFINE s == memory
    <3>1. MemWrite(s.ins.opcode)
      BY <2>2, <2>7 DEF Accesses
    <3>2. ~Stored /\ Stored'
      BY <1>1, <1>3, <2>1, <2>2, <2>5, <2>7, <3>1 DEF Stored
    <3>3. OldestPC = s.at /\ OldestPC' = BehindMemory
      BY <1>1, <1>2, <2>2, <3>2 DEF OldestPC, BehindMemory, BehindExecute, BehindDecode
    <3>4. ~s.PCsel
      BY <2>2, <3>1 DEF IInv, OnlyJumpsJump, MemWrite
    <3>5. Target(s) = BehindMemory /\ Right(s) /\ s.ins = program[s.at]
      BY <2>2, <3>4 DEF InOrder, InSequence, ResultsAreRight, Loaded, Target
    <3>6. r.address = AccessAddress(s) /\ r.data = StoredDatum(s)
      BY <1>1, <1>3, <2>1, <3>1 DEF InOrder, BusCarries
    <3>7. ~Writes(s)
      BY <3>1 DEF Writes, WBsel, MemWrite
    <3>8. stack' = IF MemWrite(s.ins.opcode)
                   THEN [stack EXCEPT ![AccessAddress(s)] = StoredDatum(s)] ELSE stack
      BY <2>1, <2>3, <2>7, <3>1, <3>6
    <3> QED
      BY <1>1, <2>2, <2>7, <3>3, <3>5, <3>7, <3>8, SequentialStep
  <2> QED
    BY <2>6, <2>7
<1>4. CASE ~memRequestPending
  <2>1. requests = << >> /\ stack' = stack /\ requests' = requests
    BY <1>4 DEF IInv, BusIdle, ProcessMemoryRequests, bus
  <2>2. Stored' <=> Stored
    BY <1>1, <1>4 DEF Stored
  <2> QED
    BY <1>1, <1>2, <2>1, <2>2 DEF OldestPC, BehindMemory, BehindExecute, BehindDecode
<1> QED
  BY <1>3, <1>4

\* Every step is one of the sequential machine, or none.
LEMMA NextSequential ==
    ASSUME IInv, InOrder, [Next]_vars
    PROVE  [Sequential!Next]_(Sequential!vars)
<1>1. CASE Next
  <2>1. \/ Sequential!Next
        \/ OldestPC' = OldestPC /\ UNCHANGED <<program, regs, fpRegs, stack>>
    BY <1>1, MovesKeepOldest, ExecuteKeepsOldest, MemoryKeepsOldest, WriteBackStep, BusStep
       DEF Next
  <2> QED
    BY <2>1 DEF Sequential!vars
<1>2. CASE UNCHANGED vars
  BY <1>2 DEF vars, inputs, registers, stages, bus, Sequential!vars, OldestPC, WrittenBack,
              Stored, WritePending, BehindMemory, BehindExecute, BehindDecode
<1> QED
  BY <1>1, <1>2

\* For every program, run one instruction at a time or, if it is Safe,
\* in the pipeline, the CPU does what the sequential machine does: overlapping, flushing,
\* stalling and waiting for the bus change no register and no word of memory.
THEOREM SpecImplementsSequential ==
    ASSUME \A run \in Runs : Safe(run)
    PROVE  Spec => ImplementsSequential
<1>1. IInv => Safe(<<program, pipelined>>)
  BY DEF IInv, TypeOK
<1>2. IInv /\ InOrder /\ [Next]_vars => InOrder'
  BY <1>1, InOrderPreserved
<1>3. IInv /\ InOrder /\ [Next]_vars => [Sequential!Next]_(Sequential!vars)
  BY NextSequential
<1> QED
  BY SpecIInv, InitInOrder, InitSequential, <1>2, <1>3, PTL
     DEF Spec, ImplementsSequential, Sequential!Spec

=============================================================================
