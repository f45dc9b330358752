-------------------------- MODULE SequentialMachine ---------------------------
(***************************************************************************)
(* What the CPU of src/HW4 promises to a program: its instructions take    *)
(* effect one after the other, each reading what its predecessors left.    *)
(* CPU.cpp comes in two forms, one that runs an instruction at a time and  *)
(* one that overlaps them in a pipeline; Pipeline has both.                *)
(*                                                                         *)
(* Addresses, like pc, count words.  A branch's offset counts from the     *)
(* instruction after it, and no instruction writes a return address.  A    *)
(* floating-point operation gives 0 and a floating-point load is from the  *)
(* start of the stack: the setter of ALUfloatResult assigns it to itself.  *)
(***************************************************************************)
EXTENDS Instruction

CONSTANTS
    Reg,            \* the numbers of the registers
    ALU(_, _, _),   \* ALU::doTheThing: an instruction and two operands
    AsFloat(_),     \* a word that was converted to a float, and back
    X1, Memories,   \* what x1 and the memory hold before
    None            \* the word 0, that ends a program

VARIABLES
    program,        \* the instruction, or None, at every address
    pc,
    regs, fpRegs,
    stack           \* the memory from stackAddress on

Instr == [opcode : Opcode, funct3 : 0..7, rd : Reg, rs1 : Reg, rs2 : Reg, imm : Value]

vars == <<program, pc, regs, fpRegs, stack>>

Init ==
    /\ program \in [Value -> Instr \cup {None}]
    /\ pc = 0
    /\ regs = [r \in Reg |-> IF r = 1 THEN X1 ELSE 0]
    /\ fpRegs = [r \in Reg |-> 0]
    /\ stack \in Memories

After(a) == (a + 1) % Modulus

Result(i) ==
    IF i.opcode = "FP_TYPE" THEN 0
    ELSE ALU(i, IF ALUsrc1(i.opcode) THEN After(pc) ELSE regs[i.rs1],
                IF ALUsrc2(i.opcode) THEN i.imm ELSE regs[i.rs2])

NextPC(i) ==
    IF PCsel(i.opcode, ShouldTakeBranch(i.funct3, regs[i.rs1], regs[i.rs2]))
    THEN Result(i) ELSE After(pc)

\* The datum an instruction writes to its register.
Written(i) ==
    CASE i.opcode = "LOAD"    -> stack[Result(i)]
      [] i.opcode = "LOAD_FP" -> AsFloat(stack[0])
      [] OTHER                -> Result(i)

Step(i) ==
    /\ pc' = NextPC(i)
    /\ regs' = IF WBsel(i.opcode) \in {0, 1} /\ ~IsFloat(i.opcode)
               THEN [regs EXCEPT ![i.rd] = Written(i)] ELSE regs
    /\ fpRegs' = IF WBsel(i.opcode) \in {0, 1} /\ IsFloat(i.opcode)
                 THEN [fpRegs EXCEPT ![i.rd] = Written(i)] ELSE fpRegs
    /\ stack' = IF MemWrite(i.opcode)
                THEN [stack EXCEPT ![Result(i)] =
                         IF IsFloat(i.opcode) THEN fpRegs[i.rs2] ELSE regs[i.rs2]]
                ELSE stack
    /\ UNCHANGED program

Next == program[pc] # None /\ Step(program[pc])

Spec == Init /\ [][Next]_vars

=============================================================================
