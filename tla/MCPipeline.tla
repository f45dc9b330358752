------------------------------ MODULE MCPipeline ------------------------------
(***************************************************************************)
(* Pipeline on the program of src/HW4/assembly_code/instructions.txt, and  *)
(* on all the programs of three instructions from a small set.             *)
(***************************************************************************)
EXTENDS Pipeline

\* The programs checked compute addresses, counters and nothing else.
Sum(i, x, y) == (x + y) % Modulus

\* A float that holds even numbers only, and a memory without two equal words.
Rounded(x) == 2 * (x \div 2)
Filled == {[a \in Value |-> After(a)]}

\* The fields that are parts of an immediate hold register numbers as well.
I(opcode, funct3, rd, rs1, rs2, imm) ==
    [opcode |-> opcode, funct3 |-> funct3, rd |-> rd, rs1 |-> rs1, rs2 |-> rs2, imm |-> imm]

Nop == I("I_TYPE", 0, 0, 0, 0, 0)

Instructions ==
    { I("I_TYPE", 0, 1, 1, 0, 1),  I("I_TYPE", 0, 2, 0, 0, 1),
      I("R_TYPE", 0, 1, 1, 2, 0),  Nop,
      I("LOAD", 2, 1, 2, 0, 0),    I("S_TYPE", 2, 0, 2, 1, 0),
      I("SB_TYPE", 1, 0, 1, 2, 1), I("SB_TYPE", 4, 0, 1, 2, Modulus - 2),
      I("JAL", 0, 0, 0, 0, 1),     I("JALR", 0, 0, 1, 0, 2),
      I("LOAD_FP", 2, 1, 2, 0, 0), I("FP_TYPE", 0, 2, 1, 0, 0),
      I("S_TYPE_FP", 4, 0, 1, 2, 0), I("AUIPC", 0, 2, 0, 0, 1) }

Program(s) == [a \in Value |-> IF a + 1 \in DOMAIN s THEN s[a + 1] ELSE None]
Programs == {Program(s) : s \in [1..3 -> Instructions]}

\* flw, fadd.s, fsw, addi, bne and four nops; numbers count words, not bytes.
LabProgram == Program(
    << I("LOAD_FP", 2, 0, 1, 0, 8), I("FP_TYPE", 1, 4, 0, 2, 0),
       I("S_TYPE_FP", 4, 0, 4, 1, 8), I("I_TYPE", 0, 1, 1, 24, Modulus - 2),
       I("SB_TYPE", 1, 13, 1, 2, Modulus - 5), Nop, Nop, Nop, Nop >>)

AllRuns == (Programs \cup {LabProgram}) \X BOOLEAN
SafeRuns == {run \in AllRuns : Safe(run)}

=============================================================================
