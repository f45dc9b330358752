----------------------------- MODULE Instruction -----------------------------
(***************************************************************************)
(* What src/HW4 decodes from an instruction (instruction.h, instruction.cpp*)
(* and branchCtl.h): its control signals, its ALU operation, and whether a *)
(* branch is taken.                                                        *)
(*                                                                         *)
(* An opcode is its name in instruction.h; OTHER stands for the words that *)
(* have none of them, the default of every switch.                         *)
(***************************************************************************)
EXTENDS Integers

CONSTANT Modulus    \* 2^32: a register holds a number below it

ASSUME ModulusAssumption == Modulus \in Nat \ {0}

Value == 0..Modulus - 1

\* The number a register holds when the code reads it as an int32_t.
Signed(x) == IF 2 * x < Modulus THEN x ELSE x - Modulus

Opcode == {"LOAD", "LOAD_FP", "I_TYPE", "AUIPC", "S_TYPE", "S_TYPE_FP", "R_TYPE",
           "LUI", "SB_TYPE", "JALR", "JAL", "FP_TYPE", "OTHER"}

-----------------------------------------------------------------------------
\* Control signals (setALUsrc1 to setWBsel).

ALUsrc1(opcode) == opcode \in {"AUIPC", "SB_TYPE", "JAL"}
ALUsrc2(opcode) == opcode \in Opcode \ {"R_TYPE", "FP_TYPE", "OTHER"}
MemWrite(opcode) == opcode \in {"S_TYPE", "S_TYPE_FP"}
\* (Mutation: the integer load is left to the default.)
MemReadFloatOnly(opcode) == opcode = "LOAD_FP"
MemRead(opcode) == opcode \in {"LOAD", "LOAD_FP"}
PCsel(opcode, takeBranch) ==
    opcode \in {"JALR", "JAL"} \/ (opcode = "SB_TYPE" /\ takeBranch)
IsFloat(opcode) == opcode \in {"LOAD_FP", "S_TYPE_FP", "FP_TYPE"}

\* setWBsel: what is written back, the loaded datum or the ALU's result.  A
\* jump's 2 and the default's 3 write nothing.
WBsel(opcode) ==
    CASE opcode \in {"LOAD", "LOAD_FP"} -> 0
      [] opcode \in {"I_TYPE", "AUIPC", "R_TYPE", "LUI", "FP_TYPE"} -> 1
      [] opcode \in {"JALR", "JAL"} -> 2
      [] OTHER -> 3

-----------------------------------------------------------------------------
\* BranchCtl::shouldTakeBranch.
ShouldTakeBranch(funct3, x, y) ==
    CASE funct3 = 0 -> x = y
      [] funct3 = 1 -> x # y
      [] funct3 = 4 -> Signed(x) < Signed(y)
      [] funct3 = 5 -> Signed(x) >= Signed(y)
      [] funct3 = 6 -> x < y
      [] funct3 = 7 -> x >= y
      [] OTHER -> FALSE

=============================================================================
