------------------------------- MODULE Decoder --------------------------------
(***************************************************************************)
(* What src/HW4 makes of a 32-bit word: its fields and immediate (the      *)
(* constructor of Instruction), the operation of the ALU (setALUop), the   *)
(* signals Instruction.tla leaves out, and the assembly text               *)
(* (assembleString).                                                       *)
(***************************************************************************)
EXTENDS Instruction, Word, Sequences

-----------------------------------------------------------------------------
\* Instruction::Instruction.

OpcodeBits ==
    [LOAD |-> {0, 1},          LOAD_FP |-> {0, 1, 2},    I_TYPE |-> {0, 1, 4},
     AUIPC |-> {0, 1, 2, 4},   S_TYPE |-> {0, 1, 5},     S_TYPE_FP |-> {0, 1, 2, 5},
     R_TYPE |-> {0, 1, 4, 5},  LUI |-> {0, 1, 2, 4, 5},  SB_TYPE |-> {0, 1, 5, 6},
     JALR |-> {0, 1, 2, 5, 6}, JAL |-> {0, 1, 2, 3, 5, 6}, FP_TYPE |-> {0, 1, 4, 6}]

OpcodeOf(w) ==
    IF \E name \in DOMAIN OpcodeBits : w \cap 0..6 = OpcodeBits[name]
    THEN CHOOSE name \in DOMAIN OpcodeBits : w \cap 0..6 = OpcodeBits[name]
    ELSE "OTHER"

Rd(w) == Field(w, 7, 5)
Rs1(w) == Field(w, 15, 5)
Rs2(w) == Field(w, 20, 5)
Funct3(w) == Octal(Field(w, 12, 3))
Funct7(w) == Field(w, 25, 7)

\* The values of funct7 that the decoder tells apart, by their bits.
Zero == {}
One == {0}
Alternate == {5}            \* 0b0100000: sub, sra

-----------------------------------------------------------------------------
\* Instruction::setImmediate, by the format of the word.

ImmediateI(w) == Sra(w, 20)
\* (Mutation: the two parts of the immediate overlap.)
ImmediateSOverlapping(w) == (Sra(w, 20) \cap 0..11) \cup Field(w, 7, 5)
ImmediateS(w) == (Sra(w, 20) \cap 5..11) \cup Field(w, 7, 5)
ImmediateSB(w) ==
    LET bits == (Srl(w, 7) \cap 1..4) \cup Shl(Field(w, 25, 6), 5)
                    \cup Shl(Field(w, 7, 1), 11) \cup Shl(Srl(w, 31), 12)
    IN Sra(Shl(bits, 19), 19)
ImmediateU(w) == w \cap 12..31
ImmediateJ(w) ==
    (Sra(w, 11) \cap 1..11) \cup (Srl(w, 20) \cap 1..10)
        \cup (Srl(w, 9) \cap {12}) \cup (w \cap 12..19)

SetImmediate(w) ==
    LET opcode == OpcodeOf(w) IN
    CASE opcode \in {"LOAD", "LOAD_FP", "I_TYPE", "JALR"} -> ImmediateI(w)
      [] opcode \in {"S_TYPE", "S_TYPE_FP"} -> ImmediateS(w)
      [] opcode = "SB_TYPE" -> ImmediateSB(w)
      [] opcode \in {"AUIPC", "LUI"} -> ImmediateU(w)
      [] opcode = "JAL" -> ImmediateJ(w)
      [] OTHER -> {}

-----------------------------------------------------------------------------
\* setregWrite and setBranch.

RegWrite(opcode) == opcode \in Opcode \ {"S_TYPE", "S_TYPE_FP", "SB_TYPE", "OTHER"}
Branch(opcode) == opcode = "SB_TYPE"

\* The enumeration ALUop; UNKNOWN stands for the numbers it does not name.
IntegerOps == <<"ADD", "SLL", "SLT", "SLTU", "XOR", "SRL", "OR", "AND">>
MultiplyOps == <<"MUL", "MULH", "MULHSU", "MULHU", "DIV", "DIVU", "REM", "REMU">>
FloatOps == {"ADD_FP", "SUB_FP", "MUL_FP", "DIV_FP", "UNKNOWN"}
ALUop == {IntegerOps[i] : i \in 1..8} \cup {MultiplyOps[i] : i \in 1..8}
             \cup {"SUB", "SRA"} \cup FloatOps

\* The operation that funct7 and funct3 name; the others leave op, whatever was
\* in the variable.  (Mutation: the multiplications are not told apart.)
OperationByFunct7WithoutMultiply(w, op) ==
    IF Funct7(w) \in {Zero, One} THEN IntegerOps[Funct3(w) + 1] ELSE op
OperationByFunct7(w, op) ==
    CASE Funct7(w) = Zero -> IntegerOps[Funct3(w) + 1]
      [] Funct7(w) = One -> MultiplyOps[Funct3(w) + 1]
      [] OTHER -> op

\* Instruction::setALUop of an instruction whose ALUop is op.
SetALUop(w, op) ==
    LET opcode == OpcodeOf(w) IN
    CASE opcode = "R_TYPE" \/ (opcode = "I_TYPE" /\ Funct3(w) # 0) -> OperationByFunct7(w, op)
      [] opcode = "FP_TYPE" ->
             (CASE Funct7(w) = {2} -> "SUB_FP"
                [] Funct7(w) = {3} -> "MUL_FP"
                [] Funct7(w) = {2, 3} -> "DIV_FP"
                [] OTHER -> "ADD_FP")
      [] OTHER -> "ADD"

-----------------------------------------------------------------------------
\* Instruction::assembleString: the mnemonic, "" where it prints none.

LoadNames == <<"lb", "lh", "lw", "", "lbu", "lhu", "", "">>
StoreNames == <<"sb", "sh", "sw", "", "", "", "", "">>
BranchNames == <<"beq", "bne", "", "", "blt", "bge", "bltu", "bgeu">>
ImmediateNames == <<"addi", "slli", "slti", "sltui", "xori", "srli", "ori", "andi">>
IntegerNames == <<"add", "sll", "slt", "sltu", "xor", "srl", "or", "and">>
MultiplyNames == <<"mul", "mulh", "mulhsu", "mulhu", "div", "divu", "rem", "remu">>
AlternateNames == <<"sub", "", "", "", "", "sra", "", "">>

RegisterName(w) ==
    CASE Funct7(w) = Zero -> IntegerNames[Funct3(w) + 1]
      [] Funct7(w) = One -> MultiplyNames[Funct3(w) + 1]
      [] Funct7(w) = Alternate -> AlternateNames[Funct3(w) + 1]
      [] OTHER -> ""

\* The name an operation of FP_TYPE has by the bits of funct7 and by funct3,
\* or by rs2 where it converts.
FloatName(w) ==
    LET f3(names) == IF Funct3(w) + 1 \in DOMAIN names THEN names[Funct3(w) + 1] ELSE ""
        by2(zero, one) == CASE Rs2(w) = Zero -> zero [] Rs2(w) = One -> one [] OTHER -> ""
        f7 == Funct7(w)
    IN  CASE f7 = Zero -> "fadd.s"
          [] f7 = {2} -> "fsub.s"
          [] f7 = {3} -> "fmul.s"
          [] f7 = {2, 3} -> "fdiv.s"
          [] f7 = {4} -> f3(<<"fsgnj.s", "fsgnjn.s", "fsgnjx.s">>)
          [] f7 = {2, 4} -> f3(<<"fmin.s", "fmax.s">>)
          [] f7 = {2, 3, 5} -> "fsqrt.s"
          [] f7 = {4, 6} -> f3(<<"feq.s", "flt.s", "fle.s">>)
          [] f7 = {5, 6} -> by2("fcvt.w.s", "fcvt.wu.s")
          [] f7 = {3, 5, 6} -> by2("fcvt.s.w", "fcvt.s.wu")
          [] f7 = {4, 5, 6} -> f3(<<"fmv.x.w", "fclass.s">>)
          [] f7 = {3, 4, 5, 6} -> "fmv.w.x"
          [] OTHER -> ""

Mnemonic(w) ==
    LET opcode == OpcodeOf(w)
        f3 == Funct3(w) + 1
    IN  CASE opcode = "LOAD" -> LoadNames[f3]
          [] opcode = "LOAD_FP" -> IF f3 = 3 THEN "flw" ELSE ""
          [] opcode = "I_TYPE" ->
                 IF f3 = 6 /\ Funct7(w) # Zero THEN "srai" ELSE ImmediateNames[f3]
          [] opcode = "AUIPC" -> "auipc"
          [] opcode = "S_TYPE" -> StoreNames[f3]
          [] opcode = "S_TYPE_FP" -> IF f3 = 5 THEN "fsw" ELSE ""
          [] opcode = "R_TYPE" -> RegisterName(w)
          [] opcode = "LUI" -> "lui"
          [] opcode = "SB_TYPE" -> BranchNames[f3]
          [] opcode = "JALR" -> "jalr"
          [] opcode = "JAL" -> "jal"
          [] opcode = "FP_TYPE" -> FloatName(w)
          [] opcode = "OTHER" /\ w \cap 0..6 = 0..6 -> "Branch/Jump Stall"
          [] OTHER -> "Invalid Op."

StoreOperands(w) == <<Rs1(w), SetImmediate(w), Rs2(w)>>

\* The operands it prints, in their order; those of a memory access are the
\* register loaded or stored, the offset, and the base in parentheses.
Operands(w) ==
    LET opcode == OpcodeOf(w) IN
    CASE opcode = "LOAD" -> <<Rd(w), SetImmediate(w), Rs1(w)>>
      [] opcode = "LOAD_FP" /\ Mnemonic(w) # "" -> <<Rd(w), SetImmediate(w), Rs1(w)>>
      [] opcode = "S_TYPE" -> StoreOperands(w)
      [] opcode = "S_TYPE_FP" /\ Mnemonic(w) # "" -> StoreOperands(w)
      [] opcode \in {"I_TYPE", "JALR"} -> <<Rd(w), Rs1(w), SetImmediate(w)>>
      [] opcode \in {"AUIPC", "LUI", "JAL"} -> <<Rd(w), SetImmediate(w)>>
      [] opcode = "R_TYPE" -> <<Rd(w), Rs1(w), Rs2(w)>>
      [] opcode = "SB_TYPE" -> <<Rs1(w), Rs2(w), SetImmediate(w)>>
      [] opcode = "FP_TYPE" ->
             IF Funct7(w) \in {{2, 3, 5}, {5, 6}, {4, 5, 6}, {3, 5, 6}, {3, 4, 5, 6}}
             THEN <<Rd(w), Rs1(w)>> ELSE <<Rd(w), Rs1(w), Rs2(w)>>
      [] OTHER -> << >>

=============================================================================
