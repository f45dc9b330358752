----------------------------- MODULE Lab3Decoder ------------------------------
(***************************************************************************)
(* The decoder of src/HW3/main.cpp: what decodeInstruction prints of a     *)
(* word.  It has the opcodes of HW4's decoder but FP_TYPE, and the same    *)
(* fields; a local variable it prints without having assigned it can have  *)
(* any value.                                                              *)
(***************************************************************************)
EXTENDS Decoder

Lab3OpcodeOf(w) == IF OpcodeOf(w) = "FP_TYPE" THEN "OTHER" ELSE OpcodeOf(w)

\* getImmediate.  (Mutation: bit 11 of a branch's offset is left out.)
Lab3ImmediateSBWithoutBit11(w) == Sra(w, 19) \cup (Srl(w, 7) \cap 1..4)
Lab3ImmediateSB(w) ==
    Sra(w, 19) \cup (Srl(w, 7) \cap 1..4) \cup (Shl(w, 4) \cap {11})

GetImmediate(w) ==
    LET opcode == Lab3OpcodeOf(w) IN
    CASE opcode \in {"LOAD", "LOAD_FP", "I_TYPE", "JALR"} -> Sra(w, 20)
      [] opcode \in {"S_TYPE", "S_TYPE_FP"} ->
             (Sra(w, 20) \cap 5..11) \cup (Srl(w, 7) \cap 0..4)
      [] opcode = "SB_TYPE" -> Lab3ImmediateSB(w)
      [] opcode \in {"AUIPC", "LUI"} -> w \cap 12..31
      [] opcode = "JAL" ->
             (Sra(w, 11) \cap 1..11) \cup (Srl(w, 20) \cap 1..10)
                 \cup (Srl(w, 9) \cap {12}) \cup (w \cap 12..19)
      [] OTHER -> {}

\* The control signals.
Lab3Signals ==
    [{"regWrite", "ALUsrc", "memWrite", "memRead", "memToReg", "branch", "jump",
      "PCtoReg", "RegToPC"} -> BOOLEAN]

Signals(on) == [s \in {"regWrite", "ALUsrc", "memWrite", "memRead", "memToReg",
                       "branch", "jump", "PCtoReg", "RegToPC"} |-> s \in on]

\* Those of an unknown word are printed uninitialized; RegToPC alone has an
\* initializer.
SignalsOf(w) ==
    LET opcode == Lab3OpcodeOf(w) IN
    CASE opcode \in {"LOAD", "LOAD_FP"} ->
             {Signals({"regWrite", "ALUsrc", "memRead", "memToReg"})}
      [] opcode \in {"I_TYPE", "AUIPC", "LUI"} -> {Signals({"regWrite", "ALUsrc"})}
      [] opcode \in {"S_TYPE", "S_TYPE_FP"} -> {Signals({"ALUsrc", "memWrite"})}
      [] opcode = "R_TYPE" -> {Signals({"regWrite"})}
      [] opcode = "SB_TYPE" -> {Signals({"branch"})}
      [] opcode = "JALR" -> {Signals({"regWrite", "ALUsrc", "jump", "PCtoReg", "RegToPC"})}
      [] opcode = "JAL" -> {Signals({"regWrite", "ALUsrc", "jump", "PCtoReg"})}
      [] OTHER -> {s \in Lab3Signals : ~s["RegToPC"]}

\* The mnemonics it may print: funct7 is not read for a word of I_TYPE.
Lab3Mnemonics(w) ==
    LET opcode == Lab3OpcodeOf(w)
        f3 == Funct3(w) + 1
    IN  CASE opcode = "LOAD" -> {LoadNames[f3]}
          [] opcode = "LOAD_FP" -> {IF f3 = 3 THEN "flw" ELSE ""}
          [] opcode = "I_TYPE" ->
                 IF f3 = 6 THEN {"srli", "srai"} ELSE {ImmediateNames[f3]}
          [] opcode = "AUIPC" -> {"auipc"}
          [] opcode = "S_TYPE" -> {StoreNames[f3]}
          [] opcode = "S_TYPE_FP" -> {IF f3 = 3 THEN "fsw" ELSE ""}
          [] opcode = "R_TYPE" -> {RegisterName(w)}
          [] opcode = "LUI" -> {"lui"}
          [] opcode = "SB_TYPE" -> {BranchNames[f3]}
          [] opcode = "JALR" -> {"jalr"}
          [] opcode = "JAL" -> {"jal"}
          [] OTHER -> {"Unknown instruction."}

Lab3Operands(w) ==
    LET opcode == Lab3OpcodeOf(w) IN
    CASE opcode = "LOAD" -> <<Rd(w), GetImmediate(w), Rs1(w)>>
      [] opcode = "LOAD_FP" /\ Funct3(w) = 2 -> <<Rd(w), GetImmediate(w), Rs1(w)>>
      [] opcode = "S_TYPE" -> <<Rs2(w), GetImmediate(w), Rs1(w)>>
      [] opcode = "S_TYPE_FP" /\ Funct3(w) = 2 -> <<Rs2(w), GetImmediate(w), Rs1(w)>>
      [] opcode \in {"I_TYPE", "JALR"} -> <<Rd(w), Rs1(w), GetImmediate(w)>>
      [] opcode \in {"AUIPC", "LUI", "JAL"} -> <<Rd(w), GetImmediate(w)>>
      [] opcode = "R_TYPE" -> <<Rd(w), Rs1(w), Rs2(w)>>
      [] opcode = "SB_TYPE" -> <<Rs1(w), Rs2(w), GetImmediate(w)>>
      [] OTHER -> << >>

=============================================================================
