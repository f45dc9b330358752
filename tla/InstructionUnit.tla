--------------------------- MODULE InstructionUnit ----------------------------
(***************************************************************************)
(* The life of an Instruction of src/HW4 up to its result: it is built     *)
(* from the word fetched, its signals are set (CPU::Decode), and it is     *)
(* executed on the values its registers have by then (CPU::Execute).  No   *)
(* two instructions share any of this state, so one is enough.  What the   *)
(* decoder of src/HW3 says of the same word is compared with it.           *)
(*                                                                         *)
(* Registers have Width bits, and an immediate is cut to them as it is     *)
(* used; the word and its immediate have their 32 bits.                    *)
(***************************************************************************)
EXTENDS ALU, Lab3Decoder, FiniteSets

CONSTANTS
    Words,      \* the words in memory
    Held,       \* the values of registers
    PCs         \* the values of the pc when a word is executed

ASSUME UnitAssumption ==
    Words \subseteq SUBSET Bit /\ Held \subseteq Value /\ PCs \subseteq Value

VARIABLES
    word, opcode, imm,  \* those fields of Instruction
    op,                 \* Instruction::ALUop, anything until it is assigned
    rs1, rs2,           \* the registers Execute reads, 0 before
    pc,                 \* CPU::pc when it executes, 0 before
    jumps,              \* Instruction::PCsel
    result,             \* Instruction::ALUresult
    stage

fields == <<word, opcode, imm>>
reads == <<rs1, rs2, pc>>
vars == <<fields, op, reads, jumps, result, stage>>

TypeOK ==
    /\ word \in Words /\ opcode \in Opcode /\ imm \subseteq Bit
    /\ op \in ALUop
    /\ rs1 \in Value /\ rs2 \in Value /\ pc \in Value /\ result \in Value
    /\ jumps \in BOOLEAN
    /\ stage \in {"fetched", "decoded", "executed", "crashed"}

\* CPU::Fetch: the constructor, with ALUresult 0.
Init ==
    /\ word \in Words /\ opcode = OpcodeOf(word) /\ imm = SetImmediate(word)
    /\ op \in ALUop
    /\ rs1 = 0 /\ rs2 = 0 /\ pc = 0 /\ jumps = FALSE /\ result = 0
    /\ stage = "fetched"

\* CPU::Decode: a branch is assumed taken.
Decode ==
    /\ stage = "fetched"
    /\ op' = SetALUop(word, op)
    /\ jumps' = PCsel(opcode, TRUE)
    /\ stage' = "decoded"
    /\ UNCHANGED <<fields, reads, result>>

\* The ALU's operands, after the checks of ALUsrc1 and ALUsrc2.
ImmediateOperand == NumberOf(imm \cap 0..Width - 1)
First(a, p) == IF ALUsrc1(opcode) THEN p ELSE a
Second(b) == IF ALUsrc2(opcode) THEN ImmediateOperand ELSE b

\* Execute's reads: its two registers may be one.
Reads(a, b, p) ==
    /\ stage = "decoded"
    /\ Rs1(word) = Rs2(word) => a = b
    /\ rs1' = a /\ rs2' = b /\ pc' = p

\* CPU::Execute.  The result of a floating-point operation is not kept.
Execute ==
    /\ \E a, b \in Held, p \in PCs :
         /\ Reads(a, b, p) /\ ~Traps(op, First(a, p), Second(b))
         /\ jumps' = PCsel(opcode, Branch(opcode) /\ ShouldTakeBranch(Funct3(word), a, b))
         /\ result' = IF op \in FloatOps THEN result
                      ELSE DoTheThing(op, First(a, p), Second(b))
    /\ stage' = "executed"
    /\ UNCHANGED <<fields, op>>

\* Its division traps, with PCsel set, and ends the simulator.
Crash ==
    /\ \E a, b \in Held, p \in PCs :
         /\ Reads(a, b, p) /\ Traps(op, First(a, p), Second(b))
         /\ jumps' = PCsel(opcode, FALSE)
    /\ stage' = "crashed"
    /\ UNCHANGED <<fields, op, result>>

Next == Decode \/ Execute \/ Crash

Spec == Init /\ [][Next]_vars

-----------------------------------------------------------------------------
(***************************************************************************)
(* The immediates.                                                         *)
(***************************************************************************)

\* Where a word of this opcode holds bit k of its immediate in the RISC-V
\* formats I, S, SB, U and J; -1 for a bit that is always 0.
Position(code, k) ==
    CASE code \in {"LOAD", "LOAD_FP", "I_TYPE", "JALR"} -> IF k < 11 THEN k + 20 ELSE 31
      [] code \in {"S_TYPE", "S_TYPE_FP"} ->
             IF k < 5 THEN k + 7 ELSE IF k < 11 THEN k + 20 ELSE 31
      [] code = "SB_TYPE" ->
             IF k = 0 THEN -1 ELSE IF k < 5 THEN k + 7 ELSE IF k < 11 THEN k + 20
             ELSE IF k = 11 THEN 7 ELSE 31
      [] code \in {"AUIPC", "LUI"} -> IF k < 12 THEN -1 ELSE k
      [] code = "JAL" ->
             IF k = 0 THEN -1 ELSE IF k < 11 THEN k + 20 ELSE IF k = 11 THEN 20
             ELSE IF k < 20 THEN k ELSE 31
      [] OTHER -> -1

EncodedImmediate(w) == {k \in Bit : Position(OpcodeOf(w), k) \in w}

\* The offsets of a jump that the shifts of setImmediate leave as they are: not
\* negative, and with no bit that is copied to a place where there is none.  A
\* multiple of 8 below 2048 is one of them.
SurvivesShifts(offset) ==
    /\ 20 \notin offset
    /\ \A k \in 1..8 : k + 11 \in offset => k \in offset
    /\ 11 \in offset => 9 \in offset
    /\ 1 \in offset => 10 \in offset /\ 12 \in offset
    /\ 2 \in offset <=> 11 \in offset

\* setImmediate gives the immediate that the word encodes, in every format but
\* two: the offset of a store is right only if it is not negative, that of a
\* jump (JAL) only if it survives the shifts.
ImmediatesAreEncoded ==
    stage = "decoded" =>
        (imm = EncodedImmediate(word) <=>
           /\ opcode \in {"S_TYPE", "S_TYPE_FP"} => 31 \notin word
           /\ opcode = "JAL" => SurvivesShifts(EncodedImmediate(word)))

-----------------------------------------------------------------------------
(***************************************************************************)
(* The operation.                                                          *)
(***************************************************************************)

\* What an integer instruction of that name computes in RISC-V from its first
\* operand x and its second y, the address of a memory access or of a jump
\* included.
Meaning(name, x, y) ==
    CASE name \in {"sub"} -> Unsigned(x - y)
      [] name \in {"and", "andi"} -> NumberOf(BitsOf(x) \cap BitsOf(y))
      [] name \in {"or", "ori"} -> NumberOf(BitsOf(x) \cup BitsOf(y))
      [] name \in {"xor", "xori"} ->
             NumberOf({k \in 0..Width - 1 : (k \in BitsOf(x)) # (k \in BitsOf(y))})
      [] name \in {"sll", "slli"} -> Unsigned(x * 2^Count(y))
      [] name \in {"srl", "srli"} -> x \div 2^Count(y)
      [] name \in {"sra", "srai"} -> Unsigned(Signed(x) \div 2^Count(y))
      [] name \in {"slt", "slti"} -> IF Signed(x) < Signed(y) THEN 1 ELSE 0
      [] name \in {"sltu", "sltui"} -> IF x < y THEN 1 ELSE 0
      [] name = "mul" -> Unsigned(Signed(x) * Signed(y))
      [] name = "mulh" -> Unsigned((Signed(x) * Signed(y)) \div Modulus)
      [] name = "mulhsu" -> Unsigned((Signed(x) * y) \div Modulus)
      [] name = "mulhu" -> (x * y) \div Modulus
      [] name = "div" -> IF y = 0 THEN Modulus - 1 ELSE Unsigned(Quotient(Signed(x), Signed(y)))
      [] name = "divu" -> IF y = 0 THEN Modulus - 1 ELSE x \div y
      [] name = "rem" -> IF y = 0 THEN x ELSE Unsigned(Remainder(Signed(x), Signed(y)))
      [] name = "remu" -> IF y = 0 THEN x ELSE x % y
      [] name = "lui" -> y
      [] name = "jalr" -> 2 * (Unsigned(x + y) \div 2)
      [] OTHER -> Unsigned(x + y)

TakesRegisters(name) ==
    \E names \in {IntegerNames, MultiplyNames, AlternateNames} :
        \E i \in DOMAIN names : name = names[i]
TakesPC(name) == \/ name \in {"auipc", "jal"}
                 \/ \E i \in DOMAIN BranchNames : name = BranchNames[i]

NamedFirst(name) == IF TakesPC(name) THEN pc ELSE rs1
NamedSecond(name) == IF TakesRegisters(name) THEN rs2 ELSE ImmediateOperand

\* The operands on which the CPU's result is another one: the logical shift
\* right is arithmetic, the upper halves of unsigned products are wrong or 0,
\* a division by 0 gives 0, lui adds the register that bits 15 to 19 of its
\* immediate name, and jalr keeps an odd target.
Differs(name, x, y) ==
    \/ name \in {"srl", "srli"} /\ Signed(x) < 0 /\ Count(y) # 0
    \/ name = "mulhu" /\ x * y >= Modulus
    \/ name = "mulhsu" /\ Signed(y) < 0 /\ x # 0
    \/ name \in {"div", "divu"} /\ y = 0
    \/ name \in {"rem", "remu"} /\ y = 0 /\ x # 0
    \/ name = "lui" /\ x # 0
    \/ name = "jalr" /\ (x + y) % 2 = 1

\* Of the words of I_TYPE but addi, setALUop reads part of the immediate as
\* funct7: one from 32 to 63 makes a multiplication or a division of the word,
\* another one but 0 to 31 leaves the operation unassigned.  So are those of sub
\* and sra.
FromImmediate == opcode = "I_TYPE" /\ Mnemonic(word) # "addi"
TakenForMultiplication == FromImmediate /\ imm \ (0..4) = {5}
OperationIsLeft ==
    \/ Mnemonic(word) \in {"sub", "sra"}
    \/ FromImmediate /\ imm \cap 6..31 # {}

\* The instruction that the ALU performs for a word whose operation is assigned.
PerformedAs ==
    IF TakenForMultiplication THEN MultiplyNames[Funct3(word) + 1] ELSE Mnemonic(word)

Named == Mnemonic(word) \notin {"", "Invalid Op.", "Branch/Jump Stall"}

FloatMeaning == [n \in {"fadd.s", "fsub.s", "fmul.s", "fdiv.s"} |->
    CASE n = "fadd.s" -> "ADD_FP" [] n = "fsub.s" -> "SUB_FP"
      [] n = "fmul.s" -> "MUL_FP" [] n = "fdiv.s" -> "DIV_FP"]

\* Whether a branch of that name is taken, none for a word without a name.
Condition(name) ==
    \/ name = "beq" /\ rs1 = rs2
    \/ name = "bne" /\ rs1 # rs2
    \/ name = "blt" /\ Signed(rs1) < Signed(rs2)
    \/ name = "bge" /\ Signed(rs2) <= Signed(rs1)
    \/ name = "bltu" /\ rs1 < rs2
    \/ name = "bgeu" /\ rs2 <= rs1

\* A word whose operation is assigned computes, of the operands its text names,
\* what the instruction it is printed as computes, or for an immediate from 32 to
\* 63 the multiplication or division of its funct3, on all operands but those of
\* Differs, and on those it never does.  It changes the pc if it is a jump, or a
\* branch whose condition holds.  Every floating-point operation but the four the
\* ALU has is performed as an addition.
ComputesWhatItIsNamed ==
    LET name == Mnemonic(word)
        x == NamedFirst(name)
        y == NamedSecond(name)
    IN  /\ stage = "executed" /\ opcode # "FP_TYPE" /\ Named /\ ~OperationIsLeft =>
             (result = Meaning(PerformedAs, x, y) <=> ~Differs(PerformedAs, x, y))
        /\ stage = "executed" => (jumps <=> name \in {"jal", "jalr"} \/ Condition(name))
        /\ stage = "executed" /\ opcode = "FP_TYPE" =>
             op = IF name \in DOMAIN FloatMeaning THEN FloatMeaning[name] ELSE "ADD_FP"

\* The simulator is killed by the division of the least number by -1 only, and by
\* every one that is performed as div or rem; a word whose operation is not
\* assigned may be such a division.
OnlyDivisionsCrash ==
    LET overflows == 2 * rs1 = Modulus /\ Signed(NamedSecond(Mnemonic(word))) = -1
    IN  /\ stage = "crashed" => overflows
        /\ stage \in {"executed", "crashed"} /\ Named /\ ~OperationIsLeft =>
             (stage = "crashed" <=> PerformedAs \in {"div", "rem"} /\ overflows)

\* The operations of the ALU fit together, and with those of BranchCtl, on any
\* two registers: the halves of a product, the quotient and the remainder, the
\* sum and its carries, and the comparisons that the branches repeat.
OperationsFitTogether ==
    LET r(operation) == DoTheThing(operation, rs1, rs2)
        taken(f3) == ShouldTakeBranch(f3, rs1, rs2)
    IN  stage = "executed" =>
          /\ Signed(rs1) * Signed(rs2) = Signed(r("MULH")) * Modulus + r("MUL")
          /\ rs2 # 0 => /\ r("DIVU") * rs2 + r("REMU") = rs1
                        /\ r("REMU") < rs2
          /\ rs2 # 0 /\ ~Traps("DIV", rs1, rs2) =>
                /\ Signed(r("DIV")) * Signed(rs2) + Signed(r("REM")) = Signed(rs1)
                /\ Magnitude(Signed(r("REM"))) < Magnitude(Signed(rs2))
          /\ r("ADD") = Unsigned(r("XOR") + 2 * r("AND"))
          /\ r("OR") = r("XOR") + r("AND")
          /\ taken(4) <=> r("SLT") = 1
          /\ taken(6) <=> r("SLTU") = 1
          /\ taken(0) <=> r("SUB") = 0
          /\ \A f3 \in {0, 4, 6} : taken(f3) = ~taken(f3 + 1)

-----------------------------------------------------------------------------
(***************************************************************************)
(* The two decoders.                                                       *)
(***************************************************************************)

\* The branches whose offset HW3's getImmediate gets right: no bit of rs1, rs2
\* or of the offset itself ends up in a place where there is none.
OffsetIsClean(w) ==
    /\ 19 \notin w
    /\ \A k \in 1..4 : k + 19 \in w => k + 7 \in w
    /\ 24..30 \subseteq w \/ w \cap 24..30 = {}
    /\ 30 \in w => 7 \in w

\* The decoders of HW3 and HW4 say the same of a word that both know, except:
\* the offset of a branch that is not clean; HW3 may print srli for srai and
\* back, prints a store's datum and base in the other order, knows fsw by another
\* funct3, and does not set ALUsrc for a branch.
DecodersAgree ==
    stage = "decoded" /\ opcode \notin {"FP_TYPE", "OTHER"} =>
        /\ GetImmediate(word) = imm <=> (opcode = "SB_TYPE" => OffsetIsClean(word))
        /\ Mnemonic(word) \in Lab3Mnemonics(word)
             <=> (opcode = "S_TYPE_FP" => Funct3(word) \notin {2, 4})
        /\ Cardinality(Lab3Mnemonics(word)) > 1 <=> opcode = "I_TYPE" /\ Funct3(word) = 5
        /\ opcode \notin {"S_TYPE", "S_TYPE_FP", "SB_TYPE"} =>
              Lab3Operands(word) = Operands(word)
        /\ opcode = "S_TYPE" =>
              Lab3Operands(word) = <<Operands(word)[3], Operands(word)[2], Operands(word)[1]>>
        /\ opcode = "S_TYPE_FP" =>
              (Lab3Operands(word) = Operands(word) <=> Funct3(word) \notin {2, 4})
        /\ opcode = "SB_TYPE" =>
              Lab3Operands(word) =
                  <<Operands(word)[1], Operands(word)[2], GetImmediate(word)>>
        /\ \A s \in SignalsOf(word) :
              /\ s["regWrite"] = RegWrite(opcode)
              /\ s["memWrite"] = MemWrite(opcode)
              /\ s["memRead"] = MemRead(opcode)
              /\ s["memToReg"] = (WBsel(opcode) = 0)
              /\ s["branch"] = Branch(opcode)
              /\ s["jump"] = PCsel(opcode, FALSE)
              /\ s["ALUsrc"] = (ALUsrc2(opcode) /\ opcode # "SB_TYPE")

=============================================================================
