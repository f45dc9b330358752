-------------------------- MODULE MCInstructionUnit ---------------------------
(***************************************************************************)
(* InstructionUnit on the words that tell the decoders' cases apart.       *)
(***************************************************************************)
EXTENDS InstructionUnit

At(low, bits) == {low + k : k \in bits}

\* Every opcode, an unknown one and that of a stall, with at most one other bit.
Opcodes == {OpcodeBits[o] : o \in DOMAIN OpcodeBits} \cup {{0, 1, 6}, 0..6}
SparseWords == Opcodes \cup {o \cup {k} : o \in Opcodes, k \in 7..31}

\* Every funct3 and the values of funct7 that matter, on the registers 1 and 2
\* or with the immediates 0, 1, 5, -8 and -1 in the bits the ALU looks at.
RegisterWords ==
    {OpcodeBits["R_TYPE"] \cup At(12, f3) \cup At(25, f7) \cup {15, 21} :
        f3 \in SUBSET (0..2), f7 \in {Zero, One, Alternate}}
ImmediateWords ==
    {OpcodeBits["I_TYPE"] \cup At(12, f3) \cup At(25, f7) \cup At(20, i) \cup {15} :
        f3 \in SUBSET (0..2), f7 \in {Zero, One, Alternate},
        i \in {{}, {0}, {0, 2}, {3}, 0..3}}
BranchWords ==
    {OpcodeBits["SB_TYPE"] \cup At(12, f3) \cup {15, 21, 31} : f3 \in SUBSET (0..2)}
\* Jumps and branches with the offsets whose bits the decoders copy elsewhere.
OffsetWords ==
    {OpcodeBits["JAL"] \cup at : at \in SUBSET {12, 20, 21, 22, 29, 30}} \cup
    {OpcodeBits["SB_TYPE"] \cup low \cup high :
        low \in SUBSET {7, 8, 20}, high \in {{}, {24}, {30}, 24..30, 25..30}}
MemoryWords ==
    {OpcodeBits[o] \cup At(12, f3) \cup {15, 21, 31} :
        o \in {"LOAD", "LOAD_FP", "S_TYPE", "S_TYPE_FP"}, f3 \in SUBSET (0..2)}
FloatWords ==
    {OpcodeBits["FP_TYPE"] \cup At(25, f7) \cup At(12, f3) \cup At(20, r) :
        f7 \in {{2}, {3}, {2, 3}, {4}, {2, 4}, {2, 3, 5}, {4, 6}, {5, 6}, {3, 5, 6},
                {4, 5, 6}, {3, 4, 5, 6}},
        f3 \in {{}, {0}, {1}}, r \in {{}, {0}}}

\* The words of assembly_code/lab2.txt: flw, fadd.s, fsw, addi, bne and the
\* addi x0, x0, 0 behind them.
ProgramWords ==
    { {0, 1, 2, 13, 15, 25}, {0, 1, 4, 6, 9, 21}, {0, 1, 2, 5, 14, 17, 20, 25},
      {0, 1, 4, 7, 15} \cup 23..31, {0, 1, 5, 6, 7, 9, 10, 12, 15, 21} \cup 25..31,
      {0, 1, 4} }

AllWords == SparseWords \cup RegisterWords \cup ImmediateWords \cup BranchWords
                \cup OffsetWords \cup MemoryWords \cup FloatWords \cup ProgramWords

=============================================================================
