------------------------ MODULE InstructionUnit_proofs ------------------------
(***************************************************************************)
(* What the decoders of src/HW3 and src/HW4 say of every 32-bit word, and  *)
(* what the ALU of src/HW4 computes from all registers.                    *)
(***************************************************************************)
EXTENDS InstructionUnit, FiniteSetTheorems, FunctionTheorems, WellFoundedInduction, TLAPS

\* The formats of the words that have an immediate.
FormatI == {"LOAD", "LOAD_FP", "I_TYPE", "JALR"}
FormatS == {"S_TYPE", "S_TYPE_FP"}
FormatU == {"AUIPC", "LUI"}

LEMMA OpcodeOfType ==
    ASSUME NEW w PROVE OpcodeOf(w) \in Opcode
BY DEF OpcodeOf, OpcodeBits, Opcode

-----------------------------------------------------------------------------
\* The immediates.

LEMMA ImmediateIIsEncoded ==
    ASSUME NEW w \in SUBSET Bit, OpcodeOf(w) \in FormatI
    PROVE  SetImmediate(w) = EncodedImmediate(w)
<1>1. SetImmediate(w) = ImmediateI(w)
  BY DEF SetImmediate, FormatI
<1>2. \A k \in Bit : Position(OpcodeOf(w), k) = IF k < 11 THEN k + 20 ELSE 31
  BY DEF Position, FormatI
<1>3. \A k \in Bit : k \in ImmediateI(w) <=> Position(OpcodeOf(w), k) \in w
  BY <1>2 DEF ImmediateI, Sra, Bit
<1> QED BY <1>1, <1>3 DEF EncodedImmediate, ImmediateI, Sra

LEMMA ImmediateSIsEncoded ==
    ASSUME NEW w \in SUBSET Bit, OpcodeOf(w) \in FormatS
    PROVE  SetImmediate(w) = EncodedImmediate(w) <=> 31 \notin w
<1>1. SetImmediate(w) = ImmediateS(w)
  BY DEF SetImmediate, FormatS
<1>2. \A k \in Bit : Position(OpcodeOf(w), k) =
                        IF k < 5 THEN k + 7 ELSE IF k < 11 THEN k + 20 ELSE 31
  BY DEF Position, FormatS
<1>3. \A k \in 0..11 : k \in ImmediateS(w) <=> Position(OpcodeOf(w), k) \in w
  BY <1>2 DEF ImmediateS, Sra, Field, Bit
<1>4. \A k \in 12..31 : k \notin ImmediateS(w) /\ Position(OpcodeOf(w), k) = 31
  BY <1>2 DEF ImmediateS, Sra, Field, Bit
<1>5. 31 \in w => 12 \in EncodedImmediate(w) /\ 12 \notin ImmediateS(w)
  BY <1>4 DEF EncodedImmediate, Bit
<1>6. 31 \notin w => ImmediateS(w) = EncodedImmediate(w)
  <2>1. \A k \in Bit : k \in 0..11 \/ k \in 12..31
    BY DEF Bit
  <2>2. ImmediateS(w) \subseteq Bit
    BY DEF ImmediateS, Sra, Field, Bit
  <2> QED BY <1>3, <1>4, <2>1, <2>2 DEF EncodedImmediate
<1> QED BY <1>1, <1>5, <1>6

LEMMA ImmediateSBIsEncoded ==
    ASSUME NEW w \in SUBSET Bit, OpcodeOf(w) = "SB_TYPE"
    PROVE  SetImmediate(w) = EncodedImmediate(w)
<1>1. SetImmediate(w) = ImmediateSB(w)
  BY DEF SetImmediate
<1>2. \A k \in Bit : Position(OpcodeOf(w), k) =
        IF k = 0 THEN -1 ELSE IF k < 5 THEN k + 7 ELSE IF k < 11 THEN k + 20
        ELSE IF k = 11 THEN 7 ELSE 31
  BY DEF Position
<1> DEFINE bits == (Srl(w, 7) \cap 1..4) \cup Shl(Field(w, 25, 6), 5)
                      \cup Shl(Field(w, 7, 1), 11) \cup Shl(Srl(w, 31), 12)
<1>3. \A k \in 0..12 : k \in bits <=> Position(OpcodeOf(w), k) \in w
  BY <1>2 DEF Srl, Shl, Field, Bit
<1>4. \A k \in Bit : k > 12 => Position(OpcodeOf(w), k) = Position(OpcodeOf(w), 12)
  BY <1>2 DEF Bit
<1>5. \A k \in Bit : k \in ImmediateSB(w) <=> (IF k <= 12 THEN k \in bits ELSE 12 \in bits)
  BY DEF ImmediateSB, Sra, Shl, Bit
<1>6. \A k \in Bit : k \in ImmediateSB(w) <=> Position(OpcodeOf(w), k) \in w
  <2> HIDE DEF bits
  <2> QED BY <1>3, <1>4, <1>5 DEF Bit
<1>7. ImmediateSB(w) \subseteq Bit
  BY DEF ImmediateSB, Sra
<1> QED BY <1>1, <1>6, <1>7 DEF EncodedImmediate

LEMMA ImmediateUIsEncoded ==
    ASSUME NEW w \in SUBSET Bit, OpcodeOf(w) \in FormatU
    PROVE  SetImmediate(w) = EncodedImmediate(w)
<1>1. SetImmediate(w) = ImmediateU(w)
  BY DEF SetImmediate, FormatU
<1>2. \A k \in Bit : Position(OpcodeOf(w), k) = IF k < 12 THEN -1 ELSE k
  BY DEF Position, FormatU
<1> QED BY <1>1, <1>2 DEF EncodedImmediate, ImmediateU, Bit

LEMMA ImmediateJIsEncoded ==
    ASSUME NEW w \in SUBSET Bit, OpcodeOf(w) = "JAL"
    PROVE  SetImmediate(w) = EncodedImmediate(w) <=> SurvivesShifts(EncodedImmediate(w))
<1> DEFINE e == EncodedImmediate(w)
<1>1. SetImmediate(w) = ImmediateJ(w)
  BY DEF SetImmediate
<1>2. \A k \in Bit : Position(OpcodeOf(w), k) =
        IF k = 0 THEN -1 ELSE IF k < 11 THEN k + 20 ELSE IF k = 11 THEN 20
        ELSE IF k < 20 THEN k ELSE 31
  BY DEF Position
<1>3. \A k \in Bit : k \in e <=>
        \/ k \in 1..10 /\ k + 20 \in w
        \/ k = 11 /\ 20 \in w
        \/ k \in 12..19 /\ k \in w
        \/ k \in 20..31 /\ 31 \in w
  BY <1>2 DEF EncodedImmediate, Bit
<1>4. \A k \in Bit : k \in ImmediateJ(w) <=>
        \/ k \in 1..10 /\ (k + 20 \in w \/ k + 11 \in w)
        \/ k = 11 /\ 22 \in w
        \/ k = 12 /\ (12 \in w \/ 21 \in w)
        \/ k \in 13..19 /\ k \in w
  BY DEF ImmediateJ, Srl, Sra, Bit
<1>5. e \subseteq Bit /\ ImmediateJ(w) \subseteq Bit
  BY DEF EncodedImmediate, ImmediateJ, Srl, Sra, Bit
<1> HIDE DEF e
<1>6. ASSUME ImmediateJ(w) = e PROVE SurvivesShifts(e)
  <2>1. 20 \notin e /\ (2 \in e <=> 11 \in e)
    BY <1>3, <1>4, <1>6 DEF Bit
  <2>2. \A k \in 1..8 : k + 11 \in e => k \in e
    BY <1>3, <1>4, <1>6 DEF Bit
  <2>3. (11 \in e => 9 \in e) /\ (1 \in e => 10 \in e /\ 12 \in e)
    BY <1>3, <1>4, <1>6 DEF Bit
  <2> QED BY <2>1, <2>2, <2>3 DEF SurvivesShifts
<1>7. ASSUME SurvivesShifts(e) PROVE ImmediateJ(w) = e
  <2>1. /\ 31 \notin w /\ (22 \in w <=> 20 \in w)
        /\ 20 \in w => 29 \in w
        /\ 21 \in w => 30 \in w /\ 12 \in w
    BY <1>3, <1>7 DEF SurvivesShifts, Bit
  <2>2. \A k \in 1..8 : k + 11 \in w => k + 20 \in w
    BY <1>3, <1>7 DEF SurvivesShifts, Bit
  <2>3. \A k \in 1..10 : k + 11 \in w => k + 20 \in w
    BY <2>1, <2>2
  <2>4. \A k \in Bit : k \in ImmediateJ(w) <=> k \in e
    BY <1>3, <1>4, <2>1, <2>3 DEF Bit
  <2> QED BY <1>5, <2>4
<1> QED BY <1>1, <1>6, <1>7 DEF e

\* The words without an immediate decode none.
LEMMA NoImmediateIsEncoded ==
    ASSUME NEW w \in SUBSET Bit, OpcodeOf(w) \in {"R_TYPE", "FP_TYPE", "OTHER"}
    PROVE  SetImmediate(w) = EncodedImmediate(w)
<1>1. SetImmediate(w) = {}
  BY DEF SetImmediate
<1>2. \A k \in Bit : Position(OpcodeOf(w), k) = -1
  BY DEF Position
<1> QED BY <1>1, <1>2 DEF EncodedImmediate, Bit

-----------------------------------------------------------------------------
\* The operation.

LEMMA OctalRange ==
    ASSUME NEW bits PROVE Octal(bits) \in 0..7
BY DEF Octal

LEMMA Funct3Range ==
    ASSUME NEW w PROVE Funct3(w) \in 0..7
BY OctalRange DEF Funct3

LEMMA Funct7Distinct == Zero # One /\ Alternate \notin {Zero, One}
BY DEF Zero, One, Alternate

\* Setting the operation again does not change it.
LEMMA SetALUopIdempotent ==
    ASSUME NEW w, NEW op0
    PROVE  SetALUop(w, SetALUop(w, op0)) = SetALUop(w, op0)
<1>1. OperationByFunct7(w, OperationByFunct7(w, op0)) = OperationByFunct7(w, op0)
  BY DEF OperationByFunct7
<1>2. CASE OpcodeOf(w) = "R_TYPE" \/ (OpcodeOf(w) = "I_TYPE" /\ Funct3(w) # 0)
  <2>1. \A o : SetALUop(w, o) = OperationByFunct7(w, o)
    BY <1>2 DEF SetALUop
  <2> QED BY <1>1, <2>1
<1>3. CASE ~(OpcodeOf(w) = "R_TYPE" \/ (OpcodeOf(w) = "I_TYPE" /\ Funct3(w) # 0))
  BY <1>3 DEF SetALUop
<1> QED BY <1>2, <1>3

\* Only words of R_TYPE and I_TYPE have an operation that divides.
LEMMA OtherWordsDoNotDivide ==
    ASSUME NEW w, NEW op0, SetALUop(w, op0) \in {"DIV", "REM"}
    PROVE  /\ \/ OpcodeOf(w) = "R_TYPE"
              \/ OpcodeOf(w) = "I_TYPE" /\ Funct3(w) # 0
           /\ SetALUop(w, op0) = OperationByFunct7(w, op0)
<1>1. CASE OpcodeOf(w) = "R_TYPE" \/ (OpcodeOf(w) = "I_TYPE" /\ Funct3(w) # 0)
  BY <1>1 DEF SetALUop
<1>2. CASE ~(OpcodeOf(w) = "R_TYPE" \/ (OpcodeOf(w) = "I_TYPE" /\ Funct3(w) # 0))
  <2>1. SetALUop(w, op0) \in {"SUB_FP", "MUL_FP", "DIV_FP", "ADD_FP", "ADD"}
    BY <1>2 DEF SetALUop
  <2> QED BY <2>1
<1> QED BY <1>1, <1>2

-----------------------------------------------------------------------------
\* Powers of 2, and the bits of a number.

\* A set of naturals that holds 0, and n + 1 whenever it holds n, is all of them.
LEMMA HoldsAllNaturals ==
    ASSUME NEW S, 0 \in S, \A n \in Nat : n \in S => n + 1 \in S
    PROVE  Nat \subseteq S
<1> SUFFICES ASSUME Nat \ S # {} PROVE FALSE
  OBVIOUS
<1>1. PICK n \in Nat \ S : \A k \in Nat \ S : <<k, n>> \notin OpToRel(<, Nat)
  <2>1. Nat \ S \subseteq Nat
    OBVIOUS
  <2> QED BY <2>1, WFMin, NatLessThanWellFounded, Zenon
<1>2. \A k \in Nat \ S : ~(k < n)
  BY <1>1, Zenon DEF OpToRel
<1>3. n # 0
  OBVIOUS
<1>4. n - 1 \in Nat /\ n - 1 \in S
  BY <1>2, <1>3
<1>5. (n - 1) + 1 \in S
  BY <1>4
<1> QED BY <1>5

LEMMA PowerIsSize ==
    ASSUME NEW n \in Nat
    PROVE  IsFiniteSet(SUBSET (1..n)) /\ Cardinality(SUBSET (1..n)) = 2^n
<1>1. IsFiniteSet(1..n) /\ Cardinality(1..n) = n
  BY FS_Interval
<1> QED BY <1>1, FS_SUBSET

LEMMA PowerType == \A n \in Nat : 2^n \in Nat \ {0}
<1> SUFFICES ASSUME NEW n \in Nat PROVE 2^n \in Nat \ {0}
  OBVIOUS
<1>1. IsFiniteSet(SUBSET (1..n)) /\ Cardinality(SUBSET (1..n)) = 2^n
  BY PowerIsSize
<1>2. SUBSET (1..n) # {}
  OBVIOUS
<1> QED BY <1>1, <1>2, FS_CardinalityType, FS_EmptySet

LEMMA PowerOfNext == \A n \in Nat : 2^(n + 1) = 2 * 2^n
<1> SUFFICES ASSUME NEW n \in Nat PROVE 2^(n + 1) = 2 * 2^n
  OBVIOUS
<1> DEFINE A == SUBSET (1..n)
           B == {s \in SUBSET (1..n + 1) : n + 1 \in s}
           f == [s \in A |-> s \cup {n + 1}]
<1>1. f \in Bijection(A, B)
  <2>1. f \in [A -> B]
    OBVIOUS
  <2>2. \A s, t \in A : f[s] = f[t] => s = t
    OBVIOUS
  <2>3. ASSUME NEW t \in B PROVE \E s \in A : f[s] = t
    <3>1. t \ {n + 1} \in A /\ f[t \ {n + 1}] = t
      OBVIOUS
    <3> QED BY <3>1
  <2> HIDE DEF A, B, f
  <2> QED BY <2>1, <2>2, <2>3, Fun_IsBij
<1>2. IsFiniteSet(A) /\ Cardinality(A) = 2^n
  BY PowerIsSize
<1>3. IsFiniteSet(B) /\ Cardinality(B) = 2^n
  BY <1>1, <1>2, FS_Bijection DEF ExistsBijection
<1>4. SUBSET (1..n + 1) = A \cup B /\ A \cap B = {}
  OBVIOUS
<1>5. Cardinality(A \cap B) = 0
  BY <1>4, FS_EmptySet
<1>6. Cardinality(A \cup B) = Cardinality(A) + Cardinality(B) - Cardinality(A \cap B)
  BY <1>2, <1>3, FS_Union
<1>7. Cardinality(SUBSET (1..n + 1)) = 2^(n + 1)
  BY PowerIsSize
<1> HIDE DEF A, B
<1>8. 2^(n + 1) = 2^n + 2^n - 0
  BY <1>2, <1>3, <1>4, <1>5, <1>6, <1>7
<1> QED BY <1>8, PowerType

\* A power of 2 is a multiple of a smaller one.
LEMMA PowerOfSum == \A m, n \in Nat : 2^(m + n) = 2^m * 2^n
<1> SUFFICES ASSUME NEW m \in Nat
             PROVE  \A n \in Nat : 2^(m + n) = 2^m * 2^n
  OBVIOUS
<1> DEFINE S == {n \in Nat : 2^(m + n) = 2^m * 2^n}
<1>1. 0 \in S
  <2>1. 2^0 = 1 /\ m + 0 = m /\ 2^m \in Nat
    BY PowerType
  <2> QED BY <2>1
<1>2. ASSUME NEW n \in Nat, n \in S PROVE n + 1 \in S
  <2>1. 2^(m + n) = 2^m * 2^n
    BY <1>2
  <2>2. 2^(m + (n + 1)) = 2 * 2^(m + n)
    <3>1. m + (n + 1) = (m + n) + 1
      OBVIOUS
    <3> QED BY <3>1, PowerOfNext
  <2>3. 2^(n + 1) = 2 * 2^n /\ 2^m \in Nat /\ 2^n \in Nat
    BY PowerOfNext, PowerType
  <2>4. 2 * (2^m * 2^n) = 2^m * (2 * 2^n)
    BY <2>3
  <2> QED BY <2>1, <2>2, <2>3, <2>4
<1>3. Nat \subseteq S
  <2> HIDE DEF S
  <2> QED BY <1>1, <1>2, HoldsAllNaturals
<1> QED BY <1>3

\* Bit k of a number, 0 or 1.
BitAt(x, k) == (x \div 2^k) % 2

\* The number below 2^(k + 1) is the one below 2^k and bit k.
LEMMA LowBits ==
    ASSUME NEW x \in Nat, NEW k \in Nat
    PROVE  /\ BitAt(x, k) \in {0, 1}
           /\ (x % 2^(k + 1)) = (x % 2^k) + 2^k * BitAt(x, k)
<1> DEFINE p == 2^k  q == x \div p  r == (x % p)  h == q \div 2  b == q % 2
<1>1. p \in Nat \ {0} /\ 2^(k + 1) = 2 * p
  BY PowerType, PowerOfNext
<1> HIDE DEF p
<1>2. x = p * q + r /\ q \in Nat /\ r \in 0..p - 1
  BY <1>1
<1> HIDE DEF q, r
<1>3. q = 2 * h + b /\ h \in Nat /\ b \in 0..1
  BY <1>2
<1> HIDE DEF h, b
<1>4. p * b \in {0, p}
  BY <1>1, <1>3
<1>5. x = (2 * p) * h + (p * b + r)
  BY <1>1, <1>2, <1>3
<1>6. p * b + r \in 0..(2 * p) - 1
  BY <1>1, <1>2, <1>3, <1>4
<1>7. (x % (2 * p)) = p * b + r
  BY <1>1, <1>3, <1>5, <1>6
<1>8. BitAt(x, k) = b
  BY DEF BitAt, b, q, p
<1>9. (x % (2 * p)) = (x % p) + p * BitAt(x, k)
  BY <1>1, <1>2, <1>3, <1>7, <1>8 DEF r
<1>10. (x % 2^(k + 1)) = (x % 2^k) + 2^k * BitAt(x, k)
  BY <1>1, <1>9 DEF p
<1> QED BY <1>3, <1>8, <1>10

LEMMA ValueHasWidth ==
    ASSUME NEW x \in Value PROVE x \in Nat /\ (x % 2^Width) = x
BY WidthAssumption, PowerType DEF Value

LEMMA BitOfNumber ==
    ASSUME NEW x \in Value, NEW k \in 0..Width - 1
    PROVE  BitAt(x, k) = IF k \in BitsOf(x) THEN 1 ELSE 0
<1>1. k \in BitsOf(x) <=> BitAt(x, k) = 1
  BY DEF BitsOf, BitAt
<1>2. BitAt(x, k) \in {0, 1}
  <2>1. x \in Nat /\ k \in Nat
    BY ValueHasWidth, WidthAssumption
  <2> QED BY <2>1, LowBits
<1> QED BY <1>1, <1>2

\* Registers with the same bits are the same.
LEMMA BitsDetermineNumber ==
    ASSUME NEW x \in Value, NEW y \in Value, BitsOf(x) = BitsOf(y)
    PROVE  x = y
<1> DEFINE S == {k \in Nat : k <= Width => (x % 2^k) = (y % 2^k)}
<1>1. 0 \in S
  <2>1. 2^0 = 1
    OBVIOUS
  <2> QED BY <2>1, ValueHasWidth
<1>2. ASSUME NEW k \in Nat, k \in S PROVE k + 1 \in S
  <2> SUFFICES ASSUME k + 1 <= Width PROVE (x % 2^(k + 1)) = (y % 2^(k + 1))
    OBVIOUS
  <2>1. (x % 2^k) = (y % 2^k) /\ k \in 0..Width - 1
    BY <1>2, WidthAssumption
  <2>2. BitAt(x, k) = BitAt(y, k)
    BY <2>1, BitOfNumber
  <2> QED BY <2>1, <2>2, LowBits, ValueHasWidth
<1>3. Nat \subseteq S
  <2> HIDE DEF S
  <2> QED BY <1>1, <1>2, HoldsAllNaturals
<1>4. (x % 2^Width) = (y % 2^Width)
  BY <1>3, WidthAssumption
<1> QED BY <1>4, ValueHasWidth

\* Every set of bits is that of a register, because there are as many.
LEMMA NumberHasBits ==
    ASSUME NEW bits \in SUBSET (0..Width - 1)
    PROVE  NumberOf(bits) \in Value /\ BitsOf(NumberOf(bits)) = bits
<1> DEFINE Sets == SUBSET (0..Width - 1)
           f == [x \in Value |-> BitsOf(x)]
<1>1. f \in Injection(Value, Sets)
  <2>1. f \in [Value -> Sets]
    BY DEF BitsOf
  <2>2. \A x, y \in Value : f[x] = f[y] => x = y
    BY BitsDetermineNumber
  <2> QED BY <2>1, <2>2, Fun_IsInj
<1>2. IsFiniteSet(Sets) /\ Cardinality(Sets) = Modulus
  <2>1. IsFiniteSet(0..Width - 1) /\ Cardinality(0..Width - 1) = Width
    BY WidthAssumption, FS_Interval
  <2> QED BY <2>1, FS_SUBSET, WidthAssumption
<1>3. Cardinality(Value) = Modulus
  BY WidthAssumption, PowerType, FS_Interval DEF Value
<1>4. f \in Surjection(Value, Sets)
  <2> HIDE DEF f, Sets
  <2> QED BY <1>1, <1>2, <1>3, FS_Injection
<1>5. PICK x \in Value : f[x] = bits
  <2>1. bits \in Sets
    OBVIOUS
  <2> HIDE DEF f, Sets
  <2> QED BY <1>4, <2>1, Fun_SurjectionProperties
<1> QED BY <1>5 DEF NumberOf

\* What the sum of two registers is in terms of their bits.
LEMMA BitwiseSums ==
    ASSUME NEW x \in Value, NEW y \in Value, NEW a, NEW o, NEW e,
           a = NumberOf(BitsOf(x) \cap BitsOf(y)),
           o = NumberOf(BitsOf(x) \cup BitsOf(y)),
           e = NumberOf((BitsOf(x) \cup BitsOf(y)) \ (BitsOf(x) \cap BitsOf(y)))
    PROVE  o = e + a /\ x + y = e + 2 * a
<1>1. BitsOf(x) \subseteq 0..Width - 1 /\ BitsOf(y) \subseteq 0..Width - 1
  BY DEF BitsOf
<1>2. /\ a \in Value /\ BitsOf(a) = BitsOf(x) \cap BitsOf(y)
      /\ o \in Value /\ BitsOf(o) = BitsOf(x) \cup BitsOf(y)
      /\ e \in Value
      /\ BitsOf(e) = (BitsOf(x) \cup BitsOf(y)) \ (BitsOf(x) \cap BitsOf(y))
  BY <1>1, NumberHasBits
<1> DEFINE S == {k \in Nat : k <= Width =>
                   /\ (o % 2^k) = (e % 2^k) + (a % 2^k)
                   /\ (x % 2^k) + (y % 2^k) = (e % 2^k) + 2 * (a % 2^k)}
<1>3. 0 \in S
  <2>1. \A n \in Value : (n % 2^0) = 0
    BY ValueHasWidth
  <2> QED BY <1>2, <2>1
<1>4. ASSUME NEW k \in Nat, k \in S PROVE k + 1 \in S
  <2> SUFFICES ASSUME k + 1 <= Width
               PROVE  /\ (o % 2^(k + 1)) = (e % 2^(k + 1)) + (a % 2^(k + 1))
                      /\ (x % 2^(k + 1)) + (y % 2^(k + 1))
                            = (e % 2^(k + 1)) + 2 * (a % 2^(k + 1))
    OBVIOUS
  <2>1. /\ (o % 2^k) = (e % 2^k) + (a % 2^k)
        /\ (x % 2^k) + (y % 2^k) = (e % 2^k) + 2 * (a % 2^k)
        /\ k \in 0..Width - 1
    BY <1>4, WidthAssumption
  <2>2. /\ BitAt(o, k) = BitAt(e, k) + BitAt(a, k)
        /\ BitAt(x, k) + BitAt(y, k) = BitAt(e, k) + 2 * BitAt(a, k)
    <3>1. \A n \in Value : BitAt(n, k) = IF k \in BitsOf(n) THEN 1 ELSE 0
      BY <2>1, BitOfNumber
    <3>2. /\ k \in BitsOf(a) <=> k \in BitsOf(x) /\ k \in BitsOf(y)
          /\ k \in BitsOf(o) <=> k \in BitsOf(x) \/ k \in BitsOf(y)
          /\ k \in BitsOf(e) <=> ~(k \in BitsOf(x) <=> k \in BitsOf(y))
      BY <1>2
    <3> QED BY <1>2, <3>1, <3>2
  <2>3. \A n \in Value : /\ (n % 2^(k + 1)) = (n % 2^k) + 2^k * BitAt(n, k)
                         /\ BitAt(n, k) \in {0, 1}
                         /\ (n % 2^k) \in Int
    BY LowBits, ValueHasWidth, PowerType
  <2>4. 2^k \in Int
    BY PowerType
  <2>5. (o % 2^(k + 1)) = (e % 2^(k + 1)) + (a % 2^(k + 1))
    BY <1>2, <2>1, <2>2, <2>3, <2>4
  <2>6. (x % 2^(k + 1)) + (y % 2^(k + 1)) = (e % 2^(k + 1)) + 2 * (a % 2^(k + 1))
    BY <1>2, <2>1, <2>2, <2>3, <2>4
  <2> QED BY <2>5, <2>6
<1>5. Nat \subseteq S
  <2> HIDE DEF S
  <2> QED BY <1>3, <1>4, HoldsAllNaturals
<1>6. Width \in S
  BY <1>5, WidthAssumption
<1> QED BY <1>2, <1>6, ValueHasWidth, WidthAssumption

-----------------------------------------------------------------------------
\* The types.

\* Modulus is even.
LEMMA ModulusType == Modulus \in Nat \ {0} /\ \E h \in Nat : Modulus = 2 * h
<1>1. Width - 1 \in Nat /\ Modulus = 2^((Width - 1) + 1)
  BY WidthAssumption
<1>2. Modulus = 2 * 2^(Width - 1) /\ 2^(Width - 1) \in Nat \ {0}
  BY <1>1, PowerOfNext, PowerType
<1> QED BY <1>2

LEMMA ValueType == ASSUME NEW x \in Value PROVE x \in Nat /\ x < Modulus
BY ModulusType DEF Value

LEMMA UnsignedType ==
    ASSUME NEW n \in Int
    PROVE  Unsigned(n) \in Value /\ Unsigned(n) \in Nat
BY ModulusType DEF Unsigned, Value

LEMMA SignedType ==
    ASSUME NEW x \in Value
    PROVE  /\ Signed(x) \in Int
           /\ -Modulus <= 2 * Signed(x) /\ 2 * Signed(x) < Modulus
BY ModulusType DEF Signed, Value

LEMMA CountType ==
    ASSUME NEW y \in Value
    PROVE  Count(y) \in 0..Width - 1 /\ 2^Count(y) \in Nat \ {0}
<1>1. Count(y) \in 0..Width - 1
  BY WidthAssumption, ValueType DEF Count
<1> QED BY <1>1, PowerType, WidthAssumption

\* C++'s division: the quotient rounds towards 0.
LEMMA QuotientType ==
    ASSUME NEW n \in Int, NEW d \in Int, d # 0
    PROVE  /\ Quotient(n, d) \in Int /\ Remainder(n, d) \in Int
           /\ n = Quotient(n, d) * d + Remainder(n, d)
           /\ Magnitude(Remainder(n, d)) < Magnitude(d)
<1> DEFINE m == Magnitude(n)  e == Magnitude(d)  q == m \div e  r == m % e
<1>1. m \in Nat /\ e \in Nat \ {0}
  BY DEF Magnitude
<1> HIDE DEF m, e
<1>2. m = e * q + r /\ q \in Nat /\ r \in 0..e - 1
  BY <1>1
<1> HIDE DEF q, r
<1>3. Quotient(n, d) = IF (n < 0) = (d < 0) THEN q ELSE -q
  BY DEF Quotient, q, m, e
<1>4. Quotient(n, d) * d = IF n < 0 THEN -(e * q) ELSE e * q
  BY <1>1, <1>2, <1>3 DEF Magnitude, e
<1>5. Remainder(n, d) = n - d * Quotient(n, d)
  BY DEF Remainder
<1>6. Quotient(n, d) \in Int
  BY <1>2, <1>3
<1>7. Remainder(n, d) = n - Quotient(n, d) * d
  BY <1>5, <1>6
<1>8. e * q \in Int /\ m = IF n < 0 THEN -n ELSE n
  BY <1>1, <1>2 DEF m, Magnitude
<1>9. Remainder(n, d) = IF n < 0 THEN -r ELSE r
  BY <1>2, <1>4, <1>7, <1>8
<1>10. Magnitude(Remainder(n, d)) = r
  BY <1>2, <1>9 DEF Magnitude
<1>11. Quotient(n, d) * d \in Int
  BY <1>6
<1>12. Remainder(n, d) \in Int /\ n = Quotient(n, d) * d + Remainder(n, d)
  BY <1>7, <1>11
<1>13. Magnitude(Remainder(n, d)) < Magnitude(d)
  BY <1>1, <1>2, <1>10 DEF e
<1> QED BY <1>6, <1>12, <1>13

LEMMA HighProductType ==
    ASSUME NEW x \in Value, NEW y \in Value
    PROVE  HighProduct(x, y) \in Int
BY SignedType, ModulusType DEF HighProduct

\* The ALU returns a word.
LEMMA DoTheThingType ==
    ASSUME NEW o \in ALUop \ FloatOps, NEW x \in Value, NEW y \in Value
    PROVE  DoTheThing(o, x, y) \in Value
<1>1. x \in Nat /\ y \in Nat /\ Signed(x) \in Int /\ Signed(y) \in Int
  BY ValueType, SignedType
<1>2. {0, 1} \subseteq Value
  BY ModulusType DEF Value
<1>3. CASE o \in {"ADD", "SUB", "MUL"}
  BY <1>1, <1>3, UnsignedType DEF DoTheThing
<1>4. CASE o \in {"AND", "OR", "XOR"}
  <2>1. BitsOf(x) \subseteq 0..Width - 1 /\ BitsOf(y) \subseteq 0..Width - 1
    BY DEF BitsOf
  <2> QED BY <1>4, <2>1, NumberHasBits DEF DoTheThing
<1>5. CASE o \in {"SLL", "SRL", "SRA"}
  BY <1>1, <1>5, UnsignedType, CountType DEF DoTheThing
<1>6. CASE o \in {"SLT", "SLTU", "MULHU"}
  BY <1>2, <1>6 DEF DoTheThing
<1>7. CASE o \in {"MULH", "MULHSU"}
  BY <1>7, HighProductType, UnsignedType DEF DoTheThing
<1>8. CASE o \in {"DIV", "DIVU", "REM", "REMU"} /\ y = 0
  BY <1>2, <1>8 DEF DoTheThing
<1>9. CASE o \in {"DIV", "REM"} /\ y # 0
  <2>1. Signed(y) # 0
    BY <1>1, <1>9, ValueType, ModulusType DEF Signed
  <2> QED BY <1>1, <1>9, <2>1, QuotientType, UnsignedType DEF DoTheThing
<1>10. CASE o \in {"DIVU", "REMU"} /\ y # 0
  <2>1. x \div y \in Value /\ x % y \in Value
    BY <1>1, <1>10, ModulusType DEF Value
  <2> QED BY <1>10, <2>1 DEF DoTheThing
<1>11. o \in {"ADD", "SLL", "SLT", "SLTU", "XOR", "SRL", "OR", "AND", "MUL", "MULH",
              "MULHSU", "MULHU", "DIV", "DIVU", "REM", "REMU", "SUB", "SRA"}
  <2>1. \A i \in 1..8 : i = 1 \/ i = 2 \/ i = 3 \/ i = 4 \/ i = 5 \/ i = 6 \/ i = 7 \/ i = 8
    OBVIOUS
  <2> QED BY <2>1 DEF ALUop, IntegerOps, MultiplyOps
<1> QED BY <1>3, <1>4, <1>5, <1>6, <1>7, <1>8, <1>9, <1>10, <1>11

LEMMA SetALUopType ==
    ASSUME NEW w, NEW o \in ALUop PROVE SetALUop(w, o) \in ALUop
<1>1. Funct3(w) + 1 \in 1..8
  BY DEF Funct3, Octal
<1>2. OperationByFunct7(w, o) \in ALUop
  BY <1>1 DEF OperationByFunct7, ALUop
<1>3. {"ADD", "SUB_FP", "MUL_FP", "DIV_FP", "ADD_FP"} \subseteq ALUop
  BY DEF ALUop, IntegerOps, FloatOps
<1> QED BY <1>2, <1>3 DEF SetALUop

LEMMA SetImmediateType ==
    ASSUME NEW w \in SUBSET Bit PROVE SetImmediate(w) \subseteq Bit
<1>1. ImmediateI(w) \subseteq Bit /\ ImmediateS(w) \subseteq Bit
      /\ ImmediateSB(w) \subseteq Bit /\ ImmediateU(w) \subseteq Bit
      /\ ImmediateJ(w) \subseteq Bit
  BY DEF ImmediateI, ImmediateS, ImmediateSB, ImmediateU, ImmediateJ, Sra, Srl, Field, Bit
<1> QED BY <1>1 DEF SetImmediate

LEMMA TypeOKInit == Init => TypeOK
<1> SUFFICES ASSUME Init PROVE TypeOK
  OBVIOUS
<1>1. word \in Words /\ word \in SUBSET Bit
  BY UnitAssumption DEF Init
<1>2. opcode \in Opcode
  BY OpcodeOfType DEF Init
<1>3. imm \subseteq Bit
  BY <1>1, SetImmediateType DEF Init
<1>4. 0 \in Value
  BY ModulusType DEF Value
<1> QED BY <1>1, <1>2, <1>3, <1>4 DEF Init, TypeOK

\* The operands of the ALU are words.
LEMMA OperandsType ==
    ASSUME TypeOK, NEW a \in Held, NEW b \in Held, NEW p \in PCs
    PROVE  /\ a \in Value /\ b \in Value /\ p \in Value
           /\ First(a, p) \in Value /\ Second(b) \in Value
<1>1. a \in Value /\ b \in Value /\ p \in Value
  BY UnitAssumption
<1>2. ImmediateOperand \in Value
  <2>1. imm \cap 0..Width - 1 \in SUBSET (0..Width - 1)
    OBVIOUS
  <2> QED BY <2>1, NumberHasBits DEF ImmediateOperand
<1> QED BY <1>1, <1>2 DEF First, Second

LEMMA TypeOKNext == TypeOK /\ [Next]_vars => TypeOK'
<1> SUFFICES ASSUME TypeOK, [Next]_vars PROVE TypeOK'
  OBVIOUS
<1>1. CASE Decode
  <2>1. op' \in ALUop
    BY <1>1, SetALUopType DEF Decode, TypeOK
  <2>2. jumps' \in BOOLEAN
    BY <1>1 DEF Decode, PCsel
  <2> QED BY <1>1, <2>1, <2>2 DEF Decode, TypeOK, fields, reads
<1>2. CASE Execute
  <2>1. PICK a \in Held, b \in Held, p \in PCs :
          /\ Reads(a, b, p)
          /\ jumps' = PCsel(opcode, Branch(opcode) /\ ShouldTakeBranch(Funct3(word), a, b))
          /\ result' = IF op \in FloatOps THEN result
                       ELSE DoTheThing(op, First(a, p), Second(b))
    BY <1>2 DEF Execute
  <2>2. rs1' \in Value /\ rs2' \in Value /\ pc' \in Value
    BY <2>1, OperandsType DEF Reads
  <2>3. result' \in Value
    BY <2>1, OperandsType, DoTheThingType DEF TypeOK
  <2>4. jumps' \in BOOLEAN
    BY <2>1 DEF PCsel
  <2> QED BY <1>2, <2>2, <2>3, <2>4 DEF Execute, TypeOK, fields
<1>3. CASE Crash
  <2>1. PICK a \in Held, b \in Held, p \in PCs :
          Reads(a, b, p) /\ jumps' = PCsel(opcode, FALSE)
    BY <1>3 DEF Crash
  <2>2. rs1' \in Value /\ rs2' \in Value /\ pc' \in Value
    BY <2>1, OperandsType DEF Reads
  <2>3. jumps' \in BOOLEAN
    BY <2>1 DEF PCsel
  <2> QED BY <1>3, <2>2, <2>3 DEF Crash, TypeOK, fields
<1>4. CASE UNCHANGED vars
  BY <1>4 DEF TypeOK, vars, fields, reads
<1> QED BY <1>1, <1>2, <1>3, <1>4 DEF Next

\* The fields of an instruction have their types, for every word and all register
\* contents: in particular the ALU returns a word.
THEOREM SpecTypeOK == Spec => []TypeOK
BY TypeOKInit, TypeOKNext, PTL DEF Spec

-----------------------------------------------------------------------------
\* The invariant.

\* The fields are those of the word, the operation is the one setALUop assigns
\* to the word, an instruction that crashed was a trapping division, and one that
\* is executed was not and has the jump and the result of its operands.
IInv ==
    /\ word \in SUBSET Bit
    /\ opcode = OpcodeOf(word) /\ imm = SetImmediate(word)
    /\ stage # "fetched" => op = SetALUop(word, op)
    /\ stage = "crashed" => Traps(op, First(rs1, pc), Second(rs2))
    /\ stage = "executed" =>
         /\ jumps <=> PCsel(opcode, Branch(opcode) /\ ShouldTakeBranch(Funct3(word), rs1, rs2))
         /\ op \notin FloatOps => result = DoTheThing(op, First(rs1, pc), Second(rs2))
         /\ ~Traps(op, First(rs1, pc), Second(rs2))

LEMMA IInvInit == Init => IInv
BY UnitAssumption DEF Init, IInv

LEMMA IInvNext == IInv /\ [Next]_vars => IInv'
<1> SUFFICES ASSUME IInv, [Next]_vars PROVE IInv'
  OBVIOUS
<1>1. CASE Decode
  <2>1. op' = SetALUop(word, op')
    BY <1>1, SetALUopIdempotent DEF Decode
  <2> QED BY <1>1, <2>1 DEF Decode, IInv, fields
<1>2. CASE Execute
  <2>1. PICK a \in Held, b \in Held, p \in PCs :
          /\ Reads(a, b, p) /\ ~Traps(op, First(a, p), Second(b))
          /\ jumps' = PCsel(opcode, Branch(opcode) /\ ShouldTakeBranch(Funct3(word), a, b))
          /\ result' = IF op \in FloatOps THEN result
                       ELSE DoTheThing(op, First(a, p), Second(b))
    BY <1>2 DEF Execute
  <2>2. First(rs1, pc)' = First(a, p) /\ Second(rs2)' = Second(b)
    BY <1>2, <2>1 DEF Execute, Reads, First, Second, ImmediateOperand, fields
  <2>3. UNCHANGED <<word, opcode, imm, op>> /\ rs1' = a /\ rs2' = b /\ stage' = "executed"
    BY <1>2, <2>1 DEF Execute, Reads, fields
  <2>4. (jumps <=> PCsel(opcode, Branch(opcode) /\ ShouldTakeBranch(Funct3(word), rs1, rs2)))'
    BY <2>1, <2>3
  <2>5. (op \notin FloatOps => result = DoTheThing(op, First(rs1, pc), Second(rs2)))'
    BY <2>1, <2>2, <2>3
  <2>6. (op = SetALUop(word, op))'
    BY <2>3, <1>2 DEF Execute, Reads, IInv
  <2>7. (~Traps(op, First(rs1, pc), Second(rs2)))'
    BY <2>1, <2>2, <2>3 DEF Traps
  <2> QED BY <2>3, <2>4, <2>5, <2>6, <2>7 DEF IInv
<1>3. CASE Crash
  <2>1. PICK a \in Held, b \in Held, p \in PCs :
          Reads(a, b, p) /\ Traps(op, First(a, p), Second(b))
    BY <1>3 DEF Crash
  <2>2. First(rs1, pc)' = First(a, p) /\ Second(rs2)' = Second(b)
    BY <1>3, <2>1 DEF Crash, Reads, First, Second, ImmediateOperand, fields
  <2>3. Traps(op, First(rs1, pc), Second(rs2))'
    BY <1>3, <2>1, <2>2 DEF Crash, Traps
  <2> QED BY <1>3, <2>1, <2>3 DEF Crash, Reads, IInv, fields
<1>4. CASE UNCHANGED vars
  BY <1>4 DEF IInv, vars, fields, reads, First, Second, ImmediateOperand, Traps
<1> QED BY <1>1, <1>2, <1>3, <1>4 DEF Next

LEMMA IInvHolds == Spec => []IInv
BY IInvInit, IInvNext, PTL DEF Spec

-----------------------------------------------------------------------------
\* How the operations of the ALU fit together.

\* A number is not changed by a trip through a register that has room for it.
LEMMA SignedOfUnsigned ==
    ASSUME NEW n \in Int, -Modulus <= 2 * n, 2 * n < Modulus
    PROVE  Signed(Unsigned(n)) = n
<1>1. PICK h \in Nat : Modulus = 2 * h
  BY ModulusType
<1>2. Unsigned(n) = IF n < 0 THEN n + Modulus ELSE n
  BY ModulusType DEF Unsigned
<1> QED BY <1>1, <1>2, ModulusType DEF Signed

\* Multiples of the modulus do not show in a register.
LEMMA UnsignedOfMultiple ==
    ASSUME NEW n \in Int, NEW k \in Int
    PROVE  Unsigned(n + k * Modulus) = Unsigned(n)
<1> DEFINE q == n \div Modulus  r == n % Modulus
<1>1. n = Modulus * q + r /\ q \in Int /\ r \in 0..Modulus - 1
  BY ModulusType
<1> HIDE DEF q, r
<1>2. n + k * Modulus = Modulus * (q + k) + r
  BY <1>1, ModulusType
<1>3. (n + k * Modulus) % Modulus = r
  BY <1>1, <1>2, ModulusType
<1> QED BY <1>3 DEF Unsigned, r

LEMMA UnsignedOfValue ==
    ASSUME NEW x \in Value PROVE Unsigned(x) = x /\ Unsigned(Signed(x)) = x
BY ModulusType DEF Unsigned, Signed, Value

\* The low half of a product is that of the signed product too.
LEMMA ProductOfSigned ==
    ASSUME NEW x \in Value, NEW y \in Value
    PROVE  /\ Unsigned(x * y) = Unsigned(Signed(x) * Signed(y))
           /\ Unsigned(x * y) = Unsigned(Signed(x) * y)
<1> DEFINE s == Signed(x)  t == Signed(y)
<1>1. s \in Int /\ t \in Int /\ x \in Int /\ y \in Int /\ Modulus \in Int
  BY SignedType, ValueType, ModulusType
<1>2. PICK i \in {0, 1} : x = s + i * Modulus
  BY <1>1 DEF Signed
<1>3. PICK j \in {0, 1} : y = t + j * Modulus
  BY <1>1 DEF Signed
<1> HIDE DEF s, t
<1>4. x * y = s * y + (i * y) * Modulus
  BY <1>1, <1>2
<1>5. s * y = s * t + (s * j) * Modulus
  BY <1>1, <1>3
<1>6. s * y \in Int /\ i * y \in Int /\ s * t \in Int /\ s * j \in Int
  BY <1>1
<1>7. Unsigned(x * y) = Unsigned(s * y)
  BY <1>4, <1>6, UnsignedOfMultiple
<1>8. Unsigned(s * y) = Unsigned(s * t)
  BY <1>5, <1>6, UnsignedOfMultiple
<1> QED BY <1>7, <1>8 DEF s, t

\* The upper half of a signed product has room in a register.
LEMMA HighProductFits ==
    ASSUME NEW x \in Value, NEW y \in Value
    PROVE  /\ HighProduct(x, y) \in Int
           /\ -Modulus <= 2 * HighProduct(x, y) /\ 2 * HighProduct(x, y) < Modulus
           /\ Signed(x) * Signed(y)
                = HighProduct(x, y) * Modulus + Unsigned(Signed(x) * Signed(y))
<1> DEFINE s == Signed(x)  t == Signed(y)  n == s * t
           q == n \div Modulus  r == n % Modulus
<1>1. /\ s \in Int /\ -Modulus <= 2 * s /\ 2 * s < Modulus
      /\ t \in Int /\ -Modulus <= 2 * t /\ 2 * t < Modulus
      /\ Modulus \in Nat \ {0} /\ Modulus >= 2
  BY SignedType, ModulusType
<1> HIDE DEF s, t
<1>2. n \in Int /\ 4 * n <= Modulus * Modulus /\ -(Modulus * Modulus) <= 4 * n
  <2> DEFINE a == 2 * s  b == 2 * t
  <2>1. a \in Int /\ b \in Int /\ 4 * n = a * b
    BY <1>1
  <2>2. /\ -Modulus <= a /\ a <= Modulus
        /\ -Modulus <= b /\ b <= Modulus
    BY <1>1
  <2> HIDE DEF a, b
  <2>3. a * b <= Modulus * Modulus /\ -(Modulus * Modulus) <= a * b
    BY <1>1, <2>1, <2>2
  <2> QED BY <1>1, <2>1, <2>3
<1> HIDE DEF n
<1>3. n = Modulus * q + r /\ q \in Int /\ r \in 0..Modulus - 1
  BY <1>1, <1>2
<1> HIDE DEF q, r
<1>4. 2 * q < Modulus
  BY <1>1, <1>2, <1>3
<1>5. -Modulus <= 2 * q
  BY <1>1, <1>2, <1>3
<1>6. q * Modulus = Modulus * q
  BY <1>1, <1>3
<1> QED BY <1>3, <1>4, <1>5, <1>6 DEF q, r, n, s, t, HighProduct, Unsigned

\* The quotient has room in a register but for the division that traps.
LEMMA QuotientFits ==
    ASSUME NEW x \in Value, NEW y \in Value, y # 0, ~Traps("DIV", x, y)
    PROVE  LET q == Quotient(Signed(x), Signed(y))
               r == Remainder(Signed(x), Signed(y))
           IN  /\ Signed(Unsigned(q)) = q /\ Signed(Unsigned(r)) = r
               /\ Signed(x) = q * Signed(y) + r
               /\ Magnitude(r) < Magnitude(Signed(y))
<1> DEFINE s == Signed(x)  t == Signed(y)  q == Quotient(s, t)  r == Remainder(s, t)
<1>1. /\ s \in Int /\ -Modulus <= 2 * s /\ 2 * s < Modulus
      /\ t \in Int /\ -Modulus <= 2 * t /\ 2 * t < Modulus
      /\ Modulus \in Nat \ {0}
  BY SignedType, ModulusType
<1>2. t # 0
  BY ModulusType, ValueType DEF Signed
<1>3. /\ q \in Int /\ r \in Int /\ s = q * t + r
      /\ Magnitude(r) < Magnitude(t)
  BY <1>1, <1>2, QuotientType
<1>4. ~(2 * s = -Modulus /\ t = -1)
  <2>1. 2 * s = -Modulus => 2 * x = Modulus
    BY ModulusType, ValueType DEF Signed
  <2> QED BY <2>1 DEF Traps
<1>5. q = IF (s < 0) = (t < 0) THEN Magnitude(s) \div Magnitude(t)
          ELSE -(Magnitude(s) \div Magnitude(t))
  BY DEF Quotient
<1> DEFINE m == Magnitude(s)  e == Magnitude(t)  k == m \div e
<1>6. m \in Nat /\ e \in Nat \ {0} /\ k \in Nat /\ k <= m
  BY <1>1, <1>2 DEF Magnitude
<1>7. e >= 2 => 2 * k <= m
  BY <1>6
<1> HIDE DEF k
<1>8. q = IF (s < 0) = (t < 0) THEN k ELSE -k
  BY <1>5 DEF k
<1>9. -Modulus <= 2 * q /\ 2 * q < Modulus
  <2>1. 2 * m <= Modulus
    BY <1>1 DEF Magnitude
  <2>2. CASE e >= 2
    BY <1>1, <1>6, <1>7, <1>8, <2>1, <2>2
  <2>3. CASE e = 1
    BY <1>1, <1>2, <1>4, <1>6, <1>8, <2>1, <2>3 DEF Magnitude
  <2> QED BY <1>6, <2>2, <2>3
<1>10. -Modulus <= 2 * r /\ 2 * r < Modulus
  <2> HIDE DEF r, q
  <2> QED BY <1>1, <1>3 DEF Magnitude
<1>11. Signed(Unsigned(q)) = q /\ Signed(Unsigned(r)) = r
  <2> HIDE DEF r, q
  <2> QED BY <1>3, <1>9, <1>10, SignedOfUnsigned
<1> QED BY <1>3, <1>11

\* The operations of the ALU fit together, and with the branches, on any two words.
LEMMA TypeOKFits == TypeOK => OperationsFitTogether
<1> SUFFICES ASSUME TypeOK, stage = "executed" PROVE OperationsFitTogether
  BY DEF OperationsFitTogether
<1> DEFINE x == rs1  y == rs2  r(o) == DoTheThing(o, x, y)
<1>1. x \in Value /\ y \in Value
  BY DEF TypeOK
<1>2. x \in Nat /\ x < Modulus /\ y \in Nat /\ y < Modulus /\ Modulus \in Nat \ {0}
  BY <1>1, ValueType, ModulusType
<1> HIDE DEF x, y
<1>3. Signed(x) * Signed(y) = Signed(r("MULH")) * Modulus + r("MUL")
  <2>1. r("MULH") = Unsigned(HighProduct(x, y)) /\ r("MUL") = Unsigned(x * y)
    BY DEF DoTheThing
  <2> QED BY <1>1, <2>1, HighProductFits, ProductOfSigned, SignedOfUnsigned
<1>4. y # 0 => r("DIVU") * y + r("REMU") = x /\ r("REMU") < y
  <2> SUFFICES ASSUME y # 0 PROVE r("DIVU") * y + r("REMU") = x /\ r("REMU") < y
    OBVIOUS
  <2>1. r("DIVU") = x \div y /\ r("REMU") = x % y
    BY DEF DoTheThing
  <2>2. x = y * (x \div y) + (x % y) /\ (x % y) < y /\ x \div y \in Int
    BY <1>2
  <2> QED BY <1>2, <2>1, <2>2
<1>5. y # 0 /\ ~Traps("DIV", x, y) =>
        /\ Signed(r("DIV")) * Signed(y) + Signed(r("REM")) = Signed(x)
        /\ Magnitude(Signed(r("REM"))) < Magnitude(Signed(y))
  <2> SUFFICES ASSUME y # 0, ~Traps("DIV", x, y)
               PROVE  /\ Signed(r("DIV")) * Signed(y) + Signed(r("REM")) = Signed(x)
                      /\ Magnitude(Signed(r("REM"))) < Magnitude(Signed(y))
    OBVIOUS
  <2>1. /\ r("DIV") = Unsigned(Quotient(Signed(x), Signed(y)))
        /\ r("REM") = Unsigned(Remainder(Signed(x), Signed(y)))
    BY DEF DoTheThing
  <2> QED BY <1>1, <2>1, QuotientFits
<1>6. r("ADD") = Unsigned(r("XOR") + 2 * r("AND")) /\ r("OR") = r("XOR") + r("AND")
  <2>1. /\ r("AND") = NumberOf(BitsOf(x) \cap BitsOf(y))
        /\ r("OR") = NumberOf(BitsOf(x) \cup BitsOf(y))
        /\ r("XOR") = NumberOf((BitsOf(x) \cup BitsOf(y)) \ (BitsOf(x) \cap BitsOf(y)))
        /\ r("ADD") = Unsigned(x + y)
    BY DEF DoTheThing
  <2> HIDE DEF r
  <2>2. r("OR") = r("XOR") + r("AND") /\ x + y = r("XOR") + 2 * r("AND")
    BY <1>1, <2>1, BitwiseSums
  <2> QED BY <2>1, <2>2
<1>7. /\ ShouldTakeBranch(4, x, y) <=> r("SLT") = 1
      /\ ShouldTakeBranch(6, x, y) <=> r("SLTU") = 1
  BY DEF ShouldTakeBranch, DoTheThing
<1>8. ShouldTakeBranch(0, x, y) <=> r("SUB") = 0
  <2>1. r("SUB") = Unsigned(x - y)
    BY DEF DoTheThing
  <2>2. Unsigned(x - y) = IF x < y THEN x - y + Modulus ELSE x - y
    BY <1>2 DEF Unsigned
  <2>3. ShouldTakeBranch(0, x, y) <=> x = y
    BY DEF ShouldTakeBranch
  <2> QED BY <1>2, <2>1, <2>2, <2>3
<1>9. \A f3 \in {0, 4, 6} : ShouldTakeBranch(f3, x, y) = ~ShouldTakeBranch(f3 + 1, x, y)
  <2>1. Signed(x) \in Int /\ Signed(y) \in Int
    BY <1>1, SignedType
  <2>3. ShouldTakeBranch(0, x, y) = ~ShouldTakeBranch(0 + 1, x, y)
    BY DEF ShouldTakeBranch
  <2>4. ShouldTakeBranch(4, x, y) = ~ShouldTakeBranch(4 + 1, x, y)
    BY <2>1 DEF ShouldTakeBranch
  <2>5. ShouldTakeBranch(6, x, y) = ~ShouldTakeBranch(6 + 1, x, y)
    BY <1>2 DEF ShouldTakeBranch
  <2> QED BY <2>3, <2>4, <2>5
<1> HIDE DEF r
<1> QED BY <1>3, <1>4, <1>5, <1>6, <1>7, <1>8, <1>9 DEF OperationsFitTogether, x, y, r

\* Whatever the registers hold, the halves of a product are those of one product,
\* quotient and remainder give back the dividend, the sum is that of the exclusive
\* or and the carries, and comparisons and branches agree.
THEOREM OperationsFitTogetherAlways == Spec => []OperationsFitTogether
BY SpecTypeOK, TypeOKFits, PTL

-----------------------------------------------------------------------------
\* What the operations compute.

\* What an operation computes is Meaning, but on the operands of Differs.
Computes(o, name, x, y) ==
    DoTheThing(o, x, y) = Meaning(name, x, y) <=> ~Differs(name, x, y)

\* A number is divided in one way.
LEMMA DivisionOfSum ==
    ASSUME NEW m \in Nat \ {0}, NEW q \in Int, NEW e \in 0..m - 1, NEW n, n = m * q + e
    PROVE  n \div m = q /\ n % m = e
OBVIOUS

\* Numbers less than the modulus apart are told apart in a register.
LEMMA UnsignedDistinct ==
    ASSUME NEW n \in Int, NEW m \in Int, -Modulus < m - n, m - n < Modulus
    PROVE  Unsigned(m) = Unsigned(n) <=> m = n
<1> DEFINE q == n \div Modulus  e == n % Modulus  d == m - n
<1>0. Modulus \in Nat \ {0}
  BY ModulusType
<1>1. n = Modulus * q + e /\ q \in Int /\ e \in 0..Modulus - 1
  BY <1>0
<1>2. Unsigned(n) = e
  BY DEF Unsigned
<1>3. d \in Int /\ -Modulus < d /\ d < Modulus /\ m = n + d
  OBVIOUS
<1> HIDE DEF q, e, d
<1>4. CASE e + d < 0
  <2>1. m = Modulus * (q - 1) + (e + d + Modulus)
    BY <1>0, <1>1, <1>3
  <2>2. e + d + Modulus \in 0..Modulus - 1 /\ q - 1 \in Int /\ e + d + Modulus # e
    BY <1>0, <1>1, <1>3, <1>4
  <2>3. m % Modulus = e + d + Modulus
    BY <1>0, <2>1, <2>2, DivisionOfSum
  <2> QED BY <1>1, <1>2, <1>3, <1>4, <2>2, <2>3 DEF Unsigned
<1>5. CASE e + d \in 0..Modulus - 1
  <2>1. m = Modulus * q + (e + d)
    BY <1>0, <1>1, <1>3
  <2> DEFINE f == e + d
  <2>2. f \in 0..Modulus - 1 /\ m = Modulus * q + f
    BY <1>5, <2>1
  <2> HIDE DEF f
  <2>3. m % Modulus = f
    BY <1>0, <1>1, <2>2, DivisionOfSum
  <2> QED BY <1>1, <1>2, <1>3, <2>3 DEF Unsigned, f
<1>6. CASE e + d >= Modulus
  <2>1. m = Modulus * (q + 1) + (e + d - Modulus)
    BY <1>0, <1>1, <1>3
  <2>2. e + d - Modulus \in 0..Modulus - 1 /\ q + 1 \in Int /\ e + d - Modulus # e
    BY <1>0, <1>1, <1>3, <1>6
  <2>3. m % Modulus = e + d - Modulus
    BY <1>0, <2>1, <2>2, DivisionOfSum
  <2> QED BY <1>0, <1>1, <1>2, <1>3, <1>6, <2>2, <2>3 DEF Unsigned
<1> QED BY <1>0, <1>1, <1>3, <1>4, <1>5, <1>6

LEMMA SumComputes ==
    ASSUME NEW x, NEW y,
           NEW name \in {"add", "addi", "auipc", "jal", "beq", "bne", "blt", "bge", "bltu",
                         "bgeu", "lb", "lh", "lw", "lbu", "lhu", "flw", "sb", "sh", "sw", "fsw"}
    PROVE  Computes("ADD", name, x, y)
BY DEF Computes, DoTheThing, Meaning, Differs

LEMMA ComparisonsCompute ==
    ASSUME NEW x, NEW y
    PROVE  /\ \A name \in {"slt", "slti"} : Computes("SLT", name, x, y)
           /\ \A name \in {"sltu", "sltui"} : Computes("SLTU", name, x, y)
           /\ \A name \in {"sll", "slli"} : Computes("SLL", name, x, y)
BY DEF Computes, DoTheThing, Meaning, Differs

LEMMA BitwiseCompute ==
    ASSUME NEW x, NEW y
    PROVE  /\ \A name \in {"and", "andi"} : Computes("AND", name, x, y)
           /\ \A name \in {"or", "ori"} : Computes("OR", name, x, y)
           /\ \A name \in {"xor", "xori"} : Computes("XOR", name, x, y)
<1>1. (BitsOf(x) \cup BitsOf(y)) \ (BitsOf(x) \cap BitsOf(y))
        = {k \in 0..Width - 1 : (k \in BitsOf(x)) # (k \in BitsOf(y))}
  BY DEF BitsOf
<1>2. \A name \in {"xor", "xori"} : Computes("XOR", name, x, y)
  BY <1>1 DEF Computes, DoTheThing, Meaning, Differs
<1> QED BY <1>2 DEF Computes, DoTheThing, Meaning, Differs

LEMMA DivisionType ==
    ASSUME NEW x \in Value, NEW d \in Nat \ {0} PROVE x \div d \in Value
BY ModulusType DEF Value

LEMMA ShiftRightComputes ==
    ASSUME NEW x \in Value, NEW y \in Value, NEW name \in {"srl", "srli"}
    PROVE  Computes("SRL", name, x, y)
<1> DEFINE c == Count(y)  p == 2^c  s == Signed(x)
<1>1. c \in 0..Width - 1 /\ p \in Nat \ {0}
  BY CountType
<1>2. Computes("SRL", name, x, y) <=>
        (Unsigned(s \div p) = x \div p <=> ~(s < 0 /\ c # 0))
  BY DEF Computes, DoTheThing, Meaning, Differs
<1>3. x \in Nat /\ x < Modulus /\ Modulus \in Nat \ {0} /\ s \in Int
  BY ValueType, SignedType, ModulusType
<1>4. CASE s >= 0
  <2>1. s = x
    BY <1>3, <1>4 DEF Signed
  <2> HIDE DEF p, s
  <2>2. x \div p \in Value
    BY <1>1, DivisionType
  <2>3. Unsigned(s \div p) = x \div p
    BY <2>1, <2>2, UnsignedOfValue
  <2>4. ~(s < 0)
    BY <1>3, <1>4
  <2> QED BY <1>2, <2>3, <2>4
<1>5. CASE s < 0 /\ c = 0
  <2>1. p = 1
    BY <1>5
  <2>2. s \div p = s /\ x \div p = x
    BY <1>3, <2>1
  <2> QED BY <1>2, <1>5, <2>2, UnsignedOfValue
<1>6. CASE s < 0 /\ c # 0
  <2> DEFINE r == 2^(Width - c)  q == x \div p
  <2>1. Modulus = p * r /\ r \in Nat \ {0}
    <3>1. c \in Nat /\ Width - c \in Nat /\ c + (Width - c) = Width
      BY <1>1, WidthAssumption
    <3> QED BY <3>1, PowerOfSum, PowerType, WidthAssumption
  <2>2. p >= 2
    <3>1. c - 1 \in Nat /\ (c - 1) + 1 = c
      BY <1>1, <1>6
    <3>2. p = 2 * 2^(c - 1) /\ 2^(c - 1) \in Nat \ {0}
      BY <3>1, PowerOfNext, PowerType
    <3> QED BY <3>2
  <2>3. s = x - Modulus
    BY <1>3, <1>6 DEF Signed
  <2> HIDE DEF p, s, r, c
  <2>4. q \in Nat /\ x = p * q + (x % p) /\ x % p \in 0..p - 1
    BY <1>1, <1>3
  <2> HIDE DEF q
  <2>5. s = p * (q - r) + (x % p)
    <3>1. p * (q - r) = p * q - p * r
      BY <1>1, <2>1, <2>4
    <3> QED BY <1>1, <2>1, <2>3, <2>4, <3>1
  <2>6. s \div p = q - r
    <3>1. q - r \in Int
      BY <2>1, <2>4
    <3> QED BY <1>1, <2>4, <2>5, <3>1, DivisionOfSum
  <2>7. q < r
    BY <1>1, <1>3, <2>1, <2>4
  <2>8. r < Modulus
    BY <1>1, <2>1, <2>2
  <2>9. Unsigned(q - r) # q
    BY <1>3, <2>1, <2>4, <2>7, <2>8 DEF Unsigned
  <2> QED BY <1>2, <1>6, <2>6, <2>9 DEF q
<1> QED BY <1>3, <1>4, <1>5, <1>6

LEMMA ProductsCompute ==
    ASSUME NEW x \in Value, NEW y \in Value
    PROVE  /\ Computes("MUL", "mul", x, y)
           /\ Computes("MULH", "mulh", x, y)
           /\ Computes("MULHSU", "mulhsu", x, y)
           /\ Computes("MULHU", "mulhu", x, y)
<1> DEFINE s == Signed(x)  t == Signed(y)  h == HighProduct(x, y)
<1>1. /\ x \in Nat /\ x < Modulus /\ y \in Nat /\ y < Modulus /\ Modulus \in Nat \ {0}
      /\ s \in Int /\ t \in Int /\ -Modulus < s /\ s < Modulus
  BY ValueType, SignedType, ModulusType
<1>2. Computes("MUL", "mul", x, y)
  BY ProductOfSigned DEF Computes, DoTheThing, Meaning, Differs
<1>3. Computes("MULH", "mulh", x, y)
  BY DEF Computes, DoTheThing, Meaning, Differs, HighProduct
<1>4. Computes("MULHSU", "mulhsu", x, y)
  <2>1. Computes("MULHSU", "mulhsu", x, y) <=>
          (Unsigned(h) = Unsigned((s * y) \div Modulus) <=> ~(t < 0 /\ x # 0))
    BY DEF Computes, DoTheThing, Meaning, Differs
  <2>2. h \in Int /\ s * t = h * Modulus + Unsigned(s * t)
    BY HighProductFits
  <2>3. Unsigned(s * t) \in 0..Modulus - 1
    BY <1>1, UnsignedType DEF Value
  <2>4. s = 0 <=> x = 0
    BY <1>1 DEF Signed
  <2>5. CASE t >= 0
    <3>1. t = y
      BY <1>1, <2>5 DEF Signed
    <3>2. h = (s * y) \div Modulus
      BY <3>1 DEF HighProduct
    <3> QED BY <1>1, <2>1, <2>5, <3>2
  <2>6. CASE t < 0
    <3>1. y = t + Modulus
      BY <1>1, <2>6 DEF Signed
    <3> HIDE DEF s, t, h
    <3>2. s * y = Modulus * (h + s) + Unsigned(s * t)
      <4>1. s * y = s * t + s * Modulus
        BY <1>1, <3>1
      <4>2. Modulus * (h + s) = h * Modulus + s * Modulus
        BY <1>1, <2>2
      <4> DEFINE u == Unsigned(s * t)  a == h * Modulus  b == s * Modulus
      <4>3. s * y = (a + u) + b /\ a \in Int /\ b \in Int /\ u \in Int
        BY <1>1, <2>2, <2>3, <4>1
      <4> HIDE DEF u, a, b
      <4>4. s * y = (a + b) + u
        BY <4>3
      <4> QED BY <4>2, <4>4 DEF a, b, u
    <3>3. (s * y) \div Modulus = h + s
      <4>1. h + s \in Int
        BY <1>1, <2>2
      <4> QED BY <1>1, <2>3, <3>2, <4>1, DivisionOfSum
    <3>4. Unsigned(h + s) = Unsigned(h) <=> s = 0
      <4> DEFINE k == h + s
      <4>1. k \in Int /\ -Modulus < k - h /\ k - h < Modulus /\ (k = h <=> s = 0)
        BY <1>1, <2>2
      <4> HIDE DEF k
      <4>2. Unsigned(k) = Unsigned(h) <=> k = h
        BY <2>2, <4>1, UnsignedDistinct
      <4> QED BY <4>1, <4>2 DEF k
    <3> QED BY <2>1, <2>4, <2>6, <3>3, <3>4
  <2> QED BY <1>1, <2>5, <2>6
<1>5. Computes("MULHU", "mulhu", x, y)
  <2>1. Computes("MULHU", "mulhu", x, y) <=>
          (0 = (x * y) \div Modulus <=> ~(x * y >= Modulus))
    BY DEF Computes, DoTheThing, Meaning, Differs
  <2> DEFINE n == x * y
  <2>2. n \in Nat
    BY <1>1
  <2> HIDE DEF n
  <2>3. 0 = n \div Modulus <=> ~(n >= Modulus)
    BY <1>1, <2>2
  <2> QED BY <2>1, <2>3 DEF n
<1> QED BY <1>2, <1>3, <1>4, <1>5

LEMMA DivisionsCompute ==
    ASSUME NEW x \in Value, NEW y \in Value
    PROVE  /\ Computes("DIV", "div", x, y)
           /\ Computes("DIVU", "divu", x, y)
           /\ Computes("REM", "rem", x, y)
           /\ Computes("REMU", "remu", x, y)
<1>1. Modulus - 1 # 0
  BY ModulusType
<1>2. Computes("DIV", "div", x, y) /\ Computes("DIVU", "divu", x, y)
  BY <1>1 DEF Computes, DoTheThing, Meaning, Differs
<1>3. Computes("REM", "rem", x, y) /\ Computes("REMU", "remu", x, y)
  BY DEF Computes, DoTheThing, Meaning, Differs
<1> QED BY <1>2, <1>3

LEMMA LuiAndJalrCompute ==
    ASSUME NEW x \in Value, NEW y \in Value
    PROVE  Computes("ADD", "lui", x, y) /\ Computes("ADD", "jalr", x, y)
<1>1. x \in Nat /\ x < Modulus /\ y \in Nat /\ y < Modulus /\ Modulus \in Nat \ {0}
  BY ValueType, ModulusType
<1>2. PICK m \in Nat : Modulus = 2 * m
  BY ModulusType
<1>3. Computes("ADD", "lui", x, y)
  <2> DEFINE k == x + y
  <2>1. k \in Int /\ -Modulus < k - y /\ k - y < Modulus /\ (k = y <=> x = 0)
    BY <1>1
  <2> HIDE DEF k
  <2>2. Unsigned(k) = Unsigned(y) <=> k = y
    BY <1>1, <2>1, UnsignedDistinct
  <2>3. Unsigned(x + y) = y <=> x = 0
    BY <2>1, <2>2, UnsignedOfValue DEF k
  <2> QED BY <2>3 DEF Computes, DoTheThing, Meaning, Differs
<1>4. Computes("ADD", "jalr", x, y)
  <2> DEFINE u == Unsigned(x + y)
  <2>1. u = IF x + y < Modulus THEN x + y ELSE x + y - Modulus
    BY <1>1 DEF Unsigned
  <2>2. Computes("ADD", "jalr", x, y) <=> (u = 2 * (u \div 2) <=> ~((x + y) % 2 = 1))
    BY DEF Computes, DoTheThing, Meaning, Differs
  <2> HIDE DEF u
  <2> QED BY <1>1, <1>2, <2>1, <2>2
<1> QED BY <1>3, <1>4

-----------------------------------------------------------------------------
\* What the words compute.

LEMMA OneToEight ==
    \A i \in 1..8 : i = 1 \/ i = 2 \/ i = 3 \/ i = 4 \/ i = 5 \/ i = 6 \/ i = 7 \/ i = 8
OBVIOUS

\* The operation of each number computes what the names of that number say.
LEMMA OperationsCompute ==
    ASSUME NEW i \in 1..8, NEW x \in Value, NEW y \in Value
    PROVE  /\ Computes(IntegerOps[i], IntegerNames[i], x, y)
           /\ Computes(IntegerOps[i], ImmediateNames[i], x, y)
           /\ Computes(MultiplyOps[i], MultiplyNames[i], x, y)
<1>1. Computes(IntegerOps[i], IntegerNames[i], x, y)
  <2>1. /\ Computes("ADD", "add", x, y) /\ Computes("SLL", "sll", x, y)
        /\ Computes("SLT", "slt", x, y) /\ Computes("SLTU", "sltu", x, y)
        /\ Computes("XOR", "xor", x, y) /\ Computes("SRL", "srl", x, y)
        /\ Computes("OR", "or", x, y) /\ Computes("AND", "and", x, y)
    BY SumComputes, ComparisonsCompute, BitwiseCompute, ShiftRightComputes
  <2> QED BY <2>1, OneToEight DEF IntegerOps, IntegerNames
<1>2. Computes(IntegerOps[i], ImmediateNames[i], x, y)
  <2>1. /\ Computes("ADD", "addi", x, y) /\ Computes("SLL", "slli", x, y)
        /\ Computes("SLT", "slti", x, y) /\ Computes("SLTU", "sltui", x, y)
        /\ Computes("XOR", "xori", x, y) /\ Computes("SRL", "srli", x, y)
        /\ Computes("OR", "ori", x, y) /\ Computes("AND", "andi", x, y)
    BY SumComputes, ComparisonsCompute, BitwiseCompute, ShiftRightComputes
  <2> QED BY <2>1, OneToEight DEF IntegerOps, ImmediateNames
<1>3. Computes(MultiplyOps[i], MultiplyNames[i], x, y)
  BY ProductsCompute, DivisionsCompute, OneToEight DEF MultiplyOps, MultiplyNames
<1> QED BY <1>1, <1>2, <1>3

\* Which of them divide signed numbers.
LEMMA OperationsDivide ==
    ASSUME NEW i \in 1..8
    PROVE  /\ IntegerOps[i] \notin {"DIV", "REM"}
           /\ IntegerNames[i] \notin {"div", "rem"} /\ ImmediateNames[i] \notin {"div", "rem"}
           /\ MultiplyOps[i] \in {"DIV", "REM"} <=> MultiplyNames[i] \in {"div", "rem"}
<1>1. IntegerOps[i] \notin {"DIV", "REM"}
  BY OneToEight DEF IntegerOps
<1>2. IntegerNames[i] \notin {"div", "rem"}
  BY OneToEight DEF IntegerNames
<1>3. ImmediateNames[i] \notin {"div", "rem"}
  BY OneToEight DEF ImmediateNames
<1>4. MultiplyOps[i] \in {"DIV", "REM"} <=> MultiplyNames[i] \in {"div", "rem"}
  BY OneToEight DEF MultiplyOps, MultiplyNames
<1> QED BY <1>1, <1>2, <1>3, <1>4

\* The names, number by number.
LEMMA NamesByNumber ==
    /\ LoadNames[1] = "lb" /\ LoadNames[2] = "lh" /\ LoadNames[3] = "lw"
    /\ LoadNames[4] = "" /\ LoadNames[5] = "lbu" /\ LoadNames[6] = "lhu"
    /\ LoadNames[7] = "" /\ LoadNames[8] = ""
    /\ StoreNames[1] = "sb" /\ StoreNames[2] = "sh" /\ StoreNames[3] = "sw"
    /\ StoreNames[4] = "" /\ StoreNames[5] = "" /\ StoreNames[6] = ""
    /\ StoreNames[7] = "" /\ StoreNames[8] = ""
    /\ BranchNames[1] = "beq" /\ BranchNames[2] = "bne" /\ BranchNames[3] = ""
    /\ BranchNames[4] = "" /\ BranchNames[5] = "blt" /\ BranchNames[6] = "bge"
    /\ BranchNames[7] = "bltu" /\ BranchNames[8] = "bgeu"
    /\ AlternateNames[1] = "sub" /\ AlternateNames[2] = "" /\ AlternateNames[3] = ""
    /\ AlternateNames[4] = "" /\ AlternateNames[5] = "" /\ AlternateNames[6] = "sra"
    /\ AlternateNames[7] = "" /\ AlternateNames[8] = ""
<1>1. /\ LoadNames[1] = "lb" /\ LoadNames[2] = "lh" /\ LoadNames[3] = "lw"
      /\ LoadNames[4] = "" /\ LoadNames[5] = "lbu" /\ LoadNames[6] = "lhu"
      /\ LoadNames[7] = "" /\ LoadNames[8] = ""
  BY DEF LoadNames
<1>2. /\ StoreNames[1] = "sb" /\ StoreNames[2] = "sh" /\ StoreNames[3] = "sw"
      /\ StoreNames[4] = "" /\ StoreNames[5] = "" /\ StoreNames[6] = ""
      /\ StoreNames[7] = "" /\ StoreNames[8] = ""
  BY DEF StoreNames
<1>3. /\ BranchNames[1] = "beq" /\ BranchNames[2] = "bne" /\ BranchNames[3] = ""
      /\ BranchNames[4] = "" /\ BranchNames[5] = "blt" /\ BranchNames[6] = "bge"
      /\ BranchNames[7] = "bltu" /\ BranchNames[8] = "bgeu"
  BY DEF BranchNames
<1>4. /\ AlternateNames[1] = "sub" /\ AlternateNames[2] = "" /\ AlternateNames[3] = ""
      /\ AlternateNames[4] = "" /\ AlternateNames[5] = "" /\ AlternateNames[6] = "sra"
      /\ AlternateNames[7] = "" /\ AlternateNames[8] = ""
  BY DEF AlternateNames
<1> QED BY <1>1, <1>2, <1>3, <1>4

\* The names that take two registers, and those that take the pc.
LEMMA NamesTakeRegisters ==
    ASSUME NEW name
    PROVE  TakesRegisters(name) <=>
             name \in {"add", "sll", "slt", "sltu", "xor", "srl", "or", "and", "mul", "mulh",
                       "mulhsu", "mulhu", "div", "divu", "rem", "remu", "sub", "sra", ""}
<1>1. (\E i \in DOMAIN IntegerNames : name = IntegerNames[i]) <=>
        name \in {"add", "sll", "slt", "sltu", "xor", "srl", "or", "and"}
  <2>1. DOMAIN IntegerNames = 1..8
    BY DEF IntegerNames
  <2> QED BY <2>1, OneToEight DEF IntegerNames
<1>2. (\E i \in DOMAIN MultiplyNames : name = MultiplyNames[i]) <=>
        name \in {"mul", "mulh", "mulhsu", "mulhu", "div", "divu", "rem", "remu"}
  <2>1. DOMAIN MultiplyNames = 1..8
    BY DEF MultiplyNames
  <2> QED BY <2>1, OneToEight DEF MultiplyNames
<1>3. (\E i \in DOMAIN AlternateNames : name = AlternateNames[i]) <=>
        name \in {"sub", "sra", ""}
  <2>1. DOMAIN AlternateNames = 1..8
    BY DEF AlternateNames
  <2>2. (\E i \in 1..8 : name = AlternateNames[i]) <=>
          \/ name = AlternateNames[1] \/ name = AlternateNames[2] \/ name = AlternateNames[3]
          \/ name = AlternateNames[4] \/ name = AlternateNames[5] \/ name = AlternateNames[6]
          \/ name = AlternateNames[7] \/ name = AlternateNames[8]
    BY OneToEight
  <2> QED BY <2>1, <2>2, NamesByNumber
<1> QED BY <1>1, <1>2, <1>3 DEF TakesRegisters

LEMMA NamesTakePC ==
    ASSUME NEW name
    PROVE  TakesPC(name) <=>
             name \in {"auipc", "jal", "beq", "bne", "blt", "bge", "bltu", "bgeu", ""}
<1>1. DOMAIN BranchNames = 1..8
  BY DEF BranchNames
<1>2. (\E i \in 1..8 : name = BranchNames[i]) <=>
        \/ name = BranchNames[1] \/ name = BranchNames[2] \/ name = BranchNames[3]
        \/ name = BranchNames[4] \/ name = BranchNames[5] \/ name = BranchNames[6]
        \/ name = BranchNames[7] \/ name = BranchNames[8]
  BY OneToEight
<1> QED BY <1>1, <1>2, NamesByNumber DEF TakesPC

LEMMA NamesOfNumbers ==
    ASSUME NEW i \in 1..8
    PROVE  /\ LoadNames[i] \in {"lb", "lh", "lw", "lbu", "lhu", ""}
           /\ StoreNames[i] \in {"sb", "sh", "sw", ""}
           /\ BranchNames[i] \in {"beq", "bne", "blt", "bge", "bltu", "bgeu", ""}
           /\ ImmediateNames[i] \in {"addi", "slli", "slti", "sltui", "xori", "srli", "ori",
                                     "andi"}
           /\ IntegerNames[i] \in {"add", "sll", "slt", "sltu", "xor", "srl", "or", "and"}
           /\ MultiplyNames[i] \in {"mul", "mulh", "mulhsu", "mulhu", "div", "divu", "rem",
                                    "remu"}
           /\ AlternateNames[i] \in {"sub", "sra", ""}
           /\ IntegerOps[i] \notin FloatOps /\ MultiplyOps[i] \notin FloatOps
<1>1. LoadNames[i] \in {"lb", "lh", "lw", "lbu", "lhu", ""}
  BY OneToEight, NamesByNumber
<1>2. StoreNames[i] \in {"sb", "sh", "sw", ""}
  BY OneToEight, NamesByNumber
<1>3. BranchNames[i] \in {"beq", "bne", "blt", "bge", "bltu", "bgeu", ""}
  BY OneToEight, NamesByNumber
<1>4. ImmediateNames[i] \in {"addi", "slli", "slti", "sltui", "xori", "srli", "ori", "andi"}
  BY OneToEight DEF ImmediateNames
<1>5. IntegerNames[i] \in {"add", "sll", "slt", "sltu", "xor", "srl", "or", "and"}
  BY OneToEight DEF IntegerNames
<1>6. MultiplyNames[i] \in {"mul", "mulh", "mulhsu", "mulhu", "div", "divu", "rem", "remu"}
  BY OneToEight DEF MultiplyNames
<1>7. AlternateNames[i] \in {"sub", "sra", ""}
  BY OneToEight, NamesByNumber
<1>8. IntegerOps[i] \notin FloatOps
  BY OneToEight DEF IntegerOps, FloatOps
<1>9. MultiplyOps[i] \notin FloatOps
  BY OneToEight DEF MultiplyOps, FloatOps
<1> QED BY <1>1, <1>2, <1>3, <1>4, <1>5, <1>6, <1>7, <1>8, <1>9

\* The part of an immediate that setALUop takes for funct7.
LEMMA ImmediateHoldsFunct7 ==
    ASSUME NEW w \in SUBSET Bit, OpcodeOf(w) = "I_TYPE"
    PROVE  /\ Funct7(w) = Zero <=> SetImmediate(w) \ (0..4) = {}
           /\ Funct7(w) = One <=> SetImmediate(w) \ (0..4) = {5}
<1>1. SetImmediate(w) = ImmediateI(w)
  BY DEF SetImmediate
<1>2. \A k \in Bit : k \in ImmediateI(w) <=> IF k < 11 THEN k + 20 \in w ELSE 31 \in w
  BY DEF ImmediateI, Sra, Bit
<1>3. ImmediateI(w) \subseteq Bit
  BY DEF ImmediateI, Sra
<1>4. \A k \in 0..6 : k \in Funct7(w) <=> k + 5 \in ImmediateI(w)
  BY <1>2 DEF Funct7, Field, Bit
<1>5. Funct7(w) \subseteq 0..6
  BY DEF Funct7, Field
<1>6. \A k \in Bit : k \in ImmediateI(w) /\ k > 11 => 11 \in ImmediateI(w)
  BY <1>2 DEF Bit
<1>7. Funct7(w) = Zero <=> ImmediateI(w) \ (0..4) = {}
  <2>1. ASSUME Funct7(w) = Zero PROVE ImmediateI(w) \ (0..4) = {}
    <3>1. \A k \in 5..11 : k \notin ImmediateI(w)
      <4> SUFFICES ASSUME NEW k \in 5..11, k \in ImmediateI(w) PROVE FALSE
        OBVIOUS
      <4>1. k - 5 \in 0..6 /\ (k - 5) + 5 = k
        OBVIOUS
      <4> QED BY <1>4, <2>1, <4>1 DEF Zero
    <3> QED BY <1>3, <1>6, <3>1 DEF Bit
  <2>2. ASSUME ImmediateI(w) \ (0..4) = {} PROVE Funct7(w) = Zero
    BY <1>4, <1>5, <2>2 DEF Zero
  <2> QED BY <2>1, <2>2
<1>8. Funct7(w) = One <=> ImmediateI(w) \ (0..4) = {5}
  <2>1. ASSUME Funct7(w) = One PROVE ImmediateI(w) \ (0..4) = {5}
    <3>1. \A k \in 6..11 : k \notin ImmediateI(w)
      <4> SUFFICES ASSUME NEW k \in 6..11, k \in ImmediateI(w) PROVE FALSE
        OBVIOUS
      <4>1. k - 5 \in 0..6 /\ (k - 5) + 5 = k /\ k - 5 # 0
        OBVIOUS
      <4> QED BY <1>4, <2>1, <4>1 DEF One
    <3>2. 0 + 5 \in ImmediateI(w)
      BY <1>4, <2>1 DEF One
    <3> QED BY <1>3, <1>6, <3>1, <3>2 DEF Bit
  <2>2. ASSUME ImmediateI(w) \ (0..4) = {5} PROVE Funct7(w) = One
    <3>1. 5 \in ImmediateI(w) /\ \A k \in 6..11 : k \notin ImmediateI(w)
      BY <2>2
    <3>2. 0 \in Funct7(w)
      BY <1>4, <3>1
    <3>3. \A k \in 1..6 : k \notin Funct7(w)
      BY <1>4, <3>1
    <3> QED BY <1>5, <3>2, <3>3 DEF One
  <2> QED BY <2>1, <2>2
<1> QED BY <1>1, <1>7, <1>8

\* The mnemonics of I_TYPE: only funct3 = 0 is printed as addi.
LEMMA ImmediateMnemonics ==
    ASSUME NEW w, OpcodeOf(w) = "I_TYPE"
    PROVE  /\ Mnemonic(w) \in {"addi", "slli", "slti", "sltui", "xori", "srli", "ori", "andi",
                               "srai"}
           /\ Mnemonic(w) = "addi" <=> Funct3(w) = 0
<1> DEFINE f3 == Funct3(w) + 1
<1>1. f3 \in 1..8 /\ (f3 = 1 <=> Funct3(w) = 0)
  BY Funct3Range
<1>2. Mnemonic(w) = IF f3 = 6 /\ Funct7(w) # Zero THEN "srai" ELSE ImmediateNames[f3]
  BY DEF Mnemonic
<1> HIDE DEF f3
<1>3. ImmediateNames[f3] = "addi" <=> f3 = 1
  BY <1>1, OneToEight DEF ImmediateNames
<1>4. ImmediateNames[f3] \in {"addi", "slli", "slti", "sltui", "xori", "srli", "ori", "andi"}
  BY <1>1, NamesOfNumbers
<1>5. CASE f3 = 6 /\ Funct7(w) # Zero
  <2>1. f3 # 1 /\ Mnemonic(w) = "srai"
    BY <1>2, <1>5
  <2> QED BY <1>1, <2>1
<1>6. CASE ~(f3 = 6 /\ Funct7(w) # Zero)
  <2>1. Mnemonic(w) = ImmediateNames[f3]
    BY <1>2, <1>6
  <2> QED BY <1>1, <1>3, <1>4, <2>1
<1> QED BY <1>5, <1>6

\* What a word performs as number i of one of the enumerations.
LEMMA NumberedOperation ==
    ASSUME NEW i \in 1..8, NEW x \in Value, NEW y \in Value, NEW o, NEW name,
           \/ name = IntegerNames[i] /\ o = IntegerOps[i]
           \/ name = ImmediateNames[i] /\ o = IntegerOps[i]
           \/ name = MultiplyNames[i] /\ o = MultiplyOps[i]
    PROVE  /\ o \notin FloatOps
           /\ Computes(o, name, x, y)
           /\ o \in {"DIV", "REM"} <=> name \in {"div", "rem"}
<1>1. IntegerOps[i] \notin FloatOps /\ MultiplyOps[i] \notin FloatOps
  BY NamesOfNumbers
<1>2. o \notin FloatOps
  BY <1>1
<1>3. Computes(o, name, x, y)
  BY OperationsCompute
<1>4. o \in {"DIV", "REM"} <=> name \in {"div", "rem"}
  BY OperationsDivide
<1> QED BY <1>2, <1>3, <1>4

\* The operation of a word whose operation is assigned, and the operands it gets.
LEMMA WordComputes ==
    ASSUME IInv, stage # "fetched", opcode # "FP_TYPE", Named, ~OperationIsLeft,
           NEW x \in Value, NEW y \in Value, NEW name, name = Mnemonic(word)
    PROVE  /\ op \notin FloatOps
           /\ First(rs1, pc) = NamedFirst(name) /\ Second(rs2) = NamedSecond(name)
           /\ Computes(op, PerformedAs, x, y)
           /\ op \in {"DIV", "REM"} <=> PerformedAs \in {"div", "rem"}
<1> DEFINE f3 == Funct3(word) + 1
<1>1. f3 \in 1..8 /\ (f3 = 1 <=> Funct3(word) = 0)
  BY Funct3Range
<1>2. opcode = OpcodeOf(word) /\ op = SetALUop(word, op)
  BY DEF IInv
<1>3. name \notin {"", "Invalid Op.", "Branch/Jump Stall"}
  BY DEF Named
<1> HIDE DEF f3
<1>10. opcode # "I_TYPE" => PerformedAs = name
  BY DEF PerformedAs, TakenForMultiplication, FromImmediate
<1>4. CASE opcode \in {"LOAD", "LOAD_FP", "S_TYPE", "S_TYPE_FP"}
  <2>1. name \in {"lb", "lh", "lw", "lbu", "lhu", "flw", "sb", "sh", "sw", "fsw"}
    BY <1>1, <1>2, <1>3, <1>4, NamesOfNumbers DEF Mnemonic, f3
  <2>2. op = "ADD"
    BY <1>2, <1>4 DEF SetALUop
  <2>3. First(rs1, pc) = NamedFirst(name)
    BY <1>4, <2>1, NamesTakePC DEF First, ALUsrc1, NamedFirst
  <2>4. Second(rs2) = NamedSecond(name)
    BY <1>4, <2>1, NamesTakeRegisters DEF Second, ALUsrc2, Opcode, NamedSecond
  <2> QED BY <1>4, <1>10, <2>1, <2>2, <2>3, <2>4, SumComputes DEF FloatOps
<1>5. CASE opcode \in {"AUIPC", "JAL", "SB_TYPE"}
  <2>1. name \in {"auipc", "jal", "beq", "bne", "blt", "bge", "bltu", "bgeu"}
    BY <1>1, <1>2, <1>3, <1>5, NamesOfNumbers DEF Mnemonic, f3
  <2>2. op = "ADD"
    BY <1>2, <1>5 DEF SetALUop
  <2>3. First(rs1, pc) = NamedFirst(name)
    BY <1>5, <2>1, NamesTakePC DEF First, ALUsrc1, NamedFirst
  <2>4. Second(rs2) = NamedSecond(name)
    BY <1>5, <2>1, NamesTakeRegisters DEF Second, ALUsrc2, Opcode, NamedSecond
  <2> QED BY <1>5, <1>10, <2>1, <2>2, <2>3, <2>4, SumComputes DEF FloatOps
<1>6. CASE opcode \in {"LUI", "JALR"}
  <2>1. name \in {"lui", "jalr"}
    BY <1>2, <1>6 DEF Mnemonic
  <2>2. op = "ADD"
    BY <1>2, <1>6 DEF SetALUop
  <2>3. First(rs1, pc) = NamedFirst(name)
    BY <1>6, <2>1, NamesTakePC DEF First, ALUsrc1, NamedFirst
  <2>4. Second(rs2) = NamedSecond(name)
    BY <1>6, <2>1, NamesTakeRegisters DEF Second, ALUsrc2, Opcode, NamedSecond
  <2> QED BY <1>6, <1>10, <2>1, <2>2, <2>3, <2>4, LuiAndJalrCompute DEF FloatOps
<1>7. CASE opcode = "I_TYPE"
  <2>1. /\ Funct7(word) = Zero <=> imm \ (0..4) = {}
        /\ Funct7(word) = One <=> imm \ (0..4) = {5}
    BY <1>2, <1>7, ImmediateHoldsFunct7 DEF IInv
  <2>2. /\ name \in {"addi", "slli", "slti", "sltui", "xori", "srli", "ori", "andi", "srai"}
        /\ name = "addi" <=> Funct3(word) = 0
    BY <1>2, <1>7, ImmediateMnemonics
  <2>3. /\ First(rs1, pc) = NamedFirst(name)
        /\ Second(rs2) = NamedSecond(name)
    <3>1. First(rs1, pc) = NamedFirst(name)
      BY <1>7, <2>2, NamesTakePC DEF First, ALUsrc1, NamedFirst
    <3>2. Second(rs2) = NamedSecond(name)
      BY <1>7, <2>2, NamesTakeRegisters DEF Second, ALUsrc2, Opcode, NamedSecond
    <3> QED BY <3>1, <3>2
  <2>4. \/ PerformedAs = ImmediateNames[f3] /\ op = IntegerOps[f3]
        \/ PerformedAs = MultiplyNames[f3] /\ op = MultiplyOps[f3]
    <3>1. CASE Funct3(word) = 0
      <4>1. ImmediateNames[1] = "addi" /\ IntegerOps[1] = "ADD"
        BY DEF ImmediateNames, IntegerOps
      <4>2. op = "ADD"
        BY <1>2, <1>7, <3>1 DEF SetALUop
      <4>3. PerformedAs = "addi"
        BY <2>2, <3>1 DEF PerformedAs, TakenForMultiplication, FromImmediate
      <4> QED BY <1>1, <3>1, <4>1, <4>2, <4>3
    <3>2. CASE Funct3(word) # 0
      <4>1. FromImmediate
        BY <1>7, <2>2, <3>2 DEF FromImmediate
      <4>2. imm \cap 6..31 = {}
        BY <4>1 DEF OperationIsLeft
      <4>3. imm \ (0..4) = {} \/ imm \ (0..4) = {5}
        <5>1. imm \subseteq Bit
          BY SetImmediateType DEF IInv
        <5>2. \A k \in imm \ (0..4) : k = 5
          BY <4>2, <5>1 DEF Bit
        <5> QED BY <5>2
      <4>4. op = OperationByFunct7(word, op)
        BY <1>2, <1>7, <3>2 DEF SetALUop
      <4>5. CASE Funct7(word) = Zero
        <5>1. op = IntegerOps[f3]
          BY <4>4, <4>5, Funct7Distinct DEF OperationByFunct7, f3
        <5>2. name = ImmediateNames[f3]
          BY <1>2, <1>7, <4>5 DEF Mnemonic, f3
        <5>3. ~TakenForMultiplication
          BY <2>1, <4>5, Funct7Distinct DEF TakenForMultiplication
        <5> QED BY <5>1, <5>2, <5>3 DEF PerformedAs
      <4>6. CASE Funct7(word) = One
        <5>1. op = MultiplyOps[f3]
          BY <4>4, <4>6, Funct7Distinct DEF OperationByFunct7, f3
        <5>2. TakenForMultiplication
          BY <2>1, <4>1, <4>6 DEF TakenForMultiplication
        <5> QED BY <5>1, <5>2 DEF PerformedAs, f3
      <4> QED BY <2>1, <4>3, <4>5, <4>6
    <3> QED BY <3>1, <3>2
  <2> HIDE DEF PerformedAs
  <2> QED BY <1>1, <2>3, <2>4, NumberedOperation
<1>8. CASE opcode = "R_TYPE"
  <2>1. op = OperationByFunct7(word, op) /\ name = RegisterName(word)
    BY <1>2, <1>8 DEF SetALUop, Mnemonic
  <2>2. Funct7(word) \in {Zero, One}
    <3>1. name \notin {"", "sub", "sra"}
      BY <1>3 DEF OperationIsLeft
    <3>2. CASE Funct7(word) = Alternate
      <4>1. name = AlternateNames[f3]
        BY <2>1, <3>2, Funct7Distinct DEF RegisterName, f3
      <4> QED BY <1>1, <3>1, <4>1, NamesOfNumbers
    <3>3. CASE Funct7(word) \notin {Zero, One, Alternate}
      <4>1. name = ""
        BY <2>1, <3>3 DEF RegisterName
      <4> QED BY <3>1, <4>1
    <3> QED BY <3>2, <3>3
  <2>3. \/ name = IntegerNames[f3] /\ op = IntegerOps[f3]
        \/ name = MultiplyNames[f3] /\ op = MultiplyOps[f3]
    BY <2>1, <2>2, Funct7Distinct DEF OperationByFunct7, RegisterName, f3
  <2>4. TakesRegisters(name) /\ ~TakesPC(name)
    BY <1>1, <2>3, NamesOfNumbers, NamesTakePC, NamesTakeRegisters
  <2>5. First(rs1, pc) = NamedFirst(name) /\ Second(rs2) = NamedSecond(name)
    BY <1>8, <2>4 DEF First, ALUsrc1, NamedFirst, Second, ALUsrc2, NamedSecond
  <2>6. PerformedAs = name
    BY <1>8, <1>10
  <2> HIDE DEF PerformedAs
  <2> QED BY <1>1, <2>3, <2>5, <2>6, NumberedOperation
<1>9. opcode # "OTHER"
  BY <1>2, <1>3 DEF Mnemonic
<1> QED BY <1>2, <1>4, <1>5, <1>6, <1>7, <1>8, <1>9, OpcodeOfType DEF Opcode

\* The names of the floating-point operations that the ALU has none of its own for.
OtherFloatNames ==
    {"fsgnj.s", "fsgnjn.s", "fsgnjx.s", "fmin.s", "fmax.s", "fsqrt.s", "feq.s", "flt.s",
     "fle.s", "fcvt.w.s", "fcvt.wu.s", "fcvt.s.w", "fcvt.s.wu", "fmv.x.w", "fclass.s",
     "fmv.w.x", ""}

LEMMA FloatNames ==
    ASSUME NEW w
    PROVE  IF Funct7(w) = Zero THEN FloatName(w) = "fadd.s"
           ELSE IF Funct7(w) = {2} THEN FloatName(w) = "fsub.s"
           ELSE IF Funct7(w) = {3} THEN FloatName(w) = "fmul.s"
           ELSE IF Funct7(w) = {2, 3} THEN FloatName(w) = "fdiv.s"
           ELSE FloatName(w) \in OtherFloatNames
<1> DEFINE f3(names) == IF Funct3(w) + 1 \in DOMAIN names THEN names[Funct3(w) + 1] ELSE ""
           by2(zero, one) == CASE Rs2(w) = Zero -> zero [] Rs2(w) = One -> one [] OTHER -> ""
           f7 == Funct7(w)
<1>1. FloatName(w) =
        CASE f7 = Zero -> "fadd.s"
          [] f7 = {2} -> "fsub.s"
          [] f7 = {3} -> "fmul.s"
          [] f7 = {2, 3} -> "fdiv.s"
          [] f7 = {4} -> f3(<<"fsgnj.s", "fsgnjn.s", "fsgnjx.s">>)
          [] f7 = {2, 4} -> f3(<<"fmin.s", "fmax.s">>)
          [] f7 = {2, 3, 5} -> "fsqrt.s"
          [] f7 = {4, 6} -> f3(<<"feq.s", "flt.s", "fle.s">>)
          [] f7 = {5, 6} -> by2("fcvt.w.s", "fcvt.wu.s")
          [] f7 = {3, 5, 6} -> by2("fcvt.s.w", "fcvt.s.wu")
          [] f7 = {4, 5, 6} -> f3(<<"fmv.x.w", "fclass.s">>)
          [] f7 = {3, 4, 5, 6} -> "fmv.w.x"
          [] OTHER -> ""
  BY DEF FloatName
<1>2. /\ f3(<<"fsgnj.s", "fsgnjn.s", "fsgnjx.s">>)
            \in {"fsgnj.s", "fsgnjn.s", "fsgnjx.s", ""}
      /\ f3(<<"feq.s", "flt.s", "fle.s">>) \in {"feq.s", "flt.s", "fle.s", ""}
      /\ f3(<<"fmin.s", "fmax.s">>) \in {"fmin.s", "fmax.s", ""}
      /\ f3(<<"fmv.x.w", "fclass.s">>) \in {"fmv.x.w", "fclass.s", ""}
  <2>1. ASSUME NEW a, NEW b, NEW c PROVE f3(<<a, b, c>>) \in {a, b, c, ""}
    <3> DEFINE s == <<a, b, c>>  i == Funct3(w) + 1
    <3>1. DOMAIN s = 1..3 /\ s[1] = a /\ s[2] = b /\ s[3] = c
      OBVIOUS
    <3>2. CASE i \notin 1..3
      BY <3>1, <3>2
    <3>3. CASE i \in 1..3
      <4>1. i = 1 \/ i = 2 \/ i = 3
        BY <3>3
      <4>2. f3(s) = s[i]
        BY <3>1, <3>3
      <4> HIDE DEF i, s
      <4> QED BY <3>1, <4>1, <4>2 DEF s
    <3> QED BY <3>2, <3>3
  <2>2. ASSUME NEW a, NEW b PROVE f3(<<a, b>>) \in {a, b, ""}
    <3> DEFINE s == <<a, b>>  i == Funct3(w) + 1
    <3>1. DOMAIN s = 1..2 /\ s[1] = a /\ s[2] = b
      OBVIOUS
    <3>2. CASE i \notin 1..2
      BY <3>1, <3>2
    <3>3. CASE i \in 1..2
      <4>1. i = 1 \/ i = 2
        BY <3>3
      <4>2. f3(s) = s[i]
        BY <3>1, <3>3
      <4> HIDE DEF i, s
      <4> QED BY <3>1, <4>1, <4>2 DEF s
    <3> QED BY <3>2, <3>3
  <2> HIDE DEF f3
  <2> QED BY <2>1, <2>2
<1>3. /\ by2("fcvt.w.s", "fcvt.wu.s") \in {"fcvt.w.s", "fcvt.wu.s", ""}
      /\ by2("fcvt.s.w", "fcvt.s.wu") \in {"fcvt.s.w", "fcvt.s.wu", ""}
  OBVIOUS
<1> HIDE DEF f3, by2
<1>9. ASSUME NEW s \in {{2}, {3}, {2, 3}}
      PROVE  s \notin {Zero, {4}, {2, 4}, {2, 3, 5}, {4, 6}, {5, 6}, {3, 5, 6},
                      {4, 5, 6}, {3, 4, 5, 6}}
  <2>1. Zero # s
    BY DEF Zero
  <2>2. 4 \notin s /\ 5 \notin s /\ 6 \notin s
    OBVIOUS
  <2>3. /\ 4 \in {4} /\ 4 \in {2, 4} /\ 5 \in {2, 3, 5} /\ 4 \in {4, 6} /\ 5 \in {5, 6}
        /\ 5 \in {3, 5, 6} /\ 4 \in {4, 5, 6} /\ 4 \in {3, 4, 5, 6}
    OBVIOUS
  <2> QED BY <2>1, <2>2, <2>3
<1>10. /\ {2} # {3} /\ {2} # {2, 3} /\ {3} # {2, 3}
       /\ Zero \notin {{2}, {3}, {2, 3}}
  BY DEF Zero
<1>11. f7 = {2} => FloatName(w) = "fsub.s"
  BY <1>1, <1>9, <1>10
<1>12. f7 = {3} => FloatName(w) = "fmul.s"
  BY <1>1, <1>9, <1>10
<1>13. f7 = {2, 3} => FloatName(w) = "fdiv.s"
  BY <1>1, <1>9, <1>10
<1>4. CASE f7 = Zero
  BY <1>1, <1>4 DEF Zero
<1>5. CASE f7 = {2}
  BY <1>11, <1>5, <1>10
<1>6. CASE f7 = {3}
  BY <1>12, <1>6, <1>10
<1>7. CASE f7 = {2, 3}
  BY <1>13, <1>7, <1>10
<1>8. CASE f7 \notin {Zero, {2}, {3}, {2, 3}}
  <2>1. FloatName(w) \in
          {f3(<<"fsgnj.s", "fsgnjn.s", "fsgnjx.s">>), f3(<<"fmin.s", "fmax.s">>),
           "fsqrt.s", f3(<<"feq.s", "flt.s", "fle.s">>), by2("fcvt.w.s", "fcvt.wu.s"),
           by2("fcvt.s.w", "fcvt.s.wu"), f3(<<"fmv.x.w", "fclass.s">>), "fmv.w.x", ""}
    BY <1>1, <1>8
  <2> QED
    <3> DEFINE a == f3(<<"fsgnj.s", "fsgnjn.s", "fsgnjx.s">>)
               b == f3(<<"fmin.s", "fmax.s">>)
               c == f3(<<"feq.s", "flt.s", "fle.s">>)
               d == by2("fcvt.w.s", "fcvt.wu.s")
               e == by2("fcvt.s.w", "fcvt.s.wu")
               g == f3(<<"fmv.x.w", "fclass.s">>)
    <3>1. {a, b, c, d, e, g} \subseteq OtherFloatNames
      <4>1. a \in OtherFloatNames
        BY <1>2 DEF OtherFloatNames
      <4>2. b \in OtherFloatNames
        BY <1>2 DEF OtherFloatNames
      <4>3. c \in OtherFloatNames
        BY <1>2 DEF OtherFloatNames
      <4>4. d \in OtherFloatNames /\ e \in OtherFloatNames
        BY <1>3 DEF OtherFloatNames
      <4>5. g \in OtherFloatNames
        BY <1>2 DEF OtherFloatNames
      <4> HIDE DEF a, b, c, d, e, g
      <4> QED BY <4>1, <4>2, <4>3, <4>4, <4>5
    <3>2. FloatName(w) \in {a, b, "fsqrt.s", c, d, e, g, "fmv.w.x", ""}
      BY <2>1
    <3>3. {"fsqrt.s", "fmv.w.x", ""} \subseteq OtherFloatNames
      BY DEF OtherFloatNames
    <3> HIDE DEF a, b, c, d, e, g
    <3>4. FloatName(w) \in {a, b, c, d, e, g} \/ FloatName(w) \in {"fsqrt.s", "fmv.w.x", ""}
      BY <3>2
    <3>5. FloatName(w) \in OtherFloatNames
      BY <3>1, <3>3, <3>4
    <3> QED BY <1>8, <3>5
<1> QED
  <2>1. CASE f7 = Zero
    BY <1>4, <1>10, <2>1
  <2>2. CASE f7 = {2}
    BY <1>5, <1>10, <2>2
  <2>3. CASE f7 = {3}
    BY <1>6, <1>10, <2>3
  <2>4. CASE f7 = {2, 3}
    BY <1>7, <1>10, <2>4
  <2>5. CASE f7 \notin {Zero, {2}, {3}, {2, 3}}
    BY <1>8, <2>5
  <2> QED BY <2>1, <2>2, <2>3, <2>4, <2>5

\* The floating-point operation that is performed is the one printed, or an addition.
LEMMA FloatsCompute ==
    ASSUME IInv, stage = "executed", opcode = "FP_TYPE"
    PROVE  op = IF Mnemonic(word) \in DOMAIN FloatMeaning THEN FloatMeaning[Mnemonic(word)]
                ELSE "ADD_FP"
<1>1. Mnemonic(word) = FloatName(word)
  BY DEF IInv, Mnemonic
<1>2. op = CASE Funct7(word) = {2} -> "SUB_FP"
             [] Funct7(word) = {3} -> "MUL_FP"
             [] Funct7(word) = {2, 3} -> "DIV_FP"
             [] OTHER -> "ADD_FP"
  BY DEF IInv, SetALUop
<1>3. /\ DOMAIN FloatMeaning = {"fadd.s", "fsub.s", "fmul.s", "fdiv.s"}
      /\ FloatMeaning["fadd.s"] = "ADD_FP" /\ FloatMeaning["fsub.s"] = "SUB_FP"
      /\ FloatMeaning["fmul.s"] = "MUL_FP" /\ FloatMeaning["fdiv.s"] = "DIV_FP"
  BY DEF FloatMeaning
<1>4. CASE Funct7(word) = Zero
  BY <1>1, <1>2, <1>3, <1>4, FloatNames DEF Zero
<1>5. CASE Funct7(word) \in {{2}, {3}, {2, 3}}
  BY <1>1, <1>2, <1>3, <1>5, FloatNames DEF Zero
<1>6. CASE Funct7(word) \notin {Zero, {2}, {3}, {2, 3}}
  <2>1. FloatName(word) \in OtherFloatNames
    BY <1>6, FloatNames
  <2>2. FloatName(word) \notin DOMAIN FloatMeaning
    BY <1>3, <2>1 DEF OtherFloatNames
  <2> QED BY <1>1, <1>2, <1>6, <2>2
<1> QED BY <1>4, <1>5, <1>6

\* A jump is printed as a jump, and a branch that is taken as one whose condition holds.
LEMMA JumpsAreNamed ==
    ASSUME TypeOK, IInv, NEW name, name = Mnemonic(word)
    PROVE  PCsel(opcode, Branch(opcode) /\ ShouldTakeBranch(Funct3(word), rs1, rs2))
             <=> name \in {"jal", "jalr"} \/ Condition(name)
<1> DEFINE f3 == Funct3(word) + 1
<1>1. f3 \in 1..8 /\ Funct3(word) = f3 - 1
  BY Funct3Range
<1>2. opcode = OpcodeOf(word)
  BY DEF IInv
<1> HIDE DEF f3
<1>3. CASE opcode \in {"JAL", "JALR"}
  BY <1>2, <1>3 DEF Mnemonic, PCsel
<1>4. CASE opcode = "SB_TYPE"
  <2>1. name = BranchNames[f3]
    BY <1>2, <1>4 DEF Mnemonic, f3
  <2>2. PCsel(opcode, Branch(opcode) /\ ShouldTakeBranch(Funct3(word), rs1, rs2))
          <=> ShouldTakeBranch(Funct3(word), rs1, rs2)
    BY <1>4 DEF PCsel, Branch
  <2>3. Signed(rs1) \in Int /\ Signed(rs2) \in Int /\ rs1 \in Int /\ rs2 \in Int
    BY SignedType, ValueType DEF TypeOK
  <2>4. name \notin {"jal", "jalr"}
    BY <1>1, <2>1, NamesOfNumbers
  <2>5. ShouldTakeBranch(f3 - 1, rs1, rs2) <=> Condition(BranchNames[f3])
    <3> DEFINE taken(k) == ShouldTakeBranch(k, rs1, rs2)
    <3>1. taken(0) <=> Condition("beq")
      BY DEF ShouldTakeBranch, Condition
    <3>2. taken(1) <=> Condition("bne")
      BY DEF ShouldTakeBranch, Condition
    <3>3. ~taken(2) /\ ~taken(3) /\ ~Condition("")
      BY DEF ShouldTakeBranch, Condition
    <3>4. taken(4) <=> Condition("blt")
      BY DEF ShouldTakeBranch, Condition
    <3>5. taken(5) <=> Condition("bge")
      BY <2>3 DEF ShouldTakeBranch, Condition
    <3>6. taken(6) <=> Condition("bltu")
      BY DEF ShouldTakeBranch, Condition
    <3>7. taken(7) <=> Condition("bgeu")
      BY <2>3 DEF ShouldTakeBranch, Condition
    <3> HIDE DEF taken
    <3>8. taken(f3 - 1) <=> Condition(BranchNames[f3])
      <4>1. /\ BranchNames[1] = "beq" /\ BranchNames[2] = "bne"
            /\ BranchNames[3] = "" /\ BranchNames[4] = ""
            /\ BranchNames[5] = "blt" /\ BranchNames[6] = "bge"
            /\ BranchNames[7] = "bltu" /\ BranchNames[8] = "bgeu"
        BY NamesByNumber
      <4>2. CASE f3 = 1
        <5>1. f3 - 1 = 0
          BY <4>2
        <5> QED BY <3>1, <4>1, <4>2, <5>1
      <4>3. CASE f3 = 2
        <5>1. f3 - 1 = 1
          BY <4>3
        <5> QED BY <3>2, <4>1, <4>3, <5>1
      <4>4. CASE f3 = 3
        <5>1. f3 - 1 = 2
          BY <4>4
        <5> QED BY <3>3, <4>1, <4>4, <5>1
      <4>5. CASE f3 = 4
        <5>1. f3 - 1 = 3
          BY <4>5
        <5> QED BY <3>3, <4>1, <4>5, <5>1
      <4>6. CASE f3 = 5
        <5>1. f3 - 1 = 4
          BY <4>6
        <5> QED BY <3>4, <4>1, <4>6, <5>1
      <4>7. CASE f3 = 6
        <5>1. f3 - 1 = 5
          BY <4>7
        <5> QED BY <3>5, <4>1, <4>7, <5>1
      <4>8. CASE f3 = 7
        <5>1. f3 - 1 = 6
          BY <4>8
        <5> QED BY <3>6, <4>1, <4>8, <5>1
      <4>9. CASE f3 = 8
        <5>1. f3 - 1 = 7
          BY <4>9
        <5> QED BY <3>7, <4>1, <4>9, <5>1
      <4> QED
        BY <1>1, <4>2, <4>3, <4>4, <4>5, <4>6, <4>7, <4>8, <4>9, OneToEight
    <3> QED BY <3>8 DEF taken
  <2> QED BY <1>1, <2>1, <2>2, <2>4, <2>5
<1>5. CASE opcode \notin {"JAL", "JALR", "SB_TYPE"}
  <2>1. ~PCsel(opcode, Branch(opcode) /\ ShouldTakeBranch(Funct3(word), rs1, rs2))
    BY <1>5 DEF PCsel
  <2>2. name \notin {"jal", "jalr", "beq", "bne", "blt", "bge", "bltu", "bgeu"}
    <3>1. CASE opcode \in {"LOAD", "LOAD_FP", "S_TYPE", "S_TYPE_FP", "I_TYPE", "AUIPC", "LUI"}
      BY <1>1, <1>2, <3>1, NamesOfNumbers DEF Mnemonic, f3
    <3>2. CASE opcode = "R_TYPE"
      <4>1. name = RegisterName(word)
        BY <1>2, <3>2 DEF Mnemonic
      <4> QED BY <1>1, <4>1, NamesOfNumbers DEF RegisterName, f3
    <3>3. CASE opcode = "FP_TYPE"
      <4>1. name = FloatName(word)
        BY <1>2, <3>3 DEF Mnemonic
      <4> QED BY <4>1, FloatNames DEF OtherFloatNames
    <3>4. CASE opcode = "OTHER"
      BY <1>2, <3>4 DEF Mnemonic
    <3> QED BY <1>2, <1>5, <3>1, <3>2, <3>3, <3>4, OpcodeOfType DEF Opcode
  <2> QED BY <2>1, <2>2 DEF Condition
<1> QED BY <1>3, <1>4, <1>5

-----------------------------------------------------------------------------
\* The theorems.

\* Of every 32-bit word, setImmediate gives the immediate that the word encodes,
\* but for stores with a negative offset and jumps whose offset the shifts change.
THEOREM ImmediatesAreEncodedAlways == Spec => []ImmediatesAreEncoded
<1>1. IInv => ImmediatesAreEncoded
  <2> SUFFICES ASSUME IInv PROVE ImmediatesAreEncoded
    OBVIOUS
  <2>1. word \in SUBSET Bit /\ opcode = OpcodeOf(word) /\ imm = SetImmediate(word)
    BY DEF IInv
  <2>2. opcode \in FormatI \cup FormatS \cup FormatU
          \cup {"SB_TYPE", "JAL", "R_TYPE", "FP_TYPE", "OTHER"}
    BY <2>1, OpcodeOfType DEF Opcode, FormatI, FormatS, FormatU
  <2>3. CASE opcode = "JAL"
    BY <2>1, <2>3, ImmediateJIsEncoded DEF ImmediatesAreEncoded
  <2>4. CASE opcode \in FormatS
    BY <2>1, <2>4, ImmediateSIsEncoded DEF ImmediatesAreEncoded, FormatS
  <2>5. CASE opcode \notin FormatS \cup {"JAL"}
    <3>1. imm = EncodedImmediate(word)
      BY <2>1, <2>2, <2>5, ImmediateIIsEncoded, ImmediateUIsEncoded,
         ImmediateSBIsEncoded, NoImmediateIsEncoded
    <3> QED BY <2>5, <3>1 DEF ImmediatesAreEncoded, FormatS
  <2> QED BY <2>3, <2>4, <2>5
<1> QED BY <1>1, IInvHolds, PTL

\* Of every word whose operation is assigned, the result is that of the
\* instruction it is printed as, or of the multiplication or division that its
\* immediate makes of it, on all operands but those of Differs, and the pc is
\* changed by the instructions printed as jumps or as branches whose condition
\* holds; a floating-point operation is the one printed, or an addition.
THEOREM ComputesWhatItIsNamedAlways == Spec => []ComputesWhatItIsNamed
<1>1. TypeOK /\ IInv => ComputesWhatItIsNamed
  <2> SUFFICES ASSUME TypeOK, IInv PROVE ComputesWhatItIsNamed
    OBVIOUS
  <2> DEFINE name == Mnemonic(word)  x == NamedFirst(name)  y == NamedSecond(name)
  <2>1. ImmediateOperand \in Value
    <3>1. imm \cap 0..Width - 1 \in SUBSET (0..Width - 1)
      OBVIOUS
    <3> QED BY <3>1, NumberHasBits DEF ImmediateOperand
  <2>2. x \in Value /\ y \in Value
    BY <2>1 DEF TypeOK, NamedFirst, NamedSecond
  <2>3. ASSUME stage = "executed", opcode # "FP_TYPE", Named, ~OperationIsLeft
        PROVE  result = Meaning(PerformedAs, x, y) <=> ~Differs(PerformedAs, x, y)
    <3> HIDE DEF name, x, y
    <3>1. /\ op \notin FloatOps
          /\ First(rs1, pc) = NamedFirst(name) /\ Second(rs2) = NamedSecond(name)
          /\ Computes(op, PerformedAs, x, y)
      BY <2>2, <2>3, WordComputes DEF name
    <3>2. result = DoTheThing(op, x, y)
      BY <2>3, <3>1 DEF IInv, x, y
    <3> QED BY <3>1, <3>2 DEF Computes
  <2>4. stage = "executed" => (jumps <=> name \in {"jal", "jalr"} \/ Condition(name))
    <3>1. stage = "executed" =>
            (jumps <=> PCsel(opcode, Branch(opcode) /\ ShouldTakeBranch(Funct3(word), rs1, rs2)))
      BY DEF IInv
    <3> QED BY <3>1, JumpsAreNamed
  <2>5. stage = "executed" /\ opcode = "FP_TYPE" =>
          op = IF name \in DOMAIN FloatMeaning THEN FloatMeaning[name] ELSE "ADD_FP"
    BY FloatsCompute
  <2> HIDE DEF name, x, y
  <2>6. /\ stage = "executed" /\ opcode # "FP_TYPE" /\ Named /\ ~OperationIsLeft =>
             (result = Meaning(PerformedAs, x, y) <=> ~Differs(PerformedAs, x, y))
        /\ stage = "executed" => (jumps <=> name \in {"jal", "jalr"} \/ Condition(name))
        /\ stage = "executed" /\ opcode = "FP_TYPE" =>
             op = IF name \in DOMAIN FloatMeaning THEN FloatMeaning[name] ELSE "ADD_FP"
    BY <2>3, <2>4, <2>5
  <2> QED BY <2>6 DEF ComputesWhatItIsNamed, name, x, y
<1> QED BY <1>1, IInvHolds, SpecTypeOK, PTL

\* Floating-point words are not performed as divisions of registers.
LEMMA FloatsDoNotDivide ==
    ASSUME IInv, opcode = "FP_TYPE"
    PROVE  PerformedAs \notin {"div", "rem"}
<1>1. PerformedAs = FloatName(word)
  BY DEF IInv, PerformedAs, TakenForMultiplication, FromImmediate, Mnemonic
<1>2. FloatName(word) \in {"fadd.s", "fsub.s", "fmul.s", "fdiv.s"} \cup OtherFloatNames
  BY FloatNames
<1> QED BY <1>1, <1>2 DEF OtherFloatNames

\* Whatever the registers hold, the simulator is killed by the division of the
\* least number by -1 only, and by every one that is performed as div or rem.
THEOREM OnlyDivisionsCrashAlways == Spec => []OnlyDivisionsCrash
<1>1. TypeOK /\ IInv => OnlyDivisionsCrash
  <2> SUFFICES ASSUME TypeOK, IInv PROVE OnlyDivisionsCrash
    OBVIOUS
  <2> DEFINE name == Mnemonic(word)
             overflows == 2 * rs1 = Modulus /\ Signed(NamedSecond(name)) = -1
  <2>1. opcode = OpcodeOf(word) /\ (stage # "fetched" => op = SetALUop(word, op))
    BY DEF IInv
  <2>2. ASSUME opcode = "R_TYPE" \/ (opcode = "I_TYPE" /\ Funct3(word) # 0)
        PROVE  First(rs1, pc) = rs1 /\ Second(rs2) = NamedSecond(name)
    <3>1. First(rs1, pc) = rs1
      BY <2>2 DEF First, ALUsrc1
    <3>2. CASE opcode = "I_TYPE"
      <4>1. name \in {"addi", "slli", "slti", "sltui", "xori", "srli", "ori", "andi", "srai"}
        BY <2>1, <3>2, ImmediateMnemonics
      <4> QED BY <3>1, <3>2, <4>1, NamesTakeRegisters DEF Second, ALUsrc2, Opcode, NamedSecond
    <3>3. CASE opcode = "R_TYPE"
      <4>1. name = RegisterName(word)
        BY <2>1, <3>3 DEF Mnemonic
      <4>2. TakesRegisters(name)
        <5>1. Funct3(word) + 1 \in 1..8
          BY Funct3Range
        <5> QED BY <4>1, <5>1, NamesOfNumbers, NamesTakeRegisters DEF RegisterName
      <4> QED BY <3>1, <3>3, <4>2 DEF Second, ALUsrc2, NamedSecond
    <3> QED BY <2>2, <3>2, <3>3
  <2>3. ASSUME stage = "crashed" PROVE overflows
    <3>1. op \in {"DIV", "REM"} /\ 2 * First(rs1, pc) = Modulus /\ Signed(Second(rs2)) = -1
      BY <2>3 DEF IInv, Traps
    <3>2. opcode = "R_TYPE" \/ (opcode = "I_TYPE" /\ Funct3(word) # 0)
      BY <2>1, <2>3, <3>1, OtherWordsDoNotDivide
    <3> QED BY <2>2, <3>1, <3>2
  <2>4. ASSUME stage \in {"executed", "crashed"}, Named, ~OperationIsLeft
        PROVE  stage = "crashed" <=> PerformedAs \in {"div", "rem"} /\ overflows
    <3>1. stage = "crashed" <=> Traps(op, First(rs1, pc), Second(rs2))
      BY <2>4 DEF IInv
    <3>2. CASE opcode = "FP_TYPE"
      <4>1. PerformedAs \notin {"div", "rem"}
        BY <3>2, FloatsDoNotDivide
      <4>2. op \notin {"DIV", "REM"}
        BY <2>1, <2>4, <3>2, OtherWordsDoNotDivide
      <4> QED BY <3>1, <4>1, <4>2 DEF Traps
    <3>3. CASE opcode # "FP_TYPE"
      <4>1. 0 \in Value
        BY ModulusType DEF Value
      <4>2. op \in {"DIV", "REM"} <=> PerformedAs \in {"div", "rem"}
        BY <2>4, <3>3, <4>1, WordComputes
      <4>3. CASE op \in {"DIV", "REM"}
        <5>1. opcode = "R_TYPE" \/ (opcode = "I_TYPE" /\ Funct3(word) # 0)
          BY <2>1, <2>4, <4>3, OtherWordsDoNotDivide
        <5> QED BY <2>2, <3>1, <4>2, <4>3, <5>1 DEF Traps
      <4>4. CASE op \notin {"DIV", "REM"}
        BY <3>1, <4>2, <4>4 DEF Traps
      <4> QED BY <4>3, <4>4
    <3> QED BY <3>2, <3>3
  <2> HIDE DEF name
  <2> QED BY <2>3, <2>4 DEF OnlyDivisionsCrash, name
<1> QED BY <1>1, IInvHolds, SpecTypeOK, PTL

-----------------------------------------------------------------------------
\* The decoder of src/HW3.

\* A word that both decoders know.
Known(w) == w \in SUBSET Bit /\ OpcodeOf(w) \notin {"FP_TYPE", "OTHER"}

LEMMA GetImmediateAgrees ==
    ASSUME NEW w, Known(w)
    PROVE  GetImmediate(w) = SetImmediate(w) <=> (OpcodeOf(w) = "SB_TYPE" => OffsetIsClean(w))
<1>1. Lab3OpcodeOf(w) = OpcodeOf(w)
  BY DEF Known, Lab3OpcodeOf
<1>2. CASE OpcodeOf(w) \in {"S_TYPE", "S_TYPE_FP"}
  <2>1. GetImmediate(w) = (Sra(w, 20) \cap 5..11) \cup (Srl(w, 7) \cap 0..4)
    BY <1>1, <1>2 DEF GetImmediate
  <2>2. SetImmediate(w) = ImmediateS(w)
    BY <1>2 DEF SetImmediate
  <2>3. Srl(w, 7) \cap 0..4 = Field(w, 7, 5)
    BY DEF Srl, Field, Bit
  <2> QED BY <1>2, <2>1, <2>2, <2>3 DEF ImmediateS
<1>3. CASE OpcodeOf(w) = "SB_TYPE"
  <2> DEFINE bits == (Srl(w, 7) \cap 1..4) \cup Shl(Field(w, 25, 6), 5)
                        \cup Shl(Field(w, 7, 1), 11) \cup Shl(Srl(w, 31), 12)
             theirs == Lab3ImmediateSB(w)
             ours == ImmediateSB(w)
  <2>1. GetImmediate(w) = theirs /\ SetImmediate(w) = ours
    BY <1>1, <1>3 DEF GetImmediate, SetImmediate
  <2>2. \A k \in 0..12 : k \in bits <=>
          \/ k \in 1..4 /\ k + 7 \in w
          \/ k \in 5..10 /\ k + 20 \in w
          \/ k = 11 /\ 7 \in w
          \/ k = 12 /\ 31 \in w
    BY DEF Srl, Shl, Field, Bit
  <2>3. \A k \in Bit : k \in ours <=> (IF k <= 12 THEN k \in bits ELSE 12 \in bits)
    BY DEF ImmediateSB, Sra, Shl, Bit
  <2>4. \A k \in Bit : k \in ours <=>
          \/ k \in 1..4 /\ k + 7 \in w
          \/ k \in 5..10 /\ k + 20 \in w
          \/ k = 11 /\ 7 \in w
          \/ k >= 12 /\ 31 \in w
    <3> HIDE DEF bits, ours
    <3> QED BY <2>2, <2>3 DEF Bit
  <2>5. \A k \in Bit : k \in theirs <=>
          \/ k <= 12 /\ k + 19 \in w
          \/ k \in 1..4 /\ k + 7 \in w
          \/ k = 11 /\ 7 \in w
          \/ k > 12 /\ 31 \in w
    BY DEF Lab3ImmediateSB, Srl, Sra, Shl, Bit, Known
  <2>6. theirs \subseteq Bit /\ ours \subseteq Bit
    BY DEF Lab3ImmediateSB, ImmediateSB, Srl, Sra, Shl, Bit
  <2> HIDE DEF theirs, ours
  <2>7. ASSUME theirs = ours PROVE OffsetIsClean(w)
    <3>1. 19 \notin w
      <4>1. 0 \in theirs <=> 19 \in w
        BY <2>5 DEF Bit
      <4>2. 0 \notin ours
        BY <2>4 DEF Bit
      <4> QED BY <2>7, <4>1, <4>2
    <3>2. \A k \in 1..4 : k + 19 \in w => k + 7 \in w
      BY <2>4, <2>5, <2>7 DEF Bit
    <3>3. \A k \in 5..10 : k + 19 \in w <=> k + 20 \in w
      BY <2>4, <2>5, <2>7 DEF Bit
    <3>4. 30 \in w => 7 \in w
      <4>1. (11 \in theirs <=> 30 \in w \/ 7 \in w) /\ (11 \in ours <=> 7 \in w)
        BY <2>4, <2>5 DEF Bit
      <4> QED BY <2>7, <4>1
    <3>5. 24..30 \subseteq w \/ w \cap 24..30 = {}
      <4>1. /\ 24 \in w <=> 25 \in w
            /\ 25 \in w <=> 26 \in w
            /\ 26 \in w <=> 27 \in w
            /\ 27 \in w <=> 28 \in w
            /\ 28 \in w <=> 29 \in w
            /\ 29 \in w <=> 30 \in w
        BY <3>3
      <4>2. \A k \in 24..30 : k \in {24, 25, 26, 27, 28, 29, 30}
        OBVIOUS
      <4> QED BY <4>1, <4>2
    <3> QED BY <3>1, <3>2, <3>4, <3>5 DEF OffsetIsClean
  <2>8. ASSUME OffsetIsClean(w) PROVE theirs = ours
    <3>1. 19 \notin w /\ (30 \in w => 7 \in w)
      BY <2>8 DEF OffsetIsClean
    <3>2. \A k \in 1..4 : k + 19 \in w => k + 7 \in w
      BY <2>8 DEF OffsetIsClean
    <3>3. \A k \in 5..10 : k + 19 \in w <=> k + 20 \in w
      BY <2>8 DEF OffsetIsClean
    <3>4. \A k \in Bit : k \in theirs <=> k \in ours
      <4> SUFFICES ASSUME NEW k \in Bit PROVE k \in theirs <=> k \in ours
        OBVIOUS
      <4>1. CASE k \in 0..4
        BY <2>4, <2>5, <3>1, <3>2, <4>1
      <4>2. CASE k \in 5..10
        BY <2>4, <2>5, <3>3, <4>2
      <4>3. CASE k \in 11..31
        BY <2>4, <2>5, <3>1, <4>3
      <4> QED BY <4>1, <4>2, <4>3 DEF Bit
    <3> QED BY <2>6, <3>4
  <2> QED BY <1>3, <2>1, <2>7, <2>8
<1>4. CASE OpcodeOf(w) \in FormatI
  BY <1>1, <1>4 DEF GetImmediate, SetImmediate, ImmediateI, FormatI
<1>5. CASE OpcodeOf(w) \in FormatU
  BY <1>1, <1>5 DEF GetImmediate, SetImmediate, ImmediateU, FormatU
<1>6. CASE OpcodeOf(w) = "JAL"
  BY <1>1, <1>6 DEF GetImmediate, SetImmediate, ImmediateJ
<1>7. CASE OpcodeOf(w) = "R_TYPE"
  BY <1>1, <1>7 DEF GetImmediate, SetImmediate
<1> QED BY <1>2, <1>3, <1>4, <1>5, <1>6, <1>7, OpcodeOfType
        DEF Known, Opcode, FormatI, FormatU

LEMMA SingletonCardinality ==
    ASSUME NEW x PROVE ~(Cardinality({x}) > 1)
<1>1. Cardinality({x}) = 1
  BY FS_Singleton
<1> QED BY <1>1

\* The mnemonics of the words that both know.
LEMMA MnemonicsAgree ==
    ASSUME NEW w, Known(w)
    PROVE  /\ Mnemonic(w) \in Lab3Mnemonics(w)
                <=> (OpcodeOf(w) = "S_TYPE_FP" => Funct3(w) \notin {2, 4})
           /\ Cardinality(Lab3Mnemonics(w)) > 1 <=> OpcodeOf(w) = "I_TYPE" /\ Funct3(w) = 5
<1>1. Lab3OpcodeOf(w) = OpcodeOf(w)
  BY DEF Known, Lab3OpcodeOf
<1>2. Funct3(w) + 1 = 6 <=> Funct3(w) = 5
  BY Funct3Range
<1>3. CASE OpcodeOf(w) = "I_TYPE" /\ Funct3(w) = 5
  <2>1. Lab3Mnemonics(w) = {"srli", "srai"}
    BY <1>1, <1>2, <1>3 DEF Lab3Mnemonics
  <2>2. Mnemonic(w) = IF Funct7(w) # Zero THEN "srai" ELSE ImmediateNames[6]
    BY <1>2, <1>3 DEF Mnemonic
  <2>3. ImmediateNames[6] = "srli"
    BY DEF ImmediateNames
  <2>4. Cardinality({"srli", "srai"}) = 2
    <3>1. IsFiniteSet({"srli"}) /\ Cardinality({"srli"}) = 1
      BY FS_Singleton
    <3>2. {"srli", "srai"} = {"srli"} \cup {"srai"} /\ "srai" \notin {"srli"}
      OBVIOUS
    <3>3. Cardinality({"srli"} \cup {"srai"}) = 1 + 1
      BY <3>1, <3>2, FS_AddElement
    <3> QED BY <3>2, <3>3
  <2> QED BY <1>3, <2>1, <2>2, <2>3, <2>4
<1>4. CASE OpcodeOf(w) = "S_TYPE_FP"
  <2>1. /\ Funct3(w) + 1 = 5 <=> Funct3(w) = 4
        /\ Funct3(w) + 1 = 3 <=> Funct3(w) = 2
        /\ ~(Funct3(w) = 2 /\ Funct3(w) = 4)
    BY Funct3Range
  <2>2. Mnemonic(w) = (IF Funct3(w) + 1 = 5 THEN "fsw" ELSE "")
    BY <1>4 DEF Mnemonic
  <2>3. Lab3Mnemonics(w) = {IF Funct3(w) + 1 = 3 THEN "fsw" ELSE ""}
    BY <1>1, <1>4 DEF Lab3Mnemonics
  <2>4. Mnemonic(w) \in Lab3Mnemonics(w) <=> Funct3(w) \notin {2, 4}
    BY <2>1, <2>2, <2>3
  <2> QED BY <1>4, <2>3, <2>4, SingletonCardinality
<1>5. CASE OpcodeOf(w) # "S_TYPE_FP" /\ ~(OpcodeOf(w) = "I_TYPE" /\ Funct3(w) = 5)
  <2>1. Lab3Mnemonics(w) = {Mnemonic(w)}
    BY <1>1, <1>2, <1>5, OpcodeOfType DEF Known, Opcode, Lab3Mnemonics, Mnemonic
  <2> QED BY <1>5, <2>1, SingletonCardinality
<1> QED BY <1>3, <1>4, <1>5

\* The two know fsw by different values of funct3.
LEMMA FloatStoreOperandsAgree ==
    ASSUME NEW w, OpcodeOf(w) = "S_TYPE_FP"
    PROVE  Lab3Operands(w) = Operands(w) <=> Funct3(w) \notin {2, 4}
<1>1. Lab3OpcodeOf(w) = "S_TYPE_FP"
  BY DEF Lab3OpcodeOf
<1>2. /\ Funct3(w) + 1 = 5 <=> Funct3(w) = 4
      /\ ~(Funct3(w) = 2 /\ Funct3(w) = 4)
  BY Funct3Range
<1>3. Mnemonic(w) = (IF Funct3(w) + 1 = 5 THEN "fsw" ELSE "")
  BY DEF Mnemonic
<1>4. Mnemonic(w) # "" <=> Funct3(w) = 4
  BY <1>2, <1>3
<1>5. Operands(w) = IF Funct3(w) = 4 THEN StoreOperands(w) ELSE << >>
  BY <1>4 DEF Operands
<1>6. Lab3Operands(w) =
        IF Funct3(w) = 2 THEN <<Rs2(w), GetImmediate(w), Rs1(w)>> ELSE << >>
  BY <1>1 DEF Lab3Operands
<1>7. StoreOperands(w) # << >> /\ <<Rs2(w), GetImmediate(w), Rs1(w)>> # << >>
  BY DEF StoreOperands
<1> QED BY <1>2, <1>5, <1>6, <1>7

LEMMA OperandsAgree ==
    ASSUME NEW w, Known(w), OpcodeOf(w) \notin {"S_TYPE", "S_TYPE_FP", "SB_TYPE"}
    PROVE  Lab3Operands(w) = Operands(w)
<1>1. Lab3OpcodeOf(w) = OpcodeOf(w)
  BY DEF Known, Lab3OpcodeOf
<1>2. GetImmediate(w) = SetImmediate(w)
  BY GetImmediateAgrees
<1>3. CASE OpcodeOf(w) = "LOAD_FP"
  <2>1. Funct3(w) + 1 = 3 <=> Funct3(w) = 2
    BY Funct3Range
  <2>2. Mnemonic(w) = (IF Funct3(w) + 1 = 3 THEN "flw" ELSE "")
    BY <1>3 DEF Mnemonic
  <2>3. Mnemonic(w) # "" <=> Funct3(w) = 2
    BY <2>1, <2>2
  <2>4. CASE Funct3(w) = 2
    BY <1>1, <1>2, <1>3, <2>3, <2>4 DEF Lab3Operands, Operands
  <2>5. CASE Funct3(w) # 2
    BY <1>1, <1>3, <2>3, <2>5 DEF Lab3Operands, Operands
  <2> QED BY <2>4, <2>5
<1>4. CASE OpcodeOf(w) # "LOAD_FP"
  BY <1>1, <1>2, <1>4, OpcodeOfType DEF Known, Opcode, Lab3Operands, Operands
<1> QED BY <1>3, <1>4

LEMMA StoreOperandsAgree ==
    ASSUME NEW w, Known(w), OpcodeOf(w) = "S_TYPE"
    PROVE  Lab3Operands(w) = <<Operands(w)[3], Operands(w)[2], Operands(w)[1]>>
<1>1. Lab3Operands(w) = <<Rs2(w), GetImmediate(w), Rs1(w)>>
  BY DEF Lab3Operands, Lab3OpcodeOf
<1>2. Operands(w) = <<Rs1(w), SetImmediate(w), Rs2(w)>>
  BY DEF Operands, StoreOperands
<1>3. GetImmediate(w) = SetImmediate(w)
  BY GetImmediateAgrees
<1> QED BY <1>1, <1>2, <1>3

LEMMA BranchOperandsAgree ==
    ASSUME NEW w, OpcodeOf(w) = "SB_TYPE"
    PROVE  Lab3Operands(w) = <<Operands(w)[1], Operands(w)[2], GetImmediate(w)>>
<1>1. Lab3Operands(w) = <<Rs1(w), Rs2(w), GetImmediate(w)>>
  BY DEF Lab3Operands, Lab3OpcodeOf
<1>2. Operands(w) = <<Rs1(w), Rs2(w), SetImmediate(w)>>
  BY DEF Operands
<1> QED BY <1>1, <1>2

LEMMA SignalsAgree ==
    ASSUME NEW w, Known(w), NEW s \in SignalsOf(w)
    PROVE  /\ s["regWrite"] = RegWrite(OpcodeOf(w))
           /\ s["memWrite"] = MemWrite(OpcodeOf(w))
           /\ s["memRead"] = MemRead(OpcodeOf(w))
           /\ s["memToReg"] = (WBsel(OpcodeOf(w)) = 0)
           /\ s["branch"] = Branch(OpcodeOf(w))
           /\ s["jump"] = PCsel(OpcodeOf(w), FALSE)
           /\ s["ALUsrc"] = (ALUsrc2(OpcodeOf(w)) /\ OpcodeOf(w) # "SB_TYPE")
<1>1. Lab3OpcodeOf(w) = OpcodeOf(w)
  BY DEF Known, Lab3OpcodeOf
<1> USE DEF RegWrite, MemWrite, MemRead, WBsel, Branch, PCsel, ALUsrc2, Opcode, Signals
<1>2. CASE OpcodeOf(w) \in {"LOAD", "LOAD_FP"}
  BY <1>1, <1>2 DEF SignalsOf
<1>3. CASE OpcodeOf(w) \in {"I_TYPE", "AUIPC", "LUI"}
  BY <1>1, <1>3 DEF SignalsOf
<1>4. CASE OpcodeOf(w) \in {"S_TYPE", "S_TYPE_FP"}
  BY <1>1, <1>4 DEF SignalsOf
<1>5. CASE OpcodeOf(w) = "R_TYPE"
  BY <1>1, <1>5 DEF SignalsOf
<1>6. CASE OpcodeOf(w) = "SB_TYPE"
  BY <1>1, <1>6 DEF SignalsOf
<1>7. CASE OpcodeOf(w) = "JALR"
  BY <1>1, <1>7 DEF SignalsOf
<1>8. CASE OpcodeOf(w) = "JAL"
  BY <1>1, <1>8 DEF SignalsOf
<1> QED BY <1>2, <1>3, <1>4, <1>5, <1>6, <1>7, <1>8, OpcodeOfType DEF Known

\* Of every word that both know, the decoders of src/HW3 and src/HW4 say the
\* same, but for what DecodersAgree excepts.
THEOREM DecodersAgreeAlways == Spec => []DecodersAgree
<1>1. IInv => DecodersAgree
  <2> SUFFICES ASSUME IInv, opcode \notin {"FP_TYPE", "OTHER"} PROVE DecodersAgree
    BY DEF DecodersAgree
  <2>1. Known(word) /\ opcode = OpcodeOf(word) /\ imm = SetImmediate(word)
    BY DEF IInv, Known
  <2>2. GetImmediate(word) = imm <=> (opcode = "SB_TYPE" => OffsetIsClean(word))
    BY <2>1, GetImmediateAgrees
  <2>3. /\ Mnemonic(word) \in Lab3Mnemonics(word)
             <=> (opcode = "S_TYPE_FP" => Funct3(word) \notin {2, 4})
        /\ Cardinality(Lab3Mnemonics(word)) > 1 <=> opcode = "I_TYPE" /\ Funct3(word) = 5
    BY <2>1, MnemonicsAgree
  <2>4. opcode = "S_TYPE_FP" =>
          (Lab3Operands(word) = Operands(word) <=> Funct3(word) \notin {2, 4})
    BY <2>1, FloatStoreOperandsAgree
  <2>5. opcode = "S_TYPE" =>
          Lab3Operands(word) = <<Operands(word)[3], Operands(word)[2], Operands(word)[1]>>
    BY <2>1, StoreOperandsAgree
  <2>6. opcode = "SB_TYPE" =>
          Lab3Operands(word) = <<Operands(word)[1], Operands(word)[2], GetImmediate(word)>>
    BY <2>1, BranchOperandsAgree
  <2>7. opcode \notin {"S_TYPE", "S_TYPE_FP", "SB_TYPE"} =>
          Lab3Operands(word) = Operands(word)
    BY <2>1, OperandsAgree
  <2>8. \A s \in SignalsOf(word) :
          /\ s["regWrite"] = RegWrite(opcode)
          /\ s["memWrite"] = MemWrite(opcode)
          /\ s["memRead"] = MemRead(opcode)
          /\ s["memToReg"] = (WBsel(opcode) = 0)
          /\ s["branch"] = Branch(opcode)
          /\ s["jump"] = PCsel(opcode, FALSE)
          /\ s["ALUsrc"] = (ALUsrc2(opcode) /\ opcode # "SB_TYPE")
    BY <2>1, SignalsAgree
  <2> QED BY <2>2, <2>3, <2>4, <2>5, <2>6, <2>7, <2>8 DEF DecodersAgree
<1> QED BY <1>1, IInvHolds, PTL

=============================================================================
