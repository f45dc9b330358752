--------------------------------- MODULE ALU ----------------------------------
(***************************************************************************)
(* ALU::doTheThing of src/HW4/ALU.h on registers of Width bits (32 in the  *)
(* code).  x and y are its int32_t operands, as members of Value.  The     *)
(* floating-point operations are left out: their results are dropped by    *)
(* Instruction::setALUfloatResult.                                         *)
(***************************************************************************)
EXTENDS Instruction

CONSTANT Width      \* 32: the bits of a register

ASSUME WidthAssumption == Width \in Nat \ {0} /\ Modulus = 2^Width

\* A number brought back into a register.  (Mutation: it keeps its 64 bits.)
UnsignedKept(n) == n
Unsigned(n) == n % Modulus

\* A register as its bits, for the bitwise operations, and back.
BitsOf(x) == {k \in 0..Width - 1 : (x \div 2^k) % 2 = 1}
NumberOf(bits) == CHOOSE x \in Value : BitsOf(x) = bits

\* The count of a shift: the x86 instruction takes its low bits only.
Count(y) == y % Width

\* C++'s / and % on integers: the quotient is rounded towards 0.
Magnitude(n) == IF n < 0 THEN -n ELSE n
Quotient(n, d) ==
    IF (n < 0) = (d < 0) THEN Magnitude(n) \div Magnitude(d)
    ELSE -(Magnitude(n) \div Magnitude(d))
Remainder(n, d) == n - d * Quotient(n, d)

\* (Mutation: the product of the unsigned numbers.)
HighProductUnsigned(x, y) == (x * y) \div Modulus
HighProduct(x, y) == (Signed(x) * Signed(y)) \div Modulus

DoTheThing(op, x, y) ==
    CASE op = "ADD" -> Unsigned(x + y)
      [] op = "SUB" -> Unsigned(x - y)
      [] op = "AND" -> NumberOf(BitsOf(x) \cap BitsOf(y))
      [] op = "OR" -> NumberOf(BitsOf(x) \cup BitsOf(y))
      [] op = "XOR" -> NumberOf((BitsOf(x) \cup BitsOf(y)) \ (BitsOf(x) \cap BitsOf(y)))
      [] op = "SLL" -> Unsigned(x * 2^Count(y))
      [] op \in {"SRL", "SRA"} -> Unsigned(Signed(x) \div 2^Count(y))
      [] op = "SLT" -> IF Signed(x) < Signed(y) THEN 1 ELSE 0
      [] op = "SLTU" -> IF x < y THEN 1 ELSE 0
      [] op = "MUL" -> Unsigned(x * y)
      [] op \in {"MULH", "MULHSU"} -> Unsigned(HighProduct(x, y))
      [] op = "MULHU" -> 0
      [] op \in {"DIV", "DIVU", "REM", "REMU"} /\ y = 0 -> 0
      [] op = "DIV" /\ y # 0 -> Unsigned(Quotient(Signed(x), Signed(y)))
      [] op = "DIVU" /\ y # 0 -> x \div y
      [] op = "REM" /\ y # 0 -> Unsigned(Remainder(Signed(x), Signed(y)))
      [] op = "REMU" /\ y # 0 -> x % y

\* The division the processor traps on: its quotient has no int32_t.
\* (Mutation: the unsigned division is performed on int32_t.)
TrapsUnsigned(op, x, y) ==
    op \in {"DIV", "DIVU", "REM", "REMU"} /\ 2 * x = Modulus /\ Signed(y) = -1
Traps(op, x, y) ==
    op \in {"DIV", "REM"} /\ 2 * x = Modulus /\ Signed(y) = -1

=============================================================================
