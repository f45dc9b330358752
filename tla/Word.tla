--------------------------------- MODULE Word ---------------------------------
(***************************************************************************)
(* The 32-bit words of the decoders of src/HW3 and src/HW4: a word is the  *)
(* set of the positions of its 1 bits, so that & is \cap and | is \cup.    *)
(***************************************************************************)
EXTENDS Integers

Bit == 0..31

\* >> of a uint32_t, >> of an int32_t (the sign bit is copied), and <<.
Srl(w, n) == {k \in Bit : k + n \in w}
Sra(w, n) == {k \in Bit : k + n \in w \/ (k + n > 31 /\ 31 \in w)}
Shl(w, n) == {k \in Bit : k - n \in w}

\* The width bits of w from position low on: (w >> low) & (2^width - 1).
Field(w, low, width) == {k \in 0..width - 1 : k + low \in w}

\* The number that a word of three bits stands for.
Octal(bits) ==
    (IF 0 \in bits THEN 1 ELSE 0) + (IF 1 \in bits THEN 2 ELSE 0) +
    (IF 2 \in bits THEN 4 ELSE 0)

=============================================================================
