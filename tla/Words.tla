---------------------------------- MODULE Words ----------------------------------
(***************************************************************************)
(* Machine words: the operations that the processors, in modules X86Machine *)
(* and ArmMachine, and the integer instructions of LLVM have in common.    *)
(* A word has Width bits and its values are 0 .. Modulus - 1.              *)
(***************************************************************************)
EXTENDS Integers, Sequences, FiniteSets

CONSTANTS Width,    \* the number of bits of the operands
          Half      \* 2^(Width - 1)

\* The powers of two.
TwoTo[n \in Nat] == IF n = 0 THEN 1 ELSE 2 * TwoTo[n - 1]

ASSUME WidthAssumption == Width \in Nat \ {0, 1} /\ Half = TwoTo[Width - 1]

Modulus == 2 * Half
Values == 0 .. Modulus - 1
Bits == 0 .. Width - 1

HighBit(v) == v >= Half
Signed(v) == IF HighBit(v) THEN v - Modulus ELSE v

\* The word that is congruent to the sum or the difference x of two words.
Wrap(x) == IF x < 0 THEN x + Modulus ELSE IF x >= Modulus THEN x - Modulus ELSE x

\* The bits of a word, and the word that has the bits of a set.
Bit(v, n) == (v \div TwoTo[n]) % 2 = 1
BitsOf(v) == {n \in Bits : Bit(v, n)}
WordOf(S) == CHOOSE v \in Values : \A n \in Bits : Bit(v, n) <=> n \in S

BitAnd(a, b) == WordOf(BitsOf(a) \cap BitsOf(b))
BitOr(a, b) == WordOf(BitsOf(a) \cup BitsOf(b))
BitXor(a, b) == WordOf({n \in Bits : Bit(a, n) # Bit(b, n)})

ShiftLeft(v, n) == (v * TwoTo[n]) % Modulus
ShiftRight(v, n) == v \div TwoTo[n]
ShiftArith(v, n) == (Signed(v) \div TwoTo[n]) % Modulus

\* The upper word of hi:lo shifted left, the lower word of it shifted right.
FunnelLeft(hi, lo, n) == ShiftLeft(hi, n) + lo \div TwoTo[Width - n]
FunnelRight(hi, lo, n) == lo \div TwoTo[n] + ShiftLeft(hi, Width - n)

PopCount(v) == Cardinality(BitsOf(v))

FitsSigned(x) == x \in -Half .. Half - 1
Flag(b) == IF b THEN 1 ELSE 0
=============================================================================
