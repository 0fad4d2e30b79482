------------------------------- MODULE X86Machine -------------------------------
(***************************************************************************)
(* What an x86 processor computes: the reference the raised code of module *)
(* Eflags is compared with.  It stands for the Intel manual, not for code  *)
(* of the repository.                                                      *)
(*                                                                         *)
(* A flag is 0, 1, or Undef where the manual leaves it undefined.          *)
(***************************************************************************)
EXTENDS Words

Flags == {"CF", "PF", "ZF", "SF", "OF"}
Undef == 3

Parity(v) == Cardinality(BitsOf(v) \cap 0 .. 7) % 2 = 0

-----------------------------------------------------------------------------
(* Instructions: op is the mnemonic, enc the encoding, a and b are the      *)
(* values of the operands, c is the count of a shift, or tells that two     *)
(* floating-point operands are unordered.  wide: the operands are the       *)
(* 64-bit ones, whose count has another mask.                               *)

Logic == {"AND", "OR", "XOR", "TEST"}
Shifts == {"SHL", "SHR", "SAR"}
Rotates == {"ROL", "ROR"}
DoubleShifts == {"SHLD", "SHRD"}
BitTests == {"BT", "BTS", "BTR", "BTC"}

Count(i) == i.c % Width

\* The result: for a multiplication of one operand the double word.
Product(i) == IF i.op = "IMUL" THEN Signed(i.a) * Signed(i.b) ELSE i.a * i.b

MachineValue(i, cf) ==
  LET n == Count(i)  k == i.b % Width IN
  CASE i.op \in {"CMP", "SUB"} -> Wrap(i.a - i.b)
    [] i.op = "SBB" -> (i.a - i.b - cf) % Modulus
    [] i.op = "ADD" -> Wrap(i.a + i.b)
    [] i.op = "INC" -> Wrap(i.a + 1)
    [] i.op = "DEC" -> Wrap(i.a - 1)
    [] i.op = "NEG" -> Wrap(0 - i.a)
    [] i.op = "NOT" -> Modulus - 1 - i.a
    [] i.op \in {"AND", "TEST"} -> BitAnd(i.a, i.b)
    [] i.op = "OR" -> BitOr(i.a, i.b)
    [] i.op = "XOR" -> BitXor(i.a, i.b)
    [] i.op = "POPCNT" -> PopCount(i.a)
    [] i.op \in {"IMUL", "MUL"} ->
         Product(i) % (IF i.enc = "one" THEN Modulus * Modulus ELSE Modulus)
    [] i.op = "SHL" -> ShiftLeft(i.a, n)
    [] i.op = "SHR" -> ShiftRight(i.a, n)
    [] i.op = "SAR" -> ShiftArith(i.a, n)
    [] i.op = "ROL" -> FunnelLeft(i.a, i.a, n)
    [] i.op = "ROR" -> FunnelRight(i.a, i.a, n)
    [] i.op = "SHLD" -> FunnelLeft(i.a, i.b, n)
    [] i.op = "SHRD" -> FunnelRight(i.b, i.a, n)
    [] i.op = "BTS" -> WordOf(BitsOf(i.a) \cup {k})
    [] i.op = "BTR" -> WordOf(BitsOf(i.a) \ {k})
    [] i.op = "BTC" -> WordOf(IF k \in BitsOf(i.a) THEN BitsOf(i.a) \ {k} ELSE BitsOf(i.a) \cup {k})
    [] i.op \in {"BT", "UCOMIS"} -> i.a

\* The carry and the overflow of an instruction that sets them, given the
\* result v; a shift by zero sets no flag at all.
Carry(i, cf, v) ==
  LET n == Count(i) IN
  CASE i.op \in {"CMP", "SUB", "SBB"} -> Flag(i.a < i.b + (IF i.op = "SBB" THEN cf ELSE 0))
    [] i.op = "ADD" -> Flag(i.a + i.b >= Modulus)
    [] i.op = "NEG" -> Flag(i.a # 0)
    [] i.op \in {"IMUL", "MUL"} ->
         Flag(IF i.op = "IMUL" THEN ~FitsSigned(Product(i)) ELSE Product(i) >= Modulus)
    [] i.op \in {"SHL", "SHLD"} -> Flag(Bit(i.a, Width - n))
    [] i.op \in {"SHR", "SAR", "SHRD"} -> Flag(Bit(i.a, n - 1))
    [] i.op = "ROL" -> Flag(Bit(v, 0))
    [] i.op = "ROR" -> Flag(HighBit(v))
    [] i.op \in BitTests -> Flag(Bit(i.a, i.b % Width))
    [] i.op = "UCOMIS" -> Flag(i.c = 1 \/ i.a < i.b)
    [] OTHER -> 0

Overflow(i, cf, v) ==
  CASE i.op \in {"CMP", "SUB", "SBB"} ->
         Flag(~FitsSigned(Signed(i.a) - Signed(i.b) - (IF i.op = "SBB" THEN cf ELSE 0)))
    [] i.op = "ADD" -> Flag(~FitsSigned(Signed(i.a) + Signed(i.b)))
    [] i.op = "INC" -> Flag(v = Half)
    [] i.op = "DEC" -> Flag(v = Half - 1)
    [] i.op = "NEG" -> Flag(i.a = Half)
    [] i.op \in {"IMUL", "MUL"} -> Carry(i, cf, v)
    [] i.op \in Shifts \cup Rotates \cup DoubleShifts ->
         IF Count(i) = 1 THEN Flag(HighBit(v) # HighBit(i.a)) ELSE Undef
    [] i.op \in BitTests -> Undef
    [] OTHER -> 0

\* The flags an instruction changes, and of those the ones left undefined.
MachineWrites(i) ==
  CASE i.op = "NOT" -> {}
    [] i.op \in {"INC", "DEC"} -> Flags \ {"CF"}
    [] i.op \in BitTests -> Flags \ {"ZF"}
    [] i.op \in Shifts \cup DoubleShifts -> IF Count(i) = 0 THEN {} ELSE Flags
    [] i.op \in Rotates -> IF Count(i) = 0 THEN {} ELSE {"CF", "OF"}
    [] OTHER -> Flags

\* Zero, sign and parity.
ResultFlag(f, i, v) ==
  CASE i.op = "UCOMIS" -> Flag(f # "SF" /\ (i.c = 1 \/ (f = "ZF" /\ i.a = i.b)))
    [] i.op \in {"MUL", "IMUL"} \cup BitTests -> Undef
    [] i.op = "POPCNT" -> Flag(f = "ZF" /\ i.a = 0)
    [] OTHER -> Flag(CASE f = "ZF" -> v = 0 [] f = "SF" -> HighBit(v) [] f = "PF" -> Parity(v))

MachineFlag(f, i, cf, v) ==
  CASE f = "CF" -> Carry(i, cf, v)
    [] f = "OF" -> Overflow(i, cf, v)
    [] OTHER -> ResultFlag(f, i, v)

\* The conditions of the conditional instructions.
Conditions == {"O", "NO", "B", "AE", "E", "NE", "BE", "A",
               "S", "NS", "P", "NP", "L", "GE", "LE", "G"}

FlagsOf(cc) ==
  CASE cc \in {"O", "NO"} -> {"OF"}
    [] cc \in {"B", "AE"} -> {"CF"}
    [] cc \in {"E", "NE"} -> {"ZF"}
    [] cc \in {"BE", "A"} -> {"CF", "ZF"}
    [] cc \in {"S", "NS"} -> {"SF"}
    [] cc \in {"P", "NP"} -> {"PF"}
    [] cc \in {"L", "GE"} -> {"SF", "OF"}
    [] cc \in {"LE", "G"} -> {"ZF", "SF", "OF"}

Holds(cc, F) ==
  CASE cc = "O" -> F["OF"] = 1
    [] cc = "NO" -> F["OF"] # 1
    [] cc = "B" -> F["CF"] = 1
    [] cc = "AE" -> F["CF"] # 1
    [] cc = "E" -> F["ZF"] = 1
    [] cc = "NE" -> F["ZF"] # 1
    [] cc = "BE" -> F["CF"] = 1 \/ F["ZF"] = 1
    [] cc = "A" -> ~(F["CF"] = 1 \/ F["ZF"] = 1)
    [] cc = "S" -> F["SF"] = 1
    [] cc = "NS" -> F["SF"] # 1
    [] cc = "P" -> F["PF"] = 1
    [] cc = "NP" -> F["PF"] # 1
    [] cc = "L" -> F["SF"] # F["OF"]
    [] cc = "GE" -> F["SF"] = F["OF"]
    [] cc = "LE" -> F["ZF"] = 1 \/ F["SF"] # F["OF"]
    [] cc = "G" -> ~(F["ZF"] = 1 \/ F["SF"] # F["OF"])
=============================================================================
