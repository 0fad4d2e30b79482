------------------------------- MODULE ArmMachine -------------------------------
(***************************************************************************)
(* What the data-processing instructions of an ARM processor compute: the  *)
(* reference the raised code of module ArmFlags is compared with.  It      *)
(* stands for the ARM manual, not for code of the repository.              *)
(***************************************************************************)
EXTENDS Words

Flags == {"N", "Z", "C", "V"}

-----------------------------------------------------------------------------
(* Instructions.  op: the mnemonic; enc: how the second operand is given, as *)
(* a register or a constant ("plain"), shifted by a constant ("imm") or by a *)
(* register ("reg") or with RRX ("rrx"), or as the destination itself        *)
(* ("self"); sh and n: the shift and its count; s: the instruction sets the  *)
(* flags; cond: its condition; a, b, old: the values of the first and the    *)
(* second operand and of the destination.                                    *)

Comparisons == {"CMP", "CMN", "TST", "TEQ"}
Logical == {"AND", "EOR", "ORR", "BIC", "MOV", "MVN", "TST", "TEQ"}
Products == {"MUL", "MLA"}

SetsFlags(i) == i.s \/ i.op \in Comparisons \cup {"MSR"}
Complement(v) == Modulus - 1 - v

\* The shifted second operand and the carry out of the shifter.
Shifted(b, sh, n, C) ==
  CASE n = 0 -> <<b, C>>
    [] n > 0 /\ sh = "lsl" ->
         <<IF n < Width THEN ShiftLeft(b, n) ELSE 0, Flag(n <= Width /\ Bit(b, Width - n))>>
    [] n > 0 /\ sh = "lsr" -> <<ShiftRight(b, n), Flag(Bit(b, n - 1))>>
    [] n > 0 /\ sh = "asr" ->
         IF n < Width THEN <<ShiftArith(b, n), Flag(Bit(b, n - 1))>>
         ELSE <<IF HighBit(b) THEN Modulus - 1 ELSE 0, Flag(HighBit(b))>>
    [] n > 0 /\ sh = "ror" ->
         LET v == IF n % Width = 0 THEN b ELSE FunnelRight(b, b, n % Width)
         IN  <<v, Flag(HighBit(v))>>

Shifter(i, C) ==
  CASE i.enc \in {"plain", "self"} -> <<i.b, C>>
    [] i.enc = "rrx" -> <<i.b \div 2 + C * Half, Flag(Bit(i.b, 0))>>
    [] i.enc \in {"imm", "reg"} -> Shifted(i.b, i.sh, i.n, C)

-----------------------------------------------------------------------------
(* Results: the value and the flags that change with it. *)

NZ(v) == [N |-> Flag(HighBit(v)), Z |-> Flag(v = 0)]
NZC(v, c) == [N |-> Flag(HighBit(v)), Z |-> Flag(v = 0), C |-> c]
Shifts(i) == i.enc = "rrx" \/ (i.enc \in {"imm", "reg"} /\ i.n > 0)

AddWithCarry(x, y, c) ==
  LET v == (x + y + c) % Modulus IN
  [value |-> v,
   flags |-> [N |-> Flag(HighBit(v)), Z |-> Flag(v = 0), C |-> Flag(x + y + c >= Modulus),
              V |-> Flag(~FitsSigned(Signed(x) + Signed(y) + c))]]

LogicalValue(op, a, b) ==
  CASE op \in {"AND", "TST"} -> BitAnd(a, b)
    [] op \in {"EOR", "TEQ"} -> BitXor(a, b)
    [] op = "ORR" -> BitOr(a, b)
    [] op = "BIC" -> BitAnd(a, Complement(b))
    [] op = "MOV" -> b
    [] op = "MVN" -> Complement(b)

Product(i) == (i.a * i.b + (IF i.op = "MLA" THEN i.old ELSE 0)) % Modulus
LeadingZeros(v) == Cardinality({n \in Bits : v < TwoTo[n]})

\* MSR: the upper four bits of the operand become the flags.
UpperBits(v) == ShiftRight(v, Width - 4)
StatusFlags(v) ==
  LET u == UpperBits(v) IN
  [N |-> u \div 8, Z |-> (u \div 4) % 2, C |-> (u \div 2) % 2, V |-> u % 2]

Result(i, C) ==
  LET o == Shifter(i, C)  v == LogicalValue(i.op, i.a, o[1])
      logical == [value |-> v, flags |-> IF Shifts(i) THEN NZC(v, o[2]) ELSE NZ(v)]
  IN
  CASE i.op \in Logical -> logical
    [] i.op \in {"ADD", "CMN"} -> AddWithCarry(i.a, o[1], 0)
    [] i.op = "ADC" -> AddWithCarry(i.a, o[1], C)
    [] i.op \in {"SUB", "CMP"} -> AddWithCarry(i.a, Complement(o[1]), 1)
    [] i.op = "SBC" -> AddWithCarry(i.a, Complement(o[1]), C)
    [] i.op = "RSB" -> AddWithCarry(Complement(i.a), o[1], 1)
    [] i.op = "RSC" -> AddWithCarry(Complement(i.a), o[1], C)
    [] i.op \in Products -> [value |-> Product(i), flags |-> NZ(Product(i))]
    [] i.op = "CLZ" -> [value |-> LeadingZeros(i.b), flags |-> <<>>]
    [] i.op = "MSR" -> [value |-> i.old, flags |-> StatusFlags(i.b)]

-----------------------------------------------------------------------------
(* Conditions. *)

Conditions == {"EQ", "NE", "HS", "LO", "MI", "PL", "VS", "VC", "HI", "LS", "GE", "LT", "GT", "LE"}

FlagsOf(cc) ==
  CASE cc \in {"EQ", "NE"} -> {"Z"}
    [] cc \in {"HS", "LO"} -> {"C"}
    [] cc \in {"MI", "PL"} -> {"N"}
    [] cc \in {"VS", "VC"} -> {"V"}
    [] cc \in {"HI", "LS"} -> {"C", "Z"}
    [] cc \in {"GE", "LT"} -> {"N", "V"}
    [] cc \in {"GT", "LE"} -> {"Z", "N", "V"}
    [] cc = "AL" -> {}

Holds(cc, F) ==
  CASE cc = "EQ" -> F["Z"] = 1
    [] cc = "NE" -> F["Z"] # 1
    [] cc = "HS" -> F["C"] = 1
    [] cc = "LO" -> F["C"] # 1
    [] cc = "MI" -> F["N"] = 1
    [] cc = "PL" -> F["N"] # 1
    [] cc = "VS" -> F["V"] = 1
    [] cc = "VC" -> F["V"] # 1
    [] cc = "HI" -> F["C"] = 1 /\ F["Z"] # 1
    [] cc = "LS" -> F["C"] # 1 \/ F["Z"] = 1
    [] cc = "GE" -> F["N"] = F["V"]
    [] cc = "LT" -> F["N"] # F["V"]
    [] cc = "GT" -> F["Z"] # 1 /\ F["N"] = F["V"]
    [] cc = "LE" -> F["Z"] = 1 \/ F["N"] # F["V"]
    [] cc = "AL" -> TRUE
=============================================================================
