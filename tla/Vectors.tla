--------------------------------- MODULE Vectors ---------------------------------
(***************************************************************************)
(* The SSE registers in the raised code: X86MachineInstructionRaiserSSE.cpp *)
(* and the SSE operations of X86MachineInstructionRaiser.cpp.  A register  *)
(* of the machine has 16 bytes; an instruction on packed lanes writes all  *)
(* of it, one on a scalar its lowest lane, and a load or a move of a       *)
(* scalar clears the rest.  The raiser knows one value of 4, 8 or 16 bytes *)
(* for each register, the one that was written last; what type an operand  *)
(* has follows from the domain and the prefix of the instruction that      *)
(* reads it, and reinterpretSSERegValue cuts the value or extends it with  *)
(* zeros to that type.                                                     *)
(*                                                                         *)
(* Abstraction: the raised program runs beside the machine, on defined     *)
(* registers, one general register and 16 bytes of memory at an address    *)
(* whose stack objects do not matter.  A byte has ByteBits bits.  A float  *)
(* is a sign and a magnitude in steps of 1/2 (4 bytes) or 1/4 (8 bytes);   *)
(* the largest magnitude is not a number, nor is an overflow.  The results *)
(* of float arithmetic are those of the constant Arith, which the          *)
(* machine's units and the operations of LLVM share.                       *)
(***************************************************************************)
EXTENDS Integers, FiniteSets, FiniteSetsExt

CONSTANTS ByteBits,          \* the bits of a byte
          Inits,             \* what the SSE registers and the memory start with
          GeneralInits,      \* what the general register starts with
          Dests,             \* the registers the instructions write
          Shuffles,          \* the immediates of PSHUFD
          MaxInsts,          \* how many instructions run
          Arith(_, _, _, _)  \* the result of an operation on two lanes of some bytes

Pow8(n) == 2^(n * ByteBits)
Low(v, n) == v % Pow8(n)

Xmms == {"XMM0", "XMM1"}
Cells == Xmms \cup {"mem"}

ASSUME VectorsAssumption ==
  /\ ByteBits \in Nat \ {0}
  /\ Inits \subseteq 0 .. Pow8(16) - 1 /\ GeneralInits \subseteq 0 .. Pow8(8) - 1
  /\ Dests \subseteq Xmms /\ Shuffles \subseteq 0 .. 255 /\ MaxInsts \in Nat

VARIABLES
  cell,          \* the machine: its SSE registers and the memory
  general,       \* the machine's general register
  flags,         \* the machine's ZF, PF and CF
  val,           \* the raised values: a number and its size in bytes
  generalVal,    \* the raised value of the general register
  raisedFlags,   \* the flags in the raised code
  covered,       \* how many bytes of a register the raised value, with zeros above, is right for
  generalRight,  \* the raised value of the general register is right
  flagsRight,    \* the raised flags are right
  insts          \* the number of instructions so far

generalVars == <<general, generalVal, generalRight>>
flagVars == <<flags, raisedFlags, flagsRight>>
vectorsVars == <<cell, val, covered, generalVars, flagVars, insts>>

Words4 == INSTANCE Words WITH Width <- 4 * ByteBits, Half <- Pow8(4) \div 2

-----------------------------------------------------------------------------
(* Numbers in lanes of l bytes. *)

Lane(v, l, i) == (v \div Pow8(l * i)) % Pow8(l)
FromLanes(l, k, Element(_)) == MapThenSumSet(LAMBDA i : Element(i) * Pow8(l * i), 0 .. k - 1)
Lanewise(l, n, a, b, Op(_, _)) ==
  FromLanes(l, n \div l, LAMBDA i : Op(Lane(a, l, i), Lane(b, l, i)))

Top(l) == Pow8(l) \div 2
Signed(l, v) == IF v >= Top(l) THEN v - Pow8(l) ELSE v
Ones(l) == Pow8(l) - 1
Mask(l, b) == IF b THEN Ones(l) ELSE 0

\* Floats, in quarters.
Step(l) == IF l = 4 THEN 2 ELSE 1
IsNaN(l, v) == v % Top(l) = Top(l) - 1
Number(l, v) == (IF v >= Top(l) THEN -(v % Top(l)) ELSE v) * Step(l)

Nearest(x, u) ==
  LET q == x \div u
      r == x % u
  IN  IF 2 * r < u \/ (2 * r = u /\ q % 2 = 0) THEN q ELSE q + 1
Truncated(x, u) == IF x >= 0 THEN x \div u ELSE -((-x) \div u)

ToFloat(l, x) ==
  LET q == Nearest(x, Step(l))
  IN  IF q >= Top(l) \/ -q >= Top(l) THEN Top(l) - 1 ELSE IF q < 0 THEN Top(l) - q ELSE q

FitsInt(l, q) == q \in -Top(l) .. Top(l) - 1

Ordered(l, a, b) == ~IsNaN(l, a) /\ ~IsNaN(l, b)
Less(l, a, b) == Ordered(l, a, b) /\ Number(l, a) < Number(l, b)
Equal(l, a, b) == Ordered(l, a, b) /\ Number(l, a) = Number(l, b)

-----------------------------------------------------------------------------
(* The machine. *)

\* A scalar instruction keeps what is above its lane.
Merge(old, l, x) == old - Low(old, l) + x

\* The condition codes of CMPSS and CMPSD; those from 4 negate those before.
Compares(code, l, a, b) ==
  CASE code = 0 -> Equal(l, a, b)
    [] code = 1 -> Less(l, a, b)
    [] code = 2 -> Less(l, a, b) \/ Equal(l, a, b)
    [] code = 3 -> ~Ordered(l, a, b)
MachineCompares(code, l, a, b) ==
  IF code < 4 THEN Compares(code, l, a, b) ELSE ~Compares(code - 4, l, a, b)

\* UCOMISS, UCOMISD.
ComparedFlags(l, a, b) ==
  CASE ~Ordered(l, a, b) -> [ZF |-> TRUE, PF |-> TRUE, CF |-> TRUE]
    [] Equal(l, a, b)    -> [ZF |-> TRUE, PF |-> FALSE, CF |-> FALSE]
    [] Less(l, a, b)     -> [ZF |-> FALSE, PF |-> FALSE, CF |-> TRUE]
    [] OTHER             -> [ZF |-> FALSE, PF |-> FALSE, CF |-> FALSE]

BitwiseOps == {"AND", "ANDN", "OR", "XOR"}
BitwiseWord(op, a, b) ==
  CASE op = "AND"  -> Words4!BitAnd(a, b)
    [] op = "ANDN" -> Words4!BitAnd(Ones(4) - a, b)
    [] op = "OR"   -> Words4!BitOr(a, b)
    [] op = "XOR"  -> Words4!BitXor(a, b)
Bitwise16(op, a, b) == Lanewise(4, 16, a, b, LAMBDA x, y : BitwiseWord(op, x, y))

\* A conversion of one lane; c says what it converts from and to, and none is the result if
\* there is no such integer.
Lanes == {4, 8}
Convert(c, Round(_, _), none, v) ==
  IF c.from = "int" THEN ToFloat(c.tl, 4 * Signed(c.fl, v))
  ELSE IF c.to = "float"
  THEN IF IsNaN(c.fl, v) THEN Top(c.tl) - 1 ELSE ToFloat(c.tl, Number(c.fl, v))
  ELSE LET q == Round(Number(c.fl, v), 4)
       IN  IF IsNaN(c.fl, v) \/ ~FitsInt(c.tl, q) THEN none ELSE q % Pow8(c.tl)

\* CVTSD2SI and its like round, the ones with a T after CVT truncate.
\* All give the smallest integer for what is none.
MachineConvert(c, v) ==
  IF c.truncate THEN Convert(c, Truncated, Top(c.tl), v) ELSE Convert(c, Nearest, Top(c.tl), v)

ScalarConversions ==
  {c \in [from : {"float"}, fl : Lanes, to : {"float"}, tl : Lanes, truncate : {FALSE}] :
     c.fl # c.tl} \cup
  [from : {"int"}, fl : Lanes, to : {"float"}, tl : Lanes, truncate : {FALSE}] \cup
  [from : {"float"}, fl : Lanes, to : {"int"}, tl : Lanes, truncate : BOOLEAN]

\* CVTDQ2PD, CVTDQ2PS, CVTPD2DQ, CVTPD2PS, CVTPS2DQ and CVTPS2PD, with their lanes.
PackedConversions ==
  {[from |-> f[1], fl |-> f[2], to |-> t[1], tl |-> t[2], truncate |-> FALSE,
    lanes |-> IF f[2] = 4 /\ t[2] = 4 THEN 4 ELSE 2] :
     f \in {<<"int", 4>>, <<"float", 4>>, <<"float", 8>>},
     t \in {<<"int", 4>>, <<"float", 4>>, <<"float", 8>>}} \
  {[from |-> x, fl |-> l, to |-> x, tl |-> l, truncate |-> FALSE,
    lanes |-> IF l = 4 THEN 4 ELSE 2] : x \in {"int", "float"}, l \in Lanes}

-----------------------------------------------------------------------------
(* Values in the raised code. *)

Value(v, n) == [v |-> v, n |-> n]

\* The low n bytes, with zeros above if there are fewer.
reinterpretSSERegValue(x, n) == Value(Low(x.v, n), n)

\* A type by its lanes and its size.  Scalars have the prefix XS or XD.
ScalarType(l) == [lane |-> l, n |-> l]
VectorType(l) == [lane |-> l, n |-> 16]

\* Mutant: single precision without regard to the prefix.
getSSEInstructionType_Scalar(domain, prefixed) ==
  CASE domain = "PackedSingle" -> ScalarType(4)
    [] domain = "PackedDouble" -> IF prefixed THEN ScalarType(8) ELSE VectorType(8)
    [] domain = "PackedInt"    -> VectorType(4)

getSSEInstructionType(domain, prefixed) ==
  CASE domain = "PackedSingle" -> IF prefixed THEN ScalarType(4) ELSE VectorType(4)
    [] domain = "PackedDouble" -> IF prefixed THEN ScalarType(8) ELSE VectorType(8)
    [] domain = "PackedInt"    -> VectorType(4)

Domain(l) == IF l = 4 THEN "PackedSingle" ELSE "PackedDouble"
Scalar(l) == getSSEInstructionType(Domain(l), TRUE)
Packed(l) == getSSEInstructionType(Domain(l), FALSE)
PackedInt == getSSEInstructionType("PackedInt", FALSE)
FloatTypes == {Scalar(4), Scalar(8), Packed(4), Packed(8)}

\* getRegOperandValue, or a load of the type that the instruction wants.
Operand(c, n) == reinterpretSSERegValue(val[c], n).v
Determined(c, n) == covered[c] >= n

\* An instruction on a scalar: x in the machine and y in the raised code.  Above the lane
\* the raised value has zeros, which is right if there was nothing before.
WriteScalar(d, l, x, y, right) ==
  /\ cell' = [cell EXCEPT ![d] = Merge(@, l, x)]
  /\ val' = [val EXCEPT ![d] = Value(y, l)]
  /\ covered' = [covered EXCEPT ![d] =
       IF ~right THEN 0 ELSE IF @ = 16 /\ val[d].n <= l THEN 16 ELSE l]

\* An instruction that writes the whole register.
WriteWhole(d, x, y, right) ==
  /\ cell' = [cell EXCEPT ![d] = x]
  /\ val' = [val EXCEPT ![d] = y]
  /\ covered' = [covered EXCEPT ![d] = IF right THEN 16 ELSE 0]

WriteTyped(d, T, x, y, right) ==
  IF T.n = T.lane THEN WriteScalar(d, T.n, x, y, right)
  ELSE WriteWhole(d, x, Value(y, T.n), right)

WriteGeneral(x, y, right) ==
  general' = x /\ generalVal' = y /\ generalRight' = right

KeepCells == UNCHANGED <<cell, val, covered>>
KeepGeneral == UNCHANGED generalVars
KeepFlags == UNCHANGED flagVars
Count == insts < MaxInsts /\ insts' = insts + 1

\* The registers hold arguments: floats, doubles or vectors.
Init ==
  /\ cell \in [Cells -> Inits]
  /\ general \in GeneralInits
  /\ \E n \in {4, 8, 16} :
       /\ covered = [c \in Cells |-> IF c = "mem" THEN 16 ELSE n]
       /\ val = [c \in Cells |-> Value(Low(cell[c], covered[c]), covered[c])]
  /\ generalVal = Value(general, 8)
  /\ generalRight = TRUE
  /\ flags = [ZF |-> FALSE, PF |-> FALSE, CF |-> FALSE]
  /\ raisedFlags = flags
  /\ flagsRight = TRUE
  /\ insts = 0

-----------------------------------------------------------------------------
(* Arithmetic: raiseBinaryOpRegToRegMachineInstr, raiseBinaryOpMemToRegInstr. *)

\* ADD, SUB, MUL and DIV, of scalars and of packed lanes.
FloatOp(s) ==
  /\ Count /\ KeepGeneral /\ KeepFlags
  /\ \E op \in {"ADD", "SUB", "MUL", "DIV"}, T \in FloatTypes, d \in Dests :
       LET Op(a, b) == Arith(op, T.lane, a, b)
       IN  WriteTyped(d, T, Lanewise(T.lane, T.n, cell[d], cell[s], Op),
             Lanewise(T.lane, T.n, Operand(d, T.n), Operand(s, T.n), Op),
             Determined(d, T.n) /\ Determined(s, T.n))

\* A comparison (OGT, OLT) and a select.
FloatSelects(max, l, a, b) ==
  IF max THEN IF Less(l, b, a) THEN a ELSE b
  ELSE IF Less(l, a, b) THEN a ELSE b

\* MAXSS and its like: the second operand unless the first one is larger.
MinMax(s) ==
  /\ Count /\ KeepGeneral /\ KeepFlags
  /\ \E max \in BOOLEAN, l \in Lanes, d \in Dests :
       LET a == Low(cell[d], l)
           b == Low(cell[s], l)
           first == IF max THEN Less(l, b, a) ELSE Less(l, a, b)
       IN  WriteTyped(d, Scalar(l), IF first THEN a ELSE b,
             FloatSelects(max, l, Operand(d, l), Operand(s, l)),
             Determined(d, l) /\ Determined(s, l))

\* SQRTSS, SQRTSD: the form with three operands has the destination as its first source,
\* and that one is raised.
Sqrt(s) ==
  /\ Count /\ KeepGeneral /\ KeepFlags
  /\ \E l \in Lanes, three \in BOOLEAN, d \in Dests :
       LET source == IF three /\ s # "mem" THEN d ELSE s
           Root(v) == Arith("SQRT", l, v, v)
       IN  WriteTyped(d, Scalar(l), Root(Low(cell[s], l)), Root(Operand(source, l)),
             Determined(s, l) /\ source = s)

\* Integers of the operand's size; the result gets the operand's type again.
Bitwise(s) ==
  /\ Count /\ KeepGeneral /\ KeepFlags
  /\ \E op \in BitwiseOps, T \in {Packed(4), Packed(8), PackedInt}, d \in Dests :
       WriteTyped(d, T, Bitwise16(op, cell[d], cell[s]),
         IF s # d \/ op # "XOR" THEN Bitwise16(op, Operand(d, T.n), Operand(s, T.n)) ELSE 0,
         (Determined(d, 16) /\ Determined(s, 16)) \/ (op = "XOR" /\ s = d))

Max2(a, b) == IF a > b THEN a ELSE b
Min2(a, b) == IF a < b THEN a ELSE b

\* What the instructions on packed integers make of two lanes of l bytes.
PackedResult(op, l, a, b) ==
  CASE op = "PADD"   -> (a + b) % Pow8(l)
    [] op = "PSUB"   -> (a - b) % Pow8(l)
    [] op = "PMAXU"  -> Max2(a, b)
    [] op = "PMINU"  -> Min2(a, b)
    [] op = "PMAXS"  -> Max2(Signed(l, a), Signed(l, b)) % Pow8(l)
    [] op = "PMINS"  -> Min2(Signed(l, a), Signed(l, b)) % Pow8(l)

PackedOps ==
  {"PADD", "PSUB"} \X {1, 2, 4, 8} \cup
  {"PMAXU", "PMINU", "PMAXS", "PMINS"} \X {1, 2, 4}

\* The raised lanes: an addition or a subtraction, or a comparison and a select.
PackedSelects(op, l, a, b) ==
  LET greater == IF op \in {"PMAXU", "PMINU"} THEN a > b ELSE Signed(l, a) > Signed(l, b)
  IN  CASE op = "PADD" -> (a + b) % Pow8(l)
        [] op = "PSUB" -> (a - b) % Pow8(l)
        [] op \in {"PMAXS", "PMAXU"} -> IF greater THEN a ELSE b
        [] op \in {"PMINS", "PMINU"} -> IF greater \/ a = b THEN b ELSE a

\* The values are taken as lanes of the operation's size, whatever type they have.
PackedOp(s) ==
  /\ Count /\ KeepGeneral /\ KeepFlags
  /\ \E o \in PackedOps, d \in Dests :
       WriteWhole(d,
         Lanewise(o[2], 16, cell[d], cell[s], LAMBDA a, b : PackedResult(o[1], o[2], a, b)),
         Value(Lanewise(o[2], 16, Operand(d, PackedInt.n), Operand(s, PackedInt.n),
                        LAMBDA a, b : PackedSelects(o[1], o[2], a, b)), 16),
         Determined(d, 16) /\ Determined(s, 16))

\* UNPCKLPS, UNPCKLPD: the lower lanes of both, in turn.
Unpacked(l, a, b) ==
  FromLanes(l, 16 \div l, LAMBDA i : Lane(IF i % 2 = 0 THEN a ELSE b, l, i \div 2))
MachineUnpacks(l, a, b) ==
  FromLanes(2 * l, 8 \div l, LAMBDA i : Lane(a, l, i) + Lane(b, l, i) * Pow8(l))

Unpack(s) ==
  /\ Count /\ KeepGeneral /\ KeepFlags
  /\ \E l \in Lanes, d \in Dests :
       WriteWhole(d, MachineUnpacks(l, cell[d], cell[s]),
         Value(Unpacked(l, Operand(d, Packed(l).n), Operand(s, Packed(l).n)), 16),
         Determined(d, 16) /\ Determined(s, 16))

\* PSHUFD: two bits of the immediate choose each lane.
Shuffled(imm, a) == FromLanes(4, 4, LAMBDA i : Lane(a, 4, (imm \div 4^i) % 4))

Shuffle(s) ==
  /\ Count /\ KeepGeneral /\ KeepFlags
  /\ \E imm \in Shuffles, d \in Dests :
       WriteWhole(d, Shuffled(imm, cell[s]), Value(Shuffled(imm, Operand(s, PackedInt.n)), 16),
                  Determined(s, 16))

\* raiseBinaryOpRegToRegMachineInstr and raiseBinaryOpRegToImmMachineInstr (PSHUFDri).
BinaryOpRegToReg ==
  \E s \in Xmms : FloatOp(s) \/ MinMax(s) \/ Sqrt(s) \/ Bitwise(s) \/ PackedOp(s)
                  \/ Unpack(s) \/ Shuffle(s)

\* raiseBinaryOpMemToRegInstr: the same on a load of the destination's type.
FloatOpFromMemory == FloatOp("mem") \/ MinMax("mem")
SqrtFromMemory == Sqrt("mem")
BitwiseFromMemory == Bitwise("mem")
PackedOpFromMemory == PackedOp("mem")
UnpackFromMemory == Unpack("mem")
ShuffleFromMemory == Shuffle("mem")

BinaryOpMemToReg ==
  FloatOpFromMemory \/ SqrtFromMemory \/ BitwiseFromMemory \/ PackedOpFromMemory
  \/ UnpackFromMemory \/ ShuffleFromMemory

-----------------------------------------------------------------------------
(* Comparisons: raiseSSECompareMachineInstr. *)

\* Mutant: ordered comparisons.
UnorderedFlags_Ordered(l, a, b) ==
  [ZF |-> Equal(l, a, b), PF |-> ~Ordered(l, a, b), CF |-> Less(l, a, b)]

\* FCMP_UEQ, FCMP_UNO and FCMP_ULT.
UnorderedFlags(l, a, b) ==
  LET unordered == ~Ordered(l, a, b)
  IN  [ZF |-> unordered \/ Equal(l, a, b), PF |-> unordered,
       CF |-> unordered \/ Less(l, a, b)]

\* UCOMISS, UCOMISD: the lowest lane of two vectors.
CompareFlags(s) ==
  /\ Count /\ KeepGeneral /\ KeepCells
  /\ \E l \in Lanes, d \in Dests :
       LET Lowest(c) == Lane(Operand(c, Packed(l).n), l, 0)
       IN  /\ flags' = ComparedFlags(l, Low(cell[d], l), Low(cell[s], l))
           /\ raisedFlags' = UnorderedFlags(l, Lowest(d), Lowest(s))
           /\ flagsRight' = (Determined(d, l) /\ Determined(s, l))

\* FCMP_OEQ, OLT, OLE, UNO, ONE, the negations of OLT and OLE, and ORD.
RaisedCompares(code, l, a, b) ==
  CASE code < 4 -> Compares(code, l, a, b)
    [] code = 4 -> Ordered(l, a, b) /\ ~Equal(l, a, b)
    [] code = 5 -> ~Less(l, a, b)
    [] code = 6 -> ~(Less(l, a, b) \/ Equal(l, a, b))
    [] code = 7 -> Ordered(l, a, b)

\* CMPSS, CMPSD: a mask.  CMPNEQ is not raised as the machine has it for what is no number.
CompareMask(s) ==
  /\ Count /\ KeepGeneral /\ KeepFlags
  /\ \E code \in 0 .. 7, l \in Lanes, d \in Dests :
       LET a == Low(cell[d], l)
           b == Low(cell[s], l)
       IN  WriteTyped(d, Scalar(l), Mask(l, MachineCompares(code, l, a, b)),
             Mask(l, RaisedCompares(code, l, Operand(d, l), Operand(s, l))),
             /\ Determined(d, l) /\ Determined(s, l)
             /\ code = 4 => Ordered(l, a, b))

\* PCMPEQB and its like, PCMPGTD: a mask in each lane.
PackedCompares == {"PCMPEQ"} \X {1, 2, 4, 8} \cup {<<"PCMPGT", 4>>}

ComparePacked(s) ==
  /\ Count /\ KeepGeneral /\ KeepFlags
  /\ \E o \in PackedCompares, d \in Dests :
       LET l == o[2]
           Machine(a, b) ==
             Mask(l, IF o[1] = "PCMPEQ" THEN a = b ELSE Signed(l, a) > Signed(l, b))
           Selected(a, b) ==
             IF (o[1] = "PCMPEQ" /\ a = b) \/ (o[1] = "PCMPGT" /\ Signed(l, a) > Signed(l, b))
             THEN Ones(l) ELSE 0
       IN  WriteWhole(d, Lanewise(l, 16, cell[d], cell[s], Machine),
             Value(Lanewise(l, 16, Operand(d, PackedInt.n), Operand(s, PackedInt.n), Selected), 16),
             Determined(d, 16) /\ Determined(s, 16))

SSECompare == \E s \in Xmms : CompareFlags(s) \/ CompareMask(s) \/ ComparePacked(s)
SSECompareFromMem == CompareFlags("mem") \/ CompareMask("mem") \/ ComparePacked("mem")

-----------------------------------------------------------------------------
(* Conversions: raiseSSEConvertPrecisionMachineInstr and ...FromMemMachineInstr. *)

\* Mutant: a conversion to an integer rounds.
RaisedConvert_Rounds(c, v) == Convert(c, Nearest, 0, v)

\* SIToFP, FPExt, FPTrunc or FPToSI, which truncates whatever the instruction does and is
\* poison (here 0) for what is no such integer.
RaisedConvert(c, v) == Convert(c, Truncated, 0, v)

\* FPToSI is right: the number is one of the type, and rounding it truncates it.
Convertible(c, v) ==
  c.to = "int" =>
    /\ ~IsNaN(c.fl, v)
    /\ LET q == Truncated(Number(c.fl, v), 4)
       IN  FitsInt(c.tl, q) /\ (c.truncate \/ Nearest(Number(c.fl, v), 4) = q)

\* Between floats.
ConvertFloat(s) ==
  /\ Count /\ KeepGeneral /\ KeepFlags
  /\ \E c \in ScalarConversions, d \in Dests :
       /\ c.from = "float" /\ c.to = "float"
       /\ WriteScalar(d, c.tl, MachineConvert(c, Low(cell[s], c.fl)),
            RaisedConvert(c, Operand(s, Scalar(c.fl).n)), Determined(s, c.fl))

\* From a general register: its raised value as it is, right if it is of the operand's size.
ConvertGeneral ==
  /\ Count /\ KeepGeneral /\ KeepFlags
  /\ \E c \in ScalarConversions, d \in Dests :
       /\ c.from = "int"
       /\ WriteScalar(d, c.tl, MachineConvert(c, Low(general, c.fl)),
            RaisedConvert([c EXCEPT !.fl = generalVal.n], generalVal.v),
            generalRight /\ generalVal.n = c.fl)

\* From memory: a load of the operand's size.
ConvertLoadedInt ==
  /\ Count /\ KeepGeneral /\ KeepFlags
  /\ \E c \in ScalarConversions, d \in Dests :
       /\ c.from = "int"
       /\ WriteScalar(d, c.tl, MachineConvert(c, Low(cell["mem"], c.fl)),
            RaisedConvert(c, Operand("mem", c.fl)), Determined("mem", c.fl))

\* A write of 4 bytes of a general register clears the others.
ConvertToInt(s) ==
  /\ Count /\ KeepCells /\ KeepFlags
  /\ \E c \in ScalarConversions :
       /\ c.to = "int"
       /\ WriteGeneral(MachineConvert(c, Low(cell[s], c.fl)),
            Value(RaisedConvert(c, Operand(s, Scalar(c.fl).n)), c.tl),
            Determined(s, c.fl) /\ Convertible(c, Low(cell[s], c.fl)))

ConvertLanes(c, v, One(_, _)) == FromLanes(c.tl, c.lanes, LAMBDA i : One(c, Lane(v, c.fl, i)))

\* CVTPD2DQ and CVTPD2PS clear the upper half, and the raised value has none.
ConvertPacked(s) ==
  /\ Count /\ KeepGeneral /\ KeepFlags
  /\ \E c \in PackedConversions, d \in Dests :
       LET n == c.fl * c.lanes
       IN  WriteWhole(d, ConvertLanes(c, cell[s], MachineConvert),
             Value(ConvertLanes(c, Operand(s, n), RaisedConvert), c.tl * c.lanes),
             /\ Determined(s, n)
             /\ \A i \in 0 .. c.lanes - 1 : Convertible(c, Lane(cell[s], c.fl, i)))

SSEConvertPrecision ==
  ConvertGeneral \/ \E s \in Xmms : ConvertFloat(s) \/ ConvertToInt(s) \/ ConvertPacked(s)
SSEConvertPrecisionFromMem ==
  ConvertLoadedInt \/ ConvertFloat("mem") \/ ConvertToInt("mem") \/ ConvertPacked("mem")

-----------------------------------------------------------------------------
(* Moves: raiseSSEMoveRegToRegMachineInstr, loads and stores. *)

\* MOVAPS, MOVAPD, MOVDQA and MOVDQU between registers.
RaiseMove ==
  /\ Count /\ KeepGeneral /\ KeepFlags
  /\ \E d \in Dests, s \in Xmms :
       /\ cell' = [cell EXCEPT ![d] = cell[s]]
       /\ val' = [val EXCEPT ![d] = val[s]]
       /\ covered' = [covered EXCEPT ![d] = covered[s]]

\* MOV64toPQI, MOVDI2PDI: a float of the size of the source.
RaiseMoveFromGeneral ==
  /\ Count /\ KeepGeneral /\ KeepFlags
  /\ \E l \in Lanes, d \in Dests :
       WriteWhole(d, Low(general, l), reinterpretSSERegValue(generalVal, l), generalRight)

\* MOVPQIto64, MOVPDI2DI: an integer of the size of the destination.
RaiseMoveToGeneral ==
  /\ Count /\ KeepCells /\ KeepFlags
  /\ \E l \in Lanes, s \in Xmms :
       WriteGeneral(Low(cell[s], l), reinterpretSSERegValue(val[s], l), Determined(s, l))

\* The moves that access memory, by the bytes they move and their type: those of MOVD and
\* MOVQ are of the domain of packed integers.
MemoryMoves ==
  {<<4, Scalar(4)>>, <<8, Scalar(8)>>, <<16, Packed(4)>>, <<16, Packed(8)>>,
   <<16, PackedInt>>, <<4, PackedInt>>, <<8, PackedInt>>}

\* A load takes the bytes of the type, also where the machine clears what it does not load.
RaiseLoad ==
  /\ Count /\ KeepGeneral /\ KeepFlags
  /\ \E m \in MemoryMoves, d \in Dests :
       LET n == m[2].n
           x == Low(cell["mem"], m[1])
       IN  /\ cell' = [cell EXCEPT ![d] = x]
           /\ val' = [val EXCEPT ![d] = Value(Operand("mem", n), n)]
           /\ covered' = [covered EXCEPT ![d] =
                IF ~Determined("mem", m[1]) THEN 0 ELSE IF n = m[1] THEN 16 ELSE m[1]]

\* A store writes the bytes of the type.
RaiseStore ==
  /\ Count /\ KeepGeneral /\ KeepFlags
  /\ \E m \in MemoryMoves, s \in Xmms :
       LET n == m[2].n
       IN  /\ cell' = [cell EXCEPT !["mem"] = Merge(@, m[1], Low(cell[s], m[1]))]
           /\ val' = [val EXCEPT !["mem"] = Value(Merge(@.v, n, Operand(s, n)), 16)]
           /\ covered' = [covered EXCEPT !["mem"] =
                IF ~Determined(s, m[1]) THEN 0
                ELSE IF n = m[1] THEN Max2(@, m[1]) ELSE m[1]]

\* A value that several blocks define goes through a stack slot of 16 bytes.
PromoteReachingValue ==
  /\ \E d \in Dests : /\ val[d].n < 16
                      /\ val' = [val EXCEPT ![d] = reinterpretSSERegValue(val[d], 16)]
  /\ UNCHANGED <<cell, covered, generalVars, flagVars, insts>>

\* A call that returns a float or a vector in XMM0: the bytes above are anything.
RaiseCall ==
  /\ Count /\ KeepGeneral /\ KeepFlags
  /\ \E n \in {4, 8, 16}, x \in Inits :
       /\ cell' = [cell EXCEPT !["XMM0"] = x]
       /\ val' = [val EXCEPT !["XMM0"] = Value(Low(x, n), n)]
       /\ covered' = [covered EXCEPT !["XMM0"] = n]

Next ==
  \/ BinaryOpRegToReg \/ BinaryOpMemToReg
  \/ SSECompare \/ SSECompareFromMem
  \/ SSEConvertPrecision \/ SSEConvertPrecisionFromMem
  \/ RaiseMove \/ RaiseMoveFromGeneral \/ RaiseMoveToGeneral
  \/ RaiseLoad \/ RaiseStore \/ PromoteReachingValue \/ RaiseCall

Spec == Init /\ [][Next]_vectorsVars

-----------------------------------------------------------------------------

\* What the raised value of an SSE register or of the memory is right for, the machine has
\* there: all lanes, zeros above a scalar that was loaded, only the lane above which the
\* machine kept what the raiser forgot.
VectorsFollow == \A c \in Cells : Low(val[c].v, covered[c]) = Low(cell[c], covered[c])

\* A conversion to an integer, or a move, gives the general register what the machine has,
\* with zeros above.
IntegersFollow == generalRight => generalVal.v = general

\* UCOMISS and UCOMISD order the raised values as the machine does, also what is no number.
OrderFollows == flagsRight => raisedFlags = flags
=============================================================================
