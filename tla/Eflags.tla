--------------------------------- MODULE Eflags ---------------------------------
(***************************************************************************)
(* The status flags in the raised code: what the integer instructions of   *)
(* X86MachineInstructionRaiser.cpp leave in the five flags the raiser      *)
(* tracks (testAndSetEflagSSAValue and its callers), and what the three    *)
(* users of the flags, Jcc, SETcc and CMOVcc, make of them.  The raised    *)
(* program runs beside the machine, on the same operands.                  *)
(*                                                                         *)
(* Abstraction: an instruction gets its operands afresh, so that only the  *)
(* flags carry over from one to the next.  The types are the ones of the   *)
(* operands; no cast changes a value.                                      *)
(***************************************************************************)
EXTENDS X86Machine

CONSTANTS Operands,   \* the values the instructions are given
          Counts,     \* the shift counts
          MaxInsts    \* how many instructions run

ASSUME OperandsAssumption == Operands \subseteq Values /\ Counts \subseteq 0 .. 2 * Width - 1
                             /\ MaxInsts \in Nat

\* A poison value or flag of LLVM.
Poison == -1
Maybe == 2

Binary == {"ADD", "AND", "OR", "XOR"} \X {"rr", "ri", "rm", "m"}
          \cup {"CMP", "TEST"} \X {"rm"} \cup {"TEST"} \X {"rr", "ri"}
          \cup {"SUB"} \X {"rm", "ri"} \cup {"SBB"} \X {"rr", "rm"}
          \cup {"IMUL"} \X {"rr", "rm", "ri", "one"} \cup {"MUL"} \X {"one"}
          \cup BitTests \X {"ri"}
\* DEC of memory is not raised: raiseInplaceMemOpInstr asserts.
Unary == {"INC", "NOT"} \X {"r", "m"} \cup {"DEC", "NEG", "POPCNT"} \X {"r"}
Counted == Shifts \X {"cl", "mcl", "ri", "m"} \cup Rotates \X {"r1", "ri"}
Double == DoubleShifts \X {"ri"}

Insts(forms, B, C, wides) ==
  {[op |-> f[1], enc |-> f[2], a |-> a, b |-> b, c |-> c, wide |-> w] :
     f \in forms, a \in Operands, b \in B, c \in C, w \in wides}

Instructions ==
  Insts(Binary, Operands, {0}, {FALSE}) \cup Insts(Unary, {1}, {0}, {FALSE})
  \cup {i \in Insts(Counted, {0}, Counts, BOOLEAN) :
          /\ i.wide => i.enc \in {"cl", "mcl"}
          /\ i.enc = "r1" => i.c = 1}
  \cup Insts(Double, Operands, Counts, {FALSE})
  \cup Insts({<<"UCOMIS", "rr">>}, Operands, {0, 1}, {FALSE})

VARIABLES
  mflags,     \* the flags of the machine
  rflags,     \* the values of the flags in the raised code, in the reaching block
  local,      \* the current block has a definition of CF
  tracked,    \* the flags whose last change was raised
  last,       \* the last instruction and its raised result, if a property asks for it
  agree,      \* the results of the last instruction were the same
  insts       \* the number of instructions so far

eflagsVars == <<mflags, rflags, local, tracked, last, agree, insts>>

Watched == {"CMP", "SUB", "NEG", "SAR"}
NotWatched == [op |-> "other"]

Init ==
  /\ mflags = [f \in Flags |-> Undef]
  /\ rflags = [f \in Flags |-> 0]
  /\ local = FALSE
  /\ tracked = {}
  /\ last = NotWatched
  /\ agree = TRUE
  /\ insts = 0

-----------------------------------------------------------------------------
(* The raised instruction: the value it produces and its operands. *)

Raised(args, val) == [args |-> args, val |-> val]

\* add nsw and mul nsw: poison if the signed result does not fit.
NoSignedWrap(exact, val) == IF FitsSigned(exact) THEN val ELSE Poison

\* The shifts of LLVM are poison from the width on; the count of a shift by CL is
\* masked first.
ShiftBy(v, n, Op(_, _)) == IF n \in 0 .. Width - 1 THEN Op(v, n) ELSE Poison
countMask(i) == IF i.wide THEN Width \div 2 ELSE 2 * Width
RaisedCount(i) == IF i.enc \in {"cl", "mcl"} THEN i.c % countMask(i) ELSE i.c

\* SAR by a constant is raised as a logical shift.
raiseShift(i) ==
  LET n == RaisedCount(i) IN
  Raised(<<i.a, n>>,
         IF i.op = "SHL" THEN ShiftBy(i.a, n, ShiftLeft)
         ELSE IF i.op = "SAR" /\ i.enc \in {"cl", "mcl"} THEN ShiftBy(i.a, n, ShiftArith)
         ELSE ShiftBy(i.a, n, ShiftRight))

\* The intrinsics llvm.fshl and llvm.fshr take the count modulo the width.
raiseFunnel(i) ==
  CASE i.op = "ROL" -> Raised(<<i.a, i.a, i.c>>, FunnelLeft(i.a, i.a, i.c % Width))
    [] i.op = "ROR" -> Raised(<<i.a, i.a, i.c>>, FunnelRight(i.a, i.a, i.c % Width))
    [] i.op = "SHLD" -> Raised(<<i.a, i.b, i.c>>, FunnelLeft(i.a, i.b, i.c % Width))
    [] i.op = "SHRD" -> Raised(<<i.b, i.a, i.c>>, FunnelRight(i.b, i.a, i.c % Width))

raiseBitTest(i) ==
  LET mask == TwoTo[i.b % Width] IN
  Raised(<<i.a, mask>>,
         CASE i.op = "BT" -> i.a
           [] i.op = "BTS" -> BitOr(i.a, mask)
           [] i.op = "BTR" -> BitAnd(i.a, Modulus - 1 - mask)
           [] i.op = "BTC" -> BitXor(i.a, mask))

\* Mutant: the carry is forgotten.
raiseSbb_NoCarry(i, cf) == Raised(<<i.a, i.b>>, Wrap(i.a - i.b))

\* sbb: the carry is added to the second operand first.
raiseSbb(i, cf) ==
  LET src == Wrap(i.b + cf) IN
  IF cf = Maybe THEN Raised(<<i.a, i.b>>, Poison) ELSE Raised(<<i.a, src>>, Wrap(i.a - src))

\* The product of one operand has twice the width and is mul nsw for both signs.
raiseMul(i) ==
  LET exact == Product(i)  double == Modulus * Modulus IN
  Raised(<<i.a, i.b>>,
         IF i.enc = "one" THEN IF exact < double \div 2 THEN exact % double ELSE Poison
         ELSE IF i.enc = "rr" THEN NoSignedWrap(exact, exact % Modulus)
         ELSE exact % Modulus)

\* Mutant: the operands are taken in the order of AT&T syntax.
raiseSub_Swapped(i) == Raised(<<i.b, i.a>>, Wrap(i.b - i.a))

raiseSub(i) == Raised(<<i.a, i.b>>, Wrap(i.a - i.b))

\* add: nsw only between registers; inc is an addition of 1, dec a subtraction.
raiseAdd(i) ==
  Raised(<<i.a, i.b>>, IF <<i.op, i.enc>> = <<"ADD", "rr">>
                       THEN NoSignedWrap(Signed(i.a) + Signed(i.b), Wrap(i.a + i.b))
                       ELSE Wrap(i.a + i.b))
raiseDec(i) == Raised(<<i.a, i.b>>, Wrap(i.a - i.b))

raiseLogic(i) ==
  Raised(<<i.a, i.b>>, CASE i.op \in {"AND", "TEST"} -> BitAnd(i.a, i.b)
                         [] i.op = "OR" -> BitOr(i.a, i.b)
                         [] i.op = "XOR" -> BitXor(i.a, i.b))

\* neg is a subtraction from 0.
raiseNeg(i) == Raised(<<0, i.a>>, Wrap(0 - i.a))
raiseNot(i) == Raised(<<i.a>>, BitXor(i.a, Modulus - 1))
raisePopcnt(i) == Raised(<<i.a>>, PopCount(i.a))
raiseUcomis(i) == Raised(<<i.a, i.b>>, i.a)

raiseInst(i, cf) ==
  CASE i.op \in {"CMP", "SUB"} -> raiseSub(i)
    [] i.op = "SBB" -> raiseSbb(i, cf)
    [] i.op \in {"ADD", "INC"} -> raiseAdd(i)
    [] i.op = "DEC" -> raiseDec(i)
    [] i.op = "NEG" -> raiseNeg(i)
    [] i.op = "NOT" -> raiseNot(i)
    [] i.op \in Logic -> raiseLogic(i)
    [] i.op = "POPCNT" -> raisePopcnt(i)
    [] i.op \in {"IMUL", "MUL"} -> raiseMul(i)
    [] i.op \in Shifts -> raiseShift(i)
    [] i.op \in Rotates \cup DoubleShifts -> raiseFunnel(i)
    [] i.op \in BitTests -> raiseBitTest(i)
    [] i.op = "UCOMIS" -> raiseUcomis(i)

-----------------------------------------------------------------------------
(* testAndSetEflagSSAValue: the value of a flag, from the raised instruction t. *)

IfDefined(v, test) == IF v = Poison THEN Maybe ELSE Flag(test)

testZF(t) == IfDefined(t.val, t.val = 0)
testSF(t) == IfDefined(t.val, HighBit(t.val))
testPF(t) == IfDefined(t.val, PopCount(BitAnd(t.val, 255 % Modulus)) % 2 = 0)

testOF(i, t) ==
  CASE i.op \in {"SUB", "CMP", "SBB"} -> Flag(~FitsSigned(Signed(t.args[1]) - Signed(t.args[2])))
    [] i.op = "ADD" -> Flag(~FitsSigned(Signed(t.args[1]) + Signed(t.args[2])))
    [] i.op = "ROL" -> Flag(Bit(t.val, 0) # HighBit(t.val))
    [] i.op = "ROR" -> Flag(HighBit(t.val) # Bit(t.val, Width - 2))
    [] i.op = "TEST" -> 0

Positive(v) == Signed(v) > 0

\* Mutant: a shift by zero changes the flag too.
lastShiftedOut_NoSelect(dst, n, count, oldCF) ==
  IF n \in Bits THEN Flag(Positive(BitAnd(dst, TwoTo[n]))) ELSE Maybe

\* The bit n of dst as the last one shifted out, if the count is positive; both
\* tests are signed.  oldCF: the definition of CF in this block, else 0.
lastShiftedOut(dst, n, count, oldCF) ==
  IF ~Positive(count) THEN oldCF
  ELSE IF n \in Bits THEN Flag(Positive(BitAnd(dst, TwoTo[n])))
  ELSE Maybe

testCF(i, t, oldCF) ==
  CASE i.op = "NEG" -> Flag(t.args[1] # 0)
    [] i.op \in {"SUB", "CMP", "SBB"} -> Flag(t.args[1] < t.args[2])
    [] i.op = "ADD" -> Flag(t.args[1] + t.args[2] >= Modulus)
    [] i.op = "SHRD" -> lastShiftedOut(t.args[2], t.args[3], t.args[3], oldCF)
    [] i.op = "SHLD" -> lastShiftedOut(t.args[1], Width - t.args[3], t.args[3], oldCF)
    [] i.op \in Shifts -> lastShiftedOut(t.args[1], Width - t.args[2], t.args[2], oldCF)
    [] i.op = "ROL" -> Flag(Bit(t.val, 0))
    [] i.op = "ROR" -> Flag(HighBit(t.val))
    [] i.op = "IMUL" -> Flag(~FitsSigned(Signed(t.args[1]) * Signed(t.args[2])))
    [] i.op = "TEST" -> 0

\* The flags that are tested after an instruction, by the function that raises it.
affectedRegToReg(i) ==
  CASE i.op = "ADD" -> {"SF", "ZF"}
    [] i.op \in Logic -> {"SF", "ZF", "PF"}
    [] i.op = "NEG" -> {"CF", "ZF", "SF", "PF"}
    [] i.op \in Shifts -> {"CF", "ZF", "SF"}
    [] i.op = "SBB" -> {"OF", "CF"}
    [] OTHER -> {}

affectedMemToReg(i) ==
  CASE i.op \in {"ADD", "AND", "OR"} -> {"PF"}
    [] i.op = "XOR" -> {"SF", "ZF", "PF"}
    [] i.op = "SBB" -> {"OF", "CF"}
    [] OTHER -> {}

\* The two functions that operate on memory: raiseMoveToMemInstr tests one flag, and
\* raiseInplaceMemOpInstr, which INC and NOT go to, tests none.
affectedInplace(i) == IF i.op \in Shifts \cup {"INC", "NOT"} THEN {} ELSE {"PF"}

affectedImmToReg(i) ==
  CASE i.op \in {"ADD", "SUB"} -> Flags
    [] i.op \in Logic \cup {"INC", "DEC"} -> {"SF", "ZF", "PF"}
    [] i.op \in Shifts -> {"SF", "ZF"}
    [] i.op \in Rotates -> IF i.enc = "r1" THEN {"OF", "CF"} ELSE {"CF"}
    [] OTHER -> {}

affectedEFlags(i) ==
  CASE i.op \in {"CMP", "SUB"} \/ <<i.op, i.enc>> = <<"TEST", "rm">> -> Flags
    [] i.op \in DoubleShifts -> {"CF"}
    [] i.op \in BitTests \cup {"UCOMIS"} -> {}
    [] OTHER -> CASE i.enc \in {"ri", "r1"} \/ <<i.op, i.enc>> \in {"INC", "DEC"} \X {"r"} ->
                       affectedImmToReg(i)
                  [] i.enc \in {"m", "mcl"} -> affectedInplace(i)
                  [] i.enc = "rm" -> affectedMemToReg(i)
                  [] OTHER -> affectedRegToReg(i)

\* The flags that are set without a test.
Both(f, g, v) == [x \in {f, g} |-> v]
logicFlags == Both("OF", "CF", 0)
productFlags(i, t) ==
  LET lower == t.val % Modulus IN
  Both("OF", "CF", IfDefined(t.val, IF i.op = "MUL" THEN t.val >= Modulus
                                    ELSE Signed(lower) % (Modulus * Modulus) # t.val))
popcntFlags(i) == [f \in Flags |-> Flag(f = "ZF" /\ i.a = 0)]
bitTestFlags(t) == [f \in {"CF"} |-> Flag(BitAnd(t.args[1], t.args[2]) # 0)]
ucomisFlags(i) ==
  [f \in Flags |-> CASE f \in {"OF", "SF"} -> 0
                     [] f = "CF" -> Flag(i.c = 1 \/ i.a < i.b)
                     [] f = "ZF" -> Flag(i.c = 1 \/ i.a = i.b)
                     [] f = "PF" -> i.c]

setEflags(i, t) ==
  CASE (i.op \in Logic /\ i.enc \in {"rr", "ri"}) \/ <<i.op, i.enc>> = <<"XOR", "rm">> -> logicFlags
    [] i.enc = "one" -> productFlags(i, t)
    [] <<i.op, i.enc>> = <<"IMUL", "ri">> -> Both("OF", "CF", testCF(i, t, 0))
    [] i.op = "POPCNT" -> popcntFlags(i)
    [] i.op \in BitTests -> bitTestFlags(t)
    [] i.op = "UCOMIS" -> ucomisFlags(i)
    [] OTHER -> <<>>

testAndSetEflagSSAValue(f, i, t, oldCF) ==
  CASE f = "ZF" -> testZF(t)
    [] f = "SF" -> testSF(t)
    [] f = "PF" -> testPF(t)
    [] f = "OF" -> testOF(i, t)
    [] f = "CF" -> testCF(i, t, oldCF)

raiseFlags(i, t, F, oldCF) ==
  LET set == setEflags(i, t) IN
  [f \in Flags |-> IF f \in affectedEFlags(i) THEN testAndSetEflagSSAValue(f, i, t, oldCF)
                   ELSE IF f \in DOMAIN set THEN set[f]
                   ELSE F[f]]

-----------------------------------------------------------------------------
(* The users of the flags: the conditions each of them handles. *)

Jcc(cc, F) ==
  CASE cc = "B" -> F["CF"] = 1
    [] cc = "AE" -> F["CF"] = 0
    [] cc = "E" -> F["ZF"] = 1
    [] cc = "NE" -> F["ZF"] = 0
    [] cc = "S" -> F["SF"] = 1
    [] cc = "NS" -> F["SF"] = 0
    [] cc = "P" -> F["PF"] = 1
    [] cc = "NP" -> F["PF"] = 0
    [] cc = "A" -> F["ZF"] = 0 /\ F["CF"] = 0
    [] cc = "BE" -> F["ZF"] = 1 \/ F["CF"] = 1
    [] cc = "L" -> F["SF"] # F["OF"]
    [] cc = "GE" -> F["SF"] = F["OF"]
    [] cc = "LE" -> F["ZF"] = 1 \/ F["SF"] # F["OF"]
    [] cc = "G" -> F["ZF"] = 0 /\ F["SF"] = F["OF"]

\* Mutant: a conjunction for LE.
SETcc_LEAnd(cc, F) ==
  IF cc = "LE" THEN F["ZF"] = 1 /\ F["SF"] # F["OF"] ELSE Holds(cc, F)

SETcc(cc, F) ==
  CASE cc = "O" -> F["OF"] = 1
    [] cc = "B" -> F["CF"] = 1
    [] cc = "AE" -> F["CF"] = 0
    [] cc = "E" -> F["ZF"] = 1
    [] cc = "NE" -> F["ZF"] = 0
    [] cc = "S" -> F["SF"] = 1
    [] cc = "NS" -> F["SF"] = 0
    [] cc = "P" -> F["PF"] = 1
    [] cc = "NP" -> F["PF"] = 0
    [] cc = "A" -> F["CF"] = 0 /\ F["ZF"] = 0
    [] cc = "L" -> F["SF"] # F["OF"]
    [] cc = "GE" -> F["SF"] = F["OF"]
    [] cc = "LE" -> F["ZF"] = 1 \/ F["SF"] # F["OF"]
    [] cc = "G" -> F["ZF"] = 0 /\ F["SF"] = F["OF"]

CMOVcc(cc, F) ==
  CASE cc = "O" -> F["OF"] = 1
    [] cc = "NO" -> F["OF"] = 0
    [] cc = "B" -> F["CF"] = 1
    [] cc = "AE" -> F["CF"] = 0
    [] cc = "E" -> F["ZF"] = 1
    [] cc = "NE" -> F["ZF"] = 0
    [] cc = "S" -> F["SF"] = 1
    [] cc = "NS" -> F["SF"] = 0
    [] cc = "A" -> F["CF"] + F["ZF"] = 0
    [] cc = "BE" -> F["CF"] = 1 \/ F["ZF"] = 1
    [] cc = "L" -> F["SF"] # F["OF"]
    [] cc = "GE" -> F["SF"] = F["OF"]
    [] cc = "LE" -> F["ZF"] = 1 \/ F["SF"] # F["OF"]
    [] cc = "G" -> F["ZF"] = 0 /\ F["SF"] = F["OF"]

handledByJcc == Conditions \ {"O", "NO"}
handledBySETcc == Conditions \ {"NO", "BE"}
handledByCMOVcc == Conditions \ {"P", "NP"}

-----------------------------------------------------------------------------
(* Where the raised code departs from the machine: the flags, and the value, that *)
(* an instruction gets wrong, by the defect (README, Conditions in the properties). *)

testsShift(i) == <<i.op, i.enc>> \in Shifts \X {"cl"} \cup Double

Departures(i, reads, hasOldCF) ==
  LET n == Count(i)
      wrongValue ==
        \/ i.op \in Shifts /\ RaisedCount(i) # n
        \/ i.op = "SAR" /\ i.enc \in {"ri", "m"} /\ HighBit(i.a) /\ n > 0
        \/ <<i.op, i.enc>> = <<"ADD", "rr">> /\ ~FitsSigned(Signed(i.a) + Signed(i.b))
        \/ <<i.op, i.enc>> = <<"IMUL", "rr">> /\ ~FitsSigned(Product(i))
        \/ <<i.op, i.enc>> = <<"MUL", "one">> /\ Product(i) >= Half * Modulus
        \/ i.op = "SBB" /\ "CF" \notin reads
      wrongCarry ==
        \/ i.op = "NEG" /\ i.a # 0
        \/ testsShift(i) /\ i.op \in {"SHR", "SAR", "SHRD"} /\ n > 0
        \/ testsShift(i) /\ n = 1 /\ HighBit(i.a)
        \/ testsShift(i) /\ n = 0 /\ ~hasOldCF
        \/ i.op \in DoubleShifts /\ i.c # n
        \/ i.op \in Rotates /\ n = 0
  IN  (IF wrongValue THEN {"value", "CF", "PF", "ZF", "SF", "OF"} ELSE {})
      \cup (IF wrongCarry THEN {"CF"} ELSE {})
      \cup (IF i.op \in Shifts /\ n = 0 THEN {"ZF", "SF"} ELSE {})
      \cup (IF i.op = "SBB" /\ i.b = Modulus - 1 THEN {"CF"} ELSE {})
      \cup (IF i.op = "SBB" /\ i.b = Half - 1 THEN {"OF"} ELSE {})

Step(i) ==
  LET mcf == IF mflags["CF"] = Undef THEN 0 ELSE mflags["CF"]
      m == MachineValue(i, mcf)
      t == raiseInst(i, rflags["CF"])
      raisedWrites == affectedEFlags(i) \cup DOMAIN setEflags(i, t)
      differ == Departures(i, IF mflags["CF"] = Undef THEN {} ELSE tracked, local)
  IN
  /\ insts < MaxInsts
  /\ mflags' = [f \in Flags |-> IF f \in MachineWrites(i) THEN MachineFlag(f, i, mcf, m)
                                ELSE mflags[f]]
  /\ rflags' = raiseFlags(i, t, rflags, IF local THEN rflags["CF"] ELSE 0)
  /\ local' = (local \/ "CF" \in raisedWrites)
  /\ tracked' = ((tracked \ MachineWrites(i)) \cup (MachineWrites(i) \cap raisedWrites)) \ differ
  /\ last' = IF i.op \in Watched THEN [op |-> i.op, a |-> i.a, b |-> i.b, val |-> t.val]
             ELSE NotWatched
  /\ agree' = ("value" \in differ \/ t.val = m)
  /\ insts' = insts + 1

\* The next block: its values come from the blocks before it.
NextBlock ==
  /\ local' = FALSE
  /\ UNCHANGED <<mflags, rflags, tracked, last, agree, insts>>

Next == NextBlock \/ \E i \in Instructions : Step(i)
Spec == Init /\ [][Next]_eflagsVars

-----------------------------------------------------------------------------

\* The value an instruction leaves in its destination is the one of the machine.
ValuesFollow == agree

\* A flag that the raised code has followed so far is the one of the machine, whatever
\* the instructions between its definition and now: an instruction that leaves a flag
\* alone in the machine leaves it alone in the raised code.
FlagsFollow == \A f \in tracked : mflags[f] # Undef => rflags[f] = mflags[f]

\* A condition on such flags is decided as the machine decides it, by all three of the
\* raised users of flags.
ConditionsFollow ==
  \A cc \in Conditions :
    (\A f \in FlagsOf(cc) : f \in tracked /\ mflags[f] # Undef) =>
      /\ cc \in handledByJcc => (Jcc(cc, rflags) <=> Holds(cc, mflags))
      /\ cc \in handledBySETcc => (SETcc(cc, rflags) <=> Holds(cc, mflags))
      /\ cc \in handledByCMOVcc => (CMOVcc(cc, rflags) <=> Holds(cc, mflags))

\* After a comparison the conditions order its operands, the signed ones as signed
\* words and the others as unsigned ones: what the compiler used the pair for.
Orders(Cond(_, _), handled, F, a, b) ==
  \A cc \in handled :
    /\ cc = "E" => (Cond(cc, F) <=> a = b)
    /\ cc = "NE" => (Cond(cc, F) <=> a # b)
    /\ cc = "B" => (Cond(cc, F) <=> a < b)
    /\ cc = "AE" => (Cond(cc, F) <=> a >= b)
    /\ cc = "BE" => (Cond(cc, F) <=> a <= b)
    /\ cc = "A" => (Cond(cc, F) <=> a > b)
    /\ cc = "L" => (Cond(cc, F) <=> Signed(a) < Signed(b))
    /\ cc = "GE" => (Cond(cc, F) <=> Signed(a) >= Signed(b))
    /\ cc = "LE" => (Cond(cc, F) <=> Signed(a) <= Signed(b))
    /\ cc = "G" => (Cond(cc, F) <=> Signed(a) > Signed(b))

ComparisonsDecide ==
  last.op \in {"CMP", "SUB"} =>
    /\ Orders(Jcc, handledByJcc, rflags, last.a, last.b)
    /\ Orders(SETcc, handledBySETcc, rflags, last.a, last.b)
    /\ Orders(CMOVcc, handledByCMOVcc, rflags, last.a, last.b)

=============================================================================
