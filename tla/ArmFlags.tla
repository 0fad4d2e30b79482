-------------------------------- MODULE ArmFlags --------------------------------
(***************************************************************************)
(* The data-processing instructions of ARM in the raised code: the         *)
(* splitting of shifted operands (ARMInstructionSplitting), the condition  *)
(* and flag-setting properties (DAGBuilder::visitCC), the nodes            *)
(* (InstSelector::selectCode) and what is emitted for them, the four flag  *)
(* variables included (IREmitter).  The raised program runs beside the     *)
(* machine, on the same operands.                                          *)
(*                                                                         *)
(* Abstraction: an instruction gets its operands afresh, so that only the  *)
(* flags carry over from one to the next.                                  *)
(***************************************************************************)
EXTENDS ArmMachine

CONSTANTS Operands,     \* the values the instructions are given
          Samples,      \* those of the conditional instructions
          Counts,       \* the counts of shifts by a register
          MaxInsts      \* how many instructions run

ASSUME ArmAssumption ==
  /\ Width >= 4
  /\ Operands \subseteq Values /\ Samples \subseteq Operands
  /\ Counts \subseteq Nat
  /\ MaxInsts \in Nat

\* A poison value or flag of LLVM.
Poison == -1
Maybe == 2

ShiftOps == {"lsl", "lsr", "asr", "ror"}

\* checkisShifter: the instructions whose shifted operand becomes an instruction of its own.
checkisShifter == {"MOV", "ADC", "ADD", "AND", "BIC", "CMN", "CMP", "EOR", "MVN", "ORR",
                   "RSB", "SUB", "TEQ", "TST"}
\* isShift_C: of those the ones that take the carry of the shifter; MOV is missing.
isShift_C == {"AND", "BIC", "EOR", "MVN", "ORR", "TEQ", "TST"}

Splits(i) == i.op \in checkisShifter /\ i.enc \in {"imm", "reg", "rrx"}

Insts(ops, encs, shifts, ns, ss, conds, A, B) ==
  {[op |-> op, enc |-> enc, sh |-> sh, n |-> n, s |-> s, cond |-> c, a |-> a, b |-> b, old |-> 5] :
     op \in ops, enc \in encs, sh \in shifts, n \in ns, s \in ss, c \in conds, a \in A, b \in B}

WithResult == (checkisShifter \ Comparisons) \cup {"SBC", "RSC", "MUL", "MLA"}
ThreeOperands == WithResult \ {"MOV", "MVN"}

\* A shifted ADC that leaves the flags alone, a conditional ADC, a conditional CMN and
\* a condition on a split instruction are not raised to valid code (module ArmSelection).
Instructions ==
  Insts(ThreeOperands, {"plain"}, {"none"}, {0}, BOOLEAN, {"AL"}, Operands, Operands)
  \cup Insts(Comparisons, {"plain"}, {"none"}, {0}, {FALSE}, {"AL"}, Operands, Operands)
  \cup Insts({"MOV"}, {"plain", "self"}, {"none"}, {0}, BOOLEAN, {"AL"}, {0}, Operands)
  \cup Insts({"MVN"}, {"plain"}, {"none"}, {0}, BOOLEAN, {"AL"}, {0}, Operands)
  \cup Insts({"CLZ", "MSR"}, {"plain"}, {"none"}, {0}, {FALSE}, {"AL"}, {0}, Operands)
  \cup Insts(checkisShifter \ Comparisons, {"imm"}, ShiftOps, 1 .. Width - 1, {TRUE}, {"AL"}, Samples, Samples)
  \cup Insts(checkisShifter \ Comparisons, {"reg"}, ShiftOps, Counts, {TRUE}, {"AL"}, Samples, Samples)
  \cup Insts(checkisShifter \ {"ADC"}, {"imm"}, ShiftOps, {1}, {FALSE}, {"AL"}, Samples, Samples)
  \cup Insts(checkisShifter \ {"ADC"}, {"reg"}, ShiftOps, {0, 2}, {FALSE}, {"AL"}, Samples, Samples)
  \cup Insts(checkisShifter \ Comparisons, {"rrx"}, {"none"}, {0}, {TRUE}, {"AL"}, Samples, Samples)
  \cup Insts(checkisShifter \ {"ADC"}, {"rrx"}, {"none"}, {0}, {FALSE}, {"AL"}, Samples, Samples)
  \cup Insts({"SBC", "RSC"}, {"imm"}, {"lsl"}, {1}, BOOLEAN, {"AL"}, Samples, Samples)
  \cup Insts(WithResult \ {"ADC"}, {"plain"}, {"none"}, {0}, BOOLEAN, Conditions, Samples, Samples)
  \cup Insts(Comparisons \ {"CMN"}, {"plain"}, {"none"}, {0}, {FALSE}, Conditions, Samples, Samples)
  \cup Insts({"CLZ"}, {"plain"}, {"none"}, {0}, {FALSE}, Conditions, {0}, Samples)

VARIABLES
  mflags,     \* the flags of the machine
  rflags,     \* AllocaMap: the flag variables of the raised code
  tracked,    \* the flags whose last change was raised
  forked,     \* the block has been forked by a conditional instruction
  last,       \* the last instruction, if it is a comparison
  agree,      \* the results of the last instruction were the same
  insts       \* the number of instructions so far

armVars == <<mflags, rflags, tracked, forked, last, agree, insts>>

NotCompared == [op |-> "other"]

\* initEntryBasicBlock: the flag variables start as false.
Init ==
  /\ mflags = [f \in Flags |-> 0]
  /\ rflags = [f \in Flags |-> 0]
  /\ tracked = {}
  /\ forked = FALSE
  /\ last = NotCompared
  /\ agree = TRUE
  /\ insts = 0

-----------------------------------------------------------------------------
(* Emission: the conditions and the flags. *)

\* Mutant: VS reads the carry.
emitCondCode_VS(cc, F) == IF cc = "VS" THEN F["C"] = 1 ELSE Holds(cc, F)

\* HI and GT compare the truth of their parts, LS and LE take the exclusive or.
emitCondCode(cc, F) ==
  CASE cc = "EQ" -> F["Z"] = 1
    [] cc = "NE" -> F["Z"] = 0
    [] cc = "HS" -> F["C"] = 1
    [] cc = "LO" -> F["C"] = 0
    [] cc = "MI" -> F["N"] = 1
    [] cc = "PL" -> F["N"] = 0
    [] cc = "VS" -> F["V"] = 1
    [] cc = "VC" -> F["V"] = 0
    [] cc = "HI" -> (F["C"] = 1) <=> (F["Z"] = 0)
    [] cc = "LS" -> (F["C"] = 0) # (F["Z"] = 1)
    [] cc = "GE" -> F["N"] = F["V"]
    [] cc = "LT" -> F["N"] # F["V"]
    [] cc = "GT" -> (F["Z"] = 0) <=> (F["N"] = F["V"])
    [] cc = "LE" -> (F["Z"] = 1) # (F["N"] # F["V"])
    [] cc = "AL" -> TRUE

\* The sum of two words and the overflows of it; with "one", 1 is added to the first of
\* them before, and what that carries is lost.
emitCPSR(x, y, one) ==
  LET x1 == Wrap(x + one) IN
  [N |-> Flag(HighBit(Wrap(y + x1))), Z |-> Flag(Wrap(y + x1) = 0),
   C |-> Flag(y + x1 >= Modulus), V |-> Flag(~FitsSigned(Signed(y) + Signed(x1)))]

emitSpecialCPSR(v) == IF v = Poison THEN [N |-> Maybe, Z |-> Maybe] ELSE NZ(v)

-----------------------------------------------------------------------------
(* Selection: the node of an instruction with the second operand o. *)

Node(opc, x, y) == [opc |-> opc, x |-> x, y |-> y]

selectSums(i, o) ==
  CASE i.op = "ADC" -> Node("ADDC", i.a, o)
    [] i.op = "ADD" -> Node("ADD", i.a, o)

\* CMOV, which is emitted as an addition of 0.
selectSUBandMOV(i, o) ==
  CASE i.op = "SUB" -> Node("SUB", i.a, o)
    [] i.op = "MOV" -> Node("ADD", o, 0)

selectCMP(i, o) == Node("SETCC", i.a, o)

selectANDtoEOR(i, o) ==
  CASE i.op = "AND" -> Node("AND", i.a, o)
    [] i.op = "CMN" -> Node("CMN", i.a, o)
    [] i.op = "EOR" -> Node("XOR", i.a, o)

selectMSRtoMVN(i, o) ==
  CASE i.op = "MSR" -> Node("MSR", o, 0)
    [] i.op = "MUL" -> Node("MUL", i.a, o)
    [] i.op = "MVN" -> Node("XOR", o, Modulus - 1)

\* Mutant: RSB keeps the order of its operands.
selectORRandRSB_Kept(i, o) ==
  CASE i.op = "ORR" -> Node("OR", i.a, o)
    [] i.op = "RSB" -> Node("RSB", i.a, o)

selectORRandRSB(i, o) ==
  CASE i.op = "ORR" -> Node("OR", i.a, o)
    [] i.op = "RSB" -> Node("RSB", o, i.a)

selectRSCtoTST(i, o) ==
  CASE i.op = "RSC" -> Node("RSC", i.a, o)
    [] i.op = "CLZ" -> Node("CTLZ", o, 0)
    [] i.op = "SBC" -> Node("SBC", i.a, o)
    [] i.op = "TEQ" -> Node("TEQ", i.a, o)
    [] i.op = "TST" -> Node("TST", i.a, o)

selectBICandMLA(i, o) ==
  CASE i.op = "BIC" -> Node("BIC", i.a, o)
    [] i.op = "MLA" -> Node("MLA", i.a, o)

selectCode(i, o) ==
  CASE i.op = "CMP" -> selectCMP(i, o)
    [] i.op \in {"ADC", "ADD"} -> selectSums(i, o)
    [] i.op \in {"SUB", "MOV"} -> selectSUBandMOV(i, o)
    [] i.op \in {"AND", "CMN", "EOR"} -> selectANDtoEOR(i, o)
    [] i.op \in {"MSR", "MUL", "MVN"} -> selectMSRtoMVN(i, o)
    [] i.op \in {"ORR", "RSB"} -> selectORRandRSB(i, o)
    [] i.op \in {"RSC", "CLZ", "SBC", "TEQ", "TST"} -> selectRSCtoTST(i, o)
    [] i.op \in {"BIC", "MLA"} -> selectBICandMLA(i, o)

\* The shift that a split instruction begins with, by the constant or register n.
selectShift(i) ==
  CASE i.enc = "rrx" -> Node("RRX", i.b, 0)
    [] i.enc # "rrx" /\ i.sh = "lsl" -> Node("SHL", i.b, i.n)
    [] i.enc # "rrx" /\ i.sh = "lsr" -> Node("SRL", i.b, i.n)
    [] i.enc # "rrx" /\ i.sh = "asr" -> Node("SRA", i.b, i.n)
    [] i.enc # "rrx" /\ i.sh = "ror" -> Node("ROTR", i.b, i.n)

-----------------------------------------------------------------------------
(* Emission of a node: its value, and the flags it stores if it stores them. *)

Emits(v, flags) == [value |-> v, flags |-> flags]

\* The shifts of LLVM are poison from the width on.
shiftValue(n) ==
  CASE n.y \notin 0 .. Width - 1 -> Poison
    [] n.y \in 0 .. Width - 1 /\ n.opc = "SHL" -> ShiftLeft(n.x, n.y)
    [] n.y \in 0 .. Width - 1 /\ n.opc = "SRL" -> ShiftRight(n.x, n.y)
    [] n.y \in 0 .. Width - 1 /\ n.opc = "SRA" -> ShiftArith(n.x, n.y)

Shifting == {"SHL", "SRL", "SRA"}
Binary == {"ADD", "SUB", "MUL", "AND", "OR", "XOR"} \cup Shifting

binaryValue(n) ==
  CASE n.opc = "ADD" -> Wrap(n.x + n.y)
    [] n.opc = "SUB" -> Wrap(n.x - n.y)
    [] n.opc = "MUL" -> (n.x * n.y) % Modulus
    [] n.opc = "AND" -> BitAnd(n.x, n.y)
    [] n.opc = "OR" -> BitOr(n.x, n.y)
    [] n.opc = "XOR" -> BitXor(n.x, n.y)
    [] n.opc \in Shifting -> shiftValue(n)

\* The carry is the last bit of a shift by one less.
shiftCarry(n) ==
  LET short == shiftValue([n EXCEPT !.y = n.y - 1]) IN
  IF n.y = 0 \/ short = Poison THEN Maybe ELSE Flag(IF n.opc = "SHL" THEN HighBit(short) ELSE Bit(short, 0))

\* Mutant: the carry of a shift is not stored.
emitBinaryCPSR_NoCarry(n) ==
  CASE n.opc = "ADD" -> emitCPSR(n.x, n.y, 0)
    [] n.opc = "SUB" -> emitCPSR(n.x, Complement(n.y), 1)
    [] n.opc \notin {"ADD", "SUB"} -> emitSpecialCPSR(binaryValue(n))

emitBinaryCPSR(n) ==
  CASE n.opc = "ADD" -> emitCPSR(n.x, n.y, 0)
    [] n.opc = "SUB" -> emitCPSR(n.x, Complement(n.y), 1)
    [] n.opc \in {"MUL", "AND", "OR", "XOR"} -> emitSpecialCPSR(binaryValue(n))
    [] n.opc \in Shifting ->
         [f \in {"N", "Z", "C"} |-> IF f = "C" THEN shiftCarry(n)
                                   ELSE emitSpecialCPSR(binaryValue(n))[f]]

\* Mutant: the operands of the comparison in the other order.
emitICmp_Swapped(n) == emitCPSR(n.y, Complement(n.x), 1)

emitICmp(n) == emitCPSR(n.x, Complement(n.y), 1)

emitBinary(n) == Emits(binaryValue(n), emitBinaryCPSR(n))

\* A shift to the right and one to the left by the rest, which is poison for 0.
emitROTR(n) ==
  LET v == IF n.y \in 1 .. Width - 1 THEN FunnelRight(n.x, n.x, n.y) ELSE Poison
  IN  Emits(v, emitSpecialCPSR(v))

\* RRX sets no flag: it is emitted for the first part of a split instruction only.
emitRRX(n, cf) == Emits(IF cf = Maybe THEN Poison ELSE n.x \div 2 + cf * Half, <<>>)

emitBIC(n) ==
  LET v == BitAnd(n.x, Complement(n.y)) IN Emits(v, emitSpecialCPSR(v))

emitCMN(n, old) == Emits(old, emitCPSR(n.x, n.y, 0))
emitCTLZ(n) == Emits(IF n.x = 0 THEN Poison ELSE LeadingZeros(n.x), <<>>)
emitMLA(n, acc) == Emits((n.x * n.y + acc) % Modulus, <<>>)
emitTST(n, old) == Emits(old, emitSpecialCPSR(BitAnd(n.x, n.y)))

\* The destination of SBC is not recorded; the flags are always set as without borrow.
emitSBC(n, old) == Emits(old, emitCPSR(n.x, Complement(n.y), 0))
emitTEQ(n, old) == Emits(old, emitSpecialCPSR(BitXor(n.x, n.y)))

\* MSR compares the upper bits with one flag at a time.
emitMSR(n, old) ==
  LET u == UpperBits(n.x) IN
  Emits(old, [N |-> Flag(u = 8), Z |-> Flag(u = 4), C |-> Flag(u = 2), V |-> Flag(u = 1)])

\* The flags are always set as with a carry.
emitADDC(n, cf) ==
  Emits(IF cf = Maybe THEN Poison ELSE (n.x + n.y + cf) % Modulus, emitCPSR(n.x, n.y, 1))
emitRSC(n, cf) == Emits(IF cf = Maybe THEN Poison ELSE (n.y - (n.x + cf)) % Modulus, <<>>)
emitRSB(n) == Emits(Wrap(n.x - n.y), emitCPSR(Complement(n.y), n.x, 1))

emitSpecialNode(n, cf, old) ==
  CASE n.opc = "ROTR" -> emitROTR(n)
    [] n.opc = "RRX" -> emitRRX(n, cf)
    [] n.opc = "BIC" -> emitBIC(n)
    [] n.opc = "CMN" -> emitCMN(n, old)
    [] n.opc = "CTLZ" -> emitCTLZ(n)
    [] n.opc = "MLA" -> emitMLA(n, old)
    [] n.opc = "TST" -> emitTST(n, old)
    [] n.opc = "SBC" -> emitSBC(n, old)
    [] n.opc = "TEQ" -> emitTEQ(n, old)
    [] n.opc = "MSR" -> emitMSR(n, old)
    [] n.opc = "ADDC" -> emitADDC(n, cf)
    [] n.opc = "RSC" -> emitRSC(n, cf)
    [] n.opc = "RSB" -> emitRSB(n)

emitSDNode(n, cf, old) ==
  CASE n.opc = "SETCC" -> Emits(old, emitICmp(n))
    [] n.opc \in Binary -> emitBinary(n)
    [] n.opc \notin Binary \cup {"SETCC"} -> emitSpecialNode(n, cf, old)

-----------------------------------------------------------------------------
(* Splitting and visitCC: which of the parts sets the flags. *)

\* adds, and not addseq, which is emitted as addeq.
UpdateCPSR(i) == i.s /\ i.cond = "AL"

\* splitCommon, splitS, splitC and splitCS: the shift, which sets the flags if both do.
firstPart(i, F) ==
  LET e == emitSDNode(selectShift(i), F["C"], i.b) IN
  CASE ~Splits(i) -> Emits(i.b, <<>>)
    [] Splits(i) -> Emits(e.value, IF UpdateCPSR(i) /\ i.op \in isShift_C /\ i.enc # "rrx" THEN e.flags ELSE <<>>)

\* removeNeedlessInst drops a move of a register to itself; there is no selection of a
\* shifted SBC.
dropped(i) == i.enc = "self" \/ (i.op = "SBC" /\ i.enc # "plain")

\* The comparisons and MSR always set the flags.
secondPart(i, o, F) ==
  LET e == emitSDNode(selectCode(i, o), F["C"], i.old) IN
  IF UpdateCPSR(i) \/ i.op \in Comparisons \cup {"MSR"} THEN e ELSE Emits(e.value, <<>>)

\* CMP, CLZ, MLA and RSC are emitted without their condition.
ignoresCondition == {"CMP", "CLZ", "MLA", "RSC"}

\* An instruction that asks for emitCPSR, or whose result is a PHI of the block and its
\* arm, is valid in a block that has not been forked.
needsWholeBlock(i) ==
  IF i.cond = "AL" \/ i.op \in ignoresCondition
  THEN i.op \in {"CMP", "CMN"} \/ (i.s /\ i.op \in {"ADD", "MOV", "SUB", "RSB", "ADC", "SBC"})
  ELSE i.op \notin Comparisons

forks(i) == i.cond # "AL" /\ i.op \notin ignoresCondition

\* The flag variables F after the stores g.
Store(F, g) == [f \in Flags |-> IF f \in DOMAIN g THEN g[f] ELSE F[f]]

\* The value and the flag variables; stores: those that are stored.
Raised(i, F) ==
  LET first == firstPart(i, F)
      second == secondPart(i, first.value, F)
      runs == i.op \in ignoresCondition \/ emitCondCode(i.cond, F)
  IN
  IF dropped(i) \/ ~runs
  THEN [value |-> IF i.enc = "self" THEN i.b ELSE i.old, flags |-> F, stores |-> {}]
  ELSE IF first.value = Poison
  THEN [value |-> IF i.op \in Comparisons THEN i.old ELSE Poison,
        flags |-> [f \in Flags |-> Maybe], stores |-> Flags]
  ELSE [value |-> second.value,
        flags |-> Store(Store(F, first.flags), second.flags),
        stores |-> DOMAIN first.flags \cup DOMAIN second.flags]

-----------------------------------------------------------------------------
(* Where the raised code departs from the machine: the flags, and the value, that *)
(* an instruction gets wrong, by the defect (README, Conditions in the properties). *)

\* The condition codes that are decided wrongly.
miscoded(cc, F) ==
  \/ cc \in {"HI", "LS"} /\ F["C"] = 0 /\ F["Z"] = 1
  \/ cc \in {"GT", "LE"} /\ F["Z"] = 1 /\ F["N"] # F["V"]

\* 1 is added to the largest word first.
carryLost(i) ==
  CASE i.op \in {"SUB", "CMP", "ADC"} -> i.a = Modulus - 1
    [] i.op = "RSB" -> i.a = 0
    [] OTHER -> FALSE
overflowLost(i) ==
  CASE i.op \in {"SUB", "CMP", "ADC"} -> i.a = Half - 1
    [] i.op = "RSB" -> i.a = Half
    [] OTHER -> FALSE

Departures(i, F, known) ==
  LET C == IF "C" \in known THEN F["C"] ELSE Maybe
      shifts == i.enc \in {"imm", "reg"}
      wrongOperand == \/ i.enc = "rrx" /\ C = Maybe
                      \/ shifts /\ (i.n >= Width \/ (i.n = 0 /\ i.sh = "ror"))
      wrongValue == \/ i.op \in {"SBC", "RSC"}
                    \/ i.op = "ADC" /\ C = Maybe
                    \/ i.op = "CLZ" /\ i.b = 0
      noFlags == i.s /\ (i.cond # "AL" \/ i.op \in {"MLA", "RSC"} \/ dropped(i))
      wrongFlags == \/ i.op = "ADC" /\ C # 1
                    \/ i.op = "SBC" /\ C # 0
                    \/ i.op = "MSR" /\ UpperBits(i.b) \notin {0, 1, 2, 4, 8}
      noShiftCarry == /\ i.op \in Logical
                      /\ \/ i.enc = "rrx"
                         \/ shifts /\ (i.n = 0 \/ i.sh = "ror" \/ i.op \notin isShift_C \/ ~i.s)
  IN  (IF wrongOperand \/ (i.cond # "AL" /\ i.op \in ignoresCondition /\ ~Holds(i.cond, F))
          \/ (i.cond # "AL" /\ (~FlagsOf(i.cond) \subseteq known \/ miscoded(i.cond, F)))
       THEN Flags \cup {"value"} ELSE {})
      \cup (IF wrongValue THEN {"value"} ELSE {})
      \cup (IF SetsFlags(i) /\ (noFlags \/ wrongFlags) THEN Flags ELSE {})
      \cup (IF i.op = "MOV" /\ i.s THEN {"C", "V"} ELSE {})
      \cup (IF SetsFlags(i) /\ noShiftCarry THEN {"C"} ELSE {})
      \cup (IF SetsFlags(i) /\ carryLost(i) THEN {"C"} ELSE {})
      \cup (IF SetsFlags(i) /\ overflowLost(i) THEN {"V"} ELSE {})

Step(i) ==
  LET runs == Holds(i.cond, mflags)
      m == Result(i, mflags["C"])
      writes == IF runs /\ SetsFlags(i) THEN m.flags ELSE <<>>
      value == IF runs /\ i.op \notin Comparisons THEN m.value ELSE i.old
      r == Raised(i, rflags)
      differ == Departures(i, mflags, tracked)
  IN
  /\ insts < MaxInsts
  /\ forked => ~needsWholeBlock(i)
  /\ mflags' = Store(mflags, writes)
  /\ rflags' = r.flags
  /\ tracked' = (tracked \cup DOMAIN writes) \ (differ \cap (DOMAIN writes \cup r.stores))
  /\ forked' = (forked \/ forks(i))
  /\ last' = IF i.op = "CMP" /\ i.enc = "plain" THEN [op |-> "CMP", a |-> i.a, b |-> i.b] ELSE NotCompared
  /\ agree' = ("value" \in differ \/ r.value = value)
  /\ insts' = insts + 1

\* The next block; the flag variables keep their values.
NextBlock ==
  /\ forked' = FALSE
  /\ UNCHANGED <<mflags, rflags, tracked, last, agree, insts>>

Next == NextBlock \/ \E i \in Instructions : Step(i)
Spec == Init /\ [][Next]_armVars

-----------------------------------------------------------------------------
(* Properties. *)

\* The value that an instruction leaves in its destination is the one of the machine.
ArmValuesFollow == agree

\* A flag variable that the raised code has kept so far is the flag of the machine: a split
\* instruction sets the flags once and in the order of the machine, and an instruction
\* that leaves a flag alone does so in the raised code.
ArmFlagsFollow == \A f \in tracked : rflags[f] = mflags[f]

\* A condition on such flags is decided as in the machine, but for the four that are coded
\* wrongly, each in one combination of the flags.
ArmConditionsFollow ==
  \A cc \in Conditions :
    FlagsOf(cc) \subseteq tracked /\ ~miscoded(cc, mflags) => (emitCondCode(cc, rflags) <=> Holds(cc, mflags))

\* After a comparison the conditions order its operands, the signed ones unless the first
\* is the largest signed word, the unsigned ones unless it is the largest word; the
\* combinations that are coded wrongly do not occur then.
Decides(F, a, b) ==
  /\ emitCondCode("EQ", F) <=> a = b
  /\ emitCondCode("NE", F) <=> a # b
  /\ a # Modulus - 1 =>
       /\ emitCondCode("HS", F) <=> a >= b
       /\ emitCondCode("LO", F) <=> a < b
       /\ emitCondCode("HI", F) <=> a > b
       /\ emitCondCode("LS", F) <=> a <= b
  /\ a # Half - 1 =>
       /\ emitCondCode("GE", F) <=> Signed(a) >= Signed(b)
       /\ emitCondCode("LT", F) <=> Signed(a) < Signed(b)
       /\ emitCondCode("GT", F) <=> Signed(a) > Signed(b)
       /\ emitCondCode("LE", F) <=> Signed(a) <= Signed(b)

ArmComparisonsDecide == last.op = "CMP" => Decides(rflags, last.a, last.b)

=============================================================================
