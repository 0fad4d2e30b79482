---------------------------- MODULE ArmFlags_proofs ----------------------------
(***************************************************************************)
(* The raised data-processing instructions of ARM follow the processor,    *)
(* for words of every width from four bits and all operands and counts,    *)
(* after every sequence of instructions; and a comparison decides the      *)
(* order of its operands. ArmComparedInv holds after CMP and ends with the *)
(* next instruction. ArmInv strengthens the properties of values and flags *)
(* by types. A step preserves it because each instruction, raised with     *)
(* variables of which only some hold the flags of the machine, leaves the  *)
(* value and the flags of the machine where Departures does not name them  *)
(* (RaisedFollows): the shifted operand first (FirstValue, FirstFlags),    *)
(* then the node of the instruction (LogicNode to StatusNode), then the    *)
(* two stores together (RunFollows), and the condition around them         *)
(* (ConditionFollows).                                                     *)
(***************************************************************************)
EXTENDS ArmFlags, Words_proofs

(* After a comparison. *)

\* The sum that emitCPSR makes for a comparison.
First(a) == Wrap(a + 1)
Sum(a, b) == Wrap(Complement(b) + First(a))

\* It is an order of words, if the first is not the one whose successor wraps or changes sign.
LEMMA SumOrders ==
  ASSUME NEW a \in Values, NEW b \in Values
  PROVE  /\ Sum(a, b) = 0 <=> a = b
         /\ a # Modulus - 1 => (Complement(b) + First(a) >= Modulus <=> a >= b)
         /\ a # Half - 1 =>
              ((HighBit(Sum(a, b)) <=> FitsSigned(Signed(Complement(b)) + Signed(First(a))))
                 <=> Signed(a) < Signed(b))
         /\ Signed(a) = Signed(b) <=> a = b
  BY WordRange, SMTT(60) DEF First, Sum, Wrap, Signed, HighBit, FitsSigned, Complement

\* Flags as truth values.
LEMMA FlagValues ==
  ASSUME NEW p \in BOOLEAN, NEW q \in BOOLEAN
  PROVE  /\ Flag(p) = 1 <=> p
         /\ Flag(p) = 0 <=> ~p
         /\ Flag(p) = Flag(q) <=> (p <=> q)
  BY DEF Flag

\* Flag variables that hold the flags of a comparison.
CompareFlags(F, a, b) ==
  /\ F["N"] = Flag(HighBit(Sum(a, b)))
  /\ F["Z"] = Flag(Sum(a, b) = 0)
  /\ F["C"] = Flag(Complement(b) + First(a) >= Modulus)
  /\ F["V"] = Flag(~FitsSigned(Signed(Complement(b)) + Signed(First(a))))

\* They decide the conditions.
LEMMA FlagsDecide ==
  ASSUME NEW a \in Values, NEW b \in Values, NEW F, CompareFlags(F, a, b)
  PROVE  Decides(F, a, b)
<1>1. /\ F["Z"] = 1 <=> a = b
      /\ F["Z"] = 0 <=> a # b
  BY SumOrders DEF CompareFlags, Flag
<1>2. ASSUME a # Modulus - 1
      PROVE  /\ F["C"] = 1 <=> a >= b
             /\ F["C"] = 0 <=> ~(a >= b)
  BY <1>2, SumOrders DEF CompareFlags, Flag
<1>3. ASSUME a # Half - 1
      PROVE  F["N"] = F["V"] <=> ~(Signed(a) < Signed(b))
  <2>1. /\ HighBit(Sum(a, b)) \in BOOLEAN
        /\ FitsSigned(Signed(Complement(b)) + Signed(First(a))) \in BOOLEAN
    BY DEF HighBit, FitsSigned
  <2>2. F["N"] = F["V"]
          <=> (HighBit(Sum(a, b)) <=> ~FitsSigned(Signed(Complement(b)) + Signed(First(a))))
    BY <2>1, FlagValues DEF CompareFlags
  <2> QED BY <2>1, <2>2, <1>3, SumOrders
<1>4. /\ a \in Int /\ b \in Int /\ Signed(a) \in Int /\ Signed(b) \in Int
      /\ Signed(a) = Signed(b) <=> a = b
  BY WordRange, SumOrders DEF Signed, HighBit
<1>5. /\ emitCondCode("EQ", F) <=> (F["Z"] = 1)
      /\ emitCondCode("NE", F) <=> (F["Z"] = 0)
      /\ emitCondCode("HS", F) <=> (F["C"] = 1)
      /\ emitCondCode("LO", F) <=> (F["C"] = 0)
      /\ emitCondCode("HI", F) <=> ((F["C"] = 1) <=> (F["Z"] = 0))
      /\ emitCondCode("LS", F) <=> ((F["C"] = 0) # (F["Z"] = 1))
      /\ emitCondCode("GE", F) <=> (F["N"] = F["V"])
      /\ emitCondCode("LT", F) <=> (F["N"] # F["V"])
      /\ emitCondCode("GT", F) <=> ((F["Z"] = 0) <=> (F["N"] = F["V"]))
      /\ emitCondCode("LE", F) <=> ((F["Z"] = 1) # (F["N"] # F["V"]))
  BY DEF emitCondCode
<1>6. ASSUME a # Modulus - 1
      PROVE  /\ emitCondCode("HS", F) <=> a >= b
             /\ emitCondCode("LO", F) <=> a < b
             /\ emitCondCode("HI", F) <=> a > b
             /\ emitCondCode("LS", F) <=> a <= b
  BY <1>1, <1>2, <1>4, <1>5, <1>6
<1>7. ASSUME a # Half - 1
      PROVE  /\ emitCondCode("GE", F) <=> Signed(a) >= Signed(b)
             /\ emitCondCode("LT", F) <=> Signed(a) < Signed(b)
             /\ emitCondCode("GT", F) <=> Signed(a) > Signed(b)
             /\ emitCondCode("LE", F) <=> Signed(a) <= Signed(b)
  BY <1>1, <1>3, <1>4, <1>5, <1>7
<1> QED BY <1>1, <1>5, <1>6, <1>7 DEF Decides

-----------------------------------------------------------------------------
(* The comparison in the raised code. *)

ArmComparedInv ==
  last.op = "CMP" => last.a \in Values /\ last.b \in Values /\ CompareFlags(rflags, last.a, last.b)

\* The operands of an instruction are words.
LEMMA InstructionWords ==
  ASSUME NEW i \in Instructions
  PROVE  i.b \in Values /\ (i.op = "CMP" => i.a \in Values)
<1>1. \A ops, encs, shifts, ns, ss, conds, A, B :
        \A j \in Insts(ops, encs, shifts, ns, ss, conds, A, B) : j.a \in A /\ j.b \in B /\ j.op \in ops
  BY DEF Insts
<1>2. Operands \subseteq Values /\ Samples \subseteq Values
  BY ArmAssumption
<1>3. i.b \in Values
  BY <1>1, <1>2 DEF Instructions
<1>4. i.op = "CMP" => i.a \in Values
  BY <1>1, <1>2 DEF Instructions, WithResult, ThreeOperands, checkisShifter, Comparisons
<1> QED BY <1>3, <1>4

\* CMP leaves the flags of its operands in the flag variables, whatever its condition.
LEMMA CompareRaised ==
  ASSUME NEW i, i.op = "CMP", i.enc = "plain", i.a \in Values, i.b \in Values, NEW F
  PROVE  CompareFlags(Raised(i, F).flags, i.a, i.b)
<1>1. firstPart(i, F) = [value |-> i.b, flags |-> <<>>]
  BY DEF firstPart, Splits, Emits
<1>2. ~dropped(i)
  BY DEF dropped
<1>3. i.op \in ignoresCondition
  BY DEF ignoresCondition
<1>4. i.b # Poison
  BY WordRange DEF Poison
<1>5. secondPart(i, i.b, F).flags = emitCPSR(i.a, Complement(i.b), 1)
  <2>1. selectCode(i, i.b) = [opc |-> "SETCC", x |-> i.a, y |-> i.b]
    BY DEF selectCode, selectCMP, Node
  <2>2. emitSDNode(selectCode(i, i.b), F["C"], i.old)
          = [value |-> i.old, flags |-> emitCPSR(i.a, Complement(i.b), 1)]
    BY <2>1 DEF emitSDNode, emitICmp, Emits, Binary, Shifting
  <2> QED BY <2>2 DEF secondPart, Comparisons
<1> DEFINE R == emitCPSR(i.a, Complement(i.b), 1)
           G == Store(F, <<>>)
<1>6. Raised(i, F).flags = Store(G, R)
  BY <1>1, <1>2, <1>3, <1>4, <1>5 DEF Raised
<1>7. R = [N |-> Flag(HighBit(Sum(i.a, i.b))), Z |-> Flag(Sum(i.a, i.b) = 0),
           C |-> Flag(Complement(i.b) + First(i.a) >= Modulus),
           V |-> Flag(~FitsSigned(Signed(Complement(i.b)) + Signed(First(i.a))))]
  BY DEF emitCPSR, Sum, First
<1> HIDE DEF R, G
<1>8. DOMAIN R = Flags /\ CompareFlags(R, i.a, i.b)
  BY <1>7 DEF Flags, CompareFlags
<1>9. \A f \in Flags : Store(G, R)[f] = R[f]
  BY <1>8 DEF Store
<1> QED BY <1>6, <1>8, <1>9 DEF CompareFlags, Flags

\* After CMP the flag variables hold the flags of the difference of its operands.
THEOREM ArmComparedInvariant == Spec => []ArmComparedInv
<1>1. Init => ArmComparedInv
  BY DEF Init, ArmComparedInv, NotCompared
<1>2. ArmComparedInv /\ [Next]_armVars => ArmComparedInv'
  <2> SUFFICES ASSUME ArmComparedInv, [Next]_armVars, last'.op = "CMP"
               PROVE  /\ last'.a \in Values /\ last'.b \in Values
                      /\ CompareFlags(rflags', last'.a, last'.b)
    BY DEF ArmComparedInv
  <2>1. CASE NextBlock
    BY <2>1 DEF NextBlock, ArmComparedInv
  <2>2. ASSUME NEW i \in Instructions, Step(i)
        PROVE  /\ last'.a \in Values /\ last'.b \in Values
               /\ CompareFlags(rflags', last'.a, last'.b)
    <3>1. /\ i.op = "CMP" /\ i.enc = "plain"
          /\ last'.a = i.a /\ last'.b = i.b
      BY <2>2 DEF Step, NotCompared
    <3>2. rflags' = Raised(i, rflags).flags
      BY <2>2 DEF Step
    <3> QED BY <3>1, <3>2, InstructionWords, CompareRaised
  <2>3. CASE UNCHANGED armVars
    BY <2>3 DEF armVars, ArmComparedInv
  <2> QED BY <2>1, <2>2, <2>3 DEF Next
<1> QED BY <1>1, <1>2, PTL DEF Spec

\* After a comparison the conditions of the raised code order its operands, whatever the
\* width of the words, with the exceptions of the largest first operand.
THEOREM ArmComparisonsAlwaysDecide == Spec => []ArmComparisonsDecide
<1>1. ArmComparedInv => ArmComparisonsDecide
  BY FlagsDecide DEF ArmComparedInv, ArmComparisonsDecide
<1> QED BY <1>1, ArmComparedInvariant, PTL

-----------------------------------------------------------------------------
(* The instructions. *)

Ops == checkisShifter \cup {"SBC", "RSC", "MUL", "MLA", "CLZ", "MSR"}

\* An instruction, and the forms that there are.
ArmForm(i) ==
  /\ i.a \in Values /\ i.b \in Values /\ i.n \in Nat /\ i.old = 5 /\ i.op \in Ops
  /\ i.enc \in {"plain", "self", "imm", "reg", "rrx"} /\ i.cond \in Conditions \cup {"AL"}
  /\ i.s \in BOOLEAN /\ (i.op \in Comparisons \cup {"CLZ", "MSR"} => ~i.s)
  /\ i.cond # "AL" => i.enc = "plain"
  /\ i.enc \in {"imm", "reg"} => i.sh \in ShiftOps /\ i.op \in checkisShifter \cup {"SBC", "RSC"}
  /\ i.enc = "rrx" => i.op \in checkisShifter
  /\ i.enc = "self" => i.op = "MOV"

\* The operands and fields of an instruction.
LEMMA InstructionForms == ASSUME NEW i \in Instructions PROVE ArmForm(i)
<1> DEFINE Fields(ops, encs, shifts, ns, ss, conds, A, B) ==
      /\ i.op \in ops /\ i.enc \in encs /\ i.sh \in shifts /\ i.n \in ns /\ i.s \in ss
      /\ i.cond \in conds /\ i.a \in A /\ i.b \in B /\ i.old = 5
<1>1. \A ops, encs, shifts, ns, ss, conds, A, B :
        i \in Insts(ops, encs, shifts, ns, ss, conds, A, B)
          => Fields(ops, encs, shifts, ns, ss, conds, A, B)
  BY DEF Insts
<1>2. /\ Operands \subseteq Values /\ Samples \subseteq Values /\ Counts \subseteq Nat
      /\ 0 \in Values /\ 1 .. Width - 1 \subseteq Nat
  <2>1. 0 \in Values /\ Width - 1 \in Int
    BY WordBounds
  <2> QED
    BY <2>1, ArmAssumption
<1> DEFINE Silent == Comparisons \cup {"CLZ", "MSR"}
<1>0. /\ ThreeOperands \subseteq Ops \ Silent /\ WithResult \subseteq Ops \ Silent
      /\ Comparisons \subseteq Ops /\ checkisShifter \subseteq Ops
      /\ {"MOV", "MVN", "SBC", "RSC"} \subseteq Ops \ Silent /\ {"CLZ", "MSR"} \subseteq Ops
      /\ checkisShifter \cap {"CLZ", "MSR"} = {}
  BY DEF WithResult, ThreeOperands, checkisShifter, Comparisons, Ops
<1>3. CASE i \in Insts(ThreeOperands, {"plain"}, {"none"}, {0}, BOOLEAN, {"AL"}, Operands, Operands)
  <2>1. Fields(ThreeOperands, {"plain"}, {"none"}, {0}, BOOLEAN, {"AL"}, Operands, Operands)
    BY <1>1, <1>3
  <2>2. i.a \in Values /\ i.b \in Values /\ i.n \in Nat /\ i.old = 5 /\ i.op \in Ops
    BY <1>0, <1>2, <2>1
  <2>3. i.enc \in {"plain", "self", "imm", "reg", "rrx"} /\ i.cond \in Conditions \cup {"AL"}
    BY <2>1
  <2>4. i.s \in BOOLEAN /\ (i.op \in Silent => ~i.s)
    BY <1>0, <2>1
  <2> QED
    BY <1>0, <2>1, <2>2, <2>3, <2>4 DEF ArmForm
<1>4. CASE i \in Insts(Comparisons, {"plain"}, {"none"}, {0}, {FALSE}, {"AL"}, Operands, Operands)
  <2>1. Fields(Comparisons, {"plain"}, {"none"}, {0}, {FALSE}, {"AL"}, Operands, Operands)
    BY <1>1, <1>4
  <2>2. i.a \in Values /\ i.b \in Values /\ i.n \in Nat /\ i.old = 5 /\ i.op \in Ops
    BY <1>0, <1>2, <2>1
  <2>3. i.enc \in {"plain", "self", "imm", "reg", "rrx"} /\ i.cond \in Conditions \cup {"AL"}
    BY <2>1
  <2>4. i.s \in BOOLEAN /\ (i.op \in Silent => ~i.s)
    BY <1>0, <2>1
  <2> QED
    BY <1>0, <2>1, <2>2, <2>3, <2>4 DEF ArmForm
<1>5. CASE i \in Insts({"MOV"}, {"plain", "self"}, {"none"}, {0}, BOOLEAN, {"AL"}, {0}, Operands)
  <2>1. Fields({"MOV"}, {"plain", "self"}, {"none"}, {0}, BOOLEAN, {"AL"}, {0}, Operands)
    BY <1>1, <1>5
  <2>2. i.a \in Values /\ i.b \in Values /\ i.n \in Nat /\ i.old = 5 /\ i.op \in Ops
    BY <1>0, <1>2, <2>1
  <2>3. i.enc \in {"plain", "self", "imm", "reg", "rrx"} /\ i.cond \in Conditions \cup {"AL"}
    BY <2>1
  <2>4. i.s \in BOOLEAN /\ (i.op \in Silent => ~i.s)
    BY <1>0, <2>1
  <2> QED
    BY <1>0, <2>1, <2>2, <2>3, <2>4 DEF ArmForm
<1>6. CASE i \in Insts({"MVN"}, {"plain"}, {"none"}, {0}, BOOLEAN, {"AL"}, {0}, Operands)
  <2>1. Fields({"MVN"}, {"plain"}, {"none"}, {0}, BOOLEAN, {"AL"}, {0}, Operands)
    BY <1>1, <1>6
  <2>2. i.a \in Values /\ i.b \in Values /\ i.n \in Nat /\ i.old = 5 /\ i.op \in Ops
    BY <1>0, <1>2, <2>1
  <2>3. i.enc \in {"plain", "self", "imm", "reg", "rrx"} /\ i.cond \in Conditions \cup {"AL"}
    BY <2>1
  <2>4. i.s \in BOOLEAN /\ (i.op \in Silent => ~i.s)
    BY <1>0, <2>1
  <2> QED
    BY <1>0, <2>1, <2>2, <2>3, <2>4 DEF ArmForm
<1>7. CASE i \in Insts({"CLZ", "MSR"}, {"plain"}, {"none"}, {0}, {FALSE}, {"AL"}, {0}, Operands)
  <2>1. Fields({"CLZ", "MSR"}, {"plain"}, {"none"}, {0}, {FALSE}, {"AL"}, {0}, Operands)
    BY <1>1, <1>7
  <2>2. i.a \in Values /\ i.b \in Values /\ i.n \in Nat /\ i.old = 5 /\ i.op \in Ops
    BY <1>0, <1>2, <2>1
  <2>3. i.enc \in {"plain", "self", "imm", "reg", "rrx"} /\ i.cond \in Conditions \cup {"AL"}
    BY <2>1
  <2>4. i.s \in BOOLEAN /\ (i.op \in Silent => ~i.s)
    BY <1>0, <2>1
  <2> QED
    BY <1>0, <2>1, <2>2, <2>3, <2>4 DEF ArmForm
<1>8. CASE i \in Insts(checkisShifter \ Comparisons, {"imm"}, ShiftOps, 1 .. Width - 1, {TRUE},
                     {"AL"}, Samples, Samples)
  <2>1. Fields(checkisShifter \ Comparisons, {"imm"}, ShiftOps, 1 .. Width - 1, {TRUE},
               {"AL"}, Samples, Samples)
    BY <1>1, <1>8
  <2>2. i.a \in Values /\ i.b \in Values /\ i.n \in Nat /\ i.old = 5 /\ i.op \in Ops
    BY <1>0, <1>2, <2>1
  <2>3. i.enc \in {"plain", "self", "imm", "reg", "rrx"} /\ i.cond \in Conditions \cup {"AL"}
    BY <2>1
  <2>4. i.s \in BOOLEAN /\ (i.op \in Silent => ~i.s)
    BY <1>0, <2>1
  <2> QED
    BY <1>0, <2>1, <2>2, <2>3, <2>4 DEF ArmForm
<1>9. CASE i \in Insts(checkisShifter \ Comparisons, {"reg"}, ShiftOps, Counts, {TRUE},
                     {"AL"}, Samples, Samples)
  <2>1. Fields(checkisShifter \ Comparisons, {"reg"}, ShiftOps, Counts, {TRUE},
               {"AL"}, Samples, Samples)
    BY <1>1, <1>9
  <2>2. i.a \in Values /\ i.b \in Values /\ i.n \in Nat /\ i.old = 5 /\ i.op \in Ops
    BY <1>0, <1>2, <2>1
  <2>3. i.enc \in {"plain", "self", "imm", "reg", "rrx"} /\ i.cond \in Conditions \cup {"AL"}
    BY <2>1
  <2>4. i.s \in BOOLEAN /\ (i.op \in Silent => ~i.s)
    BY <1>0, <2>1
  <2> QED
    BY <1>0, <2>1, <2>2, <2>3, <2>4 DEF ArmForm
<1>10. CASE i \in Insts(checkisShifter \ {"ADC"}, {"imm"}, ShiftOps, {1}, {FALSE},
                     {"AL"}, Samples, Samples)
  <2>1. Fields(checkisShifter \ {"ADC"}, {"imm"}, ShiftOps, {1}, {FALSE}, {"AL"}, Samples, Samples)
    BY <1>1, <1>10
  <2>2. i.a \in Values /\ i.b \in Values /\ i.n \in Nat /\ i.old = 5 /\ i.op \in Ops
    BY <1>0, <1>2, <2>1
  <2>3. i.enc \in {"plain", "self", "imm", "reg", "rrx"} /\ i.cond \in Conditions \cup {"AL"}
    BY <2>1
  <2>4. i.s \in BOOLEAN /\ (i.op \in Silent => ~i.s)
    BY <1>0, <2>1
  <2> QED
    BY <1>0, <2>1, <2>2, <2>3, <2>4 DEF ArmForm
<1>11. CASE i \in Insts(checkisShifter \ {"ADC"}, {"reg"}, ShiftOps, {0, 2}, {FALSE},
                     {"AL"}, Samples, Samples)
  <2>1. Fields(checkisShifter \ {"ADC"}, {"reg"}, ShiftOps, {0, 2}, {FALSE},
               {"AL"}, Samples, Samples)
    BY <1>1, <1>11
  <2>2. i.a \in Values /\ i.b \in Values /\ i.n \in Nat /\ i.old = 5 /\ i.op \in Ops
    BY <1>0, <1>2, <2>1
  <2>3. i.enc \in {"plain", "self", "imm", "reg", "rrx"} /\ i.cond \in Conditions \cup {"AL"}
    BY <2>1
  <2>4. i.s \in BOOLEAN /\ (i.op \in Silent => ~i.s)
    BY <1>0, <2>1
  <2> QED
    BY <1>0, <2>1, <2>2, <2>3, <2>4 DEF ArmForm
<1>12. CASE i \in Insts(checkisShifter \ Comparisons, {"rrx"}, {"none"}, {0}, {TRUE},
                     {"AL"}, Samples, Samples)
  <2>1. Fields(checkisShifter \ Comparisons, {"rrx"}, {"none"}, {0}, {TRUE},
               {"AL"}, Samples, Samples)
    BY <1>1, <1>12
  <2>2. i.a \in Values /\ i.b \in Values /\ i.n \in Nat /\ i.old = 5 /\ i.op \in Ops
    BY <1>0, <1>2, <2>1
  <2>3. i.enc \in {"plain", "self", "imm", "reg", "rrx"} /\ i.cond \in Conditions \cup {"AL"}
    BY <2>1
  <2>4. i.s \in BOOLEAN /\ (i.op \in Silent => ~i.s)
    BY <1>0, <2>1
  <2> QED
    BY <1>0, <2>1, <2>2, <2>3, <2>4 DEF ArmForm
<1>13. CASE i \in Insts(checkisShifter \ {"ADC"}, {"rrx"}, {"none"}, {0}, {FALSE},
                     {"AL"}, Samples, Samples)
  <2>1. Fields(checkisShifter \ {"ADC"}, {"rrx"}, {"none"}, {0}, {FALSE}, {"AL"}, Samples, Samples)
    BY <1>1, <1>13
  <2>2. i.a \in Values /\ i.b \in Values /\ i.n \in Nat /\ i.old = 5 /\ i.op \in Ops
    BY <1>0, <1>2, <2>1
  <2>3. i.enc \in {"plain", "self", "imm", "reg", "rrx"} /\ i.cond \in Conditions \cup {"AL"}
    BY <2>1
  <2>4. i.s \in BOOLEAN /\ (i.op \in Silent => ~i.s)
    BY <1>0, <2>1
  <2> QED
    BY <1>0, <2>1, <2>2, <2>3, <2>4 DEF ArmForm
<1>14. CASE i \in Insts({"SBC", "RSC"}, {"imm"}, {"lsl"}, {1}, BOOLEAN, {"AL"}, Samples, Samples)
  <2>1. Fields({"SBC", "RSC"}, {"imm"}, {"lsl"}, {1}, BOOLEAN, {"AL"}, Samples, Samples)
    BY <1>1, <1>14
  <2>2. i.a \in Values /\ i.b \in Values /\ i.n \in Nat /\ i.old = 5 /\ i.op \in Ops
    BY <1>0, <1>2, <2>1
  <2>3. i.enc \in {"plain", "self", "imm", "reg", "rrx"} /\ i.cond \in Conditions \cup {"AL"}
    BY <2>1
  <2>4. i.s \in BOOLEAN /\ (i.op \in Silent => ~i.s)
    BY <1>0, <2>1
  <2> QED
    BY <1>0, <2>1, <2>2, <2>3, <2>4 DEF ArmForm, ShiftOps
<1>15. CASE i \in Insts(WithResult \ {"ADC"}, {"plain"}, {"none"}, {0}, BOOLEAN,
                     Conditions, Samples, Samples)
  <2>1. Fields(WithResult \ {"ADC"}, {"plain"}, {"none"}, {0}, BOOLEAN,
               Conditions, Samples, Samples)
    BY <1>1, <1>15
  <2>2. i.a \in Values /\ i.b \in Values /\ i.n \in Nat /\ i.old = 5 /\ i.op \in Ops
    BY <1>0, <1>2, <2>1
  <2>3. i.enc \in {"plain", "self", "imm", "reg", "rrx"} /\ i.cond \in Conditions \cup {"AL"}
    BY <2>1
  <2>4. i.s \in BOOLEAN /\ (i.op \in Silent => ~i.s)
    BY <1>0, <2>1
  <2> QED
    BY <1>0, <2>1, <2>2, <2>3, <2>4 DEF ArmForm
<1>16. CASE i \in Insts(Comparisons \ {"CMN"}, {"plain"}, {"none"}, {0}, {FALSE},
                     Conditions, Samples, Samples)
  <2>1. Fields(Comparisons \ {"CMN"}, {"plain"}, {"none"}, {0}, {FALSE},
               Conditions, Samples, Samples)
    BY <1>1, <1>16
  <2>2. i.a \in Values /\ i.b \in Values /\ i.n \in Nat /\ i.old = 5 /\ i.op \in Ops
    BY <1>0, <1>2, <2>1
  <2>3. i.enc \in {"plain", "self", "imm", "reg", "rrx"} /\ i.cond \in Conditions \cup {"AL"}
    BY <2>1
  <2>4. i.s \in BOOLEAN /\ (i.op \in Silent => ~i.s)
    BY <1>0, <2>1
  <2> QED
    BY <1>0, <2>1, <2>2, <2>3, <2>4 DEF ArmForm
<1>17. CASE i \in Insts({"CLZ"}, {"plain"}, {"none"}, {0}, {FALSE}, Conditions, {0}, Samples)
  <2>1. Fields({"CLZ"}, {"plain"}, {"none"}, {0}, {FALSE}, Conditions, {0}, Samples)
    BY <1>1, <1>17
  <2>2. i.a \in Values /\ i.b \in Values /\ i.n \in Nat /\ i.old = 5 /\ i.op \in Ops
    BY <1>0, <1>2, <2>1
  <2>3. i.enc \in {"plain", "self", "imm", "reg", "rrx"} /\ i.cond \in Conditions \cup {"AL"}
    BY <2>1
  <2>4. i.s \in BOOLEAN /\ (i.op \in Silent => ~i.s)
    BY <1>0, <2>1
  <2> QED
    BY <1>0, <2>1, <2>2, <2>3, <2>4 DEF ArmForm
<1> QED
  BY <1>3, <1>4, <1>5, <1>6, <1>7, <1>8, <1>9, <1>10, <1>11, <1>12, <1>13, <1>14, <1>15, <1>16, <1>17 DEF Instructions

-----------------------------------------------------------------------------
(* Sums and differences. *)

\* The complement of a word.
LEMMA ComplementWord ==
  ASSUME NEW v \in Values
  PROVE  Complement(v) \in Values /\ Complement(v) = Modulus - 1 - v
  BY WordRange DEF Complement

\* The remainder of a number less than two words.
LEMMA RemainderOfSum ==
  ASSUME NEW x \in Int, 0 <= x, x < 2 * Modulus
  PROVE  x % Modulus \in Values /\ x % Modulus = IF x < Modulus THEN x ELSE x - Modulus
<1>1. Modulus \in Nat \ {0} /\ Values = 0 .. Modulus - 1
  BY WordRange
<1>2. CASE x < Modulus
  <2>1. x = Modulus * 0 + x
    BY <1>1
  <2>2. x % Modulus = x
    BY <1>1, <1>2, <2>1, DivUnique
  <2> QED
    BY <1>1, <1>2, <2>2
<1>3. CASE ~(x < Modulus)
  <2>1. x = Modulus * 1 + (x - Modulus) /\ 0 <= x - Modulus /\ x - Modulus < Modulus
        /\ x - Modulus \in Int
    BY <1>1, <1>3
  <2>2. x % Modulus = x - Modulus
    BY <1>1, <2>1, DivUnique
  <2> QED
    BY <1>1, <1>3, <2>1, <2>2
<1> QED
  BY <1>2, <1>3

\* The flags of a sum, if the addition of 1 to its first operand loses nothing.
LEMMA SumFollows ==
  ASSUME NEW x \in Values, NEW y \in Values, NEW c \in {0, 1},
         NEW S, S = emitCPSR(x, y, c), NEW A, A = AddWithCarry(x, y, c)
  PROVE  /\ A.value \in Values /\ A.value = Wrap(y + Wrap(x + c))
         /\ DOMAIN S = Flags /\ DOMAIN A.flags = Flags
         /\ S["N"] = A.flags["N"] /\ S["Z"] = A.flags["Z"]
         /\ ~(c = 1 /\ x = Modulus - 1) => S["C"] = A.flags["C"]
         /\ ~(c = 1 /\ x = Half - 1) => S["V"] = A.flags["V"]
<1> DEFINE w == Wrap(x + c)
           v == (x + y + c) % Modulus
<1>1. /\ w \in Values /\ (w = x + c \/ (w = 0 /\ x = Modulus - 1 /\ c = 1))
      /\ v \in Values /\ v = (IF x + y + c < Modulus THEN x + y + c ELSE (x + y + c) - Modulus)
  <2>1. Half \in Nat /\ Half >= 2 /\ Modulus = 2 * Half /\ Values = 0 .. 2 * Half - 1
    BY WordRange
  <2>2. w \in Values /\ (w = x + c \/ (w = 0 /\ x = Modulus - 1 /\ c = 1))
    BY <2>1 DEF Wrap
  <2> DEFINE z == x + y + c
  <2>3. z \in Int /\ 0 <= z /\ z < 2 * Modulus
    BY <2>1
  <2> HIDE DEF z
  <2>4. z % Modulus \in Values /\ z % Modulus = IF z < Modulus THEN z ELSE z - Modulus
    BY <2>3, RemainderOfSum
  <2>5. v = z % Modulus
    BY DEF z
  <2> HIDE DEF v, w
  <2>6. v \in Values /\ v = IF z < Modulus THEN z ELSE z - Modulus
    BY <2>4, <2>5
  <2>7. v = IF x + y + c < Modulus THEN x + y + c ELSE (x + y + c) - Modulus
    BY <2>6, Zenon DEF z
  <2> QED
    BY <2>2, <2>6, <2>7, Zenon
<1>2. /\ S = [N |-> Flag(HighBit(Wrap(y + w))), Z |-> Flag(Wrap(y + w) = 0),
              C |-> Flag(y + w >= Modulus), V |-> Flag(~FitsSigned(Signed(y) + Signed(w)))]
      /\ A = [value |-> v,
              flags |-> [N |-> Flag(HighBit(v)), Z |-> Flag(v = 0), C |-> Flag(x + y + c >= Modulus),
                         V |-> Flag(~FitsSigned(Signed(x) + Signed(y) + c))]]
  BY DEF emitCPSR, AddWithCarry
<1> HIDE DEF w, v
<1>3. Wrap(y + w) = v
  BY <1>1, WordRange DEF Wrap
<1>4. ~(c = 1 /\ x = Modulus - 1) => (y + w >= Modulus <=> x + y + c >= Modulus)
  BY <1>1, WordRange
<1>5. ~(c = 1 /\ x = Half - 1) => Signed(w) = Signed(x) + c
  BY <1>1, WordRange DEF Signed, HighBit
<1>6. ~(c = 1 /\ x = Half - 1) =>
        (FitsSigned(Signed(y) + Signed(w)) <=> FitsSigned(Signed(x) + Signed(y) + c))
  BY <1>5, WordRange DEF Signed, HighBit, FitsSigned
<1>7. DOMAIN S = Flags /\ DOMAIN A.flags = Flags
  BY <1>2 DEF Flags
<1>8. S["N"] = A.flags["N"] /\ S["Z"] = A.flags["Z"]
  BY <1>2, <1>3
<1>9. ~(c = 1 /\ x = Modulus - 1) => S["C"] = A.flags["C"]
  BY <1>2, <1>4 DEF Flag
<1>10. ~(c = 1 /\ x = Half - 1) => S["V"] = A.flags["V"]
  BY <1>2, <1>6 DEF Flag
<1> QED
  BY <1>1, <1>2, <1>3, <1>7, <1>8, <1>9, <1>10 DEF w

\* A sum with the complement and a carry is a difference.
LEMMA DifferenceFollows ==
  ASSUME NEW x \in Values, NEW y \in Values
  PROVE  /\ AddWithCarry(x, Complement(y), 1).value = Wrap(x - y)
         /\ AddWithCarry(Complement(y), x, 1).value = Wrap(x - y)
         /\ AddWithCarry(x, y, 0).value = Wrap(x + y)
<1>1. /\ x + Complement(y) + 1 = x - y + Modulus /\ Complement(y) + x + 1 = x - y + Modulus
      /\ x - y + Modulus \in Int /\ 0 <= x - y + Modulus /\ x - y + Modulus < 2 * Modulus
      /\ x + y + 0 = x + y /\ x + y \in Int /\ 0 <= x + y /\ x + y < 2 * Modulus
  BY WordRange DEF Complement
<1>2. (x - y + Modulus) % Modulus = Wrap(x - y)
  BY <1>1, RemainderOfSum, WordRange DEF Wrap
<1>3. (x + y) % Modulus = Wrap(x + y)
  <2>1. PICK z \in Int : z = x + y /\ 0 <= z /\ z < 2 * Modulus
    BY <1>1
  <2>2. z % Modulus = IF z < Modulus THEN z ELSE z - Modulus
    BY <2>1, RemainderOfSum
  <2> QED
    BY <2>1, <2>2, WordRange DEF Wrap
<1> QED
  BY <1>1, <1>2, <1>3 DEF AddWithCarry

-----------------------------------------------------------------------------
(* The shift that a split instruction begins with. *)

\* The shift that a split instruction begins with.
LEMMA ShiftNode ==
  ASSUME NEW i, ArmForm(i), i.enc \in {"imm", "reg"}, i.n \in Bits, ~(i.n = 0 /\ i.sh = "ror"),
         NEW cf, NEW C \in {0, 1}
  PROVE  LET e == emitSDNode(selectShift(i), cf, i.b)
             o == Shifter(i, C)
         IN  /\ e.value = o[1] /\ o[1] \in Values /\ o[2] \in {0, 1}
             /\ i.n > 0 /\ i.sh # "ror" => "C" \in DOMAIN e.flags /\ e.flags["C"] = o[2]
<1> DEFINE e == emitSDNode(selectShift(i), cf, i.b)
           o == Shifter(i, C)
           nd == selectShift(i)
<1>1. /\ i.b \in Values /\ i.n \in Nat /\ i.n < Width /\ Width \in Nat /\ i.sh \in ShiftOps
      /\ i.n \in 0 .. Width - 1
  BY WordBounds DEF ArmForm
<1>2. o = Shifted(i.b, i.sh, i.n, C)
  BY DEF Shifter
<1>3. \A q : Flag(q) \in {0, 1}
  BY DEF Flag
<1>7. \A v \in Values : v # Poison
  BY WordRange DEF Poison
<1>4. CASE i.n = 0
  <2>1. o = <<i.b, C>> /\ o[1] = i.b /\ o[2] = C
    BY <1>2, <1>4 DEF Shifted
  <2>2. i.sh \in {"lsl", "lsr", "asr"}
    BY <1>1, <1>4 DEF ShiftOps
  <2>3. \/ nd = [opc |-> "SHL", x |-> i.b, y |-> 0] \/ nd = [opc |-> "SRL", x |-> i.b, y |-> 0]
        \/ nd = [opc |-> "SRA", x |-> i.b, y |-> 0]
    BY <1>4, <2>2 DEF selectShift, Node
  <2>4. e.value = shiftValue(nd)
    BY <2>3 DEF emitSDNode, emitBinary, Emits, Binary, Shifting, binaryValue
  <2>5. shiftValue(nd) = i.b
    <3>1. 0 \in 0 .. Width - 1
      BY <1>1
    <3> HIDE DEF nd
    <3> QED
      BY <1>1, <2>3, <3>1, UnshiftedWords DEF shiftValue
  <2> QED
    BY <1>1, <1>4, <2>1, <2>4, <2>5
<1>5. CASE i.n > 0 /\ i.sh = "ror"
  <2>1. i.n % Width = i.n /\ i.n # 0 /\ i.n \in 1 .. Width - 1
    BY <1>1, <1>5
  <2>2. o[1] = FunnelRight(i.b, i.b, i.n) /\ o[2] \in {0, 1}
    BY <1>2, <1>3, <1>5, <2>1 DEF Shifted
  <2>3. nd = [opc |-> "ROTR", x |-> i.b, y |-> i.n]
    BY <1>5 DEF selectShift, Node
  <2>4. e = emitROTR(nd)
    BY <2>3 DEF emitSDNode, emitSpecialNode, Binary, Shifting
  <2>5. e.value = FunnelRight(i.b, i.b, i.n)
    BY <2>1, <2>3, <2>4 DEF emitROTR, Emits
  <2> QED
    BY <1>1, <1>5, <2>1, <2>2, <2>5, RotatedWord
<1>6. CASE i.n > 0 /\ i.sh # "ror"
  <2> DEFINE k == i.n - 1
  <2>1. k \in Bits /\ Width - 1 - k = Width - i.n /\ i.n # 0 /\ i.n <= Width
        /\ k \in 0 .. Width - 1
    <3>1. Bits = 0 .. Width - 1
      BY WordBounds
    <3> QED
      BY <1>1, <1>6, <3>1
  <2>2. /\ nd \in [opc : Shifting, x : Values, y : Nat]
        /\ nd.x = i.b /\ nd.y = i.n
        /\ nd.opc = IF i.sh = "lsl" THEN "SHL" ELSE IF i.sh = "lsr" THEN "SRL" ELSE "SRA"
    BY <1>1, <1>6 DEF selectShift, Node, ShiftOps, Shifting
  <2>3. e = [value |-> shiftValue(nd), flags |-> emitBinaryCPSR(nd)]
    <3> HIDE DEF nd
    <3>1. e = emitBinary(nd)
      BY <2>2 DEF emitSDNode, Binary, Shifting, nd
    <3>2. binaryValue(nd) = shiftValue(nd)
      BY <2>2 DEF binaryValue, Shifting
    <3> QED
      BY <3>1, <3>2 DEF emitBinary, Emits
  <2>4. DOMAIN e.flags = {"N", "Z", "C"} /\ e.flags["C"] = shiftCarry(nd)
    <3>1. e.flags = emitBinaryCPSR(nd)
      BY <2>3
    <3> HIDE DEF nd, e
    <3> QED
      BY <2>2, <3>1 DEF emitBinaryCPSR, Shifting
  <2> DEFINE sd == [nd EXCEPT !.y = nd.y - 1]
  <2>5. sd.opc = nd.opc /\ sd.x = i.b /\ sd.y = k
    <3> HIDE DEF nd
    <3> QED
      BY <2>2
  <2> HIDE DEF nd, e, o, sd, k
  <2>6. CASE i.sh = "lsl"
    <3>1. shiftValue(nd) = ShiftLeft(i.b, i.n) /\ shiftValue(sd) = ShiftLeft(i.b, k)
      BY <1>1, <2>1, <2>2, <2>5, <2>6 DEF shiftValue
    <3>2. o[1] = ShiftLeft(i.b, i.n) /\ o[2] = Flag(Bit(i.b, Width - i.n))
      BY <1>1, <1>2, <1>6, <2>1, <2>6 DEF Shifted, Flag
    <3>3. shiftValue(sd) # Poison
      BY <1>1, <1>7, <2>1, <3>1, ShiftedWords
    <3>4. shiftCarry(nd) = Flag(HighBit(shiftValue(sd)))
      BY <2>1, <2>2, <2>6, <3>3 DEF shiftCarry, sd
    <3>5. shiftCarry(nd) = o[2]
      BY <1>1, <2>1, <3>1, <3>2, <3>4, LeftCarry DEF Flag
    <3> QED
      BY <1>1, <1>3, <2>3, <2>4, <3>1, <3>2, <3>5, ShiftedWords DEF e, o
  <2>7. CASE i.sh = "lsr"
    <3>1. shiftValue(nd) = ShiftRight(i.b, i.n) /\ shiftValue(sd) = ShiftRight(i.b, k)
      BY <1>1, <2>1, <2>2, <2>5, <2>7 DEF shiftValue
    <3>2. o[1] = ShiftRight(i.b, i.n) /\ o[2] = Flag(Bit(i.b, k))
      BY <1>1, <1>2, <1>6, <2>1, <2>7 DEF Shifted, k
    <3>3. shiftValue(sd) # Poison
      BY <1>1, <1>7, <2>1, <3>1, ShiftedWords
    <3>4. shiftCarry(nd) = Flag(Bit(shiftValue(sd), 0))
      BY <2>1, <2>2, <2>7, <3>3 DEF shiftCarry, sd
    <3>5. shiftCarry(nd) = o[2]
      BY <1>1, <2>1, <3>1, <3>2, <3>4, RightCarry DEF Flag
    <3> QED
      BY <1>1, <1>3, <2>3, <2>4, <3>1, <3>2, <3>5, ShiftedWords DEF e, o
  <2>8. CASE i.sh = "asr"
    <3>1. shiftValue(nd) = ShiftArith(i.b, i.n) /\ shiftValue(sd) = ShiftArith(i.b, k)
      BY <1>1, <2>1, <2>2, <2>5, <2>8 DEF shiftValue
    <3>2. o[1] = ShiftArith(i.b, i.n) /\ o[2] = Flag(Bit(i.b, k))
      BY <1>1, <1>2, <1>6, <2>1, <2>8 DEF Shifted, k
    <3>3. shiftValue(sd) # Poison
      BY <1>1, <1>7, <2>1, <3>1, ShiftedWords
    <3>4. shiftCarry(nd) = Flag(Bit(shiftValue(sd), 0))
      BY <2>1, <2>2, <2>8, <3>3 DEF shiftCarry, sd
    <3>5. shiftCarry(nd) = o[2]
      BY <1>1, <2>1, <3>1, <3>2, <3>4, ArithCarry DEF Flag
    <3> QED
      BY <1>1, <1>3, <2>3, <2>4, <3>1, <3>2, <3>5, ShiftedWords DEF e, o
  <2> QED
    BY <1>1, <1>6, <2>6, <2>7, <2>8 DEF ShiftOps
<1> QED
  BY <1>1, <1>4, <1>5, <1>6

\* The second operand of an instruction, shifted as far as it is.
OperandFollows(i, F, C) ==
  /\ i.enc = "rrx" => F["C"] = C
  /\ i.enc \in {"imm", "reg"} => i.n < Width /\ ~(i.n = 0 /\ i.sh = "ror")

\* The first part leaves the second operand as the shifter of the machine does.
LEMMA FirstValue ==
  ASSUME NEW i, ArmForm(i), NEW F, NEW C \in {0, 1}, OperandFollows(i, F, C),
         Splits(i) \/ i.enc \in {"plain", "self"}
  PROVE  /\ firstPart(i, F).value = Shifter(i, C)[1] /\ Shifter(i, C)[1] \in Values
         /\ Shifter(i, C)[2] \in {0, 1}
<1>1. i.b \in Values
  BY DEF ArmForm
<1>2. CASE i.enc \in {"plain", "self"}
  <2>1. ~Splits(i)
    BY <1>2 DEF Splits
  <2>2. firstPart(i, F).value = i.b
    BY <2>1 DEF firstPart, Emits
  <2>3. Shifter(i, C) = <<i.b, C>>
    BY <1>2 DEF Shifter
  <2> QED
    BY <1>1, <2>2, <2>3
<1>3. ASSUME Splits(i)
      PROVE  firstPart(i, F).value = emitSDNode(selectShift(i), F["C"], i.b).value
  BY <1>3 DEF firstPart, Emits
<1>4. CASE i.enc = "rrx" /\ Splits(i)
  <2>1. selectShift(i) = [opc |-> "RRX", x |-> i.b, y |-> 0]
    BY <1>4 DEF selectShift, Node
  <2>2. F["C"] = C /\ C # Maybe
    BY <1>4 DEF OperandFollows, Maybe
  <2>3. emitSDNode(selectShift(i), F["C"], i.b) = emitRRX(selectShift(i), F["C"])
    BY <2>1 DEF emitSDNode, emitSpecialNode, Binary, Shifting
  <2>4. emitSDNode(selectShift(i), F["C"], i.b).value = i.b \div 2 + C * Half
    BY <2>1, <2>2, <2>3 DEF emitRRX, Emits
  <2>5. Shifter(i, C)[1] = i.b \div 2 + C * Half /\ Shifter(i, C)[2] = Flag(Bit(i.b, 0))
    BY <1>4 DEF Shifter
  <2>6. Shifter(i, C)[2] \in {0, 1}
    BY <2>5 DEF Flag
  <2> QED
    BY <1>1, <1>3, <1>4, <2>4, <2>5, <2>6, ShiftedByOne
<1>5. CASE i.enc \in {"imm", "reg"} /\ Splits(i)
  <2>1. i.n \in Bits /\ ~(i.n = 0 /\ i.sh = "ror")
    <3>1. i.n \in Nat /\ i.n < Width /\ ~(i.n = 0 /\ i.sh = "ror")
      BY <1>5 DEF ArmForm, OperandFollows
    <3> QED
      BY <3>1, WordBounds
  <2> QED
    BY <1>3, <1>5, <2>1, ShiftNode
<1> QED
  BY <1>2, <1>4, <1>5 DEF ArmForm

\* The flags that the first of two parts stores.
FirstStores(i) == i.s /\ i.cond = "AL" /\ i.op \in isShift_C /\ i.enc \in {"imm", "reg"}

\* It stores no flag but the carry of the shifter, negative and zero, and that only if the
\* instruction sets the flags from the shifter.
LEMMA FirstFlags ==
  ASSUME NEW i, ArmForm(i), NEW F, NEW C \in {0, 1}, OperandFollows(i, F, C)
  PROVE  LET g == firstPart(i, F).flags IN
         /\ ~FirstStores(i) => g = <<>>
         /\ DOMAIN g \subseteq {"N", "Z", "C"}
         /\ FirstStores(i) /\ i.n > 0 /\ i.sh # "ror" => "C" \in DOMAIN g /\ g["C"] = Shifter(i, C)[2]
<1> DEFINE nd == selectShift(i)
           e == emitSDNode(nd, F["C"], i.b)
           g == firstPart(i, F).flags
<1>1. g = IF Splits(i) /\ UpdateCPSR(i) /\ i.op \in isShift_C /\ i.enc # "rrx" THEN e.flags ELSE <<>>
  BY DEF firstPart, Emits
<1>2. ~FirstStores(i) => g = <<>>
  <2>1. i.enc \in {"plain", "self"} => ~Splits(i)
    BY DEF Splits
  <2> QED
    BY <1>1, <2>1 DEF FirstStores, UpdateCPSR, ArmForm
<1>3. ASSUME FirstStores(i) PROVE g = e.flags
  <2>1. Splits(i)
    BY <1>3 DEF FirstStores, Splits, isShift_C, checkisShifter
  <2> QED
    BY <1>1, <1>3, <2>1 DEF FirstStores, UpdateCPSR
<1>4. ASSUME FirstStores(i) PROVE DOMAIN g \subseteq {"N", "Z", "C"}
  <2>1. /\ i.sh \in ShiftOps /\ i.enc # "rrx"
    BY <1>4 DEF ArmForm, FirstStores
  <2>2. /\ nd.opc = CASE i.sh = "lsl" -> "SHL" [] i.sh = "lsr" -> "SRL" [] i.sh = "asr" -> "SRA"
                      [] i.sh = "ror" -> "ROTR"
    BY <2>1 DEF selectShift, Node, ShiftOps
  <2> HIDE DEF nd
  <2>3. CASE i.sh = "ror"
    <3>1. nd.opc = "ROTR"
      BY <2>2, <2>3
    <3>2. e = emitROTR(nd)
      BY <3>1 DEF emitSDNode, emitSpecialNode, Binary, Shifting
    <3>3. e.flags = emitSpecialCPSR(e.value)
      BY <3>2 DEF emitROTR, Emits
    <3> HIDE DEF e
    <3>4. DOMAIN emitSpecialCPSR(e.value) = {"N", "Z"}
      BY DEF emitSpecialCPSR, NZ
    <3> QED
      BY <1>3, <1>4, <3>3, <3>4
  <2>4. CASE i.sh # "ror"
    <3>1. nd.opc \in Shifting
      BY <2>1, <2>2, <2>4 DEF Shifting, ShiftOps
    <3>2. e = emitBinary(nd)
      BY <3>1 DEF emitSDNode, Binary, Shifting
    <3>3. e.flags = emitBinaryCPSR(nd)
      BY <3>2 DEF emitBinary, Emits
    <3> HIDE DEF e
    <3>4. DOMAIN emitBinaryCPSR(nd) = {"N", "Z", "C"}
      BY <3>1 DEF emitBinaryCPSR, Shifting
    <3> QED
      BY <1>3, <1>4, <3>3, <3>4
  <2> QED
    BY <2>3, <2>4
<1>5. ASSUME FirstStores(i), i.n > 0, i.sh # "ror"
      PROVE  "C" \in DOMAIN g /\ g["C"] = Shifter(i, C)[2]
  <2>1. i.enc \in {"imm", "reg"} /\ i.n \in Nat /\ i.n < Width
    BY <1>5 DEF FirstStores, ArmForm, OperandFollows
  <2>2. i.n \in Bits /\ i.n # 0
    BY <1>5, <2>1, WordBounds
  <2> HIDE DEF g
  <2> QED
    BY <1>3, <1>5, <2>1, <2>2, ShiftNode
<1>6. DOMAIN g \subseteq {"N", "Z", "C"}
  <2>1. CASE ~FirstStores(i)
    <3>1. g = <<>>
      BY <1>2, <2>1
    <3> HIDE DEF g
    <3> QED
      BY <3>1
  <2> QED
    BY <1>4, <2>1
<1> QED
  BY <1>2, <1>5, <1>6

-----------------------------------------------------------------------------
(* The nodes. *)

\* The flags of a word that is not poison.
LEMMA WordNZ ==
  ASSUME NEW v \in Values
  PROVE  /\ v # Poison /\ emitSpecialCPSR(v) = NZ(v) /\ DOMAIN NZ(v) = {"N", "Z"}
         /\ NZ(v)["N"] \in {0, 1} /\ NZ(v)["Z"] \in {0, 1}
<1>1. v # Poison
  BY WordRange DEF Poison
<1> QED
  BY <1>1 DEF emitSpecialCPSR, NZ, Flag

\* The logical operations.
LEMMA LogicNode ==
  ASSUME NEW i, ArmForm(i), i.op \in Logical \ {"MOV"}, NEW y \in Values, NEW cf,
         NEW e, e = emitSDNode(selectCode(i, y), cf, i.old), NEW v, v = LogicalValue(i.op, i.a, y)
  PROVE  /\ v \in Values /\ e.value = (IF i.op \in Comparisons THEN i.old ELSE v)
         /\ e.flags = NZ(v)
<1> USE DEF selectCode, Node, Comparisons, LogicalValue, emitSDNode, Binary, Shifting, Emits
<1>1. CASE i.op = "AND"
  <2>1. v \in Values
    BY <1>1, BitOperations
  <2> QED
    BY <1>1, <2>1, WordNZ DEF selectANDtoEOR, emitBinary, binaryValue, emitBinaryCPSR
<1>2. CASE i.op = "EOR"
  <2>1. v \in Values
    BY <1>2, BitOperations
  <2> QED
    BY <1>2, <2>1, WordNZ DEF selectANDtoEOR, emitBinary, binaryValue, emitBinaryCPSR
<1>3. CASE i.op = "ORR"
  <2>1. v \in Values
    BY <1>3, BitOperations
  <2> QED
    BY <1>3, <2>1, WordNZ DEF selectORRandRSB, emitBinary, binaryValue, emitBinaryCPSR
<1>4. CASE i.op = "BIC"
  <2>1. v \in Values
    BY <1>4, BitOperations
  <2> QED
    BY <1>4, <2>1, WordNZ DEF selectBICandMLA, emitSpecialNode, emitBIC
<1>5. CASE i.op = "MVN"
  <2>1. v = Complement(y) /\ v \in Values /\ BitXor(y, Modulus - 1) = v
    BY <1>5, ComplementWord, XorOnes
  <2> QED
    BY <1>5, <2>1, WordNZ DEF selectMSRtoMVN, emitBinary, binaryValue, emitBinaryCPSR
<1>6. CASE i.op = "TST"
  <2>1. v \in Values
    BY <1>6, BitOperations
  <2> QED
    BY <1>6, <2>1, WordNZ DEF selectRSCtoTST, emitSpecialNode, emitTST
<1>7. CASE i.op = "TEQ"
  <2>1. v \in Values
    BY <1>7, BitOperations
  <2> QED
    BY <1>7, <2>1, WordNZ DEF selectRSCtoTST, emitSpecialNode, emitTEQ
<1> QED
  BY <1>1, <1>2, <1>3, <1>4, <1>5, <1>6, <1>7 DEF Logical

\* A move, which is an addition of zero and stores the flags of that.
LEMMA MoveNode ==
  ASSUME NEW i, ArmForm(i), i.op = "MOV", NEW y \in Values, NEW cf,
         NEW e, e = emitSDNode(selectCode(i, y), cf, i.old)
  PROVE  /\ e.value = y /\ DOMAIN e.flags = Flags
         /\ e.flags["N"] = NZ(y)["N"] /\ e.flags["Z"] = NZ(y)["Z"]
<1>1. selectCode(i, y) = [opc |-> "ADD", x |-> y, y |-> 0]
  BY DEF selectCode, selectSUBandMOV, Node
<1>2. e = [value |-> Wrap(y + 0), flags |-> emitCPSR(y, 0, 0)]
  BY <1>1 DEF emitSDNode, Binary, Shifting, Emits, emitBinary, binaryValue, emitBinaryCPSR
<1>3. Wrap(y + 0) = y /\ Wrap(0 + y) = y
  BY WordRange DEF Wrap
<1> QED
  BY <1>2, <1>3 DEF emitCPSR, NZ, Flags

\* What the machine computes of two operands, the second of them shifted.
LEMMA SumResult ==
  ASSUME NEW i, NEW C, NEW y, y = Shifter(i, C)[1], NEW m, m = Result(i, C)
  PROVE  /\ i.op \in {"ADD", "CMN"} => m = AddWithCarry(i.a, y, 0)
         /\ i.op = "ADC" => m = AddWithCarry(i.a, y, C)
         /\ i.op \in {"SUB", "CMP"} => m = AddWithCarry(i.a, Complement(y), 1)
         /\ i.op = "SBC" => m = AddWithCarry(i.a, Complement(y), C)
         /\ i.op = "RSB" => m = AddWithCarry(Complement(i.a), y, 1)
         /\ i.op = "MSR" => m = [value |-> i.old, flags |-> StatusFlags(i.b)]
         /\ i.op \in Products => m = [value |-> Product(i), flags |-> NZ(Product(i))]
         /\ i.op = "CLZ" => m = [value |-> LeadingZeros(i.b), flags |-> <<>>]
  BY DEF Result, Logical, Products

\* What is emitted for them.
LEMMA SumEmitted ==
  ASSUME NEW i, NEW y, NEW cf, NEW e, e = emitSDNode(selectCode(i, y), cf, i.old)
  PROVE  /\ i.op = "ADD" => e = [value |-> Wrap(i.a + y), flags |-> emitCPSR(i.a, y, 0)]
         /\ i.op = "CMN" => e = [value |-> i.old, flags |-> emitCPSR(i.a, y, 0)]
         /\ i.op = "SUB" => e = [value |-> Wrap(i.a - y), flags |-> emitCPSR(i.a, Complement(y), 1)]
         /\ i.op = "CMP" => e = [value |-> i.old, flags |-> emitCPSR(i.a, Complement(y), 1)]
         /\ i.op = "RSB" => e = [value |-> Wrap(y - i.a), flags |-> emitCPSR(Complement(i.a), y, 1)]
         /\ i.op = "SBC" => e = [value |-> i.old, flags |-> emitCPSR(i.a, Complement(y), 0)]
         /\ i.op = "ADC" => e.flags = emitCPSR(i.a, y, 1)
         /\ i.op = "MUL" => e = [value |-> (i.a * y) % Modulus, flags |-> emitSpecialCPSR((i.a * y) % Modulus)]
<1> USE DEF selectCode, Node, emitSDNode, Binary, Shifting, Emits
<1>1. CASE i.op = "ADD"
  BY <1>1 DEF selectSums, emitBinary, binaryValue, emitBinaryCPSR
<1>2. CASE i.op = "CMN"
  BY <1>2 DEF selectANDtoEOR, emitSpecialNode, emitCMN
<1>3. CASE i.op = "SUB"
  BY <1>3 DEF selectSUBandMOV, emitBinary, binaryValue, emitBinaryCPSR
<1>4. CASE i.op = "CMP"
  BY <1>4 DEF selectCMP, emitICmp
<1>5. CASE i.op = "RSB"
  BY <1>5 DEF selectORRandRSB, emitSpecialNode, emitRSB
<1>6. CASE i.op = "SBC"
  BY <1>6 DEF selectRSCtoTST, emitSpecialNode, emitSBC
<1>7. CASE i.op = "ADC"
  BY <1>7 DEF selectSums, emitSpecialNode, emitADDC
<1>8. CASE i.op = "MUL"
  BY <1>8 DEF selectMSRtoMVN, emitBinary, binaryValue, emitBinaryCPSR
<1> QED
  BY <1>1, <1>2, <1>3, <1>4, <1>5, <1>6, <1>7, <1>8

\* ADC adds the carry, if the flag variable holds one.
LEMMA CarriedSum ==
  ASSUME NEW i, i.op = "ADC", NEW y, NEW cf \in {0, 1}
  PROVE  emitSDNode(selectCode(i, y), cf, i.old).value = (i.a + y + cf) % Modulus
<1>1. PICK nd : nd = [opc |-> "ADDC", x |-> i.a, y |-> y]
  OBVIOUS
<1>2. selectCode(i, y) = nd
  BY <1>1 DEF selectCode, selectSums, Node
<1>3. nd.opc = "ADDC" /\ nd.x = i.a /\ nd.y = y
  BY <1>1
<1>4. emitSDNode(nd, cf, i.old) = emitADDC(nd, cf)
  BY <1>3 DEF emitSDNode, emitSpecialNode, Binary, Shifting
<1>5. cf # Maybe
  BY DEF Maybe
<1> QED
  BY <1>2, <1>3, <1>4, <1>5 DEF emitADDC, Emits

\* MLA.
LEMMA ProductAndSum ==
  ASSUME NEW i, i.op = "MLA", NEW y, NEW cf
  PROVE  emitSDNode(selectCode(i, y), cf, i.old).value = (i.a * y + i.old) % Modulus
<1>1. PICK nd : nd = [opc |-> "MLA", x |-> i.a, y |-> y]
  OBVIOUS
<1>2. selectCode(i, y) = nd
  BY <1>1 DEF selectCode, selectBICandMLA, Node
<1>3. nd.opc = "MLA" /\ nd.x = i.a /\ nd.y = y
  BY <1>1
<1>4. emitSDNode(nd, cf, i.old) = emitMLA(nd, i.old)
  BY <1>3 DEF emitSDNode, emitSpecialNode, Binary, Shifting
<1> QED
  BY <1>2, <1>3, <1>4 DEF emitMLA, Emits

\* CLZ.
LEMMA CountedZeros ==
  ASSUME NEW i, i.op = "CLZ", NEW y, NEW cf
  PROVE  emitSDNode(selectCode(i, y), cf, i.old)
           = [value |-> IF y = 0 THEN Poison ELSE LeadingZeros(y), flags |-> <<>>]
<1>1. PICK nd : nd = [opc |-> "CTLZ", x |-> y, y |-> 0]
  OBVIOUS
<1>2. selectCode(i, y) = nd
  BY <1>1 DEF selectCode, selectRSCtoTST, Node
<1>3. nd.opc = "CTLZ" /\ nd.x = y
  BY <1>1
<1>4. emitSDNode(nd, cf, i.old) = emitCTLZ(nd)
  BY <1>3 DEF emitSDNode, emitSpecialNode, Binary, Shifting
<1> QED
  BY <1>2, <1>3, <1>4 DEF emitCTLZ, Emits

\* Sums, differences and comparisons: the value, and the flags but for a carry or an
\* overflow that is lost.
LEMMA SumNode ==
  ASSUME NEW i, ArmForm(i), i.op \in {"ADD", "CMN", "SUB", "CMP", "RSB", "ADC"},
         NEW C \in {0, 1}, NEW y \in Values, y = Shifter(i, C)[1], NEW cf,
         NEW e, e = emitSDNode(selectCode(i, y), cf, i.old), NEW m, m = Result(i, C)
  PROVE  /\ i.op \in Comparisons => e.value = i.old
         /\ i.op \notin Comparisons => (i.op = "ADC" /\ cf # C) \/ e.value = m.value
         /\ m.value \in Values
         /\ DOMAIN e.flags = Flags /\ DOMAIN m.flags = Flags
         /\ (i.op = "ADC" => C = 1) =>
              /\ e.flags["N"] = m.flags["N"] /\ e.flags["Z"] = m.flags["Z"]
              /\ ~carryLost(i) => e.flags["C"] = m.flags["C"]
              /\ ~overflowLost(i) => e.flags["V"] = m.flags["V"]
<1>0. i.a \in Values /\ Complement(i.a) \in Values /\ Complement(y) \in Values
  BY ComplementWord DEF ArmForm
<1> DEFINE Agree(S) ==
      /\ m.value \in Values /\ DOMAIN S = Flags /\ DOMAIN m.flags = Flags
      /\ S["N"] = m.flags["N"] /\ S["Z"] = m.flags["Z"]
      /\ ~carryLost(i) => S["C"] = m.flags["C"]
      /\ ~overflowLost(i) => S["V"] = m.flags["V"]
<1>1. CASE i.op \in {"ADD", "CMN"}
  <2>1. m = AddWithCarry(i.a, y, 0) /\ ~carryLost(i) /\ ~overflowLost(i)
    BY <1>1, SumResult DEF carryLost, overflowLost
  <2>2. PICK S : S = emitCPSR(i.a, y, 0)
    OBVIOUS
  <2>3. Agree(S)
    BY <1>0, <2>1, <2>2, SumFollows
  <2>4. e.flags = S /\ e.value = IF i.op = "ADD" THEN Wrap(i.a + y) ELSE i.old
    <3>1. /\ i.op = "ADD" => e = [value |-> Wrap(i.a + y), flags |-> emitCPSR(i.a, y, 0)]
          /\ i.op = "CMN" => e = [value |-> i.old, flags |-> emitCPSR(i.a, y, 0)]
      BY SumEmitted, Zenon
    <3> QED
      BY <1>1, <2>2, <3>1
  <2>5. m.value = Wrap(i.a + y)
    BY <1>0, <2>1, DifferenceFollows
  <2> QED
    BY <1>1, <2>3, <2>4, <2>5 DEF Comparisons
<1>2. CASE i.op \in {"SUB", "CMP"}
  <2>1. /\ m = AddWithCarry(i.a, Complement(y), 1)
        /\ carryLost(i) <=> i.a = Modulus - 1
        /\ overflowLost(i) <=> i.a = Half - 1
    BY <1>2, SumResult DEF carryLost, overflowLost
  <2>2. PICK S : S = emitCPSR(i.a, Complement(y), 1)
    OBVIOUS
  <2>3. Agree(S)
    BY <1>0, <2>1, <2>2, SumFollows
  <2>4. e.flags = S /\ e.value = IF i.op = "SUB" THEN Wrap(i.a - y) ELSE i.old
    <3>1. /\ i.op = "SUB" => e = [value |-> Wrap(i.a - y), flags |-> emitCPSR(i.a, Complement(y), 1)]
          /\ i.op = "CMP" => e = [value |-> i.old, flags |-> emitCPSR(i.a, Complement(y), 1)]
      BY SumEmitted, Zenon
    <3> QED
      BY <1>2, <2>2, <3>1
  <2>5. m.value = Wrap(i.a - y)
    BY <1>0, <2>1, DifferenceFollows
  <2> QED
    BY <1>2, <2>3, <2>4, <2>5 DEF Comparisons
<1>3. CASE i.op = "RSB"
  <2>1. m = AddWithCarry(Complement(i.a), y, 1)
    BY <1>3, SumResult
  <2>2. PICK S : S = emitCPSR(Complement(i.a), y, 1)
    OBVIOUS
  <2>3. /\ Complement(i.a) = Modulus - 1 => carryLost(i)
        /\ Complement(i.a) = Half - 1 => overflowLost(i)
    BY <1>0, <1>3, WordRange DEF carryLost, overflowLost, Complement
  <2>4. Agree(S)
    BY <1>0, <2>1, <2>2, <2>3, SumFollows
  <2>5. e.flags = S /\ e.value = Wrap(y - i.a)
    <3>1. e = [value |-> Wrap(y - i.a), flags |-> emitCPSR(Complement(i.a), y, 1)]
      BY <1>3, SumEmitted, Zenon
    <3> QED
      BY <2>2, <3>1
  <2>6. m.value = Wrap(y - i.a)
    BY <1>0, <2>1, DifferenceFollows
  <2> QED
    BY <1>3, <2>4, <2>5, <2>6 DEF Comparisons
<1>4. CASE i.op = "ADC"
  <2>1. /\ m = AddWithCarry(i.a, y, C)
        /\ carryLost(i) <=> i.a = Modulus - 1
        /\ overflowLost(i) <=> i.a = Half - 1
    BY <1>4, SumResult DEF carryLost, overflowLost
  <2>2. PICK S, T : S = emitCPSR(i.a, y, 1) /\ T = emitCPSR(i.a, y, C)
    OBVIOUS
  <2>3. DOMAIN S = Flags
    BY <2>2 DEF emitCPSR, Flags
  <2>4. Agree(T)
    BY <1>0, <2>1, <2>2, SumFollows
  <2>5. C = 1 => Agree(S)
    BY <2>2, <2>4
  <2>6. e.flags = S /\ (cf = C => e.value = (i.a + y + C) % Modulus)
    <3>1. e.flags = emitCPSR(i.a, y, 1)
      BY <1>4, SumEmitted, Zenon
    <3>2. cf \in {0, 1} => e.value = (i.a + y + cf) % Modulus
      BY <1>4, CarriedSum
    <3> QED
      BY <2>2, <3>1, <3>2
  <2>7. m.value = (i.a + y + C) % Modulus
    BY <2>1 DEF AddWithCarry
  <2> QED
    BY <1>4, <2>3, <2>4, <2>5, <2>6, <2>7 DEF Comparisons
<1> QED
  BY <1>1, <1>2, <1>3, <1>4

\* SBC sets the flags as if the carry were clear.
LEMMA SbcNode ==
  ASSUME NEW i, ArmForm(i), i.op = "SBC", NEW C \in {0, 1}, NEW y \in Values, y = Shifter(i, C)[1],
         NEW cf, NEW e, e = emitSDNode(selectCode(i, y), cf, i.old), NEW m, m = Result(i, C)
  PROVE  /\ m.value \in Values /\ DOMAIN e.flags = Flags /\ DOMAIN m.flags = Flags
         /\ C = 0 => \A f \in Flags : e.flags[f] = m.flags[f]
<1>0. i.a \in Values /\ Complement(y) \in Values
  BY ComplementWord DEF ArmForm
<1>1. m = AddWithCarry(i.a, Complement(y), C)
  BY SumResult
<1>2. PICK S, T : S = emitCPSR(i.a, Complement(y), 0) /\ T = emitCPSR(i.a, Complement(y), C)
  OBVIOUS
<1>3. e.flags = S
  <2>1. e = [value |-> i.old, flags |-> emitCPSR(i.a, Complement(y), 0)]
    BY SumEmitted, Zenon
  <2> QED
    BY <1>2, <2>1
<1>4. DOMAIN S = Flags
  BY <1>2 DEF emitCPSR, Flags
<1>5. m.value \in Values /\ DOMAIN m.flags = Flags
  BY <1>0, <1>1, <1>2, SumFollows
<1>6. C = 0 => \A f \in Flags : S[f] = m.flags[f]
  BY <1>0, <1>1, <1>2, SumFollows DEF Flags
<1> QED
  BY <1>3, <1>4, <1>5, <1>6

\* Multiplications, CLZ and MSR have no shifted operand.
LEMMA ProductNode ==
  ASSUME NEW i, ArmForm(i), i.op \in Products, NEW C, NEW cf,
         NEW e, e = emitSDNode(selectCode(i, i.b), cf, i.old), NEW m, m = Result(i, C)
  PROVE  /\ m.value \in Values /\ m.flags = NZ(m.value) /\ e.value = m.value
         /\ i.op = "MUL" => e.flags = m.flags
<1>0. i.a \in Nat /\ i.b \in Nat /\ i.b \in Values /\ i.old \in Nat
      /\ Modulus \in Nat \ {0} /\ Values = 0 .. Modulus - 1
  BY WordRange DEF ArmForm
<1> DEFINE p == i.a * i.b + (IF i.op = "MLA" THEN i.old ELSE 0)
<1>1. p \in Int
  <2>1. i.a * i.b \in Nat
    BY <1>0
  <2> QED
    BY <1>0, <2>1
<1>2. Product(i) = p % Modulus
  BY DEF Product
<1>3. m = [value |-> p % Modulus, flags |-> NZ(p % Modulus)]
  BY <1>2, SumResult DEF Products
<1>4. e.value = p % Modulus /\ (i.op = "MUL" => e.flags = emitSpecialCPSR(p % Modulus))
  <2>1. i.op = "MUL" => p = i.a * i.b
    BY <1>0
  <2>2. i.op = "MLA" => p = i.a * i.b + i.old
    OBVIOUS
  <2>3. i.op = "MUL" => e = [value |-> (i.a * i.b) % Modulus, flags |-> emitSpecialCPSR((i.a * i.b) % Modulus)]
    BY SumEmitted, Zenon
  <2>4. i.op = "MLA" => e.value = (i.a * i.b + i.old) % Modulus
    BY ProductAndSum
  <2> HIDE DEF p
  <2> QED
    BY <2>1, <2>2, <2>3, <2>4 DEF Products
<1> HIDE DEF p
<1>5. p % Modulus \in Values
  BY <1>0, <1>1, DivMod
<1> QED
  BY <1>3, <1>4, <1>5, WordNZ

\* CLZ counts as the machine does, but of zero.
LEMMA ZerosNode ==
  ASSUME NEW i, i.op = "CLZ", NEW C, NEW cf,
         NEW e, e = emitSDNode(selectCode(i, i.b), cf, i.old), NEW m, m = Result(i, C)
  PROVE  m.flags = <<>> /\ (i.b # 0 => e.value = m.value)
<1>1. e = [value |-> IF i.b = 0 THEN Poison ELSE LeadingZeros(i.b), flags |-> <<>>]
  BY CountedZeros
<1> QED
  BY <1>1, SumResult

\* MSR leaves the destination alone.
LEMMA StatusKept ==
  ASSUME NEW i, i.op = "MSR", NEW C, NEW cf
  PROVE  emitSDNode(selectCode(i, i.b), cf, i.old).value = Result(i, C).value
<1>1. PICK nd : nd = [opc |-> "MSR", x |-> i.b, y |-> 0]
  OBVIOUS
<1>2. selectCode(i, i.b) = nd
  BY <1>1 DEF selectCode, selectMSRtoMVN, Node
<1>3. nd.opc = "MSR"
  BY <1>1
<1>4. emitSDNode(nd, cf, i.old) = emitMSR(nd, i.old)
  BY <1>3 DEF emitSDNode, emitSpecialNode, Binary, Shifting
<1>5. Result(i, C).value = i.old
  BY SumResult
<1> QED
  BY <1>2, <1>4, <1>5 DEF emitMSR, Emits

\* MSR sets the flags if the upper bits have one flag at most.
LEMMA StatusNode ==
  ASSUME NEW i, ArmForm(i), i.op = "MSR", NEW C, NEW cf,
         NEW e, e = emitSDNode(selectCode(i, i.b), cf, i.old), NEW m, m = Result(i, C)
  PROVE  /\ e.value = m.value /\ DOMAIN e.flags = Flags /\ DOMAIN m.flags = Flags
         /\ UpperBits(i.b) \in {0, 1, 2, 4, 8} => \A f \in Flags : e.flags[f] = m.flags[f]
         /\ \A f \in Flags : m.flags[f] \in {0, 1}
<1>0. i.a \in Nat /\ i.b \in Nat /\ i.b \in Values /\ i.old \in Nat
      /\ Modulus \in Nat \ {0} /\ Values = 0 .. Modulus - 1
  BY WordRange DEF ArmForm
<1>1. m = [value |-> i.old, flags |-> StatusFlags(i.b)]
  BY SumResult
<1>2. PICK nd : nd = [opc |-> "MSR", x |-> i.b, y |-> 0]
  OBVIOUS
<1>3. e = emitMSR(nd, i.old)
  <2>1. selectCode(i, i.b) = nd
    BY <1>2 DEF selectCode, selectMSRtoMVN, Node
  <2>2. nd.opc = "MSR"
    BY <1>2
  <2> QED
    BY <2>1, <2>2 DEF emitSDNode, emitSpecialNode, Binary, Shifting
<1>4. UpperBits(i.b) \in 0 .. 15
  <2>1. Width - 4 \in Nat /\ Width \in Nat /\ Width = (Width - 4) + 4
    BY ArmAssumption, WordBounds
  <2>2. TwoTo[4] = 16
    <3>1. TwoTo[0 + 1] = 2 /\ TwoTo[1 + 1] = 2 * TwoTo[1] /\ TwoTo[2 + 1] = 2 * TwoTo[2]
          /\ TwoTo[3 + 1] = 2 * TwoTo[3]
      BY TwoToPositive
    <3> QED
      BY <3>1
  <2>3. PICK t \in Nat \ {0} : t = TwoTo[Width - 4] /\ Modulus = t * 16
    <3>1. TwoTo[(Width - 4) + 4] = TwoTo[Width - 4] * TwoTo[4]
      BY <2>1, TwoToSum
    <3>2. TwoTo[Width - 4] \in Nat \ {0} /\ Modulus = TwoTo[Width]
      BY <2>1, TwoToPositive, WordBounds
    <3> QED
      BY <2>1, <2>2, <3>1, <3>2
  <2>4. i.b \div t \in Nat
    BY <1>0, DivNat
  <2>5. i.b \div t <= 15
    <3>1. PICK q \in Nat, r \in 0 .. t - 1 : q = i.b \div t /\ i.b = t * q + r
      <4>1. PICK b \in Int : b = i.b
        BY <1>0
      <4>2. b % t \in 0 .. t - 1 /\ b = t * (b \div t) + (b % t)
        BY DivMod
      <4> QED
        BY <2>4, <4>1, <4>2
    <3> SUFFICES ASSUME q >= 16 PROVE FALSE
      BY <3>1
    <3>2. t * q >= t * 16 /\ t * q \in Int
      OBVIOUS
    <3> QED
      BY <1>0, <2>3, <3>1, <3>2
  <2> QED
    BY <2>3, <2>4, <2>5 DEF UpperBits, ShiftRight
<1>5. PICK u \in 0 .. 15 : u = UpperBits(i.b)
  BY <1>4
<1>6. /\ e.value = i.old /\ DOMAIN e.flags = Flags
      /\ e.flags["N"] = Flag(u = 8) /\ e.flags["Z"] = Flag(u = 4)
      /\ e.flags["C"] = Flag(u = 2) /\ e.flags["V"] = Flag(u = 1)
  BY <1>2, <1>3, <1>5 DEF emitMSR, Flags, Emits
<1>7. /\ m.value = i.old /\ DOMAIN m.flags = Flags
      /\ m.flags["N"] = u \div 8 /\ m.flags["Z"] = (u \div 4) % 2
      /\ m.flags["C"] = (u \div 2) % 2 /\ m.flags["V"] = u % 2
  <2>1. m.flags = StatusFlags(i.b) /\ m.value = i.old
    BY <1>1
  <2>2. m.flags = [N |-> u \div 8, Z |-> (u \div 4) % 2, C |-> (u \div 2) % 2, V |-> u % 2]
    BY <1>5, <2>1 DEF StatusFlags
  <2> HIDE <1>1
  <2> QED
    BY <2>1, <2>2 DEF Flags
<1>8. /\ u \div 8 \in {0, 1} /\ (u \div 4) % 2 \in {0, 1} /\ (u \div 2) % 2 \in {0, 1}
      /\ u % 2 \in {0, 1}
  OBVIOUS
<1>9. \A f \in Flags : m.flags[f] \in {0, 1}
  BY <1>7, <1>8 DEF Flags
<1>10. u \in {0, 1, 2, 4, 8} => \A f \in Flags : e.flags[f] = m.flags[f]
  <2> SUFFICES ASSUME u \in {0, 1, 2, 4, 8} PROVE \A f \in Flags : e.flags[f] = m.flags[f]
    OBVIOUS
  <2>1. /\ u \div 8 = Flag(u = 8) /\ (u \div 4) % 2 = Flag(u = 4)
        /\ (u \div 2) % 2 = Flag(u = 2) /\ u % 2 = Flag(u = 1)
    BY DEF Flag
  <2> QED
    BY <1>6, <1>7, <2>1 DEF Flags
<1> QED
  BY <1>5, <1>6, <1>7, <1>9, <1>10

-----------------------------------------------------------------------------
(* What the machine writes, and what departs from it. *)

\* The carry of the shifter is a flag.
LEMMA ShifterCarry ==
  ASSUME NEW i, ArmForm(i), NEW C \in {0, 1}
  PROVE  Shifter(i, C)[2] \in {0, 1}
<1>1. CASE i.enc \in {"plain", "self"}
  BY <1>1 DEF Shifter
<1>2. CASE i.enc = "rrx"
  BY <1>2 DEF Shifter, Flag
<1>3. CASE i.enc \in {"imm", "reg"}
  <2>1. Shifter(i, C) = Shifted(i.b, i.sh, i.n, C) /\ i.sh \in ShiftOps /\ i.n \in Nat
    BY <1>3 DEF Shifter, ArmForm
  <2>2. CASE i.n = 0
    BY <2>1, <2>2 DEF Shifted
  <2>3. CASE i.n > 0 /\ i.sh = "lsl"
    BY <2>1, <2>3 DEF Shifted, Flag
  <2>4. CASE i.n > 0 /\ i.sh = "lsr"
    BY <2>1, <2>4 DEF Shifted, Flag
  <2>5. CASE i.n > 0 /\ i.sh = "asr"
    BY <2>1, <2>5 DEF Shifted, Flag
  <2>6. CASE i.n > 0 /\ i.sh = "ror"
    BY <2>1, <2>6 DEF Shifted, Flag
  <2> QED
    BY <2>1, <2>2, <2>3, <2>4, <2>5, <2>6 DEF ShiftOps
<1> QED
  BY <1>1, <1>2, <1>3 DEF ArmForm

\* What the machine computes for a logical operation.
LEMMA LogicResult ==
  ASSUME NEW i, i.op \in Logical, NEW C, NEW m, m = Result(i, C), NEW o, o = Shifter(i, C)
  PROVE  /\ m.value = LogicalValue(i.op, i.a, o[1])
         /\ m.flags = IF Shifts(i) THEN NZC(m.value, o[2]) ELSE NZ(m.value)
<1>1. PICK v, l : v = LogicalValue(i.op, i.a, o[1])
                  /\ l = [value |-> v, flags |-> IF Shifts(i) THEN NZC(v, o[2]) ELSE NZ(v)]
  OBVIOUS
<1>2. m = l
  BY <1>1 DEF Result, Logical, Products
<1> QED
  BY <1>1, <1>2

\* The flags that a logical operation writes, without and with the carry of the shifter.
LEMMA FlagSets ==
  ASSUME NEW v, NEW c
  PROVE  /\ DOMAIN NZ(v) = {"N", "Z"} /\ DOMAIN NZC(v, c) = {"N", "Z", "C"}
         /\ NZC(v, c)["N"] = NZ(v)["N"] /\ NZC(v, c)["Z"] = NZ(v)["Z"] /\ NZC(v, c)["C"] = c
         /\ NZ(v)["N"] \in {0, 1} /\ NZ(v)["Z"] \in {0, 1}
  BY DEF NZ, NZC, Flag

\* What an instruction writes are flags.
LEMMA MachineFlags ==
  ASSUME NEW i, ArmForm(i), NEW C \in {0, 1}, NEW m, m = Result(i, C)
  PROVE  DOMAIN m.flags \subseteq Flags /\ \A f \in DOMAIN m.flags : m.flags[f] \in {0, 1}
<1>1. ASSUME NEW x, NEW y, NEW c, m = AddWithCarry(x, y, c)
      PROVE  DOMAIN m.flags \subseteq Flags /\ \A f \in DOMAIN m.flags : m.flags[f] \in {0, 1}
  BY <1>1 DEF AddWithCarry, Flags, Flag
<1>2. CASE i.op \in Logical
  <2>1. Shifter(i, C)[2] \in {0, 1}
    BY ShifterCarry
  <2> QED
    BY <1>2, <2>1, LogicResult, FlagSets DEF Flags
<1>3. CASE i.op \in {"ADD", "CMN", "ADC", "SUB", "CMP", "SBC", "RSB"}
  <2>1. PICK y : y = Shifter(i, C)[1]
    OBVIOUS
  <2>2. \/ m = AddWithCarry(i.a, y, 0) \/ m = AddWithCarry(i.a, y, C)
        \/ m = AddWithCarry(i.a, Complement(y), 1) \/ m = AddWithCarry(i.a, Complement(y), C)
        \/ m = AddWithCarry(Complement(i.a), y, 1)
    BY <1>3, <2>1, SumResult
  <2> QED
    BY <1>1, <2>2
<1>4. CASE i.op = "RSC"
  <2>1. m = AddWithCarry(Complement(i.a), Shifter(i, C)[1], C)
    BY <1>4 DEF Result, Logical, Products
  <2> QED
    BY <1>1, <2>1
<1>5. CASE i.op \in {"MUL", "MLA", "CLZ", "MSR"}
  <2>1. PICK e : e = emitSDNode(selectCode(i, i.b), 0, i.old)
    OBVIOUS
  <2>3. CASE i.op = "CLZ"
    BY <2>1, <2>3, ZerosNode
  <2>4. CASE i.op = "MSR"
    <3>1. DOMAIN m.flags = Flags /\ \A f \in Flags : m.flags[f] \in {0, 1}
      BY <2>1, <2>4, StatusNode
    <3> QED
      BY <3>1
  <2>5. CASE i.op \in Products
    <3>1. m.flags = NZ(m.value)
      BY <2>1, <2>5, ProductNode
    <3> QED
      BY <3>1, FlagSets DEF Flags
  <2> QED
    BY <1>5, <2>3, <2>4, <2>5 DEF Products
<1> QED
  BY <1>2, <1>3, <1>4, <1>5 DEF ArmForm, Ops, checkisShifter, Logical

\* A flag variable that is not stored keeps its value.
LEMMA RaisedKeeps ==
  ASSUME NEW i, NEW F, NEW f \in Flags, f \notin Raised(i, F).stores
  PROVE  Raised(i, F).flags[f] = F[f]
<1> DEFINE first == firstPart(i, F)
           second == secondPart(i, first.value, F)
           runs == i.op \in ignoresCondition \/ emitCondCode(i.cond, F)
           r == Raised(i, F)
<1>1. CASE dropped(i) \/ ~runs
  BY <1>1 DEF Raised
<1>2. CASE ~(dropped(i) \/ ~runs) /\ first.value = Poison
  BY <1>2 DEF Raised
<1>3. CASE ~(dropped(i) \/ ~runs) /\ first.value # Poison
  <2>1. PICK g, h : g = first.flags /\ h = second.flags
    OBVIOUS
  <2>2. r.flags = Store(Store(F, g), h) /\ r.stores = DOMAIN g \cup DOMAIN h
    BY <1>3, <2>1 DEF Raised
  <2> HIDE DEF first, second, runs, r
  <2>3. f \notin DOMAIN g /\ f \notin DOMAIN h
    BY <2>2 DEF r
  <2> QED
    BY <2>2, <2>3 DEF Store, r
<1> QED
  BY <1>1, <1>2, <1>3

\* A variable after two stores.
LEMMA StoredFlags ==
  ASSUME NEW F, NEW g, NEW h, NEW f \in Flags
  PROVE  Store(Store(F, g), h)[f] = IF f \in DOMAIN h THEN h[f] ELSE IF f \in DOMAIN g THEN g[f] ELSE F[f]
  BY DEF Store

-----------------------------------------------------------------------------
\* The flags and the value that depart.
LEMMA Departed ==
  ASSUME NEW i, NEW F, NEW known, NEW D, D = Departures(i, F, known),
         NEW C, C = IF "C" \in known THEN F["C"] ELSE Maybe
  PROVE  /\ \/ i.enc = "rrx" /\ C = Maybe
            \/ i.enc \in {"imm", "reg"} /\ (i.n >= Width \/ (i.n = 0 /\ i.sh = "ror"))
            \/ i.cond # "AL" /\ i.op \in ignoresCondition /\ ~Holds(i.cond, F)
            \/ i.cond # "AL" /\ (~FlagsOf(i.cond) \subseteq known \/ miscoded(i.cond, F))
            => Flags \cup {"value"} \subseteq D
         /\ i.op \in {"SBC", "RSC"} \/ (i.op = "ADC" /\ C = Maybe) \/ (i.op = "CLZ" /\ i.b = 0)
              => "value" \in D
         /\ i.s /\ (i.cond # "AL" \/ i.op \in {"MLA", "RSC"} \/ dropped(i)) => Flags \subseteq D
         /\ SetsFlags(i) /\ (\/ i.op = "ADC" /\ C # 1
                             \/ i.op = "SBC" /\ C # 0
                             \/ i.op = "MSR" /\ UpperBits(i.b) \notin {0, 1, 2, 4, 8}) => Flags \subseteq D
         /\ i.op = "MOV" /\ i.s => "C" \in D /\ "V" \in D
         /\ /\ SetsFlags(i) /\ i.op \in Logical
            /\ \/ i.enc = "rrx"
               \/ /\ i.enc \in {"imm", "reg"}
                  /\ i.n = 0 \/ i.sh = "ror" \/ i.op \notin isShift_C \/ ~i.s
            => "C" \in D
         /\ SetsFlags(i) /\ carryLost(i) => "C" \in D
         /\ SetsFlags(i) /\ overflowLost(i) => "V" \in D
<1>1. i.s => SetsFlags(i)
  BY DEF SetsFlags
<1> QED
  BY <1>1 DEF Departures

-----------------------------------------------------------------------------
(* Conditions. *)

\* The conditions of the raised code and of the machine, and their flags, one by one.
LEMMA CodeForms ==
  ASSUME NEW F
  PROVE  /\ emitCondCode("EQ", F) = (F["Z"] = 1) /\ emitCondCode("NE", F) = (F["Z"] = 0)
         /\ emitCondCode("HS", F) = (F["C"] = 1) /\ emitCondCode("LO", F) = (F["C"] = 0)
         /\ emitCondCode("MI", F) = (F["N"] = 1) /\ emitCondCode("PL", F) = (F["N"] = 0)
         /\ emitCondCode("VS", F) = (F["V"] = 1) /\ emitCondCode("VC", F) = (F["V"] = 0)
         /\ emitCondCode("HI", F) = ((F["C"] = 1) <=> (F["Z"] = 0))
         /\ emitCondCode("LS", F) = ((F["C"] = 0) # (F["Z"] = 1))
         /\ emitCondCode("GE", F) = (F["N"] = F["V"]) /\ emitCondCode("LT", F) = (F["N"] # F["V"])
         /\ emitCondCode("GT", F) = ((F["Z"] = 0) <=> (F["N"] = F["V"]))
         /\ emitCondCode("LE", F) = ((F["Z"] = 1) # (F["N"] # F["V"]))
         /\ emitCondCode("AL", F) = TRUE
  BY DEF emitCondCode

\* Those of the machine.
LEMMA HoldsForms ==
  ASSUME NEW F
  PROVE  /\ Holds("EQ", F) = (F["Z"] = 1) /\ Holds("NE", F) = (F["Z"] # 1)
         /\ Holds("HS", F) = (F["C"] = 1) /\ Holds("LO", F) = (F["C"] # 1)
         /\ Holds("MI", F) = (F["N"] = 1) /\ Holds("PL", F) = (F["N"] # 1)
         /\ Holds("VS", F) = (F["V"] = 1) /\ Holds("VC", F) = (F["V"] # 1)
         /\ Holds("HI", F) = (F["C"] = 1 /\ F["Z"] # 1)
         /\ Holds("LS", F) = (F["C"] # 1 \/ F["Z"] = 1)
         /\ Holds("GE", F) = (F["N"] = F["V"]) /\ Holds("LT", F) = (F["N"] # F["V"])
         /\ Holds("GT", F) = (F["Z"] # 1 /\ F["N"] = F["V"])
         /\ Holds("LE", F) = (F["Z"] = 1 \/ F["N"] # F["V"])
         /\ Holds("AL", F) = TRUE
  BY DEF Holds

\* The flags that they read.
LEMMA FlagsOfForms ==
  /\ FlagsOf("EQ") = {"Z"} /\ FlagsOf("NE") = {"Z"} /\ FlagsOf("HS") = {"C"} /\ FlagsOf("LO") = {"C"}
  /\ FlagsOf("MI") = {"N"} /\ FlagsOf("PL") = {"N"} /\ FlagsOf("VS") = {"V"} /\ FlagsOf("VC") = {"V"}
  /\ FlagsOf("HI") = {"C", "Z"} /\ FlagsOf("LS") = {"C", "Z"}
  /\ FlagsOf("GE") = {"N", "V"} /\ FlagsOf("LT") = {"N", "V"}
  /\ FlagsOf("GT") = {"Z", "N", "V"} /\ FlagsOf("LE") = {"Z", "N", "V"} /\ FlagsOf("AL") = {}
  BY DEF FlagsOf

\* A condition on flags that are those of the machine.
LEMMA ConditionFollows ==
  ASSUME NEW cc \in Conditions, NEW M \in [Flags -> {0, 1}], NEW F,
         \A f \in FlagsOf(cc) : F[f] = M[f], ~miscoded(cc, M)
  PROVE  emitCondCode(cc, F) <=> Holds(cc, M)
<1>0. M["N"] \in {0, 1} /\ M["Z"] \in {0, 1} /\ M["C"] \in {0, 1} /\ M["V"] \in {0, 1}
  BY DEF Flags
<1>1. CASE cc \in {"EQ", "NE"}
  <2>1. F["Z"] = M["Z"]
    BY <1>1, FlagsOfForms
  <2>2. CASE cc = "EQ"
    <3>1. Holds(cc, M) = (M["Z"] = 1) /\ emitCondCode(cc, F) = (F["Z"] = 1)
      BY <2>2, CodeForms, HoldsForms
    <3> QED
      BY <1>0, <2>1, <3>1
  <2>3. CASE cc = "NE"
    <3>1. Holds(cc, M) = (M["Z"] # 1) /\ emitCondCode(cc, F) = (F["Z"] = 0)
      BY <2>3, CodeForms, HoldsForms
    <3> QED
      BY <1>0, <2>1, <3>1
  <2> QED
    BY <1>1, <2>2, <2>3
<1>2. CASE cc \in {"HS", "LO"}
  <2>1. F["C"] = M["C"]
    BY <1>2, FlagsOfForms
  <2>2. CASE cc = "HS"
    <3>1. Holds(cc, M) = (M["C"] = 1) /\ emitCondCode(cc, F) = (F["C"] = 1)
      BY <2>2, CodeForms, HoldsForms
    <3> QED
      BY <1>0, <2>1, <3>1
  <2>3. CASE cc = "LO"
    <3>1. Holds(cc, M) = (M["C"] # 1) /\ emitCondCode(cc, F) = (F["C"] = 0)
      BY <2>3, CodeForms, HoldsForms
    <3> QED
      BY <1>0, <2>1, <3>1
  <2> QED
    BY <1>2, <2>2, <2>3
<1>3. CASE cc \in {"MI", "PL"}
  <2>1. F["N"] = M["N"]
    BY <1>3, FlagsOfForms
  <2>2. CASE cc = "MI"
    <3>1. Holds(cc, M) = (M["N"] = 1) /\ emitCondCode(cc, F) = (F["N"] = 1)
      BY <2>2, CodeForms, HoldsForms
    <3> QED
      BY <1>0, <2>1, <3>1
  <2>3. CASE cc = "PL"
    <3>1. Holds(cc, M) = (M["N"] # 1) /\ emitCondCode(cc, F) = (F["N"] = 0)
      BY <2>3, CodeForms, HoldsForms
    <3> QED
      BY <1>0, <2>1, <3>1
  <2> QED
    BY <1>3, <2>2, <2>3
<1>4. CASE cc \in {"VS", "VC"}
  <2>1. F["V"] = M["V"]
    BY <1>4, FlagsOfForms
  <2>2. CASE cc = "VS"
    <3>1. Holds(cc, M) = (M["V"] = 1) /\ emitCondCode(cc, F) = (F["V"] = 1)
      BY <2>2, CodeForms, HoldsForms
    <3> QED
      BY <1>0, <2>1, <3>1
  <2>3. CASE cc = "VC"
    <3>1. Holds(cc, M) = (M["V"] # 1) /\ emitCondCode(cc, F) = (F["V"] = 0)
      BY <2>3, CodeForms, HoldsForms
    <3> QED
      BY <1>0, <2>1, <3>1
  <2> QED
    BY <1>4, <2>2, <2>3
<1>5. CASE cc \in {"HI", "LS"}
  <2>1. F["C"] = M["C"] /\ F["Z"] = M["Z"]
    BY <1>5, FlagsOfForms
  <2>2. ~(M["C"] = 0 /\ M["Z"] = 1)
    BY <1>5 DEF miscoded
  <2>3. CASE cc = "HI"
    <3>1. Holds(cc, M) = (M["C"] = 1 /\ M["Z"] # 1) /\ emitCondCode(cc, F) = ((F["C"] = 1) <=> (F["Z"] = 0))
      BY <2>3, CodeForms, HoldsForms
    <3> QED
      BY <1>0, <2>1, <2>2, <3>1
  <2>4. CASE cc = "LS"
    <3>1. Holds(cc, M) = (M["C"] # 1 \/ M["Z"] = 1) /\ emitCondCode(cc, F) = ((F["C"] = 0) # (F["Z"] = 1))
      BY <2>4, CodeForms, HoldsForms
    <3> QED
      BY <1>0, <2>1, <2>2, <3>1
  <2> QED
    BY <1>5, <2>3, <2>4
<1>6. CASE cc \in {"GE", "LT"}
  <2>1. F["N"] = M["N"] /\ F["V"] = M["V"]
    BY <1>6, FlagsOfForms
  <2>2. CASE cc = "GE"
    <3>1. Holds(cc, M) = (M["N"] = M["V"]) /\ emitCondCode(cc, F) = (F["N"] = F["V"])
      BY <2>2, CodeForms, HoldsForms
    <3> QED
      BY <1>0, <2>1, <3>1
  <2>3. CASE cc = "LT"
    <3>1. Holds(cc, M) = (M["N"] # M["V"]) /\ emitCondCode(cc, F) = (F["N"] # F["V"])
      BY <2>3, CodeForms, HoldsForms
    <3> QED
      BY <1>0, <2>1, <3>1
  <2> QED
    BY <1>6, <2>2, <2>3
<1>7. CASE cc \in {"GT", "LE"}
  <2>1. F["N"] = M["N"] /\ F["V"] = M["V"] /\ F["Z"] = M["Z"]
    BY <1>7, FlagsOfForms
  <2>2. ~(M["Z"] = 1 /\ M["N"] # M["V"])
    BY <1>7 DEF miscoded
  <2>3. CASE cc = "GT"
    <3>1. Holds(cc, M) = (M["Z"] # 1 /\ M["N"] = M["V"]) /\ emitCondCode(cc, F) = ((F["Z"] = 0) <=> (F["N"] = F["V"]))
      BY <2>3, CodeForms, HoldsForms
    <3> QED
      BY <1>0, <2>1, <2>2, <3>1
  <2>4. CASE cc = "LE"
    <3>1. /\ Holds(cc, M) = (M["Z"] = 1 \/ M["N"] # M["V"])
          /\ emitCondCode(cc, F) = ((F["Z"] = 1) # (F["N"] # F["V"]))
      BY <2>4, CodeForms, HoldsForms
    <3> QED
      BY <1>0, <2>1, <2>2, <3>1
  <2> QED
    BY <1>7, <2>3, <2>4
<1> QED
  BY <1>1, <1>2, <1>3, <1>4, <1>5, <1>6, <1>7 DEF Conditions

-----------------------------------------------------------------------------
\* An instruction on the machine with the flags M, and raised with F: w and v are the flags
\* written and the value, r the result of the raised code, D what departs.
Follows(D, w, v, r) ==
  /\ "value" \in D \/ r.value = v
  /\ \A f \in DOMAIN w : f \in D \/ r.flags[f] = w[f]
  /\ \A f \in (r.stores \cap Flags) \ DOMAIN w : f \in D

\* The flags M of the machine, of which those in known are also in F.
Known(M, F, known) ==
  /\ M \in [Flags -> {0, 1}] /\ known \subseteq Flags
  /\ \A f \in known : F[f] = M[f]

Writes(i, M) == IF Holds(i.cond, M) /\ SetsFlags(i) THEN Result(i, M["C"]).flags ELSE <<>>
Value(i, M) == IF Holds(i.cond, M) /\ i.op \notin Comparisons THEN Result(i, M["C"]).value ELSE i.old

\* The flags that the two parts store, g and h, against those of the machine, w.
FlagsAgree(D, w, g, h) ==
  /\ DOMAIN w \subseteq Flags
  /\ \A f \in DOMAIN w : \/ f \in D
                         \/ f \in DOMAIN h /\ h[f] = w[f]
                         \/ f \notin DOMAIN h /\ f \in DOMAIN g /\ g[f] = w[f]
  /\ \A f \in ((DOMAIN g \cup DOMAIN h) \cap Flags) \ DOMAIN w : f \in D

\* The instruction does not set the flags, or it sets none of them as the machine does.
LEMMA NoFlagsAgree ==
  ASSUME NEW D, NEW w, NEW g, NEW h, DOMAIN w \subseteq Flags, Flags \subseteq D \/ (w = <<>> /\ g = <<>> /\ h = <<>>)
  PROVE  FlagsAgree(D, w, g, h)
  BY DEF FlagsAgree

\* The flags of a logical operation: negative and zero from the second part, the carry from
\* the first.
LEMMA LogicFlags ==
  ASSUME NEW i, ArmForm(i), i.op \in Logical \ {"MOV"}, NEW M, NEW F, NEW known, Known(M, F, known),
         OperandFollows(i, F, M["C"]), SetsFlags(i), i.s => i.cond = "AL",
         NEW y \in Values, y = Shifter(i, M["C"])[1], NEW D, D = Departures(i, M, known),
         NEW w, w = Result(i, M["C"]).flags, NEW g, g = firstPart(i, F).flags,
         NEW h, h = emitSDNode(selectCode(i, y), F["C"], i.old).flags
  PROVE  FlagsAgree(D, w, g, h)
<1>1. PICK v, m, o, c : v = LogicalValue(i.op, i.a, y) /\ m = Result(i, M["C"]) /\ o = Shifter(i, M["C"]) /\ c = M["C"]
  OBVIOUS
<1>2. h = NZ(v)
  BY <1>1, LogicNode
<1>3. m.value = v /\ w = IF Shifts(i) THEN NZC(v, o[2]) ELSE NZ(v)
  BY <1>1, LogicResult
<1>4. c \in {0, 1}
  BY <1>1 DEF Flags, Known
<1>5. /\ ~FirstStores(i) => g = <<>>
      /\ DOMAIN g \subseteq {"N", "Z", "C"}
      /\ FirstStores(i) /\ i.n > 0 /\ i.sh # "ror" => "C" \in DOMAIN g /\ g["C"] = o[2]
  BY <1>1, <1>4, FirstFlags
<1>6. /\ DOMAIN NZ(v) = {"N", "Z"} /\ DOMAIN NZC(v, o[2]) = {"N", "Z", "C"}
      /\ NZC(v, o[2])["N"] = NZ(v)["N"] /\ NZC(v, o[2])["Z"] = NZ(v)["Z"] /\ NZC(v, o[2])["C"] = o[2]
  BY FlagSets
<1>7. \/ i.enc = "rrx"
      \/ i.enc \in {"imm", "reg"} /\ (i.n = 0 \/ i.sh = "ror" \/ i.op \notin isShift_C \/ ~i.s)
      => "C" \in D
  BY Departed
<1>8. i.enc \in {"plain", "imm", "reg", "rrx"} /\ i.n \in Nat
  BY DEF ArmForm, Logical
<1>9. CASE Shifts(i)
  <2>1. "C" \in D \/ ("C" \in DOMAIN g /\ g["C"] = o[2])
    BY <1>5, <1>7, <1>8, <1>9 DEF Shifts, FirstStores
  <2>2. w = NZC(v, o[2])
    BY <1>3, <1>9
  <2> QED
    BY <1>2, <1>5, <1>6, <2>1, <2>2 DEF FlagsAgree, Flags
<1>10. CASE ~Shifts(i)
  <2>1. "C" \in D \/ g = <<>>
    BY <1>5, <1>7, <1>8, <1>10 DEF Shifts, FirstStores
  <2>2. w = NZ(v)
    BY <1>3, <1>10
  <2> QED
    BY <1>2, <1>5, <1>6, <2>1, <2>2 DEF FlagsAgree, Flags
<1> QED
  BY <1>9, <1>10

\* The parts of a MOV and of an instruction that sets the flags from a sum, a product or a
\* status word: the first stores none.
LEMMA OtherFlags ==
  ASSUME NEW i, ArmForm(i), i.op \notin Logical \ {"MOV"}, i.op # "RSC", NEW M, NEW F, NEW known, Known(M, F, known),
         OperandFollows(i, F, M["C"]), SetsFlags(i),
         NEW y \in Values, y = Shifter(i, M["C"])[1], NEW D, D = Departures(i, M, known),
         NEW w, w = Result(i, M["C"]).flags, NEW g, g = firstPart(i, F).flags,
         NEW h, h = emitSDNode(selectCode(i, y), F["C"], i.old).flags
  PROVE  FlagsAgree(D, w, g, h)
<1>1. PICK m, c, cf, e : /\ m = Result(i, M["C"]) /\ c = M["C"] /\ cf = F["C"]
                         /\ e = emitSDNode(selectCode(i, y), F["C"], i.old)
  OBVIOUS
<1>2. c \in {0, 1} /\ w = m.flags /\ h = e.flags /\ y = Shifter(i, c)[1]
  BY <1>1 DEF Flags, Known
<1>3. g = <<>>
  <2>1. ~FirstStores(i)
    BY DEF FirstStores, isShift_C, Logical
  <2> QED
    BY <1>1, <1>2, <2>1, FirstFlags
<1>4. PICK C : C = IF "C" \in known THEN M["C"] ELSE Maybe
  OBVIOUS
<1>5. DOMAIN w \subseteq Flags
  BY <1>1, <1>2, MachineFlags
<1>6. ASSUME DOMAIN h = Flags, DOMAIN w = Flags, \A f \in Flags : f \in D \/ h[f] = w[f]
      PROVE  FlagsAgree(D, w, g, h)
  BY <1>3, <1>6 DEF FlagsAgree
<1>7. CASE i.op = "MOV"
  <2>1. i.s
    BY <1>7 DEF SetsFlags, Comparisons
  <2>2. "C" \in D /\ "V" \in D
    BY <1>7, <2>1, Departed
  <2>3. DOMAIN h = Flags /\ h["N"] = NZ(y)["N"] /\ h["Z"] = NZ(y)["Z"]
    BY <1>1, <1>2, <1>7, MoveNode
  <2>4. w = IF Shifts(i) THEN NZC(y, Shifter(i, c)[2]) ELSE NZ(y)
    <3>1. /\ m.value = LogicalValue(i.op, i.a, Shifter(i, c)[1])
          /\ m.flags = IF Shifts(i) THEN NZC(m.value, Shifter(i, c)[2]) ELSE NZ(m.value)
      BY <1>1, <1>7, LogicResult DEF Logical
    <3>2. LogicalValue("MOV", i.a, y) = y
      BY DEF LogicalValue
    <3> QED
      BY <1>2, <1>7, <3>1, <3>2
  <2>5. PICK oc : oc = Shifter(i, c)[2]
    OBVIOUS
  <2>6. /\ DOMAIN NZ(y) = {"N", "Z"} /\ DOMAIN NZC(y, oc) = {"N", "Z", "C"}
        /\ NZC(y, oc)["N"] = NZ(y)["N"] /\ NZC(y, oc)["Z"] = NZ(y)["Z"]
    BY FlagSets
  <2>7. w = NZC(y, oc) \/ w = NZ(y)
    BY <2>4, <2>5
  <2>8. /\ DOMAIN w \subseteq {"N", "Z", "C"} /\ {"N", "Z"} \subseteq DOMAIN w
        /\ w["N"] = NZ(y)["N"] /\ w["Z"] = NZ(y)["Z"]
    BY <2>6, <2>7
  <2> QED
    BY <1>3, <2>2, <2>3, <2>8 DEF FlagsAgree, Flags
<1>8. CASE i.op \in {"ADD", "CMN", "SUB", "CMP", "RSB", "ADC"}
  <2>1. /\ DOMAIN h = Flags /\ DOMAIN w = Flags
        /\ (i.op = "ADC" => c = 1) =>
             /\ h["N"] = w["N"] /\ h["Z"] = w["Z"]
             /\ ~carryLost(i) => h["C"] = w["C"]
             /\ ~overflowLost(i) => h["V"] = w["V"]
    BY <1>1, <1>2, <1>8, SumNode
  <2>2. /\ carryLost(i) => "C" \in D
        /\ overflowLost(i) => "V" \in D
    BY Departed
  <2>3. CASE i.op = "ADC" /\ c # 1
    <3>1. C # 1
      BY <1>1, <1>4, <2>3 DEF Maybe, Known
    <3>2. Flags \subseteq D
      BY <1>4, <2>3, <3>1, Departed
    <3> QED
      BY <1>6, <2>1, <3>2
  <2>4. CASE i.op = "ADC" => c = 1
    BY <1>6, <2>1, <2>2, <2>4 DEF Flags
  <2> QED
    BY <2>3, <2>4
<1>9. CASE i.op = "SBC"
  <2>1. /\ DOMAIN h = Flags /\ DOMAIN w = Flags
        /\ c = 0 => \A f \in Flags : h[f] = w[f]
    <3>1. e = emitSDNode(selectCode(i, y), cf, i.old) /\ m = Result(i, c)
      BY <1>1
    <3>2. /\ DOMAIN e.flags = Flags /\ DOMAIN m.flags = Flags
          /\ c = 0 => \A f \in Flags : e.flags[f] = m.flags[f]
      BY <1>2, <1>9, <3>1, SbcNode
    <3> QED
      BY <1>2, <3>2
  <2>2. CASE c = 0
    BY <1>6, <2>1, <2>2
  <2>3. CASE c # 0
    <3>1. C # 0
      BY <1>1, <1>4, <2>3 DEF Maybe, Known
    <3>2. Flags \subseteq D
      BY <1>4, <1>9, <3>1, Departed
    <3> QED
      BY <1>6, <2>1, <3>2
  <2> QED
    BY <2>2, <2>3
<1>10. CASE i.op \in {"MUL", "MLA", "CLZ", "MSR"}
  <2>1. y = i.b
    <3>1. i.enc = "plain"
      BY <1>10 DEF ArmForm, checkisShifter
    <3>2. Shifter(i, c) = <<i.b, c>>
      BY <3>1 DEF Shifter
    <3> QED
      BY <1>2, <3>2
  <2>2. /\ i.op = "MUL" => h = w /\ w = NZ(m.value)
        /\ i.op = "MSR" => /\ DOMAIN h = Flags /\ DOMAIN w = Flags
                           /\ UpperBits(i.b) \in {0, 1, 2, 4, 8} => \A f \in Flags : h[f] = w[f]
    <3>1. e = emitSDNode(selectCode(i, i.b), cf, i.old) /\ m = Result(i, c)
      BY <1>1, <2>1
    <3>2. i.op = "MUL" => e.flags = m.flags /\ m.flags = NZ(m.value)
      BY <3>1, ProductNode DEF Products
    <3>3. ASSUME i.op = "MSR"
          PROVE  /\ DOMAIN e.flags = Flags /\ DOMAIN m.flags = Flags
                 /\ UpperBits(i.b) \in {0, 1, 2, 4, 8} => \A f \in Flags : e.flags[f] = m.flags[f]
      BY <3>1, <3>3, StatusNode
    <3> QED
      BY <1>2, <3>2, <3>3
  <2>3. CASE i.op = "MUL"
    BY <1>3, <1>5, <2>2, <2>3 DEF FlagsAgree
  <2>4. CASE i.op = "MSR"
    <3>1. UpperBits(i.b) \notin {0, 1, 2, 4, 8} => Flags \subseteq D
      BY <2>4, Departed
    <3> QED
      BY <1>6, <2>2, <2>4, <3>1
  <2>5. CASE i.op = "MLA"
    <3>1. i.s
      BY <2>5 DEF SetsFlags, Comparisons
    <3>2. Flags \subseteq D
      BY <2>5, <3>1, Departed
    <3> QED
      BY <1>5, <3>2 DEF FlagsAgree
  <2>6. i.op # "CLZ"
    BY DEF ArmForm, SetsFlags, Comparisons
  <2> QED
    BY <1>10, <2>3, <2>4, <2>5, <2>6
<1> QED
  BY <1>7, <1>8, <1>9, <1>10 DEF ArmForm, Ops, checkisShifter, Logical

\* The value of an instruction whose operand is that of the machine.
LEMMA ValueFollows ==
  ASSUME NEW i, ArmForm(i), i.op # "RSC", NEW M, NEW F, NEW known, Known(M, F, known),
         NEW y \in Values, y = Shifter(i, M["C"])[1], NEW D, D = Departures(i, M, known),
         NEW v, v = emitSDNode(selectCode(i, y), F["C"], i.old).value
  PROVE  "value" \in D \/ v = IF i.op \in Comparisons THEN i.old ELSE Result(i, M["C"]).value
<1>1. PICK m, c, cf, e : /\ m = Result(i, M["C"]) /\ c = M["C"] /\ cf = F["C"]
                         /\ e = emitSDNode(selectCode(i, y), F["C"], i.old)
  OBVIOUS
<1>2. c \in {0, 1} /\ v = e.value /\ y = Shifter(i, c)[1]
  BY <1>1 DEF Flags, Known
<1>3. CASE i.op \in Logical
  <2>1. m.value = LogicalValue(i.op, i.a, y)
    BY <1>1, <1>2, <1>3, LogicResult
  <2>2. CASE i.op = "MOV"
    <3>1. LogicalValue("MOV", i.a, y) = y
      BY DEF LogicalValue
    <3>2. v = y
      BY <1>1, <1>2, <2>2, MoveNode
    <3> QED
      BY <1>1, <2>1, <2>2, <3>1, <3>2 DEF Comparisons
  <2>3. CASE i.op # "MOV"
    <3>1. v = IF i.op \in Comparisons THEN i.old ELSE LogicalValue(i.op, i.a, y)
      BY <1>1, <1>2, <1>3, <2>3, LogicNode
    <3> QED
      BY <1>1, <2>1, <3>1
  <2> QED
    BY <2>2, <2>3
<1>4. CASE i.op \in {"ADD", "CMN", "SUB", "CMP", "RSB", "ADC"}
  <2>1. /\ i.op \in Comparisons => v = i.old
        /\ i.op \notin Comparisons => (i.op = "ADC" /\ cf # c) \/ v = m.value
    BY <1>1, <1>2, <1>4, SumNode
  <2>2. CASE i.op = "ADC" /\ cf # c
    <3>1. "C" \notin known
      BY <1>1, <2>2 DEF Known
    <3> QED
      BY <2>2, <3>1, Departed
  <2> QED
    BY <1>1, <2>1, <2>2
<1>5. CASE i.op = "SBC"
  BY <1>5, Departed
<1>6. CASE i.op \in {"MUL", "MLA", "CLZ", "MSR"}
  <2>1. y = i.b
    <3>1. i.enc = "plain"
      BY <1>6 DEF ArmForm, checkisShifter
    <3>2. Shifter(i, c) = <<i.b, c>>
      BY <3>1 DEF Shifter
    <3> QED
      BY <1>2, <3>2
  <2>2. (i.op = "CLZ" /\ i.b = 0) \/ v = m.value
    <3>1. e = emitSDNode(selectCode(i, i.b), cf, i.old) /\ m = Result(i, c)
      BY <1>1, <2>1
    <3>2. (i.op = "CLZ" /\ i.b = 0) \/ e.value = m.value
      <4>1. i.op \in Products => e.value = m.value
        BY <3>1, ProductNode
      <4>2. i.op = "CLZ" /\ i.b # 0 => e.value = m.value
        BY <3>1, ZerosNode
      <4>3. i.op = "MSR" => e.value = m.value
        BY <3>1, StatusKept
      <4> QED
        BY <1>6, <4>1, <4>2, <4>3 DEF Products
    <3> QED
      BY <1>2, <3>2
  <2>3. i.op = "CLZ" /\ i.b = 0 => "value" \in D
    BY Departed
  <2> QED
    BY <1>1, <1>6, <2>2, <2>3 DEF Comparisons
<1> QED
  BY <1>3, <1>4, <1>5, <1>6 DEF ArmForm, Ops, checkisShifter, Logical

-----------------------------------------------------------------------------
(* An instruction, raised. *)

\* Two stores that agree with the machine make the variables follow it.
LEMMA StoresAgree ==
  ASSUME NEW D, NEW w, NEW v, NEW F, NEW g, NEW h, NEW x, "value" \in D \/ x = v, FlagsAgree(D, w, g, h),
         NEW r, r = [value |-> x, flags |-> Store(Store(F, g), h), stores |-> DOMAIN g \cup DOMAIN h]
  PROVE  Follows(D, w, v, r)
<1>1. ASSUME NEW f \in DOMAIN w PROVE f \in D \/ r.flags[f] = w[f]
  <2>1. f \in Flags
    BY DEF FlagsAgree
  <2>2. r.flags[f] = IF f \in DOMAIN h THEN h[f] ELSE IF f \in DOMAIN g THEN g[f] ELSE F[f]
    BY <2>1, StoredFlags
  <2> QED
    BY <1>1, <2>2 DEF FlagsAgree
<1>2. r.value = x /\ r.stores = DOMAIN g \cup DOMAIN h
  OBVIOUS
<1>3. \A f \in (r.stores \cap Flags) \ DOMAIN w : f \in D
  BY <1>2 DEF FlagsAgree
<1> QED
  BY <1>1, <1>2, <1>3 DEF Follows

\* The raised code of an instruction, whose condition is decided as in the machine.
LEMMA RunFollows ==
  ASSUME NEW i, ArmForm(i), NEW M, NEW F, NEW known, Known(M, F, known), OperandFollows(i, F, M["C"]),
         Holds(i.cond, M), i.op \in ignoresCondition \/ emitCondCode(i.cond, F),
         NEW D, D = Departures(i, M, known)
  PROVE  Follows(D, Writes(i, M), Value(i, M), Raised(i, F))
<1>0. PICK first, second, r, w, v, c :
        /\ first = firstPart(i, F) /\ second = secondPart(i, first.value, F) /\ r = Raised(i, F)
        /\ w = Writes(i, M) /\ v = Value(i, M) /\ c = M["C"]
  OBVIOUS
<1>1. /\ c \in {0, 1} /\ Known(M, F, known)
      /\ w = IF SetsFlags(i) THEN Result(i, c).flags ELSE <<>>
      /\ v = IF i.op \notin Comparisons THEN Result(i, c).value ELSE i.old
  BY <1>0 DEF Writes, Value, Known, Flags
<1>2. DOMAIN w \subseteq Flags
  <2>1. DOMAIN Result(i, c).flags \subseteq Flags
    BY <1>1, MachineFlags
  <2> QED
    BY <1>1, <2>1
<1>3. CASE dropped(i)
  <2>1. r = [value |-> IF i.enc = "self" THEN i.b ELSE i.old, flags |-> F, stores |-> {}]
    BY <1>0, <1>3 DEF Raised
  <2>2. "value" \in D \/ r.value = v
    <3>1. CASE i.op = "SBC"
      BY <3>1, Departed
    <3>2. CASE i.op # "SBC"
      <4>1. i.enc = "self" /\ i.op = "MOV"
        BY <1>3, <3>2 DEF dropped, ArmForm
      <4>2. Shifter(i, c)[1] = i.b
        BY <4>1 DEF Shifter
      <4>3. Result(i, c).value = LogicalValue(i.op, i.a, i.b)
        BY <4>1, <4>2, LogicResult DEF Logical
      <4>4. LogicalValue("MOV", i.a, i.b) = i.b
        BY DEF LogicalValue
      <4> QED
        BY <1>1, <2>1, <4>1, <4>3, <4>4 DEF Comparisons
    <3> QED
      BY <3>1, <3>2
  <2>3. CASE i.s
    <3>1. Flags \subseteq D
      BY <1>3, <2>3, Departed
    <3> QED
      BY <1>0, <1>2, <2>1, <2>2, <3>1 DEF Follows
  <2>4. CASE ~i.s
    <3>1. w = <<>>
      BY <1>1, <1>3, <2>4 DEF dropped, ArmForm, SetsFlags, Comparisons
    <3> QED
      BY <1>0, <2>1, <2>2, <3>1 DEF Follows
  <2> QED
    BY <2>3, <2>4 DEF ArmForm
<1>4. CASE ~dropped(i)
  <2>1. PICK y : y = first.value
    OBVIOUS
  <2>2. /\ Splits(i) \/ i.enc \in {"plain", "self"} => y = Shifter(i, c)[1]
        /\ y \in Values
    <3>1. CASE Splits(i) \/ i.enc \in {"plain", "self"}
      BY <1>0, <1>1, <2>1, <3>1, FirstValue
    <3>2. CASE ~(Splits(i) \/ i.enc \in {"plain", "self"})
      BY <1>0, <2>1, <3>2 DEF firstPart, Emits, ArmForm
    <3> QED
      BY <3>1, <3>2
  <2>3. y # Poison
    BY <2>2, WordRange DEF Poison
  <2>4. PICK g, h, x : g = first.flags /\ h = second.flags /\ x = second.value
    OBVIOUS
  <2>5. r = [value |-> x, flags |-> Store(Store(F, g), h), stores |-> DOMAIN g \cup DOMAIN h]
    BY <1>0, <1>4, <2>1, <2>3, <2>4 DEF Raised
  <2>6. PICK e : e = emitSDNode(selectCode(i, y), F["C"], i.old)
    OBVIOUS
  <2>7. x = e.value /\ h = IF UpdateCPSR(i) \/ i.op \in Comparisons \cup {"MSR"} THEN e.flags ELSE <<>>
    BY <1>0, <2>1, <2>4, <2>6 DEF secondPart, Emits
  <2>8. ~FirstStores(i) => g = <<>>
    BY <1>0, <1>1, <2>4, FirstFlags
  <2>9. "value" \in D \/ x = v
    <3>1. CASE i.op = "RSC"
      BY <3>1, Departed
    <3>2. CASE i.op # "RSC"
      <4>1. y = Shifter(i, c)[1]
        BY <1>4, <2>2, <3>2 DEF dropped, Splits, ArmForm
      <4>2. "value" \in D \/ x = IF i.op \in Comparisons THEN i.old ELSE Result(i, M["C"]).value
        BY <1>0, <1>1, <2>2, <2>6, <2>7, <3>2, <4>1, ValueFollows
      <4> QED
        BY <1>0, <1>1, <4>2
    <3> QED
      BY <3>1, <3>2
  <2>10. FlagsAgree(D, w, g, h)
    <3>1. CASE ~SetsFlags(i)
      <4>1. ~UpdateCPSR(i) /\ ~FirstStores(i) /\ i.op \notin Comparisons \cup {"MSR"}
        BY <3>1 DEF UpdateCPSR, FirstStores, SetsFlags
      <4> QED
        BY <1>1, <1>2, <2>7, <2>8, <3>1, <4>1, NoFlagsAgree
    <3>2. CASE i.s /\ (i.cond # "AL" \/ i.op = "RSC")
      <4>1. Flags \subseteq D
        BY <3>2, Departed
      <4> QED
        BY <1>2, <4>1, NoFlagsAgree
    <3>3. CASE SetsFlags(i) /\ ~(i.s /\ (i.cond # "AL" \/ i.op = "RSC"))
      <4>1. i.op # "RSC" /\ (i.s => i.cond = "AL")
        BY <3>3 DEF SetsFlags, Comparisons
      <4>2. y = Shifter(i, c)[1]
        BY <1>4, <2>2, <4>1 DEF dropped, Splits, ArmForm
      <4>3. h = e.flags
        BY <2>7, <3>3, <4>1 DEF SetsFlags, UpdateCPSR
      <4>4. w = Result(i, M["C"]).flags /\ g = firstPart(i, F).flags
            /\ h = emitSDNode(selectCode(i, y), F["C"], i.old).flags /\ y = Shifter(i, M["C"])[1]
        BY <1>0, <1>1, <2>4, <2>6, <3>3, <4>2, <4>3
      <4>5. CASE i.op \in Logical \ {"MOV"}
        BY <2>2, <3>3, <4>1, <4>4, <4>5, LogicFlags
      <4>6. CASE i.op \notin Logical \ {"MOV"}
        BY <2>2, <3>3, <4>1, <4>4, <4>6, OtherFlags
      <4> QED
        BY <4>5, <4>6
    <3> QED
      BY <3>1, <3>2, <3>3
  <2> QED
    BY <1>0, <2>5, <2>9, <2>10, StoresAgree
<1> QED
  BY <1>3, <1>4

\* Every instruction changes the flag variables and the value as the machine does, but for
\* what departs.
LEMMA RaisedFollows ==
  ASSUME NEW i, ArmForm(i), NEW M, NEW F, NEW known, Known(M, F, known),
         NEW D, D = Departures(i, M, known)
  PROVE  Follows(D, Writes(i, M), Value(i, M), Raised(i, F))
<1>1. PICK c, C : c = M["C"] /\ C = IF "C" \in known THEN M["C"] ELSE Maybe
  OBVIOUS
<1>2. c \in {0, 1}
  BY <1>1 DEF Known, Flags
<1>3. ASSUME Flags \cup {"value"} \subseteq D
      PROVE  Follows(D, Writes(i, M), Value(i, M), Raised(i, F))
  <2>1. DOMAIN Writes(i, M) \subseteq Flags
    <3>1. DOMAIN Result(i, c).flags \subseteq Flags
      BY <1>2, MachineFlags
    <3> QED
      BY <1>1, <3>1 DEF Writes
  <2> QED
    BY <1>3, <2>1 DEF Follows
<1>4. OperandFollows(i, F, c) \/ Flags \cup {"value"} \subseteq D
  <2>1. CASE i.enc = "rrx" /\ F["C"] # c
    <3>1. C = Maybe
      BY <1>1, <2>1 DEF Known
    <3> QED
      BY <1>1, <2>1, <3>1, Departed
  <2>2. CASE i.enc \in {"imm", "reg"} /\ ~(i.n < Width /\ ~(i.n = 0 /\ i.sh = "ror"))
    <3>1. i.n >= Width \/ (i.n = 0 /\ i.sh = "ror")
      BY <2>2, WordBounds DEF ArmForm
    <3> QED
      BY <2>2, <3>1, Departed
  <2> QED
    BY <2>1, <2>2 DEF OperandFollows
<1>5. CASE i.cond = "AL"
  <2>1. Holds(i.cond, M) /\ emitCondCode(i.cond, F)
    BY <1>5, HoldsForms, CodeForms
  <2> QED
    BY <1>1, <1>3, <1>4, <2>1, RunFollows
<1>6. CASE i.cond # "AL" /\ i.op \in ignoresCondition
  <2>1. Holds(i.cond, M) \/ Flags \cup {"value"} \subseteq D
    BY <1>6, Departed
  <2> QED
    BY <1>1, <1>3, <1>4, <1>6, <2>1, RunFollows
<1>7. CASE i.cond # "AL" /\ i.op \notin ignoresCondition
  <2>1. CASE ~FlagsOf(i.cond) \subseteq known \/ miscoded(i.cond, M)
    <3>1. Flags \cup {"value"} \subseteq D
      BY <1>7, <2>1, Departed
    <3> QED
      BY <1>3, <3>1
  <2>2. CASE FlagsOf(i.cond) \subseteq known /\ ~miscoded(i.cond, M)
    <3>1. i.cond \in Conditions /\ i.enc = "plain"
      BY <1>7 DEF ArmForm
    <3>2. M \in [Flags -> {0, 1}] /\ \A f \in FlagsOf(i.cond) : F[f] = M[f]
      BY <2>2 DEF Known
    <3>3. emitCondCode(i.cond, F) <=> Holds(i.cond, M)
      BY <2>2, <3>1, <3>2, ConditionFollows
    <3>4. CASE Holds(i.cond, M)
      BY <1>1, <1>3, <1>4, <3>3, <3>4, RunFollows
    <3>5. CASE ~Holds(i.cond, M)
      <4>1. Writes(i, M) = <<>> /\ Value(i, M) = i.old
        BY <3>5 DEF Writes, Value
      <4>2. Raised(i, F) = [value |-> i.old, flags |-> F, stores |-> {}]
        BY <1>7, <3>1, <3>3, <3>5 DEF Raised
      <4> QED
        BY <4>1, <4>2 DEF Follows
    <3> QED
      BY <3>4, <3>5
  <2> QED
    BY <2>1, <2>2
<1> QED
  BY <1>5, <1>6, <1>7

-----------------------------------------------------------------------------
(* The invariant. *)

ArmInv == Known(mflags, rflags, tracked) /\ ArmValuesFollow

\* The invariant holds at first.
LEMMA ArmInvInit == Init => ArmInv
  BY DEF Init, ArmInv, Known, ArmValuesFollow

\* An instruction, the next block and a stuttering step keep it.
LEMMA ArmInvStep == ArmInv /\ [Next]_armVars => ArmInv'
<1> SUFFICES ASSUME ArmInv, [Next]_armVars PROVE ArmInv'
  OBVIOUS
<1>1. ASSUME NEW i \in Instructions, Step(i) PROVE ArmInv'
  <2>1. ArmForm(i)
    BY InstructionForms
  <2>2. PICK w, v, r, D : /\ w = Writes(i, mflags) /\ v = Value(i, mflags)
                          /\ r = Raised(i, rflags) /\ D = Departures(i, mflags, tracked)
    OBVIOUS
  <2>3. /\ mflags' = Store(mflags, w) /\ rflags' = r.flags
        /\ tracked' = (tracked \cup DOMAIN w) \ (D \cap (DOMAIN w \cup r.stores))
        /\ agree' = ("value" \in D \/ r.value = v)
    BY <1>1, <2>2 DEF Step, Writes, Value
  <2>4. Known(mflags, rflags, tracked)
    BY DEF ArmInv
  <2>5. Follows(D, w, v, r)
    BY <2>1, <2>2, <2>4, RaisedFollows
  <2>6. DOMAIN w \subseteq Flags /\ \A f \in DOMAIN w : w[f] \in {0, 1}
    <3>1. mflags["C"] \in {0, 1}
      BY <2>4 DEF Known, Flags
    <3>2. PICK g : g = Result(i, mflags["C"]).flags
      OBVIOUS
    <3>3. DOMAIN g \subseteq Flags /\ \A f \in DOMAIN g : g[f] \in {0, 1}
      BY <2>1, <3>1, <3>2, MachineFlags
    <3>4. w = g \/ w = <<>>
      BY <2>2, <3>2 DEF Writes
    <3>5. CASE w = g
      BY <3>3, <3>5
    <3>6. CASE w = <<>>
      BY <3>6
    <3> QED
      BY <3>4, <3>5, <3>6
  <2>7. mflags' \in [Flags -> {0, 1}]
    BY <2>3, <2>4, <2>6 DEF Store, Known
  <2>8. tracked' \subseteq Flags
    BY <2>3, <2>4, <2>6 DEF Known
  <2>9. ASSUME NEW f \in tracked' PROVE rflags'[f] = mflags'[f]
    <3>1. f \in Flags /\ mflags'[f] = IF f \in DOMAIN w THEN w[f] ELSE mflags[f]
      BY <2>3, <2>8, <2>9 DEF Store
    <3>2. CASE f \in DOMAIN w
      BY <2>3, <2>5, <2>9, <3>1, <3>2 DEF Follows
    <3>3. CASE f \notin DOMAIN w
      <4>1. f \in tracked /\ f \notin r.stores
        BY <2>3, <2>5, <2>9, <3>1, <3>3 DEF Follows
      <4>2. r.flags[f] = rflags[f]
        BY <2>2, <3>1, <4>1, RaisedKeeps
      <4> QED
        BY <2>3, <2>4, <3>1, <3>3, <4>1, <4>2 DEF Known
    <3> QED
      BY <3>2, <3>3
  <2>10. agree'
    BY <2>3, <2>5 DEF Follows
  <2> QED
    BY <2>7, <2>8, <2>9, <2>10 DEF ArmInv, Known, ArmValuesFollow
<1>2. CASE NextBlock
  BY <1>2 DEF NextBlock, ArmInv, Known, ArmValuesFollow
<1>3. CASE UNCHANGED armVars
  BY <1>3 DEF armVars, ArmInv, Known, ArmValuesFollow
<1> QED
  BY <1>1, <1>2, <1>3 DEF Next

\* The invariant holds always.
LEMMA ArmInvAlways == Spec => []ArmInv
  BY ArmInvInit, ArmInvStep, PTL DEF Spec

\* The value that a raised instruction leaves in its destination is the one of the machine,
\* for words of every width, where the instruction does not depart from the machine in its
\* value.
THEOREM ArmValuesAlwaysFollow == Spec => []ArmValuesFollow
<1>1. ArmInv => ArmValuesFollow
  BY DEF ArmInv
<1> QED
  BY <1>1, ArmInvAlways, PTL

\* A flag variable that the raised code has kept so far is the flag of the machine, after
\* every sequence of instructions, conditional and split ones included.
THEOREM ArmFlagsAlwaysFollow == Spec => []ArmFlagsFollow
<1>1. ArmInv => ArmFlagsFollow
  BY DEF ArmInv, Known, ArmFlagsFollow
<1> QED
  BY <1>1, ArmInvAlways, PTL

\* A condition on such flags is decided as in the machine, but for the combinations that
\* are coded wrongly.
THEOREM ArmConditionsAlwaysFollow == Spec => []ArmConditionsFollow
<1>1. ArmInv => ArmConditionsFollow
  <2> SUFFICES ASSUME Known(mflags, rflags, tracked), NEW cc \in Conditions,
                      FlagsOf(cc) \subseteq tracked, ~miscoded(cc, mflags)
               PROVE  emitCondCode(cc, rflags) <=> Holds(cc, mflags)
    BY DEF ArmInv, ArmConditionsFollow
  <2>1. mflags \in [Flags -> {0, 1}] /\ \A f \in FlagsOf(cc) : rflags[f] = mflags[f]
    BY DEF Known
  <2> QED
    BY <2>1, ConditionFollows
<1> QED
  BY <1>1, ArmInvAlways, PTL
=============================================================================
