---------------------------- MODULE X86State_proofs ----------------------------
(***************************************************************************)
(* The two parts of the state of an x86 processor that a raised function   *)
(* keeps in variables, the flags and the register stack of the x87 unit,   *)
(* follow the processor: the flags for words of every width and all        *)
(* operands, the stack for all values and operations, both after every     *)
(* sequence of instructions. ComparedInv holds after a comparison and ends *)
(* with the next instruction, so that it needs no strengthening. FlagsInv  *)
(* strengthens the two properties it is about by types: a step preserves   *)
(* it because each instruction, whatever the flags before it, leaves the   *)
(* flags of the machine where Departures does not name them (StepFollows,  *)
(* one lemma for each group of instructions). The stack is proved to       *)
(* refine the one of the x87 unit.                                         *)
(***************************************************************************)
EXTENDS Eflags, FPUStack, Words_proofs, SequenceTheorems

(* Flags: after a comparison. *)

\* The flags of a - b.
SubFlags(F, a, b) ==
  /\ F["CF"] = Flag(a < b)
  /\ F["ZF"] = Flag(Wrap(a - b) = 0)
  /\ F["SF"] = Flag(HighBit(Wrap(a - b)))
  /\ F["OF"] = Flag(~FitsSigned(Signed(a) - Signed(b)))

ComparedInv ==
  last.op \in {"CMP", "SUB"} =>
    /\ last.a \in Values /\ last.b \in Values
    /\ SubFlags(rflags, last.a, last.b)

\* Zero, carry, and sign against overflow, as orders of words.
LEMMA FlagsOrder ==
  ASSUME NEW a \in Values, NEW b \in Values
  PROVE  /\ Wrap(a - b) = 0 <=> a = b
         /\ Signed(a) = Signed(b) <=> a = b
         /\ (HighBit(Wrap(a - b)) <=> FitsSigned(Signed(a) - Signed(b)))
              <=> Signed(a) < Signed(b)
  BY WordRange, SMTT(60) DEF Wrap, Signed, HighBit, FitsSigned

\* Flags as truth values.
LEMMA FlagValues ==
  ASSUME NEW p \in BOOLEAN, NEW q \in BOOLEAN
  PROVE  /\ Flag(p) = 1 <=> p
         /\ Flag(p) = 0 <=> ~p
         /\ Flag(p) = Flag(q) <=> (p <=> q)
  BY DEF Flag

\* The four flags decide all ten conditions, in each of the three users.
LEMMA FlagsDecide ==
  ASSUME NEW a \in Values, NEW b \in Values, NEW F, SubFlags(F, a, b)
  PROVE  /\ Orders(Jcc, handledByJcc, F, a, b)
         /\ Orders(SETcc, handledBySETcc, F, a, b)
         /\ Orders(CMOVcc, handledByCMOVcc, F, a, b)
<1>1. /\ F["CF"] = 1 <=> a < b
      /\ F["CF"] = 0 <=> ~(a < b)
  BY DEF SubFlags, Flag
<1>2. /\ F["ZF"] = 1 <=> a = b
      /\ F["ZF"] = 0 <=> a # b
  BY FlagValues, FlagsOrder DEF SubFlags
<1>3. F["SF"] = F["OF"] <=> ~(Signed(a) < Signed(b))
  <2>1. /\ HighBit(Wrap(a - b)) \in BOOLEAN
        /\ FitsSigned(Signed(a) - Signed(b)) \in BOOLEAN
    BY DEF HighBit, FitsSigned
  <2>2. F["SF"] = F["OF"] <=> (HighBit(Wrap(a - b)) <=> ~FitsSigned(Signed(a) - Signed(b)))
    BY <2>1, FlagValues DEF SubFlags
  <2> QED BY <2>1, <2>2, FlagsOrder
<1>4. /\ F["CF"] \in {0, 1}
      /\ F["ZF"] \in {0, 1}
  BY DEF SubFlags, Flag
<1>5. /\ a \in Int /\ b \in Int /\ Signed(a) \in Int /\ Signed(b) \in Int
      /\ Signed(a) = Signed(b) <=> a = b
  BY WordRange, FlagsOrder DEF Signed, HighBit
<1>6. Orders(Jcc, handledByJcc, F, a, b)
  <2>1. /\ Jcc("E", F) <=> (F["ZF"] = 1)
        /\ Jcc("NE", F) <=> (F["ZF"] = 0)
        /\ Jcc("B", F) <=> (F["CF"] = 1)
        /\ Jcc("AE", F) <=> (F["CF"] = 0)
        /\ Jcc("L", F) <=> (F["SF"] # F["OF"])
        /\ Jcc("GE", F) <=> (F["SF"] = F["OF"])
        /\ Jcc("LE", F) <=> (F["ZF"] = 1 \/ F["SF"] # F["OF"])
        /\ Jcc("G", F) <=> (F["ZF"] = 0 /\ F["SF"] = F["OF"])
        /\ Jcc("BE", F) <=> (F["ZF"] = 1 \/ F["CF"] = 1)
        /\ Jcc("A", F) <=> (F["ZF"] = 0 /\ F["CF"] = 0)
    BY DEF Jcc
  <2> QED BY <2>1, <1>1, <1>2, <1>3, <1>5 DEF Orders, handledByJcc, Conditions
<1>7. Orders(SETcc, handledBySETcc, F, a, b)
  <2>1. /\ SETcc("E", F) <=> (F["ZF"] = 1)
        /\ SETcc("NE", F) <=> (F["ZF"] = 0)
        /\ SETcc("B", F) <=> (F["CF"] = 1)
        /\ SETcc("AE", F) <=> (F["CF"] = 0)
        /\ SETcc("L", F) <=> (F["SF"] # F["OF"])
        /\ SETcc("GE", F) <=> (F["SF"] = F["OF"])
        /\ SETcc("LE", F) <=> (F["ZF"] = 1 \/ F["SF"] # F["OF"])
        /\ SETcc("G", F) <=> (F["ZF"] = 0 /\ F["SF"] = F["OF"])
        /\ SETcc("A", F) <=> (F["ZF"] = 0 /\ F["CF"] = 0)
    BY DEF SETcc
  <2> QED BY <2>1, <1>1, <1>2, <1>3, <1>5 DEF Orders, handledBySETcc, Conditions
<1>8. Orders(CMOVcc, handledByCMOVcc, F, a, b)
  <2>1. F["CF"] + F["ZF"] = 0 <=> ~(a < b) /\ a # b
    BY <1>1, <1>2, <1>4
  <2>2. /\ CMOVcc("E", F) <=> (F["ZF"] = 1)
        /\ CMOVcc("NE", F) <=> (F["ZF"] = 0)
        /\ CMOVcc("B", F) <=> (F["CF"] = 1)
        /\ CMOVcc("AE", F) <=> (F["CF"] = 0)
        /\ CMOVcc("L", F) <=> (F["SF"] # F["OF"])
        /\ CMOVcc("GE", F) <=> (F["SF"] = F["OF"])
        /\ CMOVcc("LE", F) <=> (F["ZF"] = 1 \/ F["SF"] # F["OF"])
        /\ CMOVcc("G", F) <=> (F["ZF"] = 0 /\ F["SF"] = F["OF"])
        /\ CMOVcc("BE", F) <=> (F["ZF"] = 1 \/ F["CF"] = 1)
        /\ CMOVcc("A", F) <=> (F["CF"] + F["ZF"] = 0)
    BY DEF CMOVcc
  <2> QED BY <2>1, <2>2, <1>1, <1>2, <1>3, <1>5 DEF Orders, handledByCMOVcc, Conditions
<1> QED BY <1>6, <1>7, <1>8

\* The operands of an instruction are words.
LEMMA ComparedWords ==
  ASSUME NEW i \in Instructions
  PROVE  i.a \in Values /\ (i.op \in {"CMP", "SUB"} => i.b \in Values)
<1>1. \A forms, B, C, wides : \A j \in Insts(forms, B, C, wides) :
        j.a \in Operands /\ j.b \in B /\ \E f \in forms : j.op = f[1]
  BY DEF Insts
<1>2. i \in Insts(Binary, Operands, {0}, {FALSE}) => i.b \in Values
  BY <1>1, OperandsAssumption
<1>3. i.op \in {"CMP", "SUB"} => i \in Insts(Binary, Operands, {0}, {FALSE})
  BY <1>1 DEF Instructions, Unary, Counted, Double, Shifts, Rotates, DoubleShifts
<1> QED BY <1>1, <1>2, <1>3, OperandsAssumption DEF Instructions

\* How the two are raised and tested.
LEMMA SubRaised ==
  ASSUME NEW i, i.op \in {"CMP", "SUB"}, NEW cf, NEW t, NEW old
  PROVE  /\ raiseInst(i, cf) = raiseSub(i)
         /\ affectedEFlags(i) = Flags
         /\ testCF(i, t, old) = Flag(t.args[1] < t.args[2])
         /\ testOF(i, t) = Flag(~FitsSigned(Signed(t.args[1]) - Signed(t.args[2])))
<1> USE DEF Shifts, Rotates, DoubleShifts, BitTests, Logic
<1>1. raiseInst(i, cf) = raiseSub(i)
  BY DEF raiseInst
<1>2. affectedEFlags(i) = Flags
  BY DEF affectedEFlags
<1>3. testCF(i, t, old) = Flag(t.args[1] < t.args[2])
  BY DEF testCF
<1>4. testOF(i, t) = Flag(~FitsSigned(Signed(t.args[1]) - Signed(t.args[2])))
  BY DEF testOF
<1> QED BY <1>1, <1>2, <1>3, <1>4

\* CMP and SUB leave the flags of their operands in the raised code.
LEMMA SubSetsFlags ==
  ASSUME NEW i \in Instructions, i.op \in {"CMP", "SUB"}, NEW F, NEW old, NEW cf
  PROVE  SubFlags(raiseFlags(i, raiseInst(i, cf), F, old), i.a, i.b)
<1> DEFINE t == raiseInst(i, cf)
<1>1. t = [args |-> <<i.a, i.b>>, val |-> Wrap(i.a - i.b)]
  <2>1. raiseInst(i, cf) = raiseSub(i)
    BY SubRaised
  <2> QED BY <2>1 DEF raiseSub, Raised
<1>2. affectedEFlags(i) = Flags
  BY SubRaised
<1>3. t.args[1] = i.a /\ t.args[2] = i.b /\ t.val = Wrap(i.a - i.b)
  BY <1>1
<1>4. t.val # Poison
  BY <1>3, ComparedWords, WordRange DEF Wrap, Poison
<1> HIDE DEF t
<1>5. /\ testZF(t) = Flag(t.val = 0)
      /\ testSF(t) = Flag(HighBit(t.val))
  BY <1>4 DEF testZF, testSF, IfDefined
<1>6. /\ testCF(i, t, old) = Flag(t.args[1] < t.args[2])
      /\ testOF(i, t) = Flag(~FitsSigned(Signed(t.args[1]) - Signed(t.args[2])))
  BY SubRaised
<1>7. \A f \in Flags :
        raiseFlags(i, t, F, old)[f] = testAndSetEflagSSAValue(f, i, t, old)
  BY <1>2 DEF raiseFlags
<1> QED BY <1>3, <1>5, <1>6, <1>7 DEF SubFlags, testAndSetEflagSSAValue, Flags, t

\* After CMP and SUB, the flags of the raised code are those of the difference of the
\* operands.
THEOREM ComparedInvariant == Spec => []ComparedInv
<1>1. Init => ComparedInv
  BY DEF Init, ComparedInv, NotWatched
<1>2. ComparedInv /\ [Next]_eflagsVars => ComparedInv'
  <2> SUFFICES ASSUME ComparedInv, [Next]_eflagsVars, last'.op \in {"CMP", "SUB"}
               PROVE  /\ last'.a \in Values /\ last'.b \in Values
                      /\ SubFlags(rflags', last'.a, last'.b)
    BY DEF ComparedInv
  <2>1. CASE NextBlock
    BY <2>1 DEF NextBlock, ComparedInv
  <2>2. ASSUME NEW i \in Instructions, Step(i)
        PROVE  /\ last'.a \in Values /\ last'.b \in Values
               /\ SubFlags(rflags', last'.a, last'.b)
    <3>1. /\ i.op \in {"CMP", "SUB"}
          /\ last'.a = i.a /\ last'.b = i.b
      BY <2>2 DEF Step, Watched, NotWatched
    <3>2. rflags' = raiseFlags(i, raiseInst(i, rflags["CF"]), rflags,
                               IF local THEN rflags["CF"] ELSE 0)
      BY <2>2 DEF Step
    <3> QED BY <3>1, <3>2, ComparedWords, SubSetsFlags
  <2>3. CASE UNCHANGED eflagsVars
    BY <2>3 DEF eflagsVars, ComparedInv
  <2> QED BY <2>1, <2>2, <2>3 DEF Next
<1> QED BY <1>1, <1>2, PTL DEF Spec

\* After a comparison the conditions of the raised branches, sets and moves order its
\* operands, whatever the width.
THEOREM ComparisonsAlwaysDecide == Spec => []ComparisonsDecide
<1>1. ComparedInv => ComparisonsDecide
  BY FlagsDecide DEF ComparedInv, ComparisonsDecide
<1> QED BY <1>1, ComparedInvariant, PTL

-----------------------------------------------------------------------------
(* Flags: the instructions. *)

Forms == Binary \cup Unary \cup Counted \cup Double \cup {<<"UCOMIS", "rr">>}

\* The fields of an instruction are in the sets it is made from.
LEMMA InstsMembers ==
  ASSUME NEW forms, \A f \in forms : f = <<f[1], f[2]>>, NEW B, NEW C, NEW wides,
         NEW i \in Insts(forms, B, C, wides)
  PROVE  i.a \in Operands /\ i.b \in B /\ i.c \in C /\ i.wide \in wides /\ <<i.op, i.enc>> \in forms
<1>1. PICK f \in forms, a \in Operands, b \in B, c \in C, w \in wides :
        i = [op |-> f[1], enc |-> f[2], a |-> a, b |-> b, c |-> c, wide |-> w]
  BY DEF Insts
<1>2. f = <<f[1], f[2]>>
  OBVIOUS
<1>3. i.op = f[1] /\ i.enc = f[2] /\ i.a = a /\ i.b = b /\ i.c = c /\ i.wide = w
  BY <1>1
<1> QED
  BY <1>2, <1>3

\* The operands of an instruction.
LEMMA InstOperands ==
  ASSUME NEW i \in Instructions
  PROVE  /\ i.a \in Values /\ i.b \in Values /\ i.c \in Nat /\ i.wide \in BOOLEAN
         /\ <<i.op, i.enc>> \in Forms
         /\ <<i.op, i.enc>> \in Unary => i.b = 1
         /\ i.op = "UCOMIS" => i.c \in {0, 1}
         /\ i.enc = "r1" => i.c = 1
<1>1. ASSUME NEW f \in Forms PROVE f = <<f[1], f[2]>>
  BY DEF Forms, Binary, Unary, Counted, Double
<1>2. /\ Operands \in SUBSET Values /\ Counts \in SUBSET Nat
      /\ 0 \in Values /\ 1 \in Values /\ 0 \in Nat /\ 1 \in Nat /\ FALSE \in BOOLEAN
  <2>1. 2 * Width - 1 \in Int /\ 0 .. 2 * Width - 1 \in SUBSET Nat
    BY WordBounds
  <2>2. 0 \in Values /\ 1 \in Values
    BY WordBounds
  <2> QED
    BY <2>1, <2>2, OperandsAssumption
<1> DEFINE Good == /\ i.a \in Values /\ i.b \in Values /\ i.c \in Nat /\ i.wide \in BOOLEAN
                   /\ <<i.op, i.enc>> \in Forms
                   /\ <<i.op, i.enc>> \in Unary => i.b = 1
                   /\ i.op = "UCOMIS" => i.c \in {0, 1}
                   /\ i.enc = "r1" => i.c = 1
<1>3. CASE i \in Insts(Binary, Operands, {0}, {FALSE})
  <2>1. i.a \in Operands /\ i.b \in Operands /\ i.c = 0 /\ i.wide = FALSE /\ <<i.op, i.enc>> \in Binary
    <3>1. \A f \in Binary : f = <<f[1], f[2]>>
      BY <1>1 DEF Forms
    <3>2. i.a \in Operands /\ i.b \in Operands /\ i.c \in {0} /\ i.wide \in {FALSE} /\ <<i.op, i.enc>> \in Binary
      BY <1>3, <3>1, InstsMembers, Zenon
    <3> QED
      BY <3>2
  <2>2. <<i.op, i.enc>> \notin Unary /\ i.op # "UCOMIS" /\ i.enc # "r1"
    BY <2>1 DEF Binary, Unary, BitTests
  <2> QED
    BY <1>2, <2>1, <2>2 DEF Forms
<1>4. CASE i \in Insts(Unary, {1}, {0}, {FALSE})
  <2>1. i.a \in Operands /\ i.b = 1 /\ i.c = 0 /\ i.wide = FALSE /\ <<i.op, i.enc>> \in Unary
    <3>1. \A f \in Unary : f = <<f[1], f[2]>>
      BY <1>1 DEF Forms
    <3>2. i.a \in Operands /\ i.b \in {1} /\ i.c \in {0} /\ i.wide \in {FALSE} /\ <<i.op, i.enc>> \in Unary
      BY <1>4, <3>1, InstsMembers, Zenon
    <3> QED
      BY <3>2
  <2>2. i.op # "UCOMIS" /\ i.enc # "r1"
    BY <2>1 DEF Unary
  <2> QED
    BY <1>2, <2>1, <2>2 DEF Forms
<1>5. CASE i \in {j \in Insts(Counted, {0}, Counts, BOOLEAN) :
                    /\ j.wide => j.enc \in {"cl", "mcl"}
                    /\ j.enc = "r1" => j.c = 1}
  <2>1. /\ i.a \in Operands /\ i.b = 0 /\ i.c \in Counts /\ i.wide \in BOOLEAN
        /\ <<i.op, i.enc>> \in Counted /\ (i.enc = "r1" => i.c = 1)
    BY <1>1, <1>5, InstsMembers DEF Forms
  <2>2. <<i.op, i.enc>> \notin Unary /\ i.op # "UCOMIS"
    BY <2>1 DEF Unary, Counted, Shifts, Rotates
  <2> QED
    BY <1>2, <2>1, <2>2 DEF Forms
<1>6. CASE i \in Insts(Double, Operands, Counts, {FALSE})
  <2>1. i.a \in Operands /\ i.b \in Operands /\ i.c \in Counts /\ i.wide = FALSE /\ <<i.op, i.enc>> \in Double
    <3>1. \A f \in Double : f = <<f[1], f[2]>>
      BY <1>1 DEF Forms
    <3>2. i.a \in Operands /\ i.b \in Operands /\ i.c \in Counts /\ i.wide \in {FALSE} /\ <<i.op, i.enc>> \in Double
      BY <1>6, <3>1, InstsMembers, Zenon
    <3> QED
      BY <3>2
  <2>2. <<i.op, i.enc>> \notin Unary /\ i.op # "UCOMIS" /\ i.enc # "r1"
    BY <2>1 DEF Unary, Double, DoubleShifts
  <2> QED
    BY <1>2, <2>1, <2>2 DEF Forms
<1>7. CASE i \in Insts({<<"UCOMIS", "rr">>}, Operands, {0, 1}, {FALSE})
  <2>1. /\ i.a \in Operands /\ i.b \in Operands /\ i.c \in {0, 1} /\ i.wide = FALSE
        /\ <<i.op, i.enc>> \in {<<"UCOMIS", "rr">>}
    <3>1. \A f \in {<<"UCOMIS", "rr">>} : f = <<f[1], f[2]>>
      BY <1>1 DEF Forms
    <3>2. i.a \in Operands /\ i.b \in Operands /\ i.c \in {0, 1} /\ i.wide \in {FALSE} /\ <<i.op, i.enc>> \in {<<"UCOMIS", "rr">>}
      BY <1>7, <3>1, InstsMembers, Zenon
    <3> QED
      BY <3>2
  <2>2. <<i.op, i.enc>> \notin Unary /\ i.enc # "r1"
    BY <2>1 DEF Unary
  <2> QED
    BY <1>2, <2>1, <2>2 DEF Forms
<1> QED
  BY <1>3, <1>4, <1>5, <1>6, <1>7 DEF Instructions

\* Sums and differences of words wrap to words.
LEMMA WrappedWords ==
  ASSUME NEW a \in Values, NEW b \in Values
  PROVE  Wrap(a + b) \in Values /\ Wrap(a - b) \in Values /\ Wrap(0 - a) \in Values
  BY WordRange, SMTT(30) DEF Wrap

-----------------------------------------------------------------------------
(* One instruction. *)

RaisedWrites(i, t) == affectedEFlags(i) \cup DOMAIN setEflags(i, t)
OldCF(F, has) == IF has THEN F["CF"] ELSE 0

\* The raised instruction i follows the machine where it does not depart from it: its value,
\* the flags both write, and those that only the raised code writes.  mcf is the carry of
\* the machine, F are the raised flags.
Follows(i, mcf, F, reads, has) ==
  LET m == MachineValue(i, mcf)
      t == raiseInst(i, F["CF"])
      D == Departures(i, reads, has)
      G == raiseFlags(i, t, F, OldCF(F, has))
  IN
  /\ "value" \in D \/ t.val = m
  /\ \A f \in MachineWrites(i) \cap RaisedWrites(i, t) :
       f \in D \/ MachineFlag(f, i, mcf, m) \in {Undef, G[f]}
  /\ \A f \in (Flags \cap RaisedWrites(i, t)) \ MachineWrites(i) : f \in D \/ G[f] = F[f]

Start(i, mcf, F, reads, has) ==
  /\ i \in Instructions /\ mcf \in {0, 1} /\ has \in BOOLEAN
  /\ "CF" \in reads => F["CF"] = mcf

\* The tests of a value that is a word.
LEMMA WordTests ==
  ASSUME NEW t, NEW v \in Values, t.val = v
  PROVE  /\ testZF(t) = Flag(v = 0)
         /\ testSF(t) = Flag(HighBit(v))
         /\ testPF(t) = Flag(Parity(v))
<1>1. v # Poison
  BY WordBounds DEF Poison
<1> QED
  BY <1>1, ByteCount DEF testZF, testSF, testPF, IfDefined, Parity

\* The machine writes nothing but flags.
LEMMA MachineWritesFlags == ASSUME NEW i PROVE MachineWrites(i) \subseteq Flags
  BY DEF MachineWrites, Flags

\* An instruction that departs in everything.
LEMMA AllDepart ==
  ASSUME NEW i, NEW mcf, NEW F, NEW reads, NEW has,
         Flags \cup {"value"} \subseteq Departures(i, reads, has)
  PROVE  Follows(i, mcf, F, reads, has)
  BY MachineWritesFlags DEF Follows

\* An instruction whose flags are all tested.
LEMMA TestsFollow ==
  ASSUME NEW i, NEW mcf, NEW F, NEW reads, NEW has, NEW t, NEW m, NEW old,
         t = raiseInst(i, F["CF"]), m = MachineValue(i, mcf), old = OldCF(F, has),
         t.val = m, setEflags(i, t) = <<>>, affectedEFlags(i) \subseteq MachineWrites(i),
         \A f \in affectedEFlags(i) :
           f \in Departures(i, reads, has)
             \/ testAndSetEflagSSAValue(f, i, t, old) = MachineFlag(f, i, mcf, m)
  PROVE  Follows(i, mcf, F, reads, has)
<1>1. RaisedWrites(i, t) = affectedEFlags(i)
  BY DEF RaisedWrites
<1>2. \A f \in affectedEFlags(i) :
        raiseFlags(i, t, F, old)[f] = testAndSetEflagSSAValue(f, i, t, old)
  BY MachineWritesFlags DEF raiseFlags
<1> QED
  BY <1>1, <1>2 DEF Follows

\* Zero, sign and parity of a result that is a word.
LEMMA ResultTests ==
  ASSUME NEW i, i.op \notin {"UCOMIS", "MUL", "IMUL", "POPCNT"} \cup BitTests,
         NEW mcf, NEW old, NEW t, NEW v \in Values, t.val = v, NEW f \in {"ZF", "SF", "PF"}
  PROVE  testAndSetEflagSSAValue(f, i, t, old) = MachineFlag(f, i, mcf, v)
  BY WordTests DEF testAndSetEflagSSAValue, MachineFlag, ResultFlag

\* The carry and the overflow are flags of their own kind.
LEMMA CarryAndOverflow ==
  ASSUME NEW i, NEW mcf, NEW v
  PROVE  /\ MachineFlag("CF", i, mcf, v) = Carry(i, mcf, v)
         /\ MachineFlag("OF", i, mcf, v) = Overflow(i, mcf, v)
  BY DEF MachineFlag

\* CMP and SUB.
LEMMA SubFollows ==
  ASSUME NEW i, NEW mcf, NEW F, NEW reads, NEW has, Start(i, mcf, F, reads, has),
         i.op \in {"CMP", "SUB"}
  PROVE  Follows(i, mcf, F, reads, has)
<1> DEFINE t == raiseInst(i, F["CF"])
           m == MachineValue(i, mcf)
           old == OldCF(F, has)
           v == Wrap(i.a - i.b)
<1>0. i.a \in Values /\ i.b \in Values /\ <<i.op, i.enc>> \in Forms
  BY InstOperands DEF Start
<1> USE DEF Shifts, Rotates, DoubleShifts, BitTests, Logic
<1>1. t = [args |-> <<i.a, i.b>>, val |-> v] /\ m = v
  BY DEF raiseInst, raiseSub, Raised, MachineValue
<1>2. v \in Values
  BY <1>0, WrappedWords
<1>3. t.val = v /\ t.args[1] = i.a /\ t.args[2] = i.b
  BY <1>1
<1>4. affectedEFlags(i) = Flags /\ MachineWrites(i) = Flags
  BY DEF affectedEFlags, MachineWrites
<1>5. setEflags(i, t) = <<>>
  BY <1>0 DEF setEflags, Forms, Binary, Unary, Counted, Double
<1> HIDE DEF t, m, v, old
<1>6. testOF(i, t) = MachineFlag("OF", i, mcf, v)
  BY <1>0, <1>3, SignedRange DEF testOF, MachineFlag, Overflow
<1>7. testCF(i, t, old) = MachineFlag("CF", i, mcf, v)
  BY <1>0, <1>3, WordBounds DEF testCF, MachineFlag, Carry
<1>8. \A f \in Flags : testAndSetEflagSSAValue(f, i, t, old) = MachineFlag(f, i, mcf, v)
  <2>1. \A f \in {"ZF", "SF", "PF"} :
          testAndSetEflagSSAValue(f, i, t, old) = MachineFlag(f, i, mcf, v)
    BY <1>2, <1>3, ResultTests
  <2> QED
    BY <1>6, <1>7, <2>1 DEF testAndSetEflagSSAValue, Flags
<1> QED
  BY <1>1, <1>3, <1>4, <1>5, <1>8, TestsFollow DEF t, m, old

\* ADD.
LEMMA AddFollows ==
  ASSUME NEW i, NEW mcf, NEW F, NEW reads, NEW has, Start(i, mcf, F, reads, has),
         i.op = "ADD"
  PROVE  Follows(i, mcf, F, reads, has)
<1> DEFINE t == raiseInst(i, F["CF"])
           m == MachineValue(i, mcf)
           old == OldCF(F, has)
           v == Wrap(i.a + i.b)
<1>0. i.a \in Values /\ i.b \in Values /\ i.enc \in {"rr", "ri", "rm", "m"}
  BY InstOperands DEF Start, Forms, Binary, Unary, Counted, Double, Shifts, Rotates, DoubleShifts,
    BitTests
<1> USE DEF Shifts, Rotates, DoubleShifts, BitTests, Logic
<1>1. CASE i.enc = "rr" /\ ~FitsSigned(Signed(i.a) + Signed(i.b))
  <2>1. Flags \cup {"value"} \subseteq Departures(i, reads, has)
    BY <1>1 DEF Departures, Flags
  <2> QED
    BY <2>1, AllDepart
<1>2. CASE ~(i.enc = "rr" /\ ~FitsSigned(Signed(i.a) + Signed(i.b)))
  <2>1. t = [args |-> <<i.a, i.b>>, val |-> v] /\ m = v
    BY <1>2 DEF raiseInst, raiseAdd, Raised, MachineValue, NoSignedWrap
  <2>2. v \in Values
    BY <1>0, WrappedWords
  <2>3. t.val = v /\ t.args[1] = i.a /\ t.args[2] = i.b
    BY <2>1
  <2>4. affectedEFlags(i) \subseteq Flags /\ MachineWrites(i) = Flags
    BY <1>0 DEF affectedEFlags, affectedRegToReg, affectedImmToReg, affectedMemToReg,
      affectedInplace, MachineWrites, Flags
  <2>5. setEflags(i, t) = <<>>
    BY <1>0 DEF setEflags
  <2> HIDE DEF t, m, v, old
  <2>6. testOF(i, t) = MachineFlag("OF", i, mcf, v)
    BY <2>3 DEF testOF, MachineFlag, Overflow
  <2>7. testCF(i, t, old) = MachineFlag("CF", i, mcf, v)
    BY <2>3 DEF testCF, MachineFlag, Carry
  <2>8. \A f \in Flags : testAndSetEflagSSAValue(f, i, t, old) = MachineFlag(f, i, mcf, v)
    <3>1. \A f \in {"ZF", "SF", "PF"} :
            testAndSetEflagSSAValue(f, i, t, old) = MachineFlag(f, i, mcf, v)
      BY <2>2, <2>3, ResultTests
    <3> QED
      BY <2>6, <2>7, <3>1 DEF testAndSetEflagSSAValue, Flags
  <2> QED
    BY <2>1, <2>3, <2>4, <2>5, <2>8, TestsFollow DEF t, m, old
<1> QED
  BY <1>1, <1>2

\* INC and DEC, which leave the carry alone.
LEMMA IncDecFollows ==
  ASSUME NEW i, NEW mcf, NEW F, NEW reads, NEW has, Start(i, mcf, F, reads, has),
         i.op \in {"INC", "DEC"}
  PROVE  Follows(i, mcf, F, reads, has)
<1> DEFINE t == raiseInst(i, F["CF"])
           m == MachineValue(i, mcf)
           old == OldCF(F, has)
<1>0. i.a \in Values /\ 1 \in Values /\ i.b = 1 /\ i.enc \in {"r", "m"}
  <2>1. i.a \in Values /\ i.b \in Values /\ <<i.op, i.enc>> \in Forms
        /\ (<<i.op, i.enc>> \in Unary => i.b = 1)
    BY InstOperands DEF Start
  <2>2. <<i.op, i.enc>> \in Unary /\ i.enc \in {"r", "m"}
    BY <2>1 DEF Forms, Binary, Unary, Counted, Double, Shifts, Rotates, DoubleShifts, BitTests
  <2> QED
    BY <2>1, <2>2
<1> USE DEF Shifts, Rotates, DoubleShifts, BitTests, Logic
<1>1. PICK v \in Values : t = [args |-> <<i.a, i.b>>, val |-> v] /\ m = v
  <2>1. CASE i.op = "INC"
    <3>1. t = [args |-> <<i.a, i.b>>, val |-> Wrap(i.a + i.b)] /\ m = Wrap(i.a + 1)
      BY <2>1 DEF raiseInst, raiseAdd, Raised, MachineValue
    <3> QED
      BY <1>0, <3>1, WrappedWords
  <2>2. CASE i.op = "DEC"
    <3>1. t = [args |-> <<i.a, i.b>>, val |-> Wrap(i.a - i.b)] /\ m = Wrap(i.a - 1)
      BY <2>2 DEF raiseInst, raiseDec, Raised, MachineValue
    <3> QED
      BY <1>0, <3>1, WrappedWords
  <2> QED
    BY <2>1, <2>2
<1>2. t.val = v
  BY <1>1
<1>3. affectedEFlags(i) \subseteq {"ZF", "SF", "PF"} /\ {"ZF", "SF", "PF"} \subseteq MachineWrites(i)
  BY <1>0 DEF affectedEFlags, affectedRegToReg, affectedImmToReg, affectedMemToReg,
    affectedInplace, MachineWrites, Flags
<1>4. setEflags(i, t) = <<>>
  BY <1>0 DEF setEflags
<1> HIDE DEF t, m, old
<1>5. \A f \in {"ZF", "SF", "PF"} :
        testAndSetEflagSSAValue(f, i, t, old) = MachineFlag(f, i, mcf, v)
  BY <1>2, ResultTests
<1> QED
  BY <1>1, <1>2, <1>3, <1>4, <1>5, TestsFollow DEF t, m, old

\* The sum of the carry and the second operand wraps or changes sign for one operand each.
LEMMA BorrowedFirst ==
  ASSUME NEW a \in Values, NEW b \in Values, NEW c \in {0, 1}
  PROVE  /\ Wrap(b + c) \in Values
         /\ Wrap(a - Wrap(b + c)) = (a - b - c) % Modulus
         /\ b # Modulus - 1 => (a < Wrap(b + c) <=> a < b + c)
         /\ b # Half - 1 => Signed(Wrap(b + c)) = Signed(b) + c
<1>1. PICK w \in Values : w = Wrap(b + c) /\ (w = b + c \/ (w = 0 /\ b = Modulus - 1 /\ c = 1))
  <2>1. Half \in Nat /\ Half >= 2 /\ Modulus = 2 * Half /\ b \in Nat /\ b <= Modulus - 1
    BY WordRange
  <2>2. CASE b + c < Modulus
    <3>1. Wrap(b + c) = b + c
      BY <2>1, <2>2 DEF Wrap
    <3>2. b + c \in Values
      BY <2>1, <2>2, WordRange
    <3> QED
      BY <3>1, <3>2
  <2>3. CASE ~(b + c < Modulus)
    <3>1. b = Modulus - 1 /\ c = 1
      BY <2>1, <2>3
    <3>2. Wrap(b + c) = 0 /\ 0 \in Values
      BY <2>1, <3>1, WordRange DEF Wrap
    <3> QED
      BY <3>1, <3>2
  <2> QED
    BY <2>2, <2>3
<1>2. Wrap(a - w) \in Values
  BY <1>1, WrappedWords
<1>3. PICK k \in Int : a - b - c = Modulus * k + Wrap(a - w)
  <2>1. PICK j \in {0, 1} : a - w = Wrap(a - w) - Modulus * j
    <3>1. a - w \in Int /\ a - w < Modulus /\ Modulus \in Nat
      BY WordRange
    <3>2. CASE a - w < 0
      <4>1. Wrap(a - w) = a - w + Modulus
        BY <3>2 DEF Wrap
      <4> QED
        BY <3>1, <4>1
    <3>3. CASE ~(a - w < 0)
      <4>1. Wrap(a - w) = a - w
        BY <3>1, <3>3 DEF Wrap
      <4> QED
        BY <3>1, <4>1
    <3> QED
      BY <3>2, <3>3
  <2>2. PICK l \in {0, 1} : b + c = w + Modulus * l
    <3>1. b + c = w + Modulus * 0 \/ b + c = w + Modulus * 1
      BY <1>1, WordRange
    <3> QED
      BY <3>1
  <2>3. a - b - c = Modulus * (-(j + l)) + Wrap(a - w)
    <3>1. Modulus \in Nat /\ Wrap(a - w) \in Int /\ a \in Int /\ b \in Int /\ c \in Int /\ w \in Int
      BY <1>2, WordRange
    <3>2. Modulus * (-(j + l)) = -(Modulus * j) - Modulus * l
      BY <3>1
    <3>3. Modulus * j \in Int /\ Modulus * l \in Int
      BY <3>1
    <3> QED
      BY <2>1, <2>2, <3>1, <3>2, <3>3
  <2>4. -(j + l) \in Int
    OBVIOUS
  <2> QED
    BY <2>3, <2>4
<1>4. (a - b - c) % Modulus = Wrap(a - w)
  <2>1. /\ a - b - c \in Int /\ Modulus \in Nat \ {0} /\ Wrap(a - w) \in Int
        /\ 0 <= Wrap(a - w) /\ Wrap(a - w) < Modulus
    BY <1>2, WordRange
  <2> QED
    BY <1>3, <2>1, DivUnique
<1>5. b # Modulus - 1 => (a < w <=> a < b + c)
  BY <1>1
<1>6. ASSUME b # Half - 1 PROVE Signed(w) = Signed(b) + c
  BY <1>1, <1>6, WordRange DEF Signed, HighBit
<1> QED
  BY <1>1, <1>4, <1>5, <1>6

\* SBB, which subtracts the carry that the raised code tracks.
LEMMA SbbFollows ==
  ASSUME NEW i, NEW mcf, NEW F, NEW reads, NEW has, Start(i, mcf, F, reads, has),
         i.op = "SBB"
  PROVE  Follows(i, mcf, F, reads, has)
<1> DEFINE t == raiseInst(i, F["CF"])
           m == MachineValue(i, mcf)
           old == OldCF(F, has)
           w == Wrap(i.b + mcf)
           D == Departures(i, reads, has)
<1>0. i.a \in Values /\ i.b \in Values /\ i.enc \in {"rr", "rm"} /\ mcf \in {0, 1}
  BY InstOperands DEF Start, Forms, Binary, Unary, Counted, Double, Shifts, Rotates, DoubleShifts,
    BitTests
<1> USE DEF Shifts, Rotates, DoubleShifts, BitTests, Logic
<1>1. CASE "CF" \notin reads
  <2>1. Flags \cup {"value"} \subseteq Departures(i, reads, has)
    BY <1>1 DEF Departures, Flags
  <2> QED
    BY <2>1, AllDepart
<1>2. CASE "CF" \in reads
  <2>1. F["CF"] = mcf /\ mcf # Maybe
    BY <1>0, <1>2 DEF Start, Maybe
  <2>2. t = [args |-> <<i.a, w>>, val |-> Wrap(i.a - w)] /\ m = (i.a - i.b - mcf) % Modulus
    BY <2>1 DEF raiseInst, raiseSbb, Raised, MachineValue
  <2>3. t.val = m /\ t.args[1] = i.a /\ t.args[2] = w
    <3>1. t.val = Wrap(i.a - w) /\ t.args[1] = i.a /\ t.args[2] = w
      BY <2>2
    <3>2. Wrap(i.a - w) = (i.a - i.b - mcf) % Modulus
      BY <1>0, BorrowedFirst
    <3> QED
      BY <2>2, <3>1, <3>2
  <2>4. affectedEFlags(i) = {"OF", "CF"} /\ MachineWrites(i) = Flags
    BY <1>0 DEF affectedEFlags, affectedRegToReg, affectedMemToReg, MachineWrites
  <2>5. setEflags(i, t) = <<>>
    BY <1>0 DEF setEflags
  <2>6. i.b = Modulus - 1 => "CF" \in D
    BY DEF Departures
  <2>7. i.b = Half - 1 => "OF" \in D
    BY DEF Departures
  <2> HIDE DEF t, m, old, w, D
  <2>8. "CF" \in D \/ testCF(i, t, old) = MachineFlag("CF", i, mcf, m)
    <3>1. i.b # Modulus - 1 => (i.a < w <=> i.a < i.b + mcf)
      BY <1>0, BorrowedFirst DEF w
    <3>2. testCF(i, t, old) = Flag(i.a < w)
      BY <2>3 DEF testCF
    <3>3. MachineFlag("CF", i, mcf, m) = Flag(i.a < i.b + mcf)
      BY DEF MachineFlag, Carry
    <3> QED
      BY <2>6, <3>1, <3>2, <3>3 DEF Flag
  <2>9. "OF" \in D \/ testOF(i, t) = MachineFlag("OF", i, mcf, m)
    <3>1. i.b # Half - 1 => Signed(w) = Signed(i.b) + mcf
      BY <1>0, BorrowedFirst DEF w
    <3>2. testOF(i, t) = Flag(~FitsSigned(Signed(i.a) - Signed(w)))
      BY <2>3 DEF testOF
    <3>3. MachineFlag("OF", i, mcf, m) = Flag(~FitsSigned(Signed(i.a) - Signed(i.b) - mcf))
      BY DEF MachineFlag, Overflow
    <3>4. Signed(i.a) \in Int /\ Signed(i.b) \in Int
      BY <1>0, SignedRange, WordRange
    <3>5. ASSUME i.b # Half - 1
          PROVE  Signed(i.a) - Signed(w) = Signed(i.a) - Signed(i.b) - mcf
      BY <1>0, <3>1, <3>4, <3>5
    <3> QED
      BY <2>7, <3>2, <3>3, <3>5
  <2>10. \A f \in {"OF", "CF"} :
           f \in D \/ testAndSetEflagSSAValue(f, i, t, old) = MachineFlag(f, i, mcf, m)
    BY <2>8, <2>9 DEF testAndSetEflagSSAValue
  <2>11. affectedEFlags(i) \subseteq MachineWrites(i)
    BY <2>4 DEF Flags
  <2> QED
    BY <2>3, <2>4, <2>5, <2>10, <2>11, TestsFollow DEF t, m, old, D
<1> QED
  BY <1>1, <1>2

\* NEG.
LEMMA NegFollows ==
  ASSUME NEW i, NEW mcf, NEW F, NEW reads, NEW has, Start(i, mcf, F, reads, has),
         i.op = "NEG"
  PROVE  Follows(i, mcf, F, reads, has)
<1> DEFINE t == raiseInst(i, F["CF"])
           m == MachineValue(i, mcf)
           old == OldCF(F, has)
           v == Wrap(0 - i.a)
           D == Departures(i, reads, has)
<1>0. i.a \in Values /\ i.enc = "r"
  BY InstOperands DEF Start, Forms, Binary, Unary, Counted, Double, Shifts, Rotates, DoubleShifts,
    BitTests
<1> USE DEF Shifts, Rotates, DoubleShifts, BitTests, Logic
<1>1. t = [args |-> <<0, i.a>>, val |-> v] /\ m = v
  BY DEF raiseInst, raiseNeg, Raised, MachineValue
<1>2. v \in Values
  BY <1>0, WrappedWords
<1>3. t.val = v /\ t.args[1] = 0 /\ t.args[2] = i.a
  BY <1>1
<1>4. affectedEFlags(i) = {"CF", "ZF", "SF", "PF"} /\ MachineWrites(i) = Flags
  BY <1>0 DEF affectedEFlags, affectedRegToReg, MachineWrites
<1>5. setEflags(i, t) = <<>>
  BY <1>0 DEF setEflags
<1>6. i.a # 0 => "CF" \in D
  BY DEF Departures
<1> HIDE DEF t, m, v, old, D
<1>7. "CF" \in D \/ testCF(i, t, old) = MachineFlag("CF", i, mcf, m)
  BY <1>3, <1>6 DEF testCF, MachineFlag, Carry
<1>8. \A f \in {"ZF", "SF", "PF"} :
        testAndSetEflagSSAValue(f, i, t, old) = MachineFlag(f, i, mcf, v)
  BY <1>2, <1>3, ResultTests
<1>9. \A f \in affectedEFlags(i) :
        f \in D \/ testAndSetEflagSSAValue(f, i, t, old) = MachineFlag(f, i, mcf, m)
  <2>1. testAndSetEflagSSAValue("CF", i, t, old) = testCF(i, t, old)
    BY DEF testAndSetEflagSSAValue
  <2> QED
    BY <1>1, <1>4, <1>7, <1>8, <2>1
<1>10. affectedEFlags(i) \subseteq MachineWrites(i)
  BY <1>4 DEF Flags
<1> QED
  BY <1>1, <1>3, <1>5, <1>9, <1>10, TestsFollow DEF t, m, old, D

\* NOT, which changes no flag.
LEMMA NotFollows ==
  ASSUME NEW i, NEW mcf, NEW F, NEW reads, NEW has, Start(i, mcf, F, reads, has),
         i.op = "NOT"
  PROVE  Follows(i, mcf, F, reads, has)
<1> DEFINE t == raiseInst(i, F["CF"])
           m == MachineValue(i, mcf)
           old == OldCF(F, has)
<1>0. i.a \in Values /\ i.enc \in {"r", "m"}
  BY InstOperands DEF Start, Forms, Binary, Unary, Counted, Double, Shifts, Rotates, DoubleShifts,
    BitTests
<1> USE DEF Shifts, Rotates, DoubleShifts, BitTests, Logic
<1>1. t.val = BitXor(i.a, Modulus - 1) /\ m = Modulus - 1 - i.a
  BY DEF raiseInst, raiseNot, Raised, MachineValue
<1>2. t.val = m
  BY <1>0, <1>1, XorOnes
<1>3. affectedEFlags(i) = {}
  BY <1>0 DEF affectedEFlags, affectedRegToReg, affectedInplace
<1>4. setEflags(i, t) = <<>>
  BY <1>0 DEF setEflags
<1> HIDE DEF t, m, old
<1> QED
  BY <1>2, <1>3, <1>4, TestsFollow DEF t, m, old

\* AND, OR, XOR and TEST.
LEMMA LogicFollows ==
  ASSUME NEW i, NEW mcf, NEW F, NEW reads, NEW has, Start(i, mcf, F, reads, has),
         i.op \in Logic
  PROVE  Follows(i, mcf, F, reads, has)
<1> DEFINE t == raiseInst(i, F["CF"])
           m == MachineValue(i, mcf)
           old == OldCF(F, has)
           G == raiseFlags(i, t, F, old)
<1>0. \/ i.op \in {"AND", "OR", "XOR"} /\ i.enc \in {"rr", "ri", "rm", "m"}
      \/ i.op = "TEST" /\ i.enc \in {"rm", "rr", "ri"}
  BY InstOperands DEF Start, Forms, Binary, Unary, Counted, Double, Shifts, Rotates, DoubleShifts,
    BitTests, Logic
<1> USE DEF Shifts, Rotates, DoubleShifts, BitTests, Logic
<1>1. PICK v \in Values : t.val = v /\ m = v
  BY <1>0, BitOperations DEF raiseInst, raiseLogic, Raised, MachineValue
<1>2. MachineWrites(i) = Flags
  BY DEF MachineWrites
<1>3. CASE <<i.op, i.enc>> = <<"TEST", "rm">>
  <2>1. affectedEFlags(i) \subseteq MachineWrites(i)
    BY <1>2, <1>3 DEF affectedEFlags
  <2>2. setEflags(i, t) = <<>>
    BY <1>3 DEF setEflags
  <2>3. testOF(i, t) = MachineFlag("OF", i, mcf, v)
    BY <1>3 DEF testOF, MachineFlag, Overflow
  <2>4. testCF(i, t, old) = MachineFlag("CF", i, mcf, v)
    BY <1>3 DEF testCF, MachineFlag, Carry
  <2> HIDE DEF t, m, old
  <2>5. \A f \in {"ZF", "SF", "PF"} :
          testAndSetEflagSSAValue(f, i, t, old) = MachineFlag(f, i, mcf, v)
    BY <1>1, ResultTests
  <2>6. \A f \in Flags : testAndSetEflagSSAValue(f, i, t, old) = MachineFlag(f, i, mcf, v)
    BY <2>3, <2>4, <2>5 DEF testAndSetEflagSSAValue, Flags
  <2> QED
    BY <1>1, <1>2, <2>1, <2>2, <2>6, TestsFollow DEF t, m, old
<1>4. CASE <<i.op, i.enc>> # <<"TEST", "rm">>
  <2>1. affectedEFlags(i) \subseteq {"ZF", "SF", "PF"}
    BY <1>0, <1>4 DEF affectedEFlags, affectedRegToReg, affectedImmToReg, affectedMemToReg,
      affectedInplace
  <2>2. setEflags(i, t) \in {<<>>, logicFlags}
    BY <1>0, <1>4 DEF setEflags
  <2>3. MachineFlag("OF", i, mcf, v) = 0 /\ MachineFlag("CF", i, mcf, v) = 0
    BY DEF MachineFlag, Overflow, Carry
  <2> HIDE DEF t, m, old
  <2>4. \A f \in {"ZF", "SF", "PF"} :
          testAndSetEflagSSAValue(f, i, t, old) = MachineFlag(f, i, mcf, v)
    BY <1>1, ResultTests
  <2>5. CASE setEflags(i, t) = <<>>
    <3>1. affectedEFlags(i) \subseteq MachineWrites(i)
      BY <1>2, <2>1 DEF Flags
    <3> QED
      BY <1>1, <2>1, <2>4, <2>5, <3>1, TestsFollow DEF t, m, old
  <2>6. CASE setEflags(i, t) = logicFlags
    <3>1. /\ DOMAIN setEflags(i, t) = {"OF", "CF"}
          /\ setEflags(i, t)["OF"] = 0 /\ setEflags(i, t)["CF"] = 0
      BY <2>6 DEF logicFlags, Both
    <3>2. \A f \in RaisedWrites(i, t) : G[f] = MachineFlag(f, i, mcf, v)
      BY <2>1, <2>3, <2>4, <3>1 DEF RaisedWrites, raiseFlags, Flags
    <3> HIDE DEF G
    <3> QED
      BY <1>1, <1>2, <3>2 DEF Follows, t, m, old, G
  <2> QED
    BY <2>2, <2>5, <2>6
<1> QED
  BY <1>3, <1>4

\* POPCNT.
LEMMA PopcntFollows ==
  ASSUME NEW i, NEW mcf, NEW F, NEW reads, NEW has, Start(i, mcf, F, reads, has),
         i.op = "POPCNT"
  PROVE  Follows(i, mcf, F, reads, has)
<1> DEFINE t == raiseInst(i, F["CF"])
           m == MachineValue(i, mcf)
           old == OldCF(F, has)
           G == raiseFlags(i, t, F, old)
<1>0. i.enc = "r"
  BY InstOperands DEF Start, Forms, Binary, Unary, Counted, Double, Shifts, Rotates, DoubleShifts,
    BitTests
<1> USE DEF Shifts, Rotates, DoubleShifts, BitTests, Logic
<1>1. t.val = m
  BY DEF raiseInst, raisePopcnt, Raised, MachineValue
<1>2. affectedEFlags(i) = {} /\ MachineWrites(i) = Flags
  BY <1>0 DEF affectedEFlags, affectedRegToReg, MachineWrites
<1>3. setEflags(i, t) = popcntFlags(i)
  BY <1>0 DEF setEflags
<1> HIDE DEF t, m, old
<1>4. \A f \in Flags : MachineFlag(f, i, mcf, m) = Flag(f = "ZF" /\ i.a = 0)
  <2>1. Carry(i, mcf, m) = 0 /\ Overflow(i, mcf, m) = 0
    BY DEF Carry, Overflow
  <2>2. \A f \in {"ZF", "SF", "PF"} : MachineFlag(f, i, mcf, m) = Flag(f = "ZF" /\ i.a = 0)
    BY DEF MachineFlag, ResultFlag
  <2>3. MachineFlag("OF", i, mcf, m) = 0 /\ MachineFlag("CF", i, mcf, m) = 0
    BY <2>1, CarryAndOverflow
  <2> QED
    BY <2>2, <2>3 DEF Flags, Flag
<1>5. \A f \in Flags : G[f] = MachineFlag(f, i, mcf, m)
  BY <1>2, <1>3, <1>4 DEF raiseFlags, popcntFlags
<1> HIDE DEF G
<1> QED
  BY <1>1, <1>2, <1>5 DEF Follows, t, m, old, G

\* UCOMIS.
LEMMA UcomisFollows ==
  ASSUME NEW i, NEW mcf, NEW F, NEW reads, NEW has, Start(i, mcf, F, reads, has),
         i.op = "UCOMIS"
  PROVE  Follows(i, mcf, F, reads, has)
<1> DEFINE t == raiseInst(i, F["CF"])
           m == MachineValue(i, mcf)
           old == OldCF(F, has)
           G == raiseFlags(i, t, F, old)
<1>0. i.enc = "rr" /\ i.c \in {0, 1}
  BY InstOperands DEF Start, Forms, Binary, Unary, Counted, Double, Shifts, Rotates, DoubleShifts,
    BitTests
<1> USE DEF Shifts, Rotates, DoubleShifts, BitTests, Logic
<1>1. t.val = m
  BY DEF raiseInst, raiseUcomis, Raised, MachineValue
<1>2. affectedEFlags(i) = {} /\ MachineWrites(i) = Flags
  BY <1>0 DEF affectedEFlags, MachineWrites
<1>3. setEflags(i, t) = ucomisFlags(i)
  BY <1>0 DEF setEflags
<1> HIDE DEF t, m, old
<1>4. \A f \in Flags : MachineFlag(f, i, mcf, m) = ucomisFlags(i)[f]
  <2>1. Carry(i, mcf, m) = Flag(i.c = 1 \/ i.a < i.b) /\ Overflow(i, mcf, m) = 0
    BY DEF Carry, Overflow
  <2>2. \A f \in {"ZF", "SF", "PF"} :
          MachineFlag(f, i, mcf, m) = Flag(f # "SF" /\ (i.c = 1 \/ (f = "ZF" /\ i.a = i.b)))
    BY DEF MachineFlag, ResultFlag
  <2>3. MachineFlag("OF", i, mcf, m) = 0
        /\ MachineFlag("CF", i, mcf, m) = Flag(i.c = 1 \/ i.a < i.b)
    BY <2>1, CarryAndOverflow
  <2>4. ucomisFlags(i)["OF"] = 0 /\ ucomisFlags(i)["SF"] = 0
        /\ ucomisFlags(i)["CF"] = Flag(i.c = 1 \/ i.a < i.b)
        /\ ucomisFlags(i)["ZF"] = Flag(i.c = 1 \/ i.a = i.b) /\ ucomisFlags(i)["PF"] = i.c
    BY DEF ucomisFlags, Flags
  <2>5. /\ MachineFlag("SF", i, mcf, m) = 0
        /\ MachineFlag("ZF", i, mcf, m) = Flag(i.c = 1 \/ i.a = i.b)
        /\ MachineFlag("PF", i, mcf, m) = i.c
    BY <1>0, <2>2 DEF Flag
  <2> QED
    BY <2>3, <2>4, <2>5 DEF Flags
<1>5. \A f \in Flags : G[f] = MachineFlag(f, i, mcf, m)
  BY <1>2, <1>3, <1>4 DEF raiseFlags, ucomisFlags
<1> HIDE DEF G
<1> QED
  BY <1>1, <1>2, <1>5 DEF Follows, t, m, old, G

\* BT and its kin.
LEMMA BitTestFollows ==
  ASSUME NEW i, NEW mcf, NEW F, NEW reads, NEW has, Start(i, mcf, F, reads, has),
         i.op \in BitTests
  PROVE  Follows(i, mcf, F, reads, has)
<1> DEFINE t == raiseInst(i, F["CF"])
           m == MachineValue(i, mcf)
           old == OldCF(F, has)
           G == raiseFlags(i, t, F, old)
           k == i.b % Width
<1>0. i.enc = "ri" /\ i.b \in Values
  BY InstOperands DEF Start, Forms, Binary, Unary, Counted, Double, Shifts, Rotates, DoubleShifts,
    BitTests
<1> USE DEF Shifts, Rotates, DoubleShifts, BitTests, Logic
<1>1. k \in Bits
  BY <1>0, WordBounds
<1>2. t.val = m /\ t.args[1] = i.a /\ t.args[2] = TwoTo[k]
  <2>1. /\ BitOr(i.a, TwoTo[k]) = WordOf(BitsOf(i.a) \cup {k})
        /\ BitAnd(i.a, Modulus - 1 - TwoTo[k]) = WordOf(BitsOf(i.a) \ {k})
        /\ BitXor(i.a, TwoTo[k])
             = WordOf(IF k \in BitsOf(i.a) THEN BitsOf(i.a) \ {k} ELSE BitsOf(i.a) \cup {k})
    BY <1>1, MaskOperations
  <2> QED
    BY <2>1 DEF raiseInst, raiseBitTest, Raised, MachineValue
<1>3. affectedEFlags(i) = {} /\ MachineWrites(i) = Flags \ {"ZF"}
  BY <1>0 DEF affectedEFlags, MachineWrites
<1>4. setEflags(i, t) = bitTestFlags(t)
  BY <1>0 DEF setEflags
<1>5. MachineFlag("CF", i, mcf, m) = Flag(Bit(i.a, k))
  <2>1. MachineFlag("CF", i, mcf, m) = Carry(i, mcf, m)
    BY CarryAndOverflow
  <2>2. Carry(i, mcf, m) = Flag(Bit(i.a, k))
    BY DEF Carry
  <2> QED
    BY <2>1, <2>2
<1> HIDE DEF t, m, old
<1>6. BitAnd(i.a, TwoTo[k]) # 0 <=> Bit(i.a, k)
  BY <1>1, TestBit, BitRange
<1>7. RaisedWrites(i, t) = {"CF"} /\ G["CF"] = MachineFlag("CF", i, mcf, m)
  <2>1. DOMAIN setEflags(i, t) = {"CF"}
        /\ setEflags(i, t)["CF"] = Flag(BitAnd(t.args[1], t.args[2]) # 0)
    BY <1>4 DEF bitTestFlags
  <2>2. Flag(BitAnd(t.args[1], t.args[2]) # 0) = Flag(Bit(i.a, k))
    BY <1>2, <1>6 DEF Flag
  <2> QED
    BY <1>3, <1>5, <2>1, <2>2 DEF RaisedWrites, raiseFlags, Flags
<1> HIDE DEF G
<1> QED
  BY <1>2, <1>3, <1>7 DEF Follows, t, m, old, G, Flags

\* MUL and IMUL, whose carry and overflow tell whether the upper half matters.
LEMMA MulFollows ==
  ASSUME NEW i, NEW mcf, NEW F, NEW reads, NEW has, Start(i, mcf, F, reads, has),
         i.op \in {"IMUL", "MUL"}
  PROVE  Follows(i, mcf, F, reads, has)
<1> DEFINE t == raiseInst(i, F["CF"])
           m == MachineValue(i, mcf)
           old == OldCF(F, has)
           p == Product(i)
           d == Modulus * Modulus
           G == raiseFlags(i, t, F, old)
<1>0. /\ i.a \in Values /\ i.b \in Values
      /\ \/ i.op = "IMUL" /\ i.enc \in {"rr", "rm", "ri", "one"}
         \/ i.op = "MUL" /\ i.enc = "one"
  BY InstOperands DEF Start, Forms, Binary, Unary, Counted, Double, Shifts, Rotates, DoubleShifts,
    BitTests
<1> USE DEF Shifts, Rotates, DoubleShifts, BitTests, Logic
<1>1. affectedEFlags(i) = {} /\ MachineWrites(i) = Flags
  BY <1>0 DEF affectedEFlags, affectedRegToReg, affectedMemToReg, affectedImmToReg, MachineWrites
<1>2. MachineFlag("OF", i, mcf, m) = Carry(i, mcf, m) /\ MachineFlag("CF", i, mcf, m) = Carry(i, mcf, m)
  <2>1. Overflow(i, mcf, m) = Carry(i, mcf, m)
    BY DEF Overflow
  <2> QED
    BY <2>1, CarryAndOverflow
<1>3. t = raiseMul(i)
  BY DEF raiseInst
<1>4. CASE i.enc # "one"
  <2>1. i.op = "IMUL" /\ i.enc \in {"rr", "rm", "ri"}
    BY <1>0, <1>4
  <2>2. m = p % Modulus
    BY <1>4, <2>1 DEF MachineValue
  <2>3. CASE i.enc = "rr" /\ ~FitsSigned(p)
    <3>1. Flags \cup {"value"} \subseteq Departures(i, reads, has)
      BY <2>1, <2>3 DEF Departures, Flags
    <3> QED
      BY <3>1, AllDepart
  <2>4. CASE ~(i.enc = "rr" /\ ~FitsSigned(p))
    <3>1. t.val = p % Modulus /\ t.args[1] = i.a /\ t.args[2] = i.b
      BY <1>3, <1>4, <2>4 DEF raiseMul, Raised, NoSignedWrap
    <3>2. CASE i.enc = "ri"
      <4>1. setEflags(i, t) = Both("OF", "CF", testCF(i, t, 0))
        BY <2>1, <3>2 DEF setEflags
      <4>2. testCF(i, t, 0) = Flag(~FitsSigned(p))
        BY <2>1, <3>1 DEF testCF, Product
      <4>3. Carry(i, mcf, m) = Flag(~FitsSigned(p))
        BY <2>1 DEF Carry
      <4> HIDE DEF t, m, old, p
      <4>4. RaisedWrites(i, t) = {"OF", "CF"}
            /\ G["OF"] = testCF(i, t, 0) /\ G["CF"] = testCF(i, t, 0)
        BY <1>1, <4>1 DEF RaisedWrites, Both, raiseFlags, Flags
      <4> HIDE DEF G
      <4>5. \A f \in RaisedWrites(i, t) : G[f] = MachineFlag(f, i, mcf, m)
        BY <1>2, <4>2, <4>3, <4>4
      <4>6. t.val = m
        BY <2>2, <3>1
      <4>7. RaisedWrites(i, t) \subseteq MachineWrites(i)
        BY <1>1, <4>4 DEF Flags
      <4> QED
        BY <4>5, <4>6, <4>7 DEF Follows, t, m, old, G
    <3>3. CASE i.enc # "ri"
      <4>1. setEflags(i, t) = <<>>
        BY <2>1, <3>3 DEF setEflags
      <4> HIDE DEF t, m, old, p
      <4>2. t.val = m
        BY <2>2, <3>1
      <4>3. affectedEFlags(i) \subseteq MachineWrites(i)
        BY <1>1
      <4> QED
        BY <1>1, <4>1, <4>2, <4>3, TestsFollow DEF t, m, old
    <3> QED
      BY <3>2, <3>3
  <2> QED
    BY <2>3, <2>4
<1>5. CASE i.enc = "one"
  <2>1. m = p % d
    BY <1>5 DEF MachineValue
  <2>2. CASE i.op = "MUL" /\ p >= Half * Modulus
    <3>1. Flags \cup {"value"} \subseteq Departures(i, reads, has)
      BY <1>5, <2>2 DEF Departures, Flags
    <3> QED
      BY <3>1, AllDepart
  <2>3. CASE ~(i.op = "MUL" /\ p >= Half * Modulus)
    <3>1. p < d \div 2
      <4>1. CASE i.op = "MUL"
        <5>1. p = i.a * i.b
          BY <4>1 DEF Product
        <5>2. p \in Int /\ Half * Modulus \in Int /\ d \div 2 = Half * Modulus
          <6>1. p \in Nat /\ d \div 2 = Half * Modulus
            BY <1>0, <5>1, UnsignedProduct
          <6>2. Half * Modulus \in Int
            BY WordRange
          <6> QED
            BY <6>1, <6>2
        <5> HIDE DEF p, d
        <5> QED
          BY <2>3, <4>1, <5>2
      <4>2. CASE i.op = "IMUL"
        <5>1. p = Signed(i.a) * Signed(i.b)
          BY <4>2 DEF Product
        <5> HIDE DEF p
        <5> QED
          BY <1>0, <5>1, SignedRange, SignedProduct
      <4> QED
        BY <1>0, <4>1, <4>2
    <3>2. t.val = p % d
      BY <1>3, <1>5, <3>1 DEF raiseMul, Raised
    <3>3. p % d \in Nat
      <4>1. CASE i.op = "MUL"
        <5>1. p = i.a * i.b
          BY <4>1 DEF Product
        <5> HIDE DEF p
        <5> QED
          BY <1>0, <5>1, UnsignedProduct
      <4>2. CASE i.op = "IMUL"
        <5>1. p = Signed(i.a) * Signed(i.b)
          BY <4>2 DEF Product
        <5> HIDE DEF p
        <5> QED
          BY <1>0, <5>1, SignedRange, SignedProduct
      <4> QED
        BY <1>0, <4>1, <4>2
    <3>4. p % d # Poison
      BY <3>3 DEF Poison
    <3> DEFINE e == IF i.op = "MUL" THEN t.val >= Modulus
                    ELSE Signed(t.val % Modulus) % (Modulus * Modulus) # t.val
    <3>5. setEflags(i, t) = Both("OF", "CF", Flag(e))
      <4>1. setEflags(i, t) = productFlags(i, t)
        BY <1>0, <1>5 DEF setEflags
      <4>2. t.val # Poison
        BY <3>2, <3>4
      <4> QED
        BY <4>1, <4>2 DEF productFlags, IfDefined
    <3>6. Carry(i, mcf, m) = Flag(e)
      <4>1. CASE i.op = "MUL"
        <5>1. p = i.a * i.b
          BY <4>1 DEF Product
        <5>2. p % d = p
          BY <1>0, <5>1, UnsignedProduct
        <5>3. Carry(i, mcf, m) = Flag(p >= Modulus)
          BY <4>1 DEF Carry
        <5> HIDE DEF t, p, d
        <5> QED
          BY <3>2, <4>1, <5>2, <5>3
      <4>2. CASE i.op = "IMUL"
        <5>1. p = Signed(i.a) * Signed(i.b)
          BY <4>2 DEF Product
        <5>2. Carry(i, mcf, m) = Flag(~FitsSigned(p))
          BY <4>2 DEF Carry
        <5> HIDE DEF p, t
        <5>3. Signed((p % d) % Modulus) % d = p % d <=> FitsSigned(p)
          BY <1>0, <5>1, SignedRange, SignedProduct
        <5>4. e <=> Signed((p % d) % Modulus) % d # p % d
          BY <3>2, <4>2
        <5> HIDE DEF e, d
        <5> QED
          BY <5>2, <5>3, <5>4 DEF Flag
      <4> QED
        BY <1>0, <4>1, <4>2
    <3> HIDE DEF t, m, old, p, d, e
    <3>7. RaisedWrites(i, t) = {"OF", "CF"} /\ G["OF"] = Flag(e) /\ G["CF"] = Flag(e)
      BY <1>1, <3>5 DEF RaisedWrites, Both, raiseFlags, Flags
    <3> HIDE DEF G
    <3>8. \A f \in RaisedWrites(i, t) : G[f] = MachineFlag(f, i, mcf, m)
      BY <1>2, <3>6, <3>7
    <3>9. t.val = m
      BY <2>1, <3>2
    <3>10. RaisedWrites(i, t) \subseteq MachineWrites(i)
      BY <1>1, <3>7 DEF Flags
    <3> QED
      BY <3>8, <3>9, <3>10 DEF Follows, t, m, old, G
  <2> QED
    BY <2>2, <2>3
<1> QED
  BY <1>4, <1>5

\* A word is positive if it is neither zero nor has the highest bit.
LEMMA PositiveWord ==
  ASSUME NEW v \in Values
  PROVE  Positive(v) <=> v # 0 /\ ~HighBit(v)
  BY WordRange DEF Positive, Signed, HighBit

\* The bit that a shift to the left by n moves out last.
LEMMA ShiftedOut ==
  ASSUME NEW v \in Values, NEW n \in Bits, NEW old
  PROVE  /\ n = 0 => \A x : lastShiftedOut(v, x, n, old) = old
         /\ n > 0 /\ ~(n = 1 /\ HighBit(v)) =>
              lastShiftedOut(v, Width - n, n, old) = Flag(Bit(v, Width - n))
<1>1. n \in Values /\ ~HighBit(n) /\ 0 \in Values
  <2>1. Width - 1 \in Nat /\ Width - 1 < Half
    <3>1. Width - 1 \in Nat /\ Half = TwoTo[Width - 1]
      BY WordBounds
    <3> QED
      BY <3>1, TwoToPositive
  <2>2. n \in Nat /\ n <= Width - 1 /\ Width \in Nat
    BY WordBounds
  <2>3. n < Half
    BY <2>1, <2>2, WordRange
  <2> QED
    BY <2>2, <2>3, WordRange DEF HighBit
<1>2. Positive(n) <=> n # 0
  BY <1>1, PositiveWord
<1>3. n = 0 => \A x : lastShiftedOut(v, x, n, old) = old
  BY <1>2 DEF lastShiftedOut
<1>4. ASSUME n > 0, ~(n = 1 /\ HighBit(v))
      PROVE  lastShiftedOut(v, Width - n, n, old) = Flag(Bit(v, Width - n))
  <2>1. Width - n \in Bits /\ n # 0
    BY <1>4, WordBounds
  <2>2. PICK k \in Bits : k = Width - n
    BY <2>1
  <2>3. BitAnd(v, TwoTo[k]) = IF Bit(v, k) THEN TwoTo[k] ELSE 0
    BY TestBit
  <2>4. TwoTo[k] \in Values /\ TwoTo[k] # 0
    BY OneBit, BitRange
  <2>5. Positive(BitAnd(v, TwoTo[k])) <=> Bit(v, k)
    <3>1. CASE n = 1
      <4>1. k = Width - 1
        BY <2>2, <3>1
      <4>2. ~Bit(v, k)
        BY <1>4, <3>1, <4>1, TopBit
      <4> QED
        BY <1>1, <2>3, <4>2, PositiveWord
    <3>2. CASE n # 1
      <4>1. k < Width - 1 /\ k \in Nat /\ Width - 1 \in Nat
        BY <1>4, <2>2, <3>2, WordBounds
      <4>2. 2 * TwoTo[k] <= Half
        BY <4>1, TwoToGrows, WordBounds
      <4>3. ~HighBit(TwoTo[k])
        BY <2>4, <4>2, WordRange DEF HighBit
      <4> QED
        BY <1>1, <2>3, <2>4, <4>3, PositiveWord
    <3> QED
      BY <3>1, <3>2
  <2>6. lastShiftedOut(v, k, n, old) = Flag(Positive(BitAnd(v, TwoTo[k])))
    BY <1>2, <2>1 DEF lastShiftedOut
  <2> QED
    BY <2>2, <2>5, <2>6 DEF Flag
<1> QED
  BY <1>3, <1>4

\* A count of a shift below the width is the number of a bit.
LEMMA CountInBits ==
  ASSUME NEW i, i.c \in Nat
  PROVE  Count(i) \in Bits /\ (i.c = 1 => Count(i) = 1)
  BY WordBounds DEF Count

\* SHL, SHR and SAR.
LEMMA ShiftFollows ==
  ASSUME NEW i, NEW mcf, NEW F, NEW reads, NEW has, Start(i, mcf, F, reads, has),
         i.op \in Shifts
  PROVE  Follows(i, mcf, F, reads, has)
<1> DEFINE t == raiseInst(i, F["CF"])
           m == MachineValue(i, mcf)
           old == OldCF(F, has)
           n == Count(i)
           D == Departures(i, reads, has)
           G == raiseFlags(i, t, F, old)
<1>0. i.a \in Values /\ i.enc \in {"cl", "mcl", "ri", "m"} /\ i.c \in Nat /\ has \in BOOLEAN
  BY InstOperands DEF Start, Forms, Binary, Unary, Counted, Double, Shifts, Rotates, DoubleShifts,
    BitTests
<1> USE DEF Shifts, Rotates, DoubleShifts, BitTests, Logic
<1>1. n \in Bits
  BY <1>0, CountInBits
<1> DEFINE Wrong == \/ RaisedCount(i) # n
                    \/ i.op = "SAR" /\ i.enc \in {"ri", "m"} /\ HighBit(i.a) /\ n > 0
<1>2. CASE Wrong
  <2>1. Flags \cup {"value"} \subseteq Departures(i, reads, has)
    BY <1>2 DEF Departures, Flags
  <2> QED
    BY <2>1, AllDepart
<1>3. CASE ~Wrong
  <2>1. RaisedCount(i) = n
    BY <1>3
  <2>2. PICK v \in Values : t = [args |-> <<i.a, n>>, val |-> v] /\ m = v
    <3>1. n \in 0 .. Width - 1
      BY <1>1 DEF Bits
    <3>2. t = raiseShift(i)
      BY DEF raiseInst
    <3> HIDE DEF t, n
    <3>3. CASE i.op = "SHL"
      <4>1. t = [args |-> <<i.a, n>>, val |-> ShiftLeft(i.a, n)]
        BY <2>1, <3>1, <3>2, <3>3 DEF raiseShift, Raised, ShiftBy
      <4>2. m = ShiftLeft(i.a, n)
        BY <3>3 DEF MachineValue, n
      <4> QED
        BY <1>0, <1>1, <4>1, <4>2, ShiftedWords
    <3>4. CASE i.op = "SHR"
      <4>1. t = [args |-> <<i.a, n>>, val |-> ShiftRight(i.a, n)]
        BY <2>1, <3>1, <3>2, <3>4 DEF raiseShift, Raised, ShiftBy
      <4>2. m = ShiftRight(i.a, n)
        BY <3>4 DEF MachineValue, n
      <4> QED
        BY <1>0, <1>1, <4>1, <4>2, ShiftedWords
    <3>5. CASE i.op = "SAR"
      <4>1. m = ShiftArith(i.a, n)
        BY <3>5 DEF MachineValue, n
      <4>2. CASE i.enc \in {"cl", "mcl"}
        <5>1. t = [args |-> <<i.a, n>>, val |-> ShiftArith(i.a, n)]
          BY <2>1, <3>1, <3>2, <3>5, <4>2 DEF raiseShift, Raised, ShiftBy
        <5> QED
          BY <1>0, <1>1, <4>1, <5>1, ShiftedWords
      <4>3. CASE i.enc \in {"ri", "m"}
        <5>1. t = [args |-> <<i.a, n>>, val |-> ShiftRight(i.a, n)]
          BY <2>1, <3>1, <3>2, <3>5, <4>3 DEF raiseShift, Raised, ShiftBy
        <5>2. ~HighBit(i.a) \/ n = 0
          BY <1>1, <1>3, <3>5, <4>3, BitRange DEF n
        <5>3. ShiftArith(i.a, n) = ShiftRight(i.a, n) /\ ShiftRight(i.a, n) \in Values
          BY <1>0, <1>1, <5>2, ShiftedWords
        <5> QED
          BY <4>1, <5>1, <5>3
      <4> QED
        BY <1>0, <4>2, <4>3
    <3> QED
      BY <3>3, <3>4, <3>5
  <2>3. t.val = v /\ t.args[1] = i.a /\ t.args[2] = n
    BY <2>2
  <2>4. /\ affectedEFlags(i) \subseteq {"CF", "ZF", "SF"}
        /\ "CF" \in affectedEFlags(i) => i.enc = "cl"
    BY <1>0 DEF affectedEFlags, affectedRegToReg, affectedImmToReg, affectedInplace
  <2>5. setEflags(i, t) = <<>>
    BY <1>0 DEF setEflags
  <2>6. testCF(i, t, old) = lastShiftedOut(i.a, Width - n, n, old)
    <3> HIDE DEF t, n, old
    <3> QED
      BY <2>3 DEF testCF
  <2>7. CASE n = 0
    <3>1. MachineWrites(i) = {}
      BY <2>7 DEF MachineWrites
    <3>2. {"ZF", "SF"} \subseteq D
      BY <2>7 DEF Departures
    <3>3. i.enc = "cl" /\ ~has => "CF" \in D
      BY <2>7 DEF Departures, testsShift
    <3> HIDE DEF t, m, n, D
    <3>4. testCF(i, t, old) = old
      BY <1>0, <1>1, <2>6, <2>7, ShiftedOut
    <3>5. "CF" \in affectedEFlags(i) => "CF" \in D \/ testCF(i, t, old) = F["CF"]
      BY <2>4, <3>3, <3>4 DEF OldCF
    <3>6. \A f \in RaisedWrites(i, t) : f \in D \/ G[f] = F[f]
      <4>1. RaisedWrites(i, t) = affectedEFlags(i)
        BY <2>5 DEF RaisedWrites
      <4>2. "CF" \in affectedEFlags(i) => G["CF"] = testCF(i, t, old)
        BY DEF raiseFlags, testAndSetEflagSSAValue, Flags
      <4> HIDE DEF G
      <4> QED
        BY <2>4, <3>2, <3>5, <4>1, <4>2
    <3>7. t.val = m
      BY <2>2
    <3> HIDE DEF G, old
    <3> QED
      BY <3>1, <3>6, <3>7 DEF Follows, t, m, D, G, old
  <2>8. CASE n # 0
    <3>1. MachineWrites(i) = Flags
      BY <2>8 DEF MachineWrites
    <3>2. i.enc = "cl" /\ (i.op \in {"SHR", "SAR"} \/ (n = 1 /\ HighBit(i.a))) => "CF" \in D
      <4>1. n > 0
        BY <1>1, <2>8, BitRange
      <4> QED
        BY <4>1 DEF Departures, testsShift
    <3>3. i.op = "SHL" => MachineFlag("CF", i, mcf, v) = Flag(Bit(i.a, Width - n))
      BY CarryAndOverflow DEF Carry
    <3> HIDE DEF t, m, n, old, D
    <3>4. "CF" \in affectedEFlags(i) => "CF" \in D \/ testCF(i, t, old) = MachineFlag("CF", i, mcf, v)
      <4>1. CASE i.op = "SHL" /\ ~(n = 1 /\ HighBit(i.a))
        <5>1. n > 0
          BY <1>1, <2>8, BitRange
        <5> QED
          BY <1>0, <1>1, <2>6, <3>3, <4>1, <5>1, ShiftedOut
      <4>2. CASE ~(i.op = "SHL" /\ ~(n = 1 /\ HighBit(i.a)))
        BY <2>4, <3>2, <4>2
      <4> QED
        BY <4>1, <4>2
    <3>5. \A f \in {"ZF", "SF", "PF"} :
            testAndSetEflagSSAValue(f, i, t, old) = MachineFlag(f, i, mcf, v)
      BY <2>3, ResultTests
    <3>6. \A f \in affectedEFlags(i) :
            f \in D \/ testAndSetEflagSSAValue(f, i, t, old) = MachineFlag(f, i, mcf, v)
      <4>1. testAndSetEflagSSAValue("CF", i, t, old) = testCF(i, t, old)
        BY DEF testAndSetEflagSSAValue
      <4> QED
        BY <2>4, <3>4, <3>5, <4>1
    <3>7. affectedEFlags(i) \subseteq MachineWrites(i)
      BY <2>4, <3>1 DEF Flags
    <3> QED
      BY <2>2, <2>3, <2>5, <3>6, <3>7, TestsFollow DEF t, m, old, D
  <2> QED
    BY <2>7, <2>8
<1> QED
  BY <1>2, <1>3

\* ROL and ROR.
LEMMA RotateFollows ==
  ASSUME NEW i, NEW mcf, NEW F, NEW reads, NEW has, Start(i, mcf, F, reads, has),
         i.op \in Rotates
  PROVE  Follows(i, mcf, F, reads, has)
<1> DEFINE t == raiseInst(i, F["CF"])
           m == MachineValue(i, mcf)
           old == OldCF(F, has)
           n == Count(i)
           D == Departures(i, reads, has)
           G == raiseFlags(i, t, F, old)
<1>0. i.a \in Values /\ i.enc \in {"r1", "ri"} /\ i.c \in Nat /\ (i.enc = "r1" => i.c = 1)
  BY InstOperands DEF Start, Forms, Binary, Unary, Counted, Double, Shifts, Rotates, DoubleShifts,
    BitTests
<1> USE DEF Shifts, Rotates, DoubleShifts, BitTests, Logic
<1>1. n \in Bits /\ (i.c = 1 => n = 1)
  BY <1>0, CountInBits
<1>2. t.val = m /\ m = IF i.op = "ROL" THEN FunnelLeft(i.a, i.a, n) ELSE FunnelRight(i.a, i.a, n)
  <2>1. CASE i.op = "ROL"
    BY <2>1 DEF raiseInst, raiseFunnel, Raised, MachineValue, Count
  <2>2. CASE i.op = "ROR"
    BY <2>2 DEF raiseInst, raiseFunnel, Raised, MachineValue, Count
  <2> QED
    BY <2>1, <2>2
<1>3. affectedEFlags(i) = IF i.enc = "r1" THEN {"OF", "CF"} ELSE {"CF"}
  BY <1>0 DEF affectedEFlags, affectedImmToReg
<1>4. setEflags(i, t) = <<>>
  BY <1>0 DEF setEflags
<1>5. CASE n = 0
  <2>1. MachineWrites(i) = {}
    BY <1>5 DEF MachineWrites
  <2>2. "CF" \in D
    BY <1>5 DEF Departures
  <2>3. i.enc # "r1"
    BY <1>0, <1>1, <1>5
  <2>4. RaisedWrites(i, t) = {"CF"}
    BY <1>3, <1>4, <2>3 DEF RaisedWrites
  <2> HIDE DEF t, m, old, n, D, G
  <2> QED
    BY <1>2, <2>1, <2>2, <2>4 DEF Follows, t, m, old, D, G
<1>6. CASE n # 0
  <2>1. MachineWrites(i) = {"CF", "OF"}
    BY <1>6 DEF MachineWrites
  <2>2. testCF(i, t, old) = MachineFlag("CF", i, mcf, m)
    <3> HIDE DEF t, m, old, n
    <3> QED
      BY <1>2, CarryAndOverflow DEF testCF, Carry
  <2>3. ASSUME i.enc = "r1" PROVE testOF(i, t) = MachineFlag("OF", i, mcf, m)
    <3>1. n = 1
      BY <1>0, <1>1, <2>3
    <3>2. MachineFlag("OF", i, mcf, m) = Flag(HighBit(m) # HighBit(i.a))
      <4> HIDE DEF m
      <4> QED
        BY <3>1, CarryAndOverflow DEF Overflow
    <3>3. HighBit(m) \in BOOLEAN /\ HighBit(i.a) \in BOOLEAN
      BY DEF HighBit
    <3> HIDE DEF t, m, old, n
    <3>4. CASE i.op = "ROL"
      <4>1. Bit(m, 0) <=> HighBit(i.a)
        BY <1>0, <1>2, <3>1, <3>4, RotatedLeft
      <4>2. testOF(i, t) = Flag(Bit(m, 0) # HighBit(m))
        BY <1>2, <3>4 DEF testOF
      <4> QED
        BY <3>2, <3>3, <4>1, <4>2 DEF Flag, Bit
    <3>5. CASE i.op = "ROR"
      <4>1. Bit(m, Width - 2) <=> HighBit(i.a)
        BY <1>0, <1>2, <3>1, <3>5, RotatedRight
      <4>2. testOF(i, t) = Flag(HighBit(m) # Bit(m, Width - 2))
        BY <1>2, <3>5 DEF testOF
      <4> QED
        BY <3>2, <3>3, <4>1, <4>2 DEF Flag, Bit
    <3> QED
      BY <3>4, <3>5
  <2> HIDE DEF t, m, old, n, D, G
  <2>4. \A f \in affectedEFlags(i) :
          testAndSetEflagSSAValue(f, i, t, old) = MachineFlag(f, i, mcf, m)
    BY <1>3, <2>2, <2>3 DEF testAndSetEflagSSAValue
  <2>5. affectedEFlags(i) \subseteq MachineWrites(i)
    BY <1>3, <2>1
  <2> QED
    BY <1>2, <1>4, <2>4, <2>5, TestsFollow DEF t, m, old
<1> QED
  BY <1>5, <1>6

\* SHLD and SHRD.
LEMMA DoubleFollows ==
  ASSUME NEW i, NEW mcf, NEW F, NEW reads, NEW has, Start(i, mcf, F, reads, has),
         i.op \in DoubleShifts
  PROVE  Follows(i, mcf, F, reads, has)
<1> DEFINE t == raiseInst(i, F["CF"])
           m == MachineValue(i, mcf)
           old == OldCF(F, has)
           n == Count(i)
           D == Departures(i, reads, has)
           G == raiseFlags(i, t, F, old)
<1>0. i.a \in Values /\ i.b \in Values /\ i.enc = "ri" /\ i.c \in Nat /\ has \in BOOLEAN
      /\ <<i.op, i.enc>> \in Double
  BY InstOperands DEF Start, Forms, Binary, Unary, Counted, Double, Shifts, Rotates, DoubleShifts,
    BitTests
<1> USE DEF Shifts, Rotates, DoubleShifts, BitTests, Logic
<1>1. n \in Bits
  BY <1>0, CountInBits
<1>2. t.val = m
  <2>1. CASE i.op = "SHLD"
    BY <2>1 DEF raiseInst, raiseFunnel, Raised, MachineValue, Count
  <2>2. CASE i.op = "SHRD"
    BY <2>2 DEF raiseInst, raiseFunnel, Raised, MachineValue, Count
  <2> QED
    BY <2>1, <2>2
<1>3. affectedEFlags(i) = {"CF"}
  BY DEF affectedEFlags
<1>4. setEflags(i, t) = <<>>
  BY <1>0 DEF setEflags
<1>5. \/ i.c # n
      \/ n > 0 /\ i.op = "SHRD"
      \/ n = 1 /\ HighBit(i.a)
      \/ n = 0 /\ ~has
      => "CF" \in D
  BY <1>0 DEF Departures, testsShift
<1>6. i.c = n => testCF(i, t, old) = IF i.op = "SHRD" THEN lastShiftedOut(i.a, n, n, old)
                                     ELSE lastShiftedOut(i.a, Width - n, n, old)
  <2>1. CASE i.op = "SHLD"
    <3>1. t.args[1] = i.a /\ t.args[3] = i.c
      BY <2>1 DEF raiseInst, raiseFunnel, Raised
    <3> HIDE DEF t, n, old
    <3> QED
      BY <2>1, <3>1 DEF testCF
  <2>2. CASE i.op = "SHRD"
    <3>1. t.args[2] = i.a /\ t.args[3] = i.c
      BY <2>2 DEF raiseInst, raiseFunnel, Raised
    <3> HIDE DEF t, n, old
    <3> QED
      BY <2>2, <3>1 DEF testCF
  <2> QED
    BY <2>1, <2>2
<1>7. G["CF"] = testCF(i, t, old)
  <2> HIDE DEF t, old
  <2> QED
    BY <1>3 DEF raiseFlags, testAndSetEflagSSAValue, Flags
<1>8. RaisedWrites(i, t) = {"CF"}
  BY <1>3, <1>4 DEF RaisedWrites
<1>9. CASE n = 0
  <2>1. MachineWrites(i) = {}
    BY <1>9 DEF MachineWrites
  <2> HIDE DEF t, m, n, D, G
  <2>2. "CF" \in D \/ testCF(i, t, old) = old
    BY <1>0, <1>1, <1>5, <1>6, <1>9, ShiftedOut
  <2>3. "CF" \in D \/ G["CF"] = F["CF"]
    BY <1>0, <1>5, <1>7, <1>9, <2>2 DEF OldCF
  <2> HIDE DEF old
  <2> QED
    BY <1>2, <1>8, <2>1, <2>3 DEF Follows, t, m, old, D, G
<1>10. CASE n # 0
  <2>1. MachineWrites(i) = Flags
    BY <1>10 DEF MachineWrites
  <2>2. i.op = "SHLD" => MachineFlag("CF", i, mcf, m) = Flag(Bit(i.a, Width - n))
    <3> HIDE DEF m
    <3> QED
      BY CarryAndOverflow DEF Carry
  <2>3. n > 0
    BY <1>1, <1>10, BitRange
  <2> HIDE DEF t, m, n, D, G, old
  <2>4. "CF" \in D \/ testCF(i, t, old) = MachineFlag("CF", i, mcf, m)
    <3>1. CASE i.op = "SHLD" /\ i.c = n /\ ~(n = 1 /\ HighBit(i.a))
      BY <1>0, <1>1, <1>6, <2>2, <2>3, <3>1, ShiftedOut
    <3>2. CASE ~(i.op = "SHLD" /\ i.c = n /\ ~(n = 1 /\ HighBit(i.a)))
      BY <1>5, <2>3, <3>2
    <3> QED
      BY <3>1, <3>2
  <2> QED
    BY <1>2, <1>7, <1>8, <2>1, <2>4 DEF Follows, t, m, old, D, G, Flags
<1> QED
  BY <1>9, <1>10

\* Every instruction.
LEMMA StepFollows ==
  ASSUME NEW i, NEW mcf, NEW F, NEW reads, NEW has, Start(i, mcf, F, reads, has)
  PROVE  Follows(i, mcf, F, reads, has)
<1>1. <<i.op, i.enc>> \in Forms
  BY InstOperands DEF Start
<1>2. \/ i.op \in {"CMP", "SUB"} \/ i.op = "ADD" \/ i.op \in {"INC", "DEC"} \/ i.op = "SBB"
      \/ i.op = "NEG" \/ i.op = "NOT" \/ i.op \in Logic \/ i.op = "POPCNT" \/ i.op = "UCOMIS"
      \/ i.op \in BitTests \/ i.op \in {"IMUL", "MUL"} \/ i.op \in Shifts \/ i.op \in Rotates
      \/ i.op \in DoubleShifts
  BY <1>1 DEF Forms, Binary, Unary, Counted, Double, Logic
<1> QED
  BY <1>2, SubFollows, AddFollows, IncDecFollows, SbbFollows, NegFollows, NotFollows, LogicFollows,
    PopcntFollows, UcomisFollows, BitTestFollows, MulFollows, ShiftFollows, RotateFollows,
    DoubleFollows

\* A flag of the machine is zero, one or undefined.
LEMMA MachineFlagTyped ==
  ASSUME NEW i \in Instructions, NEW mcf \in {0, 1}, NEW m, NEW f \in Flags
  PROVE  MachineFlag(f, i, mcf, m) \in {0, 1, Undef}
<1>1. \A b : Flag(b) \in {0, 1, Undef}
  BY DEF Flag
<1>2. Carry(i, mcf, m) \in {0, 1, Undef}
  BY <1>1 DEF Carry
<1>3. Overflow(i, mcf, m) \in {0, 1, Undef}
  BY <1>1, <1>2 DEF Overflow
<1>4. ResultFlag(f, i, m) \in {0, 1, Undef}
  BY <1>1 DEF ResultFlag
<1> QED
  BY <1>2, <1>3, <1>4 DEF MachineFlag

-----------------------------------------------------------------------------

FlagsInv ==
  /\ mflags \in [Flags -> {0, 1, Undef}]
  /\ tracked \subseteq Flags
  /\ local \in BOOLEAN
  /\ ValuesFollow
  /\ FlagsFollow

\* The invariant holds at first.
LEMMA FlagsInvInit == Init => FlagsInv
  BY DEF Init, FlagsInv, ValuesFollow, FlagsFollow

\* An instruction keeps it.
LEMMA FlagsInvStep ==
  ASSUME FlagsInv, NEW i \in Instructions, Step(i)
  PROVE  FlagsInv'
<1> DEFINE mcf == IF mflags["CF"] = Undef THEN 0 ELSE mflags["CF"]
           reads == IF mflags["CF"] = Undef THEN {} ELSE tracked
           m == MachineValue(i, mcf)
           t == raiseInst(i, rflags["CF"])
           old == OldCF(rflags, local)
           D == Departures(i, reads, local)
           W == RaisedWrites(i, t)
           G == raiseFlags(i, t, rflags, old)
<1>0. mcf \in {0, 1}
  BY DEF FlagsInv, Flags, Undef
<1>1. Follows(i, mcf, rflags, reads, local)
  <2>1. "CF" \in reads => rflags["CF"] = mcf
    BY DEF FlagsInv, FlagsFollow
  <2>2. Start(i, mcf, rflags, reads, local)
    BY <1>0, <2>1 DEF Start, FlagsInv
  <2> QED
    BY <2>2, StepFollows
<1>2. /\ mflags' = [f \in Flags |-> IF f \in MachineWrites(i) THEN MachineFlag(f, i, mcf, m)
                                    ELSE mflags[f]]
      /\ rflags' = G
      /\ local' = (local \/ "CF" \in W)
      /\ tracked' = ((tracked \ MachineWrites(i)) \cup (MachineWrites(i) \cap W)) \ D
      /\ agree' = ("value" \in D \/ t.val = m)
  BY DEF Step, RaisedWrites, OldCF
<1>3. /\ "value" \in D \/ t.val = m
      /\ \A f \in MachineWrites(i) \cap W : f \in D \/ MachineFlag(f, i, mcf, m) \in {Undef, G[f]}
      /\ \A f \in (Flags \cap W) \ MachineWrites(i) : f \in D \/ G[f] = rflags[f]
  BY <1>1 DEF Follows
<1>4. \A f \in Flags \ W : G[f] = rflags[f]
  BY DEF raiseFlags, RaisedWrites
<1>5. MachineWrites(i) \subseteq Flags
  BY MachineWritesFlags
<1>6. \A f \in Flags : MachineFlag(f, i, mcf, m) \in {0, 1, Undef}
  BY <1>0, MachineFlagTyped
<1> HIDE DEF mcf, reads, m, t, old, D, W, G
<1>7. mflags' \in [Flags -> {0, 1, Undef}]
  BY <1>2, <1>6 DEF FlagsInv
<1>8. tracked' \subseteq Flags /\ local' \in BOOLEAN
  BY <1>2, <1>5 DEF FlagsInv
<1>9. ValuesFollow'
  BY <1>2, <1>3 DEF ValuesFollow
<1>10. ASSUME NEW f \in tracked', mflags'[f] # Undef PROVE rflags'[f] = mflags'[f]
  <2>1. f \in Flags /\ f \notin D
    BY <1>2, <1>8
  <2>2. CASE f \in MachineWrites(i)
    <3>1. mflags'[f] = MachineFlag(f, i, mcf, m) /\ f \in W
      BY <1>2, <2>1, <2>2
    <3> QED
      BY <1>2, <1>3, <1>10, <2>1, <2>2, <3>1
  <2>3. CASE f \notin MachineWrites(i)
    <3>1. mflags'[f] = mflags[f] /\ f \in tracked
      BY <1>2, <2>1, <2>3
    <3>2. rflags[f] = mflags[f]
      BY <1>10, <3>1 DEF FlagsInv, FlagsFollow
    <3>3. G[f] = rflags[f]
      BY <1>3, <1>4, <2>1, <2>3
    <3> QED
      BY <1>2, <3>1, <3>2, <3>3
  <2> QED
    BY <2>2, <2>3
<1> QED
  BY <1>7, <1>8, <1>9, <1>10 DEF FlagsInv, FlagsFollow

\* The invariant holds always.
LEMMA FlagsInvariant == Spec => []FlagsInv
<1>1. FlagsInv /\ [Next]_eflagsVars => FlagsInv'
  <2> SUFFICES ASSUME FlagsInv, [Next]_eflagsVars PROVE FlagsInv'
    OBVIOUS
  <2>1. ASSUME NEW i \in Instructions, Step(i) PROVE FlagsInv'
    BY <2>1, FlagsInvStep
  <2>2. CASE NextBlock \/ UNCHANGED eflagsVars
    BY <2>2 DEF NextBlock, eflagsVars, FlagsInv, ValuesFollow, FlagsFollow
  <2> QED
    BY <2>1, <2>2 DEF Next
<1> QED
  BY <1>1, FlagsInvInit, PTL DEF Spec

\* The value that a raised instruction computes is the one of the machine, for words of
\* every width, where the instruction does not depart from the machine in its value.
THEOREM ValuesAlwaysFollow == Spec => []ValuesFollow
<1>1. FlagsInv => ValuesFollow
  BY DEF FlagsInv
<1> QED
  BY <1>1, FlagsInvariant, PTL

\* A flag that the raised code tracks is the flag of the machine, if that is defined: after
\* any sequence of instructions, in words of every width.
THEOREM FlagsAlwaysFollow == Spec => []FlagsFollow
<1>1. FlagsInv => FlagsFollow
  BY DEF FlagsInv
<1> QED
  BY <1>1, FlagsInvariant, PTL

\* The cases of the users of flags, one by one.
LEMMA JccForms ==
  ASSUME NEW F
  PROVE  /\ Jcc("B", F) <=> (F["CF"] = 1)
         /\ Jcc("AE", F) <=> (F["CF"] = 0)
         /\ Jcc("E", F) <=> (F["ZF"] = 1)
         /\ Jcc("NE", F) <=> (F["ZF"] = 0)
         /\ Jcc("S", F) <=> (F["SF"] = 1)
         /\ Jcc("NS", F) <=> (F["SF"] = 0)
         /\ Jcc("P", F) <=> (F["PF"] = 1)
         /\ Jcc("NP", F) <=> (F["PF"] = 0)
         /\ Jcc("A", F) <=> (F["ZF"] = 0 /\ F["CF"] = 0)
         /\ Jcc("BE", F) <=> (F["ZF"] = 1 \/ F["CF"] = 1)
         /\ Jcc("L", F) <=> (F["SF"] # F["OF"])
         /\ Jcc("GE", F) <=> (F["SF"] = F["OF"])
         /\ Jcc("LE", F) <=> (F["ZF"] = 1 \/ F["SF"] # F["OF"])
         /\ Jcc("G", F) <=> (F["ZF"] = 0 /\ F["SF"] = F["OF"])
  BY DEF Jcc

LEMMA SETccForms ==
  ASSUME NEW F
  PROVE  /\ SETcc("O", F) <=> (F["OF"] = 1)
         /\ SETcc("B", F) <=> (F["CF"] = 1)
         /\ SETcc("AE", F) <=> (F["CF"] = 0)
         /\ SETcc("E", F) <=> (F["ZF"] = 1)
         /\ SETcc("NE", F) <=> (F["ZF"] = 0)
         /\ SETcc("S", F) <=> (F["SF"] = 1)
         /\ SETcc("NS", F) <=> (F["SF"] = 0)
         /\ SETcc("P", F) <=> (F["PF"] = 1)
         /\ SETcc("NP", F) <=> (F["PF"] = 0)
         /\ SETcc("A", F) <=> (F["CF"] = 0 /\ F["ZF"] = 0)
         /\ SETcc("L", F) <=> (F["SF"] # F["OF"])
         /\ SETcc("GE", F) <=> (F["SF"] = F["OF"])
         /\ SETcc("LE", F) <=> (F["ZF"] = 1 \/ F["SF"] # F["OF"])
         /\ SETcc("G", F) <=> (F["ZF"] = 0 /\ F["SF"] = F["OF"])
  BY DEF SETcc

LEMMA CMOVccForms ==
  ASSUME NEW F
  PROVE  /\ CMOVcc("O", F) <=> (F["OF"] = 1)
         /\ CMOVcc("NO", F) <=> (F["OF"] = 0)
         /\ CMOVcc("B", F) <=> (F["CF"] = 1)
         /\ CMOVcc("AE", F) <=> (F["CF"] = 0)
         /\ CMOVcc("E", F) <=> (F["ZF"] = 1)
         /\ CMOVcc("NE", F) <=> (F["ZF"] = 0)
         /\ CMOVcc("S", F) <=> (F["SF"] = 1)
         /\ CMOVcc("NS", F) <=> (F["SF"] = 0)
         /\ CMOVcc("A", F) <=> (F["CF"] + F["ZF"] = 0)
         /\ CMOVcc("BE", F) <=> (F["CF"] = 1 \/ F["ZF"] = 1)
         /\ CMOVcc("L", F) <=> (F["SF"] # F["OF"])
         /\ CMOVcc("GE", F) <=> (F["SF"] = F["OF"])
         /\ CMOVcc("LE", F) <=> (F["ZF"] = 1 \/ F["SF"] # F["OF"])
         /\ CMOVcc("G", F) <=> (F["ZF"] = 0 /\ F["SF"] = F["OF"])
  BY DEF CMOVcc

LEMMA HoldsForms ==
  ASSUME NEW F
  PROVE  /\ Holds("O", F) <=> (F["OF"] = 1)
         /\ Holds("NO", F) <=> (F["OF"] # 1)
         /\ Holds("B", F) <=> (F["CF"] = 1)
         /\ Holds("AE", F) <=> (F["CF"] # 1)
         /\ Holds("E", F) <=> (F["ZF"] = 1)
         /\ Holds("NE", F) <=> (F["ZF"] # 1)
         /\ Holds("BE", F) <=> (F["CF"] = 1 \/ F["ZF"] = 1)
         /\ Holds("A", F) <=> (~(F["CF"] = 1 \/ F["ZF"] = 1))
         /\ Holds("S", F) <=> (F["SF"] = 1)
         /\ Holds("NS", F) <=> (F["SF"] # 1)
         /\ Holds("P", F) <=> (F["PF"] = 1)
         /\ Holds("NP", F) <=> (F["PF"] # 1)
         /\ Holds("L", F) <=> (F["SF"] # F["OF"])
         /\ Holds("GE", F) <=> (F["SF"] = F["OF"])
         /\ Holds("LE", F) <=> (F["ZF"] = 1 \/ F["SF"] # F["OF"])
         /\ Holds("G", F) <=> (~(F["ZF"] = 1 \/ F["SF"] # F["OF"]))
  BY DEF Holds

\* The conditions on tracked flags, by the flags they read.
LEMMA ConditionsOfFlags == FlagsInv => ConditionsFollow
<1> SUFFICES ASSUME FlagsInv, NEW cc \in Conditions,
                    \A f \in FlagsOf(cc) : f \in tracked /\ mflags[f] # Undef
             PROVE  /\ cc \in handledByJcc => (Jcc(cc, rflags) <=> Holds(cc, mflags))
                    /\ cc \in handledBySETcc => (SETcc(cc, rflags) <=> Holds(cc, mflags))
                    /\ cc \in handledByCMOVcc => (CMOVcc(cc, rflags) <=> Holds(cc, mflags))
  BY DEF ConditionsFollow
<1>1. \A f \in FlagsOf(cc) : rflags[f] = mflags[f] /\ mflags[f] \in {0, 1}
  BY DEF FlagsInv, FlagsFollow
<1>2. CASE cc \in {"O", "NO"}
  <2>1. rflags["OF"] = mflags["OF"] /\ mflags["OF"] \in {0, 1}
    BY <1>1, <1>2 DEF FlagsOf
  <2> QED
    BY <1>2, <2>1, JccForms, SETccForms, CMOVccForms, HoldsForms
      DEF handledByJcc, handledBySETcc, handledByCMOVcc
<1>3. CASE cc \in {"B", "AE", "BE", "A"}
  <2>1. /\ rflags["CF"] = mflags["CF"] /\ mflags["CF"] \in {0, 1}
        /\ cc \in {"BE", "A"} => rflags["ZF"] = mflags["ZF"] /\ mflags["ZF"] \in {0, 1}
    BY <1>1, <1>3 DEF FlagsOf
  <2> QED
    BY <1>3, <2>1, JccForms, SETccForms, CMOVccForms, HoldsForms
      DEF handledByJcc, handledBySETcc, handledByCMOVcc
<1>4. CASE cc \in {"E", "NE"}
  <2>1. rflags["ZF"] = mflags["ZF"] /\ mflags["ZF"] \in {0, 1}
    BY <1>1, <1>4 DEF FlagsOf
  <2> QED
    BY <1>4, <2>1, JccForms, SETccForms, CMOVccForms, HoldsForms
<1>5. CASE cc \in {"S", "NS", "P", "NP"}
  <2>1. /\ cc \in {"S", "NS"} => rflags["SF"] = mflags["SF"] /\ mflags["SF"] \in {0, 1}
        /\ cc \in {"P", "NP"} => rflags["PF"] = mflags["PF"] /\ mflags["PF"] \in {0, 1}
    BY <1>1, <1>5 DEF FlagsOf
  <2> QED
    BY <1>5, <2>1, JccForms, SETccForms, CMOVccForms, HoldsForms DEF handledByCMOVcc
<1>6. CASE cc \in {"L", "GE", "LE", "G"}
  <2>1. /\ rflags["SF"] = mflags["SF"] /\ rflags["OF"] = mflags["OF"]
        /\ cc \in {"LE", "G"} => rflags["ZF"] = mflags["ZF"] /\ mflags["ZF"] \in {0, 1}
    BY <1>1, <1>6 DEF FlagsOf
  <2> QED
    BY <1>6, <2>1, JccForms, SETccForms, CMOVccForms, HoldsForms
<1> QED
  BY <1>2, <1>3, <1>4, <1>5, <1>6 DEF Conditions

\* Every branch, set and move on tracked flags is decided as on the machine.
THEOREM ConditionsAlwaysFollow == Spec => []ConditionsFollow
  BY ConditionsOfFlags, FlagsInvariant, PTL

-----------------------------------------------------------------------------
(* The registers of the x87 unit, seen from the top. *)

\* The registers as seen from the top before and after a push and a pop.
LEMMA AtIsARegister ==
  ASSUME NEW t \in Registers, NEW k \in 0 .. 8
  PROVE  At(t, k) \in Registers
BY DEF At, Registers, FPUSTACK_SZ

LEMMA AtTop == ASSUME NEW t \in Registers PROVE At(t, 0) = t
BY DEF At, Registers, FPUSTACK_SZ

LEMMA AtDistinct ==
  ASSUME NEW t \in Registers, NEW j \in Registers, NEW k \in Registers, At(t, j) = At(t, k)
  PROVE  j = k
BY DEF At, Registers, FPUSTACK_SZ

LEMMA AtAfterPush ==
  ASSUME NEW t \in Registers, NEW u, u = (FPUSTACK_SZ + t - 1) % FPUSTACK_SZ
  PROVE  /\ u \in Registers
         /\ \A k \in Registers \ {7} : At(u, k + 1) = At(t, k)
         /\ u = At(t, 7)
BY DEF At, Registers, FPUSTACK_SZ

LEMMA AtAfterPop ==
  ASSUME NEW t \in Registers, NEW u, u = (FPUSTACK_SZ + t + 1) % FPUSTACK_SZ
  PROVE  /\ u \in Registers
         /\ \A k \in Registers \ {7} : At(u, k) = At(t, k + 1)
         /\ t = At(u, 7)
BY DEF At, Registers, FPUSTACK_SZ

-----------------------------------------------------------------------------
(* The ring under a push and a pop. *)

Down(top) == (FPUSTACK_SZ + top - 1) % FPUSTACK_SZ
Up(top) == (FPUSTACK_SZ + top + 1) % FPUSTACK_SZ
Pushed(regs, top, v) == [regs EXCEPT ![Down(top)] = v]
Popped(regs, top) == [regs EXCEPT ![top] = Null]

Ring(regs, top, d) ==
  /\ regs \in [Registers -> FPUValues \cup {Null}]
  /\ top \in Registers
  /\ d \in 0 .. FPUSTACK_SZ
  /\ \A k \in Registers : regs[At(top, k)] = Null <=> k >= d

LEMMA RingAfterPush ==
  ASSUME NEW regs, NEW t, NEW d, Ring(regs, t, d), d < FPUSTACK_SZ, NEW v \in FPUValues
  PROVE  /\ Ring(Pushed(regs, t, v), Down(t), d + 1)
         /\ Pushed(regs, t, v)[At(Down(t), 0)] = v
         /\ \A k \in Registers \ {7} : Pushed(regs, t, v)[At(Down(t), k + 1)] = regs[At(t, k)]
<1> DEFINE u == Down(t)
           after == Pushed(regs, t, v)
<1>1. /\ regs \in [Registers -> FPUValues \cup {Null}] /\ t \in Registers /\ d \in 0 .. 7
  BY DEF Ring, FPUSTACK_SZ
<1>2. /\ u \in Registers
      /\ \A k \in Registers \ {7} : At(u, k + 1) = At(t, k)
      /\ u = At(t, 7)
  BY <1>1, AtAfterPush DEF Down
<1>3. At(u, 0) = u /\ after[u] = v /\ v # Null
  BY <1>1, <1>2, AtTop, FPUAssumption DEF Pushed
<1>4. ASSUME NEW k \in Registers \ {7}
      PROVE  after[At(u, k + 1)] = regs[At(t, k)]
  <2>1. k \in Registers /\ 7 \in Registers /\ k # 7 /\ k \in 0 .. 8
    BY DEF Registers, FPUSTACK_SZ
  <2>2. At(t, k) \in Registers /\ At(t, k) # u
    BY <1>1, <1>2, <2>1, AtDistinct, AtIsARegister
  <2> QED BY <1>1, <1>2, <2>2 DEF Pushed
<1>5. ASSUME NEW k \in Registers PROVE after[At(u, k)] = Null <=> k >= d + 1
  <2>1. CASE k = 0
    BY <1>1, <1>3, <2>1
  <2>2. CASE k # 0
    <3>1. k - 1 \in Registers \ {7} /\ (k - 1) + 1 = k
      BY <2>2 DEF Registers, FPUSTACK_SZ
    <3>2. after[At(u, k)] = regs[At(t, k - 1)]
      BY <3>1, <1>4
    <3>3. regs[At(t, k - 1)] = Null <=> k - 1 >= d
      BY <3>1 DEF Ring
    <3> QED BY <1>1, <3>1, <3>2, <3>3 DEF Registers, FPUSTACK_SZ
  <2> QED BY <2>1, <2>2
<1>6. after \in [Registers -> FPUValues \cup {Null}]
  BY <1>1, <1>2 DEF Pushed
<1> HIDE DEF u, after
<1> QED BY <1>1, <1>2, <1>3, <1>4, <1>5, <1>6 DEF Ring, FPUSTACK_SZ, u, after

LEMMA RingAfterPop ==
  ASSUME NEW regs, NEW t, NEW d, Ring(regs, t, d), d > 0
  PROVE  /\ Ring(Popped(regs, t), Up(t), d - 1)
         /\ \A k \in Registers \ {7} : Popped(regs, t)[At(Up(t), k)] = regs[At(t, k + 1)]
<1> DEFINE u == Up(t)
           after == Popped(regs, t)
<1>1. /\ regs \in [Registers -> FPUValues \cup {Null}] /\ t \in Registers /\ d \in 1 .. 8
  BY DEF Ring, FPUSTACK_SZ
<1>2. /\ u \in Registers
      /\ \A k \in Registers \ {7} : At(u, k) = At(t, k + 1)
      /\ t = At(u, 7)
  BY <1>1, AtAfterPop DEF Up
<1>3. ASSUME NEW k \in Registers \ {7} PROVE after[At(u, k)] = regs[At(t, k + 1)]
  <2>1. k \in Registers /\ 7 \in Registers /\ k # 7 /\ k \in 0 .. 8
    BY DEF Registers, FPUSTACK_SZ
  <2>2. At(u, k) \in Registers
    BY <1>2, <2>1, AtIsARegister
  <2>3. At(u, k) # At(u, 7)
    BY <1>2, <2>1, AtDistinct
  <2> QED BY <1>1, <1>2, <2>2, <2>3 DEF Popped
<1>4. ASSUME NEW k \in Registers PROVE after[At(u, k)] = Null <=> k >= d - 1
  <2>1. CASE k = 7
    BY <1>1, <1>2, <2>1 DEF Popped
  <2>2. CASE k # 7
    <3>1. k \in Registers \ {7} /\ k + 1 \in Registers
      BY <2>2 DEF Registers, FPUSTACK_SZ
    <3>2. regs[At(t, k + 1)] = Null <=> k + 1 >= d
      BY <3>1 DEF Ring
    <3> QED BY <1>1, <1>3, <3>1, <3>2 DEF Registers, FPUSTACK_SZ
  <2> QED BY <2>1, <2>2
<1>5. after \in [Registers -> FPUValues \cup {Null}]
  BY <1>1, <1>2 DEF Popped
<1> HIDE DEF u, after
<1> QED BY <1>1, <1>2, <1>3, <1>4, <1>5 DEF Ring, FPUSTACK_SZ, u, after

LEMMA RingAfterSet ==
  ASSUME NEW regs, NEW t, NEW d, Ring(regs, t, d), NEW i \in Registers, i < d, NEW w \in FPUValues,
         NEW after, after = [regs EXCEPT ![At(t, i)] = w]
  PROVE  /\ Ring(after, t, d)
         /\ \A k \in Registers : after[At(t, k)] = IF k = i THEN w ELSE regs[At(t, k)]
<1>1. /\ regs \in [Registers -> FPUValues \cup {Null}] /\ t \in Registers /\ d \in 0 .. FPUSTACK_SZ
  BY DEF Ring
<1>2. \A k \in Registers : k \in 0 .. 8 /\ At(t, k) \in Registers
  BY <1>1, AtIsARegister DEF Registers, FPUSTACK_SZ
<1>3. ASSUME NEW k \in Registers
      PROVE  after[At(t, k)] = IF k = i THEN w ELSE regs[At(t, k)]
  BY <1>1, <1>2, AtDistinct
<1>4. ASSUME NEW k \in Registers PROVE after[At(t, k)] = Null <=> k >= d
  <2>1. CASE k = i
    <3>1. after[At(t, k)] \in FPUValues /\ ~(k >= d)
      BY <1>1, <1>3, <2>1 DEF Registers, FPUSTACK_SZ
    <3> QED BY <3>1, FPUAssumption
  <2>2. CASE k # i
    BY <1>3, <2>2 DEF Ring
  <2> QED BY <2>1, <2>2
<1>5. after \in [Registers -> FPUValues \cup {Null}]
  BY <1>1, <1>2
<1> QED BY <1>1, <1>3, <1>4, <1>5 DEF Ring

\* What stands below the depth is a value.
LEMMA OperandsAreValues ==
  ASSUME NEW regs, NEW t, NEW d, Ring(regs, t, d), NEW k \in Registers
  PROVE  /\ regs[At(t, k)] \in FPUValues \cup {Null}
         /\ k < d => regs[At(t, k)] \in FPUValues
         /\ k >= d => regs[At(t, k)] = Null
<1>1. k \in 0 .. 8 /\ At(t, k) \in Registers
  BY AtIsARegister DEF Ring, Registers, FPUSTACK_SZ
<1> QED BY <1>1 DEF Ring, Registers, FPUSTACK_SZ

-----------------------------------------------------------------------------
(* The inductive invariant. *)

FInv ==
  /\ FPUTypeOK
  /\ defined => Ring(Regs, TOP, depth)
  /\ FailsOnUnderflowOnly

LEMMA InvInit == FPUInit => FInv
<1> SUFFICES ASSUME FPUInit PROVE FInv
  OBVIOUS
<1>1. FPUTypeOK /\ FailsOnUnderflowOnly
  BY DEF FPUInit, FPUTypeOK, FailsOnUnderflowOnly, Registers, FPUSTACK_SZ
<1>2. \A k \in Registers : k \in 0 .. 8 /\ 0 \in Registers /\ At(0, k) \in Registers
  BY AtIsARegister DEF Registers, FPUSTACK_SZ
<1>3. Ring(Regs, TOP, depth)
  BY <1>1, <1>2 DEF FPUInit, Ring, FPUTypeOK, Registers, FPUSTACK_SZ
<1> QED BY <1>1, <1>3 DEF FInv

LEMMA InvLoad ==
  ASSUME FInv, ~failed, defined, NEW v \in FPUValues, raiseLoadIntToFloatRegInstr(v)
  PROVE  FInv'
<1>1. Ring(Regs, TOP, depth) /\ Regs' = Pushed(Regs, TOP, v) /\ TOP' = Down(TOP)
  BY DEF FInv, raiseLoadIntToFloatRegInstr, pushFPURegisterStack, Pushed, Down
<1>2. Down(TOP) \in Registers /\ depth \in 0 .. 8
  BY <1>1 DEF Ring, Registers, FPUSTACK_SZ, Down
<1>3. Regs' \in [Registers -> FPUValues \cup {Null}] /\ TOP' \in Registers /\ depth' \in Nat
  BY <1>1, <1>2 DEF FInv, FPUTypeOK, raiseLoadIntToFloatRegInstr, Pushed
<1>4. ASSUME defined' PROVE Ring(Regs', TOP', depth')
  <2>1. depth < FPUSTACK_SZ /\ depth' = depth + 1
    BY <1>4 DEF raiseLoadIntToFloatRegInstr
  <2> QED BY <1>1, <2>1, RingAfterPush
<1> QED BY <1>3, <1>4 DEF FInv, FPUTypeOK, FailsOnUnderflowOnly, raiseLoadIntToFloatRegInstr

LEMMA InvStore ==
  ASSUME FInv, ~failed, defined, raiseStoreIntToFloatRegInstr
  PROVE  FInv'
<1>1. Ring(Regs, TOP, depth) /\ Regs \in [Registers -> FPUValues \cup {Null}] /\ TOP \in Registers
      /\ depth \in 0 .. 8 /\ 0 \in Registers /\ Up(TOP) \in Registers
  BY DEF FInv, Ring, Registers, FPUSTACK_SZ, Up
<1>2. depth' = depth - 1 /\ (defined' <=> depth > 0)
  BY DEF raiseStoreIntToFloatRegInstr
<1>3. CASE Regs[At(TOP, 0)] = Null
  <2>1. depth = 0 /\ UNCHANGED <<Regs, TOP>>
    BY <1>1, <1>3, OperandsAreValues, FPUAssumption
       DEF raiseStoreIntToFloatRegInstr, getFPURegisterStackValueAt, Fail
  <2> QED BY <1>1, <1>2, <2>1 DEF FInv, FPUTypeOK, FailsOnUnderflowOnly
<1>4. CASE Regs[At(TOP, 0)] # Null
  <2>1. depth > 0 /\ Regs' = Popped(Regs, TOP) /\ TOP' = Up(TOP) /\ failed' = failed
    BY <1>1, <1>4, OperandsAreValues
       DEF raiseStoreIntToFloatRegInstr, getFPURegisterStackValueAt, popFPURegisterStack, Popped, Up
  <2>2. Ring(Regs', TOP', depth')
    BY <1>1, <1>2, <2>1, RingAfterPop
  <2> QED BY <1>1, <1>2, <2>1, <2>2 DEF FInv, FPUTypeOK, FailsOnUnderflowOnly, Ring
<1> QED BY <1>3, <1>4

LEMMA InvArith ==
  ASSUME FInv, ~failed, defined, NEW i \in Registers, raiseFPURegisterOpInstr(i)
  PROVE  FInv'
<1> DEFINE top == Regs[At(TOP, 0)]
           other == Regs[At(TOP, i)]
           set == [Regs EXCEPT ![At(TOP, i)] = Combine(other, top)]
<1>1. Ring(Regs, TOP, depth) /\ Regs \in [Registers -> FPUValues \cup {Null}] /\ TOP \in Registers
      /\ depth \in 0 .. 8 /\ 0 \in Registers /\ Up(TOP) \in Registers /\ i \in 0 .. 7
  BY DEF FInv, Ring, Registers, FPUSTACK_SZ, Up
<1>2. depth' = depth - 1 /\ (defined' <=> i < depth)
  BY DEF raiseFPURegisterOpInstr
<1>3. CASE top = Null \/ other = Null
  <2>1. depth <= i /\ UNCHANGED <<Regs, TOP>>
    BY <1>1, <1>3, OperandsAreValues, FPUAssumption
       DEF raiseFPURegisterOpInstr, getFPURegisterStackValueAt, Fail
  <2> QED BY <1>1, <1>2, <2>1 DEF FInv, FPUTypeOK, FailsOnUnderflowOnly
<1>4. CASE top # Null /\ other # Null
  <2>1. i < depth /\ 0 < depth /\ top \in FPUValues /\ other \in FPUValues
    BY <1>1, <1>4, OperandsAreValues
  <2>2. Regs' = Popped(set, TOP) /\ TOP' = Up(TOP) /\ failed' = failed
    BY <1>4 DEF raiseFPURegisterOpInstr, getFPURegisterStackValueAt, setFPURegisterStackValueAt,
                popFPURegisterStack, Popped, Up
  <2>3. Ring(set, TOP, depth)
    BY <1>1, <2>1, RingAfterSet, FPUAssumption
  <2>4. Ring(Regs', TOP', depth')
    BY <1>2, <2>1, <2>2, <2>3, RingAfterPop
  <2>5. FPUTypeOK'
    <3>1. depth' \in Nat
      BY <2>4 DEF Ring, FPUSTACK_SZ
    <3> QED BY <2>4, <3>1 DEF FPUTypeOK, Ring
  <2> QED BY <2>2, <2>4, <2>5 DEF FInv, FailsOnUnderflowOnly
<1> QED BY <1>3, <1>4

\* What the ring holds, as a sequence: as long as the depth, the registers from the top on.
StackOf(regs, top, d) == [k \in 1 .. d |-> regs[At(top, k - 1)]]

LEMMA StackLength ==
  ASSUME NEW regs, NEW t, NEW d, Ring(regs, t, d)
  PROVE  /\ d \in Nat /\ d \in 0 .. 8
         /\ StackOf(regs, t, d) \in Seq(FPUValues)
         /\ Len(StackOf(regs, t, d)) = d
         /\ \A k \in 1 .. d : StackOf(regs, t, d)[k] = regs[At(t, k - 1)]
<1>1. d \in 0 .. 8 /\ d \in Nat
  BY DEF Ring, FPUSTACK_SZ
<1>2. \A k \in 1 .. d : k - 1 \in Registers /\ k - 1 < d
  BY <1>1 DEF Registers, FPUSTACK_SZ
<1>3. \A k \in 1 .. d : regs[At(t, k - 1)] \in FPUValues
  BY <1>2, OperandsAreValues
<1>4. StackOf(regs, t, d) \in [1 .. d -> FPUValues]
  BY <1>3 DEF StackOf
<1>5. StackOf(regs, t, d) \in Seq(FPUValues)
  BY <1>1, <1>4, SeqDef
<1> QED BY <1>1, <1>4, <1>5, LenProperties DEF StackOf

LEMMA InvStep == FInv /\ [FPUNext]_fpuVars => FInv'
<1> SUFFICES ASSUME FInv, [FPUNext]_fpuVars PROVE FInv'
  OBVIOUS
<1>1. CASE UNCHANGED fpuVars
  BY <1>1 DEF fpuVars, FInv, FPUTypeOK, FailsOnUnderflowOnly, Ring
<1>2. CASE FPUNext
  <2>0. ~failed /\ defined /\ Ring(Regs, TOP, depth)
    BY <1>2 DEF FPUNext, FInv
  <2>1. ASSUME NEW v \in FPUValues, raiseLoadIntToFloatRegInstr(v) PROVE FInv'
    BY <2>0, <2>1, InvLoad
  <2>2. CASE raiseStoreIntToFloatRegInstr
    BY <2>0, <2>2, InvStore
  <2>3. ASSUME NEW i \in Registers, raiseFPURegisterOpInstr(i) PROVE FInv'
    BY <2>0, <2>3, InvArith
  <2>4. CASE Branch
    BY <2>0, <2>4 DEF Branch, FInv, FPUTypeOK, FailsOnUnderflowOnly, Ring
  <2>5. CASE OtherArm
    <3>1. UNCHANGED <<Regs, TOP, failed>> /\ ~failed'
      BY <2>0, <2>5 DEF OtherArm
    <3>2. ASSUME defined' PROVE depth' = depth
      <4>1. Stack = saved /\ depth' = Len(saved)
        BY <2>5, <3>2 DEF OtherArm
      <4> QED BY <2>0, <4>1, StackLength DEF Stack, StackOf
    <3> QED BY <2>0, <3>1, <3>2 DEF FInv, FPUTypeOK, FailsOnUnderflowOnly, Ring
  <2> QED BY <1>2, <2>1, <2>2, <2>3, <2>4, <2>5 DEF FPUNext
<1> QED BY <1>1, <1>2

\* The types of the ring, that it holds the stack of the machine and nothing else, and that
\* raising gives up only where the machine has no operand (push-, pop-, get- and
\* setFPURegisterStackValueAt, and the instructions that use them).
THEOREM RingInvariant == FPUSpec => [](FPUTypeOK /\ RingIsTheStack /\ FailsOnUnderflowOnly)
<1>1. FInv => FPUTypeOK /\ RingIsTheStack /\ FailsOnUnderflowOnly
  <2>1. FPUSTACK_SZ = 8 /\ Registers = 0 .. FPUSTACK_SZ - 1
    BY DEF FPUSTACK_SZ, Registers
  <2> QED BY <2>1 DEF FInv, Ring, RingIsTheStack
<1> QED BY <1>1, InvInit, InvStep, PTL DEF FPUSpec

-----------------------------------------------------------------------------
(* The refinement: the ring implements the stack of the machine. *)

LEMMA LoadIsLoad ==
  ASSUME FInv, defined, defined', NEW v \in FPUValues, raiseLoadIntToFloatRegInstr(v)
  PROVE  X!Load(v)
<1>1. Ring(Regs, TOP, depth) /\ Regs' = Pushed(Regs, TOP, v) /\ TOP' = Down(TOP)
      /\ depth < FPUSTACK_SZ /\ depth' = depth + 1
  BY DEF FInv, raiseLoadIntToFloatRegInstr, pushFPURegisterStack, Pushed, Down
<1>2. /\ Ring(Regs', TOP', depth')
      /\ Regs'[At(TOP', 0)] = v
      /\ \A k \in Registers \ {7} : Regs'[At(TOP', k + 1)] = Regs[At(TOP, k)]
  BY <1>1, RingAfterPush
<1>3. Stack = StackOf(Regs, TOP, depth) /\ Stack' = StackOf(Regs', TOP', depth')
  BY DEF Stack, StackOf
<1>4. /\ depth \in 0 .. 7
      /\ Stack \in Seq(FPUValues) /\ Len(Stack) = depth
      /\ \A k \in 1 .. depth : Stack[k] = Regs[At(TOP, k - 1)]
  BY <1>1, <1>3, StackLength DEF FPUSTACK_SZ
<1>5. /\ Stack' \in Seq(FPUValues) /\ Len(Stack') = depth + 1
      /\ \A k \in 1 .. depth + 1 : Stack'[k] = Regs'[At(TOP', k - 1)]
  BY <1>1, <1>2, <1>3, StackLength
<1>6. /\ <<v>> \in Seq(FPUValues) /\ Len(<<v>>) = 1 /\ <<v>>[1] = v
  OBVIOUS
<1>7. /\ <<v>> \o Stack \in Seq(FPUValues) /\ Len(<<v>> \o Stack) = depth + 1
      /\ \A k \in 1 .. depth + 1 : (<<v>> \o Stack)[k] = IF k <= 1 THEN v ELSE Stack[k - 1]
  <2>1. \A k \in 1 .. depth + 1 : k <= 1 => k = 1
    BY <1>4
  <2> QED BY <1>4, <1>6, <2>1, ConcatProperties
<1>8. ASSUME NEW k \in 1 .. depth + 1 PROVE Stack'[k] = (<<v>> \o Stack)[k]
  <2>1. CASE k = 1
    BY <1>2, <1>4, <1>5, <1>7, <2>1
  <2>2. CASE k # 1
    <3>1. k - 1 \in 1 .. depth /\ k - 2 \in Registers \ {7} /\ ~(k <= 1)
          /\ (k - 2) + 1 = k - 1 /\ (k - 1) - 1 = k - 2
      BY <1>4, <2>2 DEF Registers, FPUSTACK_SZ
    <3>2. Stack'[k] = Regs[At(TOP, k - 2)] /\ Stack[k - 1] = Regs[At(TOP, k - 2)]
      BY <1>2, <1>4, <1>5, <3>1
    <3> QED BY <1>7, <3>1, <3>2
  <2> QED BY <2>1, <2>2
<1>9. Stack' = <<v>> \o Stack
  BY <1>5, <1>7, <1>8, SeqEqual
<1> QED BY <1>1, <1>4, <1>9 DEF X!Load, raiseLoadIntToFloatRegInstr

\* A pop takes the head.
LEMMA PopIsTail ==
  ASSUME NEW regs, NEW t, NEW d, Ring(regs, t, d), d > 0
  PROVE  /\ StackOf(regs, t, d) # <<>>
         /\ StackOf(regs, t, d)[1] = regs[At(t, 0)]
         /\ StackOf(Popped(regs, t), Up(t), d - 1) = Tail(StackOf(regs, t, d))
<1> DEFINE s == StackOf(regs, t, d)
           p == StackOf(Popped(regs, t), Up(t), d - 1)
<1>1. /\ Ring(Popped(regs, t), Up(t), d - 1)
      /\ \A k \in Registers \ {7} : Popped(regs, t)[At(Up(t), k)] = regs[At(t, k + 1)]
  <2>1. Ring(Popped(regs, t), Up(t), d - 1)
    BY RingAfterPop
  <2>2. \A k \in Registers \ {7} : Popped(regs, t)[At(Up(t), k)] = regs[At(t, k + 1)]
    BY RingAfterPop
  <2> QED BY <2>1, <2>2
<1>2. /\ d \in 1 .. 8 /\ s \in Seq(FPUValues) /\ Len(s) = d
      /\ \A k \in 1 .. d : s[k] = regs[At(t, k - 1)]
  BY StackLength
<1>3. /\ p \in Seq(FPUValues) /\ Len(p) = d - 1
      /\ \A k \in 1 .. d - 1 : p[k] = Popped(regs, t)[At(Up(t), k - 1)]
  BY <1>1, StackLength
<1>4. s # <<>> /\ s[1] = regs[At(t, 0)]
  BY <1>2, EmptySeq
<1> HIDE DEF s, p
<1>5. Tail(s) \in Seq(FPUValues) /\ Len(Tail(s)) = d - 1
      /\ \A k \in 1 .. d - 1 : Tail(s)[k] = s[k + 1]
  BY <1>2, <1>4, HeadTailProperties
<1>6. ASSUME NEW k \in 1 .. d - 1 PROVE p[k] = Tail(s)[k]
  <2>1. k - 1 \in Registers \ {7} /\ (k - 1) + 1 = k /\ k + 1 \in 1 .. d /\ (k + 1) - 1 = k
    BY <1>2 DEF Registers, FPUSTACK_SZ
  <2>2. p[k] = regs[At(t, k)] /\ s[k + 1] = regs[At(t, k)]
    BY <1>1, <1>2, <1>3, <2>1
  <2> QED BY <1>5, <2>2
<1>7. p = Tail(s)
  BY <1>3, <1>5, <1>6, SeqEqual
<1> QED BY <1>4, <1>7 DEF s, p

LEMMA StoreIsStore ==
  ASSUME FInv, defined, defined', raiseStoreIntToFloatRegInstr
  PROVE  X!Store
<1>1. Ring(Regs, TOP, depth) /\ depth > 0 /\ depth' = depth - 1 /\ 0 \in Registers /\ 0 < depth
  <2>1. Ring(Regs, TOP, depth) /\ depth > 0 /\ depth' = depth - 1
    BY DEF FInv, raiseStoreIntToFloatRegInstr
  <2> QED BY <2>1 DEF Registers, FPUSTACK_SZ, Ring
<1>2. Regs[At(TOP, 0)] # Null
  BY <1>1, OperandsAreValues, FPUAssumption
<1>3. Regs' = Popped(Regs, TOP) /\ TOP' = Up(TOP) /\ stored' = Regs[At(TOP, 0)]
  BY <1>2 DEF raiseStoreIntToFloatRegInstr, getFPURegisterStackValueAt, popFPURegisterStack, Popped, Up
<1>4. Stack = StackOf(Regs, TOP, depth) /\ Stack' = StackOf(Regs', TOP', depth')
  BY DEF Stack, StackOf
<1>5. Stack # <<>> /\ Stack[1] = Regs[At(TOP, 0)] /\ Stack' = Tail(Stack)
  BY <1>1, <1>3, <1>4, PopIsTail
<1>6. Stack \in Seq(FPUValues)
  BY <1>1, <1>4, StackLength
<1>7. Head(Stack) = Stack[1]
  BY <1>5, <1>6
<1> QED BY <1>3, <1>5, <1>7 DEF X!Store, raiseStoreIntToFloatRegInstr

LEMMA OperationIsArith ==
  ASSUME FInv, defined, defined', NEW i \in Registers, raiseFPURegisterOpInstr(i)
  PROVE  X!Arith(i)
<1> DEFINE top == Regs[At(TOP, 0)]
           other == Regs[At(TOP, i)]
           w == Combine(other, top)
           set == [Regs EXCEPT ![At(TOP, i)] = w]
           after == [Stack EXCEPT ![i + 1] = Combine(Stack[i + 1], Stack[1])]
<1>1. Ring(Regs, TOP, depth) /\ i < depth /\ 0 < depth /\ depth' = depth - 1 /\ 0 \in Registers
      /\ depth \in 1 .. 8 /\ i \in 0 .. 7
  <2>1. Ring(Regs, TOP, depth) /\ i < depth /\ depth' = depth - 1
    BY DEF FInv, raiseFPURegisterOpInstr
  <2>2. depth \in 0 .. 8 /\ i \in 0 .. 7 /\ 0 \in Registers
    BY <2>1 DEF Registers, FPUSTACK_SZ, Ring
  <2> QED BY <2>1, <2>2
<1>2. top \in FPUValues /\ other \in FPUValues /\ w \in FPUValues
  BY <1>1, OperandsAreValues, FPUAssumption
<1>3. Regs' = Popped(set, TOP) /\ TOP' = Up(TOP) /\ stored' = stored
  BY <1>2, FPUAssumption
     DEF raiseFPURegisterOpInstr, getFPURegisterStackValueAt, setFPURegisterStackValueAt,
         popFPURegisterStack, Popped, Up
<1>4. Stack = StackOf(Regs, TOP, depth) /\ Stack' = StackOf(Regs', TOP', depth')
  BY DEF Stack, StackOf
<1>5. /\ Stack \in Seq(FPUValues) /\ Len(Stack) = depth
      /\ \A k \in 1 .. depth : Stack[k] = Regs[At(TOP, k - 1)]
  BY <1>1, <1>4, StackLength
<1>6. /\ Ring(set, TOP, depth)
      /\ \A k \in Registers : set[At(TOP, k)] = IF k = i THEN w ELSE Regs[At(TOP, k)]
  BY <1>1, <1>2, RingAfterSet
<1> HIDE DEF set
<1>7. /\ StackOf(set, TOP, depth) \in Seq(FPUValues) /\ Len(StackOf(set, TOP, depth)) = depth
      /\ \A k \in 1 .. depth : StackOf(set, TOP, depth)[k] = set[At(TOP, k - 1)]
  BY <1>6, StackLength
<1>8. Stack[1] = top /\ Stack[i + 1] = other /\ i + 1 \in 1 .. Len(Stack)
  BY <1>1, <1>5
<1>9. /\ after \in Seq(FPUValues) /\ Len(after) = depth
      /\ \A k \in 1 .. depth : after[k] = IF k = i + 1 THEN w ELSE Stack[k]
  BY <1>2, <1>5, <1>8, ExceptSeq
<1>10. ASSUME NEW k \in 1 .. depth PROVE StackOf(set, TOP, depth)[k] = after[k]
  <2>1. k - 1 \in Registers /\ (k - 1 = i <=> k = i + 1)
    BY <1>1 DEF Registers, FPUSTACK_SZ
  <2> QED BY <1>5, <1>6, <1>7, <1>9, <2>1
<1> HIDE DEF after, w
<1>11. StackOf(set, TOP, depth) = after
  BY <1>7, <1>9, <1>10, SeqEqual
<1>12. Stack' = Tail(after)
  BY <1>1, <1>3, <1>4, <1>6, <1>11, PopIsTail
<1> QED BY <1>1, <1>3, <1>5, <1>12 DEF X!Arith, raiseFPURegisterOpInstr, after

\* What is raised for every sequence of loads, stores and operations is what the machine
\* does with its stack, until the machine promises nothing any more.
THEOREM RingImplementsX87 == FPUSpec => ImplementsX87
<1>1. FPUInit => X!Init
  <2> SUFFICES ASSUME FPUInit PROVE X!Init
    OBVIOUS
  <2>1. FInv /\ defined
    BY InvInit DEF FPUInit
  <2>2. Stack \in Seq(FPUValues) /\ Len(Stack) = 0
    BY <2>1, StackLength DEF FInv, Stack, StackOf, FPUInit
  <2>3. Stack = <<>>
    BY <2>2, EmptySeq
  <2> QED BY <2>3 DEF FPUInit, X!Init, X!NotStored
<1>2. FInv /\ [FPUNext]_fpuVars => [X!Next]_(X!machineVars)
  <2> SUFFICES ASSUME FInv, [FPUNext]_fpuVars PROVE [X!Next]_(X!machineVars)
    OBVIOUS
  <2>1. CASE UNCHANGED fpuVars
    BY <2>1 DEF fpuVars, X!machineVars, Stack
  <2>2. CASE ~defined'
    BY <2>2 DEF X!Next
  <2>3. CASE FPUNext /\ defined'
    <3>0. defined /\ Registers = 0 .. FPUSTACK_SZ - 1
      BY <2>3 DEF FPUNext, Registers
    <3>1. ASSUME NEW v \in FPUValues, raiseLoadIntToFloatRegInstr(v) PROVE X!Next
      BY <2>3, <3>0, <3>1, LoadIsLoad DEF X!Next
    <3>2. CASE raiseStoreIntToFloatRegInstr
      BY <2>3, <3>0, <3>2, StoreIsStore DEF X!Next
    <3>3. ASSUME NEW i \in Registers, raiseFPURegisterOpInstr(i) PROVE X!Next
      BY <2>3, <3>0, <3>3, OperationIsArith DEF X!Next
    <3>4. CASE Branch
      BY <3>0, <3>4 DEF Branch, Stack, X!Branch, X!Next
    <3>5. CASE OtherArm
      <4>1. Stack = saved /\ depth' = Len(saved) /\ UNCHANGED <<Regs, TOP, stored, saved>>
        BY <2>3, <3>5 DEF OtherArm
      <4>2. depth' = depth
        BY <3>0, <4>1, StackLength DEF FInv, Stack, StackOf
      <4>3. Stack' = saved /\ defined' = defined
        BY <2>3, <3>0, <4>1, <4>2, <3>5 DEF Stack, OtherArm
      <4> QED BY <3>0, <4>1, <4>3 DEF X!OtherArm, X!Next
    <3> QED BY <2>3, <3>1, <3>2, <3>3, <3>4, <3>5 DEF FPUNext
  <2> QED BY <2>1, <2>2, <2>3
<1> QED BY <1>1, <1>2, InvInit, InvStep, PTL DEF FPUSpec, ImplementsX87, X!Spec
=============================================================================
