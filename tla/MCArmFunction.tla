----------------------------- MODULE MCArmFunction -----------------------------
EXTENDS ArmFunction

I(op, d, n, m, imm) == Instr(op, d, n, m, imm)
Return == I("BX_RET", "-", "-", "-", 0)
PopAll(n) == I("POP", "-", "-", "pc", n)

\* Frames as clang and GNU make them: what comes first and last, and two locals.
NoFrame == [pre |-> <<>>, post |-> <<Return>>, base |-> "sp", low |-> 0, high |-> 4]
SpFrame == [pre |-> <<I("SUBri", "sp", "sp", "-", 8)>>, post |-> <<I("ADDri", "sp", "sp", "-", 8), Return>>,
            base |-> "sp", low |-> 0, high |-> 4]
ClangFrame ==
  [pre |-> <<I("PUSH", "-", "-", "-", 2), I("MOVr", "fp", "sp", "-", 0), I("SUBri", "sp", "sp", "-", 8)>>,
   post |-> <<I("MOVr", "sp", "fp", "-", 0), PopAll(2)>>, base |-> "fp", low |-> -8, high |-> -4]
GnuLeaf ==
  [pre |-> <<I("STR_PRE_IMM", "fp", "sp", "-", -4), I("ADDri", "fp", "sp", "-", 0), I("SUBri", "sp", "sp", "-", 12)>>,
   post |-> <<I("ADDri", "sp", "fp", "-", 0), I("LDR_POST_IMM", "fp", "sp", "-", 4), Return>>,
   base |-> "fp", low |-> -12, high |-> -8]
GnuFrame ==
  [pre |-> <<I("PUSH", "-", "-", "-", 2), I("ADDri", "fp", "sp", "-", 4), I("SUBri", "sp", "sp", "-", 8)>>,
   post |-> <<I("SUBri", "sp", "fp", "-", 4), PopAll(2)>>, base |-> "fp", low |-> -12, high |-> -8]
SavingFrame ==
  [pre |-> <<I("PUSH", "-", "-", "-", 3), I("ADDri", "fp", "sp", "-", 8), I("SUBri", "sp", "sp", "-", 12)>>,
   post |-> <<I("SUBri", "sp", "fp", "-", 8), PopAll(3)>>, base |-> "fp", low |-> -20, high |-> -16]

\* Arrays, an integer and an initialized array; strings with no, one and two formats.
MCSymbols == {[at |-> 100, size |-> 8, bss |-> TRUE], [at |-> 110, size |-> 4, bss |-> TRUE],
              [at |-> 120, size |-> 8, bss |-> FALSE]}
MCStrings == 200 :> 0 @@ 210 :> 1 @@ 220 :> 2
MCCallees == [g |-> [args |-> 1, library |-> FALSE], h |-> [args |-> 2, library |-> FALSE],
              puts |-> [args |-> 1, library |-> TRUE], printf |-> [args |-> 1, library |-> TRUE],
              five |-> [args |-> 5, library |-> FALSE]]

Call(g, n) == I("BL", "-", g, "-", n)
Locals(f) ==
  {I("LDRi12", "r0", f.base, "-", f.low), I("STRi12", "r0", f.base, "-", f.low),
   I("STRi12", "r1", f.base, "-", f.high), I("LDRi12", "r1", f.base, "-", f.high),
   I("STRBi12", "r0", f.base, "-", f.high), I("LDRBi12", "r0", f.base, "-", f.high),
   I("LDRi12", "r0", "sp", "-", 4), I("LDRi12", "r0", "fp", "-", 8), I("ADDri", "r0", "sp", "-", 4),
   I("STRH", "r1", f.base, "-", f.low), I("MOVr", "r5", "sp", "-", 0), I("STRi12", "r1", "r5", "-", 4)}
Plain ==
  {I("MOVi", "r0", "-", "-", 5), I("MOVi", "r1", "-", "-", 5), I("MOVr", "r1", "r0", "-", 0), I("MOVr", "r0", "r0", "-", 0),
   I("ADDri", "r0", "r1", "-", 1), I("SUBri", "r1", "r0", "-", 1),
   I("LDRi12", "r1", "r0", "-", 4), I("STRi12", "r1", "r0", "-", 4), I("LDRi12", "r0", "r0", "-", 0),
   I("LDRrs", "r1", "r0", "r1", 2), I("LDR_PRE_IMM", "r1", "r0", "-", 4), I("LDR_POST_IMM", "r1", "r0", "-", 4),
   I("STR_POST_IMM", "r1", "r0", "-", 4), I("STRH", "r1", "r0", "-", 2), I("LDRrs", "r0", "r0", "r1", 0)}
Leaf ==
  {I("MOVi", "r1", "-", "-", 5), I("MOVr", "r1", "r0", "-", 0), I("SUBri", "r1", "r0", "-", 1), I("STRH", "r1", "r0", "-", 0),
   I("LDRi12", "r1", "r0", "-", 4), I("STRi12", "r1", "r0", "-", 4), I("LDRi12", "r0", "r0", "-", 0),
   I("LDR_PRE_IMM", "r1", "r0", "-", 4), I("LDRrs", "r0", "r0", "r1", 0), I("LDRBi12", "r1", "r0", "-", 1)}
Calls ==
  {Call("g", 1), Call("h", 2), Call("puts", 1), Call("printf", 2), Call("five", 5)}
Literals == {I("LDRpc", "r0", "-", "-", k) : k \in 1 .. 7}
MCLiterals == <<100, 110, 120, 200, 210, 7, 220>>

\* Addresses, in the order of the blocks.
Addressed(blocks) ==
  [b \in DOMAIN blocks |->
     LET start == FoldLeft(LAMBDA n, k : n + Len(blocks[k]), 4, [k \in 1 .. b - 1 |-> k]) IN
     [j \in DOMAIN blocks[b] |-> [blocks[b][j] EXCEPT !.at = 4 * (start + j)]]]
Program(blocks, succs) ==
  [params |-> 2, code |-> Addressed(blocks), succs |-> succs, literals |-> MCLiterals]

Single(f, body) == Program(<<f.pre \o body \o f.post>>, <<<<>>>>)
\* Two blocks, with a branch between them or not; three, the first with a condition.
Pair(f, x, y, jump) == Program(<<f.pre \o <<x>> \o jump, <<y>> \o f.post>>, <<<<2>>, <<>>>>)
Branch == I("B", "-", "-", "-", 0)
Fork(f, x, y, z) ==
  Program(<<f.pre \o <<x, I("Bcc", "-", "-", "-", 0)>>, <<y>> \o f.post, <<z>> \o f.post>>, <<<<3, 2>>, <<>>, <<>>>>)

Small == {I("MOVi", "r0", "-", "-", 5), I("STRi12", "r1", "r0", "-", 4), I("LDRi12", "r1", "r0", "-", 4),
          Call("g", 1), Call("h", 2), I("MOVr", "r1", "r0", "-", 0)}
Slots(f) == {I("LDRi12", "r0", f.base, "-", f.low), I("STRi12", "r0", f.base, "-", f.low),
             I("STRi12", "r1", f.base, "-", f.high), I("LDRi12", "r1", f.base, "-", f.high)}

MCPrograms ==
  UNION {{Single(f, <<x, y>>) : x, y \in Plain \cup Calls \cup Literals \cup Locals(f)} : f \in {SpFrame, ClangFrame, GnuFrame}}
  \cup {Single(NoFrame, <<x, y, z>>) : x, y, z \in Leaf}
  \cup UNION {{Single(f, <<x, y, z>>) : x, y, z \in Small \cup Slots(f)} : f \in {GnuLeaf, SavingFrame}}
  \cup {Single(ClangFrame, <<I("MOVi", "r1", "-", "-", 5), x, y, z>>) : x, y, z \in Literals \cup {Call("puts", 1), Call("printf", 2)}}
  \cup UNION {{Pair(f, x, y, j) : x, y \in Small \cup Slots(f), j \in {<<>>, <<Branch>>}} : f \in {ClangFrame, GnuFrame}}
  \cup UNION {{Fork(f, x, y, z) : x, y, z \in Small \cup Slots(f)} : f \in {SpFrame}}
=============================================================================
