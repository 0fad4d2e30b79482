---- MODULE MCValueTracker ----
(* Instances of ValueTracker: functions of four blocks, the last one the exit. *)
EXTENDS ValueTracker

MCRegs == {"A", "R", "Q", "F"}
MCArgRegs == <<"R", "Q">>

\* Loops with the test at the top and at the bottom, a diamond, two loops in one another,
\* a loop that is entered in the middle.
Shapes == {
  <<<<1>>, <<1, 2>>, <<3>>, <<>>>>,
  <<<<1, 2>>, <<3>>, <<3>>, <<>>>>,
  <<<<1>>, <<2, 3>>, <<1>>, <<>>>>,
  <<<<1>>, <<2>>, <<1, 3>>, <<>>>>,
  <<<<1>>, <<2, 3>>, <<2, 1>>, <<>>>>,
  <<<<2, 1>>, <<2>>, <<1, 3>>, <<>>>>}

I(op, r, s, w) == [op |-> op, reg |-> r, src |-> s, w |-> w]
A(op) == I(op, "A", "A", 3)
R(op, w) == I(op, "R", "R", w)
F(op) == I(op, "F", "F", 1)
Q(op) == I(op, "Q", "Q", 3)

FunctionsOf(C, exit) ==
  {[code |-> [b \in 0 .. 3 |-> c[b + 1]], succs |-> [b \in 0 .. 3 |-> s[b + 1]]] :
     s \in Shapes, c \in C \X C \X C \X exit}

\* Definitions, reads and both, in blocks of up to two instructions, of the register
\* that calls and returns use and of one that passes arguments.
Returned == {<<>>, <<A("def")>>, <<A("use")>>, <<A("inc")>>, <<A("use"), A("def")>>, <<A("call")>>}
Passed == {<<>>, <<R("def", 3)>>, <<R("use", 3)>>, <<R("inc", 3)>>, <<R("use", 3), R("def", 3)>>,
           <<R("pass", 3)>>}
\* The flags: compared in one block, tested in others.
FlagCode == {<<>>, <<F("call")>>, <<F("jcc")>>, <<F("call"), F("jcc")>>}
\* Halves of registers.
Partial == {<<>>, <<R("def", 2)>>, <<R("def", 3)>>, <<R("use", 2)>>, <<R("pass", 3)>>, <<R("def", 1)>>, <<R("use", 1)>>}
\* A register and a copy of it.
Copied == {<<>>, <<R("def", 3)>>, <<I("mov", "Q", "R", 3)>>, <<R("def", 3), I("mov", "Q", "R", 3)>>,
           <<Q("use"), R("use", 3)>>, <<Q("use"), R("inc", 3)>>}
\* The arguments of a variadic call.
Variadic == {<<>>, <<R("def", 3)>>, <<Q("def")>>, <<Q("vpass")>>, <<R("pass", 3), Q("vpass")>>,
             <<R("def", 3), Q("def"), Q("vpass")>>}

MCPrograms ==
  FunctionsOf(Returned, {<<A("ret")>>}) \cup FunctionsOf(Passed, {<<R("icall", 3)>>, <<R("use", 3)>>})
  \cup FunctionsOf(FlagCode, FlagCode)
  \cup FunctionsOf(Partial, {<<R("use", 2)>>, <<R("pass", 3)>>})
  \cup FunctionsOf(Copied, {<<Q("use"), R("use", 3)>>})
  \cup FunctionsOf(Variadic, {<<>>, <<Q("vpass")>>})
====
