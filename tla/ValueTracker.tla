------------------------------ MODULE ValueTracker ------------------------------
(***************************************************************************)
(* X86RaisedValueTracker: which SSA value stands for a register where it   *)
(* is read.  First the arguments of a function are discovered, the         *)
(* registers it reads before it defines them.  Its blocks are then raised  *)
(* once each, in the order of LoopTraversal; a register that more than one *)
(* definition reaches is promoted to a stack slot, into which every        *)
(* definition is stored at the end of its block, those of blocks not       *)
(* raised yet after the last block.  The raised function then runs beside  *)
(* the machine.                                                            *)
(*                                                                         *)
(* Abstraction: an instruction defines a register, reads one, or both.  A  *)
(* value has three parts, the bits 0-7 (of the 8-bit and 16-bit registers),*)
(* up to 31 and up to 63; its width is the number of parts it has.  A flag *)
(* is a register of one part.  A call is its definition of a register, or  *)
(* one argument that it passes: pass to a prototype, vpass beyond the      *)
(* fixed arguments of a variadic function, icall (the first one) through a *)
(* pointer.                                                                *)
(***************************************************************************)
EXTENDS Naturals, FiniteSets, SequencesExt, FiniteSetsExt, TLC

CONSTANTS LastBlock,   \* the number of the last block; block 0 is the entry
          Regs,        \* the registers
          ArgRegs,     \* those that pass arguments, in order: GPR64ArgRegs64Bit
          Programs,    \* the functions to raise: [code, succs]
          MaxBlocks    \* how many blocks of the raised function run

Blocks == 0 .. LastBlock

ASSUME TrackerAssumption ==
  /\ LastBlock \in Nat /\ MaxBlocks \in Nat
  /\ ToSet(ArgRegs) \subseteq Regs
  /\ \A p \in Programs : \A b \in Blocks :
       /\ 0 \notin ToSet(p.succs[b])
       /\ \A i \in DOMAIN p.code[b] :
            p.code[b][i].op = "icall" => p.code[b][i].src = ArgRegs[1]

VARIABLES
  prog,      \* the function, with the widths of its arguments: [code, succs, args]
  phase,     \* "raise", "branches", "run" or "failed"
  todo,      \* the instructions that are still to be raised in this phase
  raised,    \* the raised function: [defs, ir, toPromote, slots]
  cur,       \* the block that runs next
  regs,      \* the registers of the machine
  env,       \* the last value of every raised definition
  mem,       \* the stack slots
  agree,     \* all reads so far got the value of the machine
  ran        \* the number of blocks that have run

trackerVars == <<prog, phase, todo, raised, cur, regs, env, mem, agree, ran>>

Null == <<>>
Arg(r) == <<"arg", r>>

Widths == 1 .. 3
Zero == <<0>>
Undefined == [k \in Widths |-> Null]
\* A zero extension or a truncation.
Cast(v, w) == [k \in Widths |-> IF k <= w THEN v[k] ELSE Zero]
Argument(r) == [k \in Widths |-> Arg(r)]

-----------------------------------------------------------------------------
(* The control-flow graph. *)

RECURSIVE Closure(_, _)
Closure(S, next) ==
  LET more == S \cup UNION {next[b] : b \in S} IN IF more = S THEN S ELSE Closure(more, next)

succs(b) == ToSet(prog.succs[b])
predecessors(b) == {c \in Blocks : b \in succs(c)}

\* The blocks of Stop that a walk from b against the edges meets first on each path.
FirstAbove(b, Stop) ==
  Closure({b}, [c \in Blocks |-> IF c \in Stop THEN {} ELSE predecessors(c)]) \cap Stop

dominates(d, b) == b \notin Closure({0} \ {d}, [c \in Blocks |-> succs(c) \ {d}])

\* The order of LoopTraversal, each block once: the reverse of a post-order.
RECURSIVE Visit(_, _, _)
Visit(p, bs, acc) ==
  IF bs = <<>> THEN acc
  ELSE IF Head(bs) \in acc.seen THEN Visit(p, Tail(bs), acc)
  ELSE LET b == Head(bs)
           below == Visit(p, p.succs[b], [acc EXCEPT !.seen = @ \cup {b}])
       IN  Visit(p, Tail(bs), [below EXCEPT !.order = <<b>> \o @])
TraversalOrder(p) == Visit(p, <<0>>, [seen |-> {}, order |-> <<>>]).order

Sites(p, b) == [i \in DOMAIN p.code[b] |-> <<b, i>>]
Late(p, s) == p.code[s[1]][s[2]].op = "jcc"
InstsOf(p, late) ==
  SelectSeq(FlattenSeq([n \in DOMAIN TraversalOrder(p) |-> Sites(p, TraversalOrder(p)[n])]),
            LAMBDA s : Late(p, s) = late)

Marked == {"def", "inc", "mov"}
Calls == {"call", "pass", "vpass", "icall"}
\* A return, or a call through a pointer, does without a value that is not found.
Optional == {"ret", "icall"}
Reads == {"inc", "mov", "use", "jcc", "pass", "vpass"} \cup Optional

-----------------------------------------------------------------------------
(* The arguments of the function.                                                  *)

\* LoopTraversal: each block in the order above, and again those that are complete
\* after it; at the end the blocks that never were.
isBlockDone(p, info, b) ==
  /\ info[b].visited
  /\ info[b].completed = info[b].primary
  /\ info[b].processed = Cardinality({c \in Blocks : b \in ToSet(p.succs[c])})

RECURSIVE Work(_, _, _, _)
Work(p, T, queue, primary) ==
  IF queue = <<>> THEN T
  ELSE LET b == Last(queue)
           done == isBlockDone(p, T.info, b)
           Count(acc, s) ==
             IF isBlockDone(p, acc.info, s) THEN acc
             ELSE LET info == [acc.info EXCEPT ![s].processed = @ + (IF primary THEN 1 ELSE 0),
                                               ![s].completed = @ + (IF done THEN 1 ELSE 0)]
                  IN  [info |-> info, queue |-> IF isBlockDone(p, info, s) THEN Append(acc.queue, s)
                                                ELSE acc.queue]
           next == FoldLeft(Count, [info |-> T.info, queue |-> Front(queue)], p.succs[b])
       IN  Work(p, [info |-> next.info, order |-> Append(T.order, b)], next.queue, FALSE)

LoopTraversal(p) ==
  LET Primary(T, b) == Work(p, [T EXCEPT !.info[b].visited = TRUE,
                                         !.info[b].primary = T.info[b].processed], <<b>>, TRUE)
      new == [visited |-> FALSE, primary |-> 0, processed |-> 0, completed |-> 0]
      T == FoldLeft(Primary, [info |-> [b \in Blocks |-> new], order |-> <<>>], TraversalOrder(p))
  IN  T.order \o SelectSeq(TraversalOrder(p), LAMBDA b : ~isBlockDone(p, T.info, b))

\* The arguments of a call to a prototype are read by it; those of other calls, and
\* the return, are not looked at.
ReadsLiveIn == {"inc", "mov", "use", "pass"}

\* Defined in any block before it that was met.
definedBefore(p, D, b) ==
  UNION {D.defs[c] : c \in {c \in DOMAIN D.defs : b \in ToSet(p.succs[c])}}

\* addRegisterToFunctionLiveInSet: of a register and its parts the largest stays.
addLiveIn(D, m) ==
  IF m.op \in ReadsLiveIn /\ m.src \notin D.here
  THEN [D EXCEPT !.live[m.src] = Max({@, m.w})] ELSE D

discoverInBlock(p, D, b) ==
  LET Inst(E, m) ==
        LET F == addLiveIn(E, m) IN
        IF m.op \in Marked \cup {"call"} THEN [F EXCEPT !.here = @ \cup {m.reg}] ELSE F
      E == FoldLeft(Inst, [D EXCEPT !.here = definedBefore(p, D, b)], p.code[b])
  IN  [E EXCEPT !.defs = (b :> E.here) @@ @]

\* buildFuncArgTypeVector: the arguments up to the last one that is read, those that are
\* not read with 64 bits.
discoveredArgs(p) ==
  LET live == FoldLeft(LAMBDA D, b : discoverInBlock(p, D, b),
                       [live |-> [r \in Regs |-> 0], defs |-> <<>>, here |-> {}],
                       LoopTraversal(p)).live
      count == Max({0} \cup {i \in DOMAIN ArgRegs : live[ArgRegs[i]] > 0})
  IN  [r \in ToSet(SubSeq(ArgRegs, 1, count)) |-> IF live[r] > 0 THEN live[r] ELSE 3]

-----------------------------------------------------------------------------
(* The definitions per block.  A block without one is not in DOMAIN defs[r]; a    *)
(* definition that is known to come and not raised yet is Null.                   *)

\* Mutant: only the definitions of raised blocks are known.
initialDefs_Unmarked(p) == [r \in Regs |-> IF r \in DOMAIN p.args THEN 0 :> Null ELSE <<>>]

initialDefs(p) ==
  [r \in Regs |->
     [b \in {c \in Blocks : \/ c = 0 /\ r \in DOMAIN p.args
                            \/ \E i \in DOMAIN p.code[c] :
                                 p.code[c][i].reg = r /\ p.code[c][i].op \in Marked} |-> Null]]

setPhysRegSSAValue(S, r, b, v) == [S EXCEPT !.defs[r] = (b :> v) @@ @]

\* The value, or Null; the arguments stand for themselves in the entry block.
getInBlockRegOrArgDefVal(S, r, b) ==
  IF b \in DOMAIN S.defs[r] /\ S.defs[r][b] # Null THEN S.defs[r][b]
  ELSE IF b = 0 /\ r \in DOMAIN prog.args THEN Arg(r) ELSE Null

\* Mutant: the walk ends at the first definition with a value.
getGlobalReachingDefs_First(S, r, b, allPreds) ==
  LET known == DOMAIN S.defs[r] \cup (IF r \in DOMAIN prog.args THEN {0} ELSE {})
      Found(d) == getInBlockRegOrArgDefVal(S, r, d)
      above == {d \in UNION {FirstAbove(c, known) : c \in predecessors(b)} : Found(d) # Null}
  IN  IF Found(b) # Null THEN {<<b, Found(b)>>}
      ELSE IF above = {} THEN {} ELSE {<<Max(above), Found(Max(above))>>}

\* allPreds: nothing unless every predecessor has one above it.
getGlobalReachingDefs(S, r, b, allPreds) ==
  LET local == getInBlockRegOrArgDefVal(S, r, b)
      known == DOMAIN S.defs[r] \cup (IF r \in DOMAIN prog.args THEN {0} ELSE {})
      above == [c \in predecessors(b) |-> FirstAbove(c, known)]
  IN  IF local # Null THEN {<<b, local>>}
      ELSE IF allPreds /\ \E c \in predecessors(b) : above[c] = {} THEN {}
      ELSE {<<d, getInBlockRegOrArgDefVal(S, r, d)>> : d \in UNION Range(above)}

Ir(op, name, arg, slot, w) == [op |-> op, name |-> name, arg |-> arg, slot |-> slot, w |-> w]
push_back(S, b, i) ==
  [S EXCEPT !.ir[b] = Append(@, i),
            !.width = IF i.name = Null THEN @ ELSE (i.name :> i.w) @@ @]
widthOf(S, v) == IF v[1] = "arg" THEN prog.args[v[2]] ELSE S.width[v]

\* Stored at the end of the block of the definition.  A use of v in a block below is
\* replaced by a load of the slot, unless v is an argument, a load, or cast for the slot.
promotePhysregToStackSlot(S, v, d, slot) ==
  LET stored == push_back(S, d, Ir("store", Null, v, slot, S.slots[slot]))
      Below(b) == b # d /\ dominates(d, b)
      Reload(i) == IF i.arg = v THEN [i EXCEPT !.arg = <<"slot", slot>>] ELSE i
  IN  IF v[1] \in {"arg", "load"} \/ widthOf(S, v) # S.slots[slot] THEN stored
      ELSE [stored EXCEPT !.ir = [b \in Blocks |->
              IF Below(b) THEN [n \in DOMAIN @[b] |-> Reload(@[b][n])] ELSE @[b]]]

\* The type of the slot: 64 bits if a definition is still to come.
AllocTy(S, vals) == IF Null \in vals THEN 3 ELSE Max({widthOf(S, v) : v \in vals})

\* What the definitions rds come to: the one there is, or a load of a slot for all.
joinDefs(S, rds, r, w, b) ==
  LET slot == Len(S.slots) + 1
      ty == AllocTy(S, {rd[2] : rd \in rds})
      load == <<IF ty = w THEN "load" ELSE "cast", slot, b>>
      Store(rd, T) == IF rd[2] = Null THEN [T EXCEPT !.toPromote = @ \cup {<<r, rd[1], slot>>}]
                      ELSE promotePhysregToStackSlot(T, rd[2], rd[1], slot)
      promoted == FoldSet(Store, [S EXCEPT !.slots = Append(@, ty)], rds)
  IN  IF Cardinality(rds) > 1
      THEN [val |-> load,
            fn |-> setPhysRegSSAValue(push_back(promoted, b, Ir("load", load, Null, slot, w)),
                                      r, b, load)]
      ELSE [val |-> IF rds = {} THEN Null ELSE (CHOOSE rd \in rds : TRUE)[2], fn |-> S]

\* The value that reaches the end of block b so far, and the raised function after it
\* was looked up.
getReachingDef(S, r, w, b, allPreds) ==
  joinDefs(S, getGlobalReachingDefs(S, r, b, allPreds), r, w, b)

orArgument(found, r) ==
  IF found.val = Null /\ r \in DOMAIN prog.args THEN [found EXCEPT !.val = Arg(r)] ELSE found
getRegOrArgValue(S, r, w, b) == orArgument(getReachingDef(S, r, w, b, FALSE), r)

-----------------------------------------------------------------------------
(* The arguments of a variadic call: the registers in order, as long as they are   *)
(* defined in the block since the last call or, where that has no call, once before *)
(* it along each edge into it.                                                     *)

sinceCall(b, n) ==
  LET calls == {k \in 1 .. n - 1 : prog.code[b][k].op \in Calls}
  IN  (Max({0} \cup calls) + 1) .. n - 1
definesSinceCall(r, b, n) ==
  \E k \in sinceCall(b, n) : prog.code[b][k].op \in Marked /\ prog.code[b][k].reg = r

noCallBefore(b, n) == sinceCall(b, n) = 1 .. n - 1

\* By the edge into b, the blocks whose definitions the walk up from it ends at.
definitionsAbove(r, b) ==
  LET defining == {d \in Blocks : definesSinceCall(r, d, Len(prog.code[d]) + 1)}
      next == [d \in Blocks |-> IF d \in defining THEN {} ELSE predecessors(d) \ {b}]
  IN  [c \in predecessors(b) \ {b} |-> Closure({c}, next) \cap defining]

\* The definitions found are counted, and compared to the number of edges.
foundVariadic(r, b, n) ==
  LET above == definitionsAbove(r, b) IN
  \/ definesSinceCall(r, b, n)
  \/ /\ noCallBefore(b, n)
     /\ predecessors(b) # {}
     /\ FoldSet(LAMBDA c, k : k + Cardinality(above[c]), 0, DOMAIN above)
          = Cardinality(predecessors(b))

passesVariadic(b, n) ==
  \A i \in 1 .. IndexFirstSubSeq(<<prog.code[b][n].src>>, ArgRegs) :
    foundVariadic(ArgRegs[i], b, n)

-----------------------------------------------------------------------------
(* Raising. *)

Init ==
  /\ \E p \in Programs : prog = [code |-> p.code, succs |-> p.succs, args |-> discoveredArgs(p)]
  /\ phase = "raise"
  /\ todo = InstsOf(prog, FALSE)
  /\ raised = [defs |-> initialDefs(prog), ir |-> [b \in Blocks |-> <<>>],
               toPromote |-> {}, slots |-> <<>>, width |-> <<>>]
  /\ cur = 0
  /\ regs = [r \in Regs |-> IF r \in ToSet(ArgRegs) THEN Argument(r) ELSE Undefined]
  /\ env = <<>>
  /\ mem = <<>>
  /\ agree = TRUE
  /\ ran = 0

\* What a call passes: the value of the whole register, cast later.  For an argument of
\* the prototype that has none it is 0.
orZero(found, op) == IF op = "pass" /\ found.val = Null THEN [found EXCEPT !.val = <<"zero">>]
                     ELSE found
passedArgument(S, b, n) ==
  LET m == prog.code[b][n] IN
  IF m.op = "vpass" /\ ~passesVariadic(b, n) THEN [val |-> Null, fn |-> S]
  ELSE orZero(getRegOrArgValue(S, m.src, 3, b), m.op)

\* What an instruction reads is looked up ...
readValue(S, b, n) ==
  LET m == prog.code[b][n] IN
  CASE m.op \in Optional -> getReachingDef(S, m.src, m.w, b, TRUE)
    [] m.op \in {"pass", "vpass"} -> passedArgument(S, b, n)
    [] m.op \in {"inc", "mov", "use", "jcc"} -> getRegOrArgValue(S, m.src, m.w, b)
    [] OTHER -> [val |-> Null, fn |-> S]

\* ... and what it defines is recorded.  A move between values of one type makes no
\* instruction.
raiseWith(v, T, b, n) ==
  LET m == prog.code[b][n]
      name == <<"def", b, n>>
      Define(op) == setPhysRegSSAValue(push_back(T, b, Ir(op, name, v, 0, m.w)), m.reg, b, name)
  IN  CASE v = Null /\ m.op \in Reads -> T
        [] v # Null /\ m.op \in Reads \ {"inc", "mov"} -> push_back(T, b, Ir("use", Null, v, 0, m.w))
        [] m.op = "mov" /\ v # Null /\ widthOf(T, v) = m.w -> setPhysRegSSAValue(T, m.reg, b, v)
        [] OTHER -> Define(IF m.op = "mov" THEN "cast" ELSE m.op)

\* A value that must be found, and is not, ends the raising.
Missing(v, b, n) ==
  LET op == prog.code[b][n].op IN
  v = Null /\ op \in Reads \ Optional /\ (op = "vpass" => passesVariadic(b, n))

unchangedRun == UNCHANGED <<prog, cur, regs, env, mem, agree, ran>>

raiseMachineInstr(b, n) ==
  \E read \in {readValue(raised, b, n)} :
    IF Missing(read.val, b, n) THEN phase' = "failed" /\ UNCHANGED raised
    ELSE raised' = raiseWith(read.val, read.fn, b, n) /\ UNCHANGED phase

RaiseNext ==
  /\ phase \in {"raise", "branches"} /\ todo # <<>>
  /\ raiseMachineInstr(Head(todo)[1], Head(todo)[2])
  /\ todo' = Tail(todo)
  /\ unchangedRun

\* After the last block the branches are raised.
RaiseBranches ==
  /\ phase = "raise" /\ todo = <<>>
  /\ phase' = "branches" /\ todo' = InstsOf(prog, TRUE)
  /\ unchangedRun /\ UNCHANGED raised

handleUnpromotedReachingDefs ==
  /\ phase = "branches" /\ todo = <<>> /\ raised.toPromote # {}
  /\ \E d \in raised.toPromote :
       LET v == getInBlockRegOrArgDefVal(raised, d[1], d[2]) IN
       /\ phase' = IF v = Null THEN "failed" ELSE phase
       /\ raised' = IF v = Null THEN raised
                    ELSE promotePhysregToStackSlot([raised EXCEPT !.toPromote = @ \ {d}],
                                                   v, d[2], d[3])
  /\ unchangedRun /\ UNCHANGED todo

Finish ==
  /\ phase = "branches" /\ todo = <<>> /\ raised.toPromote = {}
  /\ phase' = "run"
  /\ unchangedRun /\ UNCHANGED <<raised, todo>>

-----------------------------------------------------------------------------
(* The machine and the raised function run a block.  A definition made in the run *)
(* is told from the others by its place and by the number of blocks before it.    *)

Fresh(b, n, w) == Cast([k \in Widths |-> <<b, n, ran>>], w)

\* The 8-bit and 16-bit registers leave the rest as it is; the 32-bit ones clear it.
Write(old, v, w) == IF w = 1 THEN [old EXCEPT ![1] = v[1]] ELSE Cast(v, w)

machineInst(b, st, n) ==
  LET m == prog.code[b][n] IN
  [regs |-> CASE m.op \in Reads \ {"inc", "mov"} -> st.regs
              [] m.op = "mov" -> [st.regs EXCEPT ![m.reg] = Write(@, st.regs[m.src], m.w)]
              [] OTHER -> [st.regs EXCEPT ![m.reg] = Write(@, Fresh(b, n, m.w), m.w)],
   reads |-> IF m.op \in Reads \ {"mov"} THEN Append(st.reads, Cast(st.regs[m.src], m.w))
             ELSE st.reads]

valueOf(st, v) ==
  CASE v[1] = "arg" -> Cast(Argument(v[2]), prog.args[v[2]])
    [] v[1] = "zero" -> [k \in Widths |-> Zero]
    [] v[1] = "slot" -> IF v[2] \in DOMAIN st.mem THEN st.mem[v[2]] ELSE Undefined
    [] OTHER -> IF v \in DOMAIN st.env THEN st.env[v] ELSE Undefined

raisedInst(st, i) ==
  LET arg == Cast(valueOf(st, i.arg), i.w)
      Assign(v) == (i.name :> v) @@ st.env
  IN  CASE i.op = "use" -> [st EXCEPT !.reads = Append(@, arg)]
        [] i.op = "load" -> [st EXCEPT !.env = Assign(Cast(valueOf(st, <<"slot", i.slot>>), i.w))]
        [] i.op = "store" -> [st EXCEPT !.mem = (i.slot :> arg) @@ @]
        [] i.op = "cast" -> [st EXCEPT !.env = Assign(arg)]
        [] OTHER -> [st EXCEPT !.env = Assign(Fresh(i.name[2], i.name[3], i.w)),
                               !.reads = IF i.op = "inc" THEN Append(@, arg) ELSE @]

RunBlock ==
  /\ phase = "run" /\ ran < MaxBlocks
  /\ LET m == FoldLeft(LAMBDA st, n : machineInst(cur, st, n), [regs |-> regs, reads |-> <<>>],
                       [n \in DOMAIN prog.code[cur] |-> n])
         r == FoldLeft(raisedInst, [env |-> env, mem |-> mem, reads |-> <<>>], raised.ir[cur])
     IN  /\ regs' = m.regs
         /\ env' = r.env
         /\ mem' = r.mem
         /\ agree' = (agree /\ m.reads = r.reads)
  /\ ran' = ran + 1
  /\ \E b \in succs(cur) : cur' = b
  /\ UNCHANGED <<prog, phase, todo, raised>>

Next == RaiseNext \/ RaiseBranches \/ handleUnpromotedReachingDefs \/ Finish \/ RunBlock
Spec == Init /\ [][Next]_trackerVars

-----------------------------------------------------------------------------
(* What the raiser does not do right, by the defect (README, Conditions in the     *)
(* properties).                                                                    *)

SitesOf(p, r, field, ops) ==
  {s \in UNION {{b} \X DOMAIN p.code[b] : b \in Blocks} :
     p.code[s[1]][s[2]].op \in ops /\ p.code[s[1]][s[2]][field] = r}
ReadsOf(p, r) == SitesOf(p, r, "src", Reads)
DefsOf(p, r) == SitesOf(p, r, "reg", Marked \cup {"call"})
WidthsOf(p, sites) == {p.code[s[1]][s[2]].w : s \in sites}
RaisedAfter(p, c, b) ==
  LET at == [d \in Blocks |-> IndexFirstSubSeq(<<d>>, TraversalOrder(p))] IN at[c] >= at[b]

DefinedInBlock(r, s) == \E n \in 1 .. s[2] - 1 : <<s[1], n>> \in DefsOf(prog, r)
DefinedOnAll(r, s) ==
  \/ DefinedInBlock(r, s)
  \/ s[1] # 0 /\ 0 \notin Closure({s[1]}, [b \in Blocks |->
                      {c \in predecessors(b) : \A n \in DOMAIN prog.code[c] :
                                                 <<c, n>> \notin DefsOf(prog, r)}])

\* The registers are defined on every path to a read of them, or by the caller.
WellDefined ==
  \A r \in Regs \ ToSet(ArgRegs) : \A s \in ReadsOf(prog, r) : DefinedOnAll(r, s)

\* A register that is not defined on every path to some read of it is read where no
\* definition in the blocks met so far leads to.
ArgumentsSeen ==
  \A r \in ToSet(ArgRegs) : \A t \in ReadsOf(prog, r) :
    \/ DefinedOnAll(r, t)
    \/ \E s \in SitesOf(prog, r, "src", ReadsLiveIn) :
         LET Met(b) == {c \in predecessors(b) : ~RaisedAfter(prog, c, s[1])} IN
         /\ ~DefinedInBlock(r, s)
         /\ \A d \in DefsOf(prog, r) : d[1] \notin Closure(Met(s[1]), [b \in Blocks |-> Met(b)])

\* The registers of a variadic call, up to each that it passes, are defined in its block
\* after the calls in it, or in one block above each edge if it has none.
VariadicsSetUp ==
  \A r \in Regs : \A s \in SitesOf(prog, r, "src", {"vpass"}) :
    \A q \in ToSet(SubSeq(ArgRegs, 1, IndexFirstSubSeq(<<r>>, ArgRegs))) :
      \/ definesSinceCall(q, s[1], s[2])
      \/ /\ noCallBefore(s[1], s[2])
         /\ predecessors(s[1]) # {}
         /\ \A c \in predecessors(s[1]) :
              c # s[1] /\ Cardinality(definitionsAbove(q, s[1])[c]) = 1

\* No call defines a register that a block raised before the call reads after it.
CallsForeseen ==
  \A r \in Regs : \A c \in SitesOf(prog, r, "reg", {"call"}) :
    \A s \in {t \in ReadsOf(prog, r) : ~Late(prog, t)} :
      RaisedAfter(prog, c[1], s[1]) =>
        c[1] \notin Closure(predecessors(s[1]), [b \in Blocks |-> predecessors(b)])

\* A register that was copied, or is a copy, has one definition.
CopiesFixed ==
  \A r \in Regs : \A s \in SitesOf(prog, r, "reg", {"mov"}) :
    LET m == prog.code[s[1]][s[2]] IN
    \A q \in {m.reg, m.src} : Cardinality(DefsOf(prog, q)) + (IF q \in DOMAIN prog.args THEN 1 ELSE 0) <= 1

\* A register is read in one width, and no wider than where it is defined in part.
OneWidth ==
  \A r \in Regs : LET R == WidthsOf(prog, ReadsOf(prog, r)) IN
    Cardinality(R) <= 1 /\ (1 \in WidthsOf(prog, DefsOf(prog, r)) => R \subseteq {1})

-----------------------------------------------------------------------------
\* Every read of a register, by an instruction or for a call, gets the value that the
\* register has in the machine at that point of the run, whichever path led there and in
\* whichever order its definitions were raised; and raising gives up on no look-up that
\* comes back empty, or promotion without its definition.
UsesFollow ==
  (agree /\ phase # "failed")
  \/ ~WellDefined \/ ~CallsForeseen \/ ~CopiesFixed \/ ~OneWidth
  \/ ~ArgumentsSeen \/ ~VariadicsSetUp

\* What a raised instruction uses was computed before it on every path: LLVM rejects the
\* function otherwise.
DefinitionsDominate ==
  phase = "run" /\ ran = 0 /\ WellDefined /\ CallsForeseen /\ ArgumentsSeen =>
    \A b \in Blocks : \A n \in DOMAIN raised.ir[b] :
      LET v == raised.ir[b][n].arg IN
      v = Null \/ v[1] \in {"arg", "slot", "zero"}
      \/ (\E k \in 1 .. n - 1 : raised.ir[b][k].name = v)
      \/ \E d \in Blocks \ {b} : dominates(d, b)
                               /\ \E k \in DOMAIN raised.ir[d] : raised.ir[d][k].name = v
=============================================================================
