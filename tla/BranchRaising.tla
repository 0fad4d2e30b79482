------------------------------ MODULE BranchRaising ------------------------------
(***************************************************************************)
(* From the machine CFG of buildCFG to the control flow of the raised      *)
(* function (X86): deleteNOOPInstrMF and unlinkEmptyMBBs clean the CFG up, *)
(* raiseMachineFunction makes a BasicBlock of every reachable MBB, records *)
(* its branches or raises them as tail calls, and raiseBranchMachineInstrs *)
(* turns the records, and the fall-throughs that have none, into branches. *)
(*                                                                         *)
(* A jump with a register operand is raised by way of a jump table         *)
(* (JumpTables): of a function that has one, this module has the CFG only. *)
(***************************************************************************)
EXTENDS MCInstRaiser

VARIABLES
  stage,    \* "cfg", "unlink", "walk", "branches", "raised"; "aborted"
  cur,      \* the number of the MBB that is next
  body,     \* the instructions left in each MBB, by their offsets
  edges,    \* the CFG: [from, to, at], at telling when the edge was added
  bbs,      \* mbbToBBMap: the MBBs that have a BasicBlock
  records,  \* CTInfo: the MBBs whose branch is to be raised
  exits     \* the terminator of each BasicBlock

branchVars == <<stage, cur, body, edges, bbs, records, exits>>
vars == <<cfgVars, branchVars>>

Unterminated == [kind |-> "none", to |-> <<>>]
Br(to) == [kind |-> "br", to |-> to]
Leave(kind) == [kind |-> kind, to |-> <<>>]   \* "ret", "call" (and return)

IsNoop(o) == instMap[o].kind = "nop"

Empty(b) == body[b] = {}

SuccsOf(E, b) == {e \in E : e.from = b}
PredsOf(E, b) == {e \in E : e.to = b}
First(E) == CHOOSE e \in E : \A f \in E : e.at <= f.at
Newest(E) == Max({0} \cup {e.at : e \in E})

RaiserInit ==
  /\ Init
  /\ stage = "cfg"
  /\ cur = 0
  /\ body = <<>>
  /\ edges = {}
  /\ bbs = {}
  /\ records = {}
  /\ exits = <<>>

\* The edges buildCFG has added, block by block; no block has more than two.
CFGEdges ==
  UNION {{[from |-> b, to |-> succ[b][i], at |-> 2 * b + i] : i \in DOMAIN succ[b]} :
           b \in DOMAIN succ}

-----------------------------------------------------------------------------
(* getRaisedFunctionPrototype: the clean-up. *)

HasIndirectBranch == \E o \in Offsets : instMap[o].kind = "indirect"

DeleteNOOPs ==
  /\ pc = "built" /\ stage = "cfg" /\ ~HasIndirectBranch
  /\ body' = [b \in BlockIndices |-> {o \in Range(blocks[b].insts) : ~IsNoop(o)}]
  /\ edges' = CFGEdges
  /\ stage' = "unlink"
  /\ cur' = 1
  /\ UNCHANGED <<cfgVars, bbs, records, exits>>

\* Mutant: the empty block drops its edges and hands none on.
Unlinked_Dropped(E, b) == E \ SuccsOf(E, b)

\* transferSuccessors for every predecessor: the first one takes them all, and
\* the empty block stays among the successors of each.  Without a predecessor
\* the edges of the block are dropped.
Unlinked(E, b) ==
  (E \ SuccsOf(E, b))
    \cup {[from |-> First(PredsOf(E, b)).from, to |-> e.to, at |-> e.at + Newest(E)] :
            e \in {x \in SuccsOf(E, b) : PredsOf(E, b) # {}}}

UnlinkMBB ==
  /\ stage = "unlink"
  /\ cur <= Len(blocks)
  /\ edges' = IF Empty(cur) THEN Unlinked(edges, cur) ELSE edges
  /\ cur' = cur + 1
  /\ UNCHANGED <<cfgVars, stage, body, bbs, records, exits>>

-----------------------------------------------------------------------------
(* raiseMachineFunction: the walk over the reachable blocks. *)

\* The blocks that LoopTraversal visits in a primary pass: those in every set
\* that holds the first one and is closed under the edges.
ReachableFrom(E, b) ==
  {c \in BlockIndices :
     \A S \in SUBSET BlockIndices :
       b \in S /\ (\A e \in E : e.from \in S => e.to \in S) => c \in S}

StartWalk ==
  /\ stage = "unlink"
  /\ cur > Len(blocks)
  /\ stage' = "walk"
  /\ cur' = 1
  /\ bbs' = ReachableFrom(edges, 1)
  /\ exits' = [b \in BlockIndices |-> Unterminated]
  /\ UNCHANGED <<cfgVars, body, edges, records>>

\* The bytes of the instructions that are left of the block b before each offset.
BytesLeft(b) ==
  LET upTo[n \in 0..FuncEnd] ==
        IF n = 0 THEN 0
        ELSE upTo[n - 1] + (IF n - 1 \in body[b] THEN getMCInstSize(n - 1) ELSE 0)
  IN  upTo

\* The block with its entry at t, or with t inside the instructions that are
\* left of it (their sizes count from the entry, deleted ones do not); else -1.
getMBBNumberOfMCInstOffset(t) ==
  LET inside == {b \in BlockIndices :
                   /\ blocks[b].entry <= t
                   /\ t < blocks[b].entry + BytesLeft(b)[FuncEnd]}
  IN  IF ~(0 <= t /\ t <= FuncEnd) THEN -1
      ELSE IF InstToMBBNum(t) # 0 THEN InstToMBBNum(t)
      ELSE IF inside # {} THEN Min(inside) ELSE -1

TermInst(b) == Max(body[b])

\* Mutant: the displacement counts from the branch itself.
BranchTargetMBB_FromBranch(o) == getMBBNumberOfMCInstOffset(EvaluatedTarget(o, 0))

BranchTargetMBB(o) ==
  getMBBNumberOfMCInstOffset(EvaluatedTarget(o, getMCInstSize(o)))

WalkMBB(kinds) ==
  /\ stage = "walk"
  /\ cur \in bbs
  /\ ~Empty(cur)
  /\ instMap[TermInst(cur)].kind \in kinds
  /\ cur' = cur + 1
  /\ UNCHANGED <<cfgVars, body, edges, bbs>>

RaiseReturn ==
  /\ WalkMBB({"ret"})
  /\ exits' = [exits EXCEPT ![cur] = Leave("ret")]
  /\ UNCHANGED <<stage, records>>

RaiseStraight ==
  /\ WalkMBB({"plain"})
  /\ UNCHANGED <<stage, records, exits>>

\* recordMachineInstrInfo
RecordBranch ==
  /\ WalkMBB({"jmp", "cond"})
  /\ BranchTargetMBB(TermInst(cur)) # -1
  /\ records' = records \cup {cur}
  /\ UNCHANGED <<stage, exits>>

\* A jump out of the function is a call and a return; raiseCallMachineInstr
\* does not handle a conditional one.
RaiseTailCall ==
  /\ WalkMBB({"jmp", "cond"})
  /\ BranchTargetMBB(TermInst(cur)) = -1
  /\ IF IsConditionalBranch(TermInst(cur))
     THEN stage' = "aborted" /\ UNCHANGED exits
     ELSE exits' = [exits EXCEPT ![cur] = Leave("call")] /\ UNCHANGED stage
  /\ UNCHANGED records

\* An unreachable block has no BasicBlock, an empty one an empty BasicBlock.
SkipMBB ==
  /\ stage = "walk"
  /\ cur <= Len(blocks)
  /\ cur \notin bbs \/ Empty(cur)
  /\ cur' = cur + 1
  /\ UNCHANGED <<cfgVars, stage, body, edges, bbs, records, exits>>

EndWalk ==
  /\ stage = "walk"
  /\ cur > Len(blocks)
  /\ stage' = "branches"
  /\ cur' = 1
  /\ UNCHANGED <<cfgVars, body, edges, bbs, records, exits>>

-----------------------------------------------------------------------------
(* raiseBranchMachineInstrs *)

\* Mutant: the block that comes next, whatever was deleted.
FallThroughMBB_Next(o) == InstToMBBNum(o + 1)

\* The next entry that is no noop, on the fall-through path of o.
NonNoopAfter(o) == {p \in EntryOffsets : p > o /\ ~IsNoop(p)}
FallThroughMBB(o) ==
  IF NonNoopAfter(o) = {} THEN -1
  ELSE getMBBNumberOfMCInstOffset(Min(NonNoopAfter(o)))

\* raiseDirectBranchMachineInstr, for each record.
RaiseDirectBranch(b) ==
  /\ stage = "branches"
  /\ b \in records
  /\ LET target == BranchTargetMBB(TermInst(b))
         ft == FallThroughMBB(TermInst(b))
         cond == IsConditionalBranch(TermInst(b))
     IN  IF \/ target \notin bbs
            \/ cond /\ (ft \notin bbs \/ Empty(ft))
         THEN stage' = "aborted" /\ UNCHANGED exits
         ELSE /\ exits' = [exits EXCEPT ![b] =
                             Br(IF cond THEN <<target, ft>> ELSE <<target>>)]
              /\ UNCHANGED stage
  /\ records' = records \ {b}
  /\ UNCHANGED <<cfgVars, cur, body, edges, bbs>>

HasTerminator(b) == \E o \in body[b] : instMap[o].kind \in BranchKinds \cup {"ret"}

\* A block with successors and no terminator goes to its first successor.
RaiseFallThrough ==
  /\ stage = "branches"
  /\ records = {}
  /\ cur <= Len(blocks)
  /\ LET succs == SuccsOf(edges, cur)
         to == First(succs).to
     IN  IF HasTerminator(cur) \/ succs = {} THEN UNCHANGED <<stage, exits>>
         ELSE IF cur \notin bbs \/ to \notin bbs
         THEN stage' = "aborted" /\ UNCHANGED exits
         ELSE exits' = [exits EXCEPT ![cur] = Br(<<to>>)] /\ UNCHANGED stage
  /\ cur' = cur + 1
  /\ UNCHANGED <<cfgVars, body, edges, bbs, records>>

EndBranches ==
  /\ stage = "branches"
  /\ records = {}
  /\ cur > Len(blocks)
  /\ stage' = "raised"
  /\ UNCHANGED <<cfgVars, cur, body, edges, bbs, records, exits>>

RaiseFunction ==
  \/ DeleteNOOPs \/ UnlinkMBB \/ StartWalk
  \/ RaiseReturn \/ RaiseStraight \/ RecordBranch \/ RaiseTailCall \/ SkipMBB
  \/ EndWalk
  \/ \E b \in records : RaiseDirectBranch(b)
  \/ RaiseFallThrough \/ EndBranches

Done ==
  /\ \/ pc \in {"undefined", "aborted"} \/ stage \in {"raised", "aborted"}
     \/ pc = "built" /\ HasIndirectBranch
  /\ UNCHANGED vars

Next ==
  \/ pc # "built" /\ BuildCFG /\ UNCHANGED branchVars
  \/ RaiseFunction
  \/ Done

RaiserSpec == RaiserInit /\ [][Next]_vars

-----------------------------------------------------------------------------
(* Properties. *)

\* What lies between the instructions of a function, as compilers lay it out:
\* every byte was decoded, as an instruction or as data; a conditional branch
\* stays in the function and no branch leads to data; data follows neither a
\* conditional branch nor a jump within the function; and what follows a
\* return, up to the next leader, are noops.
LaidOut(s) ==
  /\ \A o \in Offsets : s[o].kind # "gap"
  /\ \A o \in Offsets : s[o].kind \in {"jmp", "cond"} =>
       /\ s[o].kind = "cond" => s[o].target \in Offsets
       /\ s[o].target \in Offsets => s[s[o].target].kind # "data"
  /\ \A o \in Offsets \ {0} : s[o].kind = "data" =>
       /\ s[o - 1].kind # "cond"
       /\ s[o - 1].kind = "jmp" => s[o - 1].target \notin Offsets
  /\ \A o, p \in Offsets : s[o].kind = "ret" /\ o < p =>
       s[p].kind = "nop" \/ \E q \in (o + 1)..p : q \in RecordedTargets(s)

\* Noops stand where compilers put them: no branch leads to one, and those on
\* a fall-through path end at an instruction that is a leader.
NoopsApart ==
  \A o \in Offsets : instMap[o].kind \in {"jmp", "cond"} =>
    /\ instMap[o].target \in Offsets => ~IsNoop(instMap[o].target)
    /\ instMap[o].kind = "cond" /\ o + 1 \in Offsets /\ IsNoop(o + 1) =>
         \E p \in Offsets :
           /\ o < p /\ p \in targetIndices
           /\ IsMCInst(p) /\ ~IsNoop(p)
           /\ \A q \in Offsets : o < q /\ q < p => IsNoop(q)

\* The first entry that is no noop, from t on, and that it is an instruction:
\* what the machine does next when control goes to t.
Effective(t) == Min({o \in EntryOffsets : o >= t /\ ~IsNoop(o)})
Goes(t) ==
  /\ IsMCInst(t)
  /\ \E o \in EntryOffsets : o >= t /\ ~IsNoop(o)
  /\ IsMCInst(Effective(t))

Exits(b) == MachineSucc(TermInst(b))

\* The block b of the raised function goes where its machine code goes: to
\* exactly the blocks that begin with an instruction the machine comes to next
\* (noops aside); it returns if the code returns, and calls if the code jumps
\* out of the function.
FlowFollows(b) ==
  LET to == Range(exits[b].to) IN
  /\ \A t \in Exits(b) : Goes(t) => \E s \in to : ~Empty(s) /\ Min(body[s]) = Effective(t)
  /\ \A s \in to : ~Empty(s) /\ \E t \in Exits(b) : Goes(t) /\ Min(body[s]) = Effective(t)
  /\ exits[b].kind = "ret" <=> instMap[TermInst(b)].kind = "ret"
  /\ exits[b].kind = "call" <=>
       instMap[TermInst(b)].kind = "jmp" /\ ~InFunction(instMap[TermInst(b)].target)

\* The raised function takes the control flow of the machine code.
RaisedFlowFaithful ==
  stage = "raised" /\ NoopsApart => \A b \in bbs : ~Empty(b) => FlowFollows(b)

ClosedUnderMachine(S) ==
  \A p \in S : IsMCInst(p) => \A t \in MachineSucc(p) : IsMCInst(t) => t \in S

\* The offsets control can come to from the start of the function.
ComesTo ==
  {o \in Offsets :
     \A S \in SUBSET Offsets :
       0 \in S /\ ClosedUnderMachine(S) => o \in S}

\* Whatever the clean-up does to the edges, no code that the machine can reach
\* is left out of the walk, which visits only blocks the edges lead to: unless
\* the first block is one that was emptied (with its edges, the function goes).
ReachableCodeRaised ==
  stage \in {"branches", "raised"} /\ NoopsApart /\ blocks # <<>> /\ ~Empty(1) =>
    \A o \in ComesTo : IsMCInst(o) /\ ~IsNoop(o) => \E s \in bbs : o \in body[s]

\* The assertions of raiseDirectBranchMachineInstr and raiseBranchMachineInstrs
\* hold for a function all of whose blocks with instructions can be reached.
AbortsOnlyOnDeadCode ==
  stage = "aborted" /\ NoopsApart => \E b \in BlockIndices \ bbs : ~Empty(b)
=============================================================================
