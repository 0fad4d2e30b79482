------------------------------ MODULE MCInstRaiser ------------------------------
(***************************************************************************)
(* MCInstRaiser::buildCFG (Raiser/MCInstRaiser.cpp): the basic blocks and  *)
(* control-flow edges of one function, from the instructions and the       *)
(* leaders the disassembly left in its MCInstRaiser.                       *)
(*                                                                         *)
(* Offsets are relative to FuncStart.  A stream says for every offset what *)
(* InstMap holds there; every entry is one byte long, so that a byte that  *)
(* was not decoded shows as a gap.  The leaders are those the module       *)
(* Disassembly is shown to record (LeadersRecorded).                       *)
(***************************************************************************)
EXTENDS Integers, Sequences, FiniteSets, FiniteSetsExt, Functions

CONSTANTS
  FuncEnd,   \* FuncEnd, FuncStart being 0
  Streams    \* the instruction streams considered

Offsets == 0..(FuncEnd - 1)

BranchKinds == {"jmp", "cond", "indirect"}
InstKinds   == BranchKinds \cup {"plain", "nop", "ret"}
Entries     == [kind : InstKinds \cup {"data", "gap"}, target : Int]

\* target: where a direct branch leads, as the decoder saw it.
ASSUME StreamsAssumption ==
  /\ FuncEnd \in Nat \ {0}
  /\ Streams \subseteq [Offsets -> Entries]

VARIABLES
  instMap,         \* InstMap
  targetIndices,   \* TargetIndices
  pc,              \* "walk", "edges", "built"; "undefined", "aborted"
  pos,             \* the iterator: offset of the next entry, or the next MBB
  blocks,          \* the MBBs: entry offset (InstToMBBNum) and instructions
  mbbTargets,      \* MBBNumToMCInstTargetsMap
  succ             \* the successor list of each MBB

cfgVars == <<instMap, targetIndices, pc, pos, blocks, mbbTargets, succ>>

IsEntry(o) == o \in Offsets /\ instMap[o].kind # "gap"
IsMCInst(o) == o \in Offsets /\ instMap[o].kind \in InstKinds
IsBranch(o) == instMap[o].kind \in BranchKinds
IsConditionalBranch(o) == instMap[o].kind = "cond"

EntryOffsets == {o \in Offsets : IsEntry(o)}
PrevEntry(o) == Max({p \in EntryOffsets : p < o})
LastEntry == Max(EntryOffsets)

\* getMCInstSize: the distance to the next entry, or to the function end.
getMCInstSize(o) ==
  LET later == {p \in EntryOffsets : p > o}
  IN  IF later = {} THEN FuncEnd - o ELSE Min(later) - o

\* MCInstrAnalysis::evaluateBranch adds displacement and size to the offset;
\* the displacement encodes the target for the true size, 1.
EvaluatedTarget(o, size) == instMap[o].target + (size - 1)

InFunction(t) == 0 <= t /\ t < FuncEnd

-----------------------------------------------------------------------------
(* The leaders recorded by the disassembly of a stream. *)

\* Mapping symbols start where data begins and where code resumes after it.
SymbolStarts(s) ==
  {0} \cup {o \in Offsets \ {0} : (s[o].kind = "data") # (s[o - 1].kind = "data")}

\* Mutant: the instruction after a branch is no leader.
RecordedTargets_NoFallThrough(s) ==
  {t \in SymbolStarts(s)
         \cup {s[o].target : o \in {p \in Offsets : s[p].kind \in {"jmp", "cond"}}} :
     0 <= t /\ t <= FuncEnd}

RecordedTargets(s) ==
  {t \in SymbolStarts(s)
         \cup {s[o].target : o \in {p \in Offsets : s[p].kind \in {"jmp", "cond"}}}
         \cup {o + 1 : o \in {p \in Offsets : s[p].kind \in BranchKinds}} :
     0 <= t /\ t <= FuncEnd}

Init ==
  /\ instMap \in Streams
  /\ targetIndices = RecordedTargets(instMap)
  /\ pc = "walk"
  /\ pos = 0
  /\ blocks = <<>>
  /\ mbbTargets = <<>>
  /\ succ = <<>>

-----------------------------------------------------------------------------
(* The walk over InstMap. *)

PrevMCInstTargets_TakenOnly(o) ==
  LET p == PrevEntry(o)
      target == EvaluatedTarget(p, o - p)
  IN  IF ~IsMCInst(p) \/ instMap[p].kind = "indirect" THEN <<>>
      ELSE IF ~IsBranch(p) THEN <<o>>
      ELSE IF InFunction(target) THEN <<target>> ELSE <<>>

\* Targets of the entry before the leader o, for the block that o ends.
PrevMCInstTargets(o) ==
  LET p == PrevEntry(o)
      target == EvaluatedTarget(p, o - p)
  IN  CASE ~IsMCInst(p) -> <<>>
        [] IsMCInst(p) /\ ~IsBranch(p) -> <<o>>
        [] OTHER ->
             IF instMap[p].kind = "indirect" \/ ~InFunction(target) THEN <<>>
             ELSE IF IsConditionalBranch(p) THEN <<target, o>>
             ELSE <<target>>

AtEntry(o) ==
  /\ pc = "walk"
  /\ o \in EntryOffsets /\ o >= pos
  /\ \A p \in EntryOffsets : p >= pos => p >= o
  /\ pos' = o + 1

\* A leader that is an instruction closes the last block and starts one.
StartBlock(o) ==
  /\ AtEntry(o)
  /\ o \in targetIndices
  /\ IsMCInst(o)
  /\ mbbTargets' = IF blocks = <<>> THEN <<>>
                   ELSE Append(mbbTargets, PrevMCInstTargets(o))
  /\ blocks' = Append(blocks, [entry |-> o, insts |-> <<o>>])
  /\ UNCHANGED <<instMap, targetIndices, pc, succ>>

ContinueBlock(o) ==
  /\ AtEntry(o)
  /\ o \notin targetIndices
  /\ IsMCInst(o)
  /\ IF blocks = <<>>
     THEN pc' = "undefined" /\ UNCHANGED blocks   \* MF.back() of no block
     ELSE /\ blocks' = [blocks EXCEPT ![Len(blocks)].insts = Append(@, o)]
          /\ UNCHANGED pc
  /\ UNCHANGED <<instMap, targetIndices, mbbTargets, succ>>

\* Data is in no block; it closes none either.
SkipData(o) ==
  /\ AtEntry(o)
  /\ ~IsMCInst(o)
  /\ UNCHANGED <<instMap, targetIndices, pc, blocks, mbbTargets, succ>>

\* After the walk: the targets of the last block, from the last entry.  A data
\* entry is read as an instruction; a conditional branch fails an assertion.
LastMBB ==
  /\ pc = "walk"
  /\ \A p \in EntryOffsets : p < pos
  /\ IF blocks = <<>>
     THEN pc' = "built" /\ UNCHANGED mbbTargets
     ELSE CASE ~IsMCInst(LastEntry) -> pc' = "undefined" /\ UNCHANGED mbbTargets
            [] IsConditionalBranch(LastEntry) ->
                 pc' = "aborted" /\ UNCHANGED mbbTargets
            [] OTHER ->
                 LET target == EvaluatedTarget(LastEntry, FuncEnd - LastEntry)
                 IN  /\ pc' = "edges"
                     /\ mbbTargets' = Append(mbbTargets,
                          IF instMap[LastEntry].kind = "jmp" /\ InFunction(target)
                          THEN <<target>> ELSE <<>>)
  /\ pos' = 1
  /\ UNCHANGED <<instMap, targetIndices, blocks, succ>>

-----------------------------------------------------------------------------
(* The walk over the blocks. *)

BlockIndices == 1..Len(blocks)

\* The block whose entry is the offset t, 0 if there is none.
InstToMBBNum(t) ==
  IF \E b \in BlockIndices : blocks[b].entry = t
  THEN CHOOSE b \in BlockIndices : blocks[b].entry = t ELSE 0

LastInst(b) == blocks[b].insts[Len(blocks[b].insts)]

isReturnBlock(b) ==
  blocks[b].insts # <<>> /\ instMap[LastInst(b)].kind = "ret"

\* The blocks of the targets ts, in order; a target that is no entry of one is
\* passed over.
TargetMBBs(ts) ==
  LET found[i \in 0..Len(ts)] ==
        IF i = 0 THEN <<>>
        ELSE IF InstToMBBNum(ts[i]) = 0 THEN found[i - 1]
        ELSE Append(found[i - 1], InstToMBBNum(ts[i]))
  IN  found[Len(ts)]

\* Mutant: a block that returns keeps its fall-through.
AddEdges_AlsoAfterReturn(b) == succ' = Append(succ, TargetMBBs(mbbTargets[b]))

AddEdges(b) ==
  succ' = Append(succ, IF isReturnBlock(b) THEN <<>> ELSE TargetMBBs(mbbTargets[b]))

NextMBBEdges ==
  /\ pc = "edges"
  /\ pos <= Len(blocks)
  /\ AddEdges(pos)
  /\ pos' = pos + 1
  /\ pc' = IF pos = Len(blocks) THEN "built" ELSE "edges"
  /\ UNCHANGED <<instMap, targetIndices, blocks, mbbTargets>>

BuildCFG ==
  \/ \E o \in Offsets : StartBlock(o) \/ ContinueBlock(o) \/ SkipData(o)
  \/ LastMBB
  \/ NextMBBEdges

\* buildCFG by itself; module BranchRaising goes on from its CFG.
CFGSpec == Init /\ [][BuildCFG]_cfgVars

-----------------------------------------------------------------------------
(* What the machine does. *)

\* The offsets that control can go to from the instruction at o.
MachineSucc(o) ==
  CASE instMap[o].kind \in {"plain", "nop"} -> {o + 1}
    [] instMap[o].kind = "jmp" -> {instMap[o].target}
    [] instMap[o].kind = "cond" -> {instMap[o].target, o + 1}
    [] OTHER -> {}

\* The instruction at which control leaves a block: a return may be followed
\* by padding.
ExitInst(b) ==
  LET insts == blocks[b].insts
      exits == {i \in DOMAIN insts : instMap[insts[i]].kind \in BranchKinds \cup {"ret"}}
  IN  insts[IF exits = {} THEN Len(insts) ELSE Min(exits)]

-----------------------------------------------------------------------------
(* Properties. *)

Blocks == [entry : Offsets, insts : Seq(Offsets)]

TypeOK ==
  /\ instMap \in Streams
  /\ targetIndices \subseteq 0..FuncEnd
  /\ pc \in {"walk", "edges", "built", "undefined", "aborted"}
  /\ pos \in 0..(FuncEnd + 1)
  /\ blocks \in Seq(Blocks)
  /\ mbbTargets \in Seq(Seq(Offsets))
  /\ succ \in Seq(Seq(BlockIndices))

Built == pc = "built"

\* buildCFG puts every instruction into exactly one block, in stream order,
\* and control can enter a block only at its entry.
BlocksPartition ==
  Built =>
    /\ \A o \in Offsets : IsMCInst(o) =>
         Cardinality({b \in BlockIndices : o \in Range(blocks[b].insts)}) = 1
    /\ \A b \in BlockIndices :
         /\ blocks[b].insts[1] = blocks[b].entry
         /\ \A i, j \in DOMAIN blocks[b].insts :
              i < j => /\ blocks[b].insts[i] < blocks[b].insts[j]
                       /\ ~IsBranch(blocks[b].insts[i])
                       /\ blocks[b].insts[j] \notin
                            UNION {MachineSucc(o) \ {o + 1} :
                                     o \in {p \in Offsets : IsMCInst(p)}}

\* Every place control can go to from the end of a block has an edge (a
\* register-indirect branch aside: its targets are found by the jump tables).
EdgesComplete ==
  Built =>
    \A b \in BlockIndices :
      \A t \in MachineSucc(ExitInst(b)) :
        IsMCInst(t) =>
          \E s \in BlockIndices : blocks[s].entry = t /\ s \in Range(succ[b])

\* No padding follows a return in its block.
ReturnsEndBlocks ==
  \A o \in Offsets : instMap[o].kind = "ret" => o = FuncEnd - 1 \/ (o + 1) \in targetIndices

\* Every edge is a way control can go, padding after a return aside.
EdgesSound ==
  Built /\ ReturnsEndBlocks =>
    \A b \in BlockIndices : \A s \in Range(succ[b]) :
      blocks[s].entry \in MachineSucc(ExitInst(b))

=============================================================================
