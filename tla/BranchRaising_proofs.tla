-------------------------- MODULE BranchRaising_proofs --------------------------
(***************************************************************************)
(* The blocks and edges of buildCFG, for functions of every length: each   *)
(* instruction is in one block, control enters and leaves a block at its   *)
(* ends only, and the edges are the ways control can go.  Then the control *)
(* flow of the raised function: it is that of the machine code.            *)
(***************************************************************************)
EXTENDS BranchRaising, FiniteSetTheorems, SequenceTheorems, WellFoundedInduction, TLAPS

\* No byte that was not decoded follows a branch, or data: the instruction after it
\* would be no leader.
GapsApart(s) ==
  \A o \in Offsets \ {0} : s[o].kind = "gap" => s[o - 1].kind \notin BranchKinds \cup {"data"}

-----------------------------------------------------------------------------
(* The inductive invariant. *)

Insts(b) == blocks[b].insts
Walked(o) == pc = "walk" => o < pos

InputKept == instMap \in Streams /\ targetIndices = RecordedTargets(instMap)

BlocksTyped ==
  /\ pos \in Nat
  /\ blocks \in Seq(Blocks)
  /\ \A b \in BlockIndices : Insts(b) # <<>> /\ Insts(b)[1] = blocks[b].entry

\* What stands in a block is an instruction that the walk has met.
InstsMet == \A b \in BlockIndices : \A i \in DOMAIN Insts(b) :
              IsMCInst(Insts(b)[i]) /\ Walked(Insts(b)[i])

\* The blocks and their instructions are in the order of the stream.
InOrder ==
  /\ \A b \in BlockIndices : \A i, j \in DOMAIN Insts(b) : i < j => Insts(b)[i] < Insts(b)[j]
  /\ \A b, c \in BlockIndices : b < c =>
       \A i \in DOMAIN Insts(b) : \A j \in DOMAIN Insts(c) : Insts(b)[i] < Insts(c)[j]

\* Only the first instruction of a block is a leader, only the last one a branch.
Straight ==
  \A b \in BlockIndices : \A i, j \in DOMAIN Insts(b) :
    i < j => ~IsBranch(Insts(b)[i]) /\ Insts(b)[j] \notin targetIndices

AllCovered ==
  pc # "undefined" =>
    \A o \in Offsets : IsMCInst(o) /\ Walked(o) =>
      \E b \in BlockIndices : \E i \in DOMAIN Insts(b) : Insts(b)[i] = o

\* After a branch the walk stands right behind it or behind data.
BranchesEnd ==
  pc = "walk" /\ blocks # <<>> =>
    LET l == Insts(Len(blocks))[Len(Insts(Len(blocks)))] IN
    IsBranch(l) => pos = l + 1 \/ (pos - 1 \in Offsets /\ instMap[pos - 1].kind = "data")

CFGInv ==
  InputKept /\ BlocksTyped /\ InstsMet /\ InOrder /\ Straight /\ AllCovered /\ BranchesEnd

-----------------------------------------------------------------------------
(* The steps. *)

\* The walk goes on at the first entry from where it stands.
LEMMA EntryFacts ==
  ASSUME CFGInv, NEW o \in Offsets, AtEntry(o)
  PROVE  /\ pos \in Nat /\ o \in Nat /\ pos <= o /\ pos' = o + 1 /\ pc = "walk"
         /\ \A p \in Offsets : IsMCInst(p) /\ p < o + 1 => p < pos \/ p = o
         /\ \A p \in Offsets : pos <= p /\ p < o => instMap[p].kind = "gap"
<1>1. pos \in Nat /\ o \in Nat /\ \A p \in Offsets : p \in Nat
  BY StreamsAssumption DEF CFGInv, BlocksTyped, Offsets
<1>2. \A p \in Offsets : IsMCInst(p) => p \in EntryOffsets
  BY DEF IsMCInst, IsEntry, EntryOffsets, InstKinds, BranchKinds
<1>3. \A p \in Offsets : instMap[p].kind # "gap" => p \in EntryOffsets
  BY DEF IsEntry, EntryOffsets
<1> QED
  BY <1>1, <1>2, <1>3 DEF AtEntry

\* What a leader is.
LEMMA LeaderFacts ==
  ASSUME InputKept, NEW o \in Offsets
  PROVE  /\ o \in Nat /\ o < FuncEnd /\ FuncEnd \in Nat
         /\ instMap[o].kind \in {"jmp", "cond"} /\ instMap[o].target \in Offsets
              => instMap[o].target \in targetIndices
         /\ IsBranch(o) /\ o + 1 \in Offsets => o + 1 \in targetIndices
         /\ o # 0 /\ instMap[o - 1].kind = "data" /\ instMap[o].kind # "data"
              => o \in targetIndices
<1>1. o \in Nat /\ o < FuncEnd /\ FuncEnd \in Nat /\ \A p \in Offsets : 0 <= p /\ p <= FuncEnd
  BY StreamsAssumption DEF Offsets
<1> QED
  BY <1>1 DEF InputKept, RecordedTargets, SymbolStarts, IsBranch

LEMMA StartBlockKeepsInv ==
  ASSUME CFGInv, NEW o \in Offsets, StartBlock(o) PROVE CFGInv'
<1> DEFINE n == Len(blocks) + 1
           new == [entry |-> o, insts |-> <<o>>]
<1>1. /\ blocks \in Seq(Blocks) /\ blocks' = Append(blocks, new) /\ Len(blocks) \in Nat
      /\ UNCHANGED <<instMap, targetIndices, pc>> /\ IsMCInst(o) /\ AtEntry(o)
  BY DEF StartBlock, CFGInv, BlocksTyped
<1>2. /\ pos \in Nat /\ o \in Nat /\ pos <= o /\ pos' = o + 1 /\ pc = "walk"
      /\ \A p \in Offsets : IsMCInst(p) /\ p < o + 1 => p < pos \/ p = o
  BY <1>1, EntryFacts
<1>3. new \in Blocks
  BY DEF Blocks
<1>4. /\ blocks' \in Seq(Blocks) /\ Len(blocks') = n
      /\ \A b \in BlockIndices : blocks'[b] = blocks[b]
      /\ BlockIndices' = BlockIndices \cup {n} /\ n \notin BlockIndices
      /\ \A b \in BlockIndices : b < n
  BY <1>1, <1>3 DEF BlockIndices
<1>5. blocks'[n].entry = o /\ blocks'[n].insts = <<o>>
  BY <1>1, <1>3
<1>6. DOMAIN <<o>> = {1} /\ <<o>>[1] = o
  OBVIOUS
<1>7. \A b \in BlockIndices : \A i \in DOMAIN blocks[b].insts :
        IsMCInst(blocks[b].insts[i]) /\ blocks[b].insts[i] < pos /\ blocks[b].insts[i] \in Nat
  <2>1. \A p : IsMCInst(p) => p \in Nat
    BY StreamsAssumption DEF IsMCInst, Offsets
  <2> QED
    BY <1>2, <2>1 DEF CFGInv, InstsMet, Walked, Insts
<1> HIDE DEF n, new
<1>8. InputKept'
  BY <1>1 DEF CFGInv, InputKept
<1>9. BlocksTyped'
  BY <1>2, <1>4, <1>5, <1>6 DEF CFGInv, BlocksTyped, Insts
<1>10. InstsMet'
  <2> SUFFICES ASSUME NEW b \in BlockIndices', NEW i \in DOMAIN blocks'[b].insts
               PROVE  IsMCInst(blocks'[b].insts[i]) /\ blocks'[b].insts[i] < o + 1
    BY <1>1, <1>2 DEF InstsMet, Walked, Insts, IsMCInst
  <2>1. CASE b \in BlockIndices
    <3>1. blocks'[b] = blocks[b] /\ i \in DOMAIN blocks[b].insts
      BY <1>4, <2>1
    <3>2. IsMCInst(blocks[b].insts[i]) /\ blocks[b].insts[i] < pos /\ blocks[b].insts[i] \in Nat
      BY <1>7, <2>1, <3>1
    <3> QED
      BY <1>2, <3>1, <3>2
  <2>2. CASE b = n
    <3>1. blocks'[b].insts[i] = o
      BY <1>5, <1>6, <2>2
    <3> QED
      BY <1>1, <1>2, <3>1
  <2> QED
    BY <1>4, <2>1, <2>2
<1>11. InOrder'
  <2>1. ASSUME NEW b \in BlockIndices', NEW i \in DOMAIN blocks'[b].insts,
               NEW j \in DOMAIN blocks'[b].insts, i < j
        PROVE  blocks'[b].insts[i] < blocks'[b].insts[j]
    BY <1>4, <1>5, <1>6, <2>1 DEF CFGInv, InOrder, Insts
  <2>2. ASSUME NEW b \in BlockIndices', NEW c \in BlockIndices', b < c,
               NEW i \in DOMAIN blocks'[b].insts, NEW j \in DOMAIN blocks'[c].insts
        PROVE  blocks'[b].insts[i] < blocks'[c].insts[j]
    <3>1. b \in BlockIndices /\ blocks'[b] = blocks[b]
      BY <1>1, <1>4, <2>2 DEF BlockIndices, n
    <3>2. CASE c = n
      BY <1>2, <1>5, <1>6, <1>7, <3>1, <3>2
    <3>3. CASE c \in BlockIndices
      BY <1>4, <2>2, <3>1, <3>3 DEF CFGInv, InOrder, Insts
    <3> QED
      BY <1>4, <3>2, <3>3
  <2> QED
    BY <2>1, <2>2 DEF InOrder, Insts
<1>12. Straight'
  <2> SUFFICES ASSUME NEW b \in BlockIndices', NEW i \in DOMAIN blocks'[b].insts,
                      NEW j \in DOMAIN blocks'[b].insts, i < j
               PROVE  ~IsBranch(blocks'[b].insts[i]) /\ blocks'[b].insts[j] \notin targetIndices
    BY <1>1 DEF Straight, Insts, IsBranch
  <2>1. b \in BlockIndices /\ blocks'[b] = blocks[b]
    BY <1>4, <1>5, <1>6
  <2> QED
    BY <1>1, <2>1 DEF CFGInv, Straight, Insts, IsBranch
<1>13. AllCovered'
  <2> SUFFICES ASSUME NEW p \in Offsets, IsMCInst(p), p < o + 1
               PROVE  \E b \in BlockIndices' : \E i \in DOMAIN blocks'[b].insts :
                        blocks'[b].insts[i] = p
    BY <1>1, <1>2 DEF AllCovered, Insts, Walked, IsMCInst
  <2>1. CASE p = o
    BY <1>4, <1>5, <1>6, <2>1
  <2>2. CASE p < pos
    <3>1. PICK b \in BlockIndices : \E i \in DOMAIN blocks[b].insts : blocks[b].insts[i] = p
      BY <1>2, <2>2 DEF CFGInv, AllCovered, Insts, Walked
    <3> QED
      BY <1>4, <3>1
  <2> QED
    BY <1>2, <2>1, <2>2
<1>14. BranchesEnd'
  BY <1>2, <1>4, <1>5, <1>6 DEF BranchesEnd, Insts
<1> QED
  BY <1>8, <1>9, <1>10, <1>11, <1>12, <1>13, <1>14 DEF CFGInv

\* An instruction that is no leader follows one that is no branch: the offset behind a
\* branch, and the first one behind data, are leaders.
LEMMA NoLeaderAfterBranch ==
  ASSUME CFGInv, GapsApart(instMap), NEW o \in Offsets, AtEntry(o), IsMCInst(o),
         o \notin targetIndices, blocks # <<>>
  PROVE  ~IsBranch(Insts(Len(blocks))[Len(Insts(Len(blocks)))])
<1> DEFINE l == Insts(Len(blocks))[Len(Insts(Len(blocks)))]
<1> SUFFICES ASSUME IsBranch(l) PROVE FALSE
  OBVIOUS
<1>1. /\ pos \in Nat /\ o \in Nat /\ pos <= o /\ pc = "walk"
      /\ \A p \in Offsets : pos <= p /\ p < o => instMap[p].kind = "gap"
  BY EntryFacts
<1>2. l \in Offsets
  <2>1. Len(blocks) \in BlockIndices /\ blocks \in Seq(Blocks)
    BY DEF CFGInv, BlocksTyped, BlockIndices
  <2>2. Insts(Len(blocks)) \in Seq(Offsets) /\ Insts(Len(blocks)) # <<>>
    <3>1. blocks[Len(blocks)] \in Blocks
      BY <2>1 DEF BlockIndices
    <3> QED
      BY <2>1, <3>1 DEF CFGInv, BlocksTyped, Blocks, Insts
  <2> QED
    BY <2>2
<1>3. pos = l + 1 \/ (pos - 1 \in Offsets /\ instMap[pos - 1].kind = "data")
  BY <1>1 DEF CFGInv, BranchesEnd
<1> HIDE DEF l
<1>4. l \in Nat /\ o < FuncEnd /\ FuncEnd \in Nat /\ pos - 1 \in Offsets /\ pos # 0
  BY <1>1, <1>2, <1>3, LeaderFacts, StreamsAssumption DEF CFGInv, Offsets
<1>5. instMap[pos - 1].kind \in BranchKinds \cup {"data"}
  <2>1. CASE pos = l + 1
    BY <1>4, <2>1 DEF IsBranch
  <2> QED
    BY <1>3, <2>1
<1>6. pos = o
  <2>1. pos \in Offsets
    BY <1>1, <1>4 DEF Offsets
  <2>2. instMap[pos].kind # "gap"
    BY <1>4, <1>5, <2>1 DEF GapsApart
  <2> QED
    BY <1>1, <2>1, <2>2
<1>7. CASE pos = l + 1
  BY <1>2, <1>4, <1>6, <1>7, LeaderFacts DEF CFGInv
<1>8. CASE instMap[pos - 1].kind = "data"
  BY <1>4, <1>6, <1>8, LeaderFacts DEF CFGInv, IsMCInst, InstKinds, BranchKinds
<1> QED
  BY <1>3, <1>7, <1>8

LEMMA ContinueBlockKeepsInv ==
  ASSUME CFGInv, GapsApart(instMap), NEW o \in Offsets, ContinueBlock(o) PROVE CFGInv'
<1> DEFINE n == Len(blocks)
           is == Append(blocks[n].insts, o)
<1>1. /\ blocks \in Seq(Blocks) /\ n \in Nat /\ o \notin targetIndices
      /\ UNCHANGED <<instMap, targetIndices>> /\ IsMCInst(o) /\ AtEntry(o)
  BY DEF ContinueBlock, CFGInv, BlocksTyped
<1>2. /\ pos \in Nat /\ o \in Nat /\ pos <= o /\ pos' = o + 1 /\ pc = "walk"
      /\ \A p \in Offsets : IsMCInst(p) /\ p < o + 1 => p < pos \/ p = o
  BY <1>1, EntryFacts
<1>3. InputKept'
  BY <1>1 DEF CFGInv, InputKept
<1>4. CASE blocks = <<>>
  <2>1. pc' = "undefined" /\ blocks' = <<>>
    BY <1>4 DEF ContinueBlock
  <2>2. BlockIndices' = {}
    BY <2>1 DEF BlockIndices
  <2> QED
    BY <1>2, <1>3, <2>1, <2>2
    DEF CFGInv, BlocksTyped, InstsMet, InOrder, Straight, AllCovered, BranchesEnd
<1>5. CASE blocks # <<>>
  <2>1. blocks' = [blocks EXCEPT ![n].insts = is] /\ pc' = "walk"
    BY <1>2, <1>5 DEF ContinueBlock
  <2>2. n \in BlockIndices /\ n # 0 /\ blocks[n] \in Blocks /\ \A b \in BlockIndices : b <= n
    BY <1>1, <1>5 DEF BlockIndices
  <2>3. blocks[n].insts \in Seq(Offsets) /\ blocks[n].insts # <<>>
        /\ blocks[n].insts[1] = blocks[n].entry
    BY <2>2 DEF Blocks, CFGInv, BlocksTyped, Insts
  <2> DEFINE m == Len(blocks[n].insts)
  <2>4. /\ is \in Seq(Offsets) /\ DOMAIN is = DOMAIN blocks[n].insts \cup {m + 1}
        /\ m \in Nat /\ m \in DOMAIN blocks[n].insts
        /\ \A i \in DOMAIN blocks[n].insts : is[i] = blocks[n].insts[i] /\ i <= m /\ i \in Nat
        /\ is[m + 1] = o /\ is # <<>> /\ is[1] = blocks[n].insts[1] /\ Len(is) = m + 1
    <3>1. m \in Nat /\ m # 0 /\ DOMAIN blocks[n].insts = 1..m
      BY <2>3
    <3>2. is \in Seq(Offsets) /\ Len(is) = m + 1 /\ DOMAIN is = 1..(m + 1) /\ is[m + 1] = o
      BY <2>3
    <3>3. \A i \in 1..m : is[i] = blocks[n].insts[i]
      BY <2>3
    <3> HIDE DEF is, m
    <3> QED
      BY <3>1, <3>2, <3>3
  <2>5. /\ blocks' \in Seq(Blocks) /\ Len(blocks') = n /\ BlockIndices' = BlockIndices
        /\ \A b \in BlockIndices : b # n => blocks'[b] = blocks[b]
        /\ blocks'[n].insts = is /\ blocks'[n].entry = blocks[n].entry
    <3> DEFINE q == [blocks[n] EXCEPT !.insts = is]
    <3>1. q \in Blocks /\ q.insts = is /\ q.entry = blocks[n].entry
      BY <2>2, <2>4 DEF Blocks
    <3>2. blocks' = [blocks EXCEPT ![n] = q]
      BY <2>1
    <3> HIDE DEF q, is
    <3> QED
      BY <1>1, <2>2, <3>1, <3>2 DEF BlockIndices
  <2>6. \A b \in BlockIndices : \A i \in DOMAIN blocks[b].insts :
          IsMCInst(blocks[b].insts[i]) /\ blocks[b].insts[i] < pos /\ blocks[b].insts[i] \in Nat
    <3>1. \A p : IsMCInst(p) => p \in Nat
      BY StreamsAssumption DEF IsMCInst, Offsets
    <3> QED
      BY <1>2, <3>1 DEF CFGInv, InstsMet, Walked, Insts
  <2>7. ~IsBranch(blocks[n].insts[m])
    BY <1>1, <1>5, NoLeaderAfterBranch DEF Insts
  <2> HIDE DEF is, m
  <2>8. BlocksTyped'
    <3>1. pos' \in Nat /\ blocks' \in Seq(Blocks)
      BY <1>2, <2>5
    <3>2. \A b \in BlockIndices : blocks[b].insts # <<>> /\ blocks[b].insts[1] = blocks[b].entry
      BY DEF CFGInv, BlocksTyped, Insts
    <3>3. blocks'[n].insts # <<>> /\ blocks'[n].insts[1] = blocks'[n].entry
      BY <2>3, <2>4, <2>5
    <3>4. \A b \in BlockIndices : blocks'[b].insts # <<>> /\ blocks'[b].insts[1] = blocks'[b].entry
      BY <2>5, <3>2, <3>3
    <3> QED
      BY <2>5, <3>1, <3>4 DEF BlocksTyped, Insts
  <2>9. InstsMet'
    <3> SUFFICES ASSUME NEW b \in BlockIndices, NEW i \in DOMAIN blocks'[b].insts
                 PROVE  IsMCInst(blocks'[b].insts[i]) /\ blocks'[b].insts[i] < o + 1
      BY <1>1, <1>2, <2>1, <2>5 DEF InstsMet, Walked, Insts, IsMCInst
    <3>1. CASE b # n
      BY <1>1, <1>2, <2>5, <2>6, <3>1 DEF IsMCInst
    <3>2. CASE b = n /\ i \in DOMAIN blocks[n].insts
      BY <1>1, <1>2, <2>2, <2>4, <2>5, <2>6, <3>2 DEF IsMCInst
    <3>3. CASE b = n /\ i = m + 1
      BY <1>1, <1>2, <2>4, <2>5, <3>3 DEF IsMCInst
    <3> QED
      BY <2>4, <2>5, <3>1, <3>2, <3>3
  <2>10. InOrder'
    <3>1. ASSUME NEW b \in BlockIndices, NEW i \in DOMAIN blocks'[b].insts,
                 NEW j \in DOMAIN blocks'[b].insts, i < j
          PROVE  blocks'[b].insts[i] < blocks'[b].insts[j]
      <4>1. CASE b # n
        BY <2>5, <3>1, <4>1 DEF CFGInv, InOrder, Insts
      <4>2. CASE b = n /\ j \in DOMAIN blocks[n].insts
        BY <2>2, <2>4, <2>5, <3>1, <4>2 DEF CFGInv, InOrder, Insts
      <4>3. CASE b = n /\ j = m + 1
        <5>1. i \in DOMAIN blocks[n].insts
          BY <2>4, <2>5, <3>1, <4>3
        <5> QED
          BY <1>2, <2>2, <2>4, <2>5, <2>6, <4>3, <5>1
      <4> QED
        BY <2>4, <2>5, <4>1, <4>2, <4>3
    <3>2. ASSUME NEW b \in BlockIndices, NEW c \in BlockIndices, b < c,
                 NEW i \in DOMAIN blocks'[b].insts, NEW j \in DOMAIN blocks'[c].insts
          PROVE  blocks'[b].insts[i] < blocks'[c].insts[j]
      <4>1. b # n /\ blocks'[b] = blocks[b]
        BY <1>1, <2>2, <2>5, <3>2 DEF BlockIndices
      <4>2. CASE c # n
        BY <2>5, <3>2, <4>1, <4>2 DEF CFGInv, InOrder, Insts
      <4>3. CASE c = n /\ j \in DOMAIN blocks[n].insts
        BY <2>4, <2>5, <3>2, <4>1, <4>3 DEF CFGInv, InOrder, Insts
      <4>4. CASE c = n /\ j = m + 1
        BY <1>2, <2>4, <2>5, <2>6, <3>2, <4>1, <4>4
      <4> QED
        BY <2>4, <2>5, <4>2, <4>3, <4>4
    <3> QED
      BY <2>5, <3>1, <3>2 DEF InOrder, Insts
  <2>11. Straight'
    <3> SUFFICES ASSUME NEW b \in BlockIndices, NEW i \in DOMAIN blocks'[b].insts,
                        NEW j \in DOMAIN blocks'[b].insts, i < j
                 PROVE  ~IsBranch(blocks'[b].insts[i]) /\ blocks'[b].insts[j] \notin targetIndices
      BY <1>1, <2>5 DEF Straight, Insts, IsBranch
    <3>1. CASE b # n
      BY <1>1, <2>5, <3>1 DEF CFGInv, Straight, Insts, IsBranch
    <3>2. CASE b = n /\ j \in DOMAIN blocks[n].insts
      <4>1. i \in DOMAIN blocks[n].insts
        BY <2>4, <2>5, <3>2
      <4> QED
        BY <1>1, <2>2, <2>4, <2>5, <3>2, <4>1 DEF CFGInv, Straight, Insts, IsBranch
    <3>3. CASE b = n /\ j = m + 1
      <4>1. i \in DOMAIN blocks[n].insts /\ blocks'[n].insts[i] = blocks[n].insts[i]
        BY <2>4, <2>5, <3>3
      <4>2. i < m \/ i = m
        BY <2>4, <4>1
      <4>3. ~IsBranch(blocks[n].insts[i])
        BY <2>2, <2>4, <2>7, <4>1, <4>2 DEF CFGInv, Straight, Insts
      <4> QED
        BY <1>1, <2>4, <2>5, <3>3, <4>1, <4>3 DEF IsBranch
    <3> QED
      BY <2>4, <2>5, <3>1, <3>2, <3>3
  <2>12. AllCovered'
    <3> SUFFICES ASSUME NEW p \in Offsets, IsMCInst(p), p < o + 1
                 PROVE  \E b \in BlockIndices : \E i \in DOMAIN blocks'[b].insts :
                          blocks'[b].insts[i] = p
      BY <1>1, <1>2, <2>1, <2>5 DEF AllCovered, Insts, Walked, IsMCInst
    <3>1. CASE p = o
      BY <2>2, <2>4, <2>5, <3>1
    <3>2. CASE p < pos
      <4>1. PICK b \in BlockIndices : \E i \in DOMAIN blocks[b].insts : blocks[b].insts[i] = p
        BY <1>2, <3>2 DEF CFGInv, AllCovered, Insts, Walked
      <4> QED
        BY <2>4, <2>5, <4>1
    <3> QED
      BY <1>2, <3>1, <3>2
  <2>13. BranchesEnd'
    BY <1>2, <2>4, <2>5 DEF BranchesEnd, Insts
  <2> QED
    BY <1>3, <2>8, <2>9, <2>10, <2>11, <2>12, <2>13 DEF CFGInv
<1> QED
  BY <1>4, <1>5

LEMMA SkipDataKeepsInv ==
  ASSUME CFGInv, NEW o \in Offsets, SkipData(o) PROVE CFGInv'
<1>1. /\ AtEntry(o) /\ ~IsMCInst(o)
      /\ UNCHANGED <<instMap, targetIndices, pc, blocks, mbbTargets, succ>>
  BY DEF SkipData
<1>2. /\ pos \in Nat /\ o \in Nat /\ pos <= o /\ pos' = o + 1 /\ pc = "walk"
      /\ \A p \in Offsets : IsMCInst(p) /\ p < o + 1 => p < pos \/ p = o
  BY <1>1, EntryFacts
<1>3. instMap[o].kind = "data"
  <2>1. instMap[o] \in Entries
    BY StreamsAssumption DEF CFGInv, InputKept
  <2> QED
    BY <1>1, <2>1 DEF AtEntry, EntryOffsets, IsEntry, IsMCInst, Entries
<1>4. InputKept' /\ BlocksTyped' /\ InOrder' /\ Straight'
  BY <1>1, <1>2
  DEF CFGInv, InputKept, BlocksTyped, InOrder, Straight, Insts, BlockIndices, IsBranch
<1>5. \A p : IsMCInst(p) => p \in Nat
  BY StreamsAssumption DEF IsMCInst, Offsets
<1>6. \A p : IsMCInst(p)' <=> IsMCInst(p)
  BY <1>1 DEF IsMCInst
<1>7. InstsMet'
  BY <1>1, <1>2, <1>5, <1>6 DEF CFGInv, InstsMet, Insts, BlockIndices, Walked, IsMCInst
<1>8. AllCovered'
  BY <1>1, <1>2, <1>6 DEF CFGInv, AllCovered, Insts, BlockIndices, Walked, IsMCInst
<1>9. BranchesEnd'
  BY <1>1, <1>2, <1>3 DEF BranchesEnd
<1> QED
  BY <1>4, <1>7, <1>8, <1>9 DEF CFGInv

\* After the walk the blocks stay.
LEMMA LastMBBKeepsInv == ASSUME CFGInv, LastMBB PROVE CFGInv'
<1>1. /\ UNCHANGED <<instMap, targetIndices, blocks>> /\ pc = "walk" /\ pos' = 1
      /\ pc' \in {"built", "undefined", "aborted", "edges"}
      /\ \A p \in EntryOffsets : p < pos
  BY DEF LastMBB
<1>2. InputKept' /\ BlocksTyped' /\ InOrder' /\ Straight' /\ BranchesEnd'
  BY <1>1
  DEF CFGInv, InputKept, BlocksTyped, InOrder, Straight, BranchesEnd, Insts, BlockIndices, IsBranch
<1>3. InstsMet'
  BY <1>1 DEF CFGInv, InstsMet, Insts, BlockIndices, Walked, IsMCInst
<1>4. \A p \in Offsets : IsMCInst(p) => p < pos
  BY <1>1 DEF IsMCInst, IsEntry, EntryOffsets, InstKinds, BranchKinds
<1>5. AllCovered'
  BY <1>1, <1>4 DEF CFGInv, AllCovered, Insts, BlockIndices, Walked, IsMCInst
<1> QED
  BY <1>2, <1>3, <1>5 DEF CFGInv

LEMMA NextMBBEdgesKeepsInv == ASSUME CFGInv, NextMBBEdges PROVE CFGInv'
<1>1. /\ UNCHANGED <<instMap, targetIndices, blocks>> /\ pc = "edges" /\ pos' = pos + 1
      /\ pc' \in {"built", "edges"}
  BY DEF NextMBBEdges
<1> QED
  BY <1>1
  DEF CFGInv, InputKept, BlocksTyped, InOrder, Straight, BranchesEnd, Insts, BlockIndices,
      IsBranch, InstsMet, Walked, IsMCInst, AllCovered

LEMMA BuildCFGKeepsInv ==
  ASSUME CFGInv, GapsApart(instMap), [BuildCFG]_cfgVars PROVE CFGInv'
<1>1. CASE \E o \in Offsets : StartBlock(o) \/ ContinueBlock(o) \/ SkipData(o)
  BY <1>1, StartBlockKeepsInv, ContinueBlockKeepsInv, SkipDataKeepsInv
<1>2. CASE LastMBB
  BY <1>2, LastMBBKeepsInv
<1>3. CASE NextMBBEdges
  BY <1>3, NextMBBEdgesKeepsInv
<1>4. CASE UNCHANGED cfgVars
  BY <1>4
  DEF cfgVars, CFGInv, InputKept, BlocksTyped, InOrder, Straight, BranchesEnd, Insts,
      BlockIndices, IsBranch, InstsMet, Walked, IsMCInst, AllCovered
<1> QED
  BY <1>1, <1>2, <1>3, <1>4 DEF BuildCFG

-----------------------------------------------------------------------------
(* The theorem. *)

LEMMA InvPartitions == ASSUME CFGInv PROVE BlocksPartition
<1> SUFFICES ASSUME Built
             PROVE  /\ \A o \in Offsets : IsMCInst(o) =>
                         Cardinality({b \in BlockIndices : o \in Range(blocks[b].insts)}) = 1
                    /\ \A b \in BlockIndices :
                         /\ blocks[b].insts[1] = blocks[b].entry
                         /\ \A i, j \in DOMAIN blocks[b].insts :
                              i < j => /\ blocks[b].insts[i] < blocks[b].insts[j]
                                       /\ ~IsBranch(blocks[b].insts[i])
                                       /\ blocks[b].insts[j] \notin
                                            UNION {MachineSucc(o) \ {o + 1} :
                                                     o \in {p \in Offsets : IsMCInst(p)}}
  BY DEF BlocksPartition
<1>1. ASSUME NEW o \in Offsets, IsMCInst(o)
      PROVE  Cardinality({b \in BlockIndices : o \in Range(blocks[b].insts)}) = 1
  <2> DEFINE S == {b \in BlockIndices : o \in Range(blocks[b].insts)}
  <2>1. PICK b \in BlockIndices : o \in Range(blocks[b].insts)
    BY <1>1 DEF CFGInv, AllCovered, Walked, Built, Insts, Range
  <2>2. ASSUME NEW c \in S, NEW d \in S, c < d PROVE FALSE
    <3>1. PICK i \in DOMAIN Insts(c) : Insts(c)[i] = o
      BY DEF Range, Insts
    <3>2. PICK j \in DOMAIN Insts(d) : Insts(d)[j] = o
      BY DEF Range, Insts
    <3>3. Insts(c)[i] < Insts(d)[j]
      BY <2>2 DEF CFGInv, InOrder
    <3> QED
      BY <3>1, <3>2, <3>3, StreamsAssumption DEF Offsets
  <2>3. S = {b}
    BY <2>1, <2>2 DEF BlockIndices
  <2> QED
    BY <2>3, FS_Singleton
<1>2. ASSUME NEW b \in BlockIndices, NEW i \in DOMAIN blocks[b].insts,
             NEW j \in DOMAIN blocks[b].insts, i < j
      PROVE  /\ blocks[b].insts[i] < blocks[b].insts[j]
             /\ ~IsBranch(blocks[b].insts[i])
             /\ blocks[b].insts[j] \notin
                  UNION {MachineSucc(o) \ {o + 1} : o \in {p \in Offsets : IsMCInst(p)}}
  <2>1. /\ blocks[b].insts[i] < blocks[b].insts[j] /\ ~IsBranch(blocks[b].insts[i])
        /\ blocks[b].insts[j] \notin targetIndices
    BY <1>2 DEF CFGInv, InOrder, Straight, Insts
  <2>2. blocks[b].insts[j] \in Offsets
    BY DEF CFGInv, InstsMet, Insts, IsMCInst
  <2>3. ASSUME NEW o \in Offsets, blocks[b].insts[j] \in MachineSucc(o) \ {o + 1} PROVE FALSE
    <3>1. instMap[o].kind \in {"jmp", "cond"} /\ blocks[b].insts[j] = instMap[o].target
      BY <2>3 DEF MachineSucc
    <3> QED
      BY <2>1, <2>2, <3>1, LeaderFacts DEF CFGInv
  <2> QED
    BY <2>1, <2>3
<1> QED
  BY <1>1, <1>2 DEF CFGInv, BlocksTyped, Insts

\* If no undecoded byte follows a branch or data, buildCFG puts every instruction of a
\* function into exactly one block, and no branch is inside one or leads into one.
THEOREM BlocksAlwaysPartition ==
  (\A s \in Streams : GapsApart(s)) => (CFGSpec => []BlocksPartition)
<1> SUFFICES ASSUME \A s \in Streams : GapsApart(s) PROVE CFGSpec => []BlocksPartition
  OBVIOUS
<1>1. Init => CFGInv
  <2> SUFFICES ASSUME Init PROVE CFGInv
    OBVIOUS
  <2>1. BlockIndices = {} /\ blocks \in Seq(Blocks) /\ \A o \in Offsets : ~(o < 0)
    BY StreamsAssumption DEF Init, BlockIndices, Offsets
  <2> QED
    BY <2>1
    DEF Init, CFGInv, InputKept, BlocksTyped, InOrder, Straight, BranchesEnd, InstsMet, Walked,
        AllCovered
<1>2. CFGInv /\ [BuildCFG]_cfgVars => CFGInv'
  <2>1. CFGInv => GapsApart(instMap)
    BY DEF CFGInv, InputKept
  <2> QED
    BY <2>1, BuildCFGKeepsInv
<1>3. CFGInv => BlocksPartition
  BY InvPartitions
<1> QED
  BY <1>1, <1>2, <1>3, PTL DEF CFGSpec

-----------------------------------------------------------------------------
(* The edges: the inductive invariant, added to that of the blocks. *)

\* Every byte of the function was decoded, as an instruction or as data.
AllDecoded(s) == \A o \in Offsets : s[o].kind # "gap"

\* With every byte decoded, the instructions of a block are adjacent.
Adjacent ==
  \A b \in BlockIndices : \A i, j \in DOMAIN Insts(b) : j = i + 1 => Insts(b)[j] = Insts(b)[i] + 1

\* What the walk notes for a block with the last instruction p.
NotedTargets(p) ==
  IF p = FuncEnd - 1
  THEN IF instMap[p].kind = "jmp" /\ InFunction(instMap[p].target)
       THEN <<instMap[p].target>> ELSE <<>>
  ELSE IF IsMCInst(p + 1) THEN PrevMCInstTargets(p + 1) ELSE <<>>

TargetsNoted ==
  /\ mbbTargets \in Seq(Seq(Offsets))
  /\ pc = "walk" => Len(mbbTargets) = IF blocks = <<>> THEN 0 ELSE Len(blocks) - 1
  /\ pc \in {"edges", "built"} => Len(mbbTargets) = Len(blocks)
  /\ \A b \in DOMAIN mbbTargets : mbbTargets[b] = NotedTargets(LastInst(b))

SuccsNoted ==
  /\ succ \in Seq(Seq(BlockIndices))
  /\ pc = "walk" => succ = <<>>
  /\ pc = "edges" => Len(succ) = pos - 1
  /\ pc = "built" => Len(succ) = Len(blocks)
  /\ \A b \in DOMAIN succ :
       /\ Len(succ[b]) <= 2
       /\ Range(succ[b]) = IF isReturnBlock(b) THEN {}
                           ELSE {InstToMBBNum(t) : t \in Range(mbbTargets[b])} \ {0}

\* buildCFG gives up on a function that ends in a conditional branch.
NoCondEnd ==
  pc \in {"edges", "built"} /\ blocks # <<>> => ~IsConditionalBranch(FuncEnd - 1)

EdgeInv ==
  CFGInv /\ AllDecoded(instMap) /\ Adjacent /\ TargetsNoted /\ SuccsNoted /\ NoCondEnd

-----------------------------------------------------------------------------
(* The steps, with every byte decoded. *)

LEMMA DecodedFacts ==
  ASSUME AllDecoded(instMap)
  PROVE  /\ EntryOffsets = Offsets /\ LastEntry = FuncEnd - 1
         /\ \A o \in Offsets \ {0} : o - 1 \in Offsets /\ PrevEntry(o) = o - 1
<1>1. EntryOffsets = Offsets
  BY DEF AllDecoded, EntryOffsets, IsEntry
<1>2. FuncEnd - 1 \in Offsets /\ \A o \in Offsets : o \in Int /\ o <= FuncEnd - 1
  BY StreamsAssumption DEF Offsets
<1>3. LastEntry = FuncEnd - 1
  <2>1. \A x \in Offsets : (\A y \in Offsets : x >= y) => x = FuncEnd - 1
    BY <1>2
  <2>2. \A y \in Offsets : FuncEnd - 1 >= y
    BY <1>2, StreamsAssumption
  <2> QED
    BY <1>1, <1>2, <2>1, <2>2 DEF LastEntry, Max
<1>4. ASSUME NEW o \in Offsets \ {0} PROVE o - 1 \in Offsets /\ PrevEntry(o) = o - 1
  <2> DEFINE S == {p \in EntryOffsets : p < o}
  <2>1. o - 1 \in Offsets /\ o - 1 \in S
    BY <1>1, StreamsAssumption DEF Offsets
  <2>2. \A y \in S : y \in Int /\ y <= o - 1
    BY <1>1, StreamsAssumption DEF Offsets
  <2>3. \A x \in S : (\A y \in S : x >= y) => x = o - 1
    BY <2>1, <2>2
  <2>4. \A y \in S : o - 1 >= y
    BY <2>1, <2>2
  <2>5. PrevEntry(o) = CHOOSE x \in S : \A y \in S : x >= y
    BY DEF PrevEntry, Max
  <2> HIDE DEF S
  <2> QED
    BY <2>1, <2>3, <2>4, <2>5
<1> QED
  BY <1>1, <1>3, <1>4

\* The walk meets every offset; the one behind the last instruction of the last block is
\* data, or the one where the walk stands.
LEMMA WalkFacts ==
  ASSUME CFGInv, AllDecoded(instMap), pc = "walk"
  PROVE  /\ \A o \in Offsets : AtEntry(o) => o = pos
         /\ blocks # <<>> =>
              /\ Len(blocks) \in BlockIndices
              /\ LastInst(Len(blocks)) \in Offsets /\ LastInst(Len(blocks)) < pos
              /\ \A q \in Offsets : IsMCInst(q) /\ q < pos => q <= LastInst(Len(blocks))
<1>1. ASSUME NEW o \in Offsets, AtEntry(o) PROVE o = pos
  <2>1. pos \in Nat /\ o \in Nat /\ pos <= o /\ o < FuncEnd
    BY <1>1, EntryFacts, LeaderFacts DEF CFGInv
  <2>2. pos \in Offsets
    BY <2>1, StreamsAssumption DEF Offsets
  <2>3. pos >= o
    BY <1>1, <2>1, <2>2, DecodedFacts DEF AtEntry
  <2> QED
    BY <2>1, <2>3
<1>2. ASSUME blocks # <<>>
      PROVE  /\ Len(blocks) \in BlockIndices
             /\ LastInst(Len(blocks)) \in Offsets /\ LastInst(Len(blocks)) < pos
             /\ \A q \in Offsets : IsMCInst(q) /\ q < pos => q <= LastInst(Len(blocks))
  <2> DEFINE n == Len(blocks)
             m == Len(Insts(n))
  <2>1. n \in BlockIndices /\ blocks[n] \in Blocks /\ n \in Nat
        /\ \A b \in BlockIndices : b \in Nat /\ b <= n
    BY <1>2 DEF CFGInv, BlocksTyped, BlockIndices
  <2>2. \A b \in BlockIndices : Insts(b) \in Seq(Offsets)
    <3>1. \A b \in BlockIndices : blocks[b] \in Blocks
      BY DEF CFGInv, BlocksTyped, BlockIndices
    <3> QED
      BY <3>1 DEF Blocks, Insts
  <2>3. m \in DOMAIN Insts(n) /\ \A i \in DOMAIN Insts(n) : i \in Nat /\ i <= m
    BY <2>1, <2>2 DEF CFGInv, BlocksTyped
  <2>4. LastInst(n) = Insts(n)[m]
    BY DEF LastInst, Insts
  <2>5. ASSUME NEW q \in Offsets, IsMCInst(q), q < pos PROVE q <= LastInst(n)
    <3>1. PICK b \in BlockIndices : \E i \in DOMAIN Insts(b) : Insts(b)[i] = q
      BY <2>5 DEF CFGInv, AllCovered, Walked
    <3>2. PICK i \in DOMAIN Insts(b) : Insts(b)[i] = q
      BY <3>1
    <3>3. b < n \/ b = n
      BY <2>1
    <3>4. i \in Nat /\ m \in Nat /\ (b = n => i < m \/ i = m)
      BY <2>2, <2>3
    <3>5. Insts(b)[i] < Insts(n)[m] \/ Insts(b)[i] = Insts(n)[m]
      BY <2>1, <2>3, <3>3, <3>4 DEF CFGInv, InOrder
    <3>6. q \in Nat /\ Insts(n)[m] \in Nat
      BY <2>1, <2>2, <2>3, StreamsAssumption DEF Offsets
    <3> QED
      BY <2>4, <3>2, <3>5, <3>6
  <2>6. LastInst(n) \in Offsets /\ LastInst(n) < pos
    BY <2>1, <2>3, <2>4 DEF CFGInv, InstsMet, Walked, IsMCInst
  <2> QED
    BY <2>1, <2>5, <2>6
<1> QED
  BY <1>1, <1>2

\* The targets noted at the leader o.
LEMMA PrevTargets ==
  ASSUME InputKept, AllDecoded(instMap), NEW o \in Offsets \ {0}
  PROVE  LET p == o - 1
             t == instMap[p].target
         IN  /\ ~IsMCInst(p) => PrevMCInstTargets(o) = <<>>
             /\ instMap[p].kind \in {"plain", "nop", "ret"} => PrevMCInstTargets(o) = <<o>>
             /\ instMap[p].kind = "indirect" => PrevMCInstTargets(o) = <<>>
             /\ instMap[p].kind = "jmp" =>
                  PrevMCInstTargets(o) = IF t \in Offsets THEN <<t>> ELSE <<>>
             /\ instMap[p].kind = "cond" =>
                  PrevMCInstTargets(o) = IF t \in Offsets THEN <<t, o>> ELSE <<>>
<1> DEFINE p == o - 1
<1>1. p \in Offsets /\ PrevEntry(o) = p /\ o \in Int
  BY DecodedFacts, StreamsAssumption DEF Offsets
<1>2. instMap[p] \in Entries
  BY <1>1, StreamsAssumption DEF InputKept
<1>3. EvaluatedTarget(p, o - p) = instMap[p].target
  BY <1>1, <1>2 DEF EvaluatedTarget, Entries
<1>4. InFunction(instMap[p].target) <=> instMap[p].target \in Offsets
  BY <1>2, StreamsAssumption DEF InFunction, Entries, Offsets
<1>5. IsMCInst(p) <=> instMap[p].kind \in InstKinds
  BY <1>1 DEF IsMCInst
<1> HIDE DEF p
<1>6. PrevMCInstTargets(o) =
        CASE ~IsMCInst(p) -> <<>>
          [] IsMCInst(p) /\ ~IsBranch(p) -> <<o>>
          [] OTHER ->
               IF instMap[p].kind = "indirect" \/ instMap[p].target \notin Offsets THEN <<>>
               ELSE IF IsConditionalBranch(p) THEN <<instMap[p].target, o>>
               ELSE <<instMap[p].target>>
  BY <1>1, <1>3, <1>4 DEF PrevMCInstTargets
<1> QED
  BY <1>5, <1>6 DEF p, IsBranch, IsConditionalBranch, InstKinds, BranchKinds

LEMMA PrevTargetsTyped ==
  ASSUME InputKept, AllDecoded(instMap), NEW o \in Offsets \ {0}
  PROVE  PrevMCInstTargets(o) \in Seq(Offsets) /\ Len(PrevMCInstTargets(o)) \in 0..2
<1>1. o - 1 \in Offsets
  BY DecodedFacts
<1>2. instMap[o - 1].kind \in InstKinds \/ ~IsMCInst(o - 1)
  BY <1>1 DEF IsMCInst
<1>3. \/ PrevMCInstTargets(o) = <<>>
      \/ PrevMCInstTargets(o) = <<o>>
      \/ \E t \in Offsets : PrevMCInstTargets(o) = <<t>> \/ PrevMCInstTargets(o) = <<t, o>>
  BY <1>2, PrevTargets DEF InstKinds, BranchKinds
<1>4. ASSUME NEW t \in Offsets
      PROVE  /\ <<t>> \in Seq(Offsets) /\ Len(<<t>>) = 1
             /\ <<t, o>> \in Seq(Offsets) /\ Len(<<t, o>>) = 2
  OBVIOUS
<1>5. <<>> \in Seq(Offsets) /\ Len(<<>>) = 0
  OBVIOUS
<1>6. CASE PrevMCInstTargets(o) = <<>>
  BY <1>5, <1>6
<1>7. CASE PrevMCInstTargets(o) = <<o>>
  BY <1>4, <1>7
<1>8. CASE \E t \in Offsets : PrevMCInstTargets(o) = <<t>> \/ PrevMCInstTargets(o) = <<t, o>>
  <2>1. PICK t \in Offsets : PrevMCInstTargets(o) = <<t>> \/ PrevMCInstTargets(o) = <<t, o>>
    BY <1>8
  <2>2. CASE PrevMCInstTargets(o) = <<t>>
    BY <1>4, <2>2
  <2>3. CASE PrevMCInstTargets(o) = <<t, o>>
    BY <1>4, <2>3
  <2> QED
    BY <2>1, <2>2, <2>3
<1> QED
  BY <1>3, <1>6, <1>7, <1>8

LEMMA AppendRange ==
  ASSUME NEW S, NEW s \in Seq(S), NEW e \in S
  PROVE  /\ Append(s, e) \in Seq(S) /\ Len(Append(s, e)) = Len(s) + 1
         /\ \A i \in DOMAIN s : Append(s, e)[i] = s[i]
         /\ Append(s, e)[Len(s) + 1] = e
         /\ Range(Append(s, e)) = Range(s) \cup {e}
<1> DEFINE a == Append(s, e)
<1>1. /\ a \in Seq(S) /\ DOMAIN a = DOMAIN s \cup {Len(s) + 1}
      /\ a[Len(s) + 1] = e /\ \A i \in DOMAIN s : a[i] = s[i]
      /\ Len(a) = Len(s) + 1
  <2>1. /\ a \in Seq(S) /\ Len(a) = Len(s) + 1
        /\ a[Len(s) + 1] = e /\ \A i \in 1..Len(s) : a[i] = s[i]
    BY AppendProperties
  <2> HIDE DEF a
  <2> QED
    BY <2>1
<1> HIDE DEF a
<1>2. Range(a) = Range(s) \cup {e}
  BY <1>1 DEF Range
<1> QED
  BY <1>1, <1>2 DEF a

\* The blocks of at most two targets are found.
LEMMA TargetMBBsFacts ==
  ASSUME blocks \in Seq(Blocks), NEW ts \in Seq(Offsets), Len(ts) \in 0..2
  PROVE  /\ TargetMBBs(ts) \in Seq(BlockIndices) /\ Len(TargetMBBs(ts)) <= 2
         /\ Range(TargetMBBs(ts)) = {InstToMBBNum(t) : t \in Range(ts)} \ {0}
<1> DEFINE n == Len(ts)
           num == [i \in 1..n |-> InstToMBBNum(ts[i])]
           step(f) == [i \in 0..n |-> IF i = 0 THEN <<>>
                                      ELSE IF num[i] = 0 THEN f[i - 1]
                                      ELSE Append(f[i - 1], num[i])]
           one == IF num[1] = 0 THEN <<>> ELSE <<num[1]>>
           two == IF num[2] = 0 THEN one ELSE Append(one, num[2])
           g == [i \in 0..n |-> IF i = 0 THEN <<>> ELSE IF i = 1 THEN one ELSE two]
           coded(f) == [i \in 0..n |-> IF i = 0 THEN <<>>
                                       ELSE IF InstToMBBNum(ts[i]) = 0 THEN f[i - 1]
                                       ELSE Append(f[i - 1], InstToMBBNum(ts[i]))]
           found == CHOOSE f : f = coded(f)
<1>1. \A t : InstToMBBNum(t) \in BlockIndices \cup {0}
  BY DEF InstToMBBNum
<1>2. 0 \notin BlockIndices /\ n \in 0..2
  BY DEF BlockIndices
<1>3. TargetMBBs(ts) = found[n]
  BY DEF TargetMBBs
<1>4. Range(ts) = {ts[i] : i \in 1..n} /\ Range(ts) \subseteq Offsets
  BY DEF Range
<1>5. g = step(g)
  <2>1. ASSUME NEW i \in 0..n
        PROVE  g[i] = IF i = 0 THEN <<>>
                      ELSE IF num[i] = 0 THEN g[i - 1] ELSE Append(g[i - 1], num[i])
    <3> HIDE DEF num, n
    <3>1. i = 0 \/ i = 1 \/ i = 2
      BY <1>2
    <3>2. CASE i = 0
      BY <3>2
    <3>3. CASE i = 1
      <4>1. 0 \in 0..n /\ 1 \in 0..n
        BY <1>2, <3>3
      <4>2. g[0] = <<>> /\ g[1] = one
        BY <4>1
      <4>3. one = IF num[1] = 0 THEN g[0] ELSE Append(g[0], num[1])
        <5> HIDE DEF g, num
        <5> QED
          BY <4>2
      <4> HIDE DEF g, one
      <4>4. i # 0 /\ i - 1 = 0
        BY <3>3
      <4> HIDE DEF num
      <4> QED
        BY <3>3, <4>2, <4>3, <4>4
    <3>4. CASE i = 2
      BY <1>2, <3>4
    <3> QED
      BY <3>1, <3>2, <3>3, <3>4
  <2> HIDE DEF num, one, two
  <2> QED
    BY <2>1 DEF step
<1>6. found = step(found)
  <2>1. ASSUME NEW f PROVE coded(f) = step(f)
    <3>1. n \in Nat
      BY <1>2
    <3>2. \A i \in 0..n : i # 0 => num[i] = InstToMBBNum(ts[i])
      BY <3>1
    <3> HIDE DEF num, n
    <3> QED
      BY <3>2
  <2>2. g = coded(g)
    BY <1>5, <2>1
  <2> HIDE DEF g, step, coded
  <2> QED
    BY <2>1, <2>2
<1> HIDE DEF g, found, n, num, one, two
<1>7. found[0] = <<>>
  BY <1>2, <1>6
<1> HIDE DEF step
<1>8. n >= 1 => found[1] = one
  <2>1. n >= 1 => 0 \in 0..n /\ 1 \in 0..n
    BY <1>2
  <2>2. n >= 1 => found[1] = IF num[1] = 0 THEN found[0] ELSE Append(found[0], num[1])
    <3>1. ASSUME n >= 1
          PROVE  step(found)[1] = IF num[1] = 0 THEN found[0] ELSE Append(found[0], num[1])
      BY <2>1, <3>1 DEF step
    <3> QED
      BY <1>6, <3>1
  <2> QED
    BY <1>7, <2>2 DEF one
<1>9. n >= 2 => found[2] = two
  <2>1. n >= 2 => 1 \in 0..n /\ 2 \in 0..n
    BY <1>2
  <2> QED
    BY <1>2, <1>6, <1>8, <2>1 DEF two, step
<1>10. \A i \in 1..n : num[i] \in BlockIndices \cup {0}
  BY <1>1 DEF num
<1>11. {InstToMBBNum(t) : t \in Range(ts)} = {num[i] : i \in 1..n}
  BY <1>4 DEF num
<1>12. <<>> \in Seq(BlockIndices) /\ Range(<<>>) = {} /\ Len(<<>>) = 0
  BY DEF Range
<1>13. n >= 1 => one \in Seq(BlockIndices) /\ Range(one) = {num[1]} \ {0} /\ Len(one) <= 1
  <2>1. CASE n >= 1 /\ num[1] = 0
    BY <1>12, <2>1 DEF one
  <2>2. CASE n >= 1 /\ num[1] # 0
    <3>1. num[1] \in BlockIndices
      BY <1>2, <1>10, <2>2
    <3>2. <<num[1]>> \in Seq(BlockIndices) /\ Range(<<num[1]>>) = {num[1]}
          /\ Len(<<num[1]>>) = 1
      BY <3>1 DEF Range
    <3> QED
      BY <1>12, <2>2, <3>2 DEF one
  <2> QED
    BY <2>1, <2>2
<1>14. n >= 2 => two \in Seq(BlockIndices) /\ Range(two) = {num[1], num[2]} \ {0} /\ Len(two) <= 2
  <2>1. CASE n >= 2 /\ num[2] = 0
    BY <1>2, <1>13, <2>1 DEF two
  <2>2. CASE n >= 2 /\ num[2] # 0
    <3>1. num[2] \in BlockIndices /\ one \in Seq(BlockIndices)
      BY <1>2, <1>10, <1>13, <2>2
    <3>2. Append(one, num[2]) \in Seq(BlockIndices)
          /\ Range(Append(one, num[2])) = Range(one) \cup {num[2]}
          /\ Len(Append(one, num[2])) = Len(one) + 1
      BY <3>1, AppendRange
    <3> QED
      BY <1>2, <1>13, <2>2, <3>2 DEF two
  <2> QED
    BY <2>1, <2>2
<1>15. CASE n = 0
  <2>1. {num[i] : i \in 1..n} = {}
    BY <1>15
  <2>2. TargetMBBs(ts) = <<>> /\ Len(<<>>) <= 2
    BY <1>3, <1>7, <1>15
  <2> QED
    BY <1>11, <1>12, <2>1, <2>2
<1>16. CASE n = 1
  <2>1. {num[i] : i \in 1..n} = {num[1]}
    BY <1>16
  <2> QED
    BY <1>3, <1>8, <1>11, <1>13, <1>16, <2>1
<1>17. CASE n = 2
  <2>1. {num[i] : i \in 1..n} = {num[1], num[2]}
    BY <1>17
  <2> QED
    BY <1>3, <1>9, <1>11, <1>14, <1>17, <2>1
<1> QED
  BY <1>2, <1>15, <1>16, <1>17

LEMMA NotedTargetsFacts ==
  ASSUME InputKept, AllDecoded(instMap), NEW p \in Offsets
  PROVE  NotedTargets(p) \in Seq(Offsets) /\ Len(NotedTargets(p)) \in 0..2
<1>1. p # FuncEnd - 1 => p + 1 \in Offsets \ {0}
  BY StreamsAssumption DEF Offsets
<1>2. instMap[p] \in Entries
  BY StreamsAssumption DEF InputKept
<1>3. InFunction(instMap[p].target) => instMap[p].target \in Offsets
  BY <1>2, StreamsAssumption DEF InFunction, Entries, Offsets
<1>4. \A t \in Offsets : <<t>> \in Seq(Offsets) /\ Len(<<t>>) = 1
  OBVIOUS
<1>5. <<>> \in Seq(Offsets) /\ Len(<<>>) = 0
  OBVIOUS
<1>6. CASE p = FuncEnd - 1
  <2>1. \/ NotedTargets(p) = <<>>
        \/ instMap[p].target \in Offsets /\ NotedTargets(p) = <<instMap[p].target>>
    BY <1>3, <1>6 DEF NotedTargets
  <2>2. CASE NotedTargets(p) = <<>>
    BY <1>5, <2>2
  <2>3. CASE instMap[p].target \in Offsets /\ NotedTargets(p) = <<instMap[p].target>>
    BY <1>4, <2>3
  <2> QED
    BY <2>1, <2>2, <2>3
<1>7. CASE p # FuncEnd - 1
  <2>1. CASE IsMCInst(p + 1)
    BY <1>1, <1>7, <2>1, PrevTargetsTyped DEF NotedTargets
  <2>2. CASE ~IsMCInst(p + 1)
    BY <1>5, <1>7, <2>2 DEF NotedTargets
  <2> QED
    BY <2>1, <2>2
<1> QED
  BY <1>6, <1>7

LEMMA InstsFacts ==
  ASSUME CFGInv, NEW b \in BlockIndices
  PROVE  /\ Insts(b) \in Seq(Offsets) /\ Len(Insts(b)) \in DOMAIN Insts(b)
         /\ \A i \in DOMAIN Insts(b) : i \in Nat /\ 1 <= i /\ i <= Len(Insts(b))
         /\ LastInst(b) = Insts(b)[Len(Insts(b))]
         /\ LastInst(b) \in Offsets /\ IsMCInst(LastInst(b))
         /\ blocks[b].entry = Insts(b)[1]
<1>1. blocks[b] \in Blocks
  BY DEF CFGInv, BlocksTyped, BlockIndices
<1>2. Insts(b) \in Seq(Offsets)
  BY <1>1 DEF Blocks, Insts
<1>3. Insts(b) # <<>> /\ blocks[b].entry = Insts(b)[1]
  BY DEF CFGInv, BlocksTyped
<1>4. Len(Insts(b)) \in DOMAIN Insts(b)
  BY <1>2, <1>3
<1>5. LastInst(b) = Insts(b)[Len(Insts(b))]
  BY DEF LastInst, Insts
<1>6. IsMCInst(LastInst(b))
  BY <1>4, <1>5 DEF CFGInv, InstsMet
<1> QED
  BY <1>2, <1>3, <1>4, <1>5, <1>6 DEF IsMCInst

\* What depends on the stream or on the blocks stays with them.
LEMMA KeptFacts ==
  ASSUME UNCHANGED instMap
  PROVE  /\ \A p : NotedTargets(p)' = NotedTargets(p)
         /\ AllDecoded(instMap)' <=> AllDecoded(instMap)
  BY DEF NotedTargets, AllDecoded, PrevMCInstTargets, PrevEntry, EntryOffsets, IsEntry,
         EvaluatedTarget, IsMCInst, IsBranch, IsConditionalBranch

LEMMA StartBlockKeepsEdgeInv ==
  ASSUME EdgeInv, NEW o \in Offsets, StartBlock(o), CFGInv'
  PROVE  EdgeInv'
<1> DEFINE n == Len(blocks)
           new == [entry |-> o, insts |-> <<o>>]
<1>1. /\ blocks \in Seq(Blocks) /\ blocks' = Append(blocks, new) /\ n \in Nat
      /\ UNCHANGED <<instMap, targetIndices, pc, succ>> /\ IsMCInst(o) /\ AtEntry(o)
      /\ CFGInv /\ AllDecoded(instMap) /\ InputKept
      /\ mbbTargets' = IF blocks = <<>> THEN <<>> ELSE Append(mbbTargets, PrevMCInstTargets(o))
      /\ mbbTargets \in Seq(Seq(Offsets))
  BY DEF StartBlock, EdgeInv, CFGInv, BlocksTyped, TargetsNoted
<1>2. pos \in Nat /\ o \in Nat /\ o = pos /\ pc = "walk"
  BY <1>1, EntryFacts, WalkFacts
<1>3. new \in Blocks
  BY DEF Blocks
<1>4. /\ blocks' \in Seq(Blocks) /\ Len(blocks') = n + 1 /\ blocks' # <<>>
      /\ \A b \in BlockIndices : blocks'[b] = blocks[b]
      /\ BlockIndices' = BlockIndices \cup {n + 1} /\ n + 1 \notin BlockIndices
      /\ blocks'[n + 1].insts = <<o>>
  BY <1>1, <1>3 DEF BlockIndices
<1>5. AllDecoded(instMap)' /\ \A p : NotedTargets(p)' = NotedTargets(p)
  BY <1>1, KeptFacts
<1>6. \A b \in BlockIndices : LastInst(b)' = LastInst(b)
  BY <1>4 DEF LastInst
<1>7. Adjacent'
  <2>1. DOMAIN <<o>> = {1}
    OBVIOUS
  <2> QED
    BY <1>4, <2>1 DEF EdgeInv, Adjacent, Insts
<1>8. TargetsNoted'
  <2>1. CASE blocks = <<>>
    <3>1. mbbTargets' = <<>> /\ n = 0
      BY <1>1, <2>1
    <3>2. <<>> \in Seq(Seq(Offsets)) /\ Len(<<>>) = 0 /\ DOMAIN <<>> = {}
      OBVIOUS
    <3> QED
      BY <1>1, <1>2, <1>4, <3>1, <3>2 DEF TargetsNoted
  <2>2. CASE blocks # <<>>
    <3> DEFINE l == LastInst(n)
    <3>1. /\ n \in BlockIndices /\ l \in Offsets /\ l < o
          /\ \A q \in Offsets : IsMCInst(q) /\ q < o => q <= l
      BY <1>1, <1>2, <2>2, WalkFacts
    <3> HIDE DEF l
    <3>2. l \in Nat /\ o < FuncEnd /\ FuncEnd \in Nat
      BY <1>1, <3>1, LeaderFacts, StreamsAssumption DEF Offsets
    <3>3. o \in Offsets \ {0} /\ o - 1 \in Offsets /\ l + 1 \in Offsets
      BY <1>2, <3>1, <3>2 DEF Offsets
    <3>4. NotedTargets(l) = PrevMCInstTargets(o)
      <4>1. CASE IsMCInst(l + 1)
        <5>1. l + 1 = o
          BY <1>2, <3>1, <3>2, <3>3, <4>1
        <5> QED
          BY <1>2, <3>2, <4>1, <5>1 DEF NotedTargets
      <4>2. CASE ~IsMCInst(l + 1)
        <5>1. l + 1 # o
          BY <1>1, <4>2
        <5>2. ~IsMCInst(o - 1)
          BY <1>2, <3>1, <3>2, <3>3, <5>1
        <5>3. PrevMCInstTargets(o) = <<>>
          BY <1>1, <3>3, <5>2, PrevTargets
        <5> QED
          BY <1>2, <3>1, <3>2, <4>2, <5>3 DEF NotedTargets
      <4> QED
        BY <4>1, <4>2
    <3>5. PrevMCInstTargets(o) \in Seq(Offsets)
      BY <1>1, <3>3, PrevTargetsTyped
    <3>6. Len(mbbTargets) = n - 1 /\ DOMAIN mbbTargets = 1..(n - 1)
      BY <1>1, <1>2, <2>2 DEF EdgeInv, TargetsNoted
    <3>7. /\ mbbTargets' \in Seq(Seq(Offsets)) /\ Len(mbbTargets') = n
          /\ DOMAIN mbbTargets' = 1..n
          /\ \A b \in 1..(n - 1) : mbbTargets'[b] = mbbTargets[b]
          /\ mbbTargets'[n] = PrevMCInstTargets(o)
      <4>1. mbbTargets' = Append(mbbTargets, PrevMCInstTargets(o))
        BY <1>1, <2>2
      <4> QED
        BY <1>1, <3>1, <3>5, <3>6, <4>1, AppendProperties DEF BlockIndices
    <3>8. ASSUME NEW b \in 1..n PROVE mbbTargets'[b] = NotedTargets(LastInst(b))
      <4>1. CASE b = n
        BY <3>4, <3>7, <4>1 DEF l
      <4>2. CASE b # n
        <5>1. b \in 1..(n - 1) /\ b \in DOMAIN mbbTargets
          BY <1>1, <3>6, <4>2
        <5> QED
          BY <3>7, <5>1 DEF EdgeInv, TargetsNoted
      <4> QED
        BY <4>1, <4>2
    <3>9. \A b \in DOMAIN mbbTargets' : mbbTargets'[b] = NotedTargets(LastInst(b))'
      BY <1>5, <1>6, <3>7, <3>8 DEF BlockIndices
    <3> QED
      BY <1>1, <1>2, <1>4, <3>7, <3>9 DEF TargetsNoted
  <2> QED
    BY <2>1, <2>2
<1>9. SuccsNoted'
  <2>1. succ' = <<>> /\ pc' = "walk"
    BY <1>1, <1>2 DEF EdgeInv, SuccsNoted
  <2>2. \A S : <<>> \in Seq(Seq(S)) /\ DOMAIN <<>> = {}
    OBVIOUS
  <2> QED
    BY <2>1, <2>2 DEF SuccsNoted
<1>10. NoCondEnd'
  BY <1>1, <1>2 DEF NoCondEnd
<1> QED
  BY <1>5, <1>7, <1>8, <1>9, <1>10 DEF EdgeInv

LEMMA ContinueBlockKeepsEdgeInv ==
  ASSUME EdgeInv, NEW o \in Offsets, ContinueBlock(o), CFGInv'
  PROVE  EdgeInv'
<1> DEFINE n == Len(blocks)
<1>1. /\ blocks \in Seq(Blocks) /\ n \in Nat /\ AtEntry(o) /\ IsMCInst(o)
      /\ UNCHANGED <<instMap, targetIndices, mbbTargets, succ>> /\ o \notin targetIndices
      /\ CFGInv /\ AllDecoded(instMap) /\ InputKept
      /\ mbbTargets \in Seq(Seq(Offsets))
  BY DEF ContinueBlock, EdgeInv, CFGInv, BlocksTyped, TargetsNoted
<1>2. pos \in Nat /\ o \in Nat /\ o = pos /\ pc = "walk"
  BY <1>1, EntryFacts, WalkFacts
<1>3. AllDecoded(instMap)' /\ \A p : NotedTargets(p)' = NotedTargets(p)
  BY <1>1, KeptFacts
<1>4. succ' = <<>> /\ pc' \in {"walk", "undefined"}
  BY <1>1, <1>2 DEF EdgeInv, SuccsNoted, ContinueBlock
<1>5. SuccsNoted' /\ NoCondEnd'
  <2>1. \A S : <<>> \in Seq(Seq(S)) /\ DOMAIN <<>> = {}
    OBVIOUS
  <2> QED
    BY <1>4, <2>1 DEF SuccsNoted, NoCondEnd
<1>6. CASE blocks = <<>>
  <2>1. blocks' = <<>> /\ pc' = "undefined" /\ mbbTargets' = mbbTargets
    BY <1>1, <1>6 DEF ContinueBlock
  <2>2. BlockIndices' = {} /\ n = 0
    BY <1>6, <2>1 DEF BlockIndices
  <2>3. DOMAIN mbbTargets = {}
    BY <1>1, <1>2, <1>6 DEF EdgeInv, TargetsNoted
  <2> QED
    BY <1>1, <1>3, <1>5, <2>1, <2>2, <2>3 DEF EdgeInv, Adjacent, TargetsNoted
<1>7. CASE blocks # <<>>
  <2> DEFINE l == LastInst(n)
             m == Len(blocks[n].insts)
             is == Append(blocks[n].insts, o)
  <2>1. /\ n \in BlockIndices /\ l \in Offsets /\ l < o
        /\ \A q \in Offsets : IsMCInst(q) /\ q < o => q <= l
    BY <1>1, <1>2, <1>7, WalkFacts
  <2>2. blocks[n].insts \in Seq(Offsets) /\ m \in DOMAIN blocks[n].insts /\ m \in Nat
        /\ l = blocks[n].insts[m]
    BY <1>1, <2>1, InstsFacts DEF Insts
  <2>3. blocks' = [blocks EXCEPT ![n].insts = is] /\ pc' = "walk"
    BY <1>2, <1>7 DEF ContinueBlock
  <2>4. blocks' # <<>> /\ Len(blocks') = n /\ BlockIndices' = BlockIndices
        /\ \A b \in BlockIndices : b # n => blocks'[b] = blocks[b]
    BY <1>1, <1>7, <2>1, <2>3 DEF BlockIndices
  <2>5. blocks'[n].insts = is
    <3>1. blocks[n] \in Blocks /\ n \in DOMAIN blocks
      BY <1>1, <2>1 DEF BlockIndices
    <3>2. [blocks[n] EXCEPT !.insts = is].insts = is
      BY <3>1 DEF Blocks
    <3> HIDE DEF is
    <3> QED
      BY <2>3, <3>1, <3>2
  <2>6. o = l + 1
    <3>1. o # 0 /\ o - 1 \in Offsets /\ l \in Nat
      BY <1>2, <2>1, StreamsAssumption DEF Offsets
    <3>2. instMap[o - 1].kind # "data"
      BY <1>1, <3>1, LeaderFacts DEF IsMCInst, InstKinds, BranchKinds
    <3>3. IsMCInst(o - 1)
      <4>1. instMap[o - 1] \in Entries /\ instMap[o - 1].kind # "gap"
        BY <1>1, <3>1, StreamsAssumption DEF InputKept, AllDecoded
      <4> QED
        BY <3>1, <3>2, <4>1 DEF Entries, IsMCInst
    <3> HIDE DEF l
    <3> QED
      BY <1>2, <2>1, <3>1, <3>3
  <2>7. /\ DOMAIN is = DOMAIN blocks[n].insts \cup {m + 1} /\ is[m + 1] = o
        /\ \A i \in DOMAIN blocks[n].insts : is[i] = blocks[n].insts[i] /\ i <= m /\ i \in Nat
    <3>1. DOMAIN blocks[n].insts = 1..m /\ DOMAIN is = 1..(m + 1)
      BY <2>2
    <3>2. is[m + 1] = o /\ \A i \in 1..m : is[i] = blocks[n].insts[i]
      BY <2>2
    <3> HIDE DEF is, m
    <3> QED
      BY <2>2, <3>1, <3>2
  <2> HIDE DEF is, m, l
  <2>8. Adjacent'
    <3> SUFFICES ASSUME NEW b \in BlockIndices, NEW i \in DOMAIN blocks'[b].insts,
                        NEW j \in DOMAIN blocks'[b].insts, j = i + 1
                 PROVE  blocks'[b].insts[j] = blocks'[b].insts[i] + 1
      BY <2>4 DEF Adjacent, Insts
    <3>1. CASE b # n
      BY <2>4, <3>1 DEF EdgeInv, Adjacent, Insts
    <3>2. CASE b = n /\ j # m + 1
      <4>1. j \in DOMAIN blocks[n].insts /\ i \in DOMAIN blocks[n].insts
        BY <2>2, <2>5, <2>7, <3>2
      <4> QED
        BY <2>1, <2>5, <2>7, <3>2, <4>1 DEF EdgeInv, Adjacent, Insts
    <3>3. CASE b = n /\ j = m + 1
      <4>1. i = m
        BY <2>2, <2>5, <2>7, <3>3
      <4> QED
        BY <2>2, <2>5, <2>6, <2>7, <3>3, <4>1
    <3> QED
      BY <3>1, <3>2, <3>3
  <2>9. TargetsNoted'
    <3>1. Len(mbbTargets) = n - 1 /\ DOMAIN mbbTargets = 1..(n - 1)
      BY <1>1, <1>2, <1>7 DEF EdgeInv, TargetsNoted
    <3>2. \A b \in 1..(n - 1) : LastInst(b)' = LastInst(b)
      BY <1>1, <2>4 DEF LastInst, BlockIndices
    <3>3. mbbTargets' = mbbTargets
      BY <1>1
    <3>4. \A b \in DOMAIN mbbTargets' : mbbTargets'[b] = NotedTargets(LastInst(b))'
      BY <1>3, <3>1, <3>2, <3>3 DEF EdgeInv, TargetsNoted
    <3> QED
      BY <1>1, <2>3, <2>4, <3>1, <3>3, <3>4 DEF TargetsNoted
  <2> QED
    BY <1>3, <1>5, <2>8, <2>9 DEF EdgeInv
<1> QED
  BY <1>6, <1>7

LEMMA SkipDataKeepsEdgeInv ==
  ASSUME EdgeInv, NEW o \in Offsets, SkipData(o), CFGInv'
  PROVE  EdgeInv'
<1>1. UNCHANGED <<instMap, targetIndices, pc, blocks, mbbTargets, succ>> /\ pc = "walk"
  BY DEF SkipData, AtEntry
<1>2. AllDecoded(instMap)' /\ \A p : NotedTargets(p)' = NotedTargets(p)
  BY <1>1, KeptFacts DEF EdgeInv
<1>3. Adjacent' /\ NoCondEnd'
  BY <1>1 DEF EdgeInv, Adjacent, NoCondEnd, Insts, BlockIndices
<1>4. TargetsNoted'
  BY <1>1, <1>2 DEF EdgeInv, TargetsNoted, LastInst
<1>5. SuccsNoted'
  <2>1. succ' = <<>> /\ pc' = "walk"
    BY <1>1 DEF EdgeInv, SuccsNoted
  <2>2. \A S : <<>> \in Seq(Seq(S)) /\ DOMAIN <<>> = {}
    OBVIOUS
  <2> QED
    BY <2>1, <2>2 DEF SuccsNoted
<1> QED
  BY <1>2, <1>3, <1>4, <1>5 DEF EdgeInv

LEMMA LastMBBKeepsEdgeInv ==
  ASSUME EdgeInv, LastMBB, CFGInv'
  PROVE  EdgeInv'
<1> DEFINE n == Len(blocks)
           e == FuncEnd - 1
<1>1. /\ UNCHANGED <<instMap, targetIndices, blocks, succ>> /\ pc = "walk" /\ pos' = 1
      /\ CFGInv /\ AllDecoded(instMap) /\ InputKept
      /\ blocks \in Seq(Blocks) /\ n \in Nat /\ mbbTargets \in Seq(Seq(Offsets))
      /\ pos \in Nat /\ \A p \in Offsets : p < pos
  BY DecodedFacts DEF LastMBB, EdgeInv, CFGInv, BlocksTyped, TargetsNoted
<1>2. AllDecoded(instMap)' /\ \A p : NotedTargets(p)' = NotedTargets(p)
  BY <1>1, KeptFacts
<1>3. Adjacent' /\ \A b : LastInst(b)' = LastInst(b)
  BY <1>1 DEF EdgeInv, Adjacent, Insts, BlockIndices, LastInst
<1>4. succ = <<>> /\ \A S : <<>> \in Seq(Seq(S)) /\ DOMAIN <<>> = {} /\ Len(<<>>) = 0
  BY <1>1 DEF EdgeInv, SuccsNoted
<1>5. e \in Offsets /\ LastEntry = e /\ instMap[e] \in Entries
  BY <1>1, DecodedFacts, StreamsAssumption DEF InputKept, Offsets
<1>6. CASE blocks = <<>>
  <2>1. pc' = "built" /\ mbbTargets' = mbbTargets /\ blocks' = <<>>
    BY <1>1, <1>6 DEF LastMBB
  <2>2. Len(mbbTargets) = 0 /\ DOMAIN mbbTargets = {} /\ n = 0
    BY <1>1, <1>6 DEF EdgeInv, TargetsNoted
  <2>3. TargetsNoted'
    BY <1>1, <1>6, <2>1, <2>2 DEF TargetsNoted
  <2>4. SuccsNoted' /\ NoCondEnd'
    BY <1>1, <1>4, <1>6, <2>1, <2>2 DEF SuccsNoted, NoCondEnd
  <2> QED
    BY <1>2, <1>3, <2>3, <2>4 DEF EdgeInv
<1>7. CASE blocks # <<>> /\ (~IsMCInst(e) \/ IsConditionalBranch(e))
  <2>1. pc' \in {"undefined", "aborted"} /\ mbbTargets' = mbbTargets
    BY <1>1, <1>5, <1>7 DEF LastMBB
  <2>2. TargetsNoted'
    BY <1>1, <1>2, <1>3, <2>1 DEF EdgeInv, TargetsNoted
  <2>3. SuccsNoted' /\ NoCondEnd'
    BY <1>1, <1>4, <2>1 DEF SuccsNoted, NoCondEnd
  <2> QED
    BY <1>2, <1>3, <2>2, <2>3 DEF EdgeInv
<1>8. CASE blocks # <<>> /\ IsMCInst(e) /\ ~IsConditionalBranch(e)
  <2> DEFINE ts == IF instMap[e].kind = "jmp" /\ InFunction(instMap[e].target)
                   THEN <<instMap[e].target>> ELSE <<>>
  <2>1. EvaluatedTarget(e, FuncEnd - e) = instMap[e].target
    BY <1>5, StreamsAssumption DEF EvaluatedTarget, Entries
  <2>2. pc' = "edges" /\ mbbTargets' = Append(mbbTargets, ts)
    BY <1>1, <1>5, <1>8, <2>1 DEF LastMBB
  <2>3. n \in BlockIndices /\ LastInst(n) = e
    <3>1. /\ n \in BlockIndices /\ LastInst(n) \in Offsets
          /\ \A q \in Offsets : IsMCInst(q) /\ q < pos => q <= LastInst(n)
      BY <1>1, <1>8, WalkFacts
    <3>2. LastInst(n) <= e /\ e <= LastInst(n)
      BY <1>1, <1>5, <1>8, <3>1, StreamsAssumption DEF Offsets
    <3> QED
      BY <1>5, <3>1, <3>2, StreamsAssumption DEF Offsets
  <2>4. ts = NotedTargets(e)
    BY DEF NotedTargets
  <2>5. ts \in Seq(Offsets)
    BY <1>1, <1>5, <2>4, NotedTargetsFacts
  <2> HIDE DEF ts, e
  <2>6. Len(mbbTargets) = n - 1 /\ DOMAIN mbbTargets = 1..(n - 1)
    BY <1>1, <1>8 DEF EdgeInv, TargetsNoted
  <2>7. /\ mbbTargets' \in Seq(Seq(Offsets)) /\ Len(mbbTargets') = n
        /\ DOMAIN mbbTargets' = 1..n /\ mbbTargets'[n] = ts
        /\ \A b \in 1..(n - 1) : mbbTargets'[b] = mbbTargets[b]
    BY <1>1, <2>2, <2>3, <2>5, <2>6, AppendProperties DEF BlockIndices
  <2>8. ASSUME NEW b \in 1..n PROVE mbbTargets'[b] = NotedTargets(LastInst(b))
    <3>1. CASE b = n
      BY <2>3, <2>4, <2>7, <3>1
    <3>2. CASE b # n
      <4>1. b \in 1..(n - 1) /\ b \in DOMAIN mbbTargets
        BY <1>1, <2>6, <3>2
      <4> QED
        BY <2>7, <4>1 DEF EdgeInv, TargetsNoted
    <3> QED
      BY <3>1, <3>2
  <2>9. TargetsNoted'
    BY <1>1, <1>2, <1>3, <2>2, <2>7, <2>8 DEF TargetsNoted
  <2>10. SuccsNoted'
    BY <1>1, <1>4, <2>2 DEF SuccsNoted
  <2>11. NoCondEnd'
    BY <1>1, <1>8 DEF NoCondEnd, IsConditionalBranch, e
  <2> QED
    BY <1>2, <1>3, <2>9, <2>10, <2>11 DEF EdgeInv
<1> QED
  BY <1>6, <1>7, <1>8

LEMMA NextMBBEdgesKeepsEdgeInv ==
  ASSUME EdgeInv, NextMBBEdges, CFGInv'
  PROVE  EdgeInv'
<1> DEFINE ss == IF isReturnBlock(pos) THEN <<>> ELSE TargetMBBs(mbbTargets[pos])
           Known(b) == {InstToMBBNum(t) : t \in Range(mbbTargets[b])} \ {0}
<1>1. /\ UNCHANGED <<instMap, targetIndices, blocks, mbbTargets>> /\ pc = "edges"
      /\ pos <= Len(blocks) /\ pos' = pos + 1 /\ succ' = Append(succ, ss)
      /\ pc' = IF pos = Len(blocks) THEN "built" ELSE "edges"
  BY DEF NextMBBEdges, AddEdges
<1>2. /\ CFGInv /\ AllDecoded(instMap) /\ InputKept /\ blocks \in Seq(Blocks)
      /\ pos \in Nat /\ Len(blocks) \in Nat
      /\ mbbTargets \in Seq(Seq(Offsets)) /\ Len(mbbTargets) = Len(blocks)
      /\ succ \in Seq(Seq(BlockIndices)) /\ Len(succ) = pos - 1
  BY <1>1 DEF EdgeInv, CFGInv, BlocksTyped, TargetsNoted, SuccsNoted
<1>3. pos \in BlockIndices /\ pos \in DOMAIN mbbTargets /\ DOMAIN succ = 1..(pos - 1)
  BY <1>1, <1>2 DEF BlockIndices
<1>4. AllDecoded(instMap)' /\ \A p : NotedTargets(p)' = NotedTargets(p)
  BY <1>1, <1>2, KeptFacts
<1>5. Adjacent' /\ NoCondEnd' /\ \A b : LastInst(b)' = LastInst(b)
  BY <1>1 DEF EdgeInv, Adjacent, NoCondEnd, Insts, BlockIndices, LastInst, IsConditionalBranch
<1>6. TargetsNoted'
  BY <1>1, <1>2, <1>4, <1>5 DEF EdgeInv, TargetsNoted
<1>7. /\ ss \in Seq(BlockIndices) /\ Len(ss) <= 2
      /\ Range(ss) = IF isReturnBlock(pos) THEN {} ELSE Known(pos)
  <2>1. CASE isReturnBlock(pos)
    BY <2>1 DEF Range
  <2>2. CASE ~isReturnBlock(pos)
    <3>1. LastInst(pos) \in Offsets /\ mbbTargets[pos] = NotedTargets(LastInst(pos))
      BY <1>2, <1>3, InstsFacts DEF EdgeInv, TargetsNoted
    <3>2. mbbTargets[pos] \in Seq(Offsets) /\ Len(mbbTargets[pos]) \in 0..2
      BY <1>2, <3>1, NotedTargetsFacts
    <3>3. ss = TargetMBBs(mbbTargets[pos])
      BY <2>2
    <3> QED
      BY <1>2, <2>2, <3>2, <3>3, TargetMBBsFacts
  <2> QED
    BY <2>1, <2>2
<1>8. SuccsNoted'
  <2> HIDE DEF ss, Known
  <2>1. /\ succ' \in Seq(Seq(BlockIndices)) /\ Len(succ') = pos /\ DOMAIN succ' = 1..pos
        /\ succ'[pos] = ss /\ \A b \in DOMAIN succ : succ'[b] = succ[b]
    BY <1>1, <1>2, <1>3, <1>7, AppendProperties
  <2>2. BlockIndices' = BlockIndices /\ \A b : isReturnBlock(b)' = isReturnBlock(b)
    BY <1>1 DEF BlockIndices, isReturnBlock, LastInst
  <2>3. \A b : Known(b)' = Known(b)
    BY <1>1 DEF Known, InstToMBBNum, BlockIndices
  <2>4. ASSUME NEW b \in 1..pos
        PROVE  Len(succ'[b]) <= 2 /\ Range(succ'[b]) = IF isReturnBlock(b) THEN {} ELSE Known(b)
    <3>1. CASE b = pos
      BY <1>7, <2>1, <3>1
    <3>2. CASE b # pos
      <4>1. b \in DOMAIN succ
        BY <1>2, <1>3, <3>2
      <4> QED
        BY <2>1, <4>1 DEF EdgeInv, SuccsNoted, Known
    <3> QED
      BY <3>1, <3>2
  <2>5. \A b \in DOMAIN succ' : /\ Len(succ[b])' <= 2
                                /\ Range(succ[b])' = IF isReturnBlock(b)' THEN {} ELSE Known(b)'
    BY <2>1, <2>2, <2>3, <2>4
  <2>6. /\ pc' # "walk" /\ (pc' = "edges" => Len(succ') = pos' - 1)
        /\ (pc' = "built" => Len(succ') = Len(blocks'))
    BY <1>1, <1>2, <2>1
  <2>7. succ' \in Seq(Seq(BlockIndices'))
    BY <2>1, <2>2
  <2> QED
    BY <2>5, <2>6, <2>7 DEF SuccsNoted, Known
<1> QED
  BY <1>4, <1>5, <1>6, <1>8 DEF EdgeInv

LEMMA BuildCFGKeepsEdgeInv ==
  ASSUME EdgeInv, [BuildCFG]_cfgVars PROVE EdgeInv'
<1>1. CFGInv /\ GapsApart(instMap)
  BY StreamsAssumption DEF EdgeInv, GapsApart, AllDecoded, Offsets
<1>2. CFGInv'
  BY <1>1, BuildCFGKeepsInv
<1>3. CASE \E o \in Offsets : StartBlock(o) \/ ContinueBlock(o) \/ SkipData(o)
  BY <1>2, <1>3, StartBlockKeepsEdgeInv, ContinueBlockKeepsEdgeInv, SkipDataKeepsEdgeInv
<1>4. CASE LastMBB
  BY <1>2, <1>4, LastMBBKeepsEdgeInv
<1>5. CASE NextMBBEdges
  BY <1>2, <1>5, NextMBBEdgesKeepsEdgeInv
<1>6. CASE UNCHANGED cfgVars
  <2>1. AllDecoded(instMap)' /\ \A p : NotedTargets(p)' = NotedTargets(p)
    BY <1>6, KeptFacts DEF EdgeInv, cfgVars
  <2>2. Adjacent' /\ NoCondEnd' /\ TargetsNoted'
    BY <1>6, <2>1
    DEF cfgVars, EdgeInv, Adjacent, NoCondEnd, TargetsNoted, Insts, BlockIndices, LastInst,
        IsConditionalBranch
  <2>3. SuccsNoted'
    <3>1. BlockIndices' = BlockIndices /\ UNCHANGED <<succ, mbbTargets, pc, pos, blocks>>
      BY <1>6 DEF BlockIndices, cfgVars
    <3>2. \A b : isReturnBlock(b)' = isReturnBlock(b)
      BY <1>6 DEF cfgVars, isReturnBlock, LastInst
    <3>3. \A t : InstToMBBNum(t)' = InstToMBBNum(t)
      BY <3>1 DEF InstToMBBNum
    <3> QED
      BY <3>1, <3>2, <3>3 DEF EdgeInv, SuccsNoted
  <2> QED
    BY <1>2, <2>1, <2>2, <2>3 DEF EdgeInv
<1> QED
  BY <1>3, <1>4, <1>5, <1>6 DEF BuildCFG

-----------------------------------------------------------------------------
(* The theorems about the edges. *)

\* A nonempty set of naturals has a least element.
LEMMA LeastElement ==
  ASSUME NEW T \in SUBSET Nat, T # {}
  PROVE  Min(T) \in T /\ \A y \in T : Min(T) <= y
<1> DEFINE R == {ss \in Nat \X Nat : ss[1] < ss[2]}
<1>1. IsWellFoundedOn(R, Nat)
  BY NatLessThanWellFounded DEF OpToRel
<1>2. \A x, y \in Nat : <<y, x>> \in R <=> y < x
  OBVIOUS
<1> HIDE DEF R
<1>3. PICK x \in T : \A y \in T : <<y, x>> \notin R
  BY <1>1, WFMin
<1>4. \A y \in T : x \in Nat /\ y \in Nat /\ ~(y < x)
  BY <1>2, <1>3
<1>5. \A y \in T : x <= y
  BY <1>4
<1> QED
  BY <1>5 DEF Min

\* Control leaves a block at its last instruction, or at a return.
LEMMA ExitFacts ==
  ASSUME CFGInv, NEW b \in BlockIndices
  PROVE  ExitInst(b) = LastInst(b)
         \/ \E i \in DOMAIN Insts(b) :
               /\ i < Len(Insts(b))
               /\ ExitInst(b) = Insts(b)[i] /\ instMap[Insts(b)[i]].kind = "ret"
<1> DEFINE m == Len(Insts(b))
           ends == {i \in DOMAIN Insts(b) : instMap[Insts(b)[i]].kind \in BranchKinds \cup {"ret"}}
<1>1. ExitInst(b) = Insts(b)[IF ends = {} THEN m ELSE Min(ends)]
  BY DEF ExitInst, Insts
<1>2. /\ m \in DOMAIN Insts(b) /\ LastInst(b) = Insts(b)[m]
      /\ \A i \in DOMAIN Insts(b) : i \in Nat /\ i <= m
  BY InstsFacts
<1>3. CASE ends = {}
  BY <1>1, <1>2, <1>3
<1>4. CASE ends # {}
  <2>1. ends \in SUBSET Nat
    BY <1>2
  <2>2. Min(ends) \in ends
    BY <1>4, <2>1, LeastElement
  <2> DEFINE i == Min(ends)
  <2>3. i \in DOMAIN Insts(b) /\ instMap[Insts(b)[i]].kind \in BranchKinds \cup {"ret"}
    BY <2>2
  <2>4. ExitInst(b) = Insts(b)[i]
    BY <1>1, <1>4
  <2> HIDE DEF i, ends
  <2>5. CASE i = m
    BY <1>2, <2>4, <2>5
  <2>6. CASE i < m
    <3>1. ~IsBranch(Insts(b)[i])
      BY <1>2, <2>3, <2>6 DEF CFGInv, Straight
    <3> QED
      BY <2>3, <2>4, <2>6, <3>1 DEF IsBranch
  <2> QED
    BY <1>2, <2>3, <2>5, <2>6
<1> QED
  BY <1>3, <1>4

\* A conditional branch stays in the function, and data follows no conditional branch and
\* no jump that stays in the function.
DataUnreached(s) ==
  /\ \A o \in Offsets : s[o].kind = "cond" => s[o].target \in Offsets
  /\ \A o \in Offsets \ {0} : s[o].kind = "data" =>
       /\ s[o - 1].kind # "cond"
       /\ s[o - 1].kind = "jmp" => s[o - 1].target \notin Offsets

LEMMA NotedBefore ==
  ASSUME EdgeInv, NEW p \in Offsets, p # FuncEnd - 1, IsMCInst(p), IsMCInst(p + 1)
  PROVE  LET t == instMap[p].target
         IN  /\ instMap[p].kind \in {"plain", "nop", "ret"} => NotedTargets(p) = <<p + 1>>
             /\ instMap[p].kind = "indirect" => NotedTargets(p) = <<>>
             /\ instMap[p].kind = "jmp" => NotedTargets(p) = IF t \in Offsets THEN <<t>> ELSE <<>>
             /\ instMap[p].kind = "cond" =>
                  NotedTargets(p) = IF t \in Offsets THEN <<t, p + 1>> ELSE <<>>
<1>1. PICK o \in Offsets \ {0} : o = p + 1 /\ o - 1 = p
  BY StreamsAssumption DEF Offsets
<1>2. NotedTargets(p) = PrevMCInstTargets(o)
  BY <1>1 DEF NotedTargets
<1>3. InputKept /\ AllDecoded(instMap)
  BY DEF EdgeInv, CFGInv
<1> QED
  BY <1>1, <1>2, <1>3, PrevTargets

LEMMA BlockOfEntry ==
  ASSUME CFGInv, NEW t
  PROVE  /\ InstToMBBNum(t) # 0 =>
               InstToMBBNum(t) \in BlockIndices /\ blocks[InstToMBBNum(t)].entry = t
         /\ (\E b \in BlockIndices : blocks[b].entry = t) => InstToMBBNum(t) # 0
<1>1. 0 \notin BlockIndices
  BY DEF BlockIndices
<1> QED
  BY <1>1 DEF InstToMBBNum

\* What is noted for a block are the ways control can go from its last instruction, as far
\* as they lead to instructions.
LEMMA NotedAreSuccs ==
  ASSUME EdgeInv, NEW p \in Offsets, IsMCInst(p), instMap[p].kind # "ret"
  PROVE  \A t \in Range(NotedTargets(p)) : t \in MachineSucc(p)
<1>1. instMap[p].kind \in InstKinds /\ InputKept /\ AllDecoded(instMap)
  BY DEF IsMCInst, EdgeInv, CFGInv
<1>2. /\ Range(<<>>) = {}
      /\ \A x : Range(<<x>>) = {x}
      /\ \A x, y : Range(<<x, y>>) = {x, y}
  BY DEF Range
<1>3. CASE p = FuncEnd - 1
  BY <1>2, <1>3 DEF NotedTargets, MachineSucc
<1>4. CASE p # FuncEnd - 1 /\ IsMCInst(p + 1)
  <2> USE <1>2, <1>4
  <2>1. CASE instMap[p].kind \in {"plain", "nop"}
    BY <2>1, NotedBefore DEF MachineSucc
  <2>2. CASE instMap[p].kind = "jmp"
    BY <2>2, NotedBefore DEF MachineSucc
  <2>3. CASE instMap[p].kind = "cond"
    BY <2>3, NotedBefore DEF MachineSucc
  <2>4. CASE instMap[p].kind = "indirect"
    BY <2>4, NotedBefore
  <2> QED
    BY <1>1, <2>1, <2>2, <2>3, <2>4 DEF InstKinds, BranchKinds
<1>5. CASE p # FuncEnd - 1 /\ ~IsMCInst(p + 1)
  BY <1>2, <1>5 DEF NotedTargets
<1> QED
  BY <1>3, <1>4, <1>5

LEMMA SuccsAreNoted ==
  ASSUME EdgeInv, Built, blocks # <<>>, DataUnreached(instMap),
         NEW p \in Offsets, IsMCInst(p), NEW t \in MachineSucc(p), IsMCInst(t)
  PROVE  t \in Range(NotedTargets(p))
<1>1. instMap[p].kind \in InstKinds /\ InputKept /\ AllDecoded(instMap) /\ t \in Offsets
  BY DEF IsMCInst, EdgeInv, CFGInv
<1>2. /\ \A x : Range(<<x>>) = {x}
      /\ \A x, y : Range(<<x, y>>) = {x, y}
  BY DEF Range
<1>3. instMap[p] \in Entries /\ p \in Nat /\ FuncEnd \in Nat /\ p < FuncEnd
  BY <1>1, StreamsAssumption DEF InputKept, Offsets
<1>4. CASE p = FuncEnd - 1
  <2>1. p + 1 \notin Offsets
    BY <1>3, <1>4 DEF Offsets
  <2>2. instMap[p].kind # "cond"
    BY <1>4 DEF EdgeInv, NoCondEnd, Built, IsConditionalBranch
  <2>3. instMap[p].kind = "jmp" /\ t = instMap[p].target
    BY <1>1, <2>1, <2>2 DEF MachineSucc
  <2>4. InFunction(t)
    BY <1>1, StreamsAssumption DEF InFunction, Offsets
  <2> QED
    BY <1>2, <1>4, <2>3, <2>4 DEF NotedTargets
<1>5. CASE p # FuncEnd - 1 /\ IsMCInst(p + 1)
  <2> USE <1>2, <1>5
  <2>1. CASE instMap[p].kind \in {"plain", "nop"}
    BY <2>1, NotedBefore DEF MachineSucc
  <2>2. CASE instMap[p].kind = "jmp"
    BY <1>1, <2>2, NotedBefore DEF MachineSucc
  <2>3. CASE instMap[p].kind = "cond"
    <3>1. instMap[p].target \in Offsets
      BY <2>3 DEF DataUnreached
    <3> QED
      BY <2>3, <3>1, NotedBefore DEF MachineSucc
  <2> QED
    BY <1>1, <2>1, <2>2, <2>3 DEF MachineSucc, InstKinds, BranchKinds
<1>6. CASE p # FuncEnd - 1 /\ ~IsMCInst(p + 1)
  <2>1. p + 1 \in Offsets \ {0} /\ p + 1 - 1 = p
    BY <1>3, <1>6 DEF Offsets
  <2>2. instMap[p + 1].kind = "data"
    <3>1. instMap[p + 1] \in Entries /\ instMap[p + 1].kind # "gap"
      BY <1>1, <2>1, StreamsAssumption DEF InputKept, AllDecoded
    <3> QED
      BY <1>6, <2>1, <3>1 DEF Entries, IsMCInst
  <2>3. /\ instMap[p].kind # "cond"
        /\ instMap[p].kind = "jmp" => instMap[p].target \notin Offsets
    <3>1. PICK o \in Offsets \ {0} : o = p + 1 /\ o - 1 = p
      BY <1>3, <1>6 DEF Offsets
    <3>2. instMap[o].kind = "data"
      BY <2>2, <3>1
    <3>3. /\ instMap[o - 1].kind # "cond"
          /\ instMap[o - 1].kind = "jmp" => instMap[o - 1].target \notin Offsets
      BY <3>2 DEF DataUnreached
    <3> QED
      BY <3>1, <3>3
  <2> QED
    BY <1>1, <1>6, <2>3 DEF MachineSucc
<1> QED
  BY <1>4, <1>5, <1>6

\* Where control goes to from the end of a block, a block begins.
LEMMA SuccsAreEntries ==
  ASSUME EdgeInv, Built, NEW b \in BlockIndices,
         NEW t \in MachineSucc(LastInst(b)), IsMCInst(t)
  PROVE  \E c \in BlockIndices : blocks[c].entry = t
<1>1. CFGInv /\ InputKept /\ t \in Offsets /\ pc = "built"
  BY DEF EdgeInv, CFGInv, IsMCInst, Built
<1>2. PICK c \in BlockIndices : \E i \in DOMAIN Insts(c) : Insts(c)[i] = t
  BY <1>1 DEF CFGInv, AllCovered, Walked
<1>3. PICK i \in DOMAIN Insts(c) : Insts(c)[i] = t
  BY <1>2
<1>4. i \in Nat /\ 1 <= i /\ i <= Len(Insts(c)) /\ Insts(c) \in Seq(Offsets)
  BY <1>1, InstsFacts
<1>5. CASE i = 1
  BY <1>1, <1>3, <1>5, InstsFacts
<1>6. CASE i # 1
  <2>1. 1 \in DOMAIN Insts(c) /\ i - 1 \in DOMAIN Insts(c) /\ i = (i - 1) + 1 /\ 1 < i /\ i - 1 < i
    BY <1>4, <1>6
  <2>2. t \notin targetIndices
    BY <1>1, <1>3, <2>1 DEF CFGInv, Straight
  <2>3. LastInst(b) \in Offsets /\ IsMCInst(LastInst(b))
    BY <1>1, InstsFacts
  <2>4. ~(instMap[LastInst(b)].kind \in {"jmp", "cond"} /\ t = instMap[LastInst(b)].target)
    BY <1>1, <2>2, <2>3, LeaderFacts
  <2>5. t = LastInst(b) + 1
    BY <2>4 DEF MachineSucc
  <2>6. Insts(c)[i] = Insts(c)[i - 1] + 1 /\ Insts(c)[i - 1] \in Offsets
    BY <1>4, <2>1 DEF EdgeInv, Adjacent
  <2>7. Insts(c)[i - 1] = LastInst(b)
    BY <1>3, <2>3, <2>5, <2>6, StreamsAssumption DEF Offsets
  <2> DEFINE m == Len(Insts(b))
  <2>8. m \in DOMAIN Insts(b) /\ LastInst(b) = Insts(b)[m] /\ m \in Nat
    BY <1>1, InstsFacts
  <2>9. ~(Insts(c)[i - 1] < Insts(b)[m]) /\ ~(Insts(b)[m] < Insts(c)[i - 1])
    BY <2>6, <2>7, <2>8, StreamsAssumption DEF Offsets
  <2> HIDE DEF m
  <2>10. ~(b < c) /\ ~(c < b)
    BY <1>1, <2>1, <2>8, <2>9 DEF CFGInv, InOrder
  <2>11. b = c
    BY <2>10 DEF BlockIndices
  <2>12. i <= m /\ i - 1 = m
    <3>1. i <= m
      BY <1>4, <2>11 DEF m
    <3>2. ~(i - 1 < m)
      BY <1>1, <2>1, <2>8, <2>9, <2>11 DEF CFGInv, InOrder
    <3> QED
      BY <1>4, <2>8, <3>1, <3>2
  <2> QED
    BY <1>4, <2>8, <2>12
<1> QED
  BY <1>5, <1>6

LEMMA InvEdgesComplete ==
  ASSUME EdgeInv, DataUnreached(instMap) PROVE EdgesComplete
<1> SUFFICES ASSUME Built, NEW b \in BlockIndices, NEW t \in MachineSucc(ExitInst(b)), IsMCInst(t)
             PROVE  \E s \in BlockIndices : blocks[s].entry = t /\ s \in Range(succ[b])
  BY DEF EdgesComplete
<1> DEFINE p == LastInst(b)
<1>1. CFGInv /\ p \in Offsets /\ IsMCInst(p) /\ blocks # <<>>
  BY InstsFacts DEF EdgeInv, BlockIndices
<1>2. ExitInst(b) = p /\ instMap[p].kind # "ret"
  BY <1>1, ExitFacts DEF MachineSucc
<1>3. t \in Range(NotedTargets(p))
  BY <1>1, <1>2, SuccsAreNoted
<1>4. InstToMBBNum(t) # 0 /\ InstToMBBNum(t) \in BlockIndices
      /\ blocks[InstToMBBNum(t)].entry = t
  BY <1>1, <1>2, SuccsAreEntries, BlockOfEntry
<1>5. ~isReturnBlock(b)
  BY <1>2 DEF isReturnBlock
<1>6. b \in DOMAIN succ /\ b \in DOMAIN mbbTargets
  BY DEF EdgeInv, SuccsNoted, TargetsNoted, Built, BlockIndices
<1>7. InstToMBBNum(t) \in Range(succ[b])
  BY <1>3, <1>4, <1>5, <1>6 DEF EdgeInv, SuccsNoted, TargetsNoted
<1> QED
  BY <1>4, <1>7

LEMMA InvEdgesSound ==
  ASSUME EdgeInv PROVE EdgesSound
<1> SUFFICES ASSUME Built, ReturnsEndBlocks, NEW b \in BlockIndices, NEW s \in Range(succ[b])
             PROVE  blocks[s].entry \in MachineSucc(ExitInst(b))
  BY DEF EdgesSound
<1> DEFINE p == LastInst(b)
<1>1. CFGInv /\ p \in Offsets /\ IsMCInst(p) /\ InputKept /\ pc = "built"
  BY InstsFacts DEF EdgeInv, CFGInv, Built
<1>2. ExitInst(b) = p
  <2> SUFFICES ASSUME NEW i \in DOMAIN Insts(b), i < Len(Insts(b)),
                      instMap[Insts(b)[i]].kind = "ret"
               PROVE  FALSE
    BY <1>1, ExitFacts
  <2>1. i + 1 \in DOMAIN Insts(b) /\ i < i + 1
    BY <1>1, InstsFacts
  <2>2. Insts(b)[i + 1] = Insts(b)[i] + 1 /\ Insts(b)[i] \in Offsets /\ Insts(b)[i + 1] \in Offsets
    BY <1>1, <2>1, InstsFacts DEF EdgeInv, Adjacent
  <2>3. Insts(b)[i + 1] \in targetIndices
    BY <2>2, StreamsAssumption DEF ReturnsEndBlocks, Offsets
  <2> QED
    BY <1>1, <2>1, <2>3 DEF CFGInv, Straight
<1>3. b \in DOMAIN succ /\ b \in DOMAIN mbbTargets
  BY DEF EdgeInv, SuccsNoted, TargetsNoted, Built, BlockIndices
<1>4. ~isReturnBlock(b) /\ s \in {InstToMBBNum(t) : t \in Range(mbbTargets[b])} \ {0}
  BY <1>3 DEF EdgeInv, SuccsNoted
<1>5. PICK t \in Range(mbbTargets[b]) : s = InstToMBBNum(t) /\ s # 0
  BY <1>4
<1>6. mbbTargets[b] = NotedTargets(p)
  BY <1>3 DEF EdgeInv, TargetsNoted
<1>7. instMap[p].kind # "ret"
  <2>1. blocks[b].insts # <<>>
    BY <1>1, InstsFacts DEF Insts
  <2> QED
    BY <1>4, <2>1 DEF isReturnBlock
<1>8. t \in MachineSucc(p)
  BY <1>1, <1>5, <1>6, <1>7, NotedAreSuccs
<1> QED
  BY <1>1, <1>2, <1>5, <1>8, BlockOfEntry

LEMMA InitEdgeInv ==
  ASSUME Init, \A s \in Streams : AllDecoded(s) PROVE EdgeInv
<1>1. BlockIndices = {} /\ blocks \in Seq(Blocks) /\ \A o \in Offsets : ~(o < 0)
  BY StreamsAssumption DEF Init, BlockIndices, Offsets
<1>2. CFGInv
  BY <1>1
  DEF Init, CFGInv, InputKept, BlocksTyped, InOrder, Straight, BranchesEnd, InstsMet, Walked,
      AllCovered
<1>3. \A S : <<>> \in Seq(S) /\ DOMAIN <<>> = {} /\ Len(<<>>) = 0
  OBVIOUS
<1>4. TargetsNoted /\ SuccsNoted
  BY <1>3 DEF Init, TargetsNoted, SuccsNoted
<1> QED
  BY <1>1, <1>2, <1>4 DEF Init, EdgeInv, Adjacent, NoCondEnd

\* If every byte was decoded, every edge of buildCFG is a way control can go.
THEOREM EdgesAlwaysSound ==
  (\A s \in Streams : AllDecoded(s)) => (CFGSpec => []EdgesSound)
<1> SUFFICES ASSUME \A s \in Streams : AllDecoded(s) PROVE CFGSpec => []EdgesSound
  OBVIOUS
<1>1. Init => EdgeInv
  BY InitEdgeInv
<1>2. EdgeInv /\ [BuildCFG]_cfgVars => EdgeInv'
  BY BuildCFGKeepsEdgeInv
<1>3. EdgeInv => EdgesSound
  BY InvEdgesSound
<1> QED
  BY <1>1, <1>2, <1>3, PTL DEF CFGSpec

\* ... and it has an edge for every way, if data is where control does not run into it.
THEOREM EdgesAlwaysComplete ==
  (\A s \in Streams : AllDecoded(s) /\ DataUnreached(s)) => (CFGSpec => []EdgesComplete)
<1> SUFFICES ASSUME \A s \in Streams : AllDecoded(s) /\ DataUnreached(s)
             PROVE  CFGSpec => []EdgesComplete
  OBVIOUS
<1>1. Init => EdgeInv
  BY InitEdgeInv
<1>2. EdgeInv /\ [BuildCFG]_cfgVars => EdgeInv'
  BY BuildCFGKeepsEdgeInv
<1>3. EdgeInv => EdgesComplete
  <2>1. EdgeInv => DataUnreached(instMap)
    BY DEF EdgeInv, CFGInv, InputKept
  <2> QED
    BY <2>1, InvEdgesComplete
<1> QED
  BY <1>1, <1>2, <1>3, PTL DEF CFGSpec

-----------------------------------------------------------------------------
(* From the CFG to the raised function: lemmas about blocks and noops. *)

\* A nonempty set of naturals with a bound has a greatest element.
LEMMA GreatestElement ==
  ASSUME NEW T \in SUBSET Nat, NEW n \in Nat, T # {}, \A x \in T : x <= n
  PROVE  Max(T) \in T /\ \A y \in T : y <= Max(T)
<1> DEFINE R == {n - x : x \in T}
<1>1. R \in SUBSET Nat /\ R # {}
  <2>1. \A x \in T : n - x \in Nat
    OBVIOUS
  <2> QED
    BY <2>1
<1>2. Min(R) \in R /\ \A y \in R : Min(R) <= y
  BY <1>1, LeastElement
<1>3. PICK x \in T : Min(R) = n - x
  BY <1>2
<1>4. \A y \in T : n - x <= n - y
  BY <1>2, <1>3
<1>5. \A y \in T : x >= y
  BY <1>4
<1> HIDE DEF R
<1>6. Max(T) \in T /\ \A y \in T : Max(T) >= y
  BY <1>5 DEF Max
<1> QED
  BY <1>6

\* What is known of the stream.
LEMMA StreamFacts ==
  ASSUME InputKept
  PROVE  /\ FuncEnd \in Nat /\ FuncEnd > 0 /\ 0 \in Offsets
         /\ \A o \in Offsets : /\ o \in Nat /\ o < FuncEnd /\ instMap[o] \in Entries
                               /\ instMap[o].target \in Int
         /\ \A o \in Int : o \in Offsets <=> 0 <= o /\ o < FuncEnd
         /\ \A o \in Int : o \in Offsets <=> InFunction(o)
BY StreamsAssumption DEF InputKept, Offsets, Entries, InFunction

\* A noop that is a leader, and that no branch leads to, follows a branch or data.
LEMMA LeaderNoop ==
  ASSUME InputKept, NoopsApart, NEW o \in Offsets, o # 0, o \in targetIndices, IsNoop(o)
  PROVE  o - 1 \in Offsets /\ (IsBranch(o - 1) \/ instMap[o - 1].kind = "data")
<1>1. o - 1 \in Offsets /\ o \in Nat
  BY StreamFacts
<1>2. /\ o \in SymbolStarts(instMap)
             \cup {instMap[p].target : p \in {p \in Offsets : instMap[p].kind \in {"jmp", "cond"}}}
             \cup {p + 1 : p \in {p \in Offsets : instMap[p].kind \in BranchKinds}}
  BY DEF InputKept, RecordedTargets
<1>3. CASE o \in SymbolStarts(instMap)
  BY <1>1, <1>3 DEF SymbolStarts, IsNoop
<1>4. ASSUME NEW p \in Offsets, instMap[p].kind \in {"jmp", "cond"}, o = instMap[p].target
      PROVE  FALSE
  BY <1>4 DEF NoopsApart
<1>5. ASSUME NEW p \in Offsets, instMap[p].kind \in BranchKinds, o = p + 1 PROVE IsBranch(o - 1)
  <2>1. o - 1 = p
    BY <1>5, StreamFacts
  <2> QED
    BY <1>5, <2>1 DEF IsBranch
<1> QED
  BY <1>1, <1>2, <1>3, <1>4, <1>5

\* What lies between the first and the last instruction of a block is in the block.
LEMMA BlockHoldsBetween ==
  ASSUME CFGInv, Adjacent, NEW b \in BlockIndices, NEW x \in Offsets,
         blocks[b].entry <= x, x <= LastInst(b)
  PROVE  x \in Range(Insts(b))
<1> DEFINE m == Len(Insts(b))
<1>1. /\ Insts(b) \in Seq(Offsets) /\ m \in Nat /\ m >= 1 /\ DOMAIN Insts(b) = 1..m
      /\ LastInst(b) = Insts(b)[m] /\ blocks[b].entry = Insts(b)[1]
  <2>1. Insts(b) \in Seq(Offsets) /\ m \in DOMAIN Insts(b)
        /\ LastInst(b) = Insts(b)[m] /\ blocks[b].entry = Insts(b)[1]
    BY InstsFacts
  <2> QED
    BY <2>1
<1>2. InputKept
  BY DEF CFGInv
<1>3. \A i \in 1..m : Insts(b)[i] \in Offsets /\ Insts(b)[i] \in Nat
  <2>1. \A i \in 1..m : Insts(b)[i] \in Offsets
    BY <1>1
  <2> QED
    BY <1>2, <2>1, StreamFacts
<1>4. \A i \in 1..m : i + 1 \in 1..m => Insts(b)[i + 1] = Insts(b)[i] + 1
  BY <1>1 DEF Adjacent
<1>5. x \in Nat
  BY <1>2, StreamFacts
<1> DEFINE G == {i \in 1..m : Insts(b)[i] >= x}
<1>6. m \in G /\ G \in SUBSET Nat /\ G # {}
  BY <1>1, <1>3, <1>5
<1> HIDE DEF m
<1>7. Min(G) \in G /\ \A y \in G : Min(G) <= y
  <2> HIDE DEF G
  <2> QED
    BY <1>6, LeastElement
<1> DEFINE i == Min(G)
<1> HIDE DEF i
<1>8. i \in 1..m /\ Insts(b)[i] >= x /\ \A y \in 1..m : Insts(b)[y] >= x => i <= y
  BY <1>7 DEF i
<1> HIDE DEF G
<1>9. CASE i = 1
  BY <1>1, <1>3, <1>5, <1>8, <1>9 DEF Range
<1>10. CASE i # 1
  <2>1. i - 1 \in 1..m /\ i - 1 < i /\ (i - 1) + 1 = i
    BY <1>1, <1>8, <1>10
  <2>2. ~(Insts(b)[i - 1] >= x)
    BY <1>8, <2>1
  <2>3. Insts(b)[i] = Insts(b)[i - 1] + 1
    BY <1>4, <1>8, <2>1
  <2>4. Insts(b)[i] = x
    BY <1>3, <1>5, <1>8, <2>1, <2>2, <2>3
  <2> QED
    BY <1>1, <1>8, <2>4 DEF Range
<1> QED
  BY <1>9, <1>10

\* The entry of every block is a leader.
EntriesLeaders == \A b \in BlockIndices : blocks[b].entry \in targetIndices

\* An edge of buildCFG is a way of the last instruction ...
LEMMA SuccIsWay ==
  ASSUME EdgeInv, Built, NEW b \in BlockIndices, NEW s \in Range(succ[b])
  PROVE  /\ s \in BlockIndices /\ instMap[LastInst(b)].kind # "ret"
         /\ blocks[s].entry \in MachineSucc(LastInst(b))
<1> DEFINE p == LastInst(b)
<1>1. CFGInv /\ p \in Offsets /\ IsMCInst(p) /\ InputKept /\ pc = "built"
  BY InstsFacts DEF EdgeInv, CFGInv, Built
<1>2. b \in DOMAIN succ /\ b \in DOMAIN mbbTargets
  BY DEF EdgeInv, SuccsNoted, TargetsNoted, Built, BlockIndices
<1>3. ~isReturnBlock(b) /\ s \in {InstToMBBNum(t) : t \in Range(mbbTargets[b])} \ {0}
  BY <1>2 DEF EdgeInv, SuccsNoted
<1>4. PICK t \in Range(mbbTargets[b]) : s = InstToMBBNum(t) /\ s # 0
  BY <1>3
<1>5. mbbTargets[b] = NotedTargets(p)
  BY <1>2 DEF EdgeInv, TargetsNoted
<1>6. instMap[p].kind # "ret"
  <2>1. blocks[b].insts # <<>>
    BY <1>1, InstsFacts DEF Insts
  <2> QED
    BY <1>3, <2>1 DEF isReturnBlock
<1>7. t \in MachineSucc(p)
  BY <1>1, <1>4, <1>5, <1>6, NotedAreSuccs
<1> QED
  BY <1>1, <1>4, <1>6, <1>7, BlockOfEntry

\* ... and every way to an instruction is an edge.
LEMMA WayHasSucc ==
  ASSUME EdgeInv, Built, DataUnreached(instMap), NEW b \in BlockIndices,
         NEW t \in MachineSucc(LastInst(b)), IsMCInst(t)
  PROVE  /\ InstToMBBNum(t) \in BlockIndices /\ InstToMBBNum(t) \in Range(succ[b])
         /\ blocks[InstToMBBNum(t)].entry = t
<1> DEFINE p == LastInst(b)
<1>1. CFGInv /\ p \in Offsets /\ IsMCInst(p) /\ blocks # <<>>
  BY InstsFacts DEF EdgeInv, BlockIndices
<1>2. instMap[p].kind # "ret"
  BY DEF MachineSucc
<1>3. t \in Range(NotedTargets(p))
  BY <1>1, <1>2, SuccsAreNoted
<1>4. InstToMBBNum(t) # 0 /\ InstToMBBNum(t) \in BlockIndices
      /\ blocks[InstToMBBNum(t)].entry = t
  BY <1>1, <1>2, SuccsAreEntries, BlockOfEntry
<1>5. ~isReturnBlock(b)
  BY <1>2 DEF isReturnBlock
<1>6. b \in DOMAIN succ /\ b \in DOMAIN mbbTargets
  BY DEF EdgeInv, SuccsNoted, TargetsNoted, Built, BlockIndices
<1>7. InstToMBBNum(t) \in Range(succ[b])
  BY <1>3, <1>4, <1>5, <1>6 DEF EdgeInv, SuccsNoted, TargetsNoted
<1> QED
  BY <1>4, <1>7

\* Two blocks do not have an instruction in common.
LEMMA OneBlock ==
  ASSUME CFGInv, NEW b \in BlockIndices, NEW c \in BlockIndices,
         NEW o \in Range(Insts(b)), o \in Range(Insts(c))
  PROVE  b = c
<1>1. PICK i \in DOMAIN Insts(b) : Insts(b)[i] = o
  BY DEF Range
<1>2. PICK j \in DOMAIN Insts(c) : Insts(c)[j] = o
  BY DEF Range
<1>3. o \in Offsets /\ ~(o < o)
  <2>1. Insts(b) \in Seq(Offsets) /\ InputKept
    BY InstsFacts DEF CFGInv
  <2>2. o \in Offsets
    BY <1>1, <2>1
  <2> QED
    BY <2>1, <2>2, StreamFacts
<1>4. ~(b < c) /\ ~(c < b)
  BY <1>1, <1>2, <1>3 DEF CFGInv, InOrder
<1> QED
  BY <1>4 DEF BlockIndices

\* What is left in a block.
BodyKept == body = [b \in BlockIndices |-> {o \in Range(blocks[b].insts) : ~IsNoop(o)}]

\* The instructions of a block, in the machine code ...
LEMMA BlockFacts ==
  ASSUME CFGInv, Adjacent, NEW b \in BlockIndices
  PROVE  /\ blocks[b].entry \in Offsets /\ LastInst(b) \in Offsets
         /\ blocks[b].entry \in Range(Insts(b)) /\ LastInst(b) \in Range(Insts(b))
         /\ blocks[b].entry <= LastInst(b)
         /\ \A o \in Range(Insts(b)) :
              /\ o \in Offsets /\ IsMCInst(o) /\ blocks[b].entry <= o /\ o <= LastInst(b)
              /\ o # LastInst(b) => ~IsBranch(o) /\ o + 1 \in Range(Insts(b))
              /\ o # blocks[b].entry => o \notin targetIndices
<1> DEFINE m == Len(Insts(b))
<1>1. /\ Insts(b) \in Seq(Offsets) /\ m \in Nat /\ m >= 1 /\ DOMAIN Insts(b) = 1..m
      /\ LastInst(b) = Insts(b)[m] /\ blocks[b].entry = Insts(b)[1]
  <2>1. Insts(b) \in Seq(Offsets) /\ m \in DOMAIN Insts(b)
        /\ LastInst(b) = Insts(b)[m] /\ blocks[b].entry = Insts(b)[1]
    BY InstsFacts
  <2> QED
    BY <2>1
<1>2. InputKept /\ \A i \in 1..m : Insts(b)[i] \in Offsets /\ IsMCInst(Insts(b)[i])
  BY <1>1 DEF CFGInv, InstsMet
<1>3. \A i \in 1..m : Insts(b)[i] \in Nat
  BY <1>2, StreamFacts
<1>4. 1 \in 1..m /\ m \in 1..m /\ Range(Insts(b)) = {Insts(b)[i] : i \in 1..m}
  BY <1>1 DEF Range
<1>5. ASSUME NEW o \in Range(Insts(b))
      PROVE  /\ o \in Offsets /\ IsMCInst(o) /\ blocks[b].entry <= o /\ o <= LastInst(b)
             /\ o # LastInst(b) => ~IsBranch(o) /\ o + 1 \in Range(Insts(b))
             /\ o # blocks[b].entry => o \notin targetIndices
  <2>1. PICK i \in 1..m : Insts(b)[i] = o
    BY <1>4
  <2> HIDE DEF m
  <2>2. o \in Offsets /\ IsMCInst(o) /\ o \in Nat
    BY <1>2, <1>3, <2>1
  <2>3. i = 1 \/ 1 < i
    BY <1>1
  <2>4. i = m \/ i < m
    BY <1>1
  <2>5. i < m => ~IsBranch(o) /\ o < LastInst(b)
    BY <1>1, <1>4, <2>1 DEF CFGInv, Straight, InOrder
  <2>6. i < m => o + 1 \in Range(Insts(b))
    <3>1. i < m => i + 1 \in 1..m
      BY <1>1
    <3>2. i < m => Insts(b)[i + 1] = o + 1
      BY <1>1, <2>1, <3>1 DEF Adjacent
    <3> QED
      BY <1>4, <3>1, <3>2
  <2>7. 1 < i => o \notin targetIndices /\ blocks[b].entry < o
    BY <1>1, <1>4, <2>1 DEF CFGInv, Straight, InOrder
  <2>8. blocks[b].entry \in Nat /\ LastInst(b) \in Nat
    BY <1>1, <1>3, <1>4
  <2>9. blocks[b].entry <= o /\ o <= LastInst(b)
    BY <1>1, <2>1, <2>2, <2>3, <2>4, <2>5, <2>7, <2>8
  <2> QED
    BY <1>1, <2>1, <2>2, <2>3, <2>4, <2>5, <2>6, <2>7, <2>9
<1>6. blocks[b].entry \in Range(Insts(b)) /\ LastInst(b) \in Range(Insts(b))
  BY <1>1, <1>4
<1> QED
  BY <1>5, <1>6

\* ... and those that are left of it without the noops.
LEMMA BodyFacts ==
  ASSUME CFGInv, Adjacent, BodyKept, NEW b \in BlockIndices
  PROVE  /\ \A o : o \in body[b] <=> o \in Range(Insts(b)) /\ ~IsNoop(o)
         /\ ~Empty(b) => /\ TermInst(b) \in body[b] /\ \A o \in body[b] : o <= TermInst(b)
                         /\ Min(body[b]) \in body[b] /\ \A o \in body[b] : Min(body[b]) <= o
                         /\ \A x \in Offsets : TermInst(b) < x /\ x <= LastInst(b) => IsNoop(x)
         /\ ~IsNoop(blocks[b].entry) => ~Empty(b) /\ Min(body[b]) = blocks[b].entry
         /\ ~IsNoop(LastInst(b)) => ~Empty(b) /\ TermInst(b) = LastInst(b)
<1>1. \A o : o \in body[b] <=> o \in Range(Insts(b)) /\ ~IsNoop(o)
  BY DEF BodyKept, Insts
<1>2. InputKept
  BY DEF CFGInv
<1>3. /\ body[b] \in SUBSET Nat /\ LastInst(b) \in Nat /\ \A x \in body[b] : x <= LastInst(b)
      /\ \A x \in body[b] : x \in Nat /\ blocks[b].entry <= x /\ blocks[b].entry \in Nat
  BY <1>1, <1>2, BlockFacts, StreamFacts
<1>4. ASSUME ~Empty(b)
      PROVE  /\ TermInst(b) \in body[b] /\ \A o \in body[b] : o <= TermInst(b)
             /\ Min(body[b]) \in body[b] /\ \A o \in body[b] : Min(body[b]) <= o
  BY <1>3, <1>4, GreatestElement, LeastElement DEF Empty, TermInst
<1>5. ASSUME ~Empty(b), NEW x \in Offsets, TermInst(b) < x, x <= LastInst(b) PROVE IsNoop(x)
  <2>1. x \in Nat /\ TermInst(b) \in Nat /\ blocks[b].entry <= TermInst(b)
        /\ blocks[b].entry \in Nat
    BY <1>2, <1>3, <1>4, <1>5, StreamFacts
  <2>2. blocks[b].entry <= x
    BY <1>5, <2>1
  <2>3. x \in Range(Insts(b))
    BY <1>5, <2>2, BlockHoldsBetween
  <2>4. x \notin body[b]
    BY <1>4, <1>5, <2>1
  <2> QED
    BY <1>1, <2>3, <2>4
<1>6. ASSUME ~IsNoop(blocks[b].entry) PROVE ~Empty(b) /\ Min(body[b]) = blocks[b].entry
  <2>1. blocks[b].entry \in body[b]
    BY <1>1, <1>6, BlockFacts
  <2>2. ~Empty(b)
    BY <2>1 DEF Empty
  <2> QED
    BY <1>3, <1>4, <2>1, <2>2
<1>7. ASSUME ~IsNoop(LastInst(b)) PROVE ~Empty(b) /\ TermInst(b) = LastInst(b)
  <2>1. LastInst(b) \in body[b]
    BY <1>1, <1>7, BlockFacts
  <2>2. ~Empty(b)
    BY <2>1 DEF Empty
  <2> QED
    BY <1>3, <1>4, <2>1, <2>2
<1> QED
  BY <1>1, <1>4, <1>5, <1>6, <1>7

\* Where the machine goes on after noops.
LEMMA EffectiveIs ==
  ASSUME InputKept, AllDecoded(instMap), NEW t \in Offsets, NEW u \in Offsets, t <= u, ~IsNoop(u),
         \A q \in Offsets : t <= q /\ q < u => IsNoop(q)
  PROVE  Effective(t) = u /\ (IsMCInst(t) /\ IsMCInst(u) => Goes(t))
<1> DEFINE T == {o \in EntryOffsets : o >= t /\ ~IsNoop(o)}
<1>1. EntryOffsets = Offsets
  BY DecodedFacts
<1>2. \A o \in Offsets : o \in Nat
  BY StreamFacts
<1>3. u \in T /\ T \in SUBSET Nat /\ \A y \in T : u <= y
  BY <1>1, <1>2
<1> HIDE DEF T
<1>4. Min(T) \in T /\ \A y \in T : Min(T) <= y
  BY <1>3, LeastElement
<1>5. Min(T) = u
  <2>1. u <= Min(T) /\ Min(T) <= u
    BY <1>3, <1>4
  <2>2. u \in Nat /\ Min(T) \in Nat
    BY <1>3, <1>4
  <2> QED
    BY <2>1, <2>2
<1> QED
  BY <1>1, <1>3, <1>5 DEF T, Effective, Goes

\* What the machine comes to from t.
LEMMA GoesFacts ==
  ASSUME InputKept, AllDecoded(instMap), NEW t, Goes(t)
  PROVE  /\ t \in Offsets /\ IsMCInst(t)
         /\ Effective(t) \in Offsets /\ t <= Effective(t) /\ ~IsNoop(Effective(t))
         /\ IsMCInst(Effective(t))
         /\ \A q \in Offsets : t <= q /\ q < Effective(t) => IsNoop(q)
<1> DEFINE T == {o \in EntryOffsets : o >= t /\ ~IsNoop(o)}
<1>1. EntryOffsets = Offsets
  BY DecodedFacts
<1>2. t \in Offsets /\ \A o \in Offsets : o \in Nat
  BY StreamFacts DEF Goes, IsMCInst
<1>3. T \in SUBSET Nat /\ T # {}
  BY <1>1, <1>2 DEF Goes
<1> HIDE DEF T
<1>4. Min(T) \in T /\ \A y \in T : Min(T) <= y
  BY <1>3, LeastElement
<1>5. Effective(t) = Min(T)
  BY DEF T, Effective
<1>6. Effective(t) \in T /\ \A y \in T : Effective(t) <= y
  BY <1>4, <1>5
<1>7. ASSUME NEW q \in Offsets, t <= q, q < Effective(t) PROVE IsNoop(q)
  <2>1. q \in Nat /\ Effective(t) \in Nat
    BY <1>2, <1>3, <1>6
  <2>2. ~(Effective(t) <= q)
    BY <1>7, <2>1
  <2>3. q \notin T
    BY <1>6, <2>2
  <2> QED
    BY <1>1, <1>2, <1>7, <2>3 DEF T
<1> QED
  BY <1>1, <1>2, <1>6, <1>7 DEF Goes, T

\* The CFG is built, of a function that is laid out as it should be.
CFGReady ==
  EdgeInv /\ EntriesLeaders /\ Built /\ LaidOut(instMap)

\* What LaidOut says in the words of the lemmas about buildCFG.
LEMMA LaidOutFacts ==
  ASSUME NEW s, LaidOut(s) PROVE AllDecoded(s) /\ DataUnreached(s)
BY DEF LaidOut, AllDecoded, DataUnreached

\* The parts of CFGReady.
LEMMA ReadyFacts ==
  ASSUME CFGReady
  PROVE  /\ CFGInv /\ Adjacent /\ InputKept /\ EdgeInv /\ Built /\ EntriesLeaders
         /\ AllDecoded(instMap) /\ DataUnreached(instMap) /\ LaidOut(instMap)
BY LaidOutFacts DEF CFGReady, EdgeInv, CFGInv

\* Behind an instruction that is no branch, a block does not begin with a noop.
LEMMA StraightOn ==
  ASSUME CFGReady, NoopsApart, BodyKept, NEW b \in BlockIndices, ~IsBranch(LastInst(b)),
         NEW s \in BlockIndices, blocks[s].entry = LastInst(b) + 1
  PROVE  /\ ~IsNoop(blocks[s].entry) /\ ~Empty(s)
         /\ Min(body[s]) = blocks[s].entry
<1> DEFINE x == blocks[s].entry
<1>1. CFGInv /\ Adjacent /\ InputKept
  BY ReadyFacts
<1>2. x \in Offsets /\ LastInst(b) \in Offsets /\ IsMCInst(LastInst(b))
  BY <1>1, BlockFacts
<1>3. x # 0 /\ x - 1 = LastInst(b)
  BY <1>1, <1>2, StreamFacts
<1>4. x \in targetIndices
  BY DEF CFGReady, EntriesLeaders
<1>5. ~IsNoop(x)
  <2> HIDE DEF x
  <2>1. IsNoop(x) => IsBranch(x - 1) \/ instMap[x - 1].kind = "data"
    BY <1>1, <1>2, <1>3, <1>4, LeaderNoop
  <2>2. instMap[LastInst(b)].kind # "data"
    BY <1>2 DEF IsMCInst, InstKinds, BranchKinds
  <2> QED
    BY <1>3, <2>1, <2>2
<1> QED
  BY <1>1, <1>5, BodyFacts

\* So where such a block has an edge to, there is code.
LEMMA AfterStraight ==
  ASSUME CFGReady, NoopsApart, BodyKept, NEW b \in BlockIndices, ~IsBranch(LastInst(b)),
         NEW s \in Range(succ[b])
  PROVE  /\ s \in BlockIndices /\ blocks[s].entry = LastInst(b) + 1
         /\ ~IsNoop(blocks[s].entry) /\ ~Empty(s)
         /\ Min(body[s]) = blocks[s].entry
<1>1. s \in BlockIndices /\ blocks[s].entry \in MachineSucc(LastInst(b))
  BY ReadyFacts, SuccIsWay
<1>2. blocks[s].entry = LastInst(b) + 1
  BY <1>1 DEF MachineSucc, IsBranch, BranchKinds
<1> QED
  BY <1>1, <1>2, StraightOn

\* An empty block has noops only, ...
LEMMA EmptyFacts ==
  ASSUME CFGReady, BodyKept, NEW e \in BlockIndices, Empty(e)
  PROVE  IsNoop(blocks[e].entry) /\ IsNoop(LastInst(e)) /\ ~IsBranch(LastInst(e))
<1>1. CFGInv /\ Adjacent
  BY ReadyFacts
<1>2. IsNoop(blocks[e].entry) /\ IsNoop(LastInst(e))
  BY <1>1, BodyFacts
<1> QED
  BY <1>2 DEF IsNoop, IsBranch, BranchKinds

\* ... and only a conditional branch falls through to it.
LEMMA BeforeEmpty ==
  ASSUME CFGReady, NoopsApart, BodyKept, NEW e \in BlockIndices, Empty(e),
         NEW p \in BlockIndices, e \in Range(succ[p])
  PROVE  /\ IsConditionalBranch(LastInst(p)) /\ blocks[e].entry = LastInst(p) + 1
         /\ ~Empty(p)
<1> DEFINE x == blocks[e].entry
           l == LastInst(p)
<1>1. CFGInv /\ Adjacent /\ InputKept
  BY ReadyFacts
<1>2. x \in Offsets /\ l \in Offsets /\ IsMCInst(l)
  BY <1>1, BlockFacts
<1>3. x \in MachineSucc(l)
  BY ReadyFacts, SuccIsWay
<1>4. IsNoop(x)
  BY EmptyFacts
<1>5. ~(instMap[l].kind \in {"jmp", "cond"} /\ x = instMap[l].target)
  BY <1>2, <1>4 DEF NoopsApart
<1>6. x = l + 1 /\ instMap[l].kind \in {"plain", "nop", "cond"}
  BY <1>3, <1>5 DEF MachineSucc
<1>7. ~Empty(p)
  <2> SUFFICES ASSUME Empty(p) PROVE FALSE
    OBVIOUS
  <2>1. ~IsBranch(l)
    BY EmptyFacts
  <2> QED
    BY <1>4, <2>1, AfterStraight
<1>8. instMap[l].kind = "cond"
  <2> SUFFICES ASSUME ~IsBranch(l) PROVE FALSE
    BY <1>6 DEF IsBranch, BranchKinds
  <2> QED
    BY <1>4, AfterStraight
<1> QED
  BY <1>6, <1>7, <1>8 DEF IsConditionalBranch

\* Only one block falls through to it.
LEMMA OneBeforeEmpty ==
  ASSUME CFGReady, NoopsApart, BodyKept, NEW e \in BlockIndices, Empty(e),
         NEW p \in BlockIndices, e \in Range(succ[p]), NEW q \in BlockIndices, e \in Range(succ[q])
  PROVE  p = q
<1>1. CFGInv /\ Adjacent /\ InputKept
  BY ReadyFacts
<1>2. /\ LastInst(p) \in Range(Insts(p)) /\ LastInst(q) \in Range(Insts(q))
      /\ LastInst(p) \in Nat /\ LastInst(q) \in Nat
  BY <1>1, BlockFacts, StreamFacts
<1>3. LastInst(p) + 1 = LastInst(q) + 1
  BY BeforeEmpty
<1>4. LastInst(p) = LastInst(q)
  BY <1>2, <1>3
<1> QED
  BY <1>1, <1>2, <1>4, OneBlock

-----------------------------------------------------------------------------
(* The edges while empty blocks are unlinked, and after. *)

HasEdge(b, s) == \E e \in edges : e.from = b /\ e.to = s

\* The edges of b are (still) its own.
Linked(b) == ~Empty(b) \/ (stage = "unlink" /\ b >= cur)

EdgesTyped ==
  /\ edges \subseteq [from : BlockIndices, to : BlockIndices, at : Nat]
  /\ \E n \in Nat : \A e \in edges : e.at <= n

EdgesKept == \A b \in BlockIndices : Linked(b) => \A s \in Range(succ[b]) : HasEdge(b, s)

EdgesFrom ==
  \A e \in edges : \/ Linked(e.from) /\ e.to \in Range(succ[e.from])
                   \/ IsConditionalBranch(LastInst(e.from)) /\ ~Empty(e.to)

EdgesMoved ==
  \A e, p \in BlockIndices : ~Linked(e) /\ e \in Range(succ[p]) =>
    \A s \in Range(succ[e]) : HasEdge(p, s)

FlowEdges == EdgesTyped /\ (NoopsApart => EdgesKept /\ EdgesFrom /\ EdgesMoved)

\* The first of some edges is one of them.
LEMMA FirstEdge ==
  ASSUME EdgesTyped, NEW E \in SUBSET edges, E # {} PROVE First(E) \in E
<1> DEFINE T == {e.at : e \in E}
<1>1. \A e \in E : e.at \in Nat
  BY DEF EdgesTyped
<1>2. T \in SUBSET Nat /\ T # {}
  BY <1>1
<1> HIDE DEF T
<1>3. Min(T) \in T /\ \A y \in T : Min(T) <= y
  BY <1>2, LeastElement
<1>4. PICK e \in E : e.at = Min(T)
  BY <1>3 DEF T
<1>5. \A f \in E : e.at <= f.at
  BY <1>3, <1>4 DEF T
<1> QED
  BY <1>5 DEF First

\* No edge was added after the newest one.
LEMMA NewestEdge ==
  ASSUME EdgesTyped PROVE Newest(edges) \in Nat /\ \A e \in edges : e.at <= Newest(edges)
<1> DEFINE T == {0} \cup {e.at : e \in edges}
<1>1. \A e \in edges : e.at \in Nat
  BY DEF EdgesTyped
<1>2. PICK n \in Nat : \A e \in edges : e.at <= n
  BY DEF EdgesTyped
<1>3. T \in SUBSET Nat /\ T # {} /\ \A x \in T : x <= n
  BY <1>1, <1>2
<1> HIDE DEF T
<1>4. Max(T) \in T /\ \A y \in T : y <= Max(T)
  BY <1>3, GreatestElement
<1>5. Newest(edges) = Max(T)
  BY DEF Newest, T
<1>6. \A e \in edges : e.at \in T
  BY DEF T
<1> QED
  BY <1>3, <1>4, <1>5, <1>6

\* What depends on the variables of buildCFG stays with them.
LEMMA CFGKept ==
  ASSUME UNCHANGED cfgVars
  PROVE  /\ CFGReady => CFGReady'
         /\ UNCHANGED <<instMap, targetIndices, pc, blocks, succ>> /\ BlockIndices' = BlockIndices
         /\ \A o : /\ IsNoop(o)' = IsNoop(o) /\ IsMCInst(o)' = IsMCInst(o)
                   /\ IsConditionalBranch(o)' = IsConditionalBranch(o)
         /\ NoopsApart' = NoopsApart
         /\ \A b : LastInst(b)' = LastInst(b)
<1>1. UNCHANGED <<instMap, targetIndices, pc, blocks, succ>>
  BY DEF cfgVars
<1>2. BlockIndices' = BlockIndices /\ \A b : LastInst(b)' = LastInst(b)
  BY <1>1 DEF BlockIndices, LastInst
<1>3. \A o : /\ IsNoop(o)' = IsNoop(o) /\ IsMCInst(o)' = IsMCInst(o)
             /\ IsConditionalBranch(o)' = IsConditionalBranch(o)
  BY <1>1 DEF IsNoop, IsMCInst, IsConditionalBranch
<1>4. NoopsApart' = NoopsApart
  BY <1>1, <1>3 DEF NoopsApart
<1>5. CFGReady => CFGReady'
  <2>1. EdgeInv => EdgeInv'
    BY BuildCFGKeepsEdgeInv
  <2>2. EntriesLeaders' = EntriesLeaders /\ Built' = Built
    BY <1>1, <1>2 DEF EntriesLeaders, Built
  <2>3. LaidOut(instMap)' = LaidOut(instMap)
    BY <1>1 DEF LaidOut, RecordedTargets, SymbolStarts
  <2> QED
    BY <2>1, <2>2, <2>3 DEF CFGReady
<1> QED
  BY <1>1, <1>2, <1>3, <1>4, <1>5

\* buildCFG's edges.
LEMMA DeleteNOOPsEdges ==
  ASSUME CFGReady, DeleteNOOPs PROVE BodyKept' /\ FlowEdges'
<1>1. /\ UNCHANGED cfgVars /\ stage' = "unlink" /\ cur' = 1 /\ edges' = CFGEdges
      /\ body' = [b \in BlockIndices |-> {o \in Range(blocks[b].insts) : ~IsNoop(o)}]
  BY DEF DeleteNOOPs
<1>2. /\ UNCHANGED <<instMap, blocks, succ>> /\ BlockIndices' = BlockIndices
      /\ \A o : IsNoop(o)' = IsNoop(o)
  BY <1>1, CFGKept
<1>3. BodyKept'
  BY <1>1, <1>2 DEF BodyKept
<1>4. /\ DOMAIN succ = BlockIndices /\ Len(blocks) \in Nat
      /\ \A b \in BlockIndices : /\ succ[b] \in Seq(BlockIndices) /\ Len(succ[b]) <= 2
                                 /\ DOMAIN succ[b] = 1..Len(succ[b])
  BY DEF CFGReady, EdgeInv, SuccsNoted, Built, BlockIndices
<1>5. \A e : e \in CFGEdges <=>
        \E b \in BlockIndices : \E i \in DOMAIN succ[b] :
           e = [from |-> b, to |-> succ[b][i], at |-> 2 * b + i]
  BY <1>4 DEF CFGEdges
<1>6. ASSUME NEW e \in CFGEdges
      PROVE  /\ e \in [from : BlockIndices, to : BlockIndices, at : Nat]
             /\ e.at <= 2 * Len(blocks) + 2 /\ e.to \in Range(succ[e.from])
  <2>1. PICK b \in BlockIndices : \E i \in DOMAIN succ[b] :
           e = [from |-> b, to |-> succ[b][i], at |-> 2 * b + i]
    BY <1>5
  <2>2. PICK i \in DOMAIN succ[b] : e = [from |-> b, to |-> succ[b][i], at |-> 2 * b + i]
    BY <2>1
  <2>3. i \in Nat /\ i <= 2 /\ b \in Nat /\ b <= Len(blocks) /\ succ[b][i] \in BlockIndices
    BY <1>4 DEF BlockIndices
  <2>4. 2 * b + i \in Nat /\ 2 * b + i <= 2 * Len(blocks) + 2
    BY <1>4, <2>3
  <2>5. e.to \in Range(succ[e.from])
    BY <2>2 DEF Range
  <2> QED
    BY <2>2, <2>3, <2>4, <2>5
<1>7. EdgesTyped'
  <2>1. 2 * Len(blocks) + 2 \in Nat
    BY <1>4
  <2> QED
    BY <1>1, <1>2, <1>6, <2>1 DEF EdgesTyped
<1>8. \A b \in BlockIndices : Linked(b)' /\ b >= 1
  BY <1>1, <1>2 DEF Linked, BlockIndices
<1>9. EdgesFrom'
  BY <1>1, <1>2, <1>6, <1>8, <1>7 DEF EdgesFrom
<1>10. EdgesKept'
  <2>1. ASSUME NEW b \in BlockIndices, NEW s \in Range(succ[b])
        PROVE  \E e \in CFGEdges : e.from = b /\ e.to = s
    <3>1. PICK i \in DOMAIN succ[b] : succ[b][i] = s
      BY DEF Range
    <3>2. [from |-> b, to |-> succ[b][i], at |-> 2 * b + i] \in CFGEdges
      BY <1>5
    <3> QED
      BY <3>1, <3>2
  <2> QED
    BY <1>1, <1>2, <2>1 DEF EdgesKept, HasEdge
<1>11. EdgesMoved'
  BY <1>2, <1>8 DEF EdgesMoved
<1> QED
  BY <1>3, <1>7, <1>9, <1>10, <1>11 DEF FlowEdges

\* The edges stay as they are in a step that does not unlink a block.
LEMMA FlowEdgesKept ==
  ASSUME FlowEdges, UNCHANGED <<cfgVars, body, edges>>,
         \A b \in BlockIndices : Linked(b)' <=> Linked(b)
  PROVE  FlowEdges'
<1>1. /\ UNCHANGED <<instMap, blocks, succ>> /\ BlockIndices' = BlockIndices
      /\ \A o : IsConditionalBranch(o)' = IsConditionalBranch(o)
      /\ NoopsApart' = NoopsApart /\ \A b : LastInst(b)' = LastInst(b)
  BY CFGKept
<1>2. EdgesTyped'
  BY <1>1 DEF FlowEdges, EdgesTyped
<1>3. \A b, s : HasEdge(b, s)' = HasEdge(b, s)
  BY DEF HasEdge
<1>4. \A b : Empty(b)' = Empty(b)
  BY DEF Empty
<1>5. NoopsApart => EdgesKept' /\ EdgesMoved'
  BY <1>1, <1>3 DEF FlowEdges, EdgesKept, EdgesMoved
<1>6. NoopsApart => EdgesFrom'
  <2>1. \A e \in edges : e.from \in BlockIndices
    BY DEF FlowEdges, EdgesTyped
  <2> QED
    BY <1>1, <1>4, <2>1 DEF FlowEdges, EdgesFrom
<1> QED
  BY <1>1, <1>2, <1>5, <1>6 DEF FlowEdges

\* Unlinking an empty block hands its edges on.
LEMMA UnlinkMBBEdges ==
  ASSUME CFGReady, BodyKept, FlowEdges, UnlinkMBB, cur \in Nat, cur >= 1 PROVE FlowEdges'
<1>1. /\ UNCHANGED <<cfgVars, stage, body>> /\ stage = "unlink" /\ cur <= Len(blocks)
      /\ cur' = cur + 1 /\ edges' = IF Empty(cur) THEN Unlinked(edges, cur) ELSE edges
  BY DEF UnlinkMBB
<1>2. /\ UNCHANGED <<instMap, blocks, succ>> /\ BlockIndices' = BlockIndices
      /\ \A o : IsConditionalBranch(o)' = IsConditionalBranch(o)
      /\ NoopsApart' = NoopsApart /\ \A b : LastInst(b)' = LastInst(b)
      /\ \A b : Empty(b)' = Empty(b)
  BY <1>1, CFGKept DEF Empty
<1>3. cur \in BlockIndices /\ \A b \in BlockIndices : b \in Nat
  BY <1>1 DEF BlockIndices
<1>4. \A b \in BlockIndices : Linked(b)' <=> ~Empty(b) \/ b >= cur + 1
  BY <1>1, <1>2 DEF Linked
<1>5. \A b \in BlockIndices : Linked(b) <=> ~Empty(b) \/ b >= cur
  BY <1>1 DEF Linked
<1>6. CASE ~Empty(cur)
  <2>1. \A b \in BlockIndices : Linked(b)' <=> Linked(b)
    BY <1>3, <1>4, <1>5, <1>6
  <2> QED
    BY <1>1, <1>6, <2>1, FlowEdgesKept
<1>7. CASE Empty(cur)
  <2> DEFINE preds == PredsOf(edges, cur)
             own == SuccsOf(edges, cur)
             top == Newest(edges)
             Moved(e) == [from |-> First(preds).from, to |-> e.to, at |-> e.at + top]
  <2>1. edges' = (edges \ own) \cup {Moved(e) : e \in {x \in own : preds # {}}}
    BY <1>1, <1>7 DEF Unlinked
  <2>2. EdgesTyped /\ top \in Nat /\ \A e \in edges : e.at <= top
    BY NewestEdge DEF FlowEdges
  <2>3. \A e \in edges : e \in [from : BlockIndices, to : BlockIndices, at : Nat]
    BY <2>2 DEF EdgesTyped
  <2>4. preds # {} => First(preds) \in edges /\ First(preds).to = cur
                      /\ First(preds).from \in BlockIndices
    <3>1. preds # {} => First(preds) \in preds
      BY <2>2, FirstEdge DEF PredsOf
    <3> QED
      BY <2>3, <3>1 DEF PredsOf
  <2>5. ASSUME NEW e \in own, preds # {}
        PROVE  /\ Moved(e) \in [from : BlockIndices, to : BlockIndices, at : Nat]
               /\ Moved(e).from = First(preds).from /\ Moved(e).to = e.to
               /\ Moved(e).at <= 2 * top /\ e \in edges /\ e.from = cur
    <3>1. e \in edges /\ e.from = cur /\ e \in [from : BlockIndices, to : BlockIndices, at : Nat]
      BY <2>3 DEF SuccsOf
    <3>2. e.at + top \in Nat /\ e.at + top <= 2 * top
      BY <2>2, <3>1
    <3> QED
      BY <2>4, <2>5, <3>1, <3>2
  <2> HIDE DEF Moved
  <2>6. \A e \in edges' : \/ e \in edges /\ e.from # cur
                          \/ preds # {} /\ \E f \in own : e = Moved(f)
    BY <2>1 DEF SuccsOf
  <2>7. EdgesTyped'
    <3>1. \A e \in edges' : /\ e \in [from : BlockIndices, to : BlockIndices, at : Nat]
                            /\ e.at <= 2 * top
      BY <2>2, <2>3, <2>5, <2>6
    <3>2. 2 * top \in Nat
      BY <2>2
    <3> QED
      BY <1>2, <3>1, <3>2 DEF EdgesTyped
  <2>8. \A b, s : HasEdge(b, s) /\ b # cur => HasEdge(b, s)'
    BY <2>1 DEF HasEdge, SuccsOf
  <2>9. ASSUME NoopsApart PROVE EdgesKept' /\ EdgesFrom' /\ EdgesMoved'
    <3>1. EdgesKept /\ EdgesFrom /\ EdgesMoved
      BY <2>9 DEF FlowEdges
    <3>2. \A b \in BlockIndices : Linked(b)' => Linked(b) /\ b # cur
      BY <1>3, <1>4, <1>5, <1>7
    <3>3. \A b \in BlockIndices : Linked(b) /\ b # cur => Linked(b)'
      BY <1>3, <1>4, <1>5, <1>7
    <3>4. EdgesKept'
      BY <1>2, <2>8, <3>1, <3>2 DEF EdgesKept
    <3>5. \A p \in BlockIndices : cur \in Range(succ[p]) => ~Empty(p) /\ HasEdge(p, cur)
      <4>1. \A p \in BlockIndices : cur \in Range(succ[p]) => ~Empty(p)
        BY <1>3, <1>7, <2>9, BeforeEmpty
      <4> QED
        BY <1>5, <3>1, <4>1 DEF EdgesKept
    <3>6. preds # {} => cur \in Range(succ[First(preds).from])
      BY <1>7, <2>4, <3>1 DEF EdgesFrom
    <3>7. \A e \in own : e.to \in Range(succ[cur]) /\ ~Empty(e.to)
      <4>1. ~IsBranch(LastInst(cur))
        BY <1>3, <1>7, EmptyFacts
      <4>2. ~IsConditionalBranch(LastInst(cur))
        BY <4>1 DEF IsBranch, IsConditionalBranch, BranchKinds
      <4>3. \A e \in own : e \in edges /\ e.from = cur
        BY DEF SuccsOf
      <4>4. \A e \in own : e.to \in Range(succ[cur])
        BY <3>1, <4>2, <4>3 DEF EdgesFrom
      <4> QED
        BY <1>3, <2>9, <4>1, <4>4, AfterStraight
    <3>8. EdgesFrom'
      <4>1. ASSUME NEW e \in edges, e.from # cur
            PROVE  \/ Linked(e.from)' /\ e.to \in Range(succ[e.from])
                   \/ IsConditionalBranch(LastInst(e.from)) /\ ~Empty(e.to)
        BY <2>3, <3>1, <3>3, <4>1 DEF EdgesFrom
      <4>2. ASSUME NEW f \in own, preds # {}
            PROVE  IsConditionalBranch(LastInst(Moved(f).from)) /\ ~Empty(Moved(f).to)
        <5>1. IsConditionalBranch(LastInst(First(preds).from))
          BY <1>3, <1>7, <2>4, <2>9, <3>6, <4>2, BeforeEmpty
        <5> QED
          BY <2>5, <3>7, <4>2, <5>1
      <4> QED
        BY <1>2, <2>6, <4>1, <4>2 DEF EdgesFrom
    <3>9. EdgesMoved'
      <4> SUFFICES ASSUME NEW e \in BlockIndices, NEW p \in BlockIndices, ~Linked(e)',
                          e \in Range(succ[p]), NEW s \in Range(succ[e])
                   PROVE  HasEdge(p, s)'
        BY <1>2 DEF EdgesMoved
      <4>1. CASE e # cur
        <5>1. ~Linked(e) /\ Empty(e)
          BY <1>4, <3>3, <4>1
        <5>2. HasEdge(p, s)
          BY <3>1, <5>1 DEF EdgesMoved
        <5>3. ~Empty(p)
          BY <2>9, <5>1, BeforeEmpty
        <5> QED
          BY <1>7, <2>8, <5>2, <5>3
      <4>2. CASE e = cur
        <5>1. HasEdge(p, cur)
          BY <3>5, <4>2
        <5>2. preds # {}
          BY <5>1 DEF HasEdge, PredsOf
        <5>3. First(preds).from = p
          BY <1>3, <1>7, <2>4, <2>9, <3>6, <4>2, <5>2, OneBeforeEmpty
        <5>4. HasEdge(cur, s)
          BY <1>3, <1>5, <3>1, <4>2 DEF EdgesKept
        <5>5. PICK f \in own : f.to = s
          BY <5>4 DEF HasEdge, SuccsOf
        <5>6. Moved(f) \in edges' /\ Moved(f).from = p /\ Moved(f).to = s
          BY <2>1, <2>5, <5>2, <5>3, <5>5
        <5> QED
          BY <5>6 DEF HasEdge
      <4> QED
        BY <4>1, <4>2
    <3> QED
      BY <3>4, <3>8, <3>9
  <2> QED
    BY <1>2, <2>7, <2>9 DEF FlowEdges
<1> QED
  BY <1>6, <1>7

\* The instruction a block ends with, noops aside.
LEMMA TermFacts ==
  ASSUME CFGReady, BodyKept, NEW b \in BlockIndices, ~Empty(b)
  PROVE  /\ TermInst(b) \in Offsets /\ ~IsNoop(TermInst(b)) /\ TermInst(b) \in Range(Insts(b))
         /\ instMap[TermInst(b)].kind \in {"jmp", "cond", "indirect", "plain", "ret"}
         /\ TermInst(b) <= LastInst(b) /\ LastInst(b) \in Offsets
         /\ IsBranch(TermInst(b)) => TermInst(b) = LastInst(b)
         /\ IsBranch(LastInst(b)) => TermInst(b) = LastInst(b)
         /\ \A x \in Offsets : TermInst(b) < x /\ x <= LastInst(b) => IsNoop(x)
<1>1. CFGInv /\ Adjacent /\ InputKept
  BY ReadyFacts
<1>2. TermInst(b) \in Range(Insts(b)) /\ ~IsNoop(TermInst(b))
  BY <1>1, BodyFacts
<1>3. /\ TermInst(b) \in Offsets /\ IsMCInst(TermInst(b)) /\ TermInst(b) <= LastInst(b)
      /\ TermInst(b) # LastInst(b) => ~IsBranch(TermInst(b))
      /\ LastInst(b) \in Offsets
  BY <1>1, <1>2, BlockFacts
<1>4. IsBranch(LastInst(b)) => ~IsNoop(LastInst(b))
  BY DEF IsBranch, IsNoop, BranchKinds
<1>5. IsBranch(LastInst(b)) => TermInst(b) = LastInst(b)
  BY <1>1, <1>4, BodyFacts
<1>6. instMap[TermInst(b)].kind \in {"jmp", "cond", "indirect", "plain", "ret"}
  BY <1>2, <1>3 DEF IsMCInst, IsNoop, InstKinds, BranchKinds
<1>7. \A x \in Offsets : TermInst(b) < x /\ x <= LastInst(b) => IsNoop(x)
  BY <1>1, BodyFacts
<1> QED
  BY <1>2, <1>3, <1>5, <1>6, <1>7

\* A noop is an instruction, and no branch.
LEMMA NoopIsInst == ASSUME NEW o \in Offsets, IsNoop(o) PROVE IsMCInst(o) /\ ~IsBranch(o)
BY DEF IsNoop, IsMCInst, IsBranch, InstKinds, BranchKinds

\* A block that is reached from b in the machine code.
NextOf(b, t) ==
  LET s == InstToMBBNum(Effective(t))
  IN  /\ s \in BlockIndices /\ blocks[s].entry = Effective(t)
      /\ ~Empty(s) /\ Min(body[s]) = Effective(t) /\ HasEdge(b, s)

\* The noops behind a conditional branch are a block, which the branch has an edge to and
\* which has an edge to the instruction behind them.
LEMMA NoopsBetween ==
  ASSUME CFGReady, NoopsApart, BodyKept, NEW b \in BlockIndices,
         IsConditionalBranch(LastInst(b)), LastInst(b) + 1 \in Offsets, IsNoop(LastInst(b) + 1)
  PROVE  \E e \in BlockIndices : \E p \in Offsets :
           /\ Empty(e) /\ e \in Range(succ[b]) /\ LastInst(b) < p /\ p = LastInst(e) + 1
           /\ IsMCInst(p) /\ ~IsNoop(p)
           /\ \A q \in Offsets : LastInst(b) < q /\ q < p => IsNoop(q)
           /\ InstToMBBNum(p) \in BlockIndices /\ InstToMBBNum(p) \in Range(succ[e])
           /\ blocks[InstToMBBNum(p)].entry = p
<1> DEFINE o == LastInst(b)
           e == InstToMBBNum(o + 1)
<1>1. /\ CFGInv /\ Adjacent /\ InputKept /\ EdgeInv /\ Built /\ DataUnreached(instMap)
      /\ EntriesLeaders
  BY ReadyFacts
<1>2. o \in Offsets /\ o \in Nat /\ instMap[o].kind = "cond"
  BY <1>1, BlockFacts, StreamFacts DEF IsConditionalBranch
<1>3. o + 1 \in MachineSucc(o) /\ IsMCInst(o + 1)
  BY <1>2, NoopIsInst DEF MachineSucc
<1>4. e \in BlockIndices /\ e \in Range(succ[b]) /\ blocks[e].entry = o + 1
  BY <1>1, <1>3, WayHasSucc
<1>5. PICK p \in Offsets : /\ o < p /\ p \in targetIndices /\ IsMCInst(p) /\ ~IsNoop(p)
                           /\ \A q \in Offsets : o < q /\ q < p => IsNoop(q)
  BY <1>2 DEF NoopsApart
<1> DEFINE l == LastInst(e)
<1>6. p \in Nat /\ l \in Offsets /\ l \in Nat /\ o + 1 <= l
  BY <1>1, <1>4, BlockFacts, StreamFacts
<1> HIDE DEF e, o, l
<1>7. p # o + 1
  BY <1>5 DEF o
<1>8. l < p
  <2> SUFFICES ASSUME p <= l PROVE FALSE
    BY <1>6
  <2>1. blocks[e].entry <= p
    BY <1>2, <1>4, <1>5, <1>6
  <2>2. p \in Range(Insts(e))
    BY <1>1, <1>4, <2>1, BlockHoldsBetween DEF l
  <2> QED
    BY <1>1, <1>4, <1>5, <1>7, <2>2, BlockFacts
<1>9. \A x \in Range(Insts(e)) : IsNoop(x)
  <2>1. \A x \in Range(Insts(e)) : x \in Offsets /\ o + 1 <= x /\ x <= l
    BY <1>1, <1>4, BlockFacts DEF l
  <2>2. \A x \in Offsets : x \in Nat
    BY <1>1, StreamFacts
  <2>3. ASSUME NEW x \in Range(Insts(e)) PROVE IsNoop(x)
    <3>1. x \in Nat /\ o + 1 <= x /\ x <= l /\ x \in Offsets
      BY <2>1, <2>2
    <3>2. o < x /\ x < p
      BY <1>2, <1>6, <1>8, <3>1
    <3> QED
      BY <1>5, <3>1, <3>2
  <2> QED
    BY <2>3
<1>10. Empty(e)
  BY <1>1, <1>4, <1>9, BodyFacts DEF Empty
<1>11. IsNoop(l) /\ ~IsBranch(l)
  BY <1>4, <1>10, EmptyFacts DEF l
<1>12. l + 1 \in Offsets /\ o < l + 1 /\ l + 1 <= p
  BY <1>1, <1>2, <1>5, <1>6, <1>8, StreamFacts
<1>13. IsMCInst(l + 1)
  <2>1. CASE l + 1 = p
    BY <1>5, <2>1
  <2>2. CASE l + 1 # p
    <3>1. l + 1 < p
      BY <1>6, <1>12, <2>2
    <3> QED
      BY <1>5, <1>12, <3>1, NoopIsInst
  <2> QED
    BY <2>1, <2>2
<1>14. l + 1 \in MachineSucc(l)
  BY <1>11 DEF MachineSucc, IsNoop
<1>15. /\ InstToMBBNum(l + 1) \in BlockIndices /\ InstToMBBNum(l + 1) \in Range(succ[e])
       /\ blocks[InstToMBBNum(l + 1)].entry = l + 1
  BY <1>1, <1>4, <1>13, <1>14, WayHasSucc DEF l
<1>16. ~IsNoop(l + 1)
  BY <1>4, <1>11, <1>15, StraightOn DEF l
<1>17. l + 1 = p
  <2> SUFFICES ASSUME l + 1 < p PROVE FALSE
    BY <1>6, <1>12
  <2> QED
    BY <1>5, <1>12, <1>16
<1> QED
  BY <1>4, <1>5, <1>10, <1>15, <1>17 DEF o, l

\* Where control goes to from the end of b, b has an edge to the block that is there.
LEMMA NextBlock ==
  ASSUME CFGReady, NoopsApart, BodyKept, FlowEdges, stage # "unlink",
         NEW b \in BlockIndices, ~Empty(b), NEW t \in Exits(b), Goes(t)
  PROVE  NextOf(b, t)
<1> DEFINE o == TermInst(b)
           l == LastInst(b)
<1>1. /\ CFGInv /\ Adjacent /\ InputKept /\ EdgeInv /\ Built /\ DataUnreached(instMap)
      /\ AllDecoded(instMap)
  BY ReadyFacts
<1>2. EdgesKept /\ EdgesMoved /\ \A c : Linked(c) <=> ~Empty(c)
  BY DEF FlowEdges, Linked
<1>3. /\ o \in Offsets /\ l \in Offsets /\ o <= l /\ ~IsNoop(o)
      /\ instMap[o].kind \in {"jmp", "cond", "indirect", "plain", "ret"}
      /\ IsBranch(o) => o = l
      /\ IsBranch(l) => o = l
      /\ \A x \in Offsets : o < x /\ x <= l => IsNoop(x)
  BY TermFacts
<1>4. t \in MachineSucc(o)
  BY DEF Exits
<1>5. /\ t \in Offsets /\ IsMCInst(t) /\ Effective(t) \in Offsets /\ t <= Effective(t)
      /\ ~IsNoop(Effective(t)) /\ IsMCInst(Effective(t))
      /\ \A q \in Offsets : t <= q /\ q < Effective(t) => IsNoop(q)
  BY <1>1, GoesFacts
<1>6. o \in Nat /\ l \in Nat /\ t \in Nat /\ Effective(t) \in Nat
  BY <1>1, <1>3, <1>5, StreamFacts
\* What has its entry where control goes to is the block.
<1>7. ASSUME NEW u, ~IsNoop(u), u = Effective(t), InstToMBBNum(u) \in BlockIndices,
             blocks[InstToMBBNum(u)].entry = u, HasEdge(b, InstToMBBNum(u))
      PROVE  NextOf(b, t)
  BY <1>1, <1>7, BodyFacts DEF NextOf
<1> HIDE DEF o, l
<1>8. CASE IsBranch(o)
  <2>1. o = l /\ instMap[o].kind \in {"jmp", "cond"} /\ t \in MachineSucc(l)
    BY <1>3, <1>4, <1>8 DEF IsBranch, BranchKinds, MachineSucc
  <2>2. CASE ~IsNoop(t)
    <3>1. Effective(t) = t
      BY <1>1, <1>5, <1>6, <2>2, EffectiveIs
    <3>2. /\ InstToMBBNum(t) \in BlockIndices /\ InstToMBBNum(t) \in Range(succ[b])
          /\ blocks[InstToMBBNum(t)].entry = t
      BY <1>1, <1>5, <2>1, WayHasSucc DEF l
    <3>3. HasEdge(b, InstToMBBNum(t))
      BY <1>2, <3>2 DEF EdgesKept
    <3> QED
      BY <1>7, <2>2, <3>1, <3>2, <3>3
  <2>3. CASE IsNoop(t)
    <3>1. instMap[l].kind = "cond" /\ t = l + 1
      BY <1>3, <1>5, <2>1, <2>3 DEF NoopsApart, MachineSucc
    <3>2. PICK e \in BlockIndices, p \in Offsets :
           /\ Empty(e) /\ e \in Range(succ[b]) /\ l < p /\ p = LastInst(e) + 1
           /\ IsMCInst(p) /\ ~IsNoop(p)
           /\ \A q \in Offsets : l < q /\ q < p => IsNoop(q)
           /\ InstToMBBNum(p) \in BlockIndices /\ InstToMBBNum(p) \in Range(succ[e])
           /\ blocks[InstToMBBNum(p)].entry = p
      BY <1>5, <2>3, <3>1, NoopsBetween DEF l, IsConditionalBranch
    <3>3. HasEdge(b, InstToMBBNum(p))
      BY <1>2, <3>2 DEF EdgesMoved
    <3>4. p \in Nat /\ t <= p /\ \A q \in Offsets : q \in Nat
      BY <1>1, <1>6, <3>1, <3>2, StreamFacts
    <3>5. ASSUME NEW q \in Offsets, t <= q, q < p PROVE IsNoop(q)
      <4>1. l < q
        BY <1>6, <3>1, <3>4, <3>5
      <4> QED
        BY <3>2, <3>5, <4>1
    <3>6. Effective(t) = p
      BY <1>1, <1>5, <3>2, <3>4, <3>5, EffectiveIs
    <3> QED
      BY <1>7, <3>2, <3>3, <3>6
  <2> QED
    BY <2>2, <2>3
<1>9. CASE ~IsBranch(o)
  <2>1. instMap[o].kind = "plain" /\ t = o + 1
    BY <1>3, <1>4, <1>9 DEF IsBranch, BranchKinds, MachineSucc
  <2>2. o = l \/ IsNoop(l)
    BY <1>3, <1>6
  <2>3. ~IsBranch(l) /\ MachineSucc(l) = {l + 1}
    BY <2>1, <2>2 DEF IsBranch, BranchKinds, MachineSucc, IsNoop
  <2>4. ~(Effective(t) <= l)
    <3> SUFFICES ASSUME Effective(t) <= l PROVE FALSE
      OBVIOUS
    <3>1. o < Effective(t)
      BY <1>5, <1>6, <2>1
    <3> QED
      BY <1>3, <1>5, <3>1
  <2>5. l + 1 \in Offsets /\ t <= l + 1 /\ l + 1 <= Effective(t)
    BY <1>1, <1>3, <1>5, <1>6, <2>1, <2>4, StreamFacts
  <2>6. IsMCInst(l + 1)
    <3>1. CASE l + 1 = Effective(t)
      BY <1>5, <3>1
    <3>2. CASE l + 1 # Effective(t)
      <4>1. l + 1 < Effective(t)
        BY <1>6, <2>5, <3>2
      <4> QED
        BY <1>5, <2>5, <4>1, NoopIsInst
    <3> QED
      BY <3>1, <3>2
  <2>7. /\ InstToMBBNum(l + 1) \in BlockIndices /\ InstToMBBNum(l + 1) \in Range(succ[b])
        /\ blocks[InstToMBBNum(l + 1)].entry = l + 1
    BY <1>1, <2>3, <2>6, WayHasSucc DEF l
  <2>8. ~IsNoop(l + 1)
    BY <2>3, <2>7, StraightOn DEF l
  <2>9. l + 1 = Effective(t)
    <3> SUFFICES ASSUME l + 1 < Effective(t) PROVE FALSE
      BY <1>6, <2>5
    <3> QED
      BY <1>5, <2>5, <2>8
  <2>10. HasEdge(b, InstToMBBNum(l + 1))
    BY <1>2, <2>7 DEF EdgesKept
  <2> QED
    BY <1>7, <2>7, <2>8, <2>9, <2>10
<1> QED
  BY <1>8, <1>9

\* The sums of the first terms of a sequence of integers: the recursion has a solution.
LEMMA PrefixSums ==
  ASSUME NEW n \in Nat, NEW inc \in [0..(n - 1) -> Int]
  PROVE  \E f \in [0..n -> Int] :
           f = [i \in 0..n |-> IF i = 0 THEN 0 ELSE f[i - 1] + inc[i - 1]]
<1> DEFINE Step(f, k) == [i \in 0..k |-> IF i = 0 THEN 0 ELSE f[i - 1] + inc[i - 1]]
           Good(k) == \E f \in [0..k -> Int] : f = Step(f, k)
           bad == {k \in 0..n : ~Good(k)}
<1>1. SUFFICES ASSUME bad # {} PROVE FALSE
  <2>1. n \in 0..n
    OBVIOUS
  <2> QED
    BY <2>1
<1>2. bad \in SUBSET Nat
  OBVIOUS
<1> HIDE DEF bad
<1>3. Min(bad) \in bad /\ \A k \in bad : Min(bad) <= k
  BY <1>1, <1>2, LeastElement
<1>4. PICK m \in bad : \A k \in bad : m <= k
  BY <1>3
<1>5. m \in 0..n /\ ~Good(m) /\ \A k \in 0..n : ~Good(k) => m <= k
  BY <1>4 DEF bad
<1>6. CASE m = 0
  <2> DEFINE f == [i \in 0..m |-> 0]
  <2>1. f \in [0..m -> Int]
    OBVIOUS
  <2>2. Step(f, m) = f
    BY <1>6
  <2> QED
    BY <1>5, <2>1, <2>2
<1>7. CASE m # 0
  <2>1. m - 1 \in 0..n /\ ~(m <= m - 1) /\ m \in Nat
    BY <1>5, <1>7
  <2>2. Good(m - 1)
    BY <1>5, <2>1
  <2>3. PICK f \in [0..(m - 1) -> Int] : f = Step(f, m - 1)
    BY <2>2
  <2> DEFINE g == [i \in 0..m |-> IF i = m THEN f[m - 1] + inc[m - 1] ELSE f[i]]
  <2>4. /\ \A i \in 0..(m - 1) : f[i] = IF i = 0 THEN 0 ELSE f[i - 1] + inc[i - 1]
        /\ \A i \in 0..(m - 1) : f[i] \in Int
    BY <2>3
  <2>5. inc[m - 1] \in Int /\ f[m - 1] \in Int
    <3>1. m - 1 \in 0..(n - 1) /\ m - 1 \in 0..(m - 1)
      BY <1>5, <1>7
    <3> QED
      BY <2>4, <3>1
  <2>6. \A i \in 0..m : i = m \/ i \in 0..(m - 1)
    BY <2>1
  <2>7. g \in [0..m -> Int]
    BY <2>4, <2>5, <2>6
  <2>8. ASSUME NEW i \in 0..m PROVE g[i] = IF i = 0 THEN 0 ELSE g[i - 1] + inc[i - 1]
    <3>1. CASE i = m
      <4>1. m - 1 \in 0..m /\ m - 1 # m
        BY <1>7, <2>1
      <4>2. g[m - 1] = f[m - 1]
        BY <4>1
      <4> QED
        BY <1>7, <3>1, <4>2
    <3>2. CASE i # m
      <4>1. i \in 0..(m - 1) /\ (i # 0 => i - 1 \in 0..m /\ i - 1 # m)
        BY <2>1, <3>2
      <4>2. g[i] = f[i] /\ (i # 0 => g[i - 1] = f[i - 1])
        BY <3>2, <4>1
      <4> QED
        BY <2>4, <4>1, <4>2
    <3> QED
      BY <3>1, <3>2
  <2>9. g = Step(g, m)
    <3> HIDE DEF g
    <3>1. g = [i \in 0..m |-> g[i]]
      BY <2>7
    <3> QED
      BY <2>8, <3>1
  <2> QED
    BY <1>5, <2>7, <2>9
<1> QED
  BY <1>6, <1>7

\* When every byte was decoded, instructions are as long as they are.
LEMMA InstSize ==
  ASSUME InputKept, AllDecoded(instMap), NEW o \in Offsets
  PROVE  getMCInstSize(o) = 1 /\ EvaluatedTarget(o, getMCInstSize(o)) = instMap[o].target
<1> DEFINE later == {p \in EntryOffsets : p > o}
<1>1. EntryOffsets = Offsets
  BY DecodedFacts
<1>2. /\ o \in Nat /\ o < FuncEnd /\ FuncEnd \in Nat /\ instMap[o].target \in Int
      /\ \A p \in Offsets : p \in Nat /\ p < FuncEnd
  BY StreamFacts
<1>3. getMCInstSize(o) = 1
  <2>1. CASE later = {}
    <3>1. o + 1 \notin Offsets
      BY <1>1, <1>2, <2>1
    <3>2. FuncEnd - o = 1
      BY <1>2, <3>1, StreamFacts
    <3> QED
      BY <2>1, <3>2 DEF getMCInstSize
  <2>2. CASE later # {}
    <3>1. later \in SUBSET Nat
      BY <1>1, <1>2
    <3> HIDE DEF later
    <3>2. Min(later) \in later /\ \A y \in later : Min(later) <= y
      BY <2>2, <3>1, LeastElement
    <3>3. Min(later) \in Offsets /\ Min(later) > o /\ Min(later) < FuncEnd /\ Min(later) \in Nat
      BY <1>1, <1>2, <3>2 DEF later
    <3>4. o + 1 \in Offsets /\ o + 1 > o
      BY <1>2, <3>3, StreamFacts
    <3>5. o + 1 \in later
      BY <1>1, <3>4 DEF later
    <3>6. Min(later) - o = 1
      BY <1>2, <3>2, <3>3, <3>5
    <3> QED
      BY <2>2, <3>6 DEF getMCInstSize, later
  <2> QED
    BY <2>1, <2>2
<1>4. instMap[o].target + (1 - 1) = instMap[o].target
  BY <1>2
<1> QED
  BY <1>3, <1>4 DEF EvaluatedTarget

\* The instructions left of a block are no longer than the function.
LEMMA BytesLeftBound ==
  ASSUME CFGReady, BodyKept, NEW b \in BlockIndices
  PROVE  BytesLeft(b)[FuncEnd] \in Int /\ blocks[b].entry + BytesLeft(b)[FuncEnd] <= FuncEnd
<1> DEFINE size(k) == IF k \in body[b] THEN getMCInstSize(k) ELSE 0
           one(k) == IF k \in body[b] THEN 1 ELSE 0
           inc == [k \in 0..(FuncEnd - 1) |-> one(k)]
           coded(f) == [n \in 0..FuncEnd |-> IF n = 0 THEN 0 ELSE f[n - 1] + size(n - 1)]
           step(f) == [n \in 0..FuncEnd |-> IF n = 0 THEN 0 ELSE f[n - 1] + inc[n - 1]]
           u == BytesLeft(b)
           start == blocks[b].entry
<1>1. /\ CFGInv /\ Adjacent /\ InputKept /\ AllDecoded(instMap)
      /\ FuncEnd \in Nat /\ Offsets = 0..(FuncEnd - 1)
  BY ReadyFacts, StreamFacts DEF Offsets
<1>2. \A k \in Offsets : size(k) = one(k)
  BY <1>1, InstSize
<1>3. \A f : coded(f) = step(f)
  <2> SUFFICES ASSUME NEW f PROVE coded(f) = step(f)
    OBVIOUS
  <2>1. \A n \in 0..FuncEnd : n # 0 => size(n - 1) = inc[n - 1]
    <3>1. \A n \in 0..FuncEnd : n # 0 => n - 1 \in 0..(FuncEnd - 1)
      BY <1>1
    <3> HIDE DEF size, one
    <3> QED
      BY <1>1, <1>2, <3>1
  <2> HIDE DEF size, inc
  <2> QED
    BY <2>1
<1>4. u = CHOOSE f : f = coded(f)
  BY DEF BytesLeft
<1>5. inc \in [0..(FuncEnd - 1) -> Int]
  OBVIOUS
<1>6. \E f : f = step(f)
  <2> HIDE DEF inc
  <2> QED
    BY <1>1, <1>5, PrefixSums
<1> HIDE DEF u
<1>7. u = step(u)
  <2> HIDE DEF coded, step
  <2>1. \E f : f = coded(f)
    BY <1>3, <1>6
  <2>2. u = coded(u)
    BY <1>4, <2>1
  <2> QED
    BY <1>3, <2>2
<1>8. \A n \in 0..FuncEnd : u[n] = IF n = 0 THEN 0 ELSE u[n - 1] + one(n - 1)
  <2>1. \A n \in 0..FuncEnd : n # 0 => inc[n - 1] = one(n - 1)
    BY <1>1
  <2> HIDE DEF inc, one
  <2> QED
    BY <1>7, <2>1
<1>9. start \in Nat /\ start < FuncEnd /\ \A k \in body[b] : k \in Nat /\ start <= k
  <2>1. start \in Offsets /\ \A k \in body[b] : k \in Offsets /\ start <= k
    BY <1>1, BlockFacts, BodyFacts
  <2> QED
    BY <1>1, <2>1
<1> DEFINE Good(n) == u[n] \in Int /\ u[n] <= IF n <= start THEN 0 ELSE n - start
           bad == {n \in 0..FuncEnd : ~Good(n)}
<1>10. bad = {}
  <2> SUFFICES ASSUME bad # {} PROVE FALSE
    OBVIOUS
  <2>1. bad \in SUBSET Nat
    BY <1>1
  <2> HIDE DEF bad
  <2>2. Min(bad) \in bad /\ \A k \in bad : Min(bad) <= k
    BY <2>1, LeastElement
  <2>3. PICK m \in bad : \A k \in bad : m <= k
    BY <2>2
  <2>4. m \in 0..FuncEnd /\ ~Good(m) /\ \A k \in 0..FuncEnd : ~Good(k) => m <= k
    BY <2>3 DEF bad
  <2> HIDE DEF start
  <2>5. m # 0
    <3>1. m = 0 => u[m] = 0 /\ m <= start
      BY <1>8, <1>9, <2>4
    <3> QED
      BY <2>4, <3>1
  <2>6. m - 1 \in 0..FuncEnd /\ m \in Nat /\ ~(m <= m - 1)
    BY <1>1, <2>4, <2>5
  <2>7. Good(m - 1)
    <3> HIDE DEF Good
    <3> QED
      BY <2>4, <2>6
  <2>8. u[m] = u[m - 1] + one(m - 1)
    <3> HIDE DEF one
    <3> QED
      BY <1>8, <2>4, <2>5
  <2>9. one(m - 1) \in 0..1 /\ (m <= start => one(m - 1) = 0)
    BY <1>9, <2>6
  <2> HIDE DEF one
  <2>10. Good(m)
    BY <1>9, <2>6, <2>7, <2>8, <2>9
  <2> QED
    BY <2>4, <2>10
<1>11. Good(FuncEnd)
  <2>1. FuncEnd \in 0..FuncEnd
    BY <1>1
  <2> HIDE DEF Good
  <2> QED
    BY <1>10, <2>1
<1> HIDE DEF start
<1>12. u[FuncEnd] \in Int /\ start + u[FuncEnd] <= FuncEnd
  BY <1>1, <1>9, <1>11
<1> QED
  BY <1>12 DEF u, start

\* The block that a branch leads to.
LEMMA BranchTargetNumber ==
  ASSUME CFGReady, BodyKept, NEW b \in BlockIndices, ~Empty(b),
         instMap[TermInst(b)].kind \in {"jmp", "cond"}
  PROVE  LET o == TermInst(b)
             t == instMap[o].target
         IN  /\ t \in Offsets => /\ BranchTargetMBB(o) = InstToMBBNum(t)
                                 /\ InstToMBBNum(t) \in BlockIndices
                                 /\ blocks[InstToMBBNum(t)].entry = t
                                 /\ IsMCInst(t) /\ t \in Exits(b)
             /\ t \notin Offsets => BranchTargetMBB(o) = -1 /\ instMap[o].kind = "jmp"
             /\ -1 \notin BlockIndices
<1> DEFINE o == TermInst(b)
           t == instMap[o].target
<1>1. /\ CFGInv /\ Adjacent /\ InputKept /\ EdgeInv /\ Built /\ DataUnreached(instMap)
      /\ AllDecoded(instMap) /\ LaidOut(instMap)
  BY ReadyFacts
<1>2. o \in Offsets /\ o = LastInst(b) /\ t \in Int /\ instMap[o].kind \in {"jmp", "cond"}
  BY <1>1, TermFacts, StreamFacts DEF IsBranch, BranchKinds
<1>3. BranchTargetMBB(o) = getMBBNumberOfMCInstOffset(t)
  BY <1>1, <1>2, InstSize DEF BranchTargetMBB
<1>4. -1 \notin BlockIndices /\ 0 \notin BlockIndices
  BY DEF BlockIndices
<1> HIDE DEF o, t
<1>5. ASSUME t \in Offsets
      PROVE  /\ BranchTargetMBB(o) = InstToMBBNum(t) /\ InstToMBBNum(t) \in BlockIndices
             /\ blocks[InstToMBBNum(t)].entry = t /\ IsMCInst(t) /\ t \in Exits(b)
  <2>1. instMap[t] \in Entries /\ instMap[t].kind # "gap" /\ instMap[t].kind # "data"
    BY <1>1, <1>2, <1>5, StreamFacts DEF LaidOut, t
  <2>2. IsMCInst(t)
    BY <1>5, <2>1 DEF IsMCInst, Entries
  <2>3. t \in MachineSucc(o)
    BY <1>2 DEF MachineSucc, t
  <2>4. InstToMBBNum(t) \in BlockIndices /\ blocks[InstToMBBNum(t)].entry = t
    BY <1>1, <1>2, <2>2, <2>3, WayHasSucc
  <2>5. 0 <= t /\ t <= FuncEnd
    BY <1>1, <1>2, <1>5, StreamFacts
  <2>6. getMBBNumberOfMCInstOffset(t) = InstToMBBNum(t)
    BY <1>4, <2>4, <2>5 DEF getMBBNumberOfMCInstOffset
  <2> QED
    BY <1>3, <2>2, <2>3, <2>4, <2>6 DEF Exits, o
<1>6. ASSUME t \notin Offsets PROVE BranchTargetMBB(o) = -1 /\ instMap[o].kind = "jmp"
  <2>1. instMap[o].kind = "jmp"
    BY <1>1, <1>2, <1>6 DEF DataUnreached, t
  <2>2. InstToMBBNum(t) = 0
    <3> SUFFICES ASSUME InstToMBBNum(t) # 0 PROVE FALSE
      OBVIOUS
    <3>1. InstToMBBNum(t) \in BlockIndices /\ blocks[InstToMBBNum(t)].entry = t
      BY <1>1, BlockOfEntry
    <3> QED
      BY <1>1, <1>6, <3>1, BlockFacts
  <2> DEFINE inside == {c \in BlockIndices :
                          /\ blocks[c].entry <= t
                          /\ t < blocks[c].entry + BytesLeft(c)[FuncEnd]}
  <2>3. 0 <= t /\ t <= FuncEnd => inside = {}
    <3> SUFFICES ASSUME 0 <= t, t <= FuncEnd, NEW c \in BlockIndices,
                        t < blocks[c].entry + BytesLeft(c)[FuncEnd]
                 PROVE  FALSE
      OBVIOUS
    <3>1. t = FuncEnd
      BY <1>1, <1>2, <1>6, StreamFacts
    <3>2. blocks[c].entry \in Int /\ BytesLeft(c)[FuncEnd] \in Int
          /\ blocks[c].entry + BytesLeft(c)[FuncEnd] <= FuncEnd
      BY <1>1, BlockFacts, BytesLeftBound, StreamFacts
    <3> QED
      BY <1>1, <3>1, <3>2, StreamFacts
  <2> HIDE DEF inside
  <2>4. getMBBNumberOfMCInstOffset(t) = -1
    BY <2>2, <2>3 DEF getMBBNumberOfMCInstOffset, inside
  <2> QED
    BY <1>3, <2>1, <2>4
<1> QED
  BY <1>4, <1>5, <1>6 DEF o, t

\* Where a conditional branch falls through to.
LEMMA FallsThrough ==
  ASSUME CFGReady, NoopsApart, BodyKept, FlowEdges, stage # "unlink",
         NEW b \in BlockIndices, ~Empty(b), instMap[TermInst(b)].kind = "cond"
  PROVE  LET o == TermInst(b)
         IN  /\ Goes(o + 1) /\ o + 1 \in Exits(b)
             /\ FallThroughMBB(o) = InstToMBBNum(Effective(o + 1))
<1> DEFINE o == TermInst(b)
<1>1. /\ CFGInv /\ Adjacent /\ InputKept /\ EdgeInv /\ Built /\ DataUnreached(instMap)
      /\ AllDecoded(instMap)
  BY ReadyFacts
<1>2. o \in Offsets /\ o = LastInst(b) /\ o \in Nat /\ instMap[o].kind = "cond" /\ o < FuncEnd
      /\ FuncEnd \in Nat
  BY <1>1, TermFacts, StreamFacts DEF IsBranch, BranchKinds
<1>3. o + 1 \in Exits(b)
  BY <1>2 DEF Exits, MachineSucc
<1>4. o + 1 \in Offsets
  <2>1. o # FuncEnd - 1
    <3>1. blocks # <<>>
      BY DEF BlockIndices
    <3> QED
      BY <1>1, <1>2, <3>1 DEF EdgeInv, NoCondEnd, Built, IsConditionalBranch
  <2> QED
    BY <1>1, <1>2, <2>1, StreamFacts
<1> HIDE DEF o
<1>5. IsMCInst(o + 1)
  <2>1. PICK q \in Offsets \ {0} : q = o + 1 /\ q - 1 = o
    BY <1>2, <1>4
  <2>2. instMap[q].kind # "data"
    <3>1. instMap[q].kind = "data" => instMap[q - 1].kind # "cond"
      BY <1>1, <2>1 DEF DataUnreached
    <3> QED
      BY <1>2, <2>1, <3>1
  <2>3. instMap[q] \in Entries /\ instMap[q].kind # "gap"
    BY <1>1, <2>1, StreamFacts DEF AllDecoded
  <2> QED
    BY <2>1, <2>2, <2>3 DEF IsMCInst, Entries
<1>6. Goes(o + 1)
  <2>1. CASE ~IsNoop(o + 1)
    <3>1. o + 1 <= o + 1
      BY <1>2
    <3>2. ASSUME NEW q \in Offsets, o + 1 <= q, q < o + 1 PROVE IsNoop(q)
      <4>1. q \in Nat
        BY <1>1, StreamFacts
      <4> QED
        BY <1>2, <3>2, <4>1
    <3> QED
      BY <1>1, <1>4, <1>5, <2>1, <3>1, <3>2, EffectiveIs
  <2>2. CASE IsNoop(o + 1)
    <3>1. PICK e \in BlockIndices, p \in Offsets :
           /\ LastInst(b) < p /\ IsMCInst(p) /\ ~IsNoop(p)
           /\ \A q \in Offsets : LastInst(b) < q /\ q < p => IsNoop(q)
      BY <1>2, <1>4, <2>2, NoopsBetween DEF IsConditionalBranch
    <3>2. p \in Nat /\ o + 1 <= p
      BY <1>1, <1>2, <3>1, StreamFacts
    <3>3. ASSUME NEW q \in Offsets, o + 1 <= q, q < p PROVE IsNoop(q)
      <4>1. q \in Nat
        BY <1>1, StreamFacts
      <4>2. LastInst(b) < q
        BY <1>2, <3>3, <4>1
      <4> QED
        BY <3>1, <3>3, <4>2
    <3> QED
      BY <1>1, <1>4, <1>5, <3>1, <3>2, <3>3, EffectiveIs
  <2> QED
    BY <2>1, <2>2
<1>7. NextOf(b, o + 1)
  BY <1>3, <1>6, NextBlock
<1>8. FallThroughMBB(o) = InstToMBBNum(Effective(o + 1))
  <2> DEFINE T == {p \in EntryOffsets : p >= o + 1 /\ ~IsNoop(p)}
             u == Effective(o + 1)
  <2>1. NonNoopAfter(o) = T
    <3>1. \A p \in EntryOffsets : p \in Nat
      BY <1>1, DecodedFacts, StreamFacts
    <3>2. \A p \in EntryOffsets : p > o <=> p >= o + 1
      BY <1>2, <3>1
    <3> QED
      BY <3>2 DEF NonNoopAfter
  <2>2. T # {} /\ u = Min(T)
    BY <1>6 DEF Goes, Effective
  <2> HIDE DEF T, u
  <2>3. FallThroughMBB(o) = getMBBNumberOfMCInstOffset(u)
    BY <2>1, <2>2 DEF FallThroughMBB
  <2>4. u \in Offsets /\ InstToMBBNum(u) # 0
    <3>1. u \in Offsets
      BY <1>1, <1>6, GoesFacts DEF u
    <3> QED
      BY <1>7, <3>1 DEF NextOf, BlockIndices, u
  <2>5. 0 <= u /\ u <= FuncEnd
    BY <1>1, <2>4, StreamFacts
  <2>6. getMBBNumberOfMCInstOffset(u) = InstToMBBNum(u)
    BY <2>4, <2>5 DEF getMBBNumberOfMCInstOffset
  <2> QED
    BY <2>3, <2>6 DEF u
<1> QED
  BY <1>3, <1>6, <1>8 DEF o

\* An edge of a block that ends without a branch leads to what the machine comes to next.
LEMMA StraightEdge ==
  ASSUME CFGReady, NoopsApart, BodyKept, FlowEdges, NEW b \in BlockIndices, ~Empty(b),
         instMap[TermInst(b)].kind = "plain", NEW e \in edges, e.from = b
  PROVE  /\ e.to \in BlockIndices /\ ~Empty(e.to)
         /\ \E t \in Exits(b) : Goes(t) /\ Min(body[e.to]) = Effective(t)
<1> DEFINE o == TermInst(b)
           l == LastInst(b)
           t == o + 1
           u == l + 1
<1>1. /\ CFGInv /\ Adjacent /\ InputKept /\ AllDecoded(instMap)
  BY ReadyFacts
<1>2. /\ o \in Offsets /\ l \in Offsets /\ o <= l
      /\ \A x \in Offsets : o < x /\ x <= l => IsNoop(x)
  BY TermFacts
<1>3. ~IsBranch(o) /\ t \in MachineSucc(o)
  BY DEF IsBranch, BranchKinds, MachineSucc
<1> HIDE DEF o, l
<1>4. o \in Nat /\ l \in Nat /\ o <= l
  BY <1>1, <1>2, StreamFacts
<1>5. ~IsBranch(l)
  <2>1. IsBranch(l) => o = l
    BY TermFacts DEF o, l
  <2> QED
    BY <1>3, <2>1
<1>6. e.to \in Range(succ[b])
  <2>1. ~IsConditionalBranch(l)
    BY <1>5 DEF IsBranch, IsConditionalBranch, BranchKinds
  <2> QED
    BY <2>1 DEF FlowEdges, EdgesFrom, l
<1>7. /\ e.to \in BlockIndices /\ blocks[e.to].entry = u /\ ~IsNoop(u) /\ ~Empty(e.to)
      /\ Min(body[e.to]) = u
  BY <1>5, <1>6, AfterStraight DEF l
<1>8. u \in Offsets /\ IsMCInst(u)
  BY <1>1, <1>7, BlockFacts
<1>9. t \in Offsets /\ t <= u /\ \A q \in Offsets : q \in Nat
  <2>1. \A q \in Offsets : q \in Nat
    BY <1>1, StreamFacts
  <2>2. t <= u /\ t \in Nat
    BY <1>4
  <2>3. u < FuncEnd /\ FuncEnd \in Nat
    BY <1>1, <1>8, StreamFacts
  <2>4. 0 <= t /\ t < FuncEnd
    BY <1>4, <2>2, <2>3
  <2> QED
    BY <1>1, <2>1, <2>2, <2>4, StreamFacts
<1>10. ASSUME NEW q \in Offsets, t <= q, q < u PROVE IsNoop(q)
  <2>1. o < q /\ q <= l
    BY <1>4, <1>9, <1>10
  <2> QED
    BY <1>2, <2>1
<1>11. IsMCInst(t)
  <2>1. CASE o = l
    BY <1>8, <2>1
  <2>2. CASE o # l
    <3>1. t < u
      <4>1. o < l
        BY <1>4, <2>2
      <4> QED
        BY <1>4, <4>1
    <3> QED
      BY <1>9, <1>10, <3>1, NoopIsInst
  <2> QED
    BY <2>1, <2>2
<1>12. Effective(t) = u /\ Goes(t)
  BY <1>1, <1>7, <1>8, <1>9, <1>10, <1>11, EffectiveIs
<1>13. t \in Exits(b)
  BY <1>3 DEF Exits, o
<1> QED
  BY <1>7, <1>12, <1>13

-----------------------------------------------------------------------------
(* The inductive invariant. *)

CFGFound ==
  /\ EdgeInv /\ EntriesLeaders /\ LaidOut(instMap)
  /\ stage # "cfg" => Built /\ BodyKept /\ FlowEdges /\ cur \in Nat /\ cur >= 1
                      /\ ~HasIndirectBranch

InWalk == stage \in {"walk", "branches", "raised", "aborted"}

\* The blocks that are walked are closed under the edges.
WalkClosed ==
  InWalk => /\ bbs \subseteq BlockIndices
            /\ 1 \in BlockIndices => 1 \in bbs
            /\ \A e \in edges : e.from \in bbs => e.to \in bbs

\* The records are of blocks that end with a branch within the function.
Recordable(b) ==
  /\ b \in bbs /\ ~Empty(b)
  /\ instMap[TermInst(b)].kind \in {"jmp", "cond"} /\ instMap[TermInst(b)].target \in Offsets
RecordsOK == InWalk => \A b \in records : Recordable(b)

\* What a block is given by the steps that have dealt with it.
Seen(b) == stage # "walk" \/ b < cur
Passed(b) == stage = "raised" \/ (stage = "branches" /\ b < cur)

Targets(o) == IF IsConditionalBranch(o) THEN <<BranchTargetMBB(o), FallThroughMBB(o)>>
              ELSE <<BranchTargetMBB(o)>>

ExitKnown(b) ==
  LET o == TermInst(b)
      succs == SuccsOf(edges, b)
  IN  /\ instMap[o].kind = "ret" => exits[b] = Leave("ret")
      /\ instMap[o].kind \in {"jmp", "cond"} /\ instMap[o].target \notin Offsets
           => exits[b] = Leave("call")
      /\ Recordable(b) /\ b \notin records => exits[b] = Br(Targets(o))
      /\ instMap[o].kind = "plain" =>
           exits[b] = IF Passed(b) /\ succs # {} THEN Br(<<First(succs).to>>) ELSE Unterminated

ExitsKnown ==
  stage \in {"walk", "branches", "raised"} =>
    /\ DOMAIN exits = BlockIndices
    /\ \A b \in BlockIndices : IF Seen(b) THEN b \in bbs /\ ~Empty(b) => ExitKnown(b)
                               ELSE exits[b] = Unterminated /\ b \notin records

AllDone == stage \in {"cfg", "unlink", "raised"} => records = {}

RaiserInv ==
  CFGFound /\ WalkClosed /\ RecordsOK /\ ExitsKnown /\ AllDone /\ AbortsOnlyOnDeadCode

-----------------------------------------------------------------------------
(* The steps. *)

\* What the steps after the clean-up leave alone.
LEMMA FlowKept ==
  ASSUME UNCHANGED <<cfgVars, body, edges>>
  PROVE  /\ UNCHANGED <<instMap, targetIndices, pc, blocks, succ>> /\ BlockIndices' = BlockIndices
         /\ NoopsApart' = NoopsApart
         /\ \A b : /\ Empty(b)' = Empty(b) /\ TermInst(b)' = TermInst(b)
                   /\ SuccsOf(edges, b)' = SuccsOf(edges, b)
         /\ \A o : Targets(o)' = Targets(o)
         /\ BodyKept' = BodyKept /\ HasIndirectBranch' = HasIndirectBranch
<1>1. /\ UNCHANGED <<instMap, targetIndices, pc, blocks, succ>> /\ BlockIndices' = BlockIndices
      /\ \A o : /\ IsNoop(o)' = IsNoop(o)
                /\ IsConditionalBranch(o)' = IsConditionalBranch(o)
      /\ NoopsApart' = NoopsApart
  BY CFGKept
<1>2. \A b : /\ Empty(b)' = Empty(b) /\ TermInst(b)' = TermInst(b)
             /\ SuccsOf(edges, b)' = SuccsOf(edges, b)
  BY DEF Empty, TermInst, SuccsOf
<1>3. EntryOffsets' = EntryOffsets
  BY <1>1 DEF EntryOffsets, IsEntry
<1>4. \A o : getMCInstSize(o)' = getMCInstSize(o)
  BY <1>3 DEF getMCInstSize
<1>5. \A t : InstToMBBNum(t)' = InstToMBBNum(t)
  BY <1>1 DEF InstToMBBNum
<1>6. \A b : BytesLeft(b)' = BytesLeft(b)
  BY <1>4 DEF BytesLeft
<1>7. \A t : getMBBNumberOfMCInstOffset(t)' = getMBBNumberOfMCInstOffset(t)
  BY <1>1, <1>5, <1>6 DEF getMBBNumberOfMCInstOffset
<1>8. \A o : NonNoopAfter(o)' = NonNoopAfter(o)
  BY <1>1, <1>3 DEF NonNoopAfter
<1>9. \A o : Targets(o)' = Targets(o)
  BY <1>1, <1>4, <1>7, <1>8
  DEF Targets, BranchTargetMBB, FallThroughMBB, EvaluatedTarget
<1>10. BodyKept' = BodyKept
  BY <1>1 DEF BodyKept
<1>11. HasIndirectBranch' = HasIndirectBranch
  BY <1>1 DEF HasIndirectBranch
<1> QED
  BY <1>1, <1>2, <1>9, <1>10, <1>11

\* The entries of the blocks are leaders.
LEMMA BuildCFGKeepsLeaders ==
  ASSUME EdgeInv, EntriesLeaders, BuildCFG PROVE EntriesLeaders'
<1>1. blocks \in Seq(Blocks) /\ \A b \in BlockIndices : blocks[b] \in Blocks
  BY DEF EdgeInv, CFGInv, BlocksTyped, BlockIndices
<1>2. ASSUME NEW o \in Offsets, StartBlock(o) PROVE EntriesLeaders'
  <2> DEFINE new == [entry |-> o, insts |-> <<o>>]
  <2>1. /\ blocks' = Append(blocks, new) /\ o \in targetIndices
        /\ targetIndices' = targetIndices /\ Len(blocks) \in Nat
    BY <1>1, <1>2 DEF StartBlock
  <2>2. new \in Blocks /\ new.entry = o
    BY DEF Blocks
  <2> HIDE DEF new
  <2>3. /\ Len(blocks') = Len(blocks) + 1 /\ blocks'[Len(blocks) + 1] = new
        /\ \A b \in 1..Len(blocks) : blocks'[b] = blocks[b]
    BY <1>1, <2>1, <2>2, AppendProperties
  <2>4. \A b \in 1..(Len(blocks) + 1) : b \in 1..Len(blocks) \/ b = Len(blocks) + 1
    BY <2>1
  <2> QED
    BY <2>1, <2>2, <2>3, <2>4 DEF EntriesLeaders, BlockIndices
<1>3. ASSUME NEW o \in Offsets, ContinueBlock(o) PROVE EntriesLeaders'
  <2>1. CASE blocks = <<>>
    BY <1>3, <2>1 DEF ContinueBlock, EntriesLeaders, BlockIndices
  <2>2. CASE blocks # <<>>
    <3>1. /\ blocks' = [blocks EXCEPT ![Len(blocks)].insts = Append(@, o)]
          /\ targetIndices' = targetIndices
      BY <1>3, <2>2 DEF ContinueBlock
    <3>2. /\ Len(blocks') = Len(blocks)
          /\ \A b \in 1..Len(blocks) : blocks'[b].entry = blocks[b].entry
      BY <1>1, <3>1 DEF Blocks
    <3> QED
      BY <3>1, <3>2 DEF EntriesLeaders, BlockIndices
  <2> QED
    BY <2>1, <2>2
<1>4. ASSUME UNCHANGED <<blocks, targetIndices>> PROVE EntriesLeaders'
  BY <1>4 DEF EntriesLeaders, BlockIndices
<1>5. CASE \E o \in Offsets : SkipData(o)
  BY <1>4, <1>5 DEF SkipData
<1>6. CASE LastMBB
  BY <1>4, <1>6 DEF LastMBB
<1>7. CASE NextMBBEdges
  BY <1>4, <1>7 DEF NextMBBEdges
<1> QED
  BY <1>2, <1>3, <1>5, <1>6, <1>7 DEF BuildCFG

\* The invariant holds at first.
LEMMA InitRaiserInv == ASSUME RaiserInit, \A s \in Streams : LaidOut(s) PROVE RaiserInv
<1>1. Init /\ stage = "cfg" /\ records = {}
  BY DEF RaiserInit
<1>2. instMap \in Streams /\ blocks = <<>>
  BY <1>1 DEF Init
<1>3. EdgeInv
  BY <1>1, LaidOutFacts, InitEdgeInv
<1>4. EntriesLeaders
  BY <1>2 DEF EntriesLeaders, BlockIndices
<1> QED
  BY <1>1, <1>2, <1>3, <1>4
  DEF RaiserInv, CFGFound, WalkClosed, InWalk, RecordsOK, ExitsKnown, AllDone,
      AbortsOnlyOnDeadCode

\* buildCFG: the invariant is about its blocks and edges only.
LEMMA BuildStep ==
  ASSUME RaiserInv, pc # "built", BuildCFG, UNCHANGED branchVars PROVE RaiserInv'
<1>1. /\ stage = "cfg" /\ stage' = "cfg" /\ EdgeInv /\ EntriesLeaders /\ LaidOut(instMap)
      /\ records' = {}
  BY DEF RaiserInv, CFGFound, Built, branchVars, AllDone
<1>2. EdgeInv'
  BY <1>1, BuildCFGKeepsEdgeInv
<1>3. EntriesLeaders'
  BY <1>1, BuildCFGKeepsLeaders
<1>4. instMap' = instMap
  BY DEF BuildCFG, StartBlock, ContinueBlock, SkipData, LastMBB, NextMBBEdges
<1>5. LaidOut(instMap)'
  BY <1>1, <1>4 DEF LaidOut, RecordedTargets, SymbolStarts
<1> QED
  BY <1>1, <1>2, <1>3, <1>5
  DEF RaiserInv, CFGFound, WalkClosed, InWalk, RecordsOK, ExitsKnown, AllDone,
      AbortsOnlyOnDeadCode

\* The clean-up: the noops, ...
LEMMA DeleteNOOPsStep == ASSUME RaiserInv, DeleteNOOPs PROVE RaiserInv'
<1>1. /\ stage' = "unlink" /\ cur' = 1 /\ records' = records /\ UNCHANGED cfgVars
      /\ ~HasIndirectBranch /\ CFGReady /\ stage = "cfg"
  BY DEF DeleteNOOPs, RaiserInv, CFGFound, CFGReady, Built
<1>2. BodyKept' /\ FlowEdges'
  BY <1>1, DeleteNOOPsEdges
<1>3. CFGReady'
  BY <1>1, CFGKept
<1>4. HasIndirectBranch' = HasIndirectBranch
  BY <1>1, CFGKept DEF HasIndirectBranch
<1>5. records' = {}
  BY <1>1 DEF RaiserInv, AllDone
<1> QED
  BY <1>1, <1>2, <1>3, <1>4, <1>5
  DEF RaiserInv, CFGFound, CFGReady, WalkClosed, InWalk, RecordsOK, ExitsKnown, AllDone,
      AbortsOnlyOnDeadCode

\* ... and the edges of the blocks that are empty without them.
LEMMA UnlinkMBBStep == ASSUME RaiserInv, UnlinkMBB PROVE RaiserInv'
<1>1. /\ stage' = "unlink" /\ cur' = cur + 1 /\ records' = records /\ UNCHANGED <<cfgVars, body>>
      /\ ~HasIndirectBranch /\ CFGReady /\ stage = "unlink" /\ cur \in Nat /\ cur >= 1
      /\ BodyKept /\ FlowEdges
  BY DEF UnlinkMBB, RaiserInv, CFGFound, CFGReady
<1>2. FlowEdges'
  BY <1>1, UnlinkMBBEdges
<1>3. CFGReady' /\ UNCHANGED <<instMap, blocks>> /\ BlockIndices' = BlockIndices
      /\ \A o : IsNoop(o)' = IsNoop(o)
  BY <1>1, CFGKept
<1>4. HasIndirectBranch' = HasIndirectBranch /\ BodyKept'
  BY <1>1, <1>3 DEF HasIndirectBranch, BodyKept
<1>5. records' = {} /\ cur' \in Nat /\ cur' >= 1
  BY <1>1 DEF RaiserInv, AllDone
<1> QED
  BY <1>1, <1>2, <1>3, <1>4, <1>5
  DEF RaiserInv, CFGFound, CFGReady, WalkClosed, InWalk, RecordsOK, ExitsKnown, AllDone,
      AbortsOnlyOnDeadCode

\* From the walk on, the CFG stays as it is.
LEMMA FoundKept ==
  ASSUME RaiserInv, stage # "cfg", stage' # "cfg", UNCHANGED <<cfgVars, body, edges>>,
         cur' \in Nat, cur' >= 1, \A b \in BlockIndices : Linked(b)' <=> Linked(b)
  PROVE  CFGFound'
<1>1. /\ ~HasIndirectBranch /\ CFGReady /\ BodyKept /\ FlowEdges
  BY DEF RaiserInv, CFGFound, CFGReady
<1>2. FlowEdges'
  BY <1>1, FlowEdgesKept
<1>3. CFGReady'
  BY <1>1, CFGKept
<1> QED
  BY <1>1, <1>2, <1>3, FlowKept DEF CFGFound, CFGReady

\* The walk: it visits a set of blocks that is closed under the edges.
LEMMA StartWalkStep == ASSUME RaiserInv, StartWalk PROVE RaiserInv'
<1>1. /\ stage = "unlink" /\ cur > Len(blocks) /\ stage' = "walk" /\ cur' = 1
      /\ bbs' = ReachableFrom(edges, 1) /\ exits' = [b \in BlockIndices |-> Unterminated]
      /\ UNCHANGED <<cfgVars, body, edges, records>>
  BY DEF StartWalk
<1>2. BlockIndices' = BlockIndices /\ \A b : Empty(b)' = Empty(b)
  BY <1>1, FlowKept
<1>3. CFGReady /\ cur \in Nat /\ EdgesTyped /\ Len(blocks) \in Nat
  BY <1>1 DEF RaiserInv, CFGFound, CFGReady, FlowEdges, EdgeInv, CFGInv, BlocksTyped
<1>4. \A b \in BlockIndices : b \in Nat /\ ~(b >= cur) /\ ~(b < 1)
  BY <1>1, <1>3 DEF BlockIndices
<1>5. \A b \in BlockIndices : Linked(b)' <=> Linked(b)
  BY <1>1, <1>2, <1>4 DEF Linked
<1>6. CFGFound'
  BY <1>1, <1>5, FoundKept
<1>7. WalkClosed'
  <2>1. bbs' \subseteq BlockIndices /\ (1 \in BlockIndices => 1 \in bbs')
    BY <1>1 DEF ReachableFrom
  <2>2. ASSUME NEW e \in edges, e.from \in bbs' PROVE e.to \in bbs'
    <3>1. e.to \in BlockIndices
      BY <1>3 DEF EdgesTyped
    <3>2. ASSUME NEW S \in SUBSET BlockIndices, 1 \in S,
                 \A f \in edges : f.from \in S => f.to \in S
          PROVE  e.to \in S
      BY <1>1, <2>2, <3>2 DEF ReachableFrom
    <3> QED
      BY <1>1, <3>1, <3>2 DEF ReachableFrom
  <2> QED
    BY <1>1, <1>2, <2>1, <2>2 DEF WalkClosed
<1>8. records' = {}
  BY <1>1 DEF RaiserInv, AllDone
<1>9. ExitsKnown'
  <2>1. \A b \in BlockIndices : ~Seen(b)'
    BY <1>1, <1>4 DEF Seen
  <2> QED
    BY <1>1, <1>2, <1>8, <2>1 DEF ExitsKnown
<1> QED
  BY <1>1, <1>6, <1>7, <1>8, <1>9 DEF RaiserInv, RecordsOK, AllDone, AbortsOnlyOnDeadCode

\* What every later step has in common.
LEMMA LateStep ==
  ASSUME RaiserInv, stage \in {"walk", "branches"},
         stage' \in {"walk", "branches", "raised", "aborted"},
         UNCHANGED <<cfgVars, body, edges, bbs>>, cur' \in {1, cur, cur + 1}
  PROVE  /\ CFGFound' /\ WalkClosed' /\ CFGReady /\ BodyKept /\ FlowEdges
         /\ cur \in Nat /\ cur >= 1 /\ DOMAIN exits = BlockIndices /\ bbs \subseteq BlockIndices
         /\ \A b \in BlockIndices : b \in Nat /\ b <= Len(blocks) /\ Len(blocks) \in Nat
<1>1. /\ CFGReady /\ cur \in Nat /\ cur >= 1 /\ BodyKept /\ FlowEdges
      /\ DOMAIN exits = BlockIndices
  BY DEF RaiserInv, CFGFound, CFGReady, ExitsKnown
<1>2. cur' \in Nat /\ cur' >= 1
  BY <1>1
<1>3. \A b \in BlockIndices : Linked(b)' <=> Linked(b)
  BY FlowKept DEF Linked
<1>4. CFGFound'
  BY <1>2, <1>3, FoundKept
<1>5. WalkClosed' /\ bbs \subseteq BlockIndices
  BY FlowKept DEF RaiserInv, WalkClosed, InWalk
<1>6. Len(blocks) \in Nat
  BY <1>1 DEF CFGReady, EdgeInv, CFGInv, BlocksTyped
<1> QED
  BY <1>1, <1>4, <1>5, <1>6 DEF BlockIndices

\* Whether a branch is to be recorded stays as it is, ...
LEMMA RecordableKept ==
  ASSUME UNCHANGED <<cfgVars, body, edges, bbs>>
  PROVE  \A b : Recordable(b)' <=> Recordable(b)
BY FlowKept DEF Recordable

\* ... and so does the exit of a block that a step does not deal with.
LEMMA ExitKept ==
  ASSUME UNCHANGED <<cfgVars, body, edges, bbs>>, NEW b, exits'[b] = exits[b],
         b \in records' <=> b \in records, Passed(b)' <=> Passed(b), ExitKnown(b)
  PROVE  ExitKnown(b)'
<1>1. /\ instMap' = instMap /\ TermInst(b)' = TermInst(b)
      /\ SuccsOf(edges, b)' = SuccsOf(edges, b) /\ Targets(TermInst(b))' = Targets(TermInst(b))
  BY FlowKept
<1>2. Recordable(b)' <=> Recordable(b)
  BY RecordableKept
<1> QED
  BY <1>1, <1>2 DEF ExitKnown

\* A step of the walk deals with the block that is next, and with no other.
LEMMA WalkStep ==
  ASSUME RaiserInv, stage = "walk", stage' = "walk", cur' = cur + 1,
         NEW c \in BlockIndices, c = cur,
         UNCHANGED <<cfgVars, body, edges, bbs>>, DOMAIN exits' = BlockIndices,
         \A b \in BlockIndices : b # c => exits'[b] = exits[b],
         records' \in {records, records \cup {c}},
         c \in records' => Recordable(c),
         c \in bbs /\ ~Empty(c) => ExitKnown(c)'
  PROVE  RaiserInv'
<1>1. /\ CFGFound' /\ WalkClosed' /\ cur \in Nat
      /\ \A b \in BlockIndices : b \in Nat
  BY LateStep
<1>2. BlockIndices' = BlockIndices /\ bbs' = bbs /\ \A b : Empty(b)' = Empty(b)
  BY FlowKept
<1>3. RecordsOK'
  <2>1. \A b \in records' : Recordable(b)
    BY DEF RaiserInv, RecordsOK, InWalk
  <2> QED
    BY <2>1, RecordableKept DEF RecordsOK
<1>4. ASSUME NEW b \in BlockIndices
      PROVE  IF Seen(b)' THEN b \in bbs /\ ~Empty(b) => ExitKnown(b)'
                         ELSE exits'[b] = Unterminated /\ b \notin records'
  <2>1. CASE b = c
    <3>1. Seen(b)'
      BY <1>1, <2>1 DEF Seen
    <3> QED
      BY <2>1, <3>1
  <2>2. CASE b # c
    <3>1. /\ IF Seen(b) THEN b \in bbs /\ ~Empty(b) => ExitKnown(b)
                        ELSE exits[b] = Unterminated /\ b \notin records
      BY DEF RaiserInv, ExitsKnown
    <3>2. Seen(b)' <=> Seen(b)
      BY <1>1, <2>2 DEF Seen
    <3>3. (Passed(b)' <=> Passed(b)) /\ (b \in records' <=> b \in records)
          /\ exits'[b] = exits[b]
      BY <2>2 DEF Passed
    <3>4. ExitKnown(b) => ExitKnown(b)'
      BY <3>3, ExitKept
    <3> QED
      BY <3>1, <3>2, <3>3, <3>4
  <2> QED
    BY <2>1, <2>2
<1>5. ExitsKnown'
  BY <1>2, <1>4 DEF ExitsKnown
<1> QED
  BY <1>1, <1>3, <1>5 DEF RaiserInv, AllDone, AbortsOnlyOnDeadCode

\* The block that a step of the walk is about, and what its exit is to be.
LEMMA WalkNow ==
  ASSUME RaiserInv, stage = "walk", cur \in bbs
  PROVE  /\ cur \in BlockIndices /\ CFGReady /\ BodyKept /\ DOMAIN exits = BlockIndices
         /\ cur \notin records /\ exits[cur] = Unterminated
<1>2. /\ CFGReady /\ BodyKept /\ cur \in Nat /\ DOMAIN exits = BlockIndices
      /\ bbs \subseteq BlockIndices
  BY DEF RaiserInv, CFGFound, CFGReady, ExitsKnown, WalkClosed, InWalk
<1>3. cur \in BlockIndices
  BY <1>2
<1>4. ~Seen(cur)
  BY <1>2 DEF Seen
<1>5. cur \notin records /\ exits[cur] = Unterminated
  BY <1>3, <1>4 DEF RaiserInv, ExitsKnown
<1>6. cur \in BlockIndices /\ CFGReady /\ BodyKept /\ DOMAIN exits = BlockIndices
  BY <1>2, <1>3
<1> QED
  BY <1>5, <1>6

\* What a step of the walk leaves alone.
LEMMA WalkKept ==
  ASSUME UNCHANGED <<cfgVars, body, edges, bbs>>, NEW c
  PROVE  /\ instMap' = instMap /\ TermInst(c)' = TermInst(c)
         /\ Recordable(c)' <=> Recordable(c)
<1>1. UNCHANGED <<cfgVars, body, edges>>
  OBVIOUS
<1>2. instMap' = instMap /\ TermInst(c)' = TermInst(c)
  BY <1>1, FlowKept
<1>3. Recordable(c)' <=> Recordable(c)
  BY RecordableKept
<1> QED
  BY <1>2, <1>3

\* A block that returns.
LEMMA RaiseReturnStep == ASSUME RaiserInv, RaiseReturn PROVE RaiserInv'
<1> PICK c : c = cur
  OBVIOUS
<1>1. /\ WalkMBB({"ret"}) /\ exits' = [exits EXCEPT ![c] = Leave("ret")]
      /\ stage' = stage /\ records' = records
  BY DEF RaiseReturn
<1>2. /\ stage = "walk" /\ cur' = cur + 1 /\ c \in BlockIndices /\ c \notin records
      /\ UNCHANGED <<cfgVars, body, edges, bbs>> /\ DOMAIN exits = BlockIndices
      /\ instMap'[TermInst(c)'].kind = "ret" /\ ~Recordable(c)'
  BY <1>1, WalkNow, WalkKept DEF WalkMBB, Recordable
<1>3. exits'[c] = Leave("ret") /\ DOMAIN exits' = BlockIndices
      /\ \A b \in BlockIndices : b # c => exits'[b] = exits[b]
  BY <1>1, <1>2
<1>4. ExitKnown(c)'
  BY <1>1, <1>2, <1>3 DEF ExitKnown, Leave
<1> QED
  BY <1>1, <1>2, <1>3, <1>4, WalkStep

\* A block that goes on: its branch is raised later.
LEMMA RaiseStraightStep == ASSUME RaiserInv, RaiseStraight PROVE RaiserInv'
<1> PICK c : c = cur
  OBVIOUS
<1>1. WalkMBB({"plain"}) /\ UNCHANGED <<stage, records, exits>>
  BY DEF RaiseStraight
<1>2. /\ stage = "walk" /\ cur' = cur + 1 /\ c \in BlockIndices /\ c \notin records
      /\ UNCHANGED <<cfgVars, body, edges, bbs>> /\ DOMAIN exits = BlockIndices
      /\ instMap'[TermInst(c)'].kind = "plain" /\ ~Recordable(c)'
      /\ exits[c] = Unterminated
  BY <1>1, WalkNow, WalkKept DEF WalkMBB, Recordable
<1>3. ~Passed(c)'
  BY <1>1, <1>2 DEF Passed
<1>4. ExitKnown(c)'
  BY <1>1, <1>2, <1>3 DEF ExitKnown, Unterminated
<1> QED
  BY <1>1, <1>2, <1>4, WalkStep

\* A recorded branch leads to a block.
LEMMA RecordBranchStep == ASSUME RaiserInv, RecordBranch PROVE RaiserInv'
<1> PICK c : c = cur
  OBVIOUS
<1>1. /\ WalkMBB({"jmp", "cond"}) /\ BranchTargetMBB(TermInst(c)) # -1
      /\ records' = records \cup {c} /\ stage' = stage /\ exits' = exits
  BY DEF RecordBranch
<1>2. /\ stage = "walk" /\ cur' = cur + 1 /\ c \in BlockIndices /\ c \in bbs /\ ~Empty(c)
      /\ UNCHANGED <<cfgVars, body, edges, bbs>> /\ DOMAIN exits = BlockIndices
      /\ instMap[TermInst(c)].kind \in {"jmp", "cond"} /\ CFGReady /\ BodyKept
      /\ instMap' = instMap /\ TermInst(c)' = TermInst(c)
  BY <1>1, WalkNow, WalkKept DEF WalkMBB
<1>3. instMap[TermInst(c)].target \in Offsets
  BY <1>1, <1>2, BranchTargetNumber
<1>4. Recordable(c)
  BY <1>2, <1>3 DEF Recordable
<1>5. instMap'[TermInst(c)'].target \in Offsets'
  BY <1>2, <1>3 DEF Offsets
<1>6. ExitKnown(c)'
  <2>1. c \in records'
    BY <1>1
  <2>2. instMap'[TermInst(c)'].kind \in {"jmp", "cond"} /\ cur' # cur
    BY <1>2, LateStep, <1>1
  <2> QED
    BY <1>1, <1>2, <1>5, <2>1, <2>2 DEF ExitKnown
<1> QED
  BY <1>1, <1>2, <1>4, <1>6, WalkStep

\* A jump that is raised as a call leads out of the function, and has no condition.
LEMMA RaiseTailCallStep == ASSUME RaiserInv, RaiseTailCall PROVE RaiserInv'
<1> PICK c : c = cur
  OBVIOUS
<1>1. /\ WalkMBB({"jmp", "cond"}) /\ BranchTargetMBB(TermInst(c)) = -1
      /\ records' = records
      /\ IF IsConditionalBranch(TermInst(c))
         THEN stage' = "aborted" /\ UNCHANGED exits
         ELSE exits' = [exits EXCEPT ![c] = Leave("call")] /\ UNCHANGED stage
  BY DEF RaiseTailCall
<1>2. /\ stage = "walk" /\ cur' = cur + 1 /\ c \in BlockIndices /\ c \in bbs /\ ~Empty(c)
      /\ UNCHANGED <<cfgVars, body, edges, bbs>> /\ DOMAIN exits = BlockIndices
      /\ instMap[TermInst(c)].kind \in {"jmp", "cond"} /\ CFGReady /\ BodyKept
      /\ instMap' = instMap /\ TermInst(c)' = TermInst(c) /\ c \notin records
      /\ Recordable(c)' <=> Recordable(c)
  BY <1>1, WalkNow, WalkKept DEF WalkMBB
<1>3. instMap[TermInst(c)].target \notin Offsets /\ instMap[TermInst(c)].kind = "jmp"
  <2>1. BranchTargetMBB(TermInst(c)) \notin BlockIndices
    BY <1>1, <1>2, BranchTargetNumber
  <2> QED
    BY <1>2, <2>1, BranchTargetNumber
<1>4. stage' = stage /\ exits' = [exits EXCEPT ![c] = Leave("call")] /\ ~Recordable(c)'
  BY <1>1, <1>2, <1>3 DEF IsConditionalBranch, Recordable
<1>5. exits'[c] = Leave("call") /\ DOMAIN exits' = BlockIndices
      /\ \A b \in BlockIndices : b # c => exits'[b] = exits[b]
  BY <1>2, <1>4
<1>6. ExitKnown(c)'
  BY <1>2, <1>3, <1>4, <1>5 DEF ExitKnown, Leave
<1> QED
  BY <1>1, <1>2, <1>4, <1>5, <1>6, WalkStep

\* A block that is not raised, or has nothing to raise.
LEMMA SkipMBBStep == ASSUME RaiserInv, SkipMBB PROVE RaiserInv'
<1> PICK c : c = cur
  OBVIOUS
<1>1. /\ stage = "walk" /\ cur <= Len(blocks) /\ (c \notin bbs \/ Empty(c))
      /\ cur' = cur + 1
      /\ UNCHANGED <<cfgVars, stage, body, edges, bbs, records, exits>>
  BY DEF SkipMBB
<1>2. /\ CFGReady /\ cur \in Nat /\ cur >= 1 /\ DOMAIN exits = BlockIndices
  BY <1>1 DEF RaiserInv, CFGFound, CFGReady, ExitsKnown
<1>3. Len(blocks) \in Nat
  BY <1>2 DEF CFGReady, EdgeInv, CFGInv, BlocksTyped
<1>4. c \in BlockIndices
  BY <1>1, <1>2, <1>3 DEF BlockIndices
<1>5. ~Seen(c)
  BY <1>1, <1>2 DEF Seen
<1>6. c \notin records
  BY <1>1, <1>4, <1>5 DEF RaiserInv, ExitsKnown
<1> QED
  BY <1>1, <1>2, <1>4, <1>6, WalkStep

\* When the walk ends, it has dealt with every block.
LEMMA EndWalkStep == ASSUME RaiserInv, EndWalk PROVE RaiserInv'
<1>1. /\ stage = "walk" /\ cur > Len(blocks) /\ stage' = "branches" /\ cur' = 1
      /\ UNCHANGED <<cfgVars, body, edges, bbs, records, exits>>
  BY DEF EndWalk
<1>2. /\ CFGFound' /\ WalkClosed' /\ cur \in Nat /\ DOMAIN exits = BlockIndices
      /\ \A b \in BlockIndices : b \in Nat /\ b <= Len(blocks) /\ Len(blocks) \in Nat
  BY <1>1, LateStep
<1>3. BlockIndices' = BlockIndices /\ \A b : Empty(b)' = Empty(b)
  BY <1>1, FlowKept
<1>4. RecordsOK'
  BY <1>1, RecordableKept DEF RecordsOK, InWalk, RaiserInv
<1>5. ASSUME NEW b \in BlockIndices
      PROVE  Seen(b)' /\ (b \in bbs /\ ~Empty(b) => ExitKnown(b)')
  <2>1. Seen(b) /\ Seen(b)'
    BY <1>1, <1>2 DEF Seen
  <2>2. b \in bbs /\ ~Empty(b) => ExitKnown(b)
    BY <1>1, <2>1 DEF RaiserInv, ExitsKnown
  <2>3. ~Passed(b) /\ ~Passed(b)'
    <3>1. b \in Nat /\ b >= 1
      BY DEF BlockIndices
    <3> QED
      BY <1>1, <3>1 DEF Passed
  <2> QED
    BY <1>1, <2>1, <2>2, <2>3, ExitKept
<1>6. ExitsKnown'
  BY <1>1, <1>2, <1>3, <1>5 DEF ExitsKnown
<1> QED
  BY <1>1, <1>2, <1>4, <1>6 DEF RaiserInv, AllDone, AbortsOnlyOnDeadCode

\* A branch within the function, noops apart, leads to a block of its own.
LEMMA BranchNext ==
  ASSUME CFGReady, NoopsApart, BodyKept, FlowEdges, stage # "unlink",
         NEW b \in BlockIndices, ~Empty(b), NEW t, t = instMap[TermInst(b)].target,
         instMap[TermInst(b)].kind \in {"jmp", "cond"}, t \in Offsets
  PROVE  /\ Goes(t) /\ Effective(t) = t /\ t \in Exits(b) /\ NextOf(b, t)
         /\ BranchTargetMBB(TermInst(b)) = InstToMBBNum(t)
<1>1. InputKept /\ AllDecoded(instMap)
  BY ReadyFacts
<1>2. /\ BranchTargetMBB(TermInst(b)) = InstToMBBNum(t) /\ IsMCInst(t) /\ t \in Exits(b)
  BY BranchTargetNumber
<1>3. TermInst(b) \in Offsets
  BY TermFacts
<1>4. ~IsNoop(t)
  BY <1>3 DEF NoopsApart
<1>5. t \in Nat /\ \A q \in Offsets : q \in Nat
  BY <1>1, StreamFacts
<1>6. ASSUME NEW q \in Offsets, t <= q, q < t PROVE IsNoop(q)
  <2>1. q \in Nat /\ t \in Nat
    BY <1>5
  <2> QED
    BY <1>6, <2>1
<1>7. Effective(t) = t /\ Goes(t)
  BY <1>1, <1>2, <1>4, <1>5, <1>6, EffectiveIs
<1> QED
  BY <1>2, <1>7, NextBlock

\* A block that ends with an instruction that goes on has no other end.
LEMMA PlainBlock ==
  ASSUME CFGReady, BodyKept, NEW b \in BlockIndices, ~Empty(b),
         instMap[TermInst(b)].kind = "plain"
  PROVE  ~HasTerminator(b)
<1> SUFFICES ASSUME NEW o \in body[b], instMap[o].kind \in BranchKinds \cup {"ret"}
             PROVE  FALSE
  BY DEF HasTerminator
<1> DEFINE T == TermInst(b)
           l == LastInst(b)
<1>1. CFGInv /\ Adjacent /\ InputKept /\ LaidOut(instMap)
  BY ReadyFacts
<1>2. /\ o \in Range(Insts(b)) /\ o <= T
  BY <1>1, BodyFacts
<1>3. /\ T \in Offsets /\ T <= l /\ l \in Offsets
      /\ (IsBranch(l) => T = l)
  BY TermFacts
<1>5. o \in Offsets /\ blocks[b].entry <= o /\ (o # l => ~IsBranch(o))
      /\ blocks[b].entry \in Offsets
  BY <1>1, <1>2, BlockFacts
<1>6. instMap[T].kind = "plain" /\ o # T
  BY DEF BranchKinds
<1> HIDE DEF T, l
<1>7. ~IsBranch(o)
  BY <1>3, <1>5, <1>6 DEF IsBranch, BranchKinds
<1>8. instMap[o].kind = "ret"
  BY <1>7 DEF IsBranch
<1>9. /\ o \in Nat /\ T \in Nat /\ l \in Nat /\ blocks[b].entry \in Nat
      /\ \A q \in Offsets : q \in Nat
  BY <1>1, <1>3, <1>5, StreamFacts
<1>10. PICK q \in (o + 1)..T : q \in RecordedTargets(instMap)
  <2>1. o < T
    BY <1>2, <1>6, <1>9 DEF T
  <2> QED
    BY <1>1, <1>3, <1>5, <1>6, <1>8, <2>1 DEF LaidOut
<1>11. q \in targetIndices
  BY <1>1, <1>10 DEF InputKept
<1>12. q \in Nat /\ blocks[b].entry <= q /\ q <= l /\ q # blocks[b].entry /\ q <= T
  BY <1>3, <1>5, <1>9
<1>13. q \in Offsets
  <2>1. T < FuncEnd /\ FuncEnd \in Nat
    BY <1>1, <1>3, StreamFacts
  <2>2. 0 <= q /\ q < FuncEnd
    BY <1>9, <1>12, <2>1
  <2> QED
    BY <1>1, <1>12, <2>2, StreamFacts
<1>14. q \in Range(Insts(b))
  BY <1>1, <1>12, <1>13, BlockHoldsBetween DEF l
<1> QED
  BY <1>1, <1>11, <1>12, <1>14, BlockFacts

\* A record is raised: the blocks that it needs have been visited.
LEMMA RaiseDirectBranchStep ==
  ASSUME RaiserInv, NEW b \in records, RaiseDirectBranch(b) PROVE RaiserInv'
<1> DEFINE o == TermInst(b)
           target == BranchTargetMBB(o)
           ft == FallThroughMBB(o)
           cond == IsConditionalBranch(o)
           fails == target \notin bbs \/ (cond /\ (ft \notin bbs \/ Empty(ft)))
<1>1. /\ stage = "branches" /\ records' = records \ {b}
      /\ UNCHANGED <<cfgVars, cur, body, edges, bbs>>
      /\ IF fails THEN stage' = "aborted" /\ UNCHANGED exits
         ELSE exits' = [exits EXCEPT ![b] = Br(Targets(o))] /\ UNCHANGED stage
  BY DEF RaiseDirectBranch, Targets
<1>2. /\ CFGFound' /\ WalkClosed' /\ CFGReady /\ BodyKept /\ FlowEdges /\ cur \in Nat
      /\ DOMAIN exits = BlockIndices /\ bbs \subseteq BlockIndices
  BY <1>1, LateStep
<1>3. BlockIndices' = BlockIndices /\ \A c : Empty(c)' = Empty(c)
  BY <1>1, FlowKept
<1>4. Recordable(b) /\ b \in bbs /\ b \in BlockIndices /\ ~Empty(b)
      /\ instMap[o].kind \in {"jmp", "cond"} /\ instMap[o].target \in Offsets
  BY <1>1, <1>2 DEF RaiserInv, RecordsOK, InWalk, Recordable
<1>5. RecordsOK'
  BY <1>1, RecordableKept DEF RecordsOK, InWalk, RaiserInv
<1>6. ASSUME NoopsApart PROVE ~fails
  <2>1. \A s : HasEdge(b, s) => s \in bbs
    BY <1>1, <1>4 DEF HasEdge, RaiserInv, WalkClosed, InWalk
  <2>2. target \in bbs
    BY <1>1, <1>2, <1>4, <1>6, <2>1, BranchNext DEF NextOf
  <2>3. cond => ft \in bbs /\ ~Empty(ft)
    <3> SUFFICES ASSUME cond PROVE ft \in bbs /\ ~Empty(ft)
      OBVIOUS
    <3>1. instMap[o].kind = "cond"
      BY DEF IsConditionalBranch
    <3>2. /\ Goes(o + 1) /\ o + 1 \in Exits(b)
          /\ ft = InstToMBBNum(Effective(o + 1))
      BY <1>1, <1>2, <1>4, <1>6, <3>1, FallsThrough
    <3>3. NextOf(b, o + 1)
      BY <1>1, <1>2, <1>4, <1>6, <3>2, NextBlock
    <3> QED
      BY <2>1, <3>2, <3>3 DEF NextOf
  <2> QED
    BY <2>2, <2>3
<1> HIDE DEF fails
<1>7. AbortsOnlyOnDeadCode'
  <2>1. NoopsApart' = NoopsApart
    BY <1>1, FlowKept
  <2> QED
    BY <1>1, <1>6, <2>1 DEF AbortsOnlyOnDeadCode
<1>8. ExitsKnown'
  <2>1. CASE fails
    BY <1>1, <2>1 DEF ExitsKnown
  <2>2. CASE ~fails
    <3>1. exits' = [exits EXCEPT ![b] = Br(Targets(o))] /\ stage' = stage
      BY <1>1, <2>2
    <3>2. exits'[b] = Br(Targets(o)) /\ DOMAIN exits' = BlockIndices
          /\ \A c \in BlockIndices : c # b => exits'[c] = exits[c]
      BY <1>2, <1>4, <3>1
    <3>3. ASSUME NEW c \in BlockIndices
          PROVE  Seen(c)' /\ (c \in bbs /\ ~Empty(c) => ExitKnown(c)')
      <4>1. Seen(c) /\ Seen(c)'
        BY <1>1, <3>1 DEF Seen
      <4>2. c \in bbs /\ ~Empty(c) => ExitKnown(c)
        BY <1>1, <4>1 DEF RaiserInv, ExitsKnown
      <4>3. CASE c # b
        <5>1. (Passed(c)' <=> Passed(c)) /\ (c \in records' <=> c \in records)
          BY <1>1, <3>1, <4>3 DEF Passed
        <5> QED
          BY <1>1, <3>2, <4>1, <4>2, <4>3, <5>1, ExitKept
      <4>4. CASE c = b
        <5>1. instMap' = instMap /\ TermInst(b)' = o /\ Targets(o)' = Targets(o)
          BY <1>1, FlowKept
        <5>2. Targets(TermInst(b))' = Targets(o)
          BY <1>1, <5>1, FlowKept
        <5>3. Offsets' = Offsets
          BY DEF Offsets
        <5>4. instMap'[TermInst(b)'].kind \in {"jmp", "cond"}
              /\ instMap'[TermInst(b)'].target \in Offsets'
          BY <1>4, <5>1, <5>3
        <5> HIDE DEF o
        <5>5. ExitKnown(b)'
          BY <3>2, <5>2, <5>4 DEF ExitKnown
        <5> QED
          BY <4>1, <4>4, <5>5
      <4> QED
        BY <4>3, <4>4
    <3> QED
      BY <1>1, <1>3, <3>2, <3>3 DEF ExitsKnown
  <2> QED
    BY <2>1, <2>2
<1>9. AllDone'
  BY <1>1 DEF AllDone
<1> QED
  BY <1>2, <1>5, <1>7, <1>8, <1>9 DEF RaiserInv

\* A block without a terminator goes on to its first successor.
LEMMA RaiseFallThroughStep == ASSUME RaiserInv, RaiseFallThrough PROVE RaiserInv'
<1> PICK d : d = cur
  OBVIOUS
<1> DEFINE succs == SuccsOf(edges, d)
           to == First(succs).to
           stays == HasTerminator(d) \/ succs = {}
           fails == d \notin bbs \/ to \notin bbs
<1>1. /\ stage = "branches" /\ records = {} /\ cur <= Len(blocks) /\ cur' = cur + 1
      /\ UNCHANGED <<cfgVars, body, edges, bbs, records>>
      /\ IF stays THEN UNCHANGED <<stage, exits>>
         ELSE IF fails THEN stage' = "aborted" /\ UNCHANGED exits
         ELSE exits' = [exits EXCEPT ![d] = Br(<<to>>)] /\ UNCHANGED stage
  BY DEF RaiseFallThrough
<1>2. /\ CFGFound' /\ WalkClosed' /\ CFGReady /\ BodyKept /\ FlowEdges /\ cur \in Nat /\ cur >= 1
      /\ DOMAIN exits = BlockIndices /\ bbs \subseteq BlockIndices
      /\ \A b \in BlockIndices : b \in Nat /\ b <= Len(blocks) /\ Len(blocks) \in Nat
  BY <1>1, LateStep
<1>3. BlockIndices' = BlockIndices /\ \A c : Empty(c)' = Empty(c)
  BY <1>1, FlowKept
<1>4. d \in BlockIndices
  <2>1. Len(blocks) \in Nat
    BY <1>2 DEF CFGReady, EdgeInv, CFGInv, BlocksTyped
  <2> QED
    BY <1>1, <1>2, <2>1 DEF BlockIndices
<1>5. RecordsOK'
  BY <1>1 DEF RecordsOK
<1>6. succs # {} => First(succs) \in edges /\ First(succs).from = d
  <2>1. EdgesTyped
    BY <1>2 DEF FlowEdges
  <2>2. succs \in SUBSET edges /\ \A e \in succs : e.from = d
    BY DEF SuccsOf
  <2> HIDE DEF succs
  <2> QED
    BY <2>1, <2>2, FirstEdge
<1>7. ASSUME ~stays, fails, NoopsApart PROVE d \in BlockIndices \ bbs /\ ~Empty(d)
  <2>1. d \notin bbs
    BY <1>1, <1>6, <1>7 DEF RaiserInv, WalkClosed, InWalk
  <2>2. ASSUME Empty(d) PROVE FALSE
    <3>1. ~IsBranch(LastInst(d))
      BY <1>2, <1>4, <2>2, EmptyFacts
    <3>2. ~Linked(d)
      BY <1>1, <2>2 DEF Linked
    <3>3. EdgesFrom
      BY <1>2, <1>7 DEF FlowEdges
    <3>4. IsConditionalBranch(LastInst(d))
      BY <1>6, <1>7, <3>2, <3>3 DEF EdgesFrom
    <3> QED
      BY <3>1, <3>4 DEF IsBranch, IsConditionalBranch, BranchKinds
  <2> QED
    BY <1>4, <2>1, <2>2
<1> HIDE DEF stays, fails
<1>8. AbortsOnlyOnDeadCode'
  <2>1. NoopsApart' = NoopsApart
    BY <1>1, FlowKept
  <2>2. stage' = "aborted" => ~stays /\ fails
    BY <1>1
  <2> QED
    BY <1>1, <1>3, <1>7, <2>1, <2>2 DEF AbortsOnlyOnDeadCode
<1>9. ASSUME stage' = "branches" PROVE ExitsKnown'
  <2>1. /\ DOMAIN exits' = BlockIndices
        /\ \A c \in BlockIndices : c # d => exits'[c] = exits[c]
        /\ stays => exits'[d] = exits[d]
        /\ ~stays => exits'[d] = Br(<<to>>)
    BY <1>1, <1>2, <1>4, <1>9
  <2>2. ASSUME NEW c \in BlockIndices
        PROVE  Seen(c)' /\ (c \in bbs /\ ~Empty(c) => ExitKnown(c)')
    <3>1. Seen(c) /\ Seen(c)'
      BY <1>1, <1>9 DEF Seen
    <3>2. c \in bbs /\ ~Empty(c) => ExitKnown(c)
      BY <1>1, <3>1 DEF RaiserInv, ExitsKnown
    <3>3. CASE c # d
      <4>1. Passed(c)' <=> Passed(c)
        BY <1>1, <1>2, <1>9, <3>3 DEF Passed
      <4> QED
        BY <1>1, <2>1, <3>1, <3>2, <3>3, <4>1, ExitKept
    <3>4. CASE c = d
      <4> SUFFICES ASSUME c \in bbs, ~Empty(c) PROVE ExitKnown(d)'
        BY <3>1, <3>4
      <4>1. ExitKnown(d) /\ ~Empty(d)
        BY <3>2, <3>4
      <4>2. /\ instMap' = instMap /\ TermInst(d)' = TermInst(d)
            /\ SuccsOf(edges, d)' = succs /\ Targets(TermInst(d))' = Targets(TermInst(d))
        BY <1>1, FlowKept
      <4>3. Recordable(d)' <=> Recordable(d)
        BY <1>1, RecordableKept
      <4>4. Passed(d)'
        BY <1>1, <1>2, <1>9 DEF Passed
      <4>5. ~Passed(d)
        BY <1>1, <1>2 DEF Passed
      <4>6. CASE instMap[TermInst(d)].kind = "plain"
        <5>1. ~HasTerminator(d)
          BY <1>2, <1>4, <4>1, <4>6, PlainBlock
        <5>2. exits[d] = Unterminated
          BY <4>1, <4>5, <4>6 DEF ExitKnown
        <5>3. exits'[d] = IF succs # {} THEN Br(<<to>>) ELSE Unterminated
          BY <2>1, <5>1, <5>2 DEF stays
        <5>4. ~Recordable(d)'
          BY <4>3, <4>6 DEF Recordable
        <5> QED
          BY <4>2, <4>4, <4>6, <5>3, <5>4 DEF ExitKnown
      <4>7. CASE instMap[TermInst(d)].kind # "plain"
        <5>1. HasTerminator(d)
          <6>1. TermInst(d) \in body[d]
            BY <1>2, <1>4, <4>1, BodyFacts, ReadyFacts
          <6>2. instMap[TermInst(d)].kind \in BranchKinds \cup {"ret"}
            BY <1>2, <1>4, <4>1, <4>7, TermFacts DEF BranchKinds
          <6> QED
            BY <6>1, <6>2 DEF HasTerminator
        <5>2. exits'[d] = exits[d] /\ records' = records
          BY <1>1, <2>1, <5>1 DEF stays
        <5>3. Offsets' = Offsets
          BY DEF Offsets
        <5> QED
          BY <4>1, <4>2, <4>3, <4>7, <5>2, <5>3 DEF ExitKnown
      <4> QED
        BY <4>6, <4>7
    <3> QED
      BY <3>3, <3>4
  <2> QED
    BY <1>1, <1>3, <1>9, <2>1, <2>2 DEF ExitsKnown
<1>10. stage' \in {"branches", "aborted"}
  BY <1>1
<1> QED
  BY <1>1, <1>2, <1>5, <1>8, <1>9, <1>10 DEF RaiserInv, ExitsKnown, AllDone

\* In the end, every block has been dealt with.
LEMMA EndBranchesStep == ASSUME RaiserInv, EndBranches PROVE RaiserInv'
<1>1. /\ stage = "branches" /\ cur > Len(blocks) /\ stage' = "raised" /\ records = {}
      /\ UNCHANGED <<cfgVars, cur, body, edges, bbs, records, exits>>
  BY DEF EndBranches
<1>2. /\ CFGFound' /\ WalkClosed' /\ cur \in Nat /\ DOMAIN exits = BlockIndices
      /\ \A b \in BlockIndices : b \in Nat /\ b <= Len(blocks) /\ Len(blocks) \in Nat
  BY <1>1, LateStep
<1>3. BlockIndices' = BlockIndices /\ \A b : Empty(b)' = Empty(b)
  BY <1>1, FlowKept
<1>4. ASSUME NEW b \in BlockIndices
      PROVE  Seen(b)' /\ (b \in bbs /\ ~Empty(b) => ExitKnown(b)')
  <2>1. Seen(b) /\ Seen(b)'
    BY <1>1, <1>2 DEF Seen
  <2>2. b \in bbs /\ ~Empty(b) => ExitKnown(b)
    BY <1>1, <2>1 DEF RaiserInv, ExitsKnown
  <2>3. Passed(b) /\ Passed(b)'
    BY <1>1, <1>2 DEF Passed
  <2> QED
    BY <1>1, <2>1, <2>2, <2>3, ExitKept
<1>5. ExitsKnown'
  BY <1>1, <1>2, <1>3, <1>4 DEF ExitsKnown
<1> QED
  BY <1>1, <1>2, <1>5 DEF RaiserInv, RecordsOK, AllDone, AbortsOnlyOnDeadCode

-----------------------------------------------------------------------------
(* The invariant holds. *)

\* The invariant is about the variables of the specification.
LEMMA RaiserStutters == ASSUME RaiserInv, UNCHANGED vars PROVE RaiserInv'
<1>1. UNCHANGED <<cfgVars, stage, cur, body, edges, bbs, records, exits>>
  BY DEF vars, branchVars
<1>2. UNCHANGED <<instMap, targetIndices, pc, pos, blocks, mbbTargets, succ>>
  BY <1>1 DEF cfgVars
<1>3. EdgeInv'
  BY <1>1, BuildCFGKeepsEdgeInv DEF RaiserInv, CFGFound
<1>4. EntriesLeaders' /\ LaidOut(instMap)' /\ (Built' <=> Built)
  BY <1>2 DEF RaiserInv, CFGFound, EntriesLeaders, BlockIndices, Built, LaidOut,
              RecordedTargets, SymbolStarts
<1>5. /\ BlockIndices' = BlockIndices /\ \A b : Empty(b)' = Empty(b)
      /\ NoopsApart' = NoopsApart /\ BodyKept' = BodyKept
      /\ HasIndirectBranch' = HasIndirectBranch
  BY <1>1, FlowKept
<1>6. CFGFound'
  <2>1. \A b \in BlockIndices : Linked(b)' <=> Linked(b)
    BY <1>1, <1>5 DEF Linked
  <2>2. FlowEdges => FlowEdges'
    BY <1>1, <2>1, FlowEdgesKept
  <2> QED
    BY <1>1, <1>3, <1>4, <1>5, <2>2 DEF RaiserInv, CFGFound
<1>7. WalkClosed' /\ AllDone' /\ AbortsOnlyOnDeadCode'
  BY <1>1, <1>5 DEF RaiserInv, WalkClosed, InWalk, AllDone, AbortsOnlyOnDeadCode
<1>8. RecordsOK'
  BY <1>1, RecordableKept DEF RaiserInv, RecordsOK, InWalk
<1>9. ASSUME stage \in {"walk", "branches", "raised"}, NEW b \in BlockIndices
      PROVE  IF Seen(b)' THEN b \in bbs' /\ ~Empty(b)' => ExitKnown(b)'
                         ELSE exits'[b] = Unterminated /\ b \notin records'
  <2>1. IF Seen(b) THEN b \in bbs /\ ~Empty(b) => ExitKnown(b)
                   ELSE exits[b] = Unterminated /\ b \notin records
    BY <1>9 DEF RaiserInv, ExitsKnown
  <2>2. (Seen(b)' <=> Seen(b)) /\ (Passed(b)' <=> Passed(b)) /\ exits'[b] = exits[b]
        /\ (b \in records' <=> b \in records)
    BY <1>1 DEF Seen, Passed
  <2>3. ExitKnown(b) => ExitKnown(b)'
    BY <1>1, <2>2, ExitKept
  <2> QED
    BY <1>1, <1>5, <2>1, <2>2, <2>3
<1>10. ExitsKnown'
  BY <1>1, <1>5, <1>9 DEF ExitsKnown, RaiserInv
<1> QED
  BY <1>6, <1>7, <1>8, <1>10 DEF RaiserInv

\* Every step keeps the invariant.
LEMMA RaiserStep == ASSUME RaiserInv, [Next]_vars PROVE RaiserInv'
<1>1. CASE pc # "built" /\ BuildCFG /\ UNCHANGED branchVars
  BY <1>1, BuildStep
<1>2. CASE RaiseFunction
  BY <1>2, DeleteNOOPsStep, UnlinkMBBStep, StartWalkStep, RaiseReturnStep, RaiseStraightStep,
     RecordBranchStep, RaiseTailCallStep, SkipMBBStep, EndWalkStep, RaiseDirectBranchStep,
     RaiseFallThroughStep, EndBranchesStep DEF RaiseFunction
<1>3. CASE UNCHANGED vars
  BY <1>3, RaiserStutters
<1> QED
  BY <1>1, <1>2, <1>3 DEF Next, Done

-----------------------------------------------------------------------------
(* What it says of the raised function. *)

\* The exit of a block, when the function is raised.
LEMMA RaisedExit ==
  ASSUME RaiserInv, stage = "raised", NEW b \in bbs, ~Empty(b)
  PROVE  b \in BlockIndices /\ ExitKnown(b) /\ b \notin records /\ Passed(b)
<1>1. b \in BlockIndices
  BY DEF RaiserInv, WalkClosed, InWalk
<1>2. Seen(b) /\ Passed(b)
  BY DEF Seen, Passed
<1>3. b \notin records /\ ExitKnown(b)
  BY <1>1, <1>2 DEF RaiserInv, AllDone, ExitsKnown
<1> QED
  BY <1>1, <1>2, <1>3

\* Block by block, by the instruction that ends it.
LEMMA InvFlowFaithful == ASSUME RaiserInv PROVE RaisedFlowFaithful
<1> SUFFICES ASSUME stage = "raised", NoopsApart, NEW b \in bbs, ~Empty(b)
             PROVE  FlowFollows(b)
  BY DEF RaisedFlowFaithful
<1> DEFINE o == TermInst(b)
           to == Range(exits[b].to)
           t == instMap[o].target
<1>1. /\ CFGReady /\ BodyKept /\ FlowEdges /\ ~HasIndirectBranch /\ stage # "unlink"
  BY DEF RaiserInv, CFGFound, CFGReady
<1>2. b \in BlockIndices /\ ExitKnown(b) /\ b \notin records /\ Passed(b)
  BY RaisedExit
<1>3. o \in Offsets /\ instMap[o].kind \in {"jmp", "cond", "plain", "ret"} /\ t \in Int
  <2>1. o \in Offsets /\ instMap[o].kind \in {"jmp", "cond", "indirect", "plain", "ret"}
    BY <1>1, <1>2, TermFacts
  <2> QED
    BY <1>1, <2>1, ReadyFacts, StreamFacts DEF HasIndirectBranch
<1>4. \A x \in Offsets : x \in Int
  BY <1>1, ReadyFacts, StreamFacts
<1>5. t \in Offsets <=> InFunction(t)
  BY <1>1, <1>3, ReadyFacts, StreamFacts
<1>6. \A x, y : /\ Br(x).kind = "br" /\ Br(x).to = x
                /\ Leave(y).kind = y /\ Leave(y).to = <<>> /\ Unterminated.kind = "none"
                /\ Unterminated.to = <<>>
  BY DEF Br, Leave, Unterminated
<1>7. Range(<<>>) = {} /\ \A x, y : Range(<<x>>) = {x} /\ Range(<<x, y>>) = {x, y}
  BY DEF Range
<1> HIDE DEF o, t
<1>8. CASE instMap[o].kind = "ret"
  <2>1. exits[b].kind = "ret" /\ to = {}
    BY <1>2, <1>6, <1>7, <1>8 DEF ExitKnown, o
  <2>2. Exits(b) = {}
    BY <1>8 DEF Exits, MachineSucc, o
  <2> QED
    BY <1>8, <2>1, <2>2 DEF FlowFollows, o
<1>9. CASE instMap[o].kind = "jmp" /\ t \notin Offsets
  <2>1. exits[b].kind = "call" /\ to = {}
    BY <1>2, <1>6, <1>7, <1>9 DEF ExitKnown, o, t
  <2>2. Exits(b) = {t}
    BY <1>9 DEF Exits, MachineSucc, o, t
  <2>3. ~Goes(t)
    BY <1>9 DEF Goes, IsMCInst
  <2> QED
    BY <1>5, <1>9, <2>1, <2>2, <2>3 DEF FlowFollows, o, t
<1>10. CASE instMap[o].kind = "jmp" /\ t \in Offsets
  <2>1. Recordable(b)
    BY <1>10 DEF Recordable, o, t
  <2>2. exits[b] = Br(<<BranchTargetMBB(o)>>)
    BY <1>2, <1>10, <2>1 DEF ExitKnown, Targets, IsConditionalBranch, o
  <2>3. exits[b].kind = "br" /\ to = {BranchTargetMBB(o)}
    BY <1>6, <1>7, <2>2
  <2>4. Exits(b) = {t}
    BY <1>10 DEF Exits, MachineSucc, o, t
  <2>5. /\ Goes(t) /\ Effective(t) = t /\ NextOf(b, t) /\ BranchTargetMBB(o) = InstToMBBNum(t)
    BY <1>1, <1>2, <1>10, BranchNext DEF o, t
  <2> QED
    BY <1>5, <1>10, <2>3, <2>4, <2>5 DEF FlowFollows, NextOf, o, t
<1>11. CASE instMap[o].kind = "cond"
  <2>1. t \in Offsets
    BY <1>1, <1>2, <1>11, BranchTargetNumber DEF o, t
  <2>2. Recordable(b)
    BY <1>11, <2>1 DEF Recordable, o, t
  <2>3. exits[b] = Br(<<BranchTargetMBB(o), FallThroughMBB(o)>>)
    BY <1>2, <1>11, <2>2 DEF ExitKnown, Targets, IsConditionalBranch, o
  <2>4. exits[b].kind = "br" /\ to = {BranchTargetMBB(o), FallThroughMBB(o)}
    BY <1>6, <1>7, <2>3
  <2>5. Exits(b) = {t, o + 1}
    BY <1>11 DEF Exits, MachineSucc, o, t
  <2>6. /\ Goes(t) /\ Effective(t) = t /\ NextOf(b, t) /\ BranchTargetMBB(o) = InstToMBBNum(t)
    BY <1>1, <1>2, <1>11, <2>1, BranchNext DEF o, t
  <2>7. Goes(o + 1) /\ FallThroughMBB(o) = InstToMBBNum(Effective(o + 1))
    BY <1>1, <1>2, <1>11, FallsThrough DEF o
  <2>8. NextOf(b, o + 1)
    BY <1>1, <1>2, <2>5, <2>7, NextBlock
  <2> QED
    BY <1>11, <2>4, <2>5, <2>6, <2>7, <2>8 DEF FlowFollows, NextOf, o, t
<1>12. CASE instMap[o].kind = "plain"
  <2> DEFINE succs == SuccsOf(edges, b)
  <2>1. exits[b] = IF succs # {} THEN Br(<<First(succs).to>>) ELSE Unterminated
    BY <1>2, <1>12 DEF ExitKnown, o
  <2>2. ASSUME NEW u \in Exits(b), Goes(u)
        PROVE  /\ \E s \in to : ~Empty(s) /\ Min(body[s]) = Effective(u)
    <3>1. NextOf(b, u)
      BY <1>1, <1>2, <2>2, NextBlock
    <3>2. succs # {}
      BY <3>1 DEF NextOf, HasEdge, SuccsOf
    <3>3. First(succs) \in succs
      <4>1. succs \in SUBSET edges
        BY DEF SuccsOf
      <4> HIDE DEF succs
      <4> QED
        BY <1>1, <3>2, <4>1, FirstEdge DEF FlowEdges
    <3>4. First(succs) \in edges /\ First(succs).from = b
      BY <3>3 DEF SuccsOf
    <3>5. /\ ~Empty(First(succs).to)
          /\ \E v \in Exits(b) : Goes(v) /\ Min(body[First(succs).to]) = Effective(v)
      BY <1>1, <1>2, <1>12, <3>4, StraightEdge DEF o
    <3>6. Exits(b) = {o + 1}
      BY <1>12 DEF Exits, MachineSucc, o
    <3>7. to = {First(succs).to}
      BY <1>6, <1>7, <2>1, <3>2
    <3> QED
      BY <2>2, <3>5, <3>6, <3>7
  <2>3. ASSUME NEW s \in to
        PROVE  ~Empty(s) /\ \E v \in Exits(b) : Goes(v) /\ Min(body[s]) = Effective(v)
    <3>1. succs # {} /\ s = First(succs).to
      BY <1>6, <1>7, <2>1, <2>3
    <3>2. First(succs) \in succs
      <4>1. succs \in SUBSET edges
        BY DEF SuccsOf
      <4> HIDE DEF succs
      <4> QED
        BY <1>1, <3>1, <4>1, FirstEdge DEF FlowEdges
    <3>3. First(succs) \in edges /\ First(succs).from = b
      BY <3>2 DEF SuccsOf
    <3> QED
      BY <1>1, <1>2, <1>12, <3>1, <3>3, StraightEdge DEF o
  <2>4. exits[b].kind \in {"br", "none"}
    BY <1>6, <2>1
  <2> QED
    BY <1>12, <2>2, <2>3, <2>4 DEF FlowFollows, o
<1> QED
  BY <1>3, <1>8, <1>9, <1>10, <1>11, <1>12

\* Control that comes to a block before its last instruction finds one in it.
LEMMA EffectiveWithin ==
  ASSUME CFGReady, BodyKept, NEW b \in BlockIndices, ~Empty(b), NEW x \in Offsets,
         blocks[b].entry <= x, x <= TermInst(b), Goes(x)
  PROVE  Effective(x) \in body[b]
<1> DEFINE u == Effective(x)
           T == TermInst(b)
           l == LastInst(b)
<1>1. CFGInv /\ Adjacent /\ InputKept /\ AllDecoded(instMap)
  BY ReadyFacts
<1>2. T \in Offsets /\ ~IsNoop(T) /\ T <= l /\ l \in Offsets
  BY TermFacts
<1>3. /\ u \in Offsets /\ x <= u /\ ~IsNoop(u)
      /\ \A q \in Offsets : x <= q /\ q < u => IsNoop(q)
  BY <1>1, GoesFacts
<1>4. blocks[b].entry \in Offsets
  BY <1>1, BlockFacts
<1> HIDE DEF u, T, l
<1>5. u \in Nat /\ T \in Nat /\ l \in Nat /\ x \in Nat /\ blocks[b].entry \in Nat
  BY <1>1, <1>2, <1>3, <1>4, StreamFacts
<1>6. ~(x <= T /\ T < u)
  BY <1>2, <1>3
<1>7. u <= T
  BY <1>5, <1>6 DEF T
<1>8. blocks[b].entry <= u /\ u <= l
  BY <1>2, <1>3, <1>5, <1>7
<1>9. u \in Range(Insts(b))
  BY <1>1, <1>3, <1>8, BlockHoldsBetween DEF l
<1> QED
  BY <1>1, <1>3, <1>9, BodyFacts DEF u

\* The function begins in its first block.
LEMMA FirstBlock ==
  ASSUME CFGReady, IsMCInst(0) PROVE 1 \in BlockIndices /\ blocks[1].entry = 0
<1>1. CFGInv /\ Adjacent /\ InputKept /\ Built
  BY ReadyFacts
<1>2. 0 \in Offsets /\ \A o \in Offsets : o \in Nat
  BY <1>1, StreamFacts
<1>3. PICK b \in BlockIndices : \E i \in DOMAIN Insts(b) : Insts(b)[i] = 0
  BY <1>1, <1>2 DEF CFGInv, AllCovered, Walked, Built
<1>4. 0 \in Range(Insts(b))
  BY <1>3 DEF Range
<1>5. blocks[b].entry <= 0 /\ blocks[b].entry \in Offsets
  BY <1>1, <1>4, BlockFacts
<1>6. blocks[b].entry = 0
  BY <1>2, <1>5
<1>7. b \in Nat /\ b >= 1 /\ 1 \in BlockIndices
  BY DEF BlockIndices
<1>8. b = 1
  <2> SUFFICES ASSUME 1 < b PROVE FALSE
    BY <1>7
  <2>1. PICK j \in DOMAIN Insts(b) : Insts(b)[j] = 0
    BY <1>3
  <2>2. PICK i \in DOMAIN Insts(1) : Insts(1)[i] = blocks[1].entry
    BY <1>1, <1>7, BlockFacts DEF Range
  <2>3. blocks[1].entry < 0
    BY <1>1, <1>7, <2>1, <2>2 DEF CFGInv, InOrder
  <2>4. blocks[1].entry \in Nat
    BY <1>1, <1>2, <1>7, BlockFacts
  <2> QED
    BY <2>3, <2>4
<1> QED
  BY <1>6, <1>7, <1>8

\* Where control is, there is a block.
RaisedAt(o) == Goes(o) => \E s \in bbs : Effective(o) \in body[s]

\* So it is at the start, ...
LEMMA RaisedAtStart ==
  ASSUME CFGReady, BodyKept, WalkClosed, InWalk, 1 \in BlockIndices, ~Empty(1) PROVE RaisedAt(0)
<1> SUFFICES ASSUME Goes(0) PROVE \E s \in bbs : Effective(0) \in body[s]
  BY DEF RaisedAt
<1>1. InputKept /\ AllDecoded(instMap)
  BY ReadyFacts
<1>2. 0 \in Offsets /\ IsMCInst(0)
  BY <1>1, GoesFacts
<1>3. blocks[1].entry = 0
  BY <1>2, FirstBlock
<1>4. TermInst(1) \in Nat
  BY <1>1, TermFacts, StreamFacts
<1>5. blocks[1].entry <= 0 /\ 0 <= TermInst(1)
  BY <1>3, <1>4
<1>6. Effective(0) \in body[1]
  BY <1>2, <1>5, EffectiveWithin
<1> QED
  BY <1>6 DEF WalkClosed

\* ... and remains so.
LEMMA RaisedAtNext ==
  ASSUME CFGReady, NoopsApart, BodyKept, FlowEdges, WalkClosed, InWalk,
         NEW p \in Offsets, RaisedAt(p), IsMCInst(p), NEW t \in MachineSucc(p), IsMCInst(t)
  PROVE  RaisedAt(t)
<1> SUFFICES ASSUME Goes(t) PROVE \E s \in bbs : Effective(t) \in body[s]
  BY DEF RaisedAt
<1> DEFINE u == Effective(t)
<1>1. /\ CFGInv /\ Adjacent /\ InputKept /\ AllDecoded(instMap)
  BY ReadyFacts
<1>2. /\ t \in Offsets /\ u \in Offsets /\ t <= u /\ ~IsNoop(u) /\ IsMCInst(u)
      /\ \A q \in Offsets : t <= q /\ q < u => IsNoop(q)
  BY <1>1, GoesFacts
<1> HIDE DEF u
<1>3. \A q \in Offsets : q \in Nat
  BY <1>1, StreamFacts
<1>4. CASE IsNoop(p)
  <2>1. t = p + 1
    BY <1>4 DEF MachineSucc, IsNoop
  <2>2. p <= u
    BY <1>2, <1>3, <2>1
  <2>3. ASSUME NEW q \in Offsets, p <= q, q < u PROVE IsNoop(q)
    <3>1. q = p \/ t <= q
      BY <1>3, <2>1, <2>3
    <3> QED
      BY <1>2, <1>4, <2>3, <3>1
  <2>4. Effective(p) = u /\ Goes(p)
    BY <1>1, <1>2, <2>2, <2>3, EffectiveIs
  <2> QED
    BY <2>4 DEF RaisedAt, u
<1>5. CASE ~IsNoop(p)
  <2>1. p <= p
    BY <1>3
  <2>2. ASSUME NEW q \in Offsets, p <= q, q < p PROVE IsNoop(q)
    <3>1. q \in Nat /\ p \in Nat
      BY <1>3
    <3> QED
      BY <2>2, <3>1
  <2>3. Effective(p) = p /\ Goes(p)
    BY <1>1, <1>5, <2>1, <2>2, EffectiveIs
  <2>4. PICK s \in bbs : p \in body[s]
    BY <2>3 DEF RaisedAt
  <2>5. s \in BlockIndices /\ ~Empty(s)
    BY <2>4 DEF WalkClosed, Empty
  <2>6. CASE p = TermInst(s)
    <3>1. t \in Exits(s)
      BY <2>6 DEF Exits
    <3>2. stage # "unlink"
      BY DEF InWalk
    <3>3. NextOf(s, t)
      BY <2>5, <3>1, <3>2, NextBlock
    <3> DEFINE n == InstToMBBNum(Effective(t))
    <3>4. /\ n \in BlockIndices /\ ~Empty(n) /\ Min(body[n]) = u /\ HasEdge(s, n)
      BY <3>3 DEF NextOf, u
    <3> HIDE DEF n
    <3>5. n \in bbs
      BY <3>4 DEF HasEdge, WalkClosed
    <3>6. u \in body[n]
      BY <1>1, <3>4, BodyFacts
    <3> QED
      BY <3>5, <3>6 DEF u
  <2>7. CASE p # TermInst(s)
    <3> DEFINE T == TermInst(s)
               l == LastInst(s)
    <3>1. /\ p \in Range(Insts(s)) /\ p <= T
      BY <1>1, <2>4, <2>5, BodyFacts
    <3>2. T \in Offsets /\ l \in Offsets /\ T <= l
      BY <2>5, TermFacts
    <3> HIDE DEF T, l
    <3>3. p \in Nat /\ T \in Nat /\ l \in Nat /\ p # T
      BY <1>3, <2>7, <3>2 DEF T
    <3>4. p < T /\ p # l
      BY <3>1, <3>2, <3>3
    <3>5. ~IsBranch(p) /\ blocks[s].entry <= p /\ blocks[s].entry \in Offsets
      BY <1>1, <2>5, <3>1, <3>4, BlockFacts DEF l
    <3>6. t = p + 1
      BY <3>5 DEF MachineSucc, IsBranch, BranchKinds
    <3>7. blocks[s].entry <= t /\ t <= T
      <4>1. blocks[s].entry \in Nat /\ blocks[s].entry <= p
        BY <1>3, <3>5
      <4> QED
        BY <3>3, <3>4, <3>6, <4>1
    <3>8. u \in body[s]
      BY <1>2, <2>5, <3>7, EffectiveWithin DEF T, u
    <3> QED
      BY <3>8 DEF u
  <2> QED
    BY <2>6, <2>7
<1> QED
  BY <1>4, <1>5

\* The offsets where a block is raised are closed under what the machine does.
LEMMA InvReachableRaised == ASSUME RaiserInv PROVE ReachableCodeRaised
<1> SUFFICES ASSUME stage \in {"branches", "raised"}, NoopsApart, blocks # <<>>, ~Empty(1),
                    NEW o \in ComesTo, IsMCInst(o), ~IsNoop(o)
             PROVE  \E s \in bbs : o \in body[s]
  BY DEF ReachableCodeRaised
<1> DEFINE S == {p \in Offsets : RaisedAt(p)}
<1>1. /\ CFGReady /\ BodyKept /\ FlowEdges /\ WalkClosed /\ InWalk
  BY DEF RaiserInv, CFGFound, CFGReady, InWalk
<1>2. InputKept /\ AllDecoded(instMap) /\ CFGInv
  BY <1>1, ReadyFacts
<1>3. 1 \in BlockIndices
  <2>1. blocks \in Seq(Blocks)
    BY <1>2 DEF CFGInv, BlocksTyped
  <2>2. Len(blocks) \in Nat /\ Len(blocks) # 0
    BY <2>1
  <2> QED
    BY <2>2 DEF BlockIndices
<1>4. 0 \in S
  BY <1>1, <1>2, <1>3, RaisedAtStart, StreamFacts
<1>5. ClosedUnderMachine(S)
  <2> SUFFICES ASSUME NEW p \in S, IsMCInst(p), NEW t \in MachineSucc(p), IsMCInst(t)
               PROVE  t \in S
    BY DEF ClosedUnderMachine
  <2>1. RaisedAt(t)
    BY <1>1, RaisedAtNext
  <2> QED
    BY <2>1 DEF IsMCInst
<1>6. o \in Offsets /\ RaisedAt(o)
  BY <1>4, <1>5 DEF ComesTo
<1>7. o \in Nat /\ \A q \in Offsets : q \in Nat
  BY <1>2, <1>6, StreamFacts
<1>8. o <= o
  BY <1>7
<1>9. ASSUME NEW q \in Offsets, o <= q, q < o PROVE IsNoop(q)
  <2>1. q \in Nat /\ o \in Nat
    BY <1>7
  <2> QED
    BY <1>9, <2>1
<1>10. Effective(o) = o /\ Goes(o)
  BY <1>2, <1>6, <1>8, <1>9, EffectiveIs
<1> QED
  BY <1>6, <1>10 DEF RaisedAt

-----------------------------------------------------------------------------
(* The theorems. *)

\* The raised function takes the control flow of the machine code, ...
THEOREM RaisedFlowAlwaysFaithful ==
  (\A s \in Streams : LaidOut(s)) => (RaiserSpec => []RaisedFlowFaithful)
<1> SUFFICES ASSUME \A s \in Streams : LaidOut(s) PROVE RaiserSpec => []RaisedFlowFaithful
  OBVIOUS
<1>1. RaiserInit => RaiserInv
  BY InitRaiserInv
<1>2. RaiserInv /\ [Next]_vars => RaiserInv'
  BY RaiserStep
<1>3. RaiserInv => RaisedFlowFaithful
  BY InvFlowFaithful
<1> QED
  BY <1>1, <1>2, <1>3, PTL DEF RaiserSpec

\* ... no code that the machine reaches is left out of it, ...
THEOREM ReachableCodeAlwaysRaised ==
  (\A s \in Streams : LaidOut(s)) => (RaiserSpec => []ReachableCodeRaised)
<1> SUFFICES ASSUME \A s \in Streams : LaidOut(s) PROVE RaiserSpec => []ReachableCodeRaised
  OBVIOUS
<1>1. RaiserInit => RaiserInv
  BY InitRaiserInv
<1>2. RaiserInv /\ [Next]_vars => RaiserInv'
  BY RaiserStep
<1>3. RaiserInv => ReachableCodeRaised
  BY InvReachableRaised
<1> QED
  BY <1>1, <1>2, <1>3, PTL DEF RaiserSpec

\* ... and only code that no edge leads to can fail an assertion on the way.
THEOREM AbortsAlwaysOnDeadCode ==
  (\A s \in Streams : LaidOut(s)) => (RaiserSpec => []AbortsOnlyOnDeadCode)
<1> SUFFICES ASSUME \A s \in Streams : LaidOut(s) PROVE RaiserSpec => []AbortsOnlyOnDeadCode
  OBVIOUS
<1>1. RaiserInit => RaiserInv
  BY InitRaiserInv
<1>2. RaiserInv /\ [Next]_vars => RaiserInv'
  BY RaiserStep
<1>3. RaiserInv => AbortsOnlyOnDeadCode
  BY DEF RaiserInv
<1> QED
  BY <1>1, <1>2, <1>3, PTL DEF RaiserSpec

\* The steps after buildCFG leave its blocks and edges alone: what is shown of CFGSpec
\* (BlocksPartition, EdgesSound, EdgesComplete) is true of RaiserSpec.
THEOREM RaiserImplementsCFG == RaiserSpec => CFGSpec
<1>1. RaiserInit => Init
  BY DEF RaiserInit
<1>2. [Next]_vars => [BuildCFG]_cfgVars
  <2> SUFFICES ASSUME [Next]_vars PROVE [BuildCFG]_cfgVars
    OBVIOUS
  <2>1. CASE UNCHANGED vars
    BY <2>1 DEF vars
  <2>2. CASE RaiseFunction
    BY <2>2
    DEF RaiseFunction, DeleteNOOPs, UnlinkMBB, StartWalk, RaiseReturn, RaiseStraight, RecordBranch,
        RaiseTailCall, WalkMBB, SkipMBB, EndWalk, RaiseDirectBranch, RaiseFallThrough, EndBranches
  <2> QED
    BY <2>1, <2>2 DEF Next, Done
<1> QED
  BY <1>1, <1>2, PTL DEF RaiserSpec, CFGSpec

=============================================================================
