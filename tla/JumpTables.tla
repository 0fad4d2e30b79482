------------------------------- MODULE JumpTables -------------------------------
(***************************************************************************)
(* raiseMachineJumpTable and raiseIndirectBranchMachineInstr: an indirect  *)
(* branch through a table in the data becomes a switch.  The blocks are    *)
(* scanned for the computation of a table's base; the table is what can be *)
(* read from there as addresses of the function; the block that checked    *)
(* the bound gets the switch, and the block that made the jump goes away.  *)
(*                                                                         *)
(* Abstraction: the data is a sequence of words, one per table entry; an   *)
(* address of the function is a number, two to a block, and any other word *)
(* is no address of it.  A switch is on one value; what is compared with   *)
(* the bound is that value, or a copy of it, less a lower bound.           *)
(***************************************************************************)
EXTENDS Naturals, FiniteSets, SequencesExt, FiniteSetsExt

CONSTANTS LastBlock,   \* the number of the last block; block 0 is the entry
          Functions,   \* the functions: [code, preds, words, sections]
          MaxIndex     \* the largest value that is switched on

Blocks == 0 .. LastBlock
FuncEnd == 2 * (LastBlock + 1)
NoBlock == LastBlock + 2   \* no block: -1, or a pointer that is not set

ASSUME JumpTablesAssumption == LastBlock \in Nat /\ MaxIndex \in Nat

\* Instructions other than the last one of a block: those that take the base of a table
\* are lea and mov.
Instrs == [op : {"lea", "mov", "other"}, base : Nat, def : STRING]
Terminators == [op : {"jmp", "none", "ret", "ijmp"}] \cup [op : {"jcc"}, target : Blocks] \cup
               [op : {"ijmpmem"}, base : Nat]
TableBranches == {"ijmp", "ijmpmem"}

Successors(f, b) == {c \in Blocks : b \in ToSet(f.preds[c])}

\* The switches of the code: the block with the check, which goes elsewhere beyond the
\* bound, and the one with the branch.
SwitchesIn(f) ==
  {s \in Blocks \X Blocks :
     /\ f.code[s[1]].term.op = "jcc" /\ f.code[s[1]].term.target # s[2]
     /\ s[2] \in Successors(f, s[1])
     /\ f.code[s[2]].term.op \in TableBranches}

\* A check has two ways to go on; sections do not overlap; a table is not empty, lies in a
\* section and leads into the function.
ASSUME FunctionsAssumption ==
  \A f \in Functions :
    /\ \A b \in Blocks :
         LET k == f.code[b] IN
         /\ k.mis \in Seq(Instrs) /\ k.term \in Terminators /\ f.preds[b] \in Seq(Blocks)
         /\ k.term.op = "jcc" => \E c \in Blocks : Successors(f, b) = {k.term.target, c}
         /\ k.term.op = "ijmp" =>
              \A i \in DOMAIN k.mis : k.mis[i].op \in {"lea", "mov"} => k.mis[i].base = k.base
         /\ k.term.op = "ijmpmem" => k.term.base = k.base
    /\ f.words \in Seq(Nat) /\ f.sections \in Seq([start : Nat, end : Nat])
    /\ \A i, j \in DOMAIN f.sections :
         /\ f.sections[i].start <= f.sections[i].end /\ f.sections[i].end <= Len(f.words)
         /\ i < j => f.sections[i].end <= f.sections[j].start
    /\ \A s \in SwitchesIn(f) :
         LET base == f.code[s[2]].base
             end == base + f.code[s[1]].bound
         IN  /\ base \in Nat /\ f.code[s[1]].bound \in Nat \ {0}
             /\ \E sec \in ToSet(f.sections) : sec.start <= base /\ end <= sec.end
             /\ \A k \in base .. end - 1 : f.words[k + 1] < FuncEnd

VARIABLES
  fn,         \* the function
  phase,      \* "scan", "erase", "raise", "raised", "failed" or "undefined"
  at,         \* the instruction the scan has come to: <<block, index>>
  term,       \* the terminator of each block: [op, target, ...]
  succs,      \* the successors of each block
  JTList,     \* the jump tables: [MBBs, ConditionMBB, DefaultMBB]
  toErase,    \* MBBsToBeErased
  switches    \* the raised switches: switch block :> [low, cases, default]

tableVars == <<fn, phase, at, term, succs, JTList, toErase, switches>>

preds(b) == {c \in Blocks : b \in succs[c]}
PredsInOrder(b) == SelectSeq(fn.preds[b], LAMBDA c : b \in succs[c])

-----------------------------------------------------------------------------
(* The table. *)

\* The block the address lies in, whether or not it starts it.
getMBBNumberOfMCInstOffset(a) == IF a < FuncEnd THEN a \div 2 ELSE NoBlock

\* The first section that the base lies in, its end included.
SectionOf(base) ==
  SelectInSeq(fn.sections, LAMBDA s : s.start <= base /\ base <= s.end)

\* Mutant: the scan stops before the last entry of the section.
TableAt_NotLast(base) ==
  LET s == SectionOf(base)
      Entry(k) == getMBBNumberOfMCInstOffset(fn.words[k + 1])
      good == {n \in 0 .. fn.sections[s].end - base :
                 /\ n > 0 => base + n < fn.sections[s].end
                 /\ \A k \in base .. base + n - 1 : Entry(k) # NoBlock}
  IN  IF s = 0 THEN <<>> ELSE [n \in 1 .. Max(good) |-> Entry(base + n - 1)]

\* The entries from the base to the first that is no address of the function, or to the
\* end of the section.
TableAt(base) ==
  LET s == SectionOf(base)
      Entry(k) == getMBBNumberOfMCInstOffset(fn.words[k + 1])
      good == {n \in 0 .. fn.sections[s].end - base :
                 \A k \in base .. base + n - 1 : Entry(k) # NoBlock}
  IN  IF s = 0 THEN <<>> ELSE [n \in 1 .. Max(good) |-> Entry(base + n - 1)]

-----------------------------------------------------------------------------
(* The scan. *)

Init ==
  /\ fn \in Functions
  /\ phase = "scan"
  /\ at = <<0, 1>>
  /\ term = [b \in Blocks |-> fn.code[b].term]
  /\ succs = [b \in Blocks |-> Successors(fn, b)]
  /\ JTList = <<>>
  /\ toErase = {}
  /\ switches = <<>>

Indirect == TableBranches \cup {"jti"}
Insts(b) == fn.code[b].mis \o (IF term[b].op = "ijmpmem" THEN <<term[b]>> ELSE <<>>)
Continue == at' = <<at[1], at[2] + 1>> /\ UNCHANGED <<fn, phase, term, succs, JTList, toErase, switches>>
Stop(how) == phase' = how /\ UNCHANGED <<fn, at, term, succs, JTList, toErase, switches>>

\* The register loaded from the table must reach the branch.
Redefined(b, i) ==
  /\ i \in DOMAIN fn.code[b].mis /\ fn.code[b].mis[i].op = "mov"
  /\ \E k \in i + 1 .. Len(fn.code[b].mis) : fn.code[b].mis[k].def = fn.code[b].mis[i].def

Candidate ==
  /\ at[2] <= Len(Insts(at[1]))
  /\ LET mi == Insts(at[1])[at[2]] IN
     mi.op \in {"lea", "mov", "ijmpmem"} /\ TableAt(mi.base) # <<>>

NextMBB ==
  /\ phase = "scan" /\ at[2] > Len(Insts(at[1]))
  /\ at' = <<at[1] + 1, 1>>
  /\ phase' = IF at[1] = LastBlock THEN "erase" ELSE phase
  /\ UNCHANGED <<fn, term, succs, JTList, toErase, switches>>

\* No base of a table, or not of one that ends this block.
SkipInst ==
  /\ phase = "scan" /\ at[2] <= Len(Insts(at[1]))
  /\ \/ ~Candidate
     \/ term[at[1]].op \in {"jcc", "ret"}
     \/ Redefined(at[1], at[2])
  /\ Continue

Buildable ==
  /\ phase = "scan" /\ Candidate
  /\ term[at[1]].op \notin {"jcc", "ret"}
  /\ ~Redefined(at[1], at[2])

\* A base in a block that falls through.
NoTerminator == Buildable /\ term[at[1]].op = "none" /\ Stop("failed")

BuildTable(switch, condition, default, erased) ==
  LET MBBs == TableAt(Insts(at[1])[at[2]].base) IN
  /\ JTList' = Append(JTList, [MBBs |-> MBBs, ConditionMBB |-> condition, DefaultMBB |-> default])
  /\ term' = [term EXCEPT ![switch] = [op |-> "jti", index |-> Len(JTList) + 1]]
  /\ succs' = [succs EXCEPT ![switch] = @ \cup ToSet(MBBs)]
  /\ toErase' = toErase \cup erased
  /\ at' = <<at[1], at[2] + 1>>
  /\ UNCHANGED <<fn, phase, switches>>

\* The block jumps to the one with the indirect branch: the default is another block that
\* jumps there; without one it is not initialized.
BuildAfterJump ==
  /\ Buildable /\ term[at[1]].op = "jmp"
  /\ LET switch == CHOOSE b \in succs[at[1]] : TRUE
         others == SelectSeq(PredsInOrder(switch), LAMBDA c : c # at[1])
     IN  \/ term[switch].op \notin Indirect /\ Stop("failed")
         \/ /\ term[switch].op \in Indirect
            /\ BuildTable(switch, Head(PredsInOrder(switch)),
                          IF others = <<>> THEN NoBlock ELSE Head(others), {})

\* The block with the indirect branch: the bound is checked in its predecessor, whose
\* other successor is the default.
BuildAtIndirect ==
  /\ Buildable /\ term[at[1]].op \in Indirect
  /\ LET switch == CHOOSE b \in preds(at[1]) : TRUE IN
     \/ /\ \/ Cardinality(preds(at[1])) # 1 \/ Cardinality(succs[switch]) # 2
           \/ term[switch].op # "jcc"
        /\ Stop("failed")
     \/ /\ Cardinality(preds(at[1])) = 1 /\ Cardinality(succs[switch]) = 2
        /\ term[switch].op = "jcc"
        /\ BuildTable(switch, switch, CHOOSE c \in succs[switch] : c # at[1], {at[1]})

\* Mutant: the successor lists keep the erased blocks.
EraseMBBs_KeepEdges ==
  /\ phase = "erase"
  /\ phase' = "raise"
  /\ term' = [b \in Blocks |-> IF b \in toErase THEN [op |-> "erased"] ELSE term[b]]
  /\ UNCHANGED <<fn, at, succs, JTList, toErase, switches>>

\* A block is taken from the successors of its predecessors while the list of these is
\* walked: from the third on the walk reads what is no longer in the list.
Overruns == \E b \in toErase : Cardinality(preds(b)) > 2

EraseMBBs ==
  /\ phase = "erase"
  /\ phase' = IF Overruns THEN "undefined" ELSE "raise"
  /\ succs' = [b \in Blocks |-> IF b \in toErase THEN {} ELSE succs[b] \ toErase]
  /\ term' = [b \in Blocks |-> IF b \in toErase THEN [op |-> "erased"] ELSE term[b]]
  /\ UNCHANGED <<fn, at, JTList, toErase, switches>>

-----------------------------------------------------------------------------
(* The switches. *)

\* What the switch is on more than the value that is compared: a sub has the value before
\* it as operand, a cmp the operand of what defined the register it compares.  Nothing
\* when that is no instruction (an argument), or not a number (a load).  A xor, for which
\* the code has a case of its own, does not check a bound and is left out.
getSwitchCompareValue(b) ==
  LET cmp == fn.code[b].cmp IN
  CASE cmp.op = "sub" \/ cmp.def = "cast" -> {0}
    [] cmp.op = "cmp" /\ cmp.def = "sub" -> {cmp.low}
    [] OTHER -> {}

Unraised == {b \in Blocks : term[b].op \in Indirect /\ b \notin DOMAIN switches}

raiseIndirectBranchMachineInstr ==
  /\ phase = "raise"
  /\ \E b \in Unraised :
       \/ term[b].op # "jti" /\ Stop("failed")
       \/ /\ term[b].op = "jti"
          /\ LET info == JTList[term[b].index]
                 lows == getSwitchCompareValue(info.ConditionMBB)
                 dangling == info.DefaultMBB = NoBlock \/ ToSet(info.MBBs) \cap toErase # {}
             IN  \/ lows = {} /\ Stop("failed")
                 \/ lows # {} /\ dangling /\ Stop("undefined")
                 \/ \E low \in lows :
                    /\ ~dangling
                    /\ switches' = [c \in DOMAIN switches \cup {b} |->
                                      IF c # b THEN switches[c]
                                      ELSE [low |-> low, cases |-> info.MBBs,
                                            default |-> info.DefaultMBB]]
                    /\ UNCHANGED <<fn, phase, at, term, succs, JTList, toErase>>

FinishRaising ==
  /\ phase = "raise" /\ Unraised = {}
  /\ Stop("raised")

Done == phase \in {"raised", "failed", "undefined"} /\ UNCHANGED tableVars

Next ==
  \/ NextMBB \/ SkipInst \/ NoTerminator \/ BuildAfterJump \/ BuildAtIndirect \/ EraseMBBs
  \/ raiseIndirectBranchMachineInstr \/ FinishRaising \/ Done
Spec == Init /\ [][Next]_tableVars

-----------------------------------------------------------------------------
(* The machine. *)

SwitchesOf == SwitchesIn(fn)
Bound(s) == fn.code[s[1]].bound
Base(s) == fn.code[s[2]].base
TableEnd(s) == Base(s) + Bound(s)

\* Where the machine goes for index x: beyond the bound to the target of the branch.
MachineTarget(s, x) ==
  IF x >= Bound(s) THEN 2 * fn.code[s[1]].term.target ELSE fn.words[Base(s) + x + 1]

\* Where the raised function goes: the start of a block.
RaisedTarget(s, x) ==
  LET sw == switches[s[1]]
      v == x + sw.low
  IN  2 * (IF v < Len(sw.cases) THEN sw.cases[v + 1] ELSE sw.default)

\* No table is followed by something that reads as an entry of it.
TablesApart ==
  \A s \in SwitchesOf :
    \/ \E sec \in ToSet(fn.sections) : sec.end = TableEnd(s)
    \/ getMBBNumberOfMCInstOffset(fn.words[TableEnd(s) + 1]) = NoBlock

\* Every entry is the start of a block, as it is unless a case falls into the next one.
EntriesLead ==
  \A s \in SwitchesOf : \A x \in 0 .. Bound(s) - 1 : fn.words[Base(s) + x + 1] % 2 = 0

\* No case is itself a branch through a table, which would pass by the check.
EntriesGuarded ==
  \A s \in SwitchesOf : \A x \in 0 .. Bound(s) - 1 :
    fn.code[getMBBNumberOfMCInstOffset(fn.words[Base(s) + x + 1])].term.op \notin TableBranches

\* The bound is not checked by a cmp of a difference.
ComparedDirectly ==
  \A s \in SwitchesOf : LET cmp == fn.code[s[1]].cmp IN
    cmp.op = "cmp" /\ cmp.def = "sub" => cmp.low = 0

\* No table starts where another section ends.
BasesInside ==
  \A s \in SwitchesOf : \A sec \in ToSet(fn.sections) : sec.end # Base(s)

\* One base in every block that branches through a table, none elsewhere, and nothing
\* between it and the branch that writes its register.
BasesAtBranches ==
  \A b \in Blocks :
    LET bases == {i \in DOMAIN fn.code[b].mis : fn.code[b].mis[i].op \in {"lea", "mov"}} IN
    CASE fn.code[b].term.op = "ijmp" -> \E i \in bases : bases = {i} /\ ~Redefined(b, i)
      [] OTHER -> bases = {}

\* Every branch through a table is reached from its check only, which compares a number.
ChecksGuard ==
  \A b \in Blocks : fn.code[b].term.op \in TableBranches =>
    /\ Len(fn.preds[b]) = 1
    /\ \E s \in SwitchesOf : s[2] = b
ComparesNumbers == \A s \in SwitchesOf : getSwitchCompareValue(s[1]) # {}

-----------------------------------------------------------------------------
(* Properties. *)

\* raiseMachineJumpTable and raiseIndirectBranchMachineInstr: the assertions of the
\* discovery, and the one on a branch left without a table, hold for the code a compiler
\* makes of a switch; and for every value the switch goes where the check and the table
\* send the machine, although the check is deleted and the extent of the table is read
\* off its contents.
SwitchFollows ==
  TablesApart /\ BasesAtBranches /\ ChecksGuard =>
    /\ ComparesNumbers /\ BasesInside /\ EntriesGuarded => phase \notin {"failed", "undefined"}
    /\ phase = "raised" /\ EntriesLead /\ ComparedDirectly =>
         \A s \in SwitchesOf : /\ s[1] \in DOMAIN switches
                               /\ \A x \in 0 .. MaxIndex : RaisedTarget(s, x) = MachineTarget(s, x)

\* The edges the switches are raised over: a switch block leads to its default and the
\* entries of its table, and no edge leads to a block that is erased.
EdgesFollowTables ==
  phase \in {"raise", "raised"} =>
    \A b \in Blocks :
      /\ \A c \in succs[b] : term[c].op # "erased"
      /\ term[b].op = "jti" /\ BasesAtBranches /\ ChecksGuard =>
           LET info == JTList[term[b].index] IN
           succs[b] = (ToSet(info.MBBs) \ toErase) \cup {info.DefaultMBB}

=============================================================================
