------------------------------ MODULE Disassembly ------------------------------
(***************************************************************************)
(* disassembleObject (llvm-mctoll.cpp): the walk over the symbols of the   *)
(* .text section of an ELF file.  A function symbol that the filter lets   *)
(* through starts a new MachineFunctionRaiser; any other symbol's bytes go *)
(* to the most recent one.  Instructions are decoded one after another;    *)
(* branch targets are collected in BranchTargetSet and handed to a raiser  *)
(* when the next function starts.                                          *)
(*                                                                         *)
(* The bytes of a section are abstracted to what the decoder says of them, *)
(* chosen when they are decoded (no offset is decoded twice).              *)
(***************************************************************************)
EXTENDS FunctionFilter, FiniteSets

CONSTANTS
  SectSize,     \* size of .text, in bytes
  SymTabs,      \* symbol tables: sequences of symbols sorted by address
  Decodings,    \* what getInstruction may answer
  CRTSymbols,   \* ELFCRTSymbols, never raised
  NoName,       \* DummyName, the name of the inserted symbol
  Asserts       \* is assert() compiled in (a build without NDEBUG)?

Offsets == 0..SectSize

\* func: STT_FUNC; object: STT_OBJECT; code, data: STT_NOTYPE, a label in the
\* code or an ARM $d mapping symbol, whose bytes are data words.
SymTypes == {"func", "object", "code", "data"}

Symbols == [name : Names, addr : Nat, type : SymTypes]

BranchKinds == {"jmp", "cond", "indirect"}
InstKinds   == BranchKinds \cup {"plain", "ret"}

\* ok: Disassembled; size: bytes consumed, which a failure may report as 0;
\* disp: the displacement of a direct branch, relative to the next instruction.
Decoded == [ok : BOOLEAN, size : Nat, kind : InstKinds, disp : Int]

Absent == [ok |-> FALSE, size |-> 0, kind |-> "plain", disp |-> 0]
Data   == [ok |-> FALSE, size |-> 1, kind |-> "plain", disp |-> 0]

\* An entry is parsed by a call in the argument of an assert: a build without
\* assert() cannot read one.
ASSUME DisassemblyAssumption ==
  /\ SectSize \in Nat \ {0}
  /\ NoName \in Names
  /\ Asserts \in BOOLEAN
  /\ CRTSymbols \subseteq Names
  /\ ~Asserts => \A c \in Configs : \A i \in 1..Len(c) : c[i].kind # "entry"
  /\ SymTabs \subseteq Seq(Symbols)
  /\ \A tab \in SymTabs : \A i, j \in 1..Len(tab) :
       i < j => tab[i].addr <= tab[j].addr
  /\ Decodings \subseteq Decoded
  /\ \A d \in Decodings : d.ok => d.size > 0

VARIABLES
  symtab,             \* the symbols of the section, the dummy one included
  si,                 \* SI, the symbol being processed
  pc,                 \* "config", "symbol", "decode", "passes"
  index,              \* Index, the offset being decoded
  branchTargetSet,    \* BranchTargetSet
  raisers             \* MFRaiserVector

walkVars == <<symtab, si, pc, index, branchTargetSet, raisers>>
vars == <<filterVars, walkVars>>

\* A MachineFunctionRaiser with its MCInstRaiser: FuncStart, FuncEnd, InstMap
\* and TargetIndices.
Raiser(name, start, end) ==
  [name |-> name, start |-> start, end |-> end,
   insts |-> [o \in Offsets |-> Absent], targets |-> {}]

\* MCInstRaiser::addTarget for every recorded target.
addTargets(r, T) ==
  [r EXCEPT !.targets = @ \cup {t \in T : r.start <= t /\ t <= r.end}]

MinOf(a, b) == IF a < b THEN a ELSE b

Start(i) == symtab[i].addr

\* Mutants: an end beyond the section; an end that ignores the next symbol.
End_Unclamped(i) == IF i = Len(symtab) THEN SectSize ELSE symtab[i + 1].addr
End_OfSection(i) == SectSize

End(i) == IF i = Len(symtab) THEN SectSize
          ELSE MinOf(symtab[i + 1].addr, SectSize)

isAFunctionSymbol(i) == symtab[i].type = "func"

\* RaiseFuncSymbol: a non-empty include list overrides the exclude list.
RaiseFuncSymbol(n) ==
  /\ IF isFilterSetEmpty(included)
     THEN ~findFuncInfoBySymbol(excluded, n)
     ELSE findFuncInfoBySymbol(included, n)
  /\ n \notin CRTSymbols

getCurrentMachineFunctionRaiser == Len(raisers)

-----------------------------------------------------------------------------
\* A section whose first symbol is not at offset 0 of the file gets a dummy
\* function symbol at its start.
DummySymbol == [name |-> NoName, addr |-> 0, type |-> "func"]

Init ==
  /\ FilterInit
  /\ symtab \in {<<DummySymbol>> \o tab : tab \in SymTabs}
  /\ si = 1
  /\ pc = "config"
  /\ index = 0
  /\ branchTargetSet = {}
  /\ raisers = <<>>

ReadConfig ==
  /\ pc = "config"
  /\ ReadConfigLine
  /\ UNCHANGED walkVars

BeginWalk ==
  /\ pc = "config"
  /\ ~Reading
  /\ pc' = "symbol"
  /\ UNCHANGED <<filterVars, symtab, si, index, branchTargetSet, raisers>>

-----------------------------------------------------------------------------
AtSymbol ==
  /\ pc = "symbol"
  /\ si <= Len(symtab)

GotoNextSymbol ==
  /\ si' = si + 1
  /\ UNCHANGED <<symtab, pc, index, branchTargetSet, raisers>>

StartDecoding ==
  /\ pc' = "decode"
  /\ index' = Start(si)
  /\ UNCHANGED <<symtab, si>>

\* Mutant: "continue" without the step to the next symbol.
SkipEmptySymbol_SameSymbol ==
  /\ AtSymbol
  /\ Start(si) >= End(si)
  /\ UNCHANGED vars

\* "If this symbol has the same address as the next symbol, then skip it."
SkipEmptySymbol ==
  /\ AtSymbol
  /\ Start(si) >= End(si)
  /\ GotoNextSymbol
  /\ UNCHANGED filterVars

\* The start index of an excluded function is recorded as it is skipped.
RecordExcludedStart(n) ==
  startIdx' = IF findFuncInfoBySymbol(excluded, n)
              THEN [startIdx EXCEPT ![n] = Start(si)] ELSE startIdx

SkipFilteredFunction ==
  /\ AtSymbol
  /\ Start(si) < End(si)
  /\ isAFunctionSymbol(si)
  /\ ~RaiseFuncSymbol(symtab[si].name)
  /\ RecordExcludedStart(symtab[si].name)
  /\ GotoNextSymbol
  /\ UNCHANGED <<config, line, section, excluded, included>>

\* The targets collected so far belong to the function before this one.
RecordTargets ==
  IF raisers = <<>> THEN raisers
  ELSE [raisers EXCEPT ![Len(raisers)] = addTargets(@, branchTargetSet)]

BeginFunction ==
  /\ AtSymbol
  /\ Start(si) < End(si)
  /\ isAFunctionSymbol(si)
  /\ RaiseFuncSymbol(symtab[si].name)
  /\ RecordExcludedStart(symtab[si].name)
  /\ raisers' = Append(RecordTargets,
                       Raiser(symtab[si].name, Start(si), End(si)))
  /\ branchTargetSet' = {Start(si)}
  /\ StartDecoding
  /\ UNCHANGED <<config, line, section, excluded, included>>

\* No function has been met yet that the bytes could belong to.
SkipOrphanSymbol ==
  /\ AtSymbol
  /\ Start(si) < End(si)
  /\ ~isAFunctionSymbol(si)
  /\ raisers = <<>>
  /\ GotoNextSymbol
  /\ UNCHANGED filterVars

\* adjustFuncEnd is called in the argument of an assert: a build with NDEBUG
\* leaves the function end as it is.
ExtendFunction ==
  /\ AtSymbol
  /\ Start(si) < End(si)
  /\ ~isAFunctionSymbol(si)
  /\ raisers # <<>>
  /\ raisers' = [raisers EXCEPT ![getCurrentMachineFunctionRaiser].end =
                   IF @ < End(si) /\ Asserts THEN End(si) ELSE @]
  /\ branchTargetSet' = branchTargetSet \cup {Start(si)}
  /\ StartDecoding
  /\ UNCHANGED filterVars

-----------------------------------------------------------------------------
Decoding ==
  /\ pc = "decode"
  /\ index < End(si)

addMCInstOrData(o, inst) ==
  raisers' = [raisers EXCEPT ![getCurrentMachineFunctionRaiser].insts[o] = inst]

\* Mutant: only the target of a branch is a leader.
TargetsOf_NoFallThrough(d, o, end) ==
  IF d.kind \in {"jmp", "cond"} THEN {o + d.size + d.disp} ELSE {}

\* The targets an instruction at offset o records: that of a direct branch,
\* and for any branch the next offset, if it is before the symbol's end.
TargetsOf(d, o, end) ==
  (IF d.kind \in {"jmp", "cond"} THEN {o + d.size + d.disp} ELSE {})
  \cup (IF d.kind \in BranchKinds /\ o + d.size < end THEN {o + d.size} ELSE {})

DecodeInst(d) ==
  /\ Decoding
  /\ symtab[si].type \in {"func", "code"}
  /\ d.ok
  /\ index + d.size <= SectSize
  /\ addMCInstOrData(index, d)
  /\ branchTargetSet' = branchTargetSet \cup TargetsOf(d, index, End(si))
  /\ index' = index + d.size
  /\ UNCHANGED <<filterVars, symtab, si, pc>>

\* "Failed to decode instruction": a warning, and on to the next offset.
FailToDecode(d) ==
  /\ Decoding
  /\ symtab[si].type \in {"func", "code"}
  /\ ~d.ok
  /\ index + d.size <= SectSize
  /\ index' = index + (IF d.size = 0 THEN 1 ELSE d.size)
  /\ UNCHANGED <<filterVars, symtab, si, pc, branchTargetSet, raisers>>

AddData ==
  /\ Decoding
  /\ symtab[si].type = "data"
  /\ addMCInstOrData(index, Data)
  /\ index' = index + 1
  /\ UNCHANGED <<filterVars, symtab, si, pc, branchTargetSet>>

\* The bytes of an STT_OBJECT symbol are printed, nothing is recorded.
PrintObject ==
  /\ Decoding
  /\ symtab[si].type = "object"
  /\ index' = End(si)
  /\ UNCHANGED <<filterVars, symtab, si, pc, branchTargetSet, raisers>>

\* A symbol that has been walked leaves the include list.
EndSymbol ==
  /\ pc = "decode"
  /\ index >= End(si)
  /\ pc' = "symbol"
  /\ si' = si + 1
  /\ included' = eraseFunctionBySymbol(included, symtab[si].name)
  /\ UNCHANGED <<config, line, section, excluded, startIdx>>
  /\ UNCHANGED <<symtab, index, branchTargetSet, raisers>>

\* The targets of the last function; then runMachineFunctionPasses.
EndWalk ==
  /\ pc = "symbol"
  /\ si > Len(symtab)
  /\ raisers' = RecordTargets
  /\ pc' = "passes"
  /\ UNCHANGED <<filterVars, symtab, si, index, branchTargetSet>>

\* The walk stays where the passes take over.
Finished == pc = "passes" /\ UNCHANGED vars

-----------------------------------------------------------------------------
WalkSymbol ==
  \/ SkipEmptySymbol \/ SkipFilteredFunction \/ BeginFunction
  \/ SkipOrphanSymbol \/ ExtendFunction

Decode ==
  \/ \E d \in Decodings : DecodeInst(d) \/ FailToDecode(d)
  \/ AddData \/ PrintObject \/ EndSymbol

Next == ReadConfig \/ BeginWalk \/ WalkSymbol \/ Decode \/ EndWalk \/ Finished

Spec == Init /\ [][Next]_vars

\* One thread runs the walk to its end.
FairSpec == Spec /\ WF_vars(Next)

-----------------------------------------------------------------------------
(* Properties. *)

RaiserSet == [name : Names, start : Offsets, end : Offsets,
              insts : [Offsets -> Decodings \cup {Absent, Data}],
              targets : SUBSET Int]

\* The types of the lists, of the walk and of the raisers it fills.  The end
\* of a symbol is clamped to the section: no offset beyond it is decoded.
TypeOK ==
  /\ FilterTypeOK
  /\ symtab \in Seq(Symbols)
  /\ si \in 1..(Len(symtab) + 1)
  /\ pc \in {"config", "symbol", "decode", "passes"}
  /\ index \in Offsets
  /\ branchTargetSet \subseteq Int
  /\ raisers \in Seq(RaiserSet)

\* FunctionFilter.cpp:165-187: a function of the exclude section is not
\* raised, whatever the include section says, in either order.
ExcludedNeverRaised ==
  \A i \in DOMAIN raisers : raisers[i].name \notin ExcludeRequests(config)

Empty(i) == Start(i) >= End(i)

\* No two raised functions share a byte, also after their ends were moved.
RangesDisjoint ==
  \A i, j \in DOMAIN raisers : i < j => raisers[i].end <= raisers[j].start

\* What a raiser holds lies between its FuncStart and FuncEnd, the bounds that
\* addTarget, buildCFG and getMCInstSize rely on.
InstsInRange ==
  \A i \in DOMAIN raisers : \A o \in Offsets :
    raisers[i].insts[o] # Absent => raisers[i].start <= o /\ o < raisers[i].end

SymbolStarts == {symtab[i].addr : i \in DOMAIN symtab}

\* When buildCFG starts, every raiser knows all its leaders: its first
\* instruction, the in-range target of each branch, and the instruction after
\* a branch (unless a symbol cuts that branch in two).
LeadersRecorded ==
  pc = "passes" =>
    \A i \in DOMAIN raisers :
      LET r == raisers[i] IN
      /\ r.start \in r.targets
      /\ \A o \in Offsets :
           r.insts[o].kind \in BranchKinds =>
             LET next == o + r.insts[o].size
                 target == next + r.insts[o].disp IN
             /\ /\ r.insts[o].kind # "indirect"
                /\ r.start <= target /\ target < r.end
                => target \in r.targets
             /\ /\ next \in Offsets
                /\ r.insts[next] # Absent
                /\ ~\E a \in SymbolStarts : o < a /\ a < next
                => next \in r.targets

\* llvm-mctoll.cpp:1055,1280: collected targets always have a raiser to go to;
\* the second place dereferences it unchecked.
TargetsHaveARaiser == branchTargetSet # {} => raisers # <<>>

\* Once the next function has begun, a raiser is never touched again.
OlderRaisersFrozen ==
  [][\A i \in 1..(Len(raisers) - 1) : raisers'[i] = raisers[i]]_vars

\* The walk ends, also when the decoder fails without consuming a byte, unless
\* the reader spins on an overlong line.
WalkTerminates ==
  (\A i \in 1..Len(config) : config[i].kind # "overlong") => <>(pc = "passes")
=============================================================================
