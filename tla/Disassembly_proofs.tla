--------------------------- MODULE Disassembly_proofs ---------------------------
(***************************************************************************)
(* Theorems about Disassembly, for every symbol table, configuration file  *)
(* and decoder: type correctness, the ranges of the raisers, where their   *)
(* instructions lie, that an excluded function is never raised, and that   *)
(* in a build with assertions the leaders of every function are recorded.  *)
(***************************************************************************)
EXTENDS Disassembly, TLAPS

-----------------------------------------------------------------------------
(* Type correctness. *)

\* addTargets keeps a raiser a raiser.
LEMMA AddTargetsType ==
  ASSUME NEW r \in RaiserSet, NEW T \in SUBSET Int
  PROVE  /\ addTargets(r, T) \in RaiserSet
         /\ addTargets(r, T).start = r.start
         /\ addTargets(r, T).end = r.end
         /\ addTargets(r, T).name = r.name
         /\ addTargets(r, T).insts = r.insts
BY DEF addTargets, RaiserSet

\* Handing the collected targets over changes nothing but the targets of the
\* last raiser.
LEMMA RecordTargetsType ==
  ASSUME TypeOK
  PROVE  /\ RecordTargets \in Seq(RaiserSet)
         /\ Len(RecordTargets) = Len(raisers)
         /\ \A i \in 1..Len(raisers) :
              /\ RecordTargets[i].start = raisers[i].start
              /\ RecordTargets[i].end = raisers[i].end
              /\ RecordTargets[i].name = raisers[i].name
              /\ RecordTargets[i].insts = raisers[i].insts
              /\ i < Len(raisers) => RecordTargets[i] = raisers[i]
<1>1. raisers \in Seq(RaiserSet) /\ branchTargetSet \in SUBSET Int
  BY DEF TypeOK
<1>2. CASE raisers = <<>>
  BY <1>1, <1>2 DEF RecordTargets
<1>3. CASE raisers # <<>>
  <2> DEFINE n == Len(raisers)
  <2>1. n \in 1..Len(raisers) /\ raisers[n] \in RaiserSet
    BY <1>1, <1>3
  <2>2. addTargets(raisers[n], branchTargetSet) \in RaiserSet
    BY <1>1, <2>1, AddTargetsType
  <2>3. RecordTargets =
          [raisers EXCEPT ![n] = addTargets(raisers[n], branchTargetSet)]
    BY <1>3 DEF RecordTargets
  <2>4. RecordTargets \in Seq(RaiserSet) /\ Len(RecordTargets) = Len(raisers)
    BY <1>1, <2>1, <2>2, <2>3
  <2>5. \A i \in 1..Len(raisers) : i # n => RecordTargets[i] = raisers[i]
    BY <1>1, <2>1, <2>3
  <2>6. RecordTargets[n] = addTargets(raisers[n], branchTargetSet)
    BY <1>1, <2>1, <2>3
  <2> QED
    BY <1>1, <2>1, <2>4, <2>5, <2>6, AddTargetsType
<1> QED
  BY <1>2, <1>3

\* The end of a symbol is in the section, and not after the next symbol.
LEMMA EndFacts ==
  ASSUME TypeOK, NEW i \in 1..Len(symtab)
  PROVE  /\ Start(i) \in Nat
         /\ End(i) \in Nat
         /\ End(i) <= SectSize
         /\ i < Len(symtab) => End(i) <= Start(i + 1)
<1>1. symtab \in Seq(Symbols) /\ Len(symtab) \in Nat /\ SectSize \in Nat
  BY DisassemblyAssumption DEF TypeOK
<1>2. \A j \in 1..Len(symtab) : symtab[j].addr \in Nat
  <2>1. \A j \in 1..Len(symtab) : symtab[j] \in Symbols
    BY <1>1
  <2> QED
    BY <2>1 DEF Symbols
<1>3. Start(i) \in Nat
  BY <1>2 DEF Start
<1>4. CASE i = Len(symtab)
  BY <1>1, <1>3, <1>4 DEF End
<1>5. CASE i < Len(symtab)
  <2>1. symtab[i + 1].addr \in Nat
    BY <1>1, <1>2, <1>5
  <2> QED
    BY <1>1, <1>3, <1>5, <2>1 DEF Start, End, MinOf
<1> QED
  BY <1>1, <1>3, <1>4, <1>5

\* What a step that reads the configuration does to its own variables.
LEMMA ReadConfigLineType ==
  ASSUME FilterTypeOK, ReadConfigLine
  PROVE  FilterTypeOK'
<1> USE ConfigsAssumption DEF FilterTypeOK, Sections
<1>1. config \in Seq(Lines)
  OBVIOUS
<1>2. ASSUME Reading PROVE config[line].name \in Names
  <2>1. line \in 1..Len(config)
    BY <1>1, <1>2 DEF Reading
  <2>2. config[line] \in Lines
    BY <1>1, <2>1
  <2> QED
    BY <2>2 DEF Lines
<1>3. CASE OpenExclude
  BY <1>1, <1>3 DEF OpenExclude, NextLine, Reading
<1>4. CASE OpenInclude
  BY <1>1, <1>4 DEF OpenInclude, NextLine, Reading
<1>5. CASE CloseSection
  BY <1>1, <1>5 DEF CloseSection, NextLine, Reading
<1>6. CASE ReadEntry
  <2>1. line' \in 1..(Len(config') + 1) /\ config' \in Configs /\ startIdx' \in [Names -> Nat]
    BY <1>1, <1>6 DEF ReadEntry, NextLine, Reading
  <2>2. config[line].name \in Names
    BY <1>2, <1>6 DEF ReadEntry, NextLine
  <2> DEFINE n == config[line].name
  <2> DEFINE ListsTyped == excluded' \in [Names -> Nat] /\ included' \in [Names -> Nat]
  <2>3. ASSUME addExcludedFunction(n) PROVE ListsTyped
    BY <2>2, <2>3 DEF addExcludedFunction, eraseFunctionBySymbol
  <2>4. ASSUME addIncludedFunction(n) PROVE ListsTyped
    BY <2>2, <2>4 DEF addIncludedFunction
  <2>5. ASSUME UNCHANGED <<excluded, included>> PROVE ListsTyped
    BY <2>5
  <2>6. ListsTyped
    BY <1>6, <2>3, <2>4, <2>5 DEF ReadEntry
  <2>7. section' \in Sections
    BY <1>6 DEF ReadEntry
  <2> QED
    BY <2>1, <2>6, <2>7
<1>7. CASE IgnoreLine
  BY <1>1, <1>7 DEF IgnoreLine, NextLine, Reading
<1>8. CASE ReadOverlongLine
  BY <1>8 DEF ReadOverlongLine, filterVars
<1> QED
  BY <1>3, <1>4, <1>5, <1>6, <1>7, <1>8 DEF ReadConfigLine

\* The walk begins with typed variables: the dummy symbol is a symbol.
LEMMA InitTypeOK == Init => TypeOK
<1> SUFFICES ASSUME Init PROVE TypeOK
  OBVIOUS
<1>1. FilterTypeOK
  <2>1. config \in Seq(Lines)
    BY ConfigsAssumption DEF Init, FilterInit
  <2> QED
    BY <2>1 DEF Init, FilterInit, FilterTypeOK, Sections
<1>2. DummySymbol \in Symbols
  BY DisassemblyAssumption DEF DummySymbol, Symbols, SymTypes
<1>3. symtab \in Seq(Symbols) /\ Len(symtab) \in Nat \ {0}
  <2>1. PICK tab \in SymTabs : symtab = <<DummySymbol>> \o tab
    BY DEF Init
  <2>2. tab \in Seq(Symbols)
    BY DisassemblyAssumption
  <2> QED
    BY <1>2, <2>1, <2>2
<1> QED
  BY <1>1, <1>3, DisassemblyAssumption DEF Init, TypeOK, Offsets

\* The raiser of a function that begins is one.
LEMMA NewRaiserType ==
  ASSUME TypeOK, NEW n \in Names, NEW a \in Offsets, NEW b \in Offsets
  PROVE  Raiser(n, a, b) \in RaiserSet
BY DEF Raiser, RaiserSet

\* A decoded instruction goes into the last raiser and changes nothing else.
LEMMA AddInstType ==
  ASSUME TypeOK, raisers # <<>>, NEW d \in Decodings \cup {Data},
         NEW o \in Offsets, addMCInstOrData(o, d)
  PROVE  /\ raisers' \in Seq(RaiserSet)
         /\ Len(raisers') = Len(raisers)
         /\ \A i \in 1..Len(raisers) :
              /\ raisers'[i].start = raisers[i].start
              /\ raisers'[i].end = raisers[i].end
              /\ raisers'[i].name = raisers[i].name
              /\ i < Len(raisers) => raisers'[i] = raisers[i]
         /\ \A p \in Offsets :
              p # o => raisers'[Len(raisers)].insts[p] = raisers[Len(raisers)].insts[p]
<1> DEFINE n == Len(raisers)
           r == [raisers[n] EXCEPT !.insts[o] = d]
<1>1. raisers \in Seq(RaiserSet) /\ n \in 1..Len(raisers) /\ raisers[n] \in RaiserSet
  BY DEF TypeOK
<1>2. /\ r \in RaiserSet
      /\ r.start = raisers[n].start /\ r.end = raisers[n].end /\ r.name = raisers[n].name
      /\ \A p \in Offsets : p # o => r.insts[p] = raisers[n].insts[p]
  BY <1>1 DEF RaiserSet
<1>3. raisers' = [raisers EXCEPT ![n] = r]
  BY DEF addMCInstOrData, getCurrentMachineFunctionRaiser
<1> HIDE DEF r
<1>4. raisers' \in Seq(RaiserSet) /\ Len(raisers') = Len(raisers) /\ raisers'[n] = r
  BY <1>1, <1>2, <1>3
<1>5. \A i \in 1..Len(raisers) : i # n => raisers'[i] = raisers[i]
  BY <1>1, <1>3
<1> QED
  BY <1>1, <1>2, <1>4, <1>5

-----------------------------------------------------------------------------
(* The inductive invariant of the walk. *)

Sorted ==
  \A i, j \in 1..Len(symtab) : i < j => symtab[i].addr <= symtab[j].addr

\* A symbol is decoded only with a raiser to put it in.
DecodeHasRaiser == pc = "decode" => si <= Len(symtab) /\ raisers # <<>>

Last == Len(raisers)

\* Between two symbols all raisers lie before the next symbol; while a symbol
\* is decoded its bytes end the last raiser.
LastRaiserPlaced ==
  /\ pc \in {"config", "symbol"} /\ si <= Len(symtab) /\ raisers # <<>> =>
       raisers[Last].end <= Start(si)
  /\ pc = "decode" =>
       /\ raisers[Last].start <= Start(si)
       /\ Start(si) <= index
       /\ raisers[Last].end <= End(si)
       /\ Asserts => raisers[Last].end = End(si)

RangesOrdered == \A i \in 1..Len(raisers) : raisers[i].start <= raisers[i].end

InstsPlaced == Asserts => InstsInRange

WalkInv ==
  /\ TypeOK
  /\ Sorted
  /\ DecodeHasRaiser
  /\ LastRaiserPlaced
  /\ RangesOrdered
  /\ RangesDisjoint
  /\ InstsPlaced
  /\ TargetsHaveARaiser

\* A step that leaves the raisers and the collected targets alone, and moves on
\* to a symbol that comes later, keeps the invariant.
LEMMA SkipKeepsWalkInv ==
  ASSUME WalkInv, pc = "symbol", si <= Len(symtab), si' = si + 1, FilterTypeOK',
         UNCHANGED <<symtab, pc, index, branchTargetSet, raisers>>
  PROVE  WalkInv'
<1>1. TypeOK'
  BY DEF WalkInv, TypeOK
<1>2. si \in 1..Len(symtab) /\ Start(si) \in Nat
  BY EndFacts DEF WalkInv, TypeOK
<1>3. LastRaiserPlaced'
  <2> SUFFICES ASSUME si + 1 <= Len(symtab), raisers # <<>>
               PROVE  raisers[Last].end <= symtab[si + 1].addr
    BY DEF LastRaiserPlaced, Last, Start
  <2>1. raisers[Last].end <= symtab[si].addr
    BY DEF WalkInv, LastRaiserPlaced, Start
  <2>2. symtab[si].addr <= symtab[si + 1].addr
    BY <1>2 DEF WalkInv, Sorted, TypeOK
  <2>3. raisers[Last] \in RaiserSet
    BY DEF WalkInv, TypeOK, Last
  <2>4. raisers[Last].end \in Nat
    BY <2>3, DisassemblyAssumption DEF RaiserSet, Offsets
  <2>5. symtab[si + 1].addr \in Nat
    BY <1>2, EndFacts DEF WalkInv, TypeOK, Start
  <2> QED
    BY <1>2, <2>1, <2>2, <2>4, <2>5 DEF Start
<1> QED
  BY <1>1, <1>3 DEF WalkInv, Sorted, DecodeHasRaiser, RangesOrdered, RangesDisjoint,
                    InstsPlaced, InstsInRange, TargetsHaveARaiser

\* A step of the decoder that only advances the offset keeps the invariant.
LEMMA AdvanceKeepsWalkInv ==
  ASSUME WalkInv, pc = "decode", index' \in Offsets, index <= index',
         UNCHANGED <<filterVars, symtab, si, pc, branchTargetSet, raisers>>
  PROVE  WalkInv'
<1>1. TypeOK'
  BY DEF WalkInv, TypeOK, FilterTypeOK, filterVars
<1>2. Start(si) \in Nat /\ index \in Int /\ index' \in Int
  BY EndFacts, DisassemblyAssumption DEF WalkInv, TypeOK, DecodeHasRaiser, Offsets
<1>3. LastRaiserPlaced'
  BY <1>2 DEF WalkInv, LastRaiserPlaced, Last, Start, End
<1> QED
  BY <1>1, <1>3 DEF WalkInv, Sorted, DecodeHasRaiser, RangesOrdered, RangesDisjoint,
                    InstsPlaced, InstsInRange, TargetsHaveARaiser

\* What the type invariant says of the symbol being processed.
LEMMA SymbolFacts ==
  ASSUME WalkInv, si <= Len(symtab)
  PROVE  /\ si \in 1..Len(symtab)
         /\ symtab[si].name \in Names
         /\ Start(si) \in Nat /\ End(si) \in Nat /\ End(si) <= SectSize
         /\ SectSize \in Nat
<1>1. si \in 1..Len(symtab) /\ symtab \in Seq(Symbols)
  BY DEF WalkInv, TypeOK
<1>2. symtab[si] \in Symbols
  BY <1>1
<1> QED
  BY <1>1, <1>2, EndFacts, DisassemblyAssumption DEF WalkInv, Symbols

\* The raisers, as the type invariant has them.
LEMMA RaiserFacts ==
  ASSUME WalkInv, NEW i \in 1..Len(raisers)
  PROVE  /\ raisers[i] \in RaiserSet
         /\ raisers[i].start \in Nat /\ raisers[i].start <= SectSize
         /\ raisers[i].end \in Nat /\ raisers[i].end <= SectSize
<1>1. raisers[i] \in RaiserSet
  BY DEF WalkInv, TypeOK
<1> QED
  BY <1>1, DisassemblyAssumption DEF RaiserSet, Offsets

\* The raiser of a new function starts where no other one ends later, and takes
\* the collected targets with it.
LEMMA BeginFunctionKeepsWalkInv ==
  ASSUME WalkInv, BeginFunction PROVE WalkInv'
<1> DEFINE new == Raiser(symtab[si].name, Start(si), End(si))
<1>1. /\ si \in 1..Len(symtab) /\ symtab[si].name \in Names
      /\ Start(si) \in Nat /\ End(si) \in Nat /\ End(si) <= SectSize
      /\ SectSize \in Nat /\ Start(si) < End(si)
  BY SymbolFacts DEF BeginFunction, AtSymbol
<1>2. Start(si) \in Offsets /\ End(si) \in Offsets
  BY <1>1 DEF Offsets
<1>3. new \in RaiserSet
  BY <1>1, <1>2, NewRaiserType DEF WalkInv
<1>4. /\ RecordTargets \in Seq(RaiserSet)
      /\ raisers' = Append(RecordTargets, new)
      /\ Len(RecordTargets) = Len(raisers) /\ Len(raisers) \in Nat
  BY RecordTargetsType DEF BeginFunction, WalkInv, TypeOK
<1>5. raisers' \in Seq(RaiserSet) /\ Len(raisers') = Len(raisers) + 1
  BY <1>3, <1>4
<1>6. raisers'[Len(raisers) + 1] = new
  BY <1>3, <1>4
<1>7. \A i \in 1..Len(raisers) :
        /\ raisers'[i].start = raisers[i].start
        /\ raisers'[i].end = raisers[i].end
        /\ raisers'[i].insts = raisers[i].insts
  BY <1>3, <1>4, RecordTargetsType DEF WalkInv
<1>8. TypeOK'
  <2>1. FilterTypeOK'
    BY <1>1 DEF BeginFunction, RecordExcludedStart, WalkInv, TypeOK, FilterTypeOK
  <2>2. branchTargetSet' \subseteq Int
    BY <1>1 DEF BeginFunction
  <2> QED
    BY <1>2, <1>5, <2>1, <2>2 DEF BeginFunction, StartDecoding, WalkInv, TypeOK
<1>9. pc' = "decode" /\ si' = si /\ symtab' = symtab /\ index' = Start(si)
  BY DEF BeginFunction, StartDecoding
<1>10. new.start = Start(si) /\ new.end = End(si) /\ \A o \in Offsets : new.insts[o] = Absent
  BY DEF Raiser
<1> HIDE DEF new
<1>11. \A i \in 1..Len(raisers) : raisers[i].end <= Start(si)
  <2> SUFFICES ASSUME NEW i \in 1..Len(raisers) PROVE raisers[i].end <= Start(si)
    OBVIOUS
  <2>1. Len(raisers) \in 1..Len(raisers) /\ raisers # <<>>
    BY <1>4
  <2>2. raisers[Last].end <= Start(si)
    BY <1>1, <2>1 DEF WalkInv, LastRaiserPlaced, BeginFunction, AtSymbol
  <2>3. i = Last \/ raisers[i].end <= raisers[Last].start
    BY <1>4, <2>1 DEF WalkInv, RangesDisjoint, Last
  <2>4. raisers[Last].start <= raisers[Last].end
    BY <2>1 DEF WalkInv, RangesOrdered, Last
  <2> QED
    BY <1>1, <2>1, <2>2, <2>3, <2>4, RaiserFacts DEF Last
<1>12. LastRaiserPlaced'
  BY <1>1, <1>4, <1>5, <1>6, <1>9, <1>10 DEF LastRaiserPlaced, Last, Start, End
<1>13. RangesOrdered'
  BY <1>1, <1>4, <1>5, <1>6, <1>7, <1>10 DEF RangesOrdered, WalkInv
<1>14. RangesDisjoint'
  <2> SUFFICES ASSUME NEW i \in 1..(Len(raisers) + 1), NEW j \in 1..(Len(raisers) + 1), i < j
               PROVE  raisers'[i].end <= raisers'[j].start
    BY <1>5 DEF RangesDisjoint
  <2>1. i \in 1..Len(raisers) /\ raisers'[i].end = raisers[i].end
    BY <1>4, <1>7
  <2>2. CASE j = Len(raisers) + 1
    BY <1>6, <1>10, <1>11, <2>1, <2>2
  <2>3. CASE j \in 1..Len(raisers)
    BY <1>7, <2>1, <2>3 DEF WalkInv, RangesDisjoint
  <2> QED
    BY <1>4, <2>2, <2>3
<1>15. InstsPlaced'
  <2> SUFFICES ASSUME Asserts, NEW i \in 1..(Len(raisers) + 1), NEW o \in Offsets,
                      raisers'[i].insts[o] # Absent
               PROVE  raisers'[i].start <= o /\ o < raisers'[i].end
    BY <1>5 DEF InstsPlaced, InstsInRange
  <2>1. i # Len(raisers) + 1
    BY <1>6, <1>10
  <2>2. i \in 1..Len(raisers)
    BY <1>4, <2>1
  <2> QED
    BY <1>7, <2>2 DEF WalkInv, InstsPlaced, InstsInRange
<1>16. DecodeHasRaiser' /\ TargetsHaveARaiser'
  BY <1>1, <1>4, <1>5, <1>9 DEF DecodeHasRaiser, TargetsHaveARaiser
<1> QED
  BY <1>8, <1>9, <1>12, <1>13, <1>14, <1>15, <1>16 DEF WalkInv, Sorted

\* Bytes that are given to the last raiser lie after all others.
LEMMA ExtendFunctionKeepsWalkInv ==
  ASSUME WalkInv, ExtendFunction PROVE WalkInv'
<1> DEFINE e == IF raisers[Last].end < End(si) /\ Asserts THEN End(si)
                ELSE raisers[Last].end
<1>1. /\ si \in 1..Len(symtab)
      /\ Start(si) \in Nat /\ End(si) \in Nat /\ End(si) <= SectSize
      /\ SectSize \in Nat /\ Start(si) < End(si)
  BY SymbolFacts DEF ExtendFunction, AtSymbol
<1>2. raisers \in Seq(RaiserSet) /\ Last \in 1..Len(raisers)
  BY DEF ExtendFunction, WalkInv, TypeOK, Last
<1>3. /\ raisers[Last] \in RaiserSet
      /\ raisers[Last].start \in Nat /\ raisers[Last].end \in Nat
      /\ raisers[Last].end <= SectSize
  BY <1>2, RaiserFacts
<1>4. raisers[Last].end <= Start(si) /\ raisers[Last].start <= raisers[Last].end
  BY <1>1, <1>2 DEF WalkInv, LastRaiserPlaced, RangesOrdered, ExtendFunction, AtSymbol
<1>5. /\ e \in Offsets /\ raisers[Last].end <= e /\ e <= End(si)
      /\ Asserts => e = End(si)
  BY <1>1, <1>3, <1>4 DEF Offsets
<1> HIDE DEF e
<1>6. raisers' = [raisers EXCEPT ![Last] = [raisers[Last] EXCEPT !.end = e]]
  BY DEF ExtendFunction, getCurrentMachineFunctionRaiser, Last, e
<1> DEFINE r == [raisers[Last] EXCEPT !.end = e]
<1>7. /\ r \in RaiserSet
      /\ r.start = raisers[Last].start /\ r.end = e /\ r.insts = raisers[Last].insts
  BY <1>3, <1>5 DEF RaiserSet
<1> HIDE DEF r
<1>8. /\ raisers' \in Seq(RaiserSet) /\ Len(raisers') = Len(raisers)
      /\ raisers'[Last] = r
      /\ \A i \in 1..Len(raisers) : i # Last => raisers'[i] = raisers[i]
  BY <1>2, <1>6, <1>7 DEF r
<1>9. /\ pc' = "decode" /\ si' = si /\ symtab' = symtab /\ index' = Start(si)
      /\ UNCHANGED filterVars
      /\ branchTargetSet' = branchTargetSet \cup {Start(si)}
  BY DEF ExtendFunction, StartDecoding
<1>10. TypeOK'
  <2>1. FilterTypeOK'
    BY <1>9 DEF WalkInv, TypeOK, FilterTypeOK, filterVars
  <2>2. Start(si) \in Offsets
    BY <1>1 DEF Offsets
  <2>3. branchTargetSet' \subseteq Int
    <3>1. branchTargetSet \subseteq Int /\ Start(si) \in Int
      BY <1>1 DEF WalkInv, TypeOK
    <3> QED
      BY <1>9, <3>1
  <2> QED
    BY <1>8, <1>9, <2>1, <2>2, <2>3 DEF WalkInv, TypeOK
<1>11. LastRaiserPlaced'
  BY <1>1, <1>2, <1>3, <1>4, <1>5, <1>7, <1>8, <1>9 DEF LastRaiserPlaced, Last, Start, End
<1>12. RangesOrdered'
  BY <1>2, <1>3, <1>4, <1>5, <1>7, <1>8 DEF RangesOrdered, WalkInv, Last, Offsets
<1>13. RangesDisjoint'
  <2> SUFFICES ASSUME NEW i \in 1..Len(raisers), NEW j \in 1..Len(raisers), i < j
               PROVE  raisers'[i].end <= raisers'[j].start
    BY <1>8 DEF RangesDisjoint
  <2>1. i # Last /\ raisers'[i] = raisers[i]
    BY <1>2, <1>8 DEF Last
  <2>2. raisers'[j].start = raisers[j].start
    BY <1>7, <1>8
  <2> QED
    BY <2>1, <2>2 DEF WalkInv, RangesDisjoint
<1>14. InstsPlaced'
  <2> SUFFICES ASSUME Asserts, NEW i \in 1..Len(raisers), NEW o \in Offsets,
                      raisers'[i].insts[o] # Absent
               PROVE  raisers'[i].start <= o /\ o < raisers'[i].end
    BY <1>8 DEF InstsPlaced, InstsInRange
  <2>1. raisers'[i].insts = raisers[i].insts /\ raisers'[i].start = raisers[i].start
    BY <1>7, <1>8
  <2>2. raisers[i].start <= o /\ o < raisers[i].end
    BY <2>1 DEF WalkInv, InstsPlaced, InstsInRange
  <2>3. CASE i = Last
    BY <1>1, <1>3, <1>5, <1>7, <1>8, <2>1, <2>2, <2>3 DEF Offsets
  <2>4. CASE i # Last
    BY <1>8, <2>2, <2>4
  <2> QED
    BY <2>3, <2>4
<1>15. DecodeHasRaiser' /\ TargetsHaveARaiser'
  BY <1>1, <1>2, <1>8, <1>9 DEF DecodeHasRaiser, TargetsHaveARaiser
<1> QED
  BY <1>9, <1>10, <1>11, <1>12, <1>13, <1>14, <1>15 DEF WalkInv, Sorted

\* The decoder puts an instruction at the offset it has reached, which is in the
\* symbol it decodes and so in the last raiser.
LEMMA AddInstKeepsWalkInv ==
  ASSUME WalkInv, Decoding, NEW d \in Decodings \cup {Data}, addMCInstOrData(index, d),
         index' \in Offsets, index <= index', branchTargetSet' \subseteq Int,
         UNCHANGED <<filterVars, symtab, si, pc>>
  PROVE  WalkInv'
<1>1. /\ si \in 1..Len(symtab) /\ Start(si) \in Nat /\ End(si) \in Nat
      /\ index \in Nat /\ index < End(si) /\ index' \in Nat /\ pc = "decode"
  BY SymbolFacts, DisassemblyAssumption
     DEF Decoding, WalkInv, TypeOK, DecodeHasRaiser, Offsets
<1>2. raisers # <<>> /\ index \in Offsets /\ raisers \in Seq(RaiserSet)
  BY DEF WalkInv, DecodeHasRaiser, Decoding, TypeOK
<1>3. /\ raisers' \in Seq(RaiserSet) /\ Len(raisers') = Len(raisers)
      /\ \A i \in 1..Len(raisers) :
           /\ raisers'[i].start = raisers[i].start
           /\ raisers'[i].end = raisers[i].end
           /\ i < Len(raisers) => raisers'[i] = raisers[i]
      /\ \A p \in Offsets :
           p # index => raisers'[Last].insts[p] = raisers[Last].insts[p]
  BY <1>2, AddInstType DEF WalkInv, Last
<1>4. Last \in 1..Len(raisers) /\ Len(raisers) \in Nat
  BY <1>2 DEF Last
<1>5. TypeOK'
  BY <1>3 DEF WalkInv, TypeOK, FilterTypeOK, filterVars
<1>6. LastRaiserPlaced'
  BY <1>1, <1>3, <1>4 DEF WalkInv, LastRaiserPlaced, Last, Start, End
<1>7. RangesOrdered' /\ RangesDisjoint'
  BY <1>3 DEF WalkInv, RangesOrdered, RangesDisjoint
<1>8. InstsPlaced'
  <2> SUFFICES ASSUME Asserts, NEW i \in 1..Len(raisers), NEW o \in Offsets,
                      raisers'[i].insts[o] # Absent
               PROVE  raisers'[i].start <= o /\ o < raisers'[i].end
    BY <1>3 DEF InstsPlaced, InstsInRange
  <2>1. CASE i = Last /\ o = index
    <3>1. raisers[Last].start <= Start(si) /\ Start(si) <= index /\ raisers[Last].end = End(si)
      BY <1>1 DEF WalkInv, LastRaiserPlaced
    <3> QED
      BY <1>1, <1>3, <1>4, <2>1, <3>1, RaiserFacts
  <2>2. CASE ~(i = Last /\ o = index)
    <3>1. raisers'[i].insts[o] = raisers[i].insts[o]
      BY <1>3, <1>4, <2>2 DEF Last
    <3> QED
      BY <1>3, <3>1 DEF WalkInv, InstsPlaced, InstsInRange
  <2> QED
    BY <2>1, <2>2
<1>9. DecodeHasRaiser' /\ TargetsHaveARaiser'
  BY <1>1, <1>2, <1>3, <1>4 DEF DecodeHasRaiser, TargetsHaveARaiser
<1> QED
  BY <1>5, <1>6, <1>7, <1>8, <1>9 DEF WalkInv, Sorted

\* Reading the configuration leaves the walk at its start.
LEMMA ReadConfigKeepsWalkInv ==
  ASSUME WalkInv, ReadConfig PROVE WalkInv'
<1>1. FilterTypeOK'
  BY ReadConfigLineType DEF ReadConfig, WalkInv, TypeOK
<1>2. UNCHANGED <<symtab, si, pc, index, branchTargetSet, raisers>>
  BY DEF ReadConfig, walkVars
<1> QED
  BY <1>1, <1>2 DEF WalkInv, TypeOK, Sorted, DecodeHasRaiser, LastRaiserPlaced, Last, Start,
       End, RangesOrdered, RangesDisjoint, InstsPlaced, InstsInRange, TargetsHaveARaiser

\* There is no raiser before the first symbol.
LEMMA BeginWalkKeepsWalkInv ==
  ASSUME WalkInv, BeginWalk PROVE WalkInv'
<1>1. /\ UNCHANGED <<symtab, si, index, branchTargetSet, raisers>>
      /\ UNCHANGED filterVars /\ pc = "config" /\ pc' = "symbol"
  BY DEF BeginWalk
<1>2. FilterTypeOK'
  BY <1>1 DEF WalkInv, TypeOK, FilterTypeOK, filterVars
<1> QED
  BY <1>1, <1>2 DEF WalkInv, TypeOK, Sorted, DecodeHasRaiser, LastRaiserPlaced, Last, Start,
       End, RangesOrdered, RangesDisjoint, InstsPlaced, InstsInRange, TargetsHaveARaiser

\* The next symbol starts where the decoded one ended.
LEMMA EndSymbolKeepsWalkInv ==
  ASSUME WalkInv, EndSymbol PROVE WalkInv'
<1>1. /\ UNCHANGED <<config, line, section, excluded, startIdx>>
      /\ UNCHANGED <<symtab, index, branchTargetSet, raisers>>
      /\ pc = "decode" /\ pc' = "symbol" /\ si' = si + 1
      /\ included' = eraseFunctionBySymbol(included, symtab[si].name)
  BY DEF EndSymbol
<1>2. si \in 1..Len(symtab) /\ symtab[si].name \in Names /\ End(si) \in Nat
  BY <1>1, SymbolFacts DEF WalkInv, DecodeHasRaiser
<1>3. included' \in [Names -> Nat]
  BY <1>1, <1>2 DEF WalkInv, TypeOK, FilterTypeOK, eraseFunctionBySymbol
<1>4. TypeOK'
  <2>1. FilterTypeOK'
    BY <1>1, <1>3 DEF WalkInv, TypeOK, FilterTypeOK
  <2> QED
    BY <1>1, <1>2, <2>1 DEF WalkInv, TypeOK
<1>5. LastRaiserPlaced'
  <2> SUFFICES ASSUME si + 1 <= Len(symtab), raisers # <<>>
               PROVE  raisers[Last].end <= symtab[si + 1].addr
    BY <1>1 DEF LastRaiserPlaced, Last, Start
  <2>1. raisers[Last].end <= End(si)
    BY <1>1 DEF WalkInv, LastRaiserPlaced
  <2>2. End(si) <= symtab[si + 1].addr
    BY <1>2, EndFacts DEF WalkInv, TypeOK, Start
  <2>3. symtab[si + 1].addr \in Nat
    BY <1>2, EndFacts DEF WalkInv, TypeOK, Start
  <2>4. raisers[Last].end \in Nat
    BY RaiserFacts DEF WalkInv, TypeOK, Last
  <2> QED
    BY <1>2, <2>1, <2>2, <2>3, <2>4
<1> QED
  BY <1>1, <1>4, <1>5 DEF WalkInv, Sorted, DecodeHasRaiser, RangesOrdered, RangesDisjoint,
       InstsPlaced, InstsInRange, TargetsHaveARaiser

\* The targets of the last symbol change no range.
LEMMA EndWalkKeepsWalkInv ==
  ASSUME WalkInv, EndWalk PROVE WalkInv'
<1>1. /\ UNCHANGED <<filterVars, symtab, si, index, branchTargetSet>>
      /\ pc' = "passes" /\ raisers' = RecordTargets
  BY DEF EndWalk
<1>2. /\ raisers' \in Seq(RaiserSet) /\ Len(raisers') = Len(raisers)
      /\ \A i \in 1..Len(raisers) :
           /\ raisers'[i].start = raisers[i].start
           /\ raisers'[i].end = raisers[i].end
           /\ raisers'[i].insts = raisers[i].insts
  BY <1>1, RecordTargetsType DEF WalkInv
<1>3. TypeOK'
  <2>1. FilterTypeOK'
    BY <1>1 DEF WalkInv, TypeOK, FilterTypeOK, filterVars
  <2> QED
    BY <1>1, <1>2, <2>1 DEF WalkInv, TypeOK
<1>4. raisers \in Seq(RaiserSet)
  BY DEF WalkInv, TypeOK
<1>5. RangesOrdered' /\ RangesDisjoint' /\ InstsPlaced'
  BY <1>2, <1>4 DEF WalkInv, RangesOrdered, RangesDisjoint, InstsPlaced, InstsInRange
<1>6. DecodeHasRaiser' /\ LastRaiserPlaced' /\ TargetsHaveARaiser'
  BY <1>1, <1>2, <1>4 DEF WalkInv, DecodeHasRaiser, LastRaiserPlaced, TargetsHaveARaiser
<1> QED
  BY <1>1, <1>3, <1>5, <1>6 DEF WalkInv, Sorted

\* The invariant holds when the walk begins: there is no raiser yet.
LEMMA InitWalkInv == Init => WalkInv
<1> SUFFICES ASSUME Init PROVE WalkInv
  OBVIOUS
<1>1. TypeOK
  BY InitTypeOK
<1>2. Sorted
  <2>1. PICK tab \in SymTabs : symtab = <<DummySymbol>> \o tab
    BY DEF Init
  <2>2. tab \in Seq(Symbols) /\ \A i, j \in 1..Len(tab) : i < j => tab[i].addr <= tab[j].addr
    BY DisassemblyAssumption
  <2>3. /\ Len(symtab) = Len(tab) + 1 /\ symtab[1] = DummySymbol
        /\ \A i \in 2..Len(symtab) : symtab[i] = tab[i - 1]
    BY <2>1, <2>2
  <2>4. symtab[1].addr = 0
    BY <2>3 DEF DummySymbol
  <2>5. \A i \in 1..Len(symtab) : symtab[i].addr \in Nat
    BY <1>1, EndFacts DEF Start
  <2> SUFFICES ASSUME NEW i \in 1..Len(symtab), NEW j \in 1..Len(symtab), i < j
               PROVE  symtab[i].addr <= symtab[j].addr
    BY DEF Sorted
  <2>6. CASE i = 1
    BY <2>4, <2>5, <2>6
  <2>7. CASE i # 1
    BY <2>2, <2>3, <2>7
  <2> QED
    BY <2>6, <2>7
<1>3. raisers = <<>> /\ pc = "config" /\ branchTargetSet = {}
  BY DEF Init
<1> QED
  BY <1>1, <1>2, <1>3 DEF WalkInv, DecodeHasRaiser, LastRaiserPlaced, RangesOrdered,
       RangesDisjoint, InstsPlaced, InstsInRange, TargetsHaveARaiser

\* Every step of disassembleObject keeps the invariant of the walk.
LEMMA NextKeepsWalkInv == WalkInv /\ [Next]_vars => WalkInv'
<1> SUFFICES ASSUME WalkInv, [Next]_vars PROVE WalkInv'
  OBVIOUS
<1>1. CASE ReadConfig
  BY <1>1, ReadConfigKeepsWalkInv
<1>2. CASE BeginWalk
  BY <1>2, BeginWalkKeepsWalkInv
<1>3. CASE SkipEmptySymbol
  <2>1. FilterTypeOK'
    BY <1>3 DEF SkipEmptySymbol, WalkInv, TypeOK, FilterTypeOK, filterVars
  <2> QED
    BY <1>3, <2>1, SkipKeepsWalkInv DEF SkipEmptySymbol, AtSymbol, GotoNextSymbol
<1>4. CASE SkipFilteredFunction
  <2>1. Start(si) \in Nat /\ symtab[si].name \in Names
    BY <1>4, SymbolFacts DEF SkipFilteredFunction, AtSymbol
  <2>2. FilterTypeOK'
    BY <1>4, <2>1 DEF SkipFilteredFunction, RecordExcludedStart, WalkInv, TypeOK, FilterTypeOK
  <2> QED
    BY <1>4, <2>2, SkipKeepsWalkInv DEF SkipFilteredFunction, AtSymbol, GotoNextSymbol
<1>5. CASE BeginFunction
  BY <1>5, BeginFunctionKeepsWalkInv
<1>6. CASE SkipOrphanSymbol
  <2>1. FilterTypeOK'
    BY <1>6 DEF SkipOrphanSymbol, WalkInv, TypeOK, FilterTypeOK, filterVars
  <2> QED
    BY <1>6, <2>1, SkipKeepsWalkInv DEF SkipOrphanSymbol, AtSymbol, GotoNextSymbol
<1>7. CASE ExtendFunction
  BY <1>7, ExtendFunctionKeepsWalkInv
<1>8. ASSUME NEW d \in Decodings, DecodeInst(d) PROVE WalkInv'
  <2>1. /\ si \in 1..Len(symtab) /\ End(si) \in Nat /\ index \in Nat /\ SectSize \in Nat
        /\ d \in Decoded /\ branchTargetSet \subseteq Int
    BY <1>8, SymbolFacts, DisassemblyAssumption
       DEF DecodeInst, Decoding, WalkInv, TypeOK, DecodeHasRaiser, Offsets
  <2>2. d.size \in Nat /\ d.disp \in Int
    BY <2>1 DEF Decoded
  <2>3. TargetsOf(d, index, End(si)) \subseteq Int
    BY <2>1, <2>2 DEF TargetsOf
  <2>4. branchTargetSet' \subseteq Int
    BY <1>8, <2>1, <2>3 DEF DecodeInst
  <2>5. index' \in Offsets /\ index <= index'
    BY <1>8, <2>1, <2>2 DEF DecodeInst, Offsets
  <2> QED
    BY <1>8, <2>4, <2>5, AddInstKeepsWalkInv DEF DecodeInst
<1>9. ASSUME NEW d \in Decodings, FailToDecode(d) PROVE WalkInv'
  <2>1. /\ si \in 1..Len(symtab) /\ End(si) \in Nat /\ End(si) <= SectSize
        /\ index \in Nat /\ index < End(si) /\ SectSize \in Nat /\ d \in Decoded
    BY <1>9, SymbolFacts, DisassemblyAssumption
       DEF FailToDecode, Decoding, WalkInv, TypeOK, DecodeHasRaiser, Offsets
  <2>2. d.size \in Nat
    BY <2>1 DEF Decoded
  <2>3. index' \in Offsets /\ index <= index'
    BY <1>9, <2>1, <2>2 DEF FailToDecode, Offsets
  <2> QED
    BY <1>9, <2>3, AdvanceKeepsWalkInv DEF FailToDecode, Decoding
<1>10. CASE AddData
  <2>1. /\ si \in 1..Len(symtab) /\ End(si) \in Nat /\ End(si) <= SectSize
        /\ index \in Nat /\ index < End(si) /\ SectSize \in Nat
    BY <1>10, SymbolFacts, DisassemblyAssumption
       DEF AddData, Decoding, WalkInv, TypeOK, DecodeHasRaiser, Offsets
  <2>2. index' \in Offsets /\ index <= index'
    BY <1>10, <2>1 DEF AddData, Offsets
  <2>3. branchTargetSet' \subseteq Int
    BY <1>10 DEF AddData, WalkInv, TypeOK
  <2> QED
    BY <1>10, <2>2, <2>3, AddInstKeepsWalkInv DEF AddData
<1>11. CASE PrintObject
  <2>1. /\ si \in 1..Len(symtab) /\ End(si) \in Nat /\ End(si) <= SectSize
        /\ index \in Nat /\ index < End(si) /\ SectSize \in Nat
    BY <1>11, SymbolFacts, DisassemblyAssumption
       DEF PrintObject, Decoding, WalkInv, TypeOK, DecodeHasRaiser, Offsets
  <2>2. index' \in Offsets /\ index <= index'
    BY <1>11, <2>1 DEF PrintObject, Offsets
  <2> QED
    BY <1>11, <2>2, AdvanceKeepsWalkInv DEF PrintObject, Decoding
<1>12. CASE EndSymbol
  BY <1>12, EndSymbolKeepsWalkInv
<1>13. CASE EndWalk
  BY <1>13, EndWalkKeepsWalkInv
<1>14. CASE UNCHANGED vars
  BY <1>14 DEF vars, walkVars, filterVars, WalkInv, TypeOK, FilterTypeOK, Sorted, DecodeHasRaiser,
       LastRaiserPlaced, Last, Start, End, RangesOrdered, RangesDisjoint, InstsPlaced,
       InstsInRange, TargetsHaveARaiser
<1> QED
  BY <1>1, <1>2, <1>3, <1>4, <1>5, <1>6, <1>7, <1>8, <1>9, <1>10, <1>11, <1>12, <1>13, <1>14
     DEF Next, WalkSymbol, Decode, Finished

\* The invariant of the walk holds throughout, for every input.
THEOREM WalkInvariant == Spec => []WalkInv
BY InitWalkInv, NextKeepsWalkInv, PTL DEF Spec

\* disassembleObject keeps its lists, offsets and raisers well formed: in
\* particular no offset beyond the section is decoded.
THEOREM TypeCorrect == Spec => []TypeOK
<1>1. WalkInv => TypeOK
  BY DEF WalkInv
<1> QED
  BY <1>1, WalkInvariant, PTL

\* No two raised functions share a byte, whatever symbols extend them.
THEOREM RangesAreDisjoint == Spec => []RangesDisjoint
<1>1. WalkInv => RangesDisjoint
  BY DEF WalkInv
<1> QED
  BY <1>1, WalkInvariant, PTL

\* With assertions compiled in, what a raiser holds is within its bounds.
THEOREM InstructionsInRange == Asserts => (Spec => []InstsInRange)
<1>1. SUFFICES ASSUME Asserts PROVE Spec => []InstsInRange
  OBVIOUS
<1>2. WalkInv => InstsInRange
  BY <1>1 DEF WalkInv, InstsPlaced
<1> QED
  BY <1>2, WalkInvariant, PTL

\* Collected branch targets always have a raiser to be handed to.
THEOREM TargetsAreSafe == Spec => []TargetsHaveARaiser
<1>1. WalkInv => TargetsHaveARaiser
  BY DEF WalkInv
<1> QED
  BY <1>1, WalkInvariant, PTL

\* The raiser of a function is final when the next function begins.
THEOREM OlderRaisersAreFrozen == Spec => OlderRaisersFrozen
<1> DEFINE Frozen == \A i \in 1..(Len(raisers) - 1) : raisers'[i] = raisers[i]
<1>1. ASSUME WalkInv, [Next]_vars PROVE [Frozen]_vars
  <2>1. TypeOK /\ raisers \in Seq(RaiserSet)
    BY <1>1 DEF WalkInv, TypeOK
  <2>2. CASE BeginFunction
    <3>1. /\ RecordTargets \in Seq(RaiserSet) /\ Len(RecordTargets) = Len(raisers)
          /\ \A i \in 1..(Len(raisers) - 1) : RecordTargets[i] = raisers[i]
      BY <2>1, RecordTargetsType
    <3>2. raisers' = Append(RecordTargets, Raiser(symtab[si].name, Start(si), End(si)))
      BY <2>2 DEF BeginFunction
    <3> QED
      BY <2>1, <3>1, <3>2
  <2>3. CASE ExtendFunction
    BY <2>1, <2>3 DEF ExtendFunction, getCurrentMachineFunctionRaiser
  <2>4. ASSUME NEW o, NEW d, addMCInstOrData(o, d) PROVE Frozen
    BY <2>1, <2>4 DEF addMCInstOrData, getCurrentMachineFunctionRaiser
  <2>5. CASE EndWalk
    BY <2>1, <2>5, RecordTargetsType DEF EndWalk
  <2>6. CASE UNCHANGED raisers
    BY <2>6
  <2> QED
    BY <1>1, <2>2, <2>3, <2>4, <2>5, <2>6
       DEF Next, WalkSymbol, Decode, Finished, ReadConfig, BeginWalk, SkipEmptySymbol,
           SkipFilteredFunction, SkipOrphanSymbol, GotoNextSymbol, DecodeInst, FailToDecode,
           AddData, PrintObject, EndSymbol, walkVars, vars
<1> QED
  BY <1>1, WalkInvariant, PTL DEF Spec, OlderRaisersFrozen

-----------------------------------------------------------------------------
(* Exclusion: a function of the exclude section is never raised, whatever  *)
(* else the configuration file says and in whatever order, provided that   *)
(* no section of the file names a function twice.                          *)

\* What is in force after a line: the section it opens, none if it closes one,
\* or what was in force before it.
LEMMA InSectionStep ==
  ASSUME NEW cfg \in Seq(Lines), NEW l \in 1..Len(cfg), NEW head \in Heads
  PROVE  InSection(cfg, l + 1, head) <=>
           IF cfg[l].kind \in Heads THEN cfg[l].kind = head ELSE InSection(cfg, l, head)
<1>1. CASE cfg[l].kind = head
  <2>1. InSection(cfg, l + 1, head)
    <3>1. l \in 1..((l + 1) - 1) /\ \A k \in (l + 1)..((l + 1) - 1) : cfg[k].kind \notin Heads
      OBVIOUS
    <3> QED
      BY <1>1, <3>1 DEF InSection
  <2> QED
    BY <1>1, <2>1
<1>2. CASE cfg[l].kind # head /\ cfg[l].kind \in Heads
  <2>1. ASSUME InSection(cfg, l + 1, head) PROVE FALSE
    <3>1. PICK h \in 1..((l + 1) - 1) :
            cfg[h].kind = head /\ \A k \in (h + 1)..((l + 1) - 1) : cfg[k].kind \notin Heads
      BY <2>1 DEF InSection
    <3>2. h # l
      BY <1>2, <3>1
    <3>3. l \in (h + 1)..((l + 1) - 1)
      BY <3>1, <3>2
    <3> QED
      BY <1>2, <3>1, <3>3
  <2> QED
    BY <1>2, <2>1
<1>3. CASE cfg[l].kind \notin Heads
  <2>1. ASSUME InSection(cfg, l + 1, head) PROVE InSection(cfg, l, head)
    <3>1. PICK h \in 1..((l + 1) - 1) :
            cfg[h].kind = head /\ \A k \in (h + 1)..((l + 1) - 1) : cfg[k].kind \notin Heads
      BY <2>1 DEF InSection
    <3>2. h # l
      BY <1>3, <3>1
    <3>3. h \in 1..(l - 1) /\ \A k \in (h + 1)..(l - 1) : k \in (h + 1)..((l + 1) - 1)
      BY <3>1, <3>2
    <3> QED
      BY <3>1, <3>3 DEF InSection
  <2>2. ASSUME InSection(cfg, l, head) PROVE InSection(cfg, l + 1, head)
    <3>1. PICK h \in 1..(l - 1) :
            cfg[h].kind = head /\ \A k \in (h + 1)..(l - 1) : cfg[k].kind \notin Heads
      BY <2>2 DEF InSection
    <3>2. h \in 1..((l + 1) - 1) /\ \A k \in (h + 1)..((l + 1) - 1) : k = l \/ k \in (h + 1)..(l - 1)
      BY <3>1
    <3> QED
      BY <1>3, <3>1, <3>2 DEF InSection
  <2> QED
    BY <1>3, <2>1, <2>2
<1> QED
  BY <1>1, <1>2, <1>3

-----------------------------------------------------------------------------
(* The inductive invariant of the lists. *)

\* The reader is in the section the text says it is in.
SectionTracked ==
  /\ InSection(config, line, "exclude-functions") => section = "FILTER_EXCLUDE"
  /\ section = "FILTER_INCLUDE" => InSection(config, line, "include-functions")

\* Each exclude entry read is in the exclude list, for good.
ExcludedListed ==
  \A i \in 1..(line - 1) :
    config[i].kind = "entry" /\ InSection(config, i, "exclude-functions") =>
      excluded[config[i].name] > 0

\* What the include list holds comes from an include entry; one, since no entry
\* is repeated; and an excluded function is not in it.
IncludedListed ==
  \A n \in Names :
    /\ included[n] > 0 =>
         \E i \in 1..(line - 1) : /\ config[i].kind = "entry" /\ config[i].name = n
                                  /\ InSection(config, i, "include-functions")
    /\ included[n] <= 1
    /\ excluded[n] > 0 => included[n] = 0

ConfigRead == pc # "config" => ~Reading

ListsInv ==
  /\ TypeOK /\ NoRepeatedEntry(config)
  /\ SectionTracked /\ ExcludedListed /\ IncludedListed /\ ConfigRead
  /\ ExcludedNeverRaised

\* A step that leaves the lists alone, or only takes a name off the include
\* list, and raises no other function keeps the invariant.
LEMMA QuietKeepsListsInv ==
  ASSUME ListsInv, TypeOK', UNCHANGED <<config, line, section, excluded>>,
         \A n \in Names : included'[n] <= included[n], pc' = "config" => pc = "config",
         ~Reading \/ pc' = pc,
         Len(raisers') = Len(raisers),
         \A i \in 1..Len(raisers) : raisers'[i].name = raisers[i].name
  PROVE  ListsInv'
<1>1. NoRepeatedEntry(config)' /\ SectionTracked' /\ ExcludedListed' /\ ConfigRead'
  BY DEF ListsInv, NoRepeatedEntry, SectionTracked, ExcludedListed, InSection, ConfigRead, Reading
<1>2. IncludedListed'
  <2>1. \A n \in Names : included[n] \in Nat /\ included'[n] \in Nat
    BY DEF ListsInv, TypeOK, FilterTypeOK
  <2> QED
    BY <2>1 DEF ListsInv, IncludedListed, InSection
<1>3. ExcludedNeverRaised'
  <2>1. ExcludeRequests(config') = ExcludeRequests(config)
    OBVIOUS
  <2>2. DOMAIN raisers = 1..Len(raisers) /\ DOMAIN raisers' = 1..Len(raisers)
    BY DEF ListsInv, TypeOK
  <2> QED
    BY <2>1, <2>2 DEF ListsInv, ExcludedNeverRaised
<1> QED
  BY <1>1, <1>2, <1>3 DEF ListsInv

\* The name of the entry being read.
LEMMA EntryFacts ==
  ASSUME TypeOK, Reading
  PROVE  /\ config \in Seq(Lines) /\ line \in 1..Len(config)
         /\ config[line].name \in Names
<1>1. config \in Seq(Lines) /\ line \in 1..Len(config)
  BY ConfigsAssumption DEF TypeOK, FilterTypeOK, Reading
<1>2. config[line] \in Lines
  BY <1>1
<1> QED
  BY <1>1, <1>2 DEF Lines

\* A line that is no entry moves the reader to the section it is said to open.
LEMMA HeaderKeepsListsInv ==
  ASSUME ListsInv, TypeOK', Reading, UNCHANGED walkVars, pc = "config",
         line' = line + 1, UNCHANGED <<config, excluded, included>>,
         config[line].kind # "entry",
         \/ config[line].kind = "exclude-functions" /\ section' = "FILTER_EXCLUDE"
         \/ config[line].kind = "include-functions" /\ section' = "FILTER_INCLUDE"
         \/ config[line].kind = "end" /\ section' = "FILTER_NONE"
         \/ config[line].kind = "ignored" /\ section' = section
  PROVE  ListsInv'
<1>1. config \in Seq(Lines) /\ line \in 1..Len(config)
  BY EntryFacts DEF ListsInv
<1>2. SectionTracked'
  BY <1>1, InSectionStep DEF ListsInv, SectionTracked, Heads
<1>3. ExcludedListed' /\ IncludedListed'
  <2>1. \A i \in 1..(line' - 1) : i = line \/ i \in 1..(line - 1)
    BY <1>1
  <2>2. \A i \in 1..(line - 1) : i \in 1..(line' - 1)
    BY <1>1
  <2>3. ExcludedListed'
    BY <2>1 DEF ListsInv, ExcludedListed
  <2>4. IncludedListed'
    BY <2>2 DEF ListsInv, IncludedListed
  <2> QED
    BY <2>3, <2>4
<1>4. NoRepeatedEntry(config)' /\ ConfigRead' /\ ExcludedNeverRaised'
  BY DEF ListsInv, ConfigRead, ExcludedNeverRaised, walkVars
<1> QED
  BY <1>2, <1>3, <1>4 DEF ListsInv

\* An entry goes to the list of the section it stands in.
LEMMA EntryKeepsListsInv ==
  ASSUME ListsInv, TypeOK', ReadEntry, UNCHANGED walkVars, pc = "config"
  PROVE  ListsInv'
<1> DEFINE n == config[line].name
<1>1. /\ config \in Seq(Lines) /\ line \in 1..Len(config) /\ n \in Names
      /\ config[line].kind = "entry" /\ line' = line + 1 /\ config' = config
      /\ section' = section
  BY EntryFacts DEF ListsInv, ReadEntry, NextLine
<1>2. excluded \in [Names -> Nat] /\ included \in [Names -> Nat]
  BY DEF ListsInv, TypeOK, FilterTypeOK
<1>3. SectionTracked'
  <2>1. "entry" \notin Heads /\ "exclude-functions" \in Heads /\ "include-functions" \in Heads
    BY DEF Heads
  <2> QED
    BY <1>1, <2>1, InSectionStep DEF ListsInv, SectionTracked
<1>4. \A i \in 1..(line' - 1) : i = line \/ i \in 1..(line - 1)
  BY <1>1
<1>5. \A i \in 1..(line - 1) : i \in 1..(line' - 1)
  BY <1>1
<1>6. line \in 1..(line' - 1)
  BY <1>1
<1>7. ASSUME section = "FILTER_EXCLUDE" /\ addExcludedFunction(n)
      PROVE  ExcludedListed' /\ IncludedListed'
  <2>1. excluded' = [excluded EXCEPT ![n] = @ + 1] /\ included' = eraseFunctionBySymbol(included, n)
    BY <1>7 DEF addExcludedFunction
  <2>2. \A m \in Names : excluded'[m] = IF m = n THEN excluded[m] + 1 ELSE excluded[m]
    BY <1>1, <1>2, <2>1
  <2>3. \A m \in Names : included'[m] = IF m = n /\ included[m] > 0 THEN included[m] - 1
                                        ELSE included[m]
    BY <1>1, <1>2, <2>1 DEF eraseFunctionBySymbol
  <2>4. ExcludedListed'
    <3> SUFFICES ASSUME NEW i \in 1..(line' - 1), config[i].kind = "entry",
                        InSection(config, i, "exclude-functions")
                 PROVE  excluded'[config[i].name] > 0
      BY <1>1 DEF ExcludedListed
    <3>1. CASE i = line
      BY <1>1, <1>2, <2>2, <3>1
    <3>2. CASE i \in 1..(line - 1)
      <4>1. excluded[config[i].name] > 0
        BY <3>2 DEF ListsInv, ExcludedListed
      <4>2. config[i] \in Lines
        BY <1>1, <3>2
      <4>3. config[i].name \in Names
        BY <4>2 DEF Lines
      <4> QED
        BY <1>2, <2>2, <4>1, <4>3
    <3> QED
      BY <1>4, <3>1, <3>2
  <2>5. IncludedListed'
    <3> SUFFICES ASSUME NEW m \in Names
                 PROVE  /\ included'[m] > 0 =>
                             \E i \in 1..(line' - 1) :
                               /\ config[i].kind = "entry" /\ config[i].name = m
                               /\ InSection(config, i, "include-functions")
                        /\ included'[m] <= 1
                        /\ excluded'[m] > 0 => included'[m] = 0
      BY <1>1 DEF IncludedListed
    <3>1. included[m] \in Nat /\ excluded[m] \in Nat
      BY <1>2
    <3>2. /\ included[m] <= 1 /\ (excluded[m] > 0 => included[m] = 0)
          /\ included[m] > 0 =>
               \E i \in 1..(line - 1) :
                 /\ config[i].kind = "entry" /\ config[i].name = m
                 /\ InSection(config, i, "include-functions")
      BY DEF ListsInv, IncludedListed
    <3> QED
      BY <1>5, <2>2, <2>3, <3>1, <3>2
  <2> QED
    BY <2>4, <2>5
<1>8. ASSUME section = "FILTER_INCLUDE" /\ addIncludedFunction(n)
      PROVE  ExcludedListed' /\ IncludedListed'
  <2>1. InSection(config, line, "include-functions")
    BY <1>8 DEF ListsInv, SectionTracked
  <2>2. included[n] = 0
    <3>1. ASSUME included[n] > 0 PROVE FALSE
      <4>1. PICK i \in 1..(line - 1) : /\ config[i].kind = "entry" /\ config[i].name = n
                                       /\ InSection(config, i, "include-functions")
        BY <1>1, <3>1 DEF ListsInv, IncludedListed
      <4>2. i \in 1..Len(config) /\ line \in 1..Len(config) /\ i # line
            /\ "include-functions" \in Heads
        BY <1>1, <4>1 DEF Heads
      <4> QED
        BY <1>1, <2>1, <4>1, <4>2 DEF ListsInv, NoRepeatedEntry
    <3> QED
      BY <1>1, <1>2, <3>1
  <2>3. excluded' = excluded
    BY <1>8 DEF addIncludedFunction
  <2>4. \A m \in Names :
          included'[m] = IF m = n /\ ~(excluded[n] > 0) THEN included[m] + 1 ELSE included[m]
    BY <1>1, <1>2, <1>8 DEF addIncludedFunction, findFuncInfoBySymbol
  <2>5. ExcludedListed'
    <3>1. ~InSection(config, line, "exclude-functions")
      BY <1>8 DEF ListsInv, SectionTracked
    <3> QED
      BY <1>1, <1>4, <2>3, <3>1 DEF ListsInv, ExcludedListed
  <2>6. IncludedListed'
    <3> SUFFICES ASSUME NEW m \in Names
                 PROVE  /\ included'[m] > 0 =>
                             \E i \in 1..(line' - 1) :
                               /\ config[i].kind = "entry" /\ config[i].name = m
                               /\ InSection(config, i, "include-functions")
                        /\ included'[m] <= 1
                        /\ excluded'[m] > 0 => included'[m] = 0
      BY <1>1 DEF IncludedListed
    <3>1. included[m] \in Nat /\ excluded[m] \in Nat
      BY <1>2
    <3>2. /\ included[m] <= 1 /\ (excluded[m] > 0 => included[m] = 0)
          /\ included[m] > 0 =>
               \E i \in 1..(line - 1) :
                 /\ config[i].kind = "entry" /\ config[i].name = m
                 /\ InSection(config, i, "include-functions")
      BY DEF ListsInv, IncludedListed
    <3>3. CASE m = n
      BY <1>1, <1>5, <1>6, <2>1, <2>2, <2>3, <2>4, <3>1, <3>2, <3>3
    <3>4. CASE m # n
      BY <1>5, <2>3, <2>4, <3>1, <3>2, <3>4
    <3> QED
      BY <3>3, <3>4
  <2> QED
    BY <2>5, <2>6
<1>9. ASSUME section = "FILTER_NONE" /\ UNCHANGED <<excluded, included>>
      PROVE  ExcludedListed' /\ IncludedListed'
  <2>1. ~InSection(config, line, "exclude-functions")
    BY <1>9 DEF ListsInv, SectionTracked
  <2>2. ExcludedListed'
    BY <1>1, <1>4, <1>9, <2>1 DEF ListsInv, ExcludedListed
  <2>3. IncludedListed'
    BY <1>1, <1>5, <1>9 DEF ListsInv, IncludedListed
  <2> QED
    BY <2>2, <2>3
<1>10. ExcludedListed' /\ IncludedListed'
  BY <1>7, <1>8, <1>9 DEF ReadEntry
<1>11. NoRepeatedEntry(config)' /\ ConfigRead' /\ ExcludedNeverRaised'
  BY <1>1 DEF ListsInv, ConfigRead, ExcludedNeverRaised, walkVars
<1> QED
  BY <1>3, <1>10, <1>11 DEF ListsInv

\* The filter lets no excluded function through once the file has been read.
LEMMA BeginFunctionKeepsListsInv ==
  ASSUME ListsInv, TypeOK', BeginFunction, si <= Len(symtab) PROVE ListsInv'
<1> DEFINE n == symtab[si].name
<1>1. n \in Names
  <2>1. symtab \in Seq(Symbols) /\ si \in 1..Len(symtab)
    BY DEF ListsInv, TypeOK
  <2>2. symtab[si] \in Symbols
    BY <2>1
  <2> QED
    BY <2>2 DEF Symbols
<1>2. /\ UNCHANGED <<config, line, section, excluded, included>>
      /\ pc = "symbol" /\ pc' = "decode"
  BY DEF BeginFunction, AtSymbol, StartDecoding
<1>3. ~Reading
  BY <1>2 DEF ListsInv, ConfigRead
<1>4. excluded[n] = 0
  <2>1. excluded[n] \in Nat /\ included[n] \in Nat
    BY <1>1 DEF ListsInv, TypeOK, FilterTypeOK
  <2>2. IF isFilterSetEmpty(included) THEN ~findFuncInfoBySymbol(excluded, n)
                                      ELSE findFuncInfoBySymbol(included, n)
    BY DEF BeginFunction, RaiseFuncSymbol
  <2>3. CASE isFilterSetEmpty(included)
    BY <2>1, <2>2, <2>3 DEF findFuncInfoBySymbol
  <2>4. CASE ~isFilterSetEmpty(included)
    BY <1>1, <2>1, <2>2, <2>4 DEF findFuncInfoBySymbol, ListsInv, IncludedListed
  <2> QED
    BY <2>3, <2>4
<1>5. n \notin ExcludeRequests(config)
  <2> SUFFICES ASSUME n \in ExcludeRequests(config) PROVE FALSE
    OBVIOUS
  <2>1. PICK i \in 1..Len(config) :
          /\ config[i].kind = "entry" /\ config[i].name = n
          /\ InSection(config, i, "exclude-functions")
    BY DEF ExcludeRequests, EntriesOf
  <2>2. i \in 1..(line - 1)
    BY <1>3 DEF ListsInv, TypeOK, FilterTypeOK, Reading
  <2> QED
    BY <1>4, <2>1, <2>2 DEF ListsInv, ExcludedListed
<1>6. ExcludedNeverRaised'
  <2>1. /\ RecordTargets \in Seq(RaiserSet) /\ Len(RecordTargets) = Len(raisers)
        /\ raisers' = Append(RecordTargets, Raiser(n, Start(si), End(si)))
        /\ raisers \in Seq(RaiserSet) /\ raisers' \in Seq(RaiserSet)
    BY RecordTargetsType DEF BeginFunction, ListsInv, TypeOK
  <2>2. \A i \in 1..Len(raisers) : raisers'[i].name = raisers[i].name
    BY <2>1, RecordTargetsType DEF ListsInv
  <2>3. raisers'[Len(raisers) + 1].name = n
    BY <2>1 DEF Raiser
  <2>4. DOMAIN raisers = 1..Len(raisers) /\ DOMAIN raisers' = 1..(Len(raisers) + 1)
    BY <2>1
  <2>5. ExcludeRequests(config') = ExcludeRequests(config)
    BY <1>2
  <2> SUFFICES ASSUME NEW i \in 1..(Len(raisers) + 1)
               PROVE  raisers'[i].name \notin ExcludeRequests(config)
    BY <2>4, <2>5 DEF ExcludedNeverRaised
  <2>6. i = Len(raisers) + 1 \/ i \in 1..Len(raisers)
    BY <2>1
  <2> QED
    BY <1>5, <2>2, <2>3, <2>4, <2>6 DEF ListsInv, ExcludedNeverRaised
<1>7. NoRepeatedEntry(config)' /\ SectionTracked' /\ ExcludedListed' /\ IncludedListed'
  BY <1>2 DEF ListsInv, SectionTracked, ExcludedListed, IncludedListed
<1>8. ConfigRead'
  BY <1>2, <1>3 DEF ConfigRead, Reading
<1> QED
  BY <1>6, <1>7, <1>8 DEF ListsInv

\* Every step of disassembleObject keeps the invariant of the lists.
LEMMA NextKeepsListsInv ==
  ASSUME ListsInv, WalkInv, WalkInv', [Next]_vars PROVE ListsInv'
<1>1. TypeOK /\ TypeOK' /\ raisers \in Seq(RaiserSet)
  BY DEF WalkInv, TypeOK
<1>2. \A n \in Names : included[n] \in Nat
  BY <1>1 DEF TypeOK, FilterTypeOK
<1>3. CASE ReadConfig
  <2>1. pc = "config" /\ UNCHANGED walkVars /\ ReadConfigLine
    BY <1>3 DEF ReadConfig
  <2>2. CASE OpenExclude
    BY <1>1, <2>1, <2>2, HeaderKeepsListsInv DEF OpenExclude, NextLine
  <2>3. CASE OpenInclude
    BY <1>1, <2>1, <2>3, HeaderKeepsListsInv DEF OpenInclude, NextLine
  <2>4. CASE CloseSection
    BY <1>1, <2>1, <2>4, HeaderKeepsListsInv DEF CloseSection, NextLine
  <2>5. CASE IgnoreLine
    BY <1>1, <2>1, <2>5, HeaderKeepsListsInv DEF IgnoreLine, NextLine
  <2>6. CASE ReadEntry
    BY <1>1, <2>1, <2>6, EntryKeepsListsInv
  <2>7. CASE ReadOverlongLine
    BY <1>1, <1>2, <2>1, <2>7, QuietKeepsListsInv DEF ReadOverlongLine, filterVars, walkVars
  <2> QED
    BY <2>1, <2>2, <2>3, <2>4, <2>5, <2>6, <2>7 DEF ReadConfigLine
<1>4. CASE BeginFunction
  BY <1>1, <1>4, BeginFunctionKeepsListsInv DEF BeginFunction, AtSymbol
<1>5. ASSUME UNCHANGED <<config, line, section, excluded, included>>, UNCHANGED raisers,
             pc' = pc \/ (~Reading /\ pc' # "config")
      PROVE  ListsInv'
  BY <1>1, <1>2, <1>5, QuietKeepsListsInv
<1>6. CASE BeginWalk
  BY <1>5, <1>6 DEF BeginWalk, filterVars
<1>7. CASE SkipEmptySymbol \/ SkipOrphanSymbol
  BY <1>5, <1>7 DEF SkipEmptySymbol, SkipOrphanSymbol, GotoNextSymbol, filterVars
<1>8. CASE SkipFilteredFunction
  BY <1>5, <1>8 DEF SkipFilteredFunction, GotoNextSymbol
<1>9. ASSUME NEW d \in Decodings, FailToDecode(d) PROVE ListsInv'
  BY <1>5, <1>9 DEF FailToDecode, filterVars
<1>10. CASE PrintObject
  BY <1>5, <1>10 DEF PrintObject, filterVars
<1>11. CASE UNCHANGED vars
  BY <1>5, <1>11 DEF vars, walkVars, filterVars
<1>12. CASE ExtendFunction
  <2>1. /\ UNCHANGED <<config, line, section, excluded, included>>
        /\ pc = "symbol" /\ pc' = "decode" /\ raisers # <<>>
    BY <1>12 DEF ExtendFunction, AtSymbol, StartDecoding, filterVars
  <2>2. ~Reading
    BY <2>1 DEF ListsInv, ConfigRead
  <2>3. /\ Len(raisers') = Len(raisers)
        /\ \A i \in 1..Len(raisers) : raisers'[i].name = raisers[i].name
    <3> DEFINE L == Len(raisers)
               e == IF raisers[L].end < End(si) /\ Asserts THEN End(si) ELSE raisers[L].end
    <3>1. raisers' = [raisers EXCEPT ![L] = [raisers[L] EXCEPT !.end = e]]
      BY <1>12 DEF ExtendFunction, getCurrentMachineFunctionRaiser
    <3>2. L \in 1..Len(raisers) /\ raisers[L] \in RaiserSet
      BY <1>1, <2>1
    <3> HIDE DEF e
    <3>3. [raisers[L] EXCEPT !.end = e].name = raisers[L].name
      BY <3>2 DEF RaiserSet
    <3> QED
      BY <1>1, <3>1, <3>2, <3>3
  <2> QED
    BY <1>1, <1>2, <2>1, <2>2, <2>3, QuietKeepsListsInv
<1>13. ASSUME NEW d \in Decodings \cup {Data}, addMCInstOrData(index, d), Decoding,
              UNCHANGED <<filterVars, pc>>
       PROVE  ListsInv'
  <2>1. raisers # <<>> /\ index \in Offsets
    BY <1>13 DEF WalkInv, DecodeHasRaiser, Decoding, TypeOK
  <2>2. /\ Len(raisers') = Len(raisers)
        /\ \A i \in 1..Len(raisers) : raisers'[i].name = raisers[i].name
    BY <1>1, <1>13, <2>1, AddInstType
  <2> QED
    BY <1>1, <1>2, <1>13, <2>2, QuietKeepsListsInv DEF filterVars
<1>14. ASSUME NEW d \in Decodings, DecodeInst(d) PROVE ListsInv'
  BY <1>13, <1>14 DEF DecodeInst
<1>15. CASE AddData
  BY <1>13, <1>15 DEF AddData
<1>16. CASE EndSymbol
  <2>1. /\ UNCHANGED <<config, line, section, excluded>> /\ UNCHANGED raisers
        /\ pc = "decode" /\ pc' = "symbol"
        /\ included' = eraseFunctionBySymbol(included, symtab[si].name)
    BY <1>16 DEF EndSymbol
  <2>2. ~Reading
    BY <2>1 DEF ListsInv, ConfigRead
  <2>3. \A n \in Names : included'[n] <= included[n]
    BY <1>1, <1>2, <2>1 DEF eraseFunctionBySymbol, TypeOK, FilterTypeOK
  <2> QED
    BY <1>1, <2>1, <2>2, <2>3, QuietKeepsListsInv
<1>17. CASE EndWalk
  <2>1. /\ UNCHANGED filterVars /\ raisers' = RecordTargets
        /\ pc = "symbol" /\ pc' = "passes"
    BY <1>17 DEF EndWalk
  <2>2. ~Reading
    BY <2>1 DEF ListsInv, ConfigRead
  <2> QED
    BY <1>1, <1>2, <2>1, <2>2, RecordTargetsType, QuietKeepsListsInv DEF filterVars
<1> QED
  BY <1>3, <1>4, <1>6, <1>7, <1>8, <1>9, <1>10, <1>11, <1>12, <1>14, <1>15, <1>16, <1>17
     DEF Next, WalkSymbol, Decode, Finished

\* When no section of any configuration file names a function twice, a function
\* of the exclude section is never raised.
THEOREM ExclusionHolds ==
  ASSUME \A c \in Configs : NoRepeatedEntry(c)
  PROVE  Spec => []ExcludedNeverRaised
<1>1. Init => ListsInv
  <2> SUFFICES ASSUME Init PROVE ListsInv
    OBVIOUS
  <2>1. TypeOK
    BY InitTypeOK
  <2>2. NoRepeatedEntry(config) /\ line = 1 /\ section = "FILTER_NONE" /\ raisers = <<>>
        /\ pc = "config" /\ \A n \in Names : excluded[n] = 0 /\ included[n] = 0
    BY DEF Init, FilterInit
  <2>3. SectionTracked
    BY <2>2 DEF SectionTracked, InSection
  <2> QED
    BY <2>1, <2>2, <2>3 DEF ListsInv, ExcludedListed, IncludedListed, ConfigRead,
       ExcludedNeverRaised
<1>2. ListsInv /\ WalkInv /\ WalkInv' /\ [Next]_vars => ListsInv'
  BY NextKeepsListsInv
<1>3. ListsInv => ExcludedNeverRaised
  BY DEF ListsInv
<1> QED
  BY <1>1, <1>2, <1>3, WalkInvariant, PTL DEF Spec

-----------------------------------------------------------------------------
(* In a build with assertions every raiser knows its leaders when the passes start. *)

Branches(r) == {o \in Offsets : r.insts[o].kind \in BranchKinds}
After(r, o) == o + r.insts[o].size
Target(r, o) == After(r, o) + r.insts[o].disp
Cut(o, next, starts) == \E a \in starts : o < a /\ a < next

\* What LeadersRecorded says of one raiser.
KnowsLeaders(r, starts) ==
  /\ r.start \in r.targets
  /\ \A o \in Branches(r) :
       /\ /\ r.insts[o].kind # "indirect"
          /\ r.start <= Target(r, o) /\ Target(r, o) < r.end
          => Target(r, o) \in r.targets
       /\ /\ After(r, o) \in Offsets
          /\ r.insts[After(r, o)] # Absent
          /\ ~Cut(o, After(r, o), starts)
          => After(r, o) \in r.targets

\* The offset after a branch is in T, or is no instruction of the function, now or
\* until its end moves.
NextCollected(r, o, T, starts, settled) ==
  \/ After(r, o) \in T
  \/ Cut(o, After(r, o), starts)
  \/ After(r, o) >= r.end
  \/ After(r, o) < settled /\ r.insts[After(r, o)] = Absent

Collects(r, T, starts, settled) ==
  /\ r.start \in T
  /\ \A o \in Branches(r) :
       /\ r.insts[o].kind # "indirect" => Target(r, o) \in T
       /\ NextCollected(r, o, T, starts, settled)

\* Below this offset the last raiser gets no more instructions.
Settled == IF pc = "decode" THEN Start(si) ELSE raisers[Last].end

\* The last raiser's leaders are in branchTargetSet until they are handed over.
LeadersInv ==
  \A i \in 1..Len(raisers) :
    IF i = Len(raisers) /\ pc # "passes"
    THEN Collects(raisers[i], branchTargetSet, SymbolStarts, Settled)
    ELSE KnowsLeaders(raisers[i], SymbolStarts)

-----------------------------------------------------------------------------
(* Facts about one raiser. *)

\* An instruction that branches is there, and its offsets are numbers.
LEMMA BranchFacts ==
  ASSUME NEW r \in RaiserSet, NEW o \in Branches(r)
  PROVE  /\ o \in Offsets /\ o \in Nat
         /\ After(r, o) \in Nat /\ Target(r, o) \in Int
         /\ r.insts[o] # Absent
<1>1. o \in Offsets /\ o \in Nat /\ r.insts[o].kind \in BranchKinds
  BY DisassemblyAssumption DEF Branches, Offsets
<1>2. r.insts[o] \in Decodings \cup {Absent, Data}
  BY <1>1 DEF RaiserSet
<1>3. r.insts[o].size \in Nat /\ r.insts[o].disp \in Int
  BY <1>2, DisassemblyAssumption DEF Decoded, Absent, Data
<1> QED
  BY <1>1, <1>3 DEF After, Target, BranchKinds, Absent

\* What has been collected is all that a raiser has to know when its end and its
\* instructions are final.
LEMMA HandOverCompletes ==
  ASSUME NEW r \in RaiserSet, NEW T \in SUBSET Int, NEW starts, NEW settled,
         r.start <= r.end,
         \A o \in Offsets : r.insts[o] # Absent => r.start <= o /\ o < r.end,
         Collects(r, T, starts, settled)
  PROVE  KnowsLeaders(addTargets(r, T), starts)
<1> DEFINE q == addTargets(r, T)
<1>1. /\ q.start = r.start /\ q.end = r.end /\ q.insts = r.insts
      /\ q.targets = r.targets \cup {t \in T : r.start <= t /\ t <= r.end}
  BY DEF addTargets, RaiserSet
<1>2. r.start \in Nat /\ r.end \in Nat
  BY DisassemblyAssumption DEF RaiserSet, Offsets
<1> HIDE DEF q
<1>3. q.start \in q.targets
  BY <1>1, <1>2 DEF Collects
<1>4. ASSUME NEW o \in Branches(q)
      PROVE  /\ /\ q.insts[o].kind # "indirect"
                /\ q.start <= Target(q, o) /\ Target(q, o) < q.end
                => Target(q, o) \in q.targets
             /\ /\ After(q, o) \in Offsets
                /\ q.insts[After(q, o)] # Absent
                /\ ~Cut(o, After(q, o), starts)
                => After(q, o) \in q.targets
  <2>1. o \in Branches(r) /\ After(q, o) = After(r, o) /\ Target(q, o) = Target(r, o)
    BY <1>1, <1>4 DEF Branches, After, Target
  <2>2. After(r, o) \in Nat /\ Target(r, o) \in Int
    BY <2>1, BranchFacts
  <2>3. (r.insts[o].kind # "indirect" => Target(r, o) \in T)
        /\ NextCollected(r, o, T, starts, settled)
    BY <2>1 DEF Collects
  <2>4. ASSUME q.insts[o].kind # "indirect", q.start <= Target(q, o), Target(q, o) < q.end
        PROVE  Target(q, o) \in q.targets
    BY <1>1, <1>2, <2>1, <2>2, <2>3, <2>4
  <2>5. ASSUME After(q, o) \in Offsets, q.insts[After(q, o)] # Absent,
               ~Cut(o, After(q, o), starts)
        PROVE  After(q, o) \in q.targets
    <3>1. r.start <= After(r, o) /\ After(r, o) < r.end
      BY <1>1, <2>1, <2>5
    <3>2. After(r, o) \in T
      BY <1>1, <1>2, <2>1, <2>2, <2>3, <2>5, <3>1 DEF NextCollected
    <3> QED
      BY <1>1, <1>2, <2>1, <2>2, <3>1, <3>2
  <2> QED
    BY <2>4, <2>5
<1> QED
  BY <1>3, <1>4 DEF KnowsLeaders, q

LEMMA SettledIsAnOffset == ASSUME WalkInv, raisers # <<>> PROVE Settled \in Nat
<1>1. CASE pc = "decode"
  BY <1>1, SymbolFacts DEF WalkInv, DecodeHasRaiser, Settled
<1>2. CASE pc # "decode"
  <2>1. Last \in 1..Len(raisers)
    BY DEF WalkInv, TypeOK, Last
  <2> QED
    BY <1>2, <2>1, RaiserFacts DEF Settled
<1> QED
  BY <1>1, <1>2

-----------------------------------------------------------------------------
(* The steps. *)

\* The raisers and the collected targets stay; no offset is unsettled again.
LEMMA QuietKeepsLeadersInv ==
  ASSUME WalkInv, LeadersInv, UNCHANGED <<symtab, branchTargetSet, raisers>>,
         pc # "passes", pc' # "passes",
         raisers # <<>> => Settled' \in Nat /\ Settled <= Settled'
  PROVE  LeadersInv'
<1> SUFFICES ASSUME NEW i \in 1..Len(raisers)
             PROVE  IF i = Len(raisers)
                    THEN Collects(raisers[i], branchTargetSet, SymbolStarts, Settled')
                    ELSE KnowsLeaders(raisers[i], SymbolStarts)
  BY DEF LeadersInv, SymbolStarts
<1>1. CASE i # Len(raisers)
  BY <1>1 DEF LeadersInv
<1>2. CASE i = Len(raisers)
  <2> DEFINE r == raisers[i]
  <2>1. Collects(r, branchTargetSet, SymbolStarts, Settled)
    BY <1>2 DEF LeadersInv
  <2>2. r \in RaiserSet /\ raisers # <<>> /\ Settled <= Settled'
    BY RaiserFacts, <1>2
  <2>3. Settled \in Nat /\ Settled' \in Nat
    BY <2>2, SettledIsAnOffset
  <2> HIDE DEF r
  <2>4. ASSUME NEW o \in Branches(r)
        PROVE  NextCollected(r, o, branchTargetSet, SymbolStarts, Settled')
    <3>1. After(r, o) \in Nat
      BY <2>2, BranchFacts
    <3>2. NextCollected(r, o, branchTargetSet, SymbolStarts, Settled)
      BY <2>1 DEF Collects
    <3> QED
      BY <2>2, <2>3, <3>1, <3>2 DEF NextCollected
  <2>5. Collects(r, branchTargetSet, SymbolStarts, Settled')
    BY <2>1, <2>4 DEF Collects
  <2> QED
    BY <1>2, <2>5 DEF r
<1> QED
  BY <1>1, <1>2


\* The last raiser knows its leaders once it has what was collected.
LEMMA LastIsHandedOver ==
  ASSUME Asserts, WalkInv, LeadersInv, pc # "passes", raisers # <<>>
  PROVE  KnowsLeaders(addTargets(raisers[Last], branchTargetSet), SymbolStarts)
<1> DEFINE r == raisers[Last]
<1>1. Last \in 1..Len(raisers)
  BY DEF WalkInv, TypeOK, Last
<1>2. r \in RaiserSet /\ branchTargetSet \in SUBSET Int
  BY <1>1, RaiserFacts DEF WalkInv, TypeOK
<1>3. r.start <= r.end
  BY <1>1 DEF WalkInv, RangesOrdered
<1>4. \A o \in Offsets : r.insts[o] # Absent => r.start <= o /\ o < r.end
  BY <1>1 DEF WalkInv, InstsPlaced, InstsInRange
<1>5. Collects(r, branchTargetSet, SymbolStarts, Settled)
  BY <1>1 DEF LeadersInv, Last
<1> HIDE DEF r
<1>6. KnowsLeaders(addTargets(r, branchTargetSet), SymbolStarts)
  BY <1>2, <1>3, <1>4, <1>5, HandOverCompletes
<1> QED
  BY <1>6 DEF r

\* A new function takes its own start as the first leader; the raiser before it gets
\* what was collected.
LEMMA BeginFunctionKeepsLeadersInv ==
  ASSUME Asserts, WalkInv, LeadersInv, BeginFunction PROVE LeadersInv'
<1> DEFINE new == Raiser(symtab[si].name, Start(si), End(si))
<1>1. /\ RecordTargets \in Seq(RaiserSet) /\ Len(RecordTargets) = Len(raisers)
      /\ raisers' = Append(RecordTargets, new) /\ Len(raisers) \in Nat
      /\ \A i \in 1..Len(raisers) : i < Len(raisers) => RecordTargets[i] = raisers[i]
  BY RecordTargetsType DEF BeginFunction, WalkInv, TypeOK
<1>2. /\ Len(raisers') = Len(raisers) + 1 /\ raisers'[Len(raisers) + 1] = new
      /\ \A i \in 1..Len(raisers) : raisers'[i] = RecordTargets[i]
  BY <1>1
<1>3. /\ new.start = Start(si) /\ new.insts = [o \in Offsets |-> Absent]
  BY DEF Raiser
<1> HIDE DEF new
<1>4. branchTargetSet' = {Start(si)} /\ SymbolStarts' = SymbolStarts /\ pc' = "decode"
      /\ pc = "symbol"
  BY DEF BeginFunction, StartDecoding, SymbolStarts, AtSymbol
<1> SUFFICES ASSUME NEW i \in 1..(Len(raisers) + 1)
             PROVE  IF i = Len(raisers) + 1
                    THEN Collects(raisers'[i], branchTargetSet', SymbolStarts, Settled')
                    ELSE KnowsLeaders(raisers'[i], SymbolStarts)
  BY <1>2, <1>4 DEF LeadersInv
<1>5. CASE i = Len(raisers) + 1
  <2>1. Branches(new) = {}
    BY <1>3 DEF Branches, Absent, BranchKinds
  <2> QED
    BY <1>1, <1>2, <1>3, <1>4, <1>5, <2>1 DEF Collects
<1>6. CASE i < Len(raisers)
  BY <1>1, <1>2, <1>6 DEF LeadersInv
<1>7. CASE i = Len(raisers)
  <2>1. raisers # <<>> /\ i \in 1..Len(raisers)
    BY <1>1, <1>7
  <2>2. RecordTargets[i] = addTargets(raisers[i], branchTargetSet)
    <3>1. RecordTargets = [raisers EXCEPT ![i] = addTargets(raisers[i], branchTargetSet)]
      BY <1>7, <2>1 DEF RecordTargets
    <3>2. raisers \in Seq(RaiserSet)
      BY DEF WalkInv, TypeOK
    <3> QED
      BY <2>1, <3>1, <3>2
  <2>3. KnowsLeaders(addTargets(raisers[i], branchTargetSet), SymbolStarts)
    BY <1>4, <1>7, <2>1, LastIsHandedOver DEF Last
  <2> QED
    BY <1>1, <1>2, <1>7, <2>1, <2>2, <2>3
<1> QED
  BY <1>1, <1>5, <1>6, <1>7

\* Bytes that go to the last raiser: its end moves from before them to behind them.  A
\* branch that was waiting for the offset after it has it collected, is cut by the
\* symbol, or leads into a gap.
LEMMA ExtendFunctionKeepsLeadersInv ==
  ASSUME Asserts, WalkInv, LeadersInv, ExtendFunction PROVE LeadersInv'
<1> DEFINE r == raisers[Last]
           q == [r EXCEPT !.end = IF @ < End(si) /\ Asserts THEN End(si) ELSE @]
<1>1. /\ Last \in 1..Len(raisers) /\ raisers \in Seq(RaiserSet) /\ r \in RaiserSet
      /\ pc = "symbol" /\ si \in 1..Len(symtab) /\ raisers # <<>>
  BY DEF WalkInv, TypeOK, Last, ExtendFunction, AtSymbol
<1>2. raisers' = [raisers EXCEPT ![Last] = q]
  BY DEF ExtendFunction, getCurrentMachineFunctionRaiser, Last
<1>3. /\ q.start = r.start /\ q.insts = r.insts
      /\ q.end = IF r.end < End(si) /\ Asserts THEN End(si) ELSE r.end
  BY <1>1 DEF RaiserSet
<1>4. /\ Start(si) \in Nat /\ End(si) \in Nat /\ r.end \in Nat
      /\ Start(si) < End(si) /\ r.end <= Start(si)
      /\ End(si) <= SectSize /\ SectSize \in Nat
  <2>1. /\ Start(si) \in Nat /\ End(si) \in Nat /\ r.end \in Nat
        /\ End(si) <= SectSize /\ SectSize \in Nat
    BY <1>1, SymbolFacts, RaiserFacts
  <2> QED
    BY <1>1, <2>1 DEF ExtendFunction, WalkInv, LastRaiserPlaced
<1>5. q.end = End(si)
  BY <1>3, <1>4
<1>6. Collects(r, branchTargetSet, SymbolStarts, r.end)
  BY <1>1 DEF LeadersInv, Last, Settled
<1>7. \A o \in Offsets : r.insts[o] # Absent => o < r.end
  BY <1>1 DEF WalkInv, InstsPlaced, InstsInRange
<1>8. Start(si) \in SymbolStarts
  BY <1>1 DEF Start, SymbolStarts, WalkInv, TypeOK
<1> DEFINE T == branchTargetSet \cup {Start(si)}
<1> HIDE DEF r, q
<1>9. Collects(q, T, SymbolStarts, Start(si))
  <2> SUFFICES ASSUME NEW o \in Branches(q)
               PROVE  /\ q.insts[o].kind # "indirect" => Target(q, o) \in T
                      /\ NextCollected(q, o, T, SymbolStarts, Start(si))
    BY <1>3, <1>6 DEF Collects
  <2>1. o \in Branches(r) /\ After(q, o) = After(r, o) /\ Target(q, o) = Target(r, o)
    BY <1>3 DEF Branches, After, Target
  <2>2. o \in Offsets /\ o \in Nat /\ After(r, o) \in Nat /\ r.insts[o] # Absent
    BY <1>1, <2>1, BranchFacts DEF r
  <2>3. q.insts[o].kind # "indirect" => Target(q, o) \in T
    BY <1>3, <1>6, <2>1 DEF Collects
  <2>4. NextCollected(r, o, branchTargetSet, SymbolStarts, r.end)
    BY <1>6, <2>1 DEF Collects
  <2>5. CASE After(r, o) < r.end
    BY <1>3, <1>4, <2>1, <2>2, <2>3, <2>4, <2>5 DEF NextCollected
  <2>6. CASE r.end <= After(r, o) /\ After(r, o) < Start(si)
    <3>1. After(r, o) \in Offsets
      BY <1>4, <2>2, <2>6 DEF Offsets
    <3>2. q.insts[After(q, o)] = Absent
      BY <1>3, <1>4, <1>7, <2>1, <2>2, <2>6, <3>1
    <3> QED
      BY <2>1, <2>3, <2>6, <3>2 DEF NextCollected
  <2>7. CASE After(r, o) = Start(si)
    BY <2>1, <2>3, <2>7 DEF NextCollected
  <2>8. CASE Start(si) < After(r, o)
    <3>1. o < Start(si)
      BY <1>4, <1>7, <2>2
    <3> QED
      BY <1>8, <2>1, <2>3, <2>8, <3>1 DEF NextCollected, Cut
  <2> QED
    BY <1>4, <2>2, <2>3, <2>5, <2>6, <2>7, <2>8
<1>10. /\ branchTargetSet' = T /\ SymbolStarts' = SymbolStarts
       /\ Settled' = Start(si) /\ pc' = "decode"
  BY DEF ExtendFunction, StartDecoding, SymbolStarts, Settled, Start
<1>11. /\ Len(raisers') = Len(raisers) /\ raisers'[Last] = q
       /\ \A i \in 1..Len(raisers) : i # Last => raisers'[i] = raisers[i]
  BY <1>1, <1>2
<1> HIDE DEF T
<1> QED
  BY <1>1, <1>9, <1>10, <1>11 DEF LeadersInv, Last

\* An instruction brings its targets with it; what an older branch waits for is not
\* at its offset.
LEMMA AddInstKeepsLeadersInv ==
  ASSUME WalkInv, LeadersInv, Asserts, pc = "decode", NEW d \in Decodings \cup {Data},
         addMCInstOrData(index, d),
         branchTargetSet' = branchTargetSet \cup TargetsOf(d, index, End(si)),
         UNCHANGED <<symtab, si, pc>>
  PROVE  LeadersInv'
<1> DEFINE r == raisers[Last]
           q == [r EXCEPT !.insts[index] = d]
           T == branchTargetSet \cup TargetsOf(d, index, End(si))
<1>1. /\ Last \in 1..Len(raisers) /\ raisers \in Seq(RaiserSet) /\ r \in RaiserSet
      /\ si \in 1..Len(symtab) /\ raisers # <<>> /\ index \in Offsets
  BY DEF WalkInv, TypeOK, Last, DecodeHasRaiser
<1>2. raisers' = [raisers EXCEPT ![Last] = q]
  BY DEF addMCInstOrData, getCurrentMachineFunctionRaiser, Last
<1>3. /\ q.start = r.start /\ q.end = r.end /\ q.insts[index] = d
      /\ \A o \in Offsets : o # index => q.insts[o] = r.insts[o]
  BY <1>1 DEF RaiserSet
<1>4. /\ Start(si) \in Nat /\ End(si) \in Nat /\ index \in Nat
      /\ Start(si) <= index /\ r.end = End(si)
  BY <1>1, SymbolFacts, DisassemblyAssumption DEF WalkInv, LastRaiserPlaced, Offsets
<1>5. Collects(r, branchTargetSet, SymbolStarts, Start(si))
  BY <1>1 DEF LeadersInv, Last, Settled
<1>6. q \in RaiserSet
  BY <1>1 DEF RaiserSet
<1> HIDE DEF r, q
<1>7. Collects(q, T, SymbolStarts, Start(si))
  <2> SUFFICES ASSUME NEW o \in Branches(q)
               PROVE  /\ q.insts[o].kind # "indirect" => Target(q, o) \in T
                      /\ NextCollected(q, o, T, SymbolStarts, Start(si))
    BY <1>3, <1>5 DEF Collects
  <2>1. CASE o = index
    <3>1. d.kind \in BranchKinds /\ After(q, o) = index + d.size
          /\ Target(q, o) = index + d.size + d.disp
      BY <1>3, <2>1 DEF Branches, After, Target
    <3>2. q.insts[o].kind # "indirect" => Target(q, o) \in T
      BY <1>3, <2>1, <3>1 DEF TargetsOf, BranchKinds
    <3>3. After(q, o) \in T \/ ~(After(q, o) < End(si))
      BY <3>1 DEF TargetsOf
    <3>4. After(q, o) \in Nat
      BY <1>6, BranchFacts
    <3> QED
      BY <1>3, <1>4, <3>2, <3>3, <3>4 DEF NextCollected
  <2>2. CASE o # index
    <3>1. o \in Branches(r) /\ After(q, o) = After(r, o) /\ Target(q, o) = Target(r, o)
          /\ q.insts[o] = r.insts[o]
      BY <1>3, <2>2 DEF Branches, After, Target
    <3>2. After(r, o) \in Nat
      BY <1>1, <3>1, BranchFacts DEF r
    <3>3. /\ r.insts[o].kind # "indirect" => Target(r, o) \in branchTargetSet
          /\ NextCollected(r, o, branchTargetSet, SymbolStarts, Start(si))
      BY <1>5, <3>1 DEF Collects
    <3>4. ASSUME After(r, o) < Start(si) PROVE q.insts[After(r, o)] = r.insts[After(r, o)]
      <4>1. After(r, o) \in Offsets /\ After(r, o) # index
        BY <1>1, <1>4, <3>2, <3>4, DisassemblyAssumption DEF Offsets
      <4> QED
        BY <1>3, <4>1
    <3> QED
      BY <1>3, <3>1, <3>3, <3>4 DEF NextCollected
  <2> QED
    BY <2>1, <2>2
<1>8. branchTargetSet' = T /\ SymbolStarts' = SymbolStarts /\ Settled' = Start(si)
  BY DEF SymbolStarts, Settled, Start
<1>9. /\ Len(raisers') = Len(raisers) /\ raisers'[Last] = q
      /\ \A i \in 1..Len(raisers) : i # Last => raisers'[i] = raisers[i]
  BY <1>1, <1>2
<1> HIDE DEF T
<1> QED
  BY <1>1, <1>7, <1>8, <1>9 DEF LeadersInv, Last

\* After the last symbol the last raiser gets what was collected.
LEMMA EndWalkKeepsLeadersInv ==
  ASSUME Asserts, WalkInv, LeadersInv, EndWalk PROVE LeadersInv'
<1>1. /\ RecordTargets \in Seq(RaiserSet) /\ Len(RecordTargets) = Len(raisers)
      /\ raisers' = RecordTargets /\ pc' = "passes" /\ pc = "symbol"
      /\ \A i \in 1..Len(raisers) : i < Len(raisers) => RecordTargets[i] = raisers[i]
  BY RecordTargetsType DEF EndWalk, WalkInv
<1>2. SymbolStarts' = SymbolStarts
  BY DEF EndWalk, SymbolStarts
<1> SUFFICES ASSUME NEW i \in 1..Len(raisers)
             PROVE  KnowsLeaders(RecordTargets[i], SymbolStarts)
  BY <1>1, <1>2 DEF LeadersInv
<1>3. CASE i < Len(raisers)
  BY <1>1, <1>3 DEF LeadersInv
<1>4. CASE i = Len(raisers)
  <2>1. raisers # <<>> /\ raisers \in Seq(RaiserSet)
    BY DEF WalkInv, TypeOK
  <2>2. RecordTargets = [raisers EXCEPT ![i] = addTargets(raisers[i], branchTargetSet)]
    BY <1>4, <2>1 DEF RecordTargets
  <2>3. RecordTargets[i] = addTargets(raisers[i], branchTargetSet)
    BY <2>1, <2>2
  <2>4. KnowsLeaders(addTargets(raisers[i], branchTargetSet), SymbolStarts)
    BY <1>1, <1>4, <2>1, LastIsHandedOver DEF Last
  <2> QED
    BY <2>3, <2>4
<1> QED
  BY <1>3, <1>4

LEMMA NextKeepsLeadersInv ==
  ASSUME Asserts, WalkInv, LeadersInv, [Next]_vars PROVE LeadersInv'
<1>1. CASE ReadConfig
  BY <1>1, SettledIsAnOffset, QuietKeepsLeadersInv
  DEF ReadConfig, walkVars, Settled, Start, Last
<1>2. CASE BeginWalk
  BY <1>2, SettledIsAnOffset, QuietKeepsLeadersInv DEF BeginWalk, Settled, Last
<1>3. CASE SkipEmptySymbol \/ SkipFilteredFunction \/ SkipOrphanSymbol
  <2>1. pc = "symbol" /\ UNCHANGED <<symtab, pc, branchTargetSet, raisers>>
    BY <1>3 DEF SkipEmptySymbol, SkipFilteredFunction, SkipOrphanSymbol, AtSymbol,
                GotoNextSymbol
  <2> QED
    BY <2>1, SettledIsAnOffset, QuietKeepsLeadersInv DEF Settled, Last
<1>4. CASE BeginFunction
  BY <1>4, BeginFunctionKeepsLeadersInv
<1>5. CASE ExtendFunction
  BY <1>5, ExtendFunctionKeepsLeadersInv
<1>6. ASSUME NEW d \in Decodings, DecodeInst(d) PROVE LeadersInv'
  BY <1>6, AddInstKeepsLeadersInv DEF DecodeInst, Decoding
<1>7. CASE AddData
  <2>1. branchTargetSet \cup TargetsOf(Data, index, End(si)) = branchTargetSet
    BY DEF TargetsOf, Data, BranchKinds
  <2> QED
    BY <1>7, <2>1, AddInstKeepsLeadersInv DEF AddData, Decoding
<1>8. CASE PrintObject \/ \E d \in Decodings : FailToDecode(d)
  <2>1. pc = "decode" /\ UNCHANGED <<symtab, si, pc, branchTargetSet, raisers>>
    BY <1>8 DEF PrintObject, FailToDecode, Decoding
  <2> QED
    BY <2>1, SettledIsAnOffset, QuietKeepsLeadersInv DEF Settled, Start
<1>9. CASE EndSymbol
  <2>1. /\ pc = "decode" /\ pc' = "symbol"
        /\ UNCHANGED <<symtab, branchTargetSet, raisers>>
    BY <1>9 DEF EndSymbol
  <2>2. /\ si \in 1..Len(symtab) /\ Last \in 1..Len(raisers)
    BY <2>1 DEF WalkInv, TypeOK, DecodeHasRaiser, Last
  <2>3. Start(si) <= End(si)
    <3>1. Start(si) <= SectSize /\ Start(si) \in Nat /\ SectSize \in Nat
      BY <2>1, <2>2, SymbolFacts, DisassemblyAssumption
      DEF WalkInv, TypeOK, LastRaiserPlaced, Offsets
    <3>2. si < Len(symtab) => Start(si) <= symtab[si + 1].addr
      BY <2>2 DEF WalkInv, TypeOK, Sorted, Start
    <3> QED
      BY <2>2, <3>1, <3>2 DEF End, MinOf, WalkInv, TypeOK
  <2>4. raisers[Last].end = End(si) /\ End(si) \in Nat
    BY <2>1, <2>2, SymbolFacts DEF WalkInv, LastRaiserPlaced
  <2> QED
    BY <2>1, <2>2, <2>3, <2>4, QuietKeepsLeadersInv DEF Settled, Last
<1>10. CASE EndWalk
  BY <1>10, EndWalkKeepsLeadersInv
<1>11. CASE UNCHANGED vars
  BY <1>11 DEF vars, walkVars, LeadersInv, SymbolStarts, Settled, Start, Last
<1> QED
  BY <1>1, <1>2, <1>3, <1>4, <1>5, <1>6, <1>7, <1>8, <1>9, <1>10, <1>11
  DEF Next, WalkSymbol, Decode, Finished

-----------------------------------------------------------------------------
(* The theorem about the leaders. *)

\* In a build with assertions, every raiser is given its first instruction, the targets
\* in its range of all its branches, and what follows each of them, before buildCFG
\* looks at them.
THEOREM LeadersAreRecorded == Asserts => (Spec => []LeadersRecorded)
<1> SUFFICES ASSUME Asserts PROVE Spec => []LeadersRecorded
  OBVIOUS
<1>1. Init => LeadersInv
  BY DEF Init, LeadersInv
<1>2. WalkInv /\ LeadersInv /\ [Next]_vars => LeadersInv'
  BY NextKeepsLeadersInv
<1>3. LeadersInv /\ WalkInv => LeadersRecorded
  <2> SUFFICES ASSUME LeadersInv, WalkInv, pc = "passes", NEW i \in DOMAIN raisers
               PROVE  KnowsLeaders(raisers[i], SymbolStarts)
    BY DEF LeadersRecorded, KnowsLeaders, Branches, After, Target, Cut
  <2> QED
    BY DEF LeadersInv, WalkInv, TypeOK
<1> QED
  BY <1>1, <1>2, <1>3, WalkInvariant, PTL DEF Spec
=============================================================================
