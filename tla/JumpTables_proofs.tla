---------------------------- MODULE JumpTables_proofs ----------------------------
(***************************************************************************)
(* Theorems about JumpTables, for every function, every layout of its      *)
(* blocks, tables and sections: the edges of the graph are those of the    *)
(* tables, and the switches go where the machine goes.                     *)
(***************************************************************************)
EXTENDS JumpTables, FiniteSetTheorems, WellFoundedInduction, TLAPS

-----------------------------------------------------------------------------
(* Numbers. *)

LEMMA LeastNumber ==
  ASSUME NEW T \in SUBSET Nat, T # {}
  PROVE  Min(T) \in T /\ \A y \in T : Min(T) <= y
<1> DEFINE R == {ss \in Nat \X Nat : ss[1] < ss[2]}
<1>1. IsWellFoundedOn(R, Nat)
  BY NatLessThanWellFounded DEF OpToRel
<1>2. \A x, y \in Nat : <<y, x>> \in R <=> y < x
  OBVIOUS
<1> HIDE DEF R
<1>3. PICK x \in T : \A y \in T : <<y, x>> \notin R
  BY <1>1, WFMin
<1>4. \A y \in T : x <= y
  <2> SUFFICES ASSUME NEW y \in T PROVE x <= y
    OBVIOUS
  <2>1. ~(y < x)
    BY <1>2, <1>3
  <2> QED
    BY <2>1
<1> QED
  BY <1>4 DEF Min

LEMMA GreatestNumber ==
  ASSUME NEW n \in Nat, NEW T \in SUBSET (0..n), T # {}
  PROVE  Max(T) \in T /\ \A y \in T : y <= Max(T)
<1> DEFINE U == {n - x : x \in T}
<1>1. U \in SUBSET Nat /\ U # {}
  <2>1. \A x \in T : n - x \in Nat /\ n - x \in U
    OBVIOUS
  <2>2. U # {}
    BY <2>1
  <2>3. \A u \in U : u \in Nat
    BY <2>1
  <2> QED
    BY <2>2, <2>3
<1>2. Min(U) \in U /\ \A y \in U : Min(U) <= y
  <2> HIDE DEF U
  <2> QED
    BY <1>1, LeastNumber
<1>3. PICK x \in T : Min(U) = n - x
  BY <1>2
<1>4. \A y \in T : y <= x
  <2> SUFFICES ASSUME NEW y \in T PROVE y <= x
    OBVIOUS
  <2>1. n - y \in U
    OBVIOUS
  <2>2. n - x <= n - y
    BY <1>2, <1>3, <2>1
  <2> QED
    BY <2>2
<1> QED
  BY <1>4 DEF Max

-----------------------------------------------------------------------------
(* The function. *)

\* What the assumptions say of the function at hand.
LEMMA CodeFacts ==
  ASSUME fn \in Functions, NEW b \in Blocks
  PROVE  /\ fn.code[b].mis \in Seq(Instrs)
         /\ fn.code[b].term \in Terminators
         /\ fn.preds[b] \in Seq(Blocks)
         /\ fn.code[b].term.op = "jcc" =>
              \E c \in Blocks : Successors(fn, b) = {fn.code[b].term.target, c}
         /\ fn.code[b].term.op = "ijmp" =>
              \A i \in DOMAIN fn.code[b].mis :
                fn.code[b].mis[i].op \in {"lea", "mov"} =>
                  fn.code[b].mis[i].base = fn.code[b].base
         /\ fn.code[b].term.op = "ijmpmem" => fn.code[b].term.base = fn.code[b].base
BY FunctionsAssumption

LEMMA DataFacts ==
  ASSUME fn \in Functions
  PROVE  /\ fn.words \in Seq(Nat)
         /\ fn.sections \in Seq([start : Nat, end : Nat])
         /\ \A i \in 1 .. Len(fn.sections) :
              /\ fn.sections[i].start \in Nat /\ fn.sections[i].end \in Nat
              /\ fn.sections[i].start <= fn.sections[i].end
              /\ fn.sections[i].end <= Len(fn.words)
         /\ \A i, j \in 1 .. Len(fn.sections) :
              i < j => fn.sections[i].end <= fn.sections[j].start
<1>1. fn.words \in Seq(Nat) /\ fn.sections \in Seq([start : Nat, end : Nat])
  BY FunctionsAssumption
<1>2. DOMAIN fn.sections = 1 .. Len(fn.sections)
  BY <1>1
<1>3. \A i, j \in 1 .. Len(fn.sections) :
        /\ fn.sections[i].start <= fn.sections[i].end
        /\ fn.sections[i].end <= Len(fn.words)
        /\ i < j => fn.sections[i].end <= fn.sections[j].start
  BY <1>2, FunctionsAssumption
<1>4. \A i \in 1 .. Len(fn.sections) :
        fn.sections[i].start \in Nat /\ fn.sections[i].end \in Nat
  <2> SUFFICES ASSUME NEW i \in 1 .. Len(fn.sections)
               PROVE  fn.sections[i] \in [start : Nat, end : Nat]
    OBVIOUS
  <2> DEFINE sections == fn.sections
             S == [start : Nat, end : Nat]
  <2>1. sections \in Seq(S)
    BY <1>1
  <2> HIDE DEF sections, S
  <2>2. \A k \in 1 .. Len(sections) : sections[k] \in S
    BY <2>1
  <2> QED
    BY <2>2 DEF sections, S
<1> QED
  BY <1>1, <1>3, <1>4

\* The table of a switch lies in a section and leads into the function.
LEMMA SwitchFacts ==
  ASSUME fn \in Functions, NEW s \in SwitchesOf
  PROVE  /\ s \in Blocks \X Blocks /\ s = <<s[1], s[2]>>
         /\ fn.code[s[1]].term.op = "jcc" /\ fn.code[s[1]].term.target \in Blocks
         /\ fn.code[s[1]].term.target # s[2]
         /\ s[2] \in Successors(fn, s[1])
         /\ fn.code[s[2]].term.op \in TableBranches
         /\ Base(s) \in Nat /\ Bound(s) \in Nat /\ Bound(s) # 0
         /\ \E j \in 1 .. Len(fn.sections) :
              fn.sections[j].start <= Base(s) /\ TableEnd(s) <= fn.sections[j].end
         /\ \A k \in Base(s) .. TableEnd(s) - 1 : fn.words[k + 1] < FuncEnd
<1>1. s \in SwitchesIn(fn)
  BY DEF SwitchesOf
<1>2. /\ s \in Blocks \X Blocks /\ s = <<s[1], s[2]>>
      /\ fn.code[s[1]].term.op = "jcc" /\ fn.code[s[1]].term.target # s[2]
      /\ s[2] \in Successors(fn, s[1]) /\ fn.code[s[2]].term.op \in TableBranches
  BY <1>1 DEF SwitchesIn
<1>3. fn.code[s[1]].term.target \in Blocks
  BY <1>2, CodeFacts DEF Terminators
<1>4. /\ Base(s) \in Nat /\ Bound(s) \in Nat \ {0}
      /\ \E sec \in ToSet(fn.sections) : sec.start <= Base(s) /\ TableEnd(s) <= sec.end
      /\ \A k \in Base(s) .. TableEnd(s) - 1 : fn.words[k + 1] < FuncEnd
  BY <1>1, FunctionsAssumption DEF Base, Bound, TableEnd
<1>5. PICK j \in DOMAIN fn.sections :
        fn.sections[j].start <= Base(s) /\ TableEnd(s) <= fn.sections[j].end
  BY <1>4 DEF ToSet
<1>6. j \in 1 .. Len(fn.sections)
  BY DataFacts
<1> QED
  BY <1>2, <1>3, <1>4, <1>5, <1>6
-----------------------------------------------------------------------------
(* The table. *)

Entry(k) == getMBBNumberOfMCInstOffset(fn.words[k + 1])

LEMMA EntryFacts ==
  ASSUME NEW a \in Nat
  PROVE  /\ getMBBNumberOfMCInstOffset(a) # NoBlock =>
              getMBBNumberOfMCInstOffset(a) \in Blocks
         /\ a < FuncEnd => /\ getMBBNumberOfMCInstOffset(a) = a \div 2
                           /\ getMBBNumberOfMCInstOffset(a) # NoBlock
         /\ NoBlock \notin Blocks
<1>1. a \div 2 \in Nat /\ 2 * (a \div 2) <= a
  OBVIOUS
<1>2. LastBlock \in Nat
  BY JumpTablesAssumption
<1> QED
  BY <1>1, <1>2 DEF getMBBNumberOfMCInstOffset, FuncEnd, NoBlock, Blocks

\* A base lies in the first section that it is in or at the end of.
LEMMA SectionFacts ==
  ASSUME fn \in Functions, NEW base \in Nat
  PROVE  /\ SectionOf(base) # 0 =>
              /\ SectionOf(base) \in 1 .. Len(fn.sections)
              /\ fn.sections[SectionOf(base)].start <= base
              /\ base <= fn.sections[SectionOf(base)].end
         /\ \A j \in 1 .. Len(fn.sections) :
              fn.sections[j].start <= base /\ base <= fn.sections[j].end =>
                SectionOf(base) # 0 /\ SectionOf(base) <= j
<1> DEFINE I == {i \in 1 .. Len(fn.sections) :
                   fn.sections[i].start <= base /\ base <= fn.sections[i].end}
<1>1. SectionOf(base) = IF I # {} THEN Min(I) ELSE 0
  BY DEF SectionOf, SelectInSeq
<1>2. I \subseteq 1 .. Len(fn.sections) /\ I \in SUBSET Nat
  <2>1. Len(fn.sections) \in Nat
    BY DataFacts
  <2> QED
    BY <2>1
<1>3. I # {} => Min(I) \in I /\ \A j \in I : Min(I) <= j
  <2> HIDE DEF I
  <2> QED
    BY <1>2, LeastNumber
<1>4. I # {} => Min(I) \in 1 .. Len(fn.sections) /\ Min(I) # 0
  <2> DEFINE n == Len(fn.sections)
  <2>1. n \in Nat /\ I \subseteq 1 .. n
    BY <1>2, DataFacts
  <2> HIDE DEF I, n
  <2>2. ASSUME I # {} PROVE Min(I) \in 1 .. n /\ Min(I) # 0
    <3>1. Min(I) \in 1 .. n
      BY <1>3, <2>1, <2>2
    <3> QED
      BY <2>1, <3>1
  <2> QED
    BY <2>2 DEF n
<1> QED
  BY <1>1, <1>3, <1>4

\* The table is as long as its words are addresses of the function, in its section.
LEMMA TableShape ==
  ASSUME fn \in Functions, NEW base \in Nat
  PROVE  /\ SectionOf(base) = 0 => TableAt(base) = <<>>
         /\ SectionOf(base) # 0 =>
              \E n \in 0 .. fn.sections[SectionOf(base)].end - base :
                /\ TableAt(base) = [k \in 1 .. n |-> Entry(base + k - 1)]
                /\ \A k \in base .. base + n - 1 : Entry(k) # NoBlock
                /\ \A m \in 0 .. fn.sections[SectionOf(base)].end - base :
                     (\A k \in base .. base + m - 1 : Entry(k) # NoBlock) => m <= n
<1>1. SectionOf(base) = 0 => TableAt(base) = <<>>
  BY DEF TableAt
<1>2. ASSUME SectionOf(base) # 0
      PROVE  \E n \in 0 .. fn.sections[SectionOf(base)].end - base :
                /\ TableAt(base) = [k \in 1 .. n |-> Entry(base + k - 1)]
                /\ \A k \in base .. base + n - 1 : Entry(k) # NoBlock
                /\ \A m \in 0 .. fn.sections[SectionOf(base)].end - base :
                     (\A k \in base .. base + m - 1 : Entry(k) # NoBlock) => m <= n
  <2> DEFINE e == fn.sections[SectionOf(base)].end
             good == {n \in 0 .. e - base :
                        \A k \in base .. base + n - 1 : Entry(k) # NoBlock}
  <2>1. e \in Nat /\ base <= e
    BY <1>2, SectionFacts, DataFacts
  <2>2. TableAt(base) = [n \in 1 .. Max(good) |-> Entry(base + n - 1)]
    BY <1>2 DEF TableAt, Entry
  <2>3. e - base \in Nat /\ good \in SUBSET (0 .. e - base)
    <3> HIDE DEF e
    <3> QED
      BY <2>1
  <2>4. 0 \in good
    <3> HIDE DEF e
    <3>1. base .. base + 0 - 1 = {}
      OBVIOUS
    <3> QED
      BY <2>1, <3>1
  <2>5. Max(good) \in good /\ \A m \in good : m <= Max(good)
    <3> HIDE DEF good, e
    <3> QED
      BY <2>3, <2>4, GreatestNumber
  <2>6. /\ Max(good) \in 0 .. e - base
        /\ \A k \in base .. base + Max(good) - 1 : Entry(k) # NoBlock
        /\ \A m \in 0 .. e - base :
             (\A k \in base .. base + m - 1 : Entry(k) # NoBlock) => m <= Max(good)
    BY <2>5
  <2> HIDE DEF good
  <2> QED
    BY <2>2, <2>6
<1> QED
  BY <1>1, <1>2

LEMMA TableType ==
  ASSUME fn \in Functions, NEW base \in Nat
  PROVE  TableAt(base) \in Seq(Blocks)
<1>1. CASE SectionOf(base) = 0
  <2>1. TableAt(base) = <<>>
    BY <1>1, TableShape
  <2> QED
    BY <2>1
<1>2. CASE SectionOf(base) # 0
  <2> DEFINE e == fn.sections[SectionOf(base)].end
  <2>1. e \in Nat /\ e <= Len(fn.words) /\ fn.words \in Seq(Nat)
    BY <1>2, SectionFacts, DataFacts
  <2>2. PICK n \in 0 .. e - base :
          /\ TableAt(base) = [k \in 1 .. n |-> Entry(base + k - 1)]
          /\ \A k \in base .. base + n - 1 : Entry(k) # NoBlock
    BY <1>2, TableShape
  <2> HIDE DEF e
  <2>3. n \in Nat /\ base + n <= e
    BY <2>1
  <2>4. ASSUME NEW k \in 1 .. n PROVE Entry(base + k - 1) \in Blocks
    <3>1. base + k - 1 \in base .. base + n - 1 /\ (base + k - 1) + 1 \in 1 .. Len(fn.words)
      BY <2>1, <2>3
    <3>2. fn.words[(base + k - 1) + 1] \in Nat
      BY <2>1, <3>1
    <3> QED
      BY <2>2, <3>1, <3>2, EntryFacts DEF Entry
  <2>5. [k \in 1 .. n |-> Entry(base + k - 1)] \in Seq(Blocks)
    BY <2>3, <2>4
  <2> QED
    BY <2>2, <2>5
<1> QED
  BY <1>1, <1>2

\* The table that is found for a switch is the one the compiler made: it is not empty
\* when its base is the end of no other section, and the first word after it ends it.
LEMMA TableExtent ==
  ASSUME fn \in Functions, TablesApart, NEW s \in SwitchesOf
  PROVE  /\ BasesInside => TableAt(Base(s)) # <<>>
         /\ TableAt(Base(s)) # <<>> =>
              TableAt(Base(s)) = [x \in 1 .. Bound(s) |-> Entry(Base(s) + x - 1)]
<1> DEFINE i == SectionOf(Base(s))
           start(j) == fn.sections[j].start
           end(j) == fn.sections[j].end
           n == Len(fn.sections)
           base == Base(s)
           bound == Bound(s)
<1>1. base \in Nat /\ bound \in Nat /\ bound # 0 /\ TableEnd(s) = base + bound
  BY SwitchFacts DEF TableEnd
<1>2. PICK j \in 1 .. n : start(j) <= base /\ base + bound <= end(j)
  BY <1>1, SwitchFacts
<1>3. /\ \A k \in 1 .. n : start(k) \in Nat /\ end(k) \in Nat /\ start(k) <= end(k)
      /\ \A k, m \in 1 .. n : k < m => end(k) <= start(m)
      /\ n \in Nat
  BY DataFacts
<1>4. /\ i # 0 /\ i \in 1 .. n /\ i <= j
      /\ start(i) <= base /\ base <= end(i)
  <2>1. start(j) <= base /\ base <= end(j)
    <3> HIDE DEF start, end, base, bound, n
    <3> QED
      BY <1>1, <1>2, <1>3
  <2> QED
    BY <1>1, <2>1, SectionFacts
<1>5. PICK m \in 0 .. end(i) - base :
        /\ TableAt(base) = [k \in 1 .. m |-> Entry(base + k - 1)]
        /\ \A k \in base .. base + m - 1 : Entry(k) # NoBlock
        /\ \A p \in 0 .. end(i) - base :
             (\A k \in base .. base + p - 1 : Entry(k) # NoBlock) => p <= m
  BY <1>1, <1>4, TableShape
<1>6. base < end(i) => i = j
  <2> HIDE DEF start, end, base, bound, n, i
  <2> QED
    BY <1>1, <1>2, <1>3, <1>4
<1>7. TableAt(base) # <<>> => base < end(i)
  <2> SUFFICES ASSUME ~(base < end(i)) PROVE TableAt(base) = <<>>
    OBVIOUS
  <2>1. m = 0
    <3> HIDE DEF start, end, base, bound, n, i
    <3> QED
      BY <1>1, <1>3, <1>4
  <2> HIDE DEF start, end, base, bound, n, i
  <2> QED
    BY <1>5, <2>1
<1>8. \A k \in base .. base + bound - 1 : Entry(k) # NoBlock
  <2> SUFFICES ASSUME NEW k \in base .. base + bound - 1 PROVE Entry(k) # NoBlock
    OBVIOUS
  <2>1. fn.words[k + 1] < FuncEnd
    BY <1>1, SwitchFacts
  <2>2. fn.words[k + 1] \in Nat
    <3>1. fn.words \in Seq(Nat) /\ end(j) <= Len(fn.words)
      BY <1>2, DataFacts
    <3>2. k + 1 \in 1 .. Len(fn.words)
      <4> DEFINE w == Len(fn.words)
      <4>1. w \in Nat /\ end(j) <= w
        BY <3>1
      <4> HIDE DEF w, start, end, base, bound, n
      <4>2. k + 1 \in 1 .. w
        BY <1>1, <1>2, <1>3, <4>1
      <4> QED
        BY <4>2 DEF w
    <3> QED
      BY <3>1, <3>2
  <2> QED
    BY <2>1, <2>2, EntryFacts DEF Entry
<1>9. base < end(i) => bound <= m
  <2> SUFFICES ASSUME base < end(i) PROVE bound <= m
    OBVIOUS
  <2> HIDE DEF start, end, base, bound, n, i
  <2>1. bound \in 0 .. end(i) - base
    BY <1>1, <1>2, <1>3, <1>6
  <2> QED
    BY <1>5, <1>8, <2>1
<1>10. ASSUME base < end(i), bound < m PROVE FALSE
  <2>1. Entry(base + bound) # NoBlock /\ base + bound < end(j)
    <3> HIDE DEF start, end, base, bound, n, i
    <3> QED
      BY <1>1, <1>3, <1>4, <1>5, <1>6, <1>10
  <2>2. \E sec \in ToSet(fn.sections) : sec.end = base + bound
    BY <1>1, <2>1 DEF TablesApart, Entry
  <2>3. PICK k \in 1 .. n : end(k) = base + bound
    <3>1. PICK sec \in ToSet(fn.sections) : sec.end = base + bound
      BY <2>2
    <3>2. PICK k \in DOMAIN fn.sections : sec = fn.sections[k]
      BY DEF ToSet
    <3>3. k \in 1 .. n
      BY DataFacts
    <3> QED
      BY <3>1, <3>2, <3>3
  <2> HIDE DEF start, end, base, bound, n, i
  <2>4. k = j \/ k < j \/ j < k
    BY <1>2, <1>3, <2>3
  <2>5. k # j
    BY <1>1, <1>2, <1>3, <2>1, <2>3
  <2>6. ~(k < j)
    BY <1>1, <1>2, <1>3, <2>3
  <2>7. ~(j < k)
    BY <1>1, <1>2, <1>3, <2>1, <2>3
  <2> QED
    BY <2>4, <2>5, <2>6, <2>7
<1>11. base < end(i) => m = bound
  <2> HIDE DEF start, end, base, bound, n, i
  <2> QED
    BY <1>1, <1>3, <1>4, <1>9, <1>10
<1>12. BasesInside => base < end(i)
  <2> SUFFICES ASSUME BasesInside PROVE base < end(i)
    OBVIOUS
  <2>1. fn.sections[i] \in ToSet(fn.sections)
    BY <1>4, DataFacts DEF ToSet
  <2>2. end(i) # base
    BY <2>1 DEF BasesInside
  <2> HIDE DEF start, end, base, bound, n, i
  <2> QED
    BY <1>1, <1>3, <1>4, <2>2
<1>13. BasesInside => TableAt(base) # <<>>
  <2> SUFFICES ASSUME BasesInside PROVE TableAt(base) # <<>>
    OBVIOUS
  <2> HIDE DEF start, end, base, bound, n, i
  <2>1. m = bound /\ 1 \in 1 .. m
    BY <1>1, <1>11, <1>12
  <2>2. DOMAIN TableAt(base) = 1 .. m
    BY <1>5
  <2> QED
    BY <2>1, <2>2
<1> HIDE DEF i, end, base, bound
<1>14. TableAt(base) # <<>> => TableAt(base) = [k \in 1 .. bound |-> Entry(base + k - 1)]
  BY <1>5, <1>7, <1>11
<1> QED
  BY <1>13, <1>14 DEF base, bound

-----------------------------------------------------------------------------
(* The code of a switch. *)

Target(b) == fn.code[b].term.target
MIs(b) == fn.code[b].mis
Op(b) == fn.code[b].term.op

\* A check goes to its branch or to its target, and nothing else goes to the branch.
LEMMA CheckFacts ==
  ASSUME fn \in Functions, ChecksGuard, NEW s \in SwitchesOf
  PROVE  /\ Successors(fn, s[1]) = {Target(s[1]), s[2]}
         /\ \A c \in Blocks : s[2] \in Successors(fn, c) <=> c = s[1]
<1>1. /\ s[1] \in Blocks /\ s[2] \in Blocks /\ Op(s[1]) = "jcc" /\ Target(s[1]) # s[2]
      /\ s[2] \in Successors(fn, s[1]) /\ Op(s[2]) \in TableBranches
  BY SwitchFacts DEF Op, Target
<1>2. Successors(fn, s[1]) = {Target(s[1]), s[2]}
  <2>1. PICK c \in Blocks : Successors(fn, s[1]) = {Target(s[1]), c}
    BY <1>1, CodeFacts DEF Op, Target
  <2> QED
    BY <1>1, <2>1
<1>3. \A c \in Blocks : s[2] \in Successors(fn, c) <=> c \in ToSet(fn.preds[s[2]])
  BY <1>1 DEF Successors
<1>4. Len(fn.preds[s[2]]) = 1 /\ fn.preds[s[2]] \in Seq(Blocks)
  BY <1>1, CodeFacts DEF ChecksGuard, Op
<1>5. ToSet(fn.preds[s[2]]) = {fn.preds[s[2]][1]}
  <2> DEFINE ps == fn.preds[s[2]]
  <2>1. ps \in Seq(Blocks) /\ Len(ps) = 1
    BY <1>4
  <2> HIDE DEF ps
  <2>2. ToSet(ps) = {ps[1]}
    BY <2>1 DEF ToSet
  <2> QED
    BY <2>2 DEF ps
<1> QED
  BY <1>1, <1>2, <1>3, <1>5

\* A check belongs to one branch and a branch to one check; the target of a check is no
\* branch through a table.
LEMMA ChecksApart ==
  ASSUME fn \in Functions, ChecksGuard, NEW s \in SwitchesOf
  PROVE  /\ \A t \in SwitchesOf : s[1] = t[1] \/ s[2] = t[2] => s = t
         /\ Op(Target(s[1])) \notin TableBranches
<1>1. /\ s = <<s[1], s[2]>> /\ s[1] \in Blocks /\ s[2] \in Blocks
      /\ Target(s[1]) \in Blocks /\ Target(s[1]) # s[2]
      /\ s[2] \in Successors(fn, s[1])
  BY SwitchFacts DEF Target
<1>2. /\ Successors(fn, s[1]) = {Target(s[1]), s[2]}
      /\ \A c \in Blocks : s[2] \in Successors(fn, c) <=> c = s[1]
  BY CheckFacts
<1>3. ASSUME NEW t \in SwitchesOf, s[1] = t[1] \/ s[2] = t[2] PROVE s = t
  <2>1. /\ t = <<t[1], t[2]>> /\ t[1] \in Blocks /\ t[2] \in Blocks
        /\ t[2] \in Successors(fn, t[1]) /\ Target(t[1]) # t[2]
    BY SwitchFacts DEF Target
  <2>2. s[1] = t[1]
    BY <1>2, <1>3, <2>1
  <2>3. s[2] = t[2]
    BY <1>2, <2>1, <2>2
  <2> QED
    BY <1>1, <2>1, <2>2, <2>3
<1>4. Op(Target(s[1])) \notin TableBranches
  <2> SUFFICES ASSUME Op(Target(s[1])) \in TableBranches PROVE FALSE
    OBVIOUS
  <2>1. PICK t \in SwitchesOf : t[2] = Target(s[1])
    BY <1>1 DEF ChecksGuard, Op
  <2>2. t[2] \in Successors(fn, s[1])
    BY <1>2, <2>1
  <2>3. s[1] = t[1]
    BY <1>1, <2>2, CheckFacts
  <2>4. s = t
    BY <1>3, <2>3
  <2> QED
    BY <1>1, <2>1, <2>4
<1> QED
  BY <1>3, <1>4

\* The instructions of the block before any table is built.
CodeOf(b) == MIs(b) \o (IF Op(b) = "ijmpmem" THEN <<fn.code[b].term>> ELSE <<>>)
IsBase(b, i) == i \in 1 .. Len(CodeOf(b)) /\ CodeOf(b)[i].op \in {"lea", "mov", "ijmpmem"}

LEMMA CodeOfFacts ==
  ASSUME fn \in Functions, NEW b \in Blocks
  PROVE  /\ MIs(b) \in Seq(Instrs) /\ Len(MIs(b)) \in Nat
         /\ Op(b) # "ijmpmem" => CodeOf(b) = MIs(b)
         /\ Op(b) = "ijmpmem" =>
              /\ Len(CodeOf(b)) = Len(MIs(b)) + 1
              /\ CodeOf(b)[Len(MIs(b)) + 1] = fn.code[b].term
              /\ \A i \in 1 .. Len(MIs(b)) : CodeOf(b)[i] = MIs(b)[i]
         /\ \A i \in 1 .. Len(MIs(b)) : MIs(b)[i] \in Instrs
<1>1. MIs(b) \in Seq(Instrs)
  BY CodeFacts DEF MIs
<1> DEFINE m == MIs(b)
           t == fn.code[b].term
           n == Len(m)
<1>2. m \in Seq(Instrs) /\ n \in Nat /\ n = Len(m)
  BY <1>1
<1> HIDE DEF m, t
<1>3. /\ Len(m \o <<t>>) = n + 1
      /\ (m \o <<t>>)[n + 1] = t
      /\ \A i \in 1 .. n : (m \o <<t>>)[i] = m[i]
      /\ m \o << >> = m
      /\ \A i \in 1 .. n : m[i] \in Instrs
  <2> HIDE DEF Instrs
  <2>1. Len(m \o <<t>>) = n + 1
    BY <1>2
  <2>2. (m \o <<t>>)[n + 1] = t
    BY <1>2
  <2>3. \A i \in 1 .. n : (m \o <<t>>)[i] = m[i]
    BY <1>2
  <2>4. m \o << >> = m
    BY <1>2
  <2>5. \A i \in 1 .. n : m[i] \in Instrs
    BY <1>2
  <2> QED
    BY <2>1, <2>2, <2>3, <2>4, <2>5
<1> QED
  BY <1>2, <1>3 DEF CodeOf, m, t

\* Bases are taken in the blocks that branch through a table, one in each.
LEMMA BaseFacts ==
  ASSUME fn \in Functions, BasesAtBranches, NEW b \in Blocks
  PROVE  /\ \A i : IsBase(b, i) =>
              /\ Op(b) \in TableBranches
              /\ CodeOf(b)[i].base = fn.code[b].base
              /\ ~Redefined(b, i)
         /\ \A i, j : IsBase(b, i) /\ IsBase(b, j) => i = j
         /\ Op(b) \in TableBranches => \E i : IsBase(b, i)
<1> DEFINE bases == {i \in DOMAIN MIs(b) : MIs(b)[i].op \in {"lea", "mov"}}
<1>1. CASE Op(b) = "ijmp"
  <2>1. PICK i \in bases : bases = {i} /\ ~Redefined(b, i)
    BY <1>1 DEF BasesAtBranches, Op, MIs
  <2>2. \A k : IsBase(b, k) <=> k = i
    <3>1. CodeOf(b) = MIs(b)
      BY <1>1, CodeOfFacts
    <3>2. DOMAIN MIs(b) = 1 .. Len(MIs(b))
      BY CodeOfFacts
    <3>3. \A k \in 1 .. Len(MIs(b)) : MIs(b)[k].op # "ijmpmem"
      BY CodeOfFacts DEF Instrs
    <3>4. \A k : IsBase(b, k) <=> k \in bases
      BY <3>1, <3>2, <3>3 DEF IsBase
    <3> HIDE DEF bases
    <3> QED
      BY <2>1, <3>4
  <2>3. CodeOf(b)[i].base = fn.code[b].base
    BY <1>1, CodeOfFacts, CodeFacts DEF Op, MIs
  <2> HIDE DEF bases
  <2> QED
    BY <1>1, <2>1, <2>2, <2>3 DEF TableBranches
<1>2. CASE Op(b) # "ijmp"
  <2>1. bases = {}
    BY <1>2 DEF BasesAtBranches, Op, MIs
  <2>2. \A k \in 1 .. Len(MIs(b)) : MIs(b)[k].op \notin {"lea", "mov", "ijmpmem"}
    <3>1. DOMAIN MIs(b) = 1 .. Len(MIs(b))
      BY CodeOfFacts
    <3>2. \A k \in 1 .. Len(MIs(b)) : MIs(b)[k].op # "ijmpmem"
      BY CodeOfFacts DEF Instrs
    <3> QED
      BY <2>1, <3>1, <3>2
  <2>3. CASE Op(b) = "ijmpmem"
    <3> DEFINE n == Len(MIs(b))
    <3>1. n \in Nat /\ Len(CodeOf(b)) = n + 1 /\ CodeOf(b)[n + 1].op = "ijmpmem"
          /\ CodeOf(b)[n + 1].base = fn.code[b].base
          /\ \A i \in 1 .. n : CodeOf(b)[i] = MIs(b)[i]
      BY <2>3, CodeOfFacts, CodeFacts DEF Op
    <3>2. ~Redefined(b, n + 1)
      <4>1. n + 1 \notin DOMAIN MIs(b)
        BY CodeOfFacts
      <4> QED
        BY <4>1 DEF Redefined, MIs
    <3>3. \A k \in 1 .. n : MIs(b)[k].op \notin {"lea", "mov", "ijmpmem"}
      BY <2>2
    <3> HIDE DEF n
    <3>4. \A k : IsBase(b, k) <=> k = n + 1
      BY <3>1, <3>3 DEF IsBase
    <3> QED
      BY <2>3, <3>1, <3>2, <3>4 DEF TableBranches
  <2>4. CASE Op(b) # "ijmpmem"
    <3>1. \A k : ~IsBase(b, k)
      BY <2>2, <2>4, CodeOfFacts DEF IsBase
    <3> QED
      BY <1>2, <2>4, <3>1 DEF TableBranches
  <2> QED
    BY <2>3, <2>4
<1> QED
  BY <1>1, <1>2

-----------------------------------------------------------------------------
(* The inductive invariant. *)

Phases == {"scan", "erase", "raise", "raised", "failed", "undefined"}
Scanned == phase \in {"scan", "erase"}
Erased == phase \in {"raise", "raised"}

\* Whatever the code looks like.
ShapeInv ==
  /\ fn \in Functions
  /\ phase \in Phases
  /\ DOMAIN term = Blocks
  /\ succs \in [Blocks -> SUBSET Blocks]
  /\ toErase \subseteq Blocks
  /\ phase = "scan" => at[1] \in Blocks /\ at[2] \in Nat \ {0}
  /\ Scanned => \A b \in Blocks : term[b] \in Terminators \/ term[b].op = "jti"
  /\ Erased => \A b \in Blocks :
       /\ succs[b] \cap toErase = {}
       /\ b \notin toErase => term[b].op # "erased"

Compiled == BasesAtBranches /\ ChecksGuard

\* A table that is kept: block b has the check, and e branched through the table.
TableOf(b) == JTList[term[b].index]
Built(b, e) ==
  /\ <<b, e>> \in SwitchesOf
  /\ term[b].index \in 1 .. Len(JTList)
  /\ TableOf(b) = [MBBs |-> TableAt(fn.code[e].base), ConditionMBB |-> b,
                   DefaultMBB |-> Target(b)]
  /\ TableAt(fn.code[e].base) # <<>>

Edges(b) ==
  Successors(fn, b) \cup (IF term[b].op = "jti" THEN ToSet(TableOf(b).MBBs) ELSE {})

Passed(e, i) == e < at[1] \/ (e = at[1] /\ i < at[2])

\* When the code is that of switches, the blocks with a table are those with the checks,
\* and what goes away are the blocks with the branches.
TablesInv ==
  Compiled /\ (Scanned \/ Erased) =>
    /\ JTList \in Seq([MBBs : Seq(Blocks), ConditionMBB : Blocks, DefaultMBB : Blocks])
    /\ \A b \in Blocks : term[b].op = "jti" => \E e \in toErase : Built(b, e)
    /\ \A e \in toErase : \E b \in Blocks : term[b].op = "jti" /\ Built(b, e)
    /\ Scanned => \A b \in Blocks :
         /\ term[b].op # "jti" => term[b] = fn.code[b].term
         /\ succs[b] = Edges(b)
    /\ Erased => \A b \in Blocks :
         IF b \in toErase THEN term[b].op = "erased" /\ succs[b] = {}
         ELSE /\ term[b].op # "jti" => term[b] = fn.code[b].term
              /\ succs[b] = Edges(b) \ toErase
    /\ phase = "scan" => \A e \in toErase : \E i : IsBase(e, i) /\ Passed(e, i)
    /\ Scanned => switches = <<>>
    /\ \A b \in DOMAIN switches :
         /\ b \in Blocks /\ term[b].op = "jti"
         /\ switches[b].low \in getSwitchCompareValue(b)
         /\ switches[b].cases = TableOf(b).MBBs
         /\ switches[b].default = TableOf(b).DefaultMBB
    /\ phase = "raised" => Unraised = {}

\* When also the tables can be told from what surrounds them and the checks compare
\* numbers, every branch gets its table and nothing fails.
Readable == TablesApart /\ ComparesNumbers /\ BasesInside /\ EntriesGuarded

CompleteInv ==
  Compiled /\ Readable =>
    /\ phase \notin {"failed", "undefined"}
    /\ phase = "scan" =>
         \A e \in Blocks : \A i : IsBase(e, i) /\ Passed(e, i) => e \in toErase
    /\ phase # "scan" => \A e \in Blocks : Op(e) \in TableBranches => e \in toErase

-----------------------------------------------------------------------------
(* The steps: whatever the code looks like. *)

LEMMA InitShape == Init => ShapeInv /\ TablesInv /\ CompleteInv
<1> SUFFICES ASSUME Init PROVE ShapeInv /\ TablesInv /\ CompleteInv
  OBVIOUS
<1>1. /\ fn \in Functions /\ phase = "scan" /\ at[1] = 0 /\ at[2] = 1
      /\ term = [b \in Blocks |-> fn.code[b].term]
      /\ succs = [b \in Blocks |-> Successors(fn, b)]
      /\ JTList = <<>> /\ toErase = {} /\ switches = <<>>
  BY DEF Init
<1>2. 0 \in Blocks
  BY JumpTablesAssumption DEF Blocks
<1>3. \A b \in Blocks : term[b] = fn.code[b].term /\ term[b] \in Terminators
  BY <1>1, CodeFacts
<1>4. ShapeInv
  <2>1. succs \in [Blocks -> SUBSET Blocks]
    BY <1>1 DEF Successors
  <2> QED
    BY <1>1, <1>2, <1>3, <2>1 DEF ShapeInv, Phases, Scanned, Erased
<1>5. TablesInv
  <2>1. \A b \in Blocks : term[b].op # "jti"
    BY <1>3 DEF Terminators
  <2>2. \A b \in Blocks : succs[b] = Edges(b)
    BY <1>1, <2>1 DEF Edges
  <2>3. DOMAIN switches = {}
    BY <1>1
  <2>4. JTList \in Seq([MBBs : Seq(Blocks), ConditionMBB : Blocks, DefaultMBB : Blocks])
    BY <1>1
  <2> QED
    BY <1>1, <1>3, <2>1, <2>2, <2>3, <2>4 DEF TablesInv, Erased
<1>6. CompleteInv
  <2>1. \A e \in Blocks : \A i : IsBase(e, i) => ~Passed(e, i)
    <3> SUFFICES ASSUME NEW e \in Blocks, NEW i, IsBase(e, i) PROVE ~Passed(e, i)
      OBVIOUS
    <3>1. e \in Nat
      BY JumpTablesAssumption DEF Blocks
    <3>2. i \in Nat /\ 1 <= i
      <4> DEFINE n == Len(CodeOf(e))
      <4>1. i \in 1 .. n
        BY DEF IsBase
      <4> HIDE DEF n
      <4> QED
        BY <4>1
    <3> QED
      BY <1>1, <3>1, <3>2 DEF Passed
  <2> QED
    BY <1>1, <2>1 DEF CompleteInv
<1> QED
  BY <1>4, <1>5, <1>6

\* The base of a table is a number.
LEMMA CandidateBase ==
  ASSUME ShapeInv, phase = "scan", Candidate
  PROVE  TableAt(Insts(at[1])[at[2]].base) \in Seq(Blocks)
<1> DEFINE b == at[1]
           i == at[2]
           m == MIs(b)
           n == Len(m)
           t == term[b]
<1>1. b \in Blocks /\ i \in Nat \ {0} /\ fn \in Functions
      /\ (t \in Terminators \/ t.op = "jti")
  BY DEF ShapeInv, Scanned
<1>2. m \in Seq(Instrs) /\ n \in Nat /\ \A k \in 1 .. n : m[k] \in Instrs
  BY <1>1, CodeOfFacts
<1>3. /\ i <= Len(Insts(b))
      /\ Insts(b) = m \o (IF t.op = "ijmpmem" THEN <<t>> ELSE <<>>)
  BY DEF Candidate, Insts, MIs
<1> HIDE DEF b, i, m, n, t
<1>4. Insts(b)[i].base \in Nat
  <2>1. CASE t.op = "ijmpmem"
    <3>1. t.base \in Nat
      BY <1>1, <2>1 DEF Terminators
    <3> HIDE DEF Instrs
    <3>2. Insts(b) = m \o <<t>>
      BY <1>3, <2>1
    <3>3. Len(m \o <<t>>) = n + 1 /\ (m \o <<t>>)[n + 1] = t
      BY <1>2 DEF n
    <3>4. \A k \in 1 .. n : (m \o <<t>>)[k] = m[k]
      BY <1>2 DEF n
    <3>5. i \in 1 .. n \/ i = n + 1
      BY <1>1, <1>2, <1>3, <3>2, <3>3
    <3> QED
      BY <1>2, <3>1, <3>2, <3>3, <3>4, <3>5 DEF Instrs
  <2>2. CASE t.op # "ijmpmem"
    <3>1. Insts(b) = m
      BY <1>2, <1>3, <2>2
    <3>2. i \in 1 .. n
      BY <1>1, <1>2, <1>3, <3>1 DEF n
    <3> QED
      BY <1>2, <3>1, <3>2 DEF Instrs
  <2> QED
    BY <2>1, <2>2
<1> QED
  BY <1>1, <1>4, TableType DEF b, i

LEMMA BuildTableKeepsShape ==
  ASSUME ShapeInv, phase = "scan", Candidate, NEW sw, NEW condition, NEW default,
         NEW erased \in SUBSET Blocks, BuildTable(sw, condition, default, erased)
  PROVE  ShapeInv'
<1> DEFINE MBBs == TableAt(Insts(at[1])[at[2]].base)
<1>1. ToSet(MBBs) \subseteq Blocks
  <2>1. MBBs \in Seq(Blocks)
    BY CandidateBase
  <2> HIDE DEF MBBs
  <2> QED
    BY <2>1 DEF ToSet
<1>2. /\ term' = [term EXCEPT ![sw] = [op |-> "jti", index |-> Len(JTList) + 1]]
      /\ succs' = [succs EXCEPT ![sw] = @ \cup ToSet(MBBs)]
      /\ toErase' = toErase \cup erased
      /\ at' = <<at[1], at[2] + 1>> /\ fn' = fn /\ phase' = phase
  BY DEF BuildTable
<1> HIDE DEF MBBs
<1>3. succs' \in [Blocks -> SUBSET Blocks]
  BY <1>1, <1>2 DEF ShapeInv
<1>4. DOMAIN term' = Blocks
  BY <1>2 DEF ShapeInv
<1>5. \A b \in Blocks : term'[b] \in Terminators \/ term'[b].op = "jti"
  <2> SUFFICES ASSUME NEW b \in Blocks PROVE term'[b] = term[b] \/ term'[b].op = "jti"
    BY DEF ShapeInv, Scanned
  <2> QED
    BY <1>2 DEF ShapeInv
<1>6. at'[1] = at[1] /\ at'[2] = at[2] + 1
  BY <1>2
<1> QED
  BY <1>2, <1>3, <1>4, <1>5, <1>6 DEF ShapeInv, Scanned, Erased

LEMMA NextKeepsShape == ASSUME ShapeInv, [Next]_tableVars PROVE ShapeInv'
<1> USE DEF ShapeInv, Scanned, Erased
<1>1. CASE NextMBB
  <2>1. at'[1] = at[1] + 1 /\ at'[2] = 1 /\ phase = "scan"
    BY <1>1 DEF NextMBB
  <2>2. at[1] # LastBlock => at[1] + 1 \in Blocks
    BY <2>1, JumpTablesAssumption DEF Blocks
  <2> QED
    BY <1>1, <2>1, <2>2 DEF NextMBB, Phases
<1>2. CASE SkipInst
  <2>1. at'[1] = at[1] /\ at'[2] = at[2] + 1 /\ phase = "scan"
    BY <1>2 DEF SkipInst, Continue
  <2> QED
    BY <1>2, <2>1 DEF SkipInst, Continue
<1>3. ASSUME NEW how \in {"failed", "undefined", "raised"}, Stop(how),
             how = "raised" => phase = "raise"
      PROVE  ShapeInv'
  BY <1>3 DEF Stop, Phases
<1>4. CASE NoTerminator
  BY <1>3, <1>4 DEF NoTerminator
<1>5. CASE BuildAfterJump
  <2>1. phase = "scan" /\ Candidate
    BY <1>5 DEF BuildAfterJump, Buildable
  <2>2. \/ Stop("failed")
        \/ \E sw, condition, default : BuildTable(sw, condition, default, {})
    BY <1>5 DEF BuildAfterJump
  <2> QED
    BY <1>3, <2>1, <2>2, BuildTableKeepsShape
<1>6. CASE BuildAtIndirect
  <2>1. phase = "scan" /\ Candidate
    BY <1>6 DEF BuildAtIndirect, Buildable
  <2>2. \/ Stop("failed")
        \/ \E sw, condition, default : BuildTable(sw, condition, default, {at[1]})
    BY <1>6 DEF BuildAtIndirect
  <2>3. {at[1]} \in SUBSET Blocks
    BY <2>1
  <2> QED
    BY <1>3, <2>1, <2>2, <2>3, BuildTableKeepsShape
<1>7. CASE EraseMBBs
  <2>1. /\ phase = "erase" /\ phase' \in {"raise", "undefined"} /\ fn' = fn /\ toErase' = toErase
        /\ succs' = [b \in Blocks |-> IF b \in toErase THEN {} ELSE succs[b] \ toErase]
        /\ term' = [b \in Blocks |-> IF b \in toErase THEN [op |-> "erased"] ELSE term[b]]
    BY <1>7 DEF EraseMBBs
  <2>2. \A b \in Blocks : term[b].op # "erased"
    BY <2>1 DEF Terminators
  <2> QED
    BY <2>1, <2>2 DEF Phases
<1>8. CASE raiseIndirectBranchMachineInstr
  <2>1. \/ Stop("failed") \/ Stop("undefined")
        \/ UNCHANGED <<fn, phase, at, term, succs, JTList, toErase>>
    BY <1>8 DEF raiseIndirectBranchMachineInstr
  <2> QED
    BY <1>3, <2>1
<1>9. CASE FinishRaising
  BY <1>3, <1>9 DEF FinishRaising
<1>10. CASE Done \/ UNCHANGED tableVars
  BY <1>10 DEF Done, tableVars
<1> QED
  BY <1>1, <1>2, <1>4, <1>5, <1>6, <1>7, <1>8, <1>9, <1>10 DEF Next

-----------------------------------------------------------------------------
(* The steps: when the code is that of switches. *)

\* What only depends on the function.
LEMMA FunctionStays ==
  ASSUME fn' = fn
  PROVE  /\ Compiled' <=> Compiled
         /\ Readable' <=> Readable
         /\ SwitchesOf' = SwitchesOf
         /\ \A b : Op(b)' = Op(b) /\ Target(b)' = Target(b)
         /\ \A b, i : IsBase(b, i)' <=> IsBase(b, i)
         /\ \A b : getSwitchCompareValue(b)' = getSwitchCompareValue(b)
         /\ \A a : TableAt(a)' = TableAt(a)
<1>1. SwitchesOf' = SwitchesOf
  BY DEF SwitchesOf
<1>2. \A b : Op(b)' = Op(b) /\ Target(b)' = Target(b)
  BY DEF Op, Target
<1>3. \A b, i : IsBase(b, i)' <=> IsBase(b, i)
  BY DEF IsBase, CodeOf, MIs, Op
<1>4. \A b : getSwitchCompareValue(b)' = getSwitchCompareValue(b)
  BY DEF getSwitchCompareValue
<1>5. \A a : TableAt(a)' = TableAt(a)
  <2>1. \A a : SectionOf(a)' = SectionOf(a)
    BY DEF SectionOf, SelectInSeq
  <2> QED
    BY <2>1 DEF TableAt
<1>6. Compiled' <=> Compiled
  BY <1>1 DEF Compiled, BasesAtBranches, ChecksGuard, Redefined
<1>7. Readable' <=> Readable
  <2>1. /\ \A s : Base(s)' = Base(s) /\ Bound(s)' = Bound(s) /\ TableEnd(s)' = TableEnd(s)
    BY DEF Base, Bound, TableEnd
  <2>2. TablesApart' <=> TablesApart
    BY <1>1, <2>1 DEF TablesApart
  <2>3. ComparesNumbers' <=> ComparesNumbers
    BY <1>1, <1>4 DEF ComparesNumbers
  <2>4. BasesInside' <=> BasesInside
    BY <1>1, <2>1 DEF BasesInside
  <2>5. EntriesGuarded' <=> EntriesGuarded
    BY <1>1, <2>1 DEF EntriesGuarded
  <2> QED
    BY <2>2, <2>3, <2>4, <2>5 DEF Readable
<1> QED
  BY <1>1, <1>2, <1>3, <1>4, <1>5, <1>6, <1>7

\* The blocks with a table are checks.
LEMMA TablesAtChecks ==
  ASSUME ShapeInv, TablesInv, Compiled, Scanned \/ Erased
  PROVE  /\ \A b \in Blocks : term[b].op = "jti" => Op(b) = "jcc"
         /\ \A e \in toErase : Op(e) \in TableBranches
<1>1. \A s \in SwitchesOf : Op(s[1]) = "jcc" /\ Op(s[2]) \in TableBranches
  BY SwitchFacts DEF ShapeInv, Op
<1>2. ASSUME NEW b \in Blocks, term[b].op = "jti" PROVE Op(b) = "jcc"
  <2>1. PICK e \in toErase : Built(b, e)
    BY <1>2 DEF TablesInv
  <2> QED
    BY <1>1, <2>1 DEF Built
<1>3. ASSUME NEW e \in toErase PROVE Op(e) \in TableBranches
  <2>1. PICK b \in Blocks : Built(b, e)
    BY DEF TablesInv
  <2> QED
    BY <1>1, <2>1 DEF Built
<1> QED
  BY <1>2, <1>3

\* What the scan sees are the instructions of the code, and a base that is not yet
\* passed has its block still.
LEMMA ScanFacts ==
  ASSUME ShapeInv, TablesInv, Compiled, phase = "scan"
  PROVE  /\ at[1] \in Blocks /\ Insts(at[1]) = CodeOf(at[1])
         /\ Candidate => IsBase(at[1], at[2])
         /\ IsBase(at[1], at[2]) =>
              /\ Op(at[1]) \in TableBranches /\ at[1] \notin toErase
              /\ term[at[1]] = fn.code[at[1]].term
              /\ Insts(at[1])[at[2]].base = fn.code[at[1]].base
              /\ ~Redefined(at[1], at[2])
         /\ IsBase(at[1], at[2]) /\ TableAt(fn.code[at[1]].base) # <<>> => Candidate
<1> DEFINE b == at[1]
           i == at[2]
<1>1. b \in Blocks /\ i \in Nat \ {0} /\ fn \in Functions /\ BasesAtBranches
  BY DEF ShapeInv, Compiled
<1>2. term[b].op = "jti" \/ term[b] = fn.code[b].term
  BY <1>1 DEF TablesInv, Scanned
<1>3. term[b].op = "jti" => Op(b) = "jcc"
  BY <1>1, TablesAtChecks DEF Scanned
<1>4. Insts(b) = CodeOf(b)
  BY <1>2, <1>3 DEF Insts, CodeOf, Op, MIs
<1>5. Len(CodeOf(b)) \in Nat
  BY <1>1, CodeOfFacts
<1>6. Candidate => IsBase(b, i)
  BY <1>1, <1>4, <1>5 DEF Candidate, IsBase
<1>7. ASSUME IsBase(b, i)
      PROVE  /\ Op(b) \in TableBranches /\ CodeOf(b)[i].base = fn.code[b].base
             /\ ~Redefined(b, i) /\ b \notin toErase /\ term[b] = fn.code[b].term
  <2>1. /\ Op(b) \in TableBranches /\ CodeOf(b)[i].base = fn.code[b].base
        /\ ~Redefined(b, i)
    BY <1>1, <1>7, BaseFacts
  <2>2. ASSUME b \in toErase PROVE FALSE
    <3>1. PICK k : IsBase(b, k) /\ Passed(b, k)
      BY <2>2 DEF TablesInv, Scanned
    <3>2. k = i
      BY <1>1, <1>7, <3>1, BaseFacts
    <3>3. b \in Nat
      BY <1>1, JumpTablesAssumption DEF Blocks
    <3> QED
      BY <1>1, <3>1, <3>2, <3>3 DEF Passed
  <2> QED
    BY <1>2, <1>3, <2>1, <2>2 DEF TableBranches
<1>8. IsBase(b, i) /\ TableAt(fn.code[b].base) # <<>> => Candidate
  BY <1>1, <1>4, <1>5, <1>7 DEF Candidate, IsBase
<1> QED
  BY <1>1, <1>4, <1>6, <1>7, <1>8

\* A base is always taken where its table's branch is.
LEMMA NoOtherBases ==
  ASSUME ShapeInv, TablesInv, Compiled, Buildable
  PROVE  term[at[1]].op \in TableBranches
<1>1. phase = "scan" /\ IsBase(at[1], at[2])
  BY ScanFacts DEF Buildable
<1> QED
  BY <1>1, ScanFacts DEF Op

\* The table is built for the one check of the branch, unless a table that is there
\* leads to the branch too.
LEMMA BuildsAtCheck ==
  ASSUME ShapeInv, TablesInv, Compiled, BuildAtIndirect
  PROVE  \E b \in Blocks :
           /\ <<b, at[1]>> \in SwitchesOf
           /\ term[b].op # "jti"
           /\ \/ preds(at[1]) # {b} /\ Stop("failed")
              \/ BuildTable(b, b, Target(b), {at[1]})
<1> DEFINE e == at[1]
<1>1. phase = "scan" /\ Buildable /\ Candidate /\ fn \in Functions /\ ChecksGuard
  BY DEF BuildAtIndirect, Buildable, ShapeInv, Compiled
<1>2. e \in Blocks /\ e \notin toErase /\ Op(e) \in TableBranches
  BY <1>1, ScanFacts
<1>3. PICK s \in SwitchesOf : s[2] = e
  BY <1>1, <1>2 DEF ChecksGuard, Op
<1> DEFINE b == s[1]
<1>4. /\ b \in Blocks /\ s = <<b, e>> /\ Op(b) = "jcc" /\ Target(b) # e
      /\ Target(b) \in Blocks
  BY <1>1, <1>3, SwitchFacts DEF Op, Target
<1>5. Successors(fn, b) = {Target(b), e}
  BY <1>1, <1>3, CheckFacts
<1>6. ASSUME term[b].op = "jti" PROVE FALSE
  <2>1. PICK e1 \in toErase : Built(b, e1)
    BY <1>1, <1>4, <1>6 DEF TablesInv, Scanned
  <2>2. <<b, e1>> \in SwitchesOf /\ <<b, e1>>[1] = b
    BY <2>1 DEF Built
  <2>3. s = <<b, e1>>
    BY <1>1, <2>2, ChecksApart
  <2> QED
    BY <1>2, <1>4, <2>3
<1>7. term[b] = fn.code[b].term /\ succs[b] = {Target(b), e}
  BY <1>1, <1>4, <1>5, <1>6 DEF TablesInv, Scanned, Edges
<1>8. b \in preds(e)
  BY <1>4, <1>7 DEF preds
<1> DEFINE switch == CHOOSE c \in preds(e) : TRUE
<1> HIDE DEF e, b
<1>9. Cardinality(preds(e)) = 1 => preds(e) = {b}
  <2>1. IsFiniteSet(preds(e))
    <3>1. IsFiniteSet(Blocks)
      BY FS_Interval, JumpTablesAssumption DEF Blocks
    <3> QED
      BY <3>1, FS_Subset DEF preds
  <2> QED
    BY <1>8, <2>1, FS_Singleton
<1>10. preds(e) = {b} => Cardinality(preds(e)) = 1 /\ switch = b
  BY FS_Singleton
<1>11. (CHOOSE c \in succs[b] : c # e) = Target(b)
  BY <1>4, <1>7
<1>12. Cardinality(succs[b]) = 2
  <2>1. IsFiniteSet({e}) /\ Cardinality({e}) = 1
    BY FS_Singleton
  <2>2. Cardinality({e} \cup {Target(b)}) = 2
    BY <1>4, <2>1, FS_AddElement
  <2>3. succs[b] = {e} \cup {Target(b)}
    BY <1>7
  <2> QED
    BY <2>2, <2>3
<1>13. CASE preds(e) = {b}
  <2>1. switch = b /\ Cardinality(preds(e)) = 1 /\ term[b].op = "jcc"
    BY <1>4, <1>7, <1>10, <1>13 DEF Op
  <2>2. BuildTable(switch, switch, CHOOSE c \in succs[switch] : c # e, {e})
    BY <1>12, <2>1 DEF BuildAtIndirect, e
  <2>3. BuildTable(b, b, Target(b), {e})
    BY <1>11, <2>1, <2>2
  <2> QED
    BY <1>3, <1>4, <1>6, <2>3 DEF e
<1>14. CASE preds(e) # {b}
  <2>1. Stop("failed")
    BY <1>9, <1>14 DEF BuildAtIndirect, e
  <2> QED
    BY <1>3, <1>4, <1>6, <1>14, <2>1 DEF e
<1> QED
  BY <1>13, <1>14

\* The tables that were there stay, and the block with the check gets the new one.
LEMMA BuildTableKeepsTables ==
  ASSUME ShapeInv, TablesInv, Compiled, Buildable, NEW b \in Blocks,
         <<b, at[1]>> \in SwitchesOf, term[b].op # "jti",
         BuildTable(b, b, Target(b), {at[1]})
  PROVE  TablesInv'
<1> DEFINE e == at[1]
           n == Len(JTList)
           Tables == [MBBs : Seq(Blocks), ConditionMBB : Blocks, DefaultMBB : Blocks]
           table == [MBBs |-> TableAt(fn.code[e].base), ConditionMBB |-> b,
                     DefaultMBB |-> Target(b)]
           jti == [op |-> "jti", index |-> n + 1]
<1>1. phase = "scan" /\ Candidate /\ fn \in Functions
  BY DEF Buildable, ShapeInv
<1>2. /\ IsBase(e, at[2]) /\ e \in Blocks /\ e \notin toErase
      /\ Insts(e)[at[2]].base = fn.code[e].base
  BY <1>1, ScanFacts
<1>3. TableAt(fn.code[e].base) \in Seq(Blocks) /\ TableAt(fn.code[e].base) # <<>>
  BY <1>1, <1>2, CandidateBase DEF Candidate
<1>4. /\ JTList' = Append(JTList, table) /\ term' = [term EXCEPT ![b] = jti]
      /\ succs' = [succs EXCEPT ![b] = @ \cup ToSet(TableAt(fn.code[e].base))]
      /\ toErase' = toErase \cup {e} /\ at' = <<at[1], at[2] + 1>>
      /\ fn' = fn /\ phase' = phase /\ switches' = switches
  BY <1>2 DEF BuildTable
<1>5. JTList \in Seq(Tables)
  BY <1>1 DEF TablesInv, Scanned
<1>6. table \in Tables /\ Target(b) \in Blocks /\ Op(b) = "jcc"
  <2>1. <<b, e>>[1] = b
    OBVIOUS
  <2>2. Target(b) \in Blocks /\ Op(b) = "jcc"
    BY <1>1, <2>1, SwitchFacts DEF Target, Op
  <2> QED
    BY <1>3, <2>2
<1>7. n \in Nat /\ n = Len(JTList)
  BY <1>5
<1> HIDE DEF Tables, table
<1>8. /\ JTList' \in Seq(Tables) /\ Len(JTList') = n + 1
      /\ JTList'[n + 1] = table
      /\ \A k \in 1 .. n : JTList'[k] = JTList[k]
  <2>1. Append(JTList, table) \in Seq(Tables) /\ Len(Append(JTList, table)) = n + 1
    BY <1>5, <1>6
  <2>2. Append(JTList, table)[n + 1] = table
    BY <1>5, <1>6
  <2>3. \A k \in 1 .. n : Append(JTList, table)[k] = JTList[k]
    BY <1>5, <1>6
  <2> QED
    BY <1>4, <2>1, <2>2, <2>3
<1>9. /\ Compiled' /\ SwitchesOf' = SwitchesOf
      /\ \A c : Op(c)' = Op(c) /\ Target(c)' = Target(c)
      /\ \A c, i : IsBase(c, i)' <=> IsBase(c, i)
      /\ \A a : TableAt(a)' = TableAt(a)
  BY <1>4, FunctionStays
<1>10. term'[b] = jti /\ \A c \in Blocks : c # b => term'[c] = term[c]
  BY <1>4 DEF ShapeInv
<1>11. TableOf(b)' = table
  BY <1>8, <1>10 DEF TableOf
<1> HIDE DEF n
<1>12. \A c \in Blocks : term[c].op = "jti" =>
         TableOf(c)' = TableOf(c) /\ term[c].index \in 1 .. n
  <2> SUFFICES ASSUME NEW c \in Blocks, term[c].op = "jti"
               PROVE  TableOf(c)' = TableOf(c) /\ term[c].index \in 1 .. n
    OBVIOUS
  <2>1. c # b /\ term'[c] = term[c]
    BY <1>10
  <2>2. term[c].index \in 1 .. n
    BY <1>1 DEF TablesInv, Scanned, Built, n
  <2> QED
    BY <1>8, <2>1, <2>2 DEF TableOf
<1>13. Built(b, e)'
  <2>1. (fn.code[e].base)' = fn'.code[at'[1]].base /\ at'[1] = at[1]
    BY <1>4
  <2>2. term'[b].index \in 1 .. Len(JTList')
    BY <1>7, <1>8, <1>10
  <2>3. (TableAt(fn.code[e].base))' = TableAt(fn.code[e].base)
    BY <1>4, <1>9, <2>1
  <2>4. Target(b)' = Target(b) /\ <<b, e>>' = <<b, e>>
    BY <1>9, <2>1
  <2> QED
    BY <1>3, <1>9, <1>11, <2>1, <2>2, <2>3, <2>4 DEF Built, table
<1>14. \A c \in Blocks, f \in toErase : term[c].op = "jti" /\ Built(c, f) => Built(c, f)'
  <2> SUFFICES ASSUME NEW c \in Blocks, NEW f \in toErase, term[c].op = "jti", Built(c, f)
               PROVE  Built(c, f)'
    OBVIOUS
  <2>1. c # b /\ term'[c] = term[c] /\ TableOf(c)' = TableOf(c)
    BY <1>10, <1>12
  <2>2. term'[c].index \in 1 .. Len(JTList')
    BY <1>7, <1>8, <1>12, <2>1
  <2>3. TableAt(fn.code[f].base)' = TableAt(fn.code[f].base)
    BY <1>4, <1>9
  <2> QED
    BY <1>9, <2>1, <2>2, <2>3 DEF Built
<1>15. Built(b, at[1])' => \E f \in toErase' : Built(b, f)'
  <2>1. at'[1] = at[1] /\ at[1] \in toErase'
    BY <1>4
  <2> QED
    BY <2>1 DEF Built
<1>16. \A c \in Blocks : term'[c].op = "jti" => \E f \in toErase' : Built(c, f)'
  <2> SUFFICES ASSUME NEW c \in Blocks, term'[c].op = "jti"
               PROVE  \E f \in toErase' : Built(c, f)'
    OBVIOUS
  <2>1. CASE c = b
    BY <1>13, <1>15, <2>1
  <2>2. CASE c # b
    <3>1. PICK f \in toErase : Built(c, f)
      BY <1>1, <1>10, <2>2 DEF TablesInv, Scanned
    <3>2. term[c].op = "jti"
      BY <1>10, <2>2
    <3>3. Built(c, f)' /\ f \in toErase'
      BY <1>4, <1>14, <3>1, <3>2
    <3> QED
      BY <3>3
  <2> QED
    BY <2>1, <2>2
<1>17. \A f \in toErase' : \E c \in Blocks : term'[c].op = "jti" /\ Built(c, f)'
  <2> SUFFICES ASSUME NEW f \in toErase'
               PROVE  \E c \in Blocks : term'[c].op = "jti" /\ Built(c, f)'
    OBVIOUS
  <2>1. CASE f \in toErase
    <3>1. PICK c \in Blocks : term[c].op = "jti" /\ Built(c, f)
      BY <1>1, <2>1 DEF TablesInv, Scanned
    <3>2. term'[c].op = "jti"
      BY <1>10, <3>1
    <3> QED
      BY <1>14, <2>1, <3>1, <3>2
  <2>2. CASE f = at[1]
    <3>1. at'[1] = f
      BY <1>4, <2>2
    <3>2. Built(b, f)'
      BY <1>13, <3>1 DEF Built
    <3>3. term'[b].op = "jti"
      BY <1>10
    <3> QED
      BY <3>2, <3>3
  <2> QED
    BY <1>4, <2>1, <2>2
<1>18. \A c \in Blocks : Successors(fn, c)' = Successors(fn, c)
  BY <1>4
<1>19. ASSUME NEW c \in Blocks
       PROVE  /\ term'[c].op # "jti" => term'[c] = (fn.code[c].term)'
              /\ succs'[c] = Edges(c)'
  <2>1. /\ term[c].op # "jti" => term[c] = fn.code[c].term
        /\ succs[c] = Edges(c)
    BY <1>1 DEF TablesInv, Scanned
  <2>2. CASE c = b
    <3>1. succs'[c] = Successors(fn, c) \cup ToSet(TableAt(fn.code[e].base))
      BY <1>4, <2>1, <2>2 DEF ShapeInv, Edges
    <3>2. Edges(c)' = Successors(fn, c) \cup ToSet(TableOf(c)'.MBBs)
      BY <1>10, <1>18, <2>2 DEF Edges
    <3> QED
      BY <1>10, <1>11, <2>2, <3>1, <3>2 DEF table
  <2>3. CASE c # b
    <3>1. term'[c] = term[c] /\ succs'[c] = succs[c]
      BY <1>4, <1>10, <2>3 DEF ShapeInv
    <3>2. Edges(c)' = Edges(c)
      BY <1>12, <1>18, <3>1 DEF Edges
    <3> QED
      BY <1>4, <2>1, <3>1, <3>2
  <2> QED
    BY <2>2, <2>3
<1>20. \A f \in toErase' : \E i : IsBase(f, i)' /\ Passed(f, i)'
  <2>1. at'[1] = at[1] /\ at'[2] = at[2] + 1
    BY <1>4
  <2>2. at[2] \in Nat
    BY <1>1 DEF ShapeInv
  <2> SUFFICES ASSUME NEW f \in toErase'
               PROVE  \E i : IsBase(f, i)' /\ Passed(f, i)'
    OBVIOUS
  <2>3. CASE f \in toErase
    <3>1. PICK i : IsBase(f, i) /\ Passed(f, i)
      BY <1>1, <2>3 DEF TablesInv, Scanned
    <3>2. i \in Nat
      <4> DEFINE w == Len(CodeOf(f))
      <4>1. i \in 1 .. w
        BY <3>1 DEF IsBase
      <4> HIDE DEF w
      <4> QED
        BY <4>1
    <3>3. Passed(f, i)'
      BY <2>1, <2>2, <3>1, <3>2 DEF Passed
    <3> QED
      BY <1>9, <3>1, <3>3
  <2>4. CASE f = at[1]
    <3>1. PICK i : i = at[2]
      OBVIOUS
    <3>2. f = at'[1] /\ i < at'[2]
      BY <2>1, <2>2, <2>4, <3>1
    <3>3. Passed(f, i)'
      BY <3>2 DEF Passed
    <3>4. IsBase(f, i)
      BY <1>2, <2>4, <3>1
    <3> QED
      BY <1>9, <3>3, <3>4
  <2> QED
    BY <1>4, <2>3, <2>4
<1>21. switches' = <<>> /\ DOMAIN switches' = {}
  BY <1>1, <1>4 DEF TablesInv, Scanned
<1>22. ~Erased' /\ phase' = "scan"
  BY <1>1, <1>4 DEF Erased
<1> QED
  BY <1>8, <1>16, <1>17, <1>19, <1>20, <1>21, <1>22 DEF TablesInv, Tables

LEMMA FunctionNeverChanges == ASSUME [Next]_tableVars PROVE fn' = fn
BY DEF Next, tableVars, NextMBB, SkipInst, Continue, NoTerminator, Stop, BuildAfterJump,
       BuildTable, BuildAtIndirect, EraseMBBs, raiseIndirectBranchMachineInstr,
       FinishRaising, Done

\* The tables stay, and what was passed stays passed.
LEMMA QuietKeepsTables ==
  ASSUME ShapeInv, TablesInv, Compiled,
         UNCHANGED <<fn, term, succs, JTList, toErase, switches>>,
         Scanned => Scanned' /\ (phase' = "scan" => phase = "scan"),
         Erased => Erased',
         Scanned' \/ Erased' => Scanned \/ Erased,
         Scanned' => Scanned, Erased' => Erased,
         phase' = "scan" =>
           \A e \in toErase : \A i : IsBase(e, i) /\ Passed(e, i) => Passed(e, i)',
         phase' = "raised" => Unraised = {}
  PROVE  TablesInv'
<1>1. /\ SwitchesOf' = SwitchesOf
      /\ \A b : Target(b)' = Target(b)
      /\ \A b, i : IsBase(b, i)' <=> IsBase(b, i)
      /\ \A b : getSwitchCompareValue(b)' = getSwitchCompareValue(b)
      /\ \A a : TableAt(a)' = TableAt(a)
  BY FunctionStays
<1>2. \A b : TableOf(b)' = TableOf(b)
  BY DEF TableOf
<1>3. \A b, e : Built(b, e)' <=> Built(b, e)
  BY <1>1, <1>2 DEF Built
<1>4. \A b : Edges(b)' = Edges(b)
  BY <1>2 DEF Edges
<1>5. Unraised' = Unraised
  BY DEF Unraised
<1> SUFFICES ASSUME Scanned' \/ Erased' PROVE TablesInv'
  BY DEF TablesInv
<1>6. phase' = "scan" => \A e \in toErase : \E i : IsBase(e, i)' /\ Passed(e, i)'
  <2> SUFFICES ASSUME phase' = "scan", NEW e \in toErase
               PROVE  \E i : IsBase(e, i)' /\ Passed(e, i)'
    OBVIOUS
  <2>1. phase = "scan"
    BY DEF Scanned
  <2>2. PICK i : IsBase(e, i) /\ Passed(e, i)
    BY <2>1 DEF TablesInv, Scanned
  <2> QED
    BY <1>1, <2>2
<1>7. phase' = "raised" => Unraised' = {}
  BY <1>5
<1> QED
  BY <1>1, <1>2, <1>3, <1>4, <1>6, <1>7 DEF TablesInv

\* The blocks with the branches go, and with them the edges to them.
LEMMA EraseKeepsTables ==
  ASSUME ShapeInv, TablesInv, Compiled, EraseMBBs PROVE TablesInv'
<1>0. CASE phase' = "undefined"
  BY <1>0 DEF TablesInv, Scanned, Erased
<1> SUFFICES ASSUME phase' # "undefined" PROVE TablesInv'
  BY <1>0
<1>1. /\ phase = "erase" /\ phase' = "raise" /\ fn' = fn /\ JTList' = JTList
      /\ toErase' = toErase /\ switches' = switches
      /\ succs' = [b \in Blocks |-> IF b \in toErase THEN {} ELSE succs[b] \ toErase]
      /\ term' = [b \in Blocks |-> IF b \in toErase THEN [op |-> "erased"] ELSE term[b]]
  BY DEF EraseMBBs
<1>2. /\ SwitchesOf' = SwitchesOf
      /\ \A b : Target(b)' = Target(b)
      /\ \A a : TableAt(a)' = TableAt(a)
  BY <1>1, FunctionStays
<1>3. Scanned /\ fn \in Functions /\ toErase \subseteq Blocks
  BY <1>1 DEF Scanned, ShapeInv
<1>4. \A b \in Blocks : term[b].op = "jti" => b \notin toErase
  BY <1>3, TablesAtChecks DEF TableBranches
<1>5. \A b \in Blocks : b \notin toErase => term'[b] = term[b] /\ succs'[b] = succs[b] \ toErase
  BY <1>1
<1>6. \A b \in Blocks : b \in toErase => term'[b] = [op |-> "erased"] /\ succs'[b] = {}
  BY <1>1
<1>7. \A b \in Blocks : b \notin toErase => TableOf(b)' = TableOf(b)
  BY <1>1, <1>5 DEF TableOf
<1>8. \A b \in Blocks : b \notin toErase => Edges(b)' = Edges(b)
  BY <1>1, <1>5, <1>7 DEF Edges
<1>9. \A b \in Blocks : \A e : b \notin toErase => (Built(b, e)' <=> Built(b, e))
  <2> SUFFICES ASSUME NEW b \in Blocks, NEW e, b \notin toErase
               PROVE  Built(b, e)' <=> Built(b, e)
    OBVIOUS
  <2>1. TableAt(fn.code[e].base)' = TableAt(fn.code[e].base)
    BY <1>1, <1>2
  <2> QED
    BY <1>1, <1>2, <1>5, <1>7, <2>1 DEF Built
<1>10. /\ JTList \in Seq([MBBs : Seq(Blocks), ConditionMBB : Blocks, DefaultMBB : Blocks])
       /\ \A b \in Blocks : term[b].op = "jti" => \E e \in toErase : Built(b, e)
       /\ \A e \in toErase : \E b \in Blocks : term[b].op = "jti" /\ Built(b, e)
       /\ \A b \in Blocks : /\ term[b].op # "jti" => term[b] = fn.code[b].term
                            /\ succs[b] = Edges(b)
       /\ switches = <<>>
  BY <1>3 DEF TablesInv
<1>11. \A b \in Blocks : term'[b].op = "jti" => b \notin toErase /\ term[b].op = "jti"
  BY <1>5, <1>6
<1>12. \A b \in Blocks : term'[b].op = "jti" => \E e \in toErase' : Built(b, e)'
  BY <1>1, <1>9, <1>10, <1>11
<1>13. \A e \in toErase' : \E b \in Blocks : term'[b].op = "jti" /\ Built(b, e)'
  <2> SUFFICES ASSUME NEW e \in toErase
               PROVE  \E b \in Blocks : term'[b].op = "jti" /\ Built(b, e)'
    BY <1>1
  <2>1. PICK b \in Blocks : term[b].op = "jti" /\ Built(b, e)
    BY <1>10
  <2>2. b \notin toErase /\ term'[b].op = "jti"
    BY <1>4, <1>5, <2>1
  <2> QED
    BY <1>9, <2>1, <2>2
<1>14. \A b \in Blocks :
         IF b \in toErase' THEN term'[b].op = "erased" /\ succs'[b] = {}
         ELSE /\ term'[b].op # "jti" => term'[b] = (fn.code[b].term)'
              /\ succs'[b] = Edges(b)' \ toErase'
  BY <1>1, <1>5, <1>6, <1>8, <1>10
<1>15. DOMAIN switches' = {}
  BY <1>1, <1>10
<1>16. ~Scanned' /\ phase' # "scan" /\ phase' # "raised"
  BY <1>1 DEF Scanned
<1> QED
  BY <1>1, <1>10, <1>12, <1>13, <1>14, <1>15, <1>16 DEF TablesInv

LEMMA RaiseKeepsTables ==
  ASSUME ShapeInv, TablesInv, Compiled, raiseIndirectBranchMachineInstr
  PROVE  TablesInv'
<1>1. CASE Stop("failed") \/ Stop("undefined")
  BY <1>1 DEF Stop, TablesInv, Scanned, Erased
<1>2. CASE ~(Stop("failed") \/ Stop("undefined"))
  <2>1. phase = "raise"
    BY DEF raiseIndirectBranchMachineInstr
  <2>2. PICK b \in Unraised : \E low \in getSwitchCompareValue(TableOf(b).ConditionMBB) :
          /\ switches' = [c \in DOMAIN switches \cup {b} |->
                            IF c # b THEN switches[c]
                            ELSE [low |-> low, cases |-> TableOf(b).MBBs,
                                  default |-> TableOf(b).DefaultMBB]]
          /\ term[b].op = "jti"
          /\ UNCHANGED <<fn, phase, at, term, succs, JTList, toErase>>
    <3>1. PICK b \in Unraised :
            \/ term[b].op # "jti" /\ Stop("failed")
            \/ /\ term[b].op = "jti"
               /\ \/ Stop("failed")
                  \/ Stop("undefined")
                  \/ \E low \in getSwitchCompareValue(TableOf(b).ConditionMBB) :
                     /\ switches' = [c \in DOMAIN switches \cup {b} |->
                                       IF c # b THEN switches[c]
                                       ELSE [low |-> low, cases |-> TableOf(b).MBBs,
                                             default |-> TableOf(b).DefaultMBB]]
                     /\ UNCHANGED <<fn, phase, at, term, succs, JTList, toErase>>
      BY DEF raiseIndirectBranchMachineInstr, TableOf
    <3> QED
      BY <1>2, <3>1
  <2> PICK low \in getSwitchCompareValue(TableOf(b).ConditionMBB) :
        switches' = [c \in DOMAIN switches \cup {b} |->
                       IF c # b THEN switches[c]
                       ELSE [low |-> low, cases |-> TableOf(b).MBBs,
                             default |-> TableOf(b).DefaultMBB]]
    BY <2>2
  <2>3. b \in Blocks
    BY DEF Unraised
  <2>4. PICK e \in toErase : Built(b, e)
    BY <2>1, <2>2, <2>3 DEF TablesInv, Erased
  <2>5. TableOf(b).ConditionMBB = b
    BY <2>4 DEF Built
  <2>6. low \in getSwitchCompareValue(b)
    BY <2>5 DEF TableOf
  <2>7. /\ \A c : getSwitchCompareValue(c)' = getSwitchCompareValue(c)
        /\ SwitchesOf' = SwitchesOf /\ \A c : Target(c)' = Target(c)
        /\ \A a : TableAt(a)' = TableAt(a)
    BY <2>2, FunctionStays
  <2>8. \A c : TableOf(c)' = TableOf(c)
    BY <2>2 DEF TableOf
  <2>9. \A c, f : Built(c, f)' <=> Built(c, f)
    BY <2>2, <2>7, <2>8 DEF Built
  <2>10. \A c : Edges(c)' = Edges(c)
    BY <2>2, <2>8 DEF Edges
  <2>11. ASSUME NEW c \in DOMAIN switches'
         PROVE  /\ c \in Blocks /\ term[c].op = "jti"
                /\ switches'[c].low \in getSwitchCompareValue(c)
                /\ switches'[c].cases = TableOf(c).MBBs
                /\ switches'[c].default = TableOf(c).DefaultMBB
    <3>1. c \in DOMAIN switches \cup {b}
      BY <2>2
    <3>2. CASE c = b
      BY <2>2, <2>3, <2>6, <3>2 DEF TableOf
    <3>3. CASE c # b
      <4>1. switches'[c] = switches[c] /\ c \in DOMAIN switches
        BY <2>2, <3>1, <3>3
      <4> QED
        BY <2>1, <4>1 DEF TablesInv, Erased
    <3> QED
      BY <3>2, <3>3
  <2>12. \A c \in DOMAIN switches' :
           /\ c \in Blocks /\ term'[c].op = "jti"
           /\ switches'[c].low \in getSwitchCompareValue(c)'
           /\ switches'[c].cases = TableOf(c)'.MBBs
           /\ switches'[c].default = TableOf(c)'.DefaultMBB
    BY <2>2, <2>7, <2>8, <2>11
  <2>13. Erased /\ Erased' /\ ~Scanned' /\ phase' = "raise"
    BY <2>1, <2>2 DEF Erased, Scanned
  <2>14. /\ JTList' \in Seq([MBBs : Seq(Blocks), ConditionMBB : Blocks, DefaultMBB : Blocks])
         /\ \A c \in Blocks : term'[c].op = "jti" => \E f \in toErase' : Built(c, f)'
         /\ \A f \in toErase' : \E c \in Blocks : term'[c].op = "jti" /\ Built(c, f)'
    BY <2>2, <2>9, <2>13 DEF TablesInv
  <2>15. \A c \in Blocks :
           IF c \in toErase' THEN term'[c].op = "erased" /\ succs'[c] = {}
           ELSE /\ term'[c].op # "jti" => term'[c] = (fn.code[c].term)'
                /\ succs'[c] = Edges(c)' \ toErase'
    BY <2>2, <2>10, <2>13 DEF TablesInv
  <2> QED
    BY <2>12, <2>13, <2>14, <2>15 DEF TablesInv
<1> QED
  BY <1>1, <1>2

LEMMA NextKeepsTables ==
  ASSUME ShapeInv, TablesInv, [Next]_tableVars PROVE TablesInv'
<1> SUFFICES ASSUME Compiled PROVE TablesInv'
  BY FunctionNeverChanges, FunctionStays DEF TablesInv
<1>1. CASE NextMBB \/ SkipInst
  <2>1. /\ UNCHANGED <<fn, term, succs, JTList, toErase, switches>>
        /\ phase = "scan" /\ phase' \in {"scan", "erase"}
    BY <1>1 DEF NextMBB, SkipInst, Continue
  <2>2. at[1] \in Nat /\ at[2] \in Nat
    BY <2>1, JumpTablesAssumption DEF ShapeInv, Blocks
  <2>3. \/ at'[1] = at[1] + 1
        \/ at'[1] = at[1] /\ at'[2] = at[2] + 1
    BY <1>1 DEF NextMBB, SkipInst, Continue
  <2>4. \A e \in toErase : \A i : IsBase(e, i) /\ Passed(e, i) => Passed(e, i)'
    <3> SUFFICES ASSUME NEW e \in toErase, NEW i, IsBase(e, i), Passed(e, i)
                 PROVE  Passed(e, i)'
      OBVIOUS
    <3>1. e \in Nat
      <4>1. e \in Blocks
        BY DEF ShapeInv
      <4> QED
        BY <4>1, JumpTablesAssumption DEF Blocks
    <3>2. i \in Nat
      <4> DEFINE w == Len(CodeOf(e))
      <4>1. i \in 1 .. w
        BY DEF IsBase
      <4> HIDE DEF w
      <4> QED
        BY <4>1
    <3> QED
      BY <2>2, <2>3, <3>1, <3>2 DEF Passed
  <2> QED
    BY <2>1, <2>4, QuietKeepsTables DEF Scanned, Erased
<1>2. CASE NoTerminator \/ BuildAfterJump
  <2>1. Buildable /\ (term[at[1]].op = "none" \/ term[at[1]].op = "jmp")
    BY <1>2 DEF NoTerminator, BuildAfterJump
  <2> QED
    BY <2>1, NoOtherBases DEF TableBranches
<1>3. CASE BuildAtIndirect
  <2>1. PICK b \in Blocks :
          /\ <<b, at[1]>> \in SwitchesOf
          /\ term[b].op # "jti"
          /\ Stop("failed") \/ BuildTable(b, b, Target(b), {at[1]})
    BY <1>3, BuildsAtCheck
  <2>2. CASE Stop("failed")
    BY <2>2 DEF Stop, TablesInv, Scanned, Erased
  <2> QED
    BY <1>3, <2>1, <2>2, BuildTableKeepsTables DEF BuildAtIndirect
<1>4. CASE EraseMBBs
  BY <1>4, EraseKeepsTables
<1>5. CASE raiseIndirectBranchMachineInstr
  BY <1>5, RaiseKeepsTables
<1>6. CASE FinishRaising
  BY <1>6, QuietKeepsTables DEF FinishRaising, Stop, Scanned, Erased
<1>7. CASE Done \/ UNCHANGED tableVars
  <2>1. UNCHANGED tableVars
    BY <1>7 DEF Done
  <2>2. UNCHANGED <<fn, phase, at, term, succs, JTList, toErase, switches>>
    BY <2>1 DEF tableVars
  <2>3. \A e, i : Passed(e, i) => Passed(e, i)'
    BY <2>2 DEF Passed
  <2>4. phase = "raised" => Unraised = {}
    BY DEF TablesInv, Erased
  <2> QED
    BY <2>2, <2>3, <2>4, QuietKeepsTables DEF Scanned, Erased
<1> QED
  BY <1>1, <1>2, <1>3, <1>4, <1>5, <1>6, <1>7 DEF Next

-----------------------------------------------------------------------------
(* The steps: when the tables are readable too. *)

\* No edge of a table leads to a branch through a table.
LEMMA TablesLeadElsewhere ==
  ASSUME ShapeInv, TablesInv, Compiled, Readable, Scanned \/ Erased,
         NEW b \in Blocks, term[b].op = "jti", NEW c \in ToSet(TableOf(b).MBBs)
  PROVE  Op(c) \notin TableBranches
<1>1. PICK e \in toErase : Built(b, e)
  BY DEF TablesInv
<1> DEFINE s == <<b, e>>
<1>2. s \in SwitchesOf /\ s[2] = e /\ fn \in Functions
      /\ TableOf(b).MBBs = TableAt(Base(s)) /\ TableAt(Base(s)) # <<>>
  BY <1>1 DEF Built, Base, ShapeInv
<1> HIDE DEF s
<1>3. TableAt(Base(s)) = [x \in 1 .. Bound(s) |-> Entry(Base(s) + x - 1)]
  BY <1>2, TableExtent DEF Readable
<1>4. PICK x \in 1 .. Bound(s) : c = Entry(Base(s) + x - 1)
  BY <1>2, <1>3 DEF ToSet
<1>5. Base(s) \in Nat /\ Bound(s) \in Nat
  BY <1>2, SwitchFacts
<1>6. x - 1 \in 0 .. Bound(s) - 1 /\ Base(s) + (x - 1) + 1 = (Base(s) + x - 1) + 1
  BY <1>5
<1>7. c = getMBBNumberOfMCInstOffset(fn.words[Base(s) + (x - 1) + 1])
  BY <1>4, <1>6 DEF Entry
<1> QED
  BY <1>2, <1>6, <1>7 DEF Readable, EntriesGuarded, Op

\* The branch is reached from its check only.
LEMMA OnlyCheckLeads ==
  ASSUME ShapeInv, TablesInv, Compiled, Readable, Scanned, NEW b \in Blocks, NEW e \in Blocks,
         <<b, e>> \in SwitchesOf
  PROVE  preds(e) = {b}
<1> DEFINE s == <<b, e>>
<1>1. s \in SwitchesOf /\ s[1] = b /\ s[2] = e /\ fn \in Functions /\ ChecksGuard
  BY DEF ShapeInv, Compiled
<1> HIDE DEF s
<1>2. Op(e) \in TableBranches
  BY <1>1, SwitchFacts DEF Op
<1>3. \A c \in Blocks : e \in Successors(fn, c) <=> c = b
  BY <1>1, CheckFacts
<1>4. \A c \in Blocks : e \in succs[c] <=> e \in Successors(fn, c)
  BY <1>2, TablesLeadElsewhere DEF TablesInv, Edges
<1> QED
  BY <1>3, <1>4 DEF preds

\* The base of a branch is always the base of a table.
LEMMA BasesAreCandidates ==
  ASSUME ShapeInv, TablesInv, Compiled, Readable, phase = "scan", IsBase(at[1], at[2])
  PROVE  Buildable /\ term[at[1]].op \in TableBranches
<1>1. /\ Op(at[1]) \in TableBranches /\ at[1] \in Blocks
      /\ term[at[1]] = fn.code[at[1]].term /\ ~Redefined(at[1], at[2])
  BY ScanFacts
<1>2. PICK s \in SwitchesOf : s[2] = at[1]
  BY <1>1 DEF Compiled, ChecksGuard, Op
<1>3. TableAt(fn.code[at[1]].base) # <<>>
  BY <1>2, TableExtent DEF Readable, ShapeInv, Base
<1>4. Candidate
  BY <1>3, ScanFacts
<1> QED
  BY <1>1, <1>4 DEF Buildable, Op, TableBranches

\* In the raising every branch through a table has become a switch, whose check compares
\* a number and which goes to no erased block.
LEMMA RaisingSucceeds ==
  ASSUME ShapeInv, TablesInv, CompleteInv, Compiled, Readable, raiseIndirectBranchMachineInstr
  PROVE  phase' = "raise"
<1>1. phase = "raise" /\ Erased
  BY DEF raiseIndirectBranchMachineInstr, Erased
<1>2. PICK b \in Unraised :
        \/ term[b].op # "jti"
        \/ /\ term[b].op = "jti"
           /\ \/ getSwitchCompareValue(TableOf(b).ConditionMBB) = {}
              \/ TableOf(b).DefaultMBB = NoBlock
              \/ ToSet(TableOf(b).MBBs) \cap toErase # {}
              \/ phase' = phase
  BY DEF raiseIndirectBranchMachineInstr, TableOf
<1>3. b \in Blocks /\ term[b].op \in Indirect /\ fn \in Functions
  BY DEF Unraised, ShapeInv
<1>4. term[b].op = "jti"
  <2> SUFFICES ASSUME term[b].op # "jti" PROVE FALSE
    OBVIOUS
  <2>1. term[b].op \in TableBranches
    BY <1>3 DEF Indirect
  <2>2. b \notin toErase
    BY <1>1, <1>3, <2>1 DEF TablesInv, TableBranches
  <2>3. term[b] = fn.code[b].term
    BY <1>1, <1>3, <2>2 DEF TablesInv
  <2> QED
    BY <1>1, <1>3, <2>1, <2>2, <2>3 DEF CompleteInv, Op
<1>5. PICK e \in toErase : Built(b, e)
  BY <1>1, <1>3, <1>4 DEF TablesInv
<1> DEFINE s == <<b, e>>
<1>6. s \in SwitchesOf /\ s[1] = b /\ TableOf(b).ConditionMBB = b
      /\ TableOf(b).DefaultMBB = Target(b)
  BY <1>5 DEF Built
<1> HIDE DEF s
<1>7. getSwitchCompareValue(b) # {}
  BY <1>6 DEF Readable, ComparesNumbers
<1>8. Target(b) # NoBlock
  <2>1. Target(b) \in Blocks
    BY <1>3, <1>6, SwitchFacts DEF Target
  <2> QED
    BY <2>1, EntryFacts
<1>9. ToSet(TableOf(b).MBBs) \cap toErase = {}
  BY <1>1, <1>3, <1>4, TablesLeadElsewhere, TablesAtChecks
<1> QED
  BY <1>1, <1>2, <1>4, <1>6, <1>7, <1>8, <1>9

\* The scan passes no base without building its table.
LEMMA ScanStaysComplete ==
  ASSUME ShapeInv, TablesInv, CompleteInv, Compiled, Readable, NextMBB \/ SkipInst
  PROVE  CompleteInv'
<1>1. /\ phase = "scan" /\ phase' \in {"scan", "erase"} /\ fn' = fn /\ toErase' = toErase
      /\ fn \in Functions
  BY DEF NextMBB, SkipInst, Continue, ShapeInv
<1>2. /\ at[1] \in Blocks /\ at[1] \in Nat /\ at[2] \in Nat
      /\ Insts(at[1]) = CodeOf(at[1]) /\ Len(CodeOf(at[1])) \in Nat
  BY <1>1, ScanFacts, CodeOfFacts, JumpTablesAssumption DEF ShapeInv, Blocks
<1>3. /\ \A b : Op(b)' = Op(b)
      /\ \A b, i : IsBase(b, i)' <=> IsBase(b, i)
  BY <1>1, FunctionStays
<1>4. ASSUME NEW e \in Blocks, NEW i, IsBase(e, i), Passed(e, i)'
      PROVE  e \in toErase
  <2>1. e \in Nat
    BY JumpTablesAssumption DEF Blocks
  <2>2. i \in 1 .. Len(CodeOf(e))
    BY <1>4 DEF IsBase
  <2>3. Len(CodeOf(e)) \in Nat
    BY <1>1, CodeOfFacts
  <2> SUFFICES ASSUME ~Passed(e, i) PROVE FALSE
    BY <1>1, <1>4 DEF CompleteInv
  <2>4. CASE NextMBB
    <3>1. at'[1] = at[1] + 1 /\ at'[2] = 1 /\ at[2] > Len(CodeOf(at[1]))
      BY <1>2, <2>4 DEF NextMBB
    <3>2. e = at[1]
      BY <1>2, <1>4, <2>1, <2>2, <2>3, <3>1 DEF Passed
    <3> QED
      BY <1>2, <2>1, <2>2, <2>3, <3>1, <3>2 DEF Passed
  <2>5. CASE SkipInst
    <3>1. at'[1] = at[1] /\ at'[2] = at[2] + 1
      BY <2>5 DEF SkipInst, Continue
    <3>2. e = at[1] /\ i = at[2]
      BY <1>2, <1>4, <2>1, <2>2, <2>3, <3>1 DEF Passed
    <3>3. Buildable /\ term[at[1]].op \in TableBranches
      BY <1>1, <1>4, <3>2, BasesAreCandidates
    <3> QED
      BY <2>5, <3>3 DEF SkipInst, Buildable, TableBranches
  <2> QED
    BY <2>4, <2>5
<1>5. ASSUME phase' # "scan", NEW e \in Blocks, Op(e) \in TableBranches PROVE e \in toErase
  <2>1. at[1] = LastBlock /\ at'[1] = at[1] + 1
    BY <1>1, <1>5 DEF NextMBB, SkipInst, Continue
  <2>2. PICK i : IsBase(e, i)
    BY <1>1, <1>5, BaseFacts DEF Compiled
  <2>3. e < at'[1]
    BY <2>1, JumpTablesAssumption DEF Blocks
  <2>4. Passed(e, i)'
    BY <2>3 DEF Passed
  <2> QED
    BY <1>4, <2>2, <2>4
<1> QED
  BY <1>1, <1>3, <1>4, <1>5 DEF CompleteInv

LEMMA NextKeepsComplete ==
  ASSUME ShapeInv, TablesInv, CompleteInv, [Next]_tableVars PROVE CompleteInv'
<1>1. fn' = fn
  BY FunctionNeverChanges
<1>2. /\ Compiled' <=> Compiled
      /\ Readable' <=> Readable
      /\ \A b : Op(b)' = Op(b)
      /\ \A b, i : IsBase(b, i)' <=> IsBase(b, i)
  BY <1>1, FunctionStays
<1> SUFFICES ASSUME Compiled, Readable PROVE CompleteInv'
  BY <1>2 DEF CompleteInv
<1>3. CASE NextMBB \/ SkipInst
  BY <1>3, ScanStaysComplete
<1>4. CASE NoTerminator \/ BuildAfterJump
  <2>1. Buildable /\ (term[at[1]].op = "none" \/ term[at[1]].op = "jmp")
    BY <1>4 DEF NoTerminator, BuildAfterJump
  <2> QED
    BY <2>1, NoOtherBases DEF TableBranches
<1>5. CASE BuildAtIndirect
  <2>1. PICK b \in Blocks :
          /\ <<b, at[1]>> \in SwitchesOf
          /\ \/ preds(at[1]) # {b}
             \/ BuildTable(b, b, Target(b), {at[1]})
    BY <1>5, BuildsAtCheck
  <2>2. phase = "scan" /\ Scanned /\ at[1] \in Blocks /\ at[2] \in Nat /\ Buildable
    BY <1>5 DEF BuildAtIndirect, Buildable, Scanned, ShapeInv
  <2>3. preds(at[1]) = {b}
    BY <2>1, <2>2, OnlyCheckLeads
  <2>4. /\ at'[1] = at[1] /\ at'[2] = at[2] + 1 /\ phase' = "scan"
        /\ toErase' = toErase \cup {at[1]}
    BY <2>1, <2>2, <2>3 DEF BuildTable
  <2>5. ASSUME NEW e \in Blocks, NEW i, IsBase(e, i), Passed(e, i)' PROVE e \in toErase'
    <3>1. Passed(e, i) \/ e = at[1]
      BY <2>4, <2>5 DEF Passed
    <3> QED
      BY <2>2, <2>4, <2>5, <3>1 DEF CompleteInv
  <2> QED
    BY <1>2, <2>4, <2>5 DEF CompleteInv
<1>6. CASE EraseMBBs
  <2>1. phase = "erase" /\ toErase' = toErase
    BY <1>6 DEF EraseMBBs
  <2>2. ASSUME NEW e \in toErase PROVE Cardinality(preds(e)) = 1
    <3>1. PICK b \in Blocks : Built(b, e)
      BY <2>1 DEF TablesInv, Scanned
    <3>2. preds(e) = {b}
      BY <2>1, <3>1, OnlyCheckLeads DEF Built, Scanned, ShapeInv
    <3> QED
      BY <3>2, FS_Singleton
  <2>3. ~Overruns
    BY <2>2 DEF Overruns
  <2>4. phase' = "raise"
    BY <1>6, <2>3 DEF EraseMBBs
  <2> QED
    BY <1>2, <2>1, <2>4 DEF CompleteInv
<1>7. CASE raiseIndirectBranchMachineInstr
  <2>1. phase = "raise" /\ phase' = "raise" /\ toErase' = toErase
    BY <1>7, RaisingSucceeds DEF raiseIndirectBranchMachineInstr, Stop
  <2> QED
    BY <1>2, <2>1 DEF CompleteInv
<1>8. CASE FinishRaising
  BY <1>2, <1>8 DEF FinishRaising, Stop, CompleteInv
<1>9. CASE Done \/ UNCHANGED tableVars
  <2>1. UNCHANGED <<phase, at, toErase>>
    BY <1>9 DEF Done, tableVars
  <2>2. \A e, i : Passed(e, i)' <=> Passed(e, i)
    BY <2>1 DEF Passed
  <2> QED
    BY <1>2, <2>1, <2>2 DEF CompleteInv
<1> QED
  BY <1>3, <1>4, <1>5, <1>6, <1>7, <1>8, <1>9 DEF Next

-----------------------------------------------------------------------------
(* The theorems. *)

Inv == ShapeInv /\ TablesInv /\ CompleteInv

LEMMA Invariant == Spec => []Inv
<1>1. Init => Inv
  BY InitShape DEF Inv
<1>2. Inv /\ [Next]_tableVars => Inv'
  BY NextKeepsShape, NextKeepsTables, NextKeepsComplete DEF Inv
<1> QED
  BY <1>1, <1>2, PTL DEF Spec

\* The edges after raiseMachineJumpTable: whatever the function, no edge leads to a block
\* that is erased; and in the code of switches, a block with a table leads to the entries
\* of the table and to its default.
THEOREM EdgesAlwaysFollowTables == Spec => []EdgesFollowTables
<1>1. Inv => EdgesFollowTables
  <2> SUFFICES ASSUME Inv, Erased, NEW b \in Blocks
               PROVE  /\ \A c \in succs[b] : term[c].op # "erased"
                      /\ term[b].op = "jti" /\ BasesAtBranches /\ ChecksGuard =>
                           succs[b] = (ToSet(TableOf(b).MBBs) \ toErase)
                                        \cup {TableOf(b).DefaultMBB}
    BY DEF EdgesFollowTables, Erased, TableOf
  <2>1. ASSUME NEW c \in succs[b] PROVE term[c].op # "erased"
    BY DEF Inv, ShapeInv
  <2>2. ASSUME term[b].op = "jti", Compiled
        PROVE  succs[b] = (ToSet(TableOf(b).MBBs) \ toErase) \cup {TableOf(b).DefaultMBB}
    <3>1. ShapeInv /\ TablesInv /\ fn \in Functions /\ ChecksGuard
      BY <2>2 DEF Inv, ShapeInv, Compiled
    <3>2. PICK e \in toErase : Built(b, e)
      BY <2>2, <3>1 DEF TablesInv
    <3> DEFINE s == <<b, e>>
    <3>3. s \in SwitchesOf /\ s[1] = b /\ s[2] = e /\ TableOf(b).DefaultMBB = Target(b)
      BY <3>2 DEF Built
    <3> HIDE DEF s
    <3>4. Successors(fn, b) = {Target(b), e}
      BY <3>1, <3>3, CheckFacts
    <3>5. Target(b) \notin toErase
      <4>1. Op(Target(b)) \notin TableBranches
        BY <3>1, <3>3, ChecksApart
      <4> QED
        BY <2>2, <3>1, <4>1, TablesAtChecks
    <3>6. b \notin toErase
      BY <2>2, <3>1 DEF TablesInv
    <3>7. succs[b] = (Successors(fn, b) \cup ToSet(TableOf(b).MBBs)) \ toErase
      BY <2>2, <3>1, <3>6 DEF TablesInv, Edges
    <3> QED
      BY <3>2, <3>3, <3>4, <3>5, <3>7
  <2> QED
    BY <2>1, <2>2 DEF Compiled
<1> QED
  BY <1>1, Invariant, PTL

\* When a function is raised, each of its switches has the table of its branch as cases
\* and the target of its check as default.
LEMMA RaisedSwitches ==
  ASSUME Inv, Compiled, phase = "raised", NEW s \in SwitchesOf
  PROVE  /\ s[1] \in DOMAIN switches
         /\ switches[s[1]].low \in getSwitchCompareValue(s[1])
         /\ switches[s[1]].cases = TableAt(Base(s)) /\ TableAt(Base(s)) # <<>>
         /\ switches[s[1]].default = Target(s[1])
<1>1. /\ ShapeInv /\ TablesInv /\ Erased /\ fn \in Functions /\ ChecksGuard
      /\ Unraised = {}
  BY DEF Inv, Erased, ShapeInv, TablesInv, Compiled
<1>2. /\ s[1] \in Blocks /\ s[2] \in Blocks /\ Op(s[2]) \in TableBranches
  BY <1>1, SwitchFacts DEF Op
<1>3. s[2] \in toErase
  <2> SUFFICES ASSUME s[2] \notin toErase PROVE FALSE
    OBVIOUS
  <2>1. term[s[2]].op # "jti"
    BY <1>1, <1>2, TablesAtChecks DEF TableBranches
  <2>2. term[s[2]].op \in Indirect
    BY <1>1, <1>2, <2>1 DEF TablesInv, Op, Indirect
  <2>3. s[2] \in DOMAIN switches
    BY <1>1, <1>2, <2>2 DEF Unraised
  <2> QED
    BY <1>1, <2>1, <2>3 DEF TablesInv
<1>4. PICK b \in Blocks : term[b].op = "jti" /\ Built(b, s[2])
  BY <1>1, <1>3 DEF TablesInv
<1>5. b = s[1]
  <2>1. <<b, s[2]>> \in SwitchesOf /\ <<b, s[2]>>[2] = s[2]
    BY <1>4 DEF Built
  <2>2. s = <<b, s[2]>>
    BY <1>1, <2>1, ChecksApart
  <2> QED
    BY <2>2
<1>6. b \in DOMAIN switches
  BY <1>1, <1>4 DEF Unraised, Indirect
<1> QED
  BY <1>1, <1>4, <1>5, <1>6 DEF TablesInv, Built, Base

\* No bound, no table and no layout makes a raised switch go astray: when the tables can
\* be told apart, a function with the code of switches gets through the discovery and
\* the raising, and each of its switches goes where the machine goes.
THEOREM SwitchesAlwaysFollow == Spec => []SwitchFollows
<1>1. Inv => SwitchFollows
  <2> SUFFICES ASSUME Inv, TablesApart, Compiled
               PROVE  /\ ComparesNumbers /\ BasesInside /\ EntriesGuarded =>
                           phase \notin {"failed", "undefined"}
                      /\ phase = "raised" /\ EntriesLead /\ ComparedDirectly =>
                           \A s \in SwitchesOf :
                             /\ s[1] \in DOMAIN switches
                             /\ \A x \in 0 .. MaxIndex : RaisedTarget(s, x) = MachineTarget(s, x)
    BY DEF SwitchFollows, Compiled
  <2>1. ComparesNumbers /\ BasesInside /\ EntriesGuarded => phase \notin {"failed", "undefined"}
    BY DEF Inv, CompleteInv, Readable
  <2>2. ASSUME phase = "raised", EntriesLead, ComparedDirectly, NEW s \in SwitchesOf
        PROVE  /\ s[1] \in DOMAIN switches
               /\ \A x \in 0 .. MaxIndex : RaisedTarget(s, x) = MachineTarget(s, x)
    <3> DEFINE sw == switches[s[1]]
    <3>1. /\ s[1] \in DOMAIN switches /\ sw.low \in getSwitchCompareValue(s[1])
          /\ sw.cases = TableAt(Base(s)) /\ TableAt(Base(s)) # <<>>
          /\ sw.default = Target(s[1]) /\ fn \in Functions
      BY <2>2, RaisedSwitches DEF Inv, ShapeInv
    <3>2. sw.low = 0
      BY <2>2, <3>1 DEF getSwitchCompareValue, ComparedDirectly
    <3>3. sw.cases = [x \in 1 .. Bound(s) |-> Entry(Base(s) + x - 1)]
      BY <3>1, TableExtent
    <3>4. /\ Base(s) \in Nat /\ Bound(s) \in Nat /\ TableEnd(s) = Base(s) + Bound(s)
          /\ \A k \in Base(s) .. TableEnd(s) - 1 : fn.words[k + 1] < FuncEnd
      BY <3>1, SwitchFacts DEF TableEnd
    <3> HIDE DEF sw
    <3>5. Len(sw.cases) = Bound(s)
      BY <3>3, <3>4
    <3> SUFFICES ASSUME NEW x \in 0 .. MaxIndex
                 PROVE  RaisedTarget(s, x) = MachineTarget(s, x)
      BY <3>1
    <3>6. x \in Nat /\ x + sw.low = x
      BY <3>2, JumpTablesAssumption
    <3>7. RaisedTarget(s, x) =
            2 * (IF x < Bound(s) THEN sw.cases[x + 1] ELSE Target(s[1]))
      BY <3>1, <3>5, <3>6 DEF RaisedTarget, sw
    <3>8. CASE x < Bound(s)
      <4>1. x + 1 \in 1 .. Bound(s) /\ Base(s) + (x + 1) - 1 = Base(s) + x
        BY <3>4, <3>6, <3>8
      <4>2. sw.cases[x + 1] = getMBBNumberOfMCInstOffset(fn.words[Base(s) + x + 1])
        BY <3>3, <4>1 DEF Entry
      <4>3. fn.words[Base(s) + x + 1] < FuncEnd /\ fn.words[Base(s) + x + 1] % 2 = 0
        <5>1. x \in 0 .. Bound(s) - 1 /\ Base(s) + x \in Base(s) .. TableEnd(s) - 1
          BY <3>4, <3>6, <3>8
        <5> QED
          BY <2>2, <3>4, <5>1 DEF EntriesLead
      <4>4. fn.words[Base(s) + x + 1] \in Nat
        <5>1. fn.words \in Seq(Nat)
          BY <3>1, DataFacts
        <5> DEFINE n == Len(fn.words)
        <5>2. n \in Nat
          BY <5>1
        <5>3. PICK j \in 1 .. Len(fn.sections) : TableEnd(s) <= fn.sections[j].end
          BY <3>1, SwitchFacts
        <5>4. fn.sections[j].end \in Nat /\ fn.sections[j].end <= n
          BY <3>1, DataFacts
        <5> HIDE DEF n
        <5>5. Base(s) + x + 1 \in 1 .. n
          BY <3>4, <3>6, <3>8, <5>2, <5>3, <5>4
        <5> QED
          BY <5>1, <5>5 DEF n
      <4>5. 2 * (fn.words[Base(s) + x + 1] \div 2) = fn.words[Base(s) + x + 1]
        BY <4>3, <4>4
      <4>6. ~(x >= Bound(s))
        BY <3>4, <3>6, <3>8
      <4> QED
        BY <3>7, <3>8, <4>2, <4>3, <4>4, <4>5, <4>6, EntryFacts DEF MachineTarget
    <3>9. CASE ~(x < Bound(s))
      <4>1. x >= Bound(s)
        BY <3>4, <3>6, <3>9
      <4> QED
        BY <3>7, <3>9, <4>1 DEF MachineTarget, Target
    <3> QED
      BY <3>8, <3>9
  <2> QED
    BY <2>1, <2>2
<1> QED
  BY <1>1, Invariant, PTL

=============================================================================
