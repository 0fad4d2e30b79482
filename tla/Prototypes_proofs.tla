---------------------------- MODULE Prototypes_proofs ----------------------------
(***************************************************************************)
(* The calls and the return types of the raised module, for modules of any *)
(* number of functions of any size: what changeRaisedFunctionReturnType    *)
(* replaces is no longer called, and the types of returns and of tail      *)
(* callers follow.                                                         *)
(***************************************************************************)
EXTENDS Prototypes, WellFoundedInduction, TLAPS

-----------------------------------------------------------------------------
(* The inductive invariant. *)

FunctionObjects == [fn : Nat, version : Nat, ret : Types]
CallRecords == [by : Nat, block : Nat, inst : Nat, target : FunctionObjects, tail : BOOLEAN]
Returns == [type : Types, calls : SUBSET Int]

Typed ==
  /\ program \in Programs
  /\ cur \in Nat \ {0} /\ block \in Nat \ {0} /\ inst \in Nat \ {0} /\ pass \in Nat
  /\ raised \in [Funcs -> FunctionObjects]
  /\ calls \in Seq(CallRecords)
  /\ rets \in [Funcs -> Seq(Returns)]
  /\ value \in Int /\ rax \in Int
  /\ chain \in Seq(Funcs) /\ newType \in Types

\* Where raising a module is.
Phases ==
  /\ pc \in {"prototypes", "raise", "change", "done"}
  /\ pc = "prototypes" =>
       /\ pass \in {1, 2} /\ block = 1 /\ inst = 1
       /\ calls = <<>> /\ \A f \in Funcs : rets[f] = <<>>
       /\ \A f \in Funcs : /\ f < cur \/ pass = 2 => raised[f].fn = f
                           /\ f >= cur /\ pass = 1 => raised[f] = NoFunction
  /\ pc # "prototypes" => \A f \in Funcs : raised[f].fn = f
  /\ pc = "done" => \A f \in Funcs : f < cur

\* The exits of a function before one of its blocks.
ExitsBefore(f, b) == IF Len(program[f]) = 1 THEN b - 1 ELSE IF b = 1 THEN 0 ELSE b - 2

\* The walk over blocks and instructions, and the returns it has made.
Progress ==
  /\ cur \in Funcs => /\ block \in 1..(Len(program[cur]) + 1)
                      /\ block \in DOMAIN program[cur] => inst \in 1..(Len(Block.ops) + 1)
                      /\ Len(rets[cur]) = ExitsBefore(cur, block)
  /\ \A f \in Funcs : /\ f < cur => Len(rets[f]) = 1
                      /\ f > cur => rets[f] = <<>>

\* The functions whose type is being changed are distinct, and were raised at least in part.
ChainOrdered ==
  /\ pc # "change" => chain = <<>>
  /\ pc = "change" => chain # <<>> /\ chain[1] = cur /\ cur \in Funcs
  /\ \A i, j \in DOMAIN chain : chain[i] = chain[j] => i = j
  /\ \A i \in DOMAIN chain : chain[i] <= cur /\ rets[chain[i]] # <<>>

Before(f, b, i, to_f, to_b, to_i) ==
  f < to_f \/ (f = to_f /\ (b < to_b \/ (b = to_b /\ i < to_i)))
Passed(f, b, i) == Before(f, b, i, cur, block, inst)

\* Each call was made at a place of its own, which the walk has passed.
CallsPlaced ==
  /\ \A c \in DOMAIN calls :
       LET k == calls[c] IN
       /\ <<k.by, k.block, k.inst>> \in CallSites(k.target.fn)
       /\ k.target.fn \in Funcs
       /\ k.tail <=> k.inst \notin DOMAIN program[k.by][k.block].ops
       /\ Passed(k.by, k.block, k.inst)
  /\ \A c, d \in DOMAIN calls :
       /\ calls[c].by = calls[d].by /\ calls[c].block = calls[d].block
       /\ calls[c].inst = calls[d].inst
       => c = d

AfterOps(f, b) == Len(program[f][b].ops) + 1

TailsCalled ==
  \A f \in Funcs : \A b \in DOMAIN program[f] :
    program[f][b].end = "tail" /\ Passed(f, b, AfterOps(f, b)) =>
      \E c \in DOMAIN calls :
        calls[c].by = f /\ calls[c].block = b /\ calls[c].inst = AfterOps(f, b)

\* Of the functions being changed, all but the last one have had their call changed.
Replaced == {chain[i] : i \in {j \in DOMAIN chain : j < Len(chain)}}
Final(f) == IF f \in Replaced THEN NewFunction(f, newType) ELSE raised[f]

CallsCurrent ==
  \A c \in DOMAIN calls :
    CalledOnce(calls[c].target.fn) => calls[c].target = Final(calls[c].target.fn)

\* The return type a function has when the change is finished.
Pending(f) == IF f \in ToSet(chain) THEN newType ELSE raised[f].ret
PendingNext(f) == IF f \in ToSet(chain') THEN newType' ELSE raised'[f].ret

\* A function that only ends in calls of later functions is void until it is raised.
LaterCallees(f) == \A g \in TailCallees(f) : f < g
VoidUntilRaised ==
  \A f \in Funcs : ReturnBlocks(f) = {} /\ LaterCallees(f) /\ rets[f] = <<>> =>
                     raised[f].ret = "void"

ReturnsPending ==
  \A f \in Funcs :
    (SingleExit(f) => LaterCallees(f)) /\ (f < cur \/ SingleExit(f)) =>
      \A i \in DOMAIN rets[f] : rets[f][i].type = Pending(f)

TailsPending ==
  \A f, g \in Funcs :
    g \in TailCallees(f) /\ SingleExit(f) /\ f < g /\ CalledOnce(g) /\ rets[f] # <<>> =>
      Pending(f) = Pending(g) \/ (pc = "change" /\ g = Changing)

CallsInv ==
  pc # "aborted" =>
    /\ Typed /\ Phases /\ ChainOrdered /\ VoidUntilRaised
    /\ pc # "prototypes" =>
         Progress /\ CallsPlaced /\ TailsCalled /\ CallsCurrent /\ ReturnsPending /\ TailsPending

-----------------------------------------------------------------------------
(* Programs, which never change. *)

LEMMA ProgramFacts ==
  ASSUME program \in Programs
  PROVE  /\ Funcs = 1..Len(program) /\ Len(program) \in Nat
         /\ \A f \in Funcs :
              /\ Len(program[f]) \in Nat \ {0} /\ DOMAIN program[f] = 1..Len(program[f])
              /\ \A b \in DOMAIN program[f] :
                   LET k == program[f][b] IN
                   /\ k \in Blocks /\ k.ops \in Seq(Ops) /\ k.end \in {"fork", "ret", "tail"}
                   /\ k.end = "fork" <=> (b = 1 /\ Len(program[f]) > 1)
                   /\ k.end = "tail" => k.to \in Funcs /\ k.to # f
                   /\ \A i \in DOMAIN k.ops :
                        /\ k.ops[i].op = "call" => k.ops[i].to \in Funcs
                        /\ k.ops[i].op = "def" => k.ops[i].type \in Types
                        /\ k.ops[i].op \in {"call", "def"}
<1>1. program \in Seq(Seq(Blocks)) /\ Funcs = DOMAIN program
  BY ProgramsAssumption DEF Funcs
<1>2. Funcs = 1..Len(program) /\ Len(program) \in Nat
  BY <1>1
<1> SUFFICES ASSUME NEW f \in Funcs
             PROVE  /\ Len(program[f]) \in Nat \ {0} /\ DOMAIN program[f] = 1..Len(program[f])
                    /\ \A b \in DOMAIN program[f] :
                         LET k == program[f][b] IN
                         /\ k \in Blocks /\ k.ops \in Seq(Ops) /\ k.end \in {"fork", "ret", "tail"}
                         /\ k.end = "fork" <=> (b = 1 /\ Len(program[f]) > 1)
                         /\ k.end = "tail" => k.to \in Funcs /\ k.to # f
                         /\ \A i \in DOMAIN k.ops :
                              /\ k.ops[i].op = "call" => k.ops[i].to \in Funcs
                              /\ k.ops[i].op = "def" => k.ops[i].type \in Types
                              /\ k.ops[i].op \in {"call", "def"}
  BY <1>2
<1>3. program[f] \in Seq(Blocks) /\ program[f] # <<>>
  BY <1>1, ProgramsAssumption
<1>4. Len(program[f]) \in Nat \ {0} /\ DOMAIN program[f] = 1..Len(program[f])
  BY <1>3
<1>5. ASSUME NEW b \in DOMAIN program[f]
      PROVE  LET k == program[f][b] IN
             /\ k \in Blocks /\ k.ops \in Seq(Ops) /\ k.end \in {"fork", "ret", "tail"}
             /\ k.end = "fork" <=> (b = 1 /\ Len(program[f]) > 1)
             /\ k.end = "tail" => k.to \in Funcs /\ k.to # f
             /\ \A i \in DOMAIN k.ops :
                  /\ k.ops[i].op = "call" => k.ops[i].to \in Funcs
                  /\ k.ops[i].op = "def" => k.ops[i].type \in Types
                  /\ k.ops[i].op \in {"call", "def"}
  <2> DEFINE k == program[f][b]
  <2>1. k \in Blocks
    BY <1>3, <1>4
  <2>2. k.ops \in Seq(Ops) /\ k.end \in {"fork", "ret", "tail"}
    BY <2>1 DEF Blocks
  <2>3. /\ k.end = "fork" <=> (b = 1 /\ Len(program[f]) > 1)
        /\ k.end = "tail" => k.to \in Funcs /\ k.to # f
        /\ \A i \in DOMAIN k.ops : k.ops[i].op = "call" => k.ops[i].to \in Funcs
    BY <1>1, ProgramsAssumption
  <2>4. \A i \in DOMAIN k.ops : k.ops[i] \in Ops
    BY <2>2
  <2>5. \A o \in Ops : (o.op = "def" => o.type \in Types) /\ o.op \in {"call", "def"}
    BY DEF Ops
  <2> QED
    BY <2>1, <2>2, <2>3, <2>4, <2>5
<1> QED
  BY <1>4, <1>5

LEMMA PlaceFacts ==
  ASSUME program \in Programs, NEW f, NEW b, NEW i, NEW g
  PROVE  <<f, b, i>> \in CallSites(g) <=>
           /\ f \in Funcs /\ b \in DOMAIN program[f] /\ i \in 1..AfterOps(f, b)
           /\ Calls(f, b, i, g)
  BY DEF CallSites, Places, AfterOps

\* A function that is called once is called at one place.
LEMMA OncePlace ==
  ASSUME NEW g, CalledOnce(g), NEW s \in CallSites(g), NEW t \in CallSites(g)
  PROVE  s = t
  BY DEF CalledOnce

LEMMA KeptProgram ==
  ASSUME program' = program
  PROVE  /\ Funcs' = Funcs
         /\ \A f, b : AfterOps(f, b)' = AfterOps(f, b) /\ ExitsBefore(f, b)' = ExitsBefore(f, b)
         /\ \A g : CallSites(g)' = CallSites(g) /\ (CalledOnce(g)' <=> CalledOnce(g))
         /\ \A f : /\ ReturnBlocks(f)' = ReturnBlocks(f) /\ TailCallees(f)' = TailCallees(f)
                   /\ (SingleExit(f)' <=> SingleExit(f)) /\ (LaterCallees(f)' <=> LaterCallees(f))
<1>1. \A g : CallSites(g)' = CallSites(g)
  BY DEF CallSites, Places, Calls, Funcs
<1>2. \A g : CalledOnce(g)' <=> CalledOnce(g)
  BY <1>1 DEF CalledOnce
<1>3. \A f : TailCallees(f)' = TailCallees(f)
  BY DEF TailCallees
<1>4. \A f : LaterCallees(f)' <=> LaterCallees(f)
  BY <1>3 DEF LaterCallees
<1> QED
  BY <1>1, <1>2, <1>3, <1>4 DEF Funcs, AfterOps, ExitsBefore, ReturnBlocks, SingleExit

\* The exit of a function that has one is its last block.
LEMMA SingleExitFacts ==
  ASSUME program \in Programs, NEW f \in Funcs, SingleExit(f), NEW g \in TailCallees(f)
  PROVE  LET e == Len(program[f]) IN
         /\ e \in DOMAIN program[f] /\ program[f][e].end = "tail" /\ program[f][e].to = g
         /\ \A b \in DOMAIN program[f] : program[f][b].end # "fork" => b = e
         /\ ReturnBlocks(f) = {} /\ TailCallees(f) = {g}
         /\ <<f, e, AfterOps(f, e)>> \in CallSites(g)
<1> DEFINE e == Len(program[f])
<1>1. /\ e \in Nat \ {0} /\ e <= 2 /\ DOMAIN program[f] = 1..e
      /\ \A b \in 1..e : /\ program[f][b].end \in {"fork", "ret", "tail"}
                         /\ program[f][b].end = "fork" <=> (b = 1 /\ e > 1)
                         /\ program[f][b].ops \in Seq(Ops)
  BY ProgramFacts DEF SingleExit
<1> HIDE DEF e
<1>2. \A b \in 1..e : program[f][b].end # "fork" => b = e
  BY <1>1
<1>3. PICK b \in 1..e : program[f][b].end = "tail" /\ program[f][b].to = g
  BY <1>1 DEF TailCallees
<1>4. b = e
  BY <1>2, <1>3
<1>5. ReturnBlocks(f) = {} /\ TailCallees(f) = {g}
  BY <1>1, <1>2, <1>3, <1>4 DEF ReturnBlocks, TailCallees
<1>6. <<f, e, AfterOps(f, e)>> \in CallSites(g)
  <2>1. Len(program[f][e].ops) \in Nat /\ DOMAIN program[f][e].ops = 1..Len(program[f][e].ops)
    BY <1>1, <1>3, <1>4
  <2>2. AfterOps(f, e) \in 1..AfterOps(f, e) /\ AfterOps(f, e) \notin DOMAIN program[f][e].ops
    BY <2>1 DEF AfterOps
  <2>3. Calls(f, e, AfterOps(f, e), g)
    BY <1>3, <1>4, <2>2 DEF Calls
  <2> QED
    BY <1>1, <1>3, <1>4, <2>2, <2>3, PlaceFacts
<1> QED
  BY <1>1, <1>2, <1>3, <1>4, <1>5, <1>6 DEF e

\* A nonempty set of numbers up to n has a least and a greatest element.
LEMMA LeastNumber ==
  ASSUME NEW n \in Nat, NEW T \in SUBSET (1..n), T # {}
  PROVE  Min(T) \in T
<1> DEFINE R == {ss \in Nat \X Nat : ss[1] < ss[2]}
<1>1. IsWellFoundedOn(R, Nat)
  BY NatLessThanWellFounded DEF OpToRel
<1>2. \A x, y \in Nat : <<y, x>> \in R <=> y < x
  OBVIOUS
<1> HIDE DEF R
<1>3. T \in SUBSET Nat
  OBVIOUS
<1>4. PICK x \in T : \A y \in T : <<y, x>> \notin R
  BY <1>1, <1>3, WFMin
<1>5. \A y \in T : x <= y
  <2> SUFFICES ASSUME NEW y \in T PROVE x <= y
    OBVIOUS
  <2>1. x \in Nat /\ y \in Nat
    OBVIOUS
  <2>2. ~(y < x)
    BY <1>2, <1>4, <2>1
  <2> QED
    BY <2>1, <2>2
<1> QED
  BY <1>5 DEF Min

LEMMA GreatestNumber ==
  ASSUME NEW n \in Nat, NEW T \in SUBSET (1..n), T # {}
  PROVE  Max(T) \in T
<1> DEFINE U == {n + 1 - x : x \in T}
           R == {ss \in Nat \X Nat : ss[1] < ss[2]}
<1>1. IsWellFoundedOn(R, Nat)
  BY NatLessThanWellFounded DEF OpToRel
<1>2. \A x, y \in Nat : <<y, x>> \in R <=> y < x
  OBVIOUS
<1>3. U \in SUBSET Nat /\ U # {}
  <2>1. \A x \in T : n + 1 - x \in Nat /\ n + 1 - x \in U
    OBVIOUS
  <2>2. U # {}
    BY <2>1
  <2>3. \A u \in U : u \in Nat
    BY <2>1
  <2> QED
    BY <2>2, <2>3
<1> HIDE DEF R
<1>4. PICK u \in U : \A y \in U : <<y, u>> \notin R
  <2> HIDE DEF U
  <2> QED
    BY <1>1, <1>3, WFMin
<1>5. PICK x \in T : u = n + 1 - x
  OBVIOUS
<1>6. \A y \in T : y <= x
  <2> SUFFICES ASSUME NEW y \in T PROVE y <= x
    OBVIOUS
  <2>1. n + 1 - y \in U /\ n + 1 - y \in Nat /\ u \in Nat
    BY <1>3
  <2>2. ~(n + 1 - y < u)
    BY <1>2, <1>4, <2>1
  <2> QED
    BY <1>5, <2>2
<1> QED
  BY <1>6 DEF Max

-----------------------------------------------------------------------------
(* Discovery. *)

LEMMA NewFunctionTyped ==
  ASSUME Typed, NEW f \in Funcs, NEW T \in Types
  PROVE  /\ NewFunction(f, T) \in FunctionObjects /\ NewFunction(f, T).fn = f
         /\ NewFunction(f, T).ret = T
<1>1. raised[f].version \in Nat /\ f \in Nat
  BY ProgramFacts DEF Typed, FunctionObjects
<1> QED
  BY <1>1 DEF NewFunction, FunctionObjects

LEMMA DiscoveredTyped ==
  ASSUME Typed, NEW f \in Funcs
  PROVE  DiscoveredTypes(f) \subseteq Types
<1>1. \A g \in Funcs : raised[g].ret \in Types
  BY DEF Typed, FunctionObjects
<1>2. program \in Programs /\ "void" \in Types
  BY DEF Typed, Types
<1>3. TailCallTypes(f) \subseteq Types
  <2>1. \A b \in DOMAIN program[f] : program[f][b].end = "tail" => program[f][b].to \in Funcs
    BY <1>2, ProgramFacts
  <2> QED
    BY <1>1, <2>1 DEF TailCallTypes, getCalledFunction
<1>4. ASSUME NEW b \in DOMAIN program[f]
      PROVE  getReachingReturnType(f, b) \in Types
  <2>1. 1 \in DOMAIN program[f]
    BY <1>2, ProgramFacts
  <2>2. PICK a \in DOMAIN program[f] :
          getReachingReturnType(f, b) = IF program[f][a].ops = <<>> THEN "void"
                                        ELSE TypeOfOp(Last(program[f][a].ops))
    BY <2>1 DEF getReachingReturnType
  <2> DEFINE ops == program[f][a].ops
  <2>3. ASSUME ops # <<>> PROVE TypeOfOp(Last(ops)) \in Types
    <3>1. /\ ops \in Seq(Ops)
          /\ \A i \in DOMAIN ops : /\ ops[i].op = "call" => ops[i].to \in Funcs
                                   /\ ops[i].op = "def" => ops[i].type \in Types
                                   /\ ops[i].op \in {"call", "def"}
      BY <1>2, ProgramFacts
    <3> HIDE DEF ops
    <3>2. Len(ops) \in DOMAIN ops
      BY <2>3, <3>1
    <3>3. Last(ops) = ops[Len(ops)]
      BY DEF Last
    <3> QED
      BY <1>1, <3>1, <3>2, <3>3 DEF TypeOfOp, getCalledFunction
  <2> QED
    BY <1>2, <2>2, <2>3
<1>5. ReturnBlocks(f) # {} => Min(ReturnBlocks(f)) \in DOMAIN program[f]
  <2>1. /\ ReturnBlocks(f) \in SUBSET (1..Len(program[f])) /\ Len(program[f]) \in Nat
        /\ ReturnBlocks(f) \subseteq DOMAIN program[f]
    BY <1>2, ProgramFacts DEF ReturnBlocks
  <2> QED
    BY <2>1, LeastNumber
<1> QED
  BY <1>2, <1>3, <1>4, <1>5 DEF DiscoveredTypes

LEMMA ConstructPrototypeKeepsInv ==
  ASSUME CallsInv, ConstructPrototype
  PROVE  CallsInv'
<1>1. /\ Typed /\ Phases /\ ChainOrdered /\ VoidUntilRaised /\ pc = "prototypes" /\ cur \in Funcs
      /\ UNCHANGED <<program, pc, pass, block, inst, calls, rets, value, rax, chain, newType>>
      /\ cur' = cur + 1
  BY DEF ConstructPrototype, CallsInv
<1>2. /\ program \in Programs /\ Funcs' = Funcs /\ cur \in Nat
      /\ \A f \in Funcs : f \in Nat \ {0}
      /\ \A f : /\ ReturnBlocks(f)' = ReturnBlocks(f) /\ TailCallees(f)' = TailCallees(f)
                /\ (LaterCallees(f)' <=> LaterCallees(f))
  BY <1>1, KeptProgram, ProgramFacts DEF Typed
<1>3. raised \in [Funcs -> FunctionObjects]
  BY <1>1 DEF Typed
<1>4. /\ raised' \in [Funcs -> FunctionObjects] /\ raised'[cur].fn = cur
      /\ \A f \in Funcs \ {cur} : raised'[f] = raised[f]
      /\ raised[cur].fn = cur => raised'[cur] = raised[cur]
      /\ raised[cur] = NoFunction => raised'[cur].ret \in DiscoveredTypes(cur)
  <2>1. CASE raised[cur] # NoFunction
    <3>1. raised' = raised
      BY <2>1 DEF ConstructPrototype
    <3>2. raised[cur].fn = cur
      BY <1>1, <1>2, <2>1 DEF Phases
    <3> QED
      BY <1>3, <2>1, <3>1, <3>2
  <2>2. CASE raised[cur] = NoFunction
    <3>1. PICK T \in DiscoveredTypes(cur) : raised' = [raised EXCEPT ![cur] = NewFunction(cur, T)]
      BY <2>2 DEF ConstructPrototype
    <3>2. T \in Types
      BY <1>1, DiscoveredTyped
    <3>3. /\ NewFunction(cur, T) \in FunctionObjects /\ NewFunction(cur, T).fn = cur
          /\ NewFunction(cur, T).ret = T
      BY <1>1, <3>2, NewFunctionTyped
    <3>4. raised[cur].fn # cur
      BY <1>1, <1>2, <2>2 DEF NoFunction
    <3> QED
      BY <1>1, <1>3, <3>1, <3>3, <3>4
  <2> QED
    BY <2>1, <2>2
<1>5. Typed'
  BY <1>1, <1>2, <1>4 DEF Typed
<1>6. Phases'
  <2>1. \A f \in Funcs : /\ f < cur + 1 \/ pass = 2 => raised'[f].fn = f
                         /\ f >= cur + 1 /\ pass = 1 => raised'[f] = NoFunction
    <3> SUFFICES ASSUME NEW f \in Funcs
                 PROVE  /\ f < cur + 1 \/ pass = 2 => raised'[f].fn = f
                        /\ f >= cur + 1 /\ pass = 1 => raised'[f] = NoFunction
      OBVIOUS
    <3>1. CASE f = cur
      BY <1>2, <1>4, <3>1
    <3>2. CASE f # cur
      <4>1. raised'[f] = raised[f] /\ f \in Nat /\ cur \in Nat
        BY <1>2, <1>4, <3>2
      <4> QED
        BY <1>1, <3>2, <4>1 DEF Phases
    <3> QED
      BY <3>1, <3>2
  <2>2. pass \in {1, 2} /\ block = 1 /\ inst = 1 /\ calls = <<>> /\ \A f \in Funcs : rets[f] = <<>>
    BY <1>1 DEF Phases
  <2> QED
    BY <1>1, <1>2, <2>1, <2>2 DEF Phases
<1>7. ChainOrdered'
  <2>1. chain = <<>>
    BY <1>1 DEF ChainOrdered
  <2> QED
    BY <1>1, <2>1 DEF ChainOrdered
<1>8. VoidUntilRaised'
  <2> SUFFICES ASSUME NEW f \in Funcs, ReturnBlocks(f) = {}, LaterCallees(f)
               PROVE  raised'[f].ret = "void"
    BY <1>1, <1>2 DEF VoidUntilRaised
  <2>1. raised[f].ret = "void"
    BY <1>1 DEF VoidUntilRaised, Phases
  <2>2. CASE f # cur \/ raised[cur] # NoFunction
    <3>1. raised[cur] # NoFunction => raised[cur].fn = cur
      BY <1>1, <1>2 DEF Phases
    <3> QED
      BY <1>4, <2>1, <2>2, <3>1
  <2>3. CASE f = cur /\ raised[cur] = NoFunction
    <3>1. pass = 1
      <4>1. raised[cur].fn # cur
        BY <1>1, <1>2, <2>3 DEF NoFunction
      <4> QED
        BY <1>1, <4>1 DEF Phases
    <3>2. TailCallTypes(f) = {}
      <4>1. \A g \in TailCallees(f) : g \in Funcs /\ raised[g] = NoFunction
        <5>1. \A b \in DOMAIN program[f] : program[f][b].end = "tail" => program[f][b].to \in Funcs
          BY <1>2, ProgramFacts
        <5>2. \A g \in TailCallees(f) : g \in Funcs /\ f < g
          BY <5>1 DEF TailCallees, LaterCallees
        <5>3. \A g \in TailCallees(f) : g \in Funcs /\ g >= cur
          <6> SUFFICES ASSUME NEW g \in TailCallees(f) PROVE g \in Funcs /\ g >= cur
            OBVIOUS
          <6>1. g \in Funcs /\ f < g /\ g \in Nat /\ cur \in Nat
            BY <1>2, <5>2
          <6> QED
            BY <2>3, <6>1
        <5> QED
          BY <1>1, <3>1, <5>3 DEF Phases
      <4> QED
        BY <4>1 DEF TailCallTypes, TailCallees, getCalledFunction
    <3>3. DiscoveredTypes(f) = {"void"}
      BY <3>2 DEF DiscoveredTypes
    <3> QED
      BY <1>4, <2>3, <3>3
  <2> QED
    BY <2>2, <2>3
<1> QED
  BY <1>1, <1>5, <1>6, <1>7, <1>8 DEF CallsInv

LEMMA EndIterationKeepsInv ==
  ASSUME CallsInv, EndIteration
  PROVE  CallsInv'
<1>1. /\ Typed /\ Phases /\ ChainOrdered /\ VoidUntilRaised /\ pc = "prototypes" /\ cur \notin Funcs
      /\ UNCHANGED <<program, block, inst, raised, calls, rets, value, rax, chain, newType>>
      /\ cur' = 1 /\ pass' = pass + 1 /\ pc' = IF pass = 2 THEN "raise" ELSE "prototypes"
  BY DEF EndIteration, CallsInv
<1>2. /\ program \in Programs /\ Funcs' = Funcs /\ cur \in Nat \ {0} /\ pass \in {1, 2}
      /\ Funcs = 1..Len(program) /\ Len(program) \in Nat
      /\ \A f : /\ ReturnBlocks(f)' = ReturnBlocks(f)
                /\ (LaterCallees(f)' <=> LaterCallees(f))
      /\ block = 1 /\ inst = 1 /\ calls = <<>> /\ chain = <<>> /\ \A f \in Funcs : rets[f] = <<>>
  BY <1>1, KeptProgram, ProgramFacts DEF Typed, Phases, ChainOrdered
<1>3. Typed'
  BY <1>1, <1>2 DEF Typed
<1>4. \A f \in Funcs : raised[f].fn = f
  BY <1>1, <1>2 DEF Phases
<1>5. Phases' /\ ChainOrdered' /\ VoidUntilRaised'
  BY <1>1, <1>2, <1>4 DEF Phases, ChainOrdered, VoidUntilRaised
<1>6. /\ calls' = <<>> /\ cur' = 1 /\ block' = 1 /\ inst' = 1 /\ program' = program
      /\ \A f \in Funcs : rets'[f] = <<>>
  BY <1>1, <1>2
<1>7. Progress'
  <2>1. ASSUME 1 \in Funcs
        PROVE  /\ 1 \in 1..(Len(program[1]) + 1) /\ ExitsBefore(1, 1) = 0
               /\ 1 \in DOMAIN program[1] => 1 \in 1..(Len(program[1][1].ops) + 1)
    <3>1. Len(program[1]) \in Nat \ {0}
      BY <1>2, <2>1, ProgramFacts
    <3>2. 1 \in DOMAIN program[1] => Len(program[1][1].ops) \in Nat
      <4>1. 1 \in DOMAIN program[1] => program[1][1].ops \in Seq(Ops)
        BY <1>2, <2>1, ProgramFacts
      <4> QED
        BY <4>1
    <3> QED
      BY <3>1, <3>2 DEF ExitsBefore
  <2>2. \A f \in Funcs : ~(f < 1)
    BY <1>2
  <2>3. Len(<<>>) = 0
    OBVIOUS
  <2> QED
    BY <1>2, <1>6, <2>1, <2>2, <2>3 DEF Progress, Block, ExitsBefore
<1>8. CallsPlaced' /\ CallsCurrent'
  BY <1>6 DEF CallsPlaced, CallsCurrent
<1>9. TailsCalled'
  <2>1. \A f \in Funcs : \A b \in DOMAIN program[f] : ~(b < 1) /\ ~(f < 1) /\ ~(AfterOps(f, b) < 1)
    <3> SUFFICES ASSUME NEW f \in Funcs, NEW b \in DOMAIN program[f]
                 PROVE  ~(b < 1) /\ ~(f < 1) /\ ~(AfterOps(f, b) < 1)
      OBVIOUS
    <3>1. DOMAIN program[f] = 1..Len(program[f]) /\ Len(program[f]) \in Nat
          /\ program[f][b].ops \in Seq(Ops)
      BY <1>2, ProgramFacts
    <3>2. Len(program[f][b].ops) \in Nat
      BY <3>1
    <3> QED
      BY <1>2, <3>1, <3>2 DEF AfterOps
  <2>2. \A f, b : AfterOps(f, b)' = AfterOps(f, b)
    BY <1>1, KeptProgram
  <2> QED
    BY <1>2, <1>6, <2>1, <2>2 DEF TailsCalled, Passed, Before
<1>10. ReturnsPending' /\ TailsPending'
  BY <1>2, <1>6 DEF ReturnsPending, TailsPending
<1> QED
  BY <1>3, <1>5, <1>7, <1>8, <1>9, <1>10 DEF CallsInv

-----------------------------------------------------------------------------
(* Raising: the place of the walk, and the calls it makes. *)

\* The walk goes on to the next instruction, or to the next block.
Onward ==
  /\ program' = program /\ cur' = cur
  /\ \/ inst \in DOMAIN Block.ops /\ inst' = inst + 1 /\ block' = block
     \/ inst \notin DOMAIN Block.ops /\ block' = block + 1 /\ inst' = 1

PassedNext(f, b, i) == Before(f, b, i, cur', block', inst')

LEMMA NextPlace ==
  ASSUME Typed, Progress, Raising, Onward
  PROVE  /\ inst \in 1..AfterOps(cur, block) /\ block \in 1..Len(program[cur])
         /\ inst \notin DOMAIN Block.ops => inst = AfterOps(cur, block)
         /\ \A f \in Funcs : \A b \in DOMAIN program[f] : \A i \in 1..AfterOps(f, b) :
              PassedNext(f, b, i) <=> Passed(f, b, i) \/ (f = cur /\ b = block /\ i = inst)
         /\ ~Passed(cur, block, inst)
         /\ block' \in 1..(Len(program[cur]) + 1)
         /\ block' \in DOMAIN program[cur] => inst' \in 1..AfterOps(cur, block')
<1>1. /\ program \in Programs /\ cur \in Funcs /\ block \in DOMAIN program[cur]
      /\ Funcs \subseteq Nat /\ block \in Nat /\ inst \in 1..(Len(Block.ops) + 1) /\ cur \in Nat
  BY ProgramFacts DEF Typed, Raising, Progress
<1>2. \A f \in Funcs : /\ DOMAIN program[f] = 1..Len(program[f]) /\ Len(program[f]) \in Nat
                       /\ \A b \in DOMAIN program[f] : program[f][b].ops \in Seq(Ops)
  BY <1>1, ProgramFacts
<1>3. \A f \in Funcs : \A b \in DOMAIN program[f] :
        /\ Len(program[f][b].ops) \in Nat /\ AfterOps(f, b) \in Nat \ {0}
        /\ DOMAIN program[f][b].ops = 1..Len(program[f][b].ops)
  BY <1>2 DEF AfterOps
<1> DEFINE len == Len(Block.ops)
<1>4. len \in Nat /\ DOMAIN Block.ops = 1..len /\ AfterOps(cur, block) = len + 1
  BY <1>1, <1>3 DEF Block, AfterOps
<1>5. inst \in 1..(len + 1) /\ (inst \notin DOMAIN Block.ops => inst = len + 1)
  BY <1>1, <1>4
<1>6. block \in 1..Len(program[cur]) /\ Len(program[cur]) \in Nat
  BY <1>1, <1>2
<1> HIDE DEF len
<1>7. ~Passed(cur, block, inst)
  BY <1>1, <1>4, <1>5 DEF Passed, Before
<1>8. ASSUME NEW f \in Funcs, NEW b \in DOMAIN program[f], NEW i \in 1..AfterOps(f, b)
      PROVE  PassedNext(f, b, i) <=> Passed(f, b, i) \/ (f = cur /\ b = block /\ i = inst)
  <2>1. f \in Nat /\ b \in Nat /\ i \in Nat \ {0} /\ i <= AfterOps(f, b) /\ inst \in Nat
        /\ cur \in Nat /\ block \in Nat
    BY <1>1, <1>2, <1>3, <1>4, <1>5
  <2>2. CASE inst' = inst + 1 /\ block' = block
    BY <2>1, <2>2 DEF Passed, PassedNext, Before, Onward
  <2>3. CASE inst = len + 1 /\ block' = block + 1 /\ inst' = 1
    <3>1. f = cur /\ b = block => i <= inst
      BY <1>4, <2>1, <2>3
    <3> QED
      BY <2>1, <2>3, <3>1 DEF Passed, PassedNext, Before, Onward
  <2> QED
    BY <1>5, <2>2, <2>3 DEF Onward
<1>9. /\ block' \in 1..(Len(program[cur]) + 1)
      /\ block' \in DOMAIN program[cur] => inst' \in 1..AfterOps(cur, block')
  <2>1. CASE inst \in DOMAIN Block.ops /\ inst' = inst + 1 /\ block' = block
    BY <1>4, <1>5, <1>6, <2>1
  <2>2. CASE block' = block + 1 /\ inst' = 1
    <3>1. block' \in DOMAIN program[cur] => AfterOps(cur, block') \in Nat \ {0}
      BY <1>1, <1>3
    <3> QED
      BY <1>6, <2>2, <3>1
  <2> QED
    BY <2>1, <2>2 DEF Onward
<1> QED
  BY <1>4, <1>5, <1>6, <1>7, <1>8, <1>9

LEMMA NoCallMade ==
  ASSUME Typed, Progress, CallsPlaced, TailsCalled, Raising, Onward,
         calls' = calls, inst \in DOMAIN Block.ops \/ Block.end # "tail"
  PROVE  CallsPlaced' /\ TailsCalled'
<1>1. \A f \in Funcs : \A b \in DOMAIN program[f] : \A i \in 1..AfterOps(f, b) :
        PassedNext(f, b, i) <=> Passed(f, b, i) \/ (f = cur /\ b = block /\ i = inst)
  BY NextPlace
<1>2. program' = program /\ program \in Programs
  BY DEF Onward, Typed
<1>3. /\ Funcs' = Funcs /\ \A f, b : AfterOps(f, b)' = AfterOps(f, b)
      /\ \A g : CallSites(g)' = CallSites(g)
  BY <1>2, KeptProgram
<1>4. CallsPlaced'
  <2>1. \A c \in DOMAIN calls : PassedNext(calls[c].by, calls[c].block, calls[c].inst)
    <3> SUFFICES ASSUME NEW c \in DOMAIN calls
                 PROVE  PassedNext(calls[c].by, calls[c].block, calls[c].inst)
      OBVIOUS
    <3>1. /\ <<calls[c].by, calls[c].block, calls[c].inst>> \in CallSites(calls[c].target.fn)
          /\ Passed(calls[c].by, calls[c].block, calls[c].inst)
      BY DEF CallsPlaced
    <3>2. /\ calls[c].by \in Funcs /\ calls[c].block \in DOMAIN program[calls[c].by]
          /\ calls[c].inst \in 1..AfterOps(calls[c].by, calls[c].block)
      BY <1>2, <3>1, PlaceFacts
    <3> QED
      BY <1>1, <3>1, <3>2
  <2> QED
    BY <1>2, <1>3, <2>1 DEF CallsPlaced, Passed, PassedNext
<1>5. TailsCalled'
  <2>1. \A f \in Funcs : \A b \in DOMAIN program[f] :
          /\ AfterOps(f, b) \in 1..AfterOps(f, b)
          /\ AfterOps(f, b) \notin DOMAIN program[f][b].ops
    <3> SUFFICES ASSUME NEW f \in Funcs, NEW b \in DOMAIN program[f]
                 PROVE  /\ AfterOps(f, b) \in 1..AfterOps(f, b)
                        /\ AfterOps(f, b) \notin DOMAIN program[f][b].ops
      OBVIOUS
    <3>1. program[f][b].ops \in Seq(Ops)
      BY <1>2, ProgramFacts
    <3> QED
      BY <3>1 DEF AfterOps
  <2>2. \A f \in Funcs : \A b \in DOMAIN program[f] :
          program[f][b].end = "tail" /\ PassedNext(f, b, AfterOps(f, b)) =>
            Passed(f, b, AfterOps(f, b))
    <3> SUFFICES ASSUME NEW f \in Funcs, NEW b \in DOMAIN program[f],
                        program[f][b].end = "tail", PassedNext(f, b, AfterOps(f, b))
                 PROVE  Passed(f, b, AfterOps(f, b))
      OBVIOUS
    <3>1. ~(f = cur /\ b = block /\ AfterOps(f, b) = inst)
      BY <2>1 DEF Block
    <3> QED
      BY <1>1, <2>1, <3>1
  <2>3. \A f \in Funcs : \A b \in DOMAIN program[f] :
          program[f][b].end = "tail" /\ PassedNext(f, b, AfterOps(f, b)) =>
            \E c \in DOMAIN calls' :
              calls'[c].by = f /\ calls'[c].block = b /\ calls'[c].inst = AfterOps(f, b)
    BY <2>2 DEF TailsCalled
  <2> QED
    BY <1>2, <1>3, <2>3 DEF TailsCalled, Passed, PassedNext
<1> QED
  BY <1>4, <1>5

LEMMA OneCallMade ==
  ASSUME Typed, Progress, CallsPlaced, TailsCalled, Raising, Onward,
         \A f \in Funcs : raised[f].fn = f,
         NEW to \in Funcs, NEW tail \in BOOLEAN,
         tail <=> inst \notin DOMAIN Block.ops,
         Calls(cur, block, inst, to),
         calls' = Append(calls, NewCall(to, tail))
  PROVE  /\ calls' \in Seq(CallRecords) /\ CallsPlaced' /\ TailsCalled'
         /\ \A c \in DOMAIN calls' : \/ c \in DOMAIN calls /\ calls'[c] = calls[c]
                                     \/ calls'[c].target = raised[calls'[c].target.fn]
<1> DEFINE k == NewCall(to, tail)
           n == Len(calls) + 1
<1>1. /\ \A f \in Funcs : \A b \in DOMAIN program[f] : \A i \in 1..AfterOps(f, b) :
           PassedNext(f, b, i) <=> Passed(f, b, i) \/ (f = cur /\ b = block /\ i = inst)
      /\ inst \in 1..AfterOps(cur, block) /\ ~Passed(cur, block, inst)
      /\ inst \notin DOMAIN Block.ops => inst = AfterOps(cur, block)
  BY NextPlace
<1>2. /\ program' = program /\ program \in Programs /\ cur' = cur /\ cur \in Funcs
      /\ block \in DOMAIN program[cur] /\ calls \in Seq(CallRecords)
      /\ raised \in [Funcs -> FunctionObjects] /\ cur \in Nat /\ block \in Nat /\ inst \in Nat
  BY DEF Onward, Typed, Raising
<1>3. /\ Funcs' = Funcs /\ \A f, b : AfterOps(f, b)' = AfterOps(f, b)
      /\ \A g : CallSites(g)' = CallSites(g)
  BY <1>2, KeptProgram
<1>4. /\ k.by = cur /\ k.block = block /\ k.inst = inst /\ k.tail = tail
      /\ k.target = raised[to] /\ k.target.fn = to /\ k \in CallRecords
  BY <1>2 DEF NewCall, CallRecords
<1>5. <<k.by, k.block, k.inst>> \in CallSites(k.target.fn)
  BY <1>1, <1>2, <1>4, PlaceFacts
<1> HIDE DEF k
<1>6. /\ calls' \in Seq(CallRecords) /\ n \in Nat /\ DOMAIN calls' = DOMAIN calls \cup {n}
      /\ n \notin DOMAIN calls /\ calls'[n] = k
      /\ \A c \in DOMAIN calls : calls'[c] = calls[c]
  BY <1>2, <1>4 DEF k
<1> HIDE DEF n
<1>7. CallsPlaced'
  <2>1. \A c \in DOMAIN calls :
          /\ <<calls[c].by, calls[c].block, calls[c].inst>> \in CallSites(calls[c].target.fn)
          /\ Passed(calls[c].by, calls[c].block, calls[c].inst)
          /\ calls[c].target.fn \in Funcs
          /\ calls[c].tail <=> calls[c].inst \notin DOMAIN program[calls[c].by][calls[c].block].ops
    BY DEF CallsPlaced
  <2>2. \A c \in DOMAIN calls : PassedNext(calls[c].by, calls[c].block, calls[c].inst)
    <3> SUFFICES ASSUME NEW c \in DOMAIN calls
                 PROVE  PassedNext(calls[c].by, calls[c].block, calls[c].inst)
      OBVIOUS
    <3>1. /\ <<calls[c].by, calls[c].block, calls[c].inst>> \in CallSites(calls[c].target.fn)
          /\ Passed(calls[c].by, calls[c].block, calls[c].inst)
      BY <2>1
    <3>2. /\ calls[c].by \in Funcs /\ calls[c].block \in DOMAIN program[calls[c].by]
          /\ calls[c].inst \in 1..AfterOps(calls[c].by, calls[c].block)
      BY <1>2, <3>1, PlaceFacts
    <3> QED
      BY <1>1, <3>1, <3>2
  <2>3. PassedNext(k.by, k.block, k.inst)
    BY <1>1, <1>2, <1>4
  <2>4. k.tail <=> k.inst \notin DOMAIN program[k.by][k.block].ops
    BY <1>4 DEF Block
  <2>5. \A c \in DOMAIN calls' :
          /\ <<calls'[c].by, calls'[c].block, calls'[c].inst>> \in CallSites(calls'[c].target.fn)
          /\ PassedNext(calls'[c].by, calls'[c].block, calls'[c].inst)
          /\ calls'[c].target.fn \in Funcs
          /\ calls'[c].tail <=>
               calls'[c].inst \notin DOMAIN program[calls'[c].by][calls'[c].block].ops
    <3> SUFFICES ASSUME NEW c \in DOMAIN calls'
                 PROVE  /\ <<calls'[c].by, calls'[c].block, calls'[c].inst>>
                             \in CallSites(calls'[c].target.fn)
                        /\ PassedNext(calls'[c].by, calls'[c].block, calls'[c].inst)
                        /\ calls'[c].target.fn \in Funcs
                        /\ calls'[c].tail <=>
                             calls'[c].inst \notin DOMAIN program[calls'[c].by][calls'[c].block].ops
      OBVIOUS
    <3>1. CASE c = n
      BY <1>4, <1>5, <1>6, <2>3, <2>4, <3>1
    <3>2. CASE c \in DOMAIN calls
      BY <1>6, <2>1, <2>2, <3>2
    <3> QED
      BY <1>6, <3>1, <3>2
  <2>6. ASSUME NEW c \in DOMAIN calls', NEW d \in DOMAIN calls',
               calls'[c].by = calls'[d].by, calls'[c].block = calls'[d].block,
               calls'[c].inst = calls'[d].inst
        PROVE  c = d
    <3>1. \A e \in DOMAIN calls :
            ~(calls[e].by = cur /\ calls[e].block = block /\ calls[e].inst = inst)
      BY <1>1, <2>1
    <3>2. CASE c \in DOMAIN calls /\ d \in DOMAIN calls
      BY <1>6, <2>6, <3>2 DEF CallsPlaced
    <3> QED
      BY <1>4, <1>6, <2>6, <3>1, <3>2
  <2> QED
    BY <1>2, <1>3, <2>5, <2>6 DEF CallsPlaced, Passed, PassedNext
<1>8. TailsCalled'
  <2> SUFFICES ASSUME NEW f \in Funcs, NEW b \in DOMAIN program[f], program[f][b].end = "tail",
                      PassedNext(f, b, AfterOps(f, b))
               PROVE  \E c \in DOMAIN calls' :
                        /\ calls'[c].by = f /\ calls'[c].block = b
                        /\ calls'[c].inst = AfterOps(f, b)
    BY <1>2, <1>3 DEF TailsCalled, Passed, PassedNext
  <2>1. AfterOps(f, b) \in 1..AfterOps(f, b)
    <3>1. program[f][b].ops \in Seq(Ops)
      BY <1>2, ProgramFacts
    <3> QED
      BY <3>1 DEF AfterOps
  <2>2. CASE Passed(f, b, AfterOps(f, b))
    BY <1>6, <2>2 DEF TailsCalled
  <2>3. CASE f = cur /\ b = block /\ AfterOps(f, b) = inst
    BY <1>4, <1>6, <2>3
  <2>4. AfterOps(f, b)' = AfterOps(f, b)
    BY <1>3
  <2> QED
    BY <1>1, <2>1, <2>2, <2>3, <2>4
<1>9. \A c \in DOMAIN calls' : \/ c \in DOMAIN calls /\ calls'[c] = calls[c]
                               \/ calls'[c].target = raised[calls'[c].target.fn]
  BY <1>4, <1>6
<1> QED
  BY <1>6, <1>7, <1>8, <1>9

\* While no type is being changed.
LEMMA NoChain ==
  ASSUME chain = <<>>
  PROVE  \A f : Final(f) = raised[f] /\ Pending(f) = raised[f].ret
<1>1. Replaced = {} /\ ToSet(chain) = {}
  BY DEF Replaced, ToSet
<1> QED
  BY <1>1 DEF Final, Pending

\* An instruction within a function, or the fork.
LEMMA WalkKeepsInv ==
  ASSUME CallsInv, pc = "raise", Raising, Onward,
         UNCHANGED <<pc, pass, raised, rets, chain, newType>>,
         Typed', CallsPlaced', TailsCalled',
         Len(rets[cur]) = ExitsBefore(cur, block'),
         \A c \in DOMAIN calls' : \/ c \in DOMAIN calls /\ calls'[c] = calls[c]
                                  \/ calls'[c].target = raised[calls'[c].target.fn]
  PROVE  CallsInv'
<1>1. /\ Typed /\ Phases /\ ChainOrdered /\ VoidUntilRaised /\ Progress
      /\ CallsCurrent /\ ReturnsPending /\ TailsPending /\ cur \in Funcs
  BY DEF CallsInv, Raising
<1>2. program' = program /\ cur' = cur /\ chain = <<>> /\ chain' = <<>>
  BY <1>1 DEF Onward, ChainOrdered
<1>3. /\ Funcs' = Funcs
      /\ \A f, b : AfterOps(f, b)' = AfterOps(f, b) /\ ExitsBefore(f, b)' = ExitsBefore(f, b)
      /\ \A g : CalledOnce(g)' <=> CalledOnce(g)
      /\ \A f : /\ ReturnBlocks(f)' = ReturnBlocks(f) /\ TailCallees(f)' = TailCallees(f)
                /\ (SingleExit(f)' <=> SingleExit(f)) /\ (LaterCallees(f)' <=> LaterCallees(f))
  BY <1>2, KeptProgram
<1>4. \A f : Final(f)' = raised[f] /\ Pending(f)' = raised[f].ret
  <2>1. Replaced' = {} /\ ToSet(chain)' = {}
    BY <1>2 DEF Replaced, ToSet
  <2> QED
    BY <2>1 DEF Final, Pending
<1>5. \A f : Final(f) = raised[f] /\ Pending(f) = raised[f].ret
  BY <1>2, NoChain
<1>6. Phases' /\ ChainOrdered' /\ VoidUntilRaised'
  BY <1>1, <1>2, <1>3 DEF Phases, ChainOrdered, VoidUntilRaised
<1>7. Progress'
  <2>1. /\ block' \in 1..(Len(program[cur]) + 1)
        /\ block' \in DOMAIN program[cur] => inst' \in 1..AfterOps(cur, block')
    BY <1>1, NextPlace
  <2> QED
    BY <1>1, <1>2, <1>3, <2>1 DEF Progress, Block, AfterOps, ExitsBefore
<1>8. CallsCurrent'
  BY <1>3, <1>4, <1>5, <1>1 DEF CallsCurrent
<1>9. ReturnsPending' /\ TailsPending'
  BY <1>1, <1>2, <1>3, <1>4, <1>5 DEF ReturnsPending, TailsPending
<1> QED
  BY <1>6, <1>7, <1>8, <1>9 DEF CallsInv

LEMMA RaiseDefKeepsInv == ASSUME CallsInv, RaiseDef PROVE CallsInv'
<1>1. /\ Typed /\ Progress /\ CallsPlaced /\ TailsCalled /\ Raising /\ inst \in DOMAIN Block.ops
      /\ pc = "raise"
  BY DEF CallsInv, RaiseDef, Inside, Raising
<1>2. /\ Onward /\ calls' = calls /\ block' = block
      /\ UNCHANGED <<pc, pass, raised, rets, chain, newType>>
  BY <1>1 DEF RaiseDef, Onward
<1>3. CallsPlaced' /\ TailsCalled'
  BY <1>1, <1>2, NoCallMade
<1>4. Typed'
  BY <1>1 DEF RaiseDef, Typed, SomeDef, Funcs
<1>5. Len(rets[cur]) = ExitsBefore(cur, block')
  BY <1>1, <1>2 DEF Progress, Raising
<1> QED
  BY <1>1, <1>2, <1>3, <1>4, <1>5, WalkKeepsInv

LEMMA RaiseCallKeepsInv == ASSUME CallsInv, RaiseCall PROVE CallsInv'
<1>1. /\ Typed /\ Phases /\ Progress /\ CallsPlaced /\ TailsCalled /\ Raising
      /\ inst \in DOMAIN Block.ops /\ pc = "raise" /\ Op.op = "call"
  BY DEF CallsInv, RaiseCall, Inside, Raising
<1>2. /\ Onward /\ calls' = Append(calls, NewCall(Op.to, FALSE)) /\ block' = block
      /\ UNCHANGED <<pc, pass, raised, rets, chain, newType>>
  BY <1>1 DEF RaiseCall, Onward
<1>3. /\ Op.to \in Funcs /\ Calls(cur, block, inst, Op.to)
      /\ \A f \in Funcs : raised[f].fn = f
  BY <1>1, ProgramFacts DEF Typed, Phases, Raising, Block, Op, Calls
<1>4. FALSE \in BOOLEAN /\ (FALSE <=> inst \notin DOMAIN Block.ops)
  BY <1>1
<1>5. /\ calls' \in Seq(CallRecords) /\ CallsPlaced' /\ TailsCalled'
      /\ \A c \in DOMAIN calls' : \/ c \in DOMAIN calls /\ calls'[c] = calls[c]
                                  \/ calls'[c].target = raised[calls'[c].target.fn]
  BY <1>1, <1>2, <1>3, <1>4, OneCallMade
<1>6. Typed'
  <2>1. value' \in Int
    <3>1. Len(calls') \in Int /\ value \in Int
      BY <1>1, <1>5 DEF Typed
    <3>2. value' = IF raised[Op.to].ret = "void" THEN value ELSE Len(calls')
      BY DEF RaiseCall
    <3> QED
      BY <3>1, <3>2
  <2>2. UNCHANGED <<program, cur, block, pass, raised, rets, rax, chain, newType>>
    BY DEF RaiseCall
  <2>3. inst' \in Nat \ {0}
    BY <1>1 DEF RaiseCall, Typed
  <2>4. Funcs' = Funcs
    BY <2>2, KeptProgram
  <2> QED
    BY <1>1, <1>5, <2>1, <2>2, <2>3, <2>4 DEF Typed
<1>7. Len(rets[cur]) = ExitsBefore(cur, block')
  BY <1>1, <1>2 DEF Progress, Raising
<1> QED
  BY <1>1, <1>2, <1>5, <1>6, <1>7, WalkKeepsInv

LEMMA RaiseForkKeepsInv == ASSUME CallsInv, RaiseFork PROVE CallsInv'
<1>1. /\ Typed /\ Progress /\ CallsPlaced /\ TailsCalled /\ Raising /\ inst \notin DOMAIN Block.ops
      /\ pc = "raise" /\ Block.end = "fork"
  BY DEF CallsInv, RaiseFork, AtEnd, Raising
<1>2. /\ Onward /\ calls' = calls /\ block' = block + 1 /\ value' = value /\ rax' = value
      /\ UNCHANGED <<pc, pass, raised, rets, chain, newType>>
  BY <1>1 DEF RaiseFork, NextBlock, Onward
<1>3. CallsPlaced' /\ TailsCalled'
  BY <1>1, <1>2, NoCallMade
<1>4. Typed'
  BY <1>1, <1>2 DEF RaiseFork, NextBlock, Typed, Funcs
<1>5. Len(rets[cur]) = ExitsBefore(cur, block')
  <2>1. block = 1 /\ Len(program[cur]) > 1 /\ Len(program[cur]) \in Nat
    BY <1>1, ProgramFacts DEF Typed, Raising, Block
  <2>2. Len(rets[cur]) = ExitsBefore(cur, block)
    BY <1>1 DEF Progress, Raising
  <2>3. ExitsBefore(cur, block) = 0
    BY <2>1 DEF ExitsBefore
  <2>4. block' = 2
    BY <1>2, <2>1
  <2>5. ExitsBefore(cur, 2) = 0
    <3> DEFINE n == Len(program[cur])
    <3>1. n # 1
      <4>1. n \in Nat /\ n > 1
        BY <2>1
      <4> HIDE DEF n
      <4> QED
        BY <4>1
    <3>2. ExitsBefore(cur, 2) = 2 - 2
      BY <3>1 DEF ExitsBefore
    <3> QED
      BY <3>2
  <2> QED
    BY <2>2, <2>3, <2>4, <2>5
<1> QED
  BY <1>1, <1>2, <1>3, <1>4, <1>5, WalkKeepsInv

-----------------------------------------------------------------------------
(* Raising: the exits of a function. *)

\* A return, or a tail call, that makes the return r.
LEMMA ExitKeepsInv ==
  ASSUME CallsInv, pc = "raise", Raising, Onward, inst \notin DOMAIN Block.ops,
         Block.end # "fork", UNCHANGED <<pass, raised>>,
         Typed', CallsPlaced', TailsCalled',
         NEW r \in Returns, rets' = [rets EXCEPT ![cur] = Append(rets[cur], r)],
         Block.end = "tail" => r.type = raised[Block.to].ret,
         \/ /\ UNCHANGED <<pc, chain, newType>>
            /\ r.type = raised[cur].ret \/ (r.type = "void" /\ Block.end = "tail")
         \/ pc' = "change" /\ chain' = <<cur>> /\ newType' = r.type,
         \A c \in DOMAIN calls' : \/ c \in DOMAIN calls /\ calls'[c] = calls[c]
                                  \/ calls'[c].target = raised[calls'[c].target.fn]
  PROVE  CallsInv'
<1>1. /\ Typed /\ Phases /\ ChainOrdered /\ VoidUntilRaised /\ Progress
      /\ CallsCurrent /\ ReturnsPending /\ TailsPending
  BY DEF CallsInv
<1>2. /\ program' = program /\ cur' = cur /\ chain = <<>> /\ program \in Programs
      /\ cur \in Funcs /\ Funcs \subseteq Nat /\ raised' = raised
      /\ block \in DOMAIN program[cur] /\ block' = block + 1
  BY <1>1, ProgramFacts DEF Onward, ChainOrdered, Typed, Raising
<1>3. /\ Funcs' = Funcs
      /\ \A f, b : AfterOps(f, b)' = AfterOps(f, b) /\ ExitsBefore(f, b)' = ExitsBefore(f, b)
      /\ \A g : CalledOnce(g)' <=> CalledOnce(g)
      /\ \A f : /\ ReturnBlocks(f)' = ReturnBlocks(f) /\ TailCallees(f)' = TailCallees(f)
                /\ (SingleExit(f)' <=> SingleExit(f)) /\ (LaterCallees(f)' <=> LaterCallees(f))
  BY <1>2, KeptProgram
<1>4. \A f : Final(f) = raised[f] /\ Pending(f) = raised[f].ret
  BY <1>2, NoChain
<1>5. /\ \A f : Final(f)' = raised[f]
      /\ \A f : Pending(f)' = PendingNext(f)
      /\ \A f : f # cur => PendingNext(f) = raised[f].ret
      /\ PendingNext(cur) = r.type \/ (PendingNext(cur) = raised[cur].ret /\ pc' = "raise"
                                       /\ r.type = "void" /\ Block.end = "tail")
      /\ pc' = "raise" => PendingNext(cur) = raised[cur].ret
      /\ pc' = "change" => Changing' = cur
      /\ pc' \in {"raise", "change"}
  <2>1. \A f : Pending(f)' = PendingNext(f)
    BY DEF Pending, PendingNext
  <2>2. CASE /\ UNCHANGED <<pc, chain, newType>>
             /\ r.type = raised[cur].ret \/ (r.type = "void" /\ Block.end = "tail")
    <3>1. Replaced' = {} /\ ToSet(chain') = {}
      BY <1>2, <2>2 DEF Replaced, ToSet
    <3>2. \A f : Final(f)' = raised[f] /\ PendingNext(f) = raised[f].ret
      BY <1>2, <3>1 DEF Final, PendingNext
    <3> QED
      BY <2>1, <2>2, <3>2
  <2>3. CASE pc' = "change" /\ chain' = <<cur>> /\ newType' = r.type
    <3>1. Replaced' = {} /\ ToSet(chain') = {cur} /\ Changing' = cur
      BY <1>2, <2>3 DEF Replaced, ToSet, Changing, Last
    <3>2. \A f : /\ Final(f)' = raised[f]
                 /\ PendingNext(f) = IF f = cur THEN r.type ELSE raised[f].ret
      BY <1>2, <2>3, <3>1 DEF Final, PendingNext
    <3> QED
      BY <2>1, <2>3, <3>1, <3>2
  <2> QED
    BY <2>2, <2>3
<1>6. /\ rets'[cur] = Append(rets[cur], r) /\ rets[cur] \in Seq(Returns)
      /\ rets'[cur] # <<>> /\ Len(rets'[cur]) = Len(rets[cur]) + 1 /\ Len(rets[cur]) \in Nat
      /\ \A f \in Funcs : f # cur => rets'[f] = rets[f]
  <2>1. rets \in [Funcs -> Seq(Returns)] /\ rets[cur] \in Seq(Returns)
    BY <1>1, <1>2 DEF Typed
  <2>2. rets'[cur] = Append(rets[cur], r) /\ \A f \in Funcs : f # cur => rets'[f] = rets[f]
    BY <1>2, <2>1
  <2>3. /\ Append(rets[cur], r) # <<>> /\ Len(Append(rets[cur], r)) = Len(rets[cur]) + 1
        /\ Len(rets[cur]) \in Nat
    BY <2>1
  <2> QED
    BY <2>1, <2>2, <2>3
<1>7. Phases' /\ VoidUntilRaised'
  <2>1. Phases'
    BY <1>1, <1>2, <1>3, <1>5 DEF Phases
  <2>2. VoidUntilRaised'
    BY <1>1, <1>2, <1>3, <1>6 DEF VoidUntilRaised
  <2> QED
    BY <2>1, <2>2
<1>8. ChainOrdered'
  <2>1. CASE UNCHANGED <<pc, chain>>
    BY <1>1, <1>2, <2>1 DEF ChainOrdered
  <2>2. CASE pc' = "change" /\ chain' = <<cur>>
    <3>1. /\ DOMAIN chain' = {1} /\ chain'[1] = cur /\ chain' # <<>> /\ cur \in Nat
      BY <1>2, <2>2
    <3> QED
      BY <1>2, <1>3, <1>6, <2>2, <3>1 DEF ChainOrdered
  <2> QED
    BY <2>1, <2>2
<1>9. Progress'
  <2>1. /\ block' \in 1..(Len(program[cur]) + 1)
        /\ block' \in DOMAIN program[cur] => inst' \in 1..AfterOps(cur, block')
    BY <1>1, NextPlace
  <2>2. Len(rets'[cur]) = ExitsBefore(cur, block')
    <3> DEFINE n == Len(program[cur])
    <3>1. n \in Nat \ {0} /\ block \in 1..n /\ ~(block = 1 /\ n > 1)
      BY <1>2, ProgramFacts DEF Block
    <3>2. Len(rets[cur]) = ExitsBefore(cur, block)
      BY <1>1, <1>2 DEF Progress
    <3>3. \A b \in Nat : ExitsBefore(cur, b) = IF n = 1 THEN b - 1 ELSE IF b = 1 THEN 0 ELSE b - 2
      BY DEF ExitsBefore
    <3> HIDE DEF n
    <3>4. block \in Nat /\ block + 1 \in Nat
      BY <3>1
    <3>5. ExitsBefore(cur, block + 1) = ExitsBefore(cur, block) + 1
      BY <3>1, <3>3, <3>4
    <3> QED
      BY <1>2, <1>6, <3>2, <3>5
  <2> QED
    <3>1. \A f \in Funcs : /\ f < cur => Len(rets'[f]) = 1
                           /\ f > cur => rets'[f] = <<>>
      <4> SUFFICES ASSUME NEW f \in Funcs
                   PROVE  (f < cur => Len(rets'[f]) = 1) /\ (f > cur => rets'[f] = <<>>)
        OBVIOUS
      <4>1. f < cur \/ f > cur => f # cur
        BY <1>2
      <4> QED
        BY <1>1, <1>6, <4>1 DEF Progress
    <3>2. Block' = program[cur][block']
      BY <1>2 DEF Block
    <3>3. /\ block' \in DOMAIN program[cur] => inst' \in 1..(Len(Block'.ops) + 1)
          /\ ExitsBefore(cur', block') = ExitsBefore(cur, block')
      BY <1>2, <2>1, <3>2 DEF AfterOps
    <3>4. \A f, b : ExitsBefore(f, b)' = ExitsBefore(f, b)
      BY <1>3
    <3> QED
      BY <1>2, <1>3, <2>1, <2>2, <3>1, <3>3 DEF Progress, ExitsBefore
<1>10. CallsCurrent'
  BY <1>1, <1>3, <1>4, <1>5 DEF CallsCurrent
\* The only exit of the function.
<1>11. ASSUME SingleExit(cur)
       PROVE  rets'[cur] = <<r>>
  <2> DEFINE n == Len(program[cur])
  <2>1. n \in {1, 2} /\ block \in 1..n /\ ~(block = 1 /\ n > 1)
    <3>1. n \in Nat \ {0} /\ block \in 1..n /\ ~(block = 1 /\ n > 1) /\ n <= 2
      BY <1>2, <1>11, ProgramFacts DEF Block, SingleExit
    <3> HIDE DEF n
    <3> QED
      BY <3>1
  <2>2. ExitsBefore(cur, block) = IF n = 1 THEN block - 1 ELSE IF block = 1 THEN 0 ELSE block - 2
    BY DEF ExitsBefore
  <2> HIDE DEF n
  <2>3. Len(rets[cur]) = 0
    <3>1. ExitsBefore(cur, block) = 0
      BY <2>1, <2>2
    <3> QED
      BY <1>1, <1>2, <3>1 DEF Progress
  <2>4. rets[cur] = <<>>
    BY <1>6, <2>3
  <2> QED
    BY <1>6, <2>4
<1>12. ASSUME SingleExit(cur), LaterCallees(cur)
       PROVE  PendingNext(cur) = r.type
  <2>1. CASE PendingNext(cur) = raised[cur].ret /\ r.type = "void" /\ Block.end = "tail"
    <3>1. Block.to \in TailCallees(cur)
      BY <1>2, <2>1 DEF TailCallees, Block
    <3>2. ReturnBlocks(cur) = {}
      BY <1>2, <1>12, <3>1, SingleExitFacts
    <3>3. rets[cur] = <<>>
      <4>1. Len(rets'[cur]) = 1
        BY <1>11, <1>12
      <4>2. Len(rets[cur]) = 0
        BY <1>6, <4>1
      <4> QED
        BY <1>6, <4>2
    <3>4. raised[cur].ret = "void"
      BY <1>1, <1>2, <1>12, <3>2, <3>3 DEF VoidUntilRaised
    <3> QED
      BY <2>1, <3>4
  <2> QED
    BY <1>5, <2>1
<1>13. ReturnsPending'
  <2> SUFFICES ASSUME NEW f \in Funcs, SingleExit(f) => LaterCallees(f), f < cur \/ SingleExit(f),
                      NEW i \in DOMAIN rets'[f]
               PROVE  rets'[f][i].type = PendingNext(f)
    BY <1>2, <1>3, <1>5 DEF ReturnsPending
  <2>1. CASE f # cur
    BY <1>1, <1>4, <1>5, <1>6, <2>1 DEF ReturnsPending
  <2>2. CASE f = cur
    <3>1. SingleExit(cur) /\ LaterCallees(cur)
      BY <1>2, <2>2
    <3>2. rets'[cur] = <<r>> /\ PendingNext(cur) = r.type
      BY <1>11, <1>12, <3>1
    <3>3. i = 1 /\ <<r>>[1] = r
      BY <2>2, <3>2
    <3> QED
      BY <2>2, <3>2, <3>3
  <2> QED
    BY <2>1, <2>2
<1>14. TailsPending'
  <2> SUFFICES ASSUME NEW f \in Funcs, NEW g \in Funcs, g \in TailCallees(f), SingleExit(f), f < g,
                      CalledOnce(g), rets'[f] # <<>>
               PROVE  PendingNext(f) = PendingNext(g) \/ (pc' = "change" /\ g = Changing')
    BY <1>3, <1>5 DEF TailsPending
  <2>1. CASE f # cur
    <3>1. raised[f].ret = raised[g].ret
      BY <1>1, <1>4, <1>6, <2>1 DEF TailsPending
    <3>2. CASE g = cur
      BY <1>5, <2>1, <3>1, <3>2
    <3>3. CASE g # cur
      BY <1>5, <2>1, <3>1, <3>3
    <3> QED
      BY <3>2, <3>3
  <2>2. CASE f = cur
    <3>1. /\ \A b \in DOMAIN program[cur] : program[cur][b].end # "fork" => b = Len(program[cur])
          /\ program[cur][Len(program[cur])].end = "tail"
          /\ program[cur][Len(program[cur])].to = g /\ TailCallees(cur) = {g}
      BY <1>2, <2>2, SingleExitFacts
    <3>2. Block.end = "tail" /\ Block.to = g
      BY <1>2, <3>1 DEF Block
    <3>3. LaterCallees(cur)
      BY <2>2, <3>1 DEF LaterCallees
    <3>4. PendingNext(cur) = r.type /\ r.type = raised[g].ret
      BY <1>12, <2>2, <3>2, <3>3
    <3>5. g # cur
      BY <1>2, <2>2
    <3> QED
      BY <1>5, <2>2, <3>4, <3>5
  <2> QED
    BY <2>1, <2>2
<1> QED
  BY <1>7, <1>8, <1>9, <1>10, <1>13, <1>14 DEF CallsInv

LEMMA RaiseReturnKeepsInv == ASSUME CallsInv, RaiseReturn PROVE CallsInv'
<1>1. /\ Typed /\ Phases /\ Progress /\ CallsPlaced /\ TailsCalled /\ Raising
      /\ inst \notin DOMAIN Block.ops /\ pc = "raise" /\ Block.end = "ret" /\ cur \in Funcs
  BY DEF CallsInv, RaiseReturn, AtEnd, Raising
<1> DEFINE T == IF value = NoValue THEN "void" ELSE raised[cur].ret
           r == [type |-> T, calls |-> IF value > 0 /\ T # "void" THEN {value} ELSE {}]
<1>2. /\ Onward /\ calls' = calls /\ value' = rax' /\ rax' = rax
      /\ UNCHANGED <<pass, raised>> /\ rets' = [rets EXCEPT ![cur] = Append(rets[cur], r)]
      /\ \/ UNCHANGED <<pc, chain, newType>> /\ T = raised[cur].ret
         \/ pc' = "change" /\ chain' = <<cur>> /\ newType' = T
  BY <1>1 DEF RaiseReturn, NextBlock, AddReturn, ChangeReturnType, Onward
<1>3. T \in Types /\ r \in Returns /\ r.type = T
  <2>1. T \in Types
    BY <1>1 DEF Typed, FunctionObjects, Types
  <2>2. (IF value > 0 /\ T # "void" THEN {value} ELSE {}) \in SUBSET Int
    BY <1>1 DEF Typed
  <2> QED
    BY <2>1, <2>2 DEF Returns
<1> HIDE DEF T, r
<1>4. CallsPlaced' /\ TailsCalled'
  BY <1>1, <1>2, NoCallMade
<1>5. Typed'
  <2>1. UNCHANGED <<program, cur, pass, raised, calls>> /\ Funcs' = Funcs
    BY <1>2, KeptProgram DEF Onward
  <2>2. rets' \in [Funcs -> Seq(Returns)]
    BY <1>1, <1>2, <1>3 DEF Typed
  <2>3. block' \in Nat \ {0} /\ inst' \in Nat \ {0} /\ value' \in Int /\ rax' \in Int
    BY <1>1, <1>2 DEF Typed, Onward
  <2>4. chain' \in Seq(Funcs) /\ newType' \in Types
    <3>1. <<cur>> \in Seq(Funcs) /\ chain \in Seq(Funcs) /\ newType \in Types
      BY <1>1 DEF Typed
    <3> QED
      BY <1>2, <1>3, <3>1
  <2> QED
    BY <1>1, <2>1, <2>2, <2>3, <2>4 DEF Typed
<1> QED
  BY <1>1, <1>2, <1>3, <1>4, <1>5, ExitKeepsInv

LEMMA RaiseTailCallKeepsInv == ASSUME CallsInv, RaiseTailCall PROVE CallsInv'
<1>1. /\ Typed /\ Phases /\ Progress /\ CallsPlaced /\ TailsCalled /\ Raising
      /\ inst \notin DOMAIN Block.ops /\ pc = "raise" /\ Block.end = "tail" /\ cur \in Funcs
  BY DEF CallsInv, RaiseTailCall, AtEnd, Raising
<1> DEFINE T == raised[Block.to].ret
           r == [type |-> T, calls |-> IF Len(calls') > 0 /\ T # "void" THEN {Len(calls')} ELSE {}]
<1>2. /\ Onward /\ calls' = Append(calls, NewCall(Block.to, TRUE)) /\ value' = rax' /\ rax' = rax
      /\ UNCHANGED <<pass, raised>> /\ rets' = [rets EXCEPT ![cur] = Append(rets[cur], r)]
      /\ \/ UNCHANGED <<pc, chain, newType>> /\ (T = raised[cur].ret \/ T = "void")
         \/ pc' = "change" /\ chain' = <<cur>> /\ newType' = T
  BY <1>1 DEF RaiseTailCall, NextBlock, AddReturn, ChangeReturnType, Onward
<1>3. /\ Block.to \in Funcs /\ Calls(cur, block, inst, Block.to)
      /\ \A f \in Funcs : raised[f].fn = f
  BY <1>1, ProgramFacts DEF Typed, Phases, Raising, Block, Calls
<1>4. TRUE \in BOOLEAN /\ (TRUE <=> inst \notin DOMAIN Block.ops)
  BY <1>1
<1>5. /\ calls' \in Seq(CallRecords) /\ CallsPlaced' /\ TailsCalled'
      /\ \A c \in DOMAIN calls' : \/ c \in DOMAIN calls /\ calls'[c] = calls[c]
                                  \/ calls'[c].target = raised[calls'[c].target.fn]
  BY <1>1, <1>2, <1>3, <1>4, OneCallMade
<1>6. T \in Types /\ r \in Returns /\ r.type = T
  <2>1. T \in Types
    BY <1>1, <1>3 DEF Typed, FunctionObjects
  <2>2. Len(calls') \in Int
    BY <1>5
  <2>3. (IF Len(calls') > 0 /\ T # "void" THEN {Len(calls')} ELSE {}) \in SUBSET Int
    BY <2>2
  <2> QED
    BY <2>1, <2>3 DEF Returns
<1>7. Block.end = "tail" => r.type = raised[Block.to].ret
  OBVIOUS
<1> HIDE DEF T, r
<1>8. Typed'
  <2>1. UNCHANGED <<program, cur, pass, raised>> /\ Funcs' = Funcs
    BY <1>2, KeptProgram DEF Onward
  <2>2. rets' \in [Funcs -> Seq(Returns)]
    BY <1>1, <1>2, <1>6 DEF Typed
  <2>3. block' \in Nat \ {0} /\ inst' \in Nat \ {0} /\ value' \in Int /\ rax' \in Int
    BY <1>1, <1>2 DEF Typed, Onward
  <2>4. chain' \in Seq(Funcs) /\ newType' \in Types
    <3>1. <<cur>> \in Seq(Funcs) /\ chain \in Seq(Funcs) /\ newType \in Types
      BY <1>1 DEF Typed
    <3> QED
      BY <1>2, <1>6, <3>1
  <2> QED
    BY <1>1, <1>5, <2>1, <2>2, <2>3, <2>4 DEF Typed
<1> QED
  BY <1>1, <1>2, <1>5, <1>6, <1>7, <1>8, ExitKeepsInv

-----------------------------------------------------------------------------
(* Raising: the end of a function. *)

\* The calls stay where they are, and the walk passes no other place.
LEMMA SamePlaces ==
  ASSUME Typed, CallsPlaced, TailsCalled, program' = program, DOMAIN calls' = DOMAIN calls,
         \A c \in DOMAIN calls :
           /\ calls'[c].by = calls[c].by /\ calls'[c].block = calls[c].block
           /\ calls'[c].inst = calls[c].inst /\ calls'[c].tail = calls[c].tail
           /\ calls'[c].target.fn = calls[c].target.fn,
         \A f \in Funcs : \A b \in DOMAIN program[f] : \A i \in 1..AfterOps(f, b) :
           PassedNext(f, b, i) <=> Passed(f, b, i)
  PROVE  CallsPlaced' /\ TailsCalled'
<1>1. /\ Funcs' = Funcs /\ \A f, b : AfterOps(f, b)' = AfterOps(f, b)
      /\ \A g : CallSites(g)' = CallSites(g)
  BY KeptProgram
<1>2. program \in Programs
  BY DEF Typed
<1>3. CallsPlaced'
  <2>1. \A c \in DOMAIN calls : PassedNext(calls[c].by, calls[c].block, calls[c].inst)
    <3> SUFFICES ASSUME NEW c \in DOMAIN calls
                 PROVE  PassedNext(calls[c].by, calls[c].block, calls[c].inst)
      OBVIOUS
    <3>1. /\ <<calls[c].by, calls[c].block, calls[c].inst>> \in CallSites(calls[c].target.fn)
          /\ Passed(calls[c].by, calls[c].block, calls[c].inst)
      BY DEF CallsPlaced
    <3>2. /\ calls[c].by \in Funcs /\ calls[c].block \in DOMAIN program[calls[c].by]
          /\ calls[c].inst \in 1..AfterOps(calls[c].by, calls[c].block)
      BY <1>2, <3>1, PlaceFacts
    <3> QED
      BY <3>1, <3>2
  <2>2. \A c \in DOMAIN calls' :
          /\ <<calls'[c].by, calls'[c].block, calls'[c].inst>> \in CallSites(calls'[c].target.fn)
          /\ PassedNext(calls'[c].by, calls'[c].block, calls'[c].inst)
          /\ calls'[c].target.fn \in Funcs
          /\ calls'[c].tail <=>
               calls'[c].inst \notin DOMAIN program[calls'[c].by][calls'[c].block].ops
    BY <2>1 DEF CallsPlaced
  <2>3. \A c, d \in DOMAIN calls' :
          /\ calls'[c].by = calls'[d].by /\ calls'[c].block = calls'[d].block
          /\ calls'[c].inst = calls'[d].inst
          => c = d
    BY DEF CallsPlaced
  <2> QED
    BY <1>1, <2>2, <2>3 DEF CallsPlaced, Passed, PassedNext
<1>4. TailsCalled'
  <2> SUFFICES ASSUME NEW f \in Funcs, NEW b \in DOMAIN program[f], program[f][b].end = "tail",
                      PassedNext(f, b, AfterOps(f, b))
               PROVE  \E c \in DOMAIN calls' :
                        /\ calls'[c].by = f /\ calls'[c].block = b
                        /\ calls'[c].inst = AfterOps(f, b)
    BY <1>1 DEF TailsCalled, Passed, PassedNext
  <2>1. AfterOps(f, b) \in 1..AfterOps(f, b)
    <3>1. program[f][b].ops \in Seq(Ops)
      BY <1>2, ProgramFacts
    <3> QED
      BY <3>1 DEF AfterOps
  <2>2. Passed(f, b, AfterOps(f, b))
    BY <2>1
  <2> QED
    BY <2>2 DEF TailsCalled
<1> QED
  BY <1>3, <1>4

LEMMA EndFunctionKeepsInv == ASSUME CallsInv, EndFunction PROVE CallsInv'
<1> SUFFICES ASSUME pc' # "aborted" PROVE CallsInv'
  BY DEF CallsInv
<1> DEFINE n == Len(program[cur])
           T == raised[cur].ret
           all == rets[cur]
           one == [type |-> T, calls |-> IF T = "void" THEN {} ELSE
                                         UNION {all[i].calls : i \in DOMAIN all}]
<1>1. /\ Typed /\ Phases /\ ChainOrdered /\ VoidUntilRaised /\ Progress /\ CallsPlaced
      /\ TailsCalled /\ CallsCurrent /\ ReturnsPending /\ TailsPending
      /\ pc = "raise" /\ cur \in Funcs /\ block \notin DOMAIN program[cur]
  BY DEF CallsInv, EndFunction
<1>2. /\ UNCHANGED <<program, pass, raised, calls, chain, newType>>
      /\ cur' = cur + 1 /\ block' = 1 /\ inst' = 1 /\ value' = NoValue /\ rax' = NoValue
      /\ rets' = IF Len(all) < 2 THEN rets ELSE [rets EXCEPT ![cur] = <<one>>]
      /\ pc' = IF cur = Len(program) THEN "done" ELSE "raise"
  BY DEF EndFunction
<1>3. /\ program \in Programs /\ Funcs = 1..Len(program) /\ Len(program) \in Nat
      /\ n \in Nat \ {0} /\ DOMAIN program[cur] = 1..n /\ chain = <<>>
      /\ rets \in [Funcs -> Seq(Returns)] /\ all \in Seq(Returns) /\ T \in Types
  BY <1>1, ProgramFacts DEF Typed, ChainOrdered, FunctionObjects
<1>4. /\ Funcs' = Funcs
      /\ \A f, b : AfterOps(f, b)' = AfterOps(f, b) /\ ExitsBefore(f, b)' = ExitsBefore(f, b)
      /\ \A g : CalledOnce(g)' <=> CalledOnce(g)
      /\ \A f : /\ ReturnBlocks(f)' = ReturnBlocks(f) /\ TailCallees(f)' = TailCallees(f)
                /\ (SingleExit(f)' <=> SingleExit(f)) /\ (LaterCallees(f)' <=> LaterCallees(f))
  BY <1>2, KeptProgram
<1>5. \A f : Final(f) = raised[f] /\ Pending(f) = raised[f].ret
  BY <1>3, NoChain
<1>6. \A f : Final(f)' = raised[f] /\ Pending(f)' = raised[f].ret
  <2>1. Replaced' = {} /\ ToSet(chain)' = {}
    BY <1>2, <1>3 DEF Replaced, ToSet
  <2> QED
    BY <1>2, <2>1 DEF Final, Pending
<1>7. block = n + 1
  <2>1. block \in 1..(n + 1) /\ block \notin 1..n
    BY <1>1, <1>3 DEF Progress
  <2> HIDE DEF n
  <2> QED
    BY <1>3, <2>1
\* The exits have become one.
<1>8. Len(all) = (IF n = 1 THEN 1 ELSE n - 1) /\ Len(all) \in Nat \ {0}
  <2>1. Len(all) = ExitsBefore(cur, block)
    BY <1>1 DEF Progress
  <2>2. ExitsBefore(cur, block) = IF n = 1 THEN block - 1 ELSE IF block = 1 THEN 0 ELSE block - 2
    BY DEF ExitsBefore
  <2> DEFINE len == Len(all)
  <2>3. len = IF n = 1 THEN block - 1 ELSE IF block = 1 THEN 0 ELSE block - 2
    BY <2>1, <2>2
  <2> HIDE DEF n, len
  <2>4. len = (IF n = 1 THEN 1 ELSE n - 1) /\ len \in Nat \ {0}
    BY <1>3, <1>7, <2>3
  <2> QED
    BY <2>4 DEF len
<1>9. one \in Returns /\ one.type = T
  <2>1. \A i \in DOMAIN all : all[i].calls \in SUBSET Int
    <3>1. \A a \in Returns : a.calls \in SUBSET Int
      BY DEF Returns
    <3>2. \A i \in DOMAIN all : all[i] \in Returns
      <4> HIDE DEF all
      <4> QED
        BY <1>3
    <3> QED
      BY <3>1, <3>2
  <2>2. (IF T = "void" THEN {} ELSE UNION {all[i].calls : i \in DOMAIN all}) \in SUBSET Int
    BY <2>1
  <2> QED
    BY <1>3, <2>2 DEF Returns
<1> HIDE DEF one
<1>10. /\ rets' \in [Funcs -> Seq(Returns)] /\ Len(rets'[cur]) = 1
       /\ \A f \in Funcs \ {cur} : rets'[f] = rets[f]
       /\ \A f \in Funcs : rets'[f] = <<>> => rets[f] = <<>>
       /\ (SingleExit(cur) => LaterCallees(cur)) =>
            \A i \in DOMAIN rets'[cur] : rets'[cur][i].type = T
  <2>1. CASE Len(all) < 2
    <3> DEFINE len == Len(all)
    <3>1. rets' = rets
      BY <1>2, <2>1
    <3>2. len = 1 /\ n <= 2
      <4>1. len = (IF n = 1 THEN 1 ELSE n - 1) /\ len \in Nat \ {0} /\ len < 2
        BY <1>8, <2>1
      <4> HIDE DEF len, n
      <4> QED
        BY <1>3, <4>1
    <3>3. SingleExit(cur)
      BY <3>2 DEF SingleExit
    <3> QED
      BY <1>1, <1>3, <1>5, <3>1, <3>2, <3>3 DEF ReturnsPending
  <2>2. CASE ~(Len(all) < 2)
    <3>1. rets' = [rets EXCEPT ![cur] = <<one>>]
      BY <1>2, <2>2
    <3>2. rets'[cur] = <<one>> /\ \A f \in Funcs \ {cur} : rets'[f] = rets[f]
      BY <1>1, <1>3, <3>1
    <3>3. rets' \in [Funcs -> Seq(Returns)]
      <4>1. <<one>> \in Seq(Returns)
        BY <1>9
      <4> QED
        BY <1>3, <3>1, <4>1
    <3>4. Len(<<one>>) = 1 /\ <<one>> # <<>> /\ \A i \in DOMAIN <<one>> : <<one>>[i] = one
      OBVIOUS
    <3> QED
      BY <1>9, <3>2, <3>3, <3>4
  <2> QED
    BY <2>1, <2>2
<1>11. Typed'
  <2>1. cur' \in Nat \ {0} /\ value' \in Int /\ rax' \in Int
    BY <1>1, <1>2 DEF Typed, NoValue
  <2> QED
    BY <1>1, <1>2, <1>4, <1>10, <2>1 DEF Typed
<1>12. \A f \in Funcs : (f < cur' <=> f < cur \/ f = cur) /\ f \in Nat \ {0} /\ cur \in Nat
  BY <1>1, <1>2, <1>3
<1>13. Phases'
  <2>1. pc' \in {"raise", "done"} /\ (pc' = "done" => \A f \in Funcs : f < cur')
    BY <1>2, <1>3
  <2> QED
    BY <1>1, <1>2, <1>4, <2>1 DEF Phases
<1>14. ChainOrdered' /\ VoidUntilRaised'
  <2>1. ChainOrdered'
    BY <1>2, <1>3 DEF ChainOrdered
  <2>2. VoidUntilRaised'
    BY <1>1, <1>2, <1>4, <1>10 DEF VoidUntilRaised
  <2> QED
    BY <2>1, <2>2
<1>15. Progress'
  <2>1. ASSUME cur' \in Funcs
        PROVE  /\ 1 \in 1..(Len(program[cur']) + 1) /\ ExitsBefore(cur', 1) = 0
               /\ 1 \in DOMAIN program[cur'] => 1 \in 1..(Len(program[cur'][1].ops) + 1)
               /\ Len(rets'[cur']) = 0
    <3>1. Len(program[cur']) \in Nat \ {0}
      BY <1>3, <2>1, ProgramFacts
    <3>2. 1 \in DOMAIN program[cur'] => Len(program[cur'][1].ops) \in Nat
      <4>1. 1 \in DOMAIN program[cur'] => program[cur'][1].ops \in Seq(Ops)
        BY <1>3, <2>1, ProgramFacts
      <4> QED
        BY <4>1
    <3>3. cur' > cur /\ cur' # cur
      BY <1>2, <1>12, <1>1
    <3>4. rets'[cur'] = <<>>
      BY <1>1, <1>10, <2>1, <3>3 DEF Progress
    <3> QED
      BY <3>1, <3>2, <3>4 DEF ExitsBefore
  <2>2. \A f \in Funcs : f < cur' => Len(rets'[f]) = 1
    BY <1>1, <1>10, <1>12 DEF Progress
  <2>3. \A f \in Funcs : f > cur' => rets'[f] = <<>>
    <3> SUFFICES ASSUME NEW f \in Funcs, f > cur' PROVE rets'[f] = <<>>
      OBVIOUS
    <3>1. f > cur /\ f # cur
      BY <1>2, <1>12
    <3> QED
      BY <1>1, <1>10, <3>1 DEF Progress
  <2>4. Block' = program[cur'][1]
    BY <1>2 DEF Block
  <2> QED
    BY <1>2, <1>4, <2>1, <2>2, <2>3, <2>4 DEF Progress, ExitsBefore
<1>16. CallsPlaced' /\ TailsCalled'
  <2>1. \A f \in Funcs : \A b \in DOMAIN program[f] : \A i \in 1..AfterOps(f, b) :
          PassedNext(f, b, i) <=> Passed(f, b, i)
    <3> SUFFICES ASSUME NEW f \in Funcs, NEW b \in DOMAIN program[f], NEW i \in 1..AfterOps(f, b)
                 PROVE  PassedNext(f, b, i) <=> Passed(f, b, i)
      OBVIOUS
    <3>1. DOMAIN program[f] = 1..Len(program[f]) /\ Len(program[f]) \in Nat
          /\ program[f][b].ops \in Seq(Ops)
      BY <1>3, ProgramFacts
    <3>2. b \in Nat \ {0} /\ AfterOps(f, b) \in Nat
      <4>1. Len(program[f][b].ops) \in Nat
        BY <3>1
      <4> QED
        BY <3>1, <4>1 DEF AfterOps
    <3>3. i \in Nat \ {0} /\ f \in Nat /\ cur \in Nat
      BY <1>12, <3>2
    <3>4. PassedNext(f, b, i) <=> f < cur \/ f = cur
      BY <1>2, <1>12, <3>2, <3>3 DEF PassedNext, Before
    <3>5. f = cur => b < block
      <4>1. f = cur => b \in 1..n
        BY <1>3
      <4> HIDE DEF n
      <4> QED
        BY <1>3, <1>7, <4>1
    <3>6. Passed(f, b, i) <=> f < cur \/ f = cur
      BY <3>5 DEF Passed, Before
    <3> QED
      BY <3>4, <3>6
  <2> QED
    BY <1>1, <1>2, <2>1, SamePlaces
<1>17. CallsCurrent'
  BY <1>1, <1>2, <1>4, <1>5, <1>6 DEF CallsCurrent
<1>18. ReturnsPending'
  <2> SUFFICES ASSUME NEW f \in Funcs, SingleExit(f) => LaterCallees(f), f < cur' \/ SingleExit(f),
                      NEW i \in DOMAIN rets'[f]
               PROVE  rets'[f][i].type = raised[f].ret
    BY <1>4, <1>6 DEF ReturnsPending
  <2>1. CASE f = cur
    BY <1>10, <2>1
  <2>2. CASE f # cur
    BY <1>1, <1>5, <1>10, <1>12, <2>2 DEF ReturnsPending
  <2> QED
    BY <2>1, <2>2
<1>19. TailsPending'
  <2>1. \A f \in Funcs : rets'[f] # <<>> => rets[f] # <<>>
    <3> SUFFICES ASSUME NEW f \in Funcs, rets'[f] # <<>> PROVE rets[f] # <<>>
      OBVIOUS
    <3>1. CASE f = cur
      BY <1>3, <1>8, <3>1
    <3>2. CASE f # cur
      BY <1>10, <3>2
    <3> QED
      BY <3>1, <3>2
  <2> QED
    BY <1>1, <1>4, <1>5, <1>6, <2>1 DEF TailsPending
<1> QED
  BY <1>11, <1>13, <1>14, <1>15, <1>16, <1>17, <1>18, <1>19 DEF CallsInv

-----------------------------------------------------------------------------
(* changeRaisedFunctionReturnType. *)

\* The Function of f when the change is finished.
Settled(f) == IF f \in ToSet(chain) THEN NewFunction(f, newType) ELSE raised[f]

LEMMA ChainFacts ==
  ASSUME CallsInv, pc = "change"
  PROVE  /\ chain \in Seq(Funcs) /\ cur \in Funcs /\ Changing \in ToSet(chain)
         /\ Changing \notin Replaced /\ ToSet(chain) = Replaced \cup {Changing}
         /\ \A f \in ToSet(chain) : f \in Funcs /\ f <= cur /\ rets[f] # <<>>
         /\ cur \in ToSet(chain) /\ ToSet(chain) = {chain[i] : i \in DOMAIN chain}
         /\ \A f : /\ f # Changing => Final(f) = Settled(f)
                   /\ Final(Changing) = raised[Changing]
<1> DEFINE n == Len(chain)
<1>1. Typed /\ ChainOrdered
  BY DEF CallsInv
<1>2. /\ chain \in Seq(Funcs) /\ cur \in Funcs /\ chain # <<>> /\ chain[1] = cur
      /\ \A i, j \in DOMAIN chain : chain[i] = chain[j] => i = j
      /\ \A i \in DOMAIN chain : chain[i] <= cur /\ rets[chain[i]] # <<>>
  BY <1>1 DEF ChainOrdered, Typed
<1>3. n \in Nat \ {0} /\ DOMAIN chain = 1..n /\ \A i \in 1..n : chain[i] \in Funcs
  BY <1>2
<1>4. Changing = chain[n] /\ ToSet(chain) = {chain[i] : i \in DOMAIN chain}
  BY DEF Changing, Last, ToSet
<1>5. Replaced = {chain[i] : i \in {j \in 1..n : j < n}}
  BY <1>3 DEF Replaced
<1> HIDE DEF n
<1>6. 1 \in 1..n /\ n \in 1..n /\ \A i \in 1..n : i = n \/ i < n
  BY <1>3
<1>7. Changing \notin Replaced
  <2> SUFFICES ASSUME NEW i \in 1..n, i < n, chain[i] = chain[n] PROVE FALSE
    BY <1>4, <1>5
  <2> QED
    BY <1>2, <1>3, <1>6
<1>8. ToSet(chain) = Replaced \cup {Changing}
  BY <1>3, <1>4, <1>5, <1>6
<1>9. \A f \in ToSet(chain) : f \in Funcs /\ f <= cur /\ rets[f] # <<>>
  BY <1>2, <1>3, <1>4
<1>10. cur \in ToSet(chain) /\ Changing \in ToSet(chain)
  BY <1>2, <1>3, <1>4, <1>6
<1>11. \A f : /\ f # Changing => Final(f) = Settled(f)
              /\ Final(Changing) = raised[Changing]
  BY <1>7, <1>8 DEF Final, Settled
<1> QED
  BY <1>2, <1>4, <1>7, <1>8, <1>9, <1>10, <1>11

LEMMA FirstUserFacts ==
  ASSUME CallsInv, pc = "change", Users(Changing) # {}
  PROVE  /\ FirstUser \in DOMAIN calls /\ FirstUser \in Int
         /\ calls[FirstUser].target.fn = Changing
<1>1. Typed /\ Phases /\ calls \in Seq(CallRecords) /\ Changing \in Funcs
  BY ChainFacts DEF CallsInv, Typed
<1>2. Users(Changing) \in SUBSET (1..Len(calls)) /\ Len(calls) \in Nat
  BY <1>1 DEF Users
<1>3. FirstUser \in Users(Changing)
  BY <1>2, GreatestNumber DEF FirstUser
<1>4. raised[Changing].fn = Changing
  BY <1>1 DEF Phases
<1> QED
  BY <1>2, <1>3, <1>4 DEF Users

\* A function that is called once has only that call changed.
LEMMA OnlyUser ==
  ASSUME CallsInv, pc = "change", NEW c \in DOMAIN calls, calls[c].target.fn = Changing,
         CalledOnce(Changing)
  PROVE  Users(Changing) # {} /\ c = FirstUser
<1>1. CallsPlaced /\ CallsCurrent
  BY DEF CallsInv
<1>2. calls[c].target = raised[Changing]
  BY <1>1, ChainFacts DEF CallsCurrent
<1>3. c \in Users(Changing)
  BY <1>2 DEF Users
<1>4. FirstUser \in DOMAIN calls /\ calls[FirstUser].target.fn = Changing
  BY <1>3, FirstUserFacts
<1> DEFINE k == calls[c]
           u == calls[FirstUser]
<1>5. /\ <<k.by, k.block, k.inst>> \in CallSites(Changing)
      /\ <<u.by, u.block, u.inst>> \in CallSites(Changing)
  BY <1>1, <1>4 DEF CallsPlaced
<1>6. <<k.by, k.block, k.inst>> = <<u.by, u.block, u.inst>>
  BY <1>5, OncePlace
<1>7. k.by = u.by /\ k.block = u.block /\ k.inst = u.inst
  BY <1>6
<1> QED
  BY <1>1, <1>3, <1>4, <1>7 DEF CallsPlaced

\* The tail call of a function that was raised has been made.
LEMMA TailCaller ==
  ASSUME CallsInv, pc = "change", NEW f \in Funcs, Changing \in TailCallees(f), SingleExit(f),
         CalledOnce(Changing), rets[f] # <<>>
  PROVE  Users(Changing) # {} /\ calls[FirstUser].tail /\ calls[FirstUser].by = f
<1> DEFINE e == Len(program[f])
<1>1. Typed /\ Progress /\ CallsPlaced /\ TailsCalled /\ program \in Programs
  BY DEF CallsInv, Typed
<1>2. /\ e \in DOMAIN program[f] /\ program[f][e].end = "tail" /\ program[f][e].to = Changing
      /\ e \in Nat \ {0} /\ e <= 2 /\ DOMAIN program[f] = 1..e
      /\ program[f][e].ops \in Seq(Ops)
  BY <1>1, SingleExitFacts, ProgramFacts DEF SingleExit
<1>3. AfterOps(f, e) \notin DOMAIN program[f][e].ops
  BY <1>2 DEF AfterOps
<1>4. f < cur \/ f = cur
  <2>1. f \in Nat /\ cur \in Nat
    BY <1>1, ProgramFacts DEF Typed
  <2>2. ~(f > cur)
    BY <1>1 DEF Progress
  <2> QED
    BY <2>1, <2>2
<1>5. f = cur => e < block
  <2> SUFFICES ASSUME f = cur PROVE e < block
    OBVIOUS
  <2>1. Len(rets[f]) # 0
    <3>1. rets[f] \in Seq(Returns)
      BY <1>1 DEF Typed
    <3> QED
      BY <3>1
  <2>2. Len(rets[f]) = ExitsBefore(f, block) /\ block \in 1..(e + 1)
    BY <1>1 DEF Progress
  <2>3. ExitsBefore(f, block) = IF e = 1 THEN block - 1 ELSE IF block = 1 THEN 0 ELSE block - 2
    BY DEF ExitsBefore
  <2> DEFINE x == ExitsBefore(f, block)
  <2>4. /\ x # 0 /\ block \in 1..(e + 1) /\ e \in {1, 2}
        /\ x = IF e = 1 THEN block - 1 ELSE IF block = 1 THEN 0 ELSE block - 2
    <3>1. e \in {1, 2}
      <4> HIDE DEF e
      <4> QED
        BY <1>2
    <3> QED
      BY <2>1, <2>2, <2>3, <3>1
  <2> HIDE DEF e, x
  <2> QED
    BY <2>4
<1>6. Passed(f, e, AfterOps(f, e))
  BY <1>4, <1>5 DEF Passed, Before
<1>7. PICK c \in DOMAIN calls :
        calls[c].by = f /\ calls[c].block = e /\ calls[c].inst = AfterOps(f, e)
  BY <1>1, <1>2, <1>6 DEF TailsCalled
<1>8. <<f, e, AfterOps(f, e)>> \in CallSites(calls[c].target.fn)
  BY <1>1, <1>7 DEF CallsPlaced
<1>9. calls[c].target.fn = Changing
  <2>1. Calls(f, e, AfterOps(f, e), calls[c].target.fn)
    BY <1>1, <1>8, PlaceFacts
  <2> QED
    BY <1>2, <1>3, <2>1 DEF Calls
<1>10. calls[c].tail
  BY <1>1, <1>3, <1>7 DEF CallsPlaced
<1> QED
  BY <1>7, <1>9, <1>10, OnlyUser

LEMMA RetargetFacts ==
  ASSUME CallsInv, pc = "change", Users(Changing) # {}, Retarget(FirstUser)
  PROVE  /\ calls' \in Seq(CallRecords) /\ DOMAIN calls' = DOMAIN calls
         /\ \A c \in DOMAIN calls :
              /\ calls'[c].by = calls[c].by /\ calls'[c].block = calls[c].block
              /\ calls'[c].inst = calls[c].inst /\ calls'[c].tail = calls[c].tail
              /\ calls'[c].target.fn = calls[c].target.fn
              /\ CalledOnce(calls[c].target.fn) =>
                   calls'[c].target = Settled(calls[c].target.fn)
<1> DEFINE u == FirstUser
           N == NewFunction(Changing, newType)
<1>1. Typed /\ CallsCurrent /\ calls \in Seq(CallRecords) /\ newType \in Types
  BY DEF CallsInv, Typed
<1>2. /\ Changing \in Funcs /\ u \in DOMAIN calls /\ calls[u].target.fn = Changing
      /\ Changing \in ToSet(chain)
  BY ChainFacts, FirstUserFacts
<1>3. N \in FunctionObjects /\ N.fn = Changing
  BY <1>1, <1>2, NewFunctionTyped
<1> HIDE DEF u
<1>4. calls' = [calls EXCEPT ![u].target = N]
  BY DEF Retarget, u
<1> HIDE DEF N
<1>5. /\ \A c \in DOMAIN calls : c # u => calls'[c] = calls[c]
      /\ DOMAIN calls' = DOMAIN calls /\ calls'[u] = [calls[u] EXCEPT !.target = N]
  BY <1>1, <1>2, <1>4
<1>6. /\ calls[u] \in CallRecords /\ calls'[u].by = calls[u].by /\ calls'[u].block = calls[u].block
      /\ calls'[u].inst = calls[u].inst /\ calls'[u].tail = calls[u].tail
      /\ calls'[u].target = N /\ calls'[u] \in CallRecords
  <2>1. calls[u] \in CallRecords
    BY <1>1, <1>2
  <2> QED
    BY <1>3, <1>5, <2>1 DEF CallRecords
<1>7. calls' \in Seq(CallRecords)
  BY <1>1, <1>2, <1>4, <1>6, <1>5
<1>8. ASSUME NEW c \in DOMAIN calls
      PROVE  /\ calls'[c].by = calls[c].by /\ calls'[c].block = calls[c].block
             /\ calls'[c].inst = calls[c].inst /\ calls'[c].tail = calls[c].tail
             /\ calls'[c].target.fn = calls[c].target.fn
             /\ CalledOnce(calls[c].target.fn) => calls'[c].target = Settled(calls[c].target.fn)
  <2>1. CASE c = u
    <3>1. Settled(Changing) = N
      BY <1>2 DEF Settled, N
    <3> QED
      BY <1>2, <1>3, <1>6, <2>1, <3>1
  <2>2. CASE c # u
    <3>1. calls'[c] = calls[c]
      BY <1>5, <2>2
    <3>2. CalledOnce(calls[c].target.fn) => calls[c].target.fn # Changing
      BY <2>2, OnlyUser DEF u
    <3>3. CalledOnce(calls[c].target.fn) => calls[c].target = Final(calls[c].target.fn)
      BY <1>1 DEF CallsCurrent
    <3> QED
      BY <3>1, <3>2, <3>3, ChainFacts
  <2> QED
    BY <2>1, <2>2
<1> QED
  BY <1>5, <1>7, <1>8

\* What a step of the change does to calls and returns.
ChangedTypes ==
  /\ UNCHANGED <<program, pass, cur, block, inst, value, rax, newType>>
  /\ calls' \in Seq(CallRecords) /\ DOMAIN calls' = DOMAIN calls
  /\ \A c \in DOMAIN calls :
       /\ calls'[c].by = calls[c].by /\ calls'[c].block = calls[c].block
       /\ calls'[c].inst = calls[c].inst /\ calls'[c].tail = calls[c].tail
       /\ calls'[c].target.fn = calls[c].target.fn
       /\ CalledOnce(calls[c].target.fn) => calls'[c].target = Settled(calls[c].target.fn)
  /\ rets' \in [Funcs -> Seq(Returns)]
  /\ \A f \in Funcs : Len(rets'[f]) = Len(rets[f])

LEMMA ChangedFacts ==
  ASSUME CallsInv, pc = "change", ChangedTypes
  PROVE  /\ CallsPlaced' /\ TailsCalled' /\ \A f \in Funcs : rets'[f] = <<>> <=> rets[f] = <<>>
         /\ pc' = "change" /\ raised' = raised => Phases'
         /\ Progress' /\ Funcs' = Funcs
<1>1. /\ Typed /\ Phases /\ Progress /\ CallsPlaced /\ TailsCalled
      /\ program' = program /\ cur' = cur /\ block' = block /\ inst' = inst /\ pass' = pass
  BY DEF CallsInv, ChangedTypes
<1>2. \A f \in Funcs : rets'[f] = <<>> <=> rets[f] = <<>>
  <2> SUFFICES ASSUME NEW f \in Funcs PROVE rets'[f] = <<>> <=> rets[f] = <<>>
    OBVIOUS
  <2>1. rets[f] \in Seq(Returns) /\ rets'[f] \in Seq(Returns) /\ Len(rets'[f]) = Len(rets[f])
    BY <1>1 DEF ChangedTypes, Typed
  <2> QED
    BY <2>1
<1>3. CallsPlaced' /\ TailsCalled'
  <2>1. \A f, b, i : PassedNext(f, b, i) <=> Passed(f, b, i)
    BY <1>1 DEF PassedNext, Passed
  <2>2. /\ DOMAIN calls' = DOMAIN calls
        /\ \A c \in DOMAIN calls :
             /\ calls'[c].by = calls[c].by /\ calls'[c].block = calls[c].block
             /\ calls'[c].inst = calls[c].inst /\ calls'[c].tail = calls[c].tail
             /\ calls'[c].target.fn = calls[c].target.fn
    BY DEF ChangedTypes
  <2> QED
    BY <1>1, <2>1, <2>2, SamePlaces
<1>4. Funcs' = Funcs /\ \A f, b : ExitsBefore(f, b)' = ExitsBefore(f, b)
  BY <1>1, KeptProgram
<1>5. Progress'
  <2>1. \A f \in Funcs : Len(rets'[f]) = Len(rets[f])
    BY DEF ChangedTypes
  <2> QED
    BY <1>1, <1>2, <1>4, <2>1 DEF Progress, Block, ExitsBefore
<1>6. pc' = "change" /\ raised' = raised => Phases'
  BY <1>1, <1>4 DEF Phases
<1> QED
  BY <1>2, <1>3, <1>4, <1>5, <1>6

\* The change is finished, and every function on the chain is replaced.
LEMMA FinishKeepsInv ==
  ASSUME CallsInv, pc = "change", FinishChange, ChangedTypes,
         \A f \in Funcs :
           (SingleExit(f) => LaterCallees(f)) /\ (f < cur \/ SingleExit(f)) =>
             \A i \in DOMAIN rets'[f] : rets'[f][i].type = Pending(f),
         \A f, g \in Funcs :
           g \in TailCallees(f) /\ SingleExit(f) /\ f < g /\ CalledOnce(g) /\ rets[f] # <<>> =>
             Pending(f) = Pending(g)
  PROVE  CallsInv'
<1>1. /\ Typed /\ Phases /\ ChainOrdered /\ VoidUntilRaised
      /\ UNCHANGED <<program, pass, cur, block, inst, value, rax, newType>>
      /\ raised \in [Funcs -> FunctionObjects] /\ newType \in Types
      /\ \A f \in Funcs : raised[f].fn = f
  BY DEF CallsInv, ChangedTypes, Typed, Phases
<1>2. /\ CallsPlaced' /\ TailsCalled' /\ \A f \in Funcs : rets'[f] = <<>> <=> rets[f] = <<>>
      /\ Progress' /\ Funcs' = Funcs
  BY ChangedFacts
<1>3. pc' = "raise" /\ chain' = <<>> /\ \A f \in Funcs : raised'[f] = Settled(f)
  BY DEF FinishChange, Settled
<1>4. /\ raised' \in [Funcs -> FunctionObjects]
      /\ \A f \in Funcs : raised'[f].fn = f /\ raised'[f].ret = Pending(f)
  <2>1. \A f \in Funcs : /\ NewFunction(f, newType) \in FunctionObjects
                         /\ NewFunction(f, newType).fn = f /\ NewFunction(f, newType).ret = newType
    BY <1>1, NewFunctionTyped
  <2>2. \A f \in Funcs : /\ Settled(f) \in FunctionObjects
                         /\ Settled(f).fn = f /\ Settled(f).ret = Pending(f)
    BY <1>1, <2>1 DEF Settled, Pending
  <2>3. raised' = [f \in Funcs |-> Settled(f)]
    BY DEF FinishChange, Settled
  <2> QED
    BY <2>2, <2>3
<1>5. \A f \in Funcs : Final(f)' = Settled(f) /\ Pending(f)' = Pending(f)
  <2>1. Replaced' = {} /\ ToSet(chain') = {}
    BY <1>3 DEF Replaced, ToSet
  <2>2. \A f : Final(f)' = raised'[f] /\ Pending(f)' = raised'[f].ret
    BY <2>1 DEF Final, Pending
  <2> QED
    BY <1>3, <1>4, <2>2
<1>6. /\ \A g : CalledOnce(g)' <=> CalledOnce(g)
      /\ \A f : /\ ReturnBlocks(f)' = ReturnBlocks(f) /\ TailCallees(f)' = TailCallees(f)
                /\ (SingleExit(f)' <=> SingleExit(f)) /\ (LaterCallees(f)' <=> LaterCallees(f))
  BY <1>1, KeptProgram
<1>7. Typed'
  <2>1. chain' \in Seq(Funcs)
    BY <1>3
  <2>2. calls' \in Seq(CallRecords) /\ rets' \in [Funcs -> Seq(Returns)]
    BY DEF ChangedTypes
  <2> QED
    BY <1>1, <1>2, <1>4, <2>1, <2>2 DEF Typed
<1>8. Phases' /\ ChainOrdered'
  BY <1>2, <1>3, <1>4 DEF Phases, ChainOrdered
<1>9. VoidUntilRaised'
  <2> SUFFICES ASSUME NEW f \in Funcs, ReturnBlocks(f) = {}, LaterCallees(f), rets'[f] = <<>>
               PROVE  raised'[f].ret = "void"
    BY <1>2, <1>6 DEF VoidUntilRaised
  <2>1. rets[f] = <<>>
    BY <1>2
  <2>2. f \notin ToSet(chain)
    BY <2>1, ChainFacts
  <2>3. raised'[f] = raised[f]
    BY <1>3, <2>2 DEF Settled
  <2> QED
    BY <1>1, <2>1, <2>3 DEF VoidUntilRaised
<1>10. CallsCurrent'
  <2> SUFFICES ASSUME NEW c \in DOMAIN calls', CalledOnce(calls'[c].target.fn)
               PROVE  calls'[c].target = Settled(calls'[c].target.fn)
                      /\ calls'[c].target.fn \in Funcs
    BY <1>5, <1>6 DEF CallsCurrent
  <2>1. calls'[c].target.fn \in Funcs
    BY <1>2 DEF CallsPlaced
  <2> QED
    BY <2>1 DEF ChangedTypes
<1>11. ReturnsPending' /\ TailsPending'
  BY <1>1, <1>2, <1>5, <1>6 DEF ReturnsPending, TailsPending
<1> QED
  BY <1>2, <1>7, <1>8, <1>9, <1>10, <1>11 DEF CallsInv

\* Calls of other functions than the last of the chain are as they shall be.
LEMMA NoUsersKeepsInv == ASSUME CallsInv, NoUsers PROVE CallsInv'
<1>1. /\ Typed /\ CallsCurrent /\ ReturnsPending /\ TailsPending /\ pc = "change"
      /\ Users(Changing) = {} /\ FinishChange
      /\ UNCHANGED <<program, pass, cur, block, inst, calls, rets, value, rax, newType>>
  BY DEF NoUsers, CallsInv
<1>2. ChangedTypes
  <2>1. \A c \in DOMAIN calls : CalledOnce(calls[c].target.fn) =>
          calls[c].target = Settled(calls[c].target.fn)
    <3> SUFFICES ASSUME NEW c \in DOMAIN calls, CalledOnce(calls[c].target.fn)
                 PROVE  calls[c].target = Settled(calls[c].target.fn)
      OBVIOUS
    <3>1. calls[c].target.fn # Changing
      BY <1>1, OnlyUser
    <3> QED
      BY <1>1, <3>1, ChainFacts DEF CallsCurrent
  <2> QED
    BY <1>1, <2>1 DEF ChangedTypes, Typed
<1>3. \A f, g \in Funcs :
        g \in TailCallees(f) /\ SingleExit(f) /\ f < g /\ CalledOnce(g) /\ rets[f] # <<>> =>
          Pending(f) = Pending(g)
  BY <1>1, TailCaller DEF TailsPending
<1> QED
  BY <1>1, <1>2, <1>3, FinishKeepsInv DEF ReturnsPending

LEMMA ChangeCallKeepsInv == ASSUME CallsInv, ChangeCall PROVE CallsInv'
<1> SUFFICES ASSUME pc' # "aborted" PROVE CallsInv'
  BY DEF CallsInv
<1>1. /\ Typed /\ ReturnsPending /\ TailsPending /\ pc = "change"
      /\ Users(Changing) # {} /\ ~calls[FirstUser].tail /\ Retarget(FirstUser) /\ FinishChange
      /\ UNCHANGED <<program, pass, cur, block, inst, rets, value, rax, newType>>
  BY DEF ChangeCall, CallsInv
<1>2. ChangedTypes
  BY <1>1, RetargetFacts DEF ChangedTypes, Typed
<1>3. \A f, g \in Funcs :
        g \in TailCallees(f) /\ SingleExit(f) /\ f < g /\ CalledOnce(g) /\ rets[f] # <<>> =>
          Pending(f) = Pending(g)
  BY <1>1, TailCaller DEF TailsPending
<1> QED
  BY <1>1, <1>2, <1>3, FinishKeepsInv DEF ReturnsPending

LEMMA ChangeTailCallKeepsInv == ASSUME CallsInv, ChangeTailCall PROVE CallsInv'
<1> SUFFICES ASSUME pc' # "aborted" PROVE CallsInv'
  BY DEF CallsInv
<1> DEFINE u == FirstUser
           by == calls[u].by
           r == [type |-> newType, calls |-> IF newType = "void" THEN {} ELSE {u}]
<1>1. /\ Typed /\ Phases /\ ChainOrdered /\ VoidUntilRaised /\ Progress /\ CallsPlaced
      /\ CallsCurrent /\ ReturnsPending /\ TailsPending /\ pc = "change"
      /\ Users(Changing) # {} /\ calls[u].tail /\ Retarget(u) /\ by \notin ToSet(chain)
      /\ rets' = [rets EXCEPT ![by][1] = r]
      /\ UNCHANGED <<program, pass, cur, block, inst, value, rax, newType>>
      /\ \/ raised[by].ret = newType /\ FinishChange
         \/ chain' = Append(chain, by) /\ UNCHANGED <<pc, raised>>
  BY DEF ChangeTailCall, CallsInv
<1>2. program \in Programs /\ newType \in Types /\ rets \in [Funcs -> Seq(Returns)]
  BY <1>1 DEF Typed
<1>3. u \in DOMAIN calls /\ u \in Int /\ calls[u].target.fn = Changing
  BY <1>1, FirstUserFacts
\* The tail call is of the function that is being changed.
<1>4. by \in Funcs /\ Changing \in TailCallees(by) /\ by < cur
  <2>1. /\ <<by, calls[u].block, calls[u].inst>> \in CallSites(Changing)
        /\ Passed(by, calls[u].block, calls[u].inst)
        /\ calls[u].inst \notin DOMAIN program[by][calls[u].block].ops
    BY <1>1, <1>3 DEF CallsPlaced
  <2>2. /\ by \in Funcs /\ calls[u].block \in DOMAIN program[by]
        /\ Calls(by, calls[u].block, calls[u].inst, Changing)
    BY <1>2, <2>1, PlaceFacts
  <2>3. Changing \in TailCallees(by)
    BY <2>1, <2>2 DEF Calls, TailCallees
  <2>4. by # cur
    BY <1>1, ChainFacts
  <2> QED
    BY <2>1, <2>2, <2>3, <2>4 DEF Passed, Before
<1>5. rets[by] \in Seq(Returns) /\ Len(rets[by]) = 1
  BY <1>1, <1>2, <1>4 DEF Progress
<1>6. r \in Returns /\ r.type = newType
  BY <1>2, <1>3 DEF Returns
<1> HIDE DEF r, by, u
<1>7. /\ rets' \in [Funcs -> Seq(Returns)] /\ rets'[by] = <<r>>
      /\ \A f \in Funcs : f # by => rets'[f] = rets[f]
  <2>1. [rets[by] EXCEPT ![1] = r] = <<r>>
    BY <1>5
  <2>2. <<r>> \in Seq(Returns)
    BY <1>6
  <2>3. rets' = [rets EXCEPT ![by] = <<r>>]
    BY <1>1, <2>1
  <2> QED
    BY <1>2, <1>4, <2>2, <2>3
<1>8. ChangedTypes
  <2>1. \A f \in Funcs : Len(rets'[f]) = Len(rets[f])
    <3>1. Len(<<r>>) = 1
      OBVIOUS
    <3> QED
      BY <1>5, <1>7, <3>1
  <2> QED
    BY <1>1, <1>7, <2>1, RetargetFacts DEF ChangedTypes, u
\* A function whose only exit is a call of the changing one is the one that is changed next.
<1>9. ASSUME NEW f \in Funcs, NEW g \in Funcs, g \in TailCallees(f), SingleExit(f), f < g,
             CalledOnce(g), rets[f] # <<>>, f # by
      PROVE  Pending(f) = Pending(g) /\ g # Changing
  <2>1. g # Changing
    BY <1>1, <1>9, TailCaller DEF by, u
  <2> QED
    BY <1>1, <1>9, <2>1 DEF TailsPending
<1>10. ASSUME NEW g \in TailCallees(by), SingleExit(by)
       PROVE  g = Changing
  <2>1. TailCallees(by) = {Changing}
    BY <1>2, <1>4, <1>10, SingleExitFacts
  <2> QED
    BY <2>1
<1>11. Pending(Changing) = newType /\ Pending(by) = raised[by].ret
  BY <1>1, ChainFacts DEF Pending, by, u
<1>12. CASE raised[by].ret = newType /\ FinishChange
  <2>1. ASSUME NEW f \in Funcs, SingleExit(f) => LaterCallees(f), f < cur \/ SingleExit(f),
               NEW i \in DOMAIN rets'[f]
        PROVE  rets'[f][i].type = Pending(f)
    <3>1. CASE f = by
      <4>1. i = 1 /\ <<r>>[1] = r
        BY <1>7, <2>1, <3>1
      <4> QED
        BY <1>6, <1>7, <1>11, <1>12, <3>1, <4>1
    <3>2. CASE f # by
      BY <1>1, <1>7, <2>1, <3>2 DEF ReturnsPending
    <3> QED
      BY <3>1, <3>2
  <2>2. ASSUME NEW f \in Funcs, NEW g \in Funcs, g \in TailCallees(f), SingleExit(f), f < g,
               CalledOnce(g), rets[f] # <<>>
        PROVE  Pending(f) = Pending(g)
    BY <1>9, <1>10, <1>11, <1>12, <2>2
  <2> QED
    BY <1>1, <1>8, <1>12, <2>1, <2>2, FinishKeepsInv
<1>13. CASE chain' = Append(chain, by) /\ UNCHANGED <<pc, raised>>
  <2> DEFINE n == Len(chain)
  <2>1. /\ chain \in Seq(Funcs) /\ ToSet(chain) = {chain[i] : i \in DOMAIN chain}
        /\ \A f \in ToSet(chain) : f \in Funcs /\ f <= cur /\ rets[f] # <<>>
        /\ cur \in Funcs /\ chain # <<>> /\ chain[1] = cur
        /\ \A i, j \in DOMAIN chain : chain[i] = chain[j] => i = j
    BY <1>1, ChainFacts DEF ChainOrdered
  <2>2. n \in Nat \ {0} /\ DOMAIN chain = 1..n
    BY <2>1
  <2>3. /\ chain' \in Seq(Funcs) /\ DOMAIN chain' = 1..(n + 1) /\ Len(chain') = n + 1
        /\ chain'[n + 1] = by /\ \A i \in 1..n : chain'[i] = chain[i]
    BY <1>4, <1>13, <2>1
  <2> HIDE DEF n
  <2>4. Changing' = by
    BY <2>3 DEF Changing, Last
  <2>5. Replaced' = ToSet(chain)
    <3>1. Replaced' = {chain'[i] : i \in {j \in 1..(n + 1) : j < n + 1}}
      BY <2>3 DEF Replaced
    <3>2. {j \in 1..(n + 1) : j < n + 1} = 1..n
      BY <2>2
    <3> QED
      BY <2>1, <2>2, <2>3, <3>1, <3>2
  <2>6. ToSet(chain') = ToSet(chain) \cup {by}
    <3>1. ToSet(chain') = {chain'[i] : i \in 1..(n + 1)}
      BY <2>3 DEF ToSet
    <3>2. 1..(n + 1) = (1..n) \cup {n + 1}
      BY <2>2
    <3> QED
      BY <2>1, <2>2, <2>3, <3>1, <3>2
  <2>7. /\ CallsPlaced' /\ TailsCalled' /\ \A f \in Funcs : rets'[f] = <<>> <=> rets[f] = <<>>
        /\ Phases' /\ Progress' /\ Funcs' = Funcs
    BY <1>1, <1>8, <1>13, ChangedFacts
  <2>8. /\ \A g : CalledOnce(g)' <=> CalledOnce(g)
        /\ \A f : /\ ReturnBlocks(f)' = ReturnBlocks(f) /\ TailCallees(f)' = TailCallees(f)
                  /\ (SingleExit(f)' <=> SingleExit(f)) /\ (LaterCallees(f)' <=> LaterCallees(f))
    BY <1>1, KeptProgram
  <2>9. /\ \A f : Final(f)' = Settled(f) /\ Pending(f)' = PendingNext(f)
        /\ \A f : f # by => PendingNext(f) = Pending(f)
        /\ PendingNext(by) = newType
    <3>1. \A f : Final(f)' = Settled(f)
      BY <1>1, <1>13, <2>5 DEF Final, Settled, NewFunction
    <3>2. \A f : Pending(f)' = PendingNext(f)
      BY DEF Pending, PendingNext
    <3>3. \A f : PendingNext(f) = IF f \in ToSet(chain) \cup {by} THEN newType ELSE raised[f].ret
      BY <1>1, <1>13, <2>6 DEF PendingNext
    <3> QED
      BY <3>1, <3>2, <3>3 DEF Pending
  <2>10. Typed'
    BY <1>1, <1>8, <1>13, <2>3, <2>7 DEF Typed, ChangedTypes
  <2>11. ChainOrdered'
    <3>1. /\ \A i \in 1..n : chain[i] \in ToSet(chain)
          /\ \A i \in 1..n : chain'[i] # by
      BY <1>1, <2>1, <2>2, <2>3 DEF by, u
    <3>2. \A i, j \in DOMAIN chain' : chain'[i] = chain'[j] => i = j
      <4> SUFFICES ASSUME NEW i \in 1..(n + 1), NEW j \in 1..(n + 1), chain'[i] = chain'[j]
                   PROVE  i = j
        BY <2>3
      <4>1. (i \in 1..n \/ i = n + 1) /\ (j \in 1..n \/ j = n + 1)
        BY <2>2
      <4> QED
        BY <2>1, <2>2, <2>3, <3>1, <4>1
    <3>3. \A i \in DOMAIN chain' : chain'[i] <= cur /\ rets'[chain'[i]] # <<>>
      <4> SUFFICES ASSUME NEW i \in 1..(n + 1) PROVE chain'[i] <= cur /\ rets'[chain'[i]] # <<>>
        BY <2>3
      <4>1. CASE i \in 1..n
        BY <2>1, <2>3, <2>7, <3>1, <4>1
      <4>2. CASE i = n + 1
        <5>1. by \in Nat /\ cur \in Nat
          BY <1>2, <1>4, <2>1, ProgramFacts
        <5>2. by <= cur
          BY <1>4, <5>1
        <5>3. <<r>> # <<>>
          OBVIOUS
        <5>4. chain'[i] = by
          BY <2>3, <4>2
        <5>5. rets'[by] # <<>>
          BY <1>7, <5>3
        <5> QED
          BY <5>2, <5>4, <5>5
      <4> QED
        BY <2>2, <4>1, <4>2
    <3>4. chain' # <<>> /\ chain'[1] = cur
      BY <2>1, <2>2, <2>3
    <3> QED
      BY <1>1, <1>13, <2>1, <2>7, <3>2, <3>3, <3>4 DEF ChainOrdered
  <2>12. VoidUntilRaised'
    BY <1>1, <1>13, <2>7, <2>8 DEF VoidUntilRaised
  <2>13. CallsCurrent'
    <3> SUFFICES ASSUME NEW c \in DOMAIN calls', CalledOnce(calls'[c].target.fn)
                 PROVE  calls'[c].target = Settled(calls'[c].target.fn)
      BY <2>8, <2>9 DEF CallsCurrent
    <3> QED
      BY <1>8 DEF ChangedTypes
  <2>14. ReturnsPending'
    <3> SUFFICES ASSUME NEW f \in Funcs, SingleExit(f) => LaterCallees(f), f < cur \/ SingleExit(f),
                        NEW i \in DOMAIN rets'[f]
                 PROVE  rets'[f][i].type = PendingNext(f)
      BY <1>1, <2>7, <2>8, <2>9 DEF ReturnsPending
    <3>1. CASE f = by
      <4>1. i = 1 /\ <<r>>[1] = r
        BY <1>7, <3>1
      <4> QED
        BY <1>6, <1>7, <2>9, <3>1, <4>1
    <3>2. CASE f # by
      BY <1>1, <1>7, <2>9, <3>2 DEF ReturnsPending
    <3> QED
      BY <3>1, <3>2
  <2>15. TailsPending'
    <3> SUFFICES ASSUME NEW f \in Funcs, NEW g \in Funcs, g \in TailCallees(f), SingleExit(f),
                        f < g, CalledOnce(g), rets[f] # <<>>
                 PROVE  PendingNext(f) = PendingNext(g) \/ g = by
      BY <1>1, <1>13, <2>4, <2>7, <2>8, <2>9 DEF TailsPending
    <3>1. CASE f = by
      <4>1. g = Changing /\ g # by
        BY <1>10, <3>1, <1>1, ChainFacts DEF by, u
      <4> QED
        BY <1>11, <2>9, <3>1, <4>1
    <3>2. CASE f # by /\ g # by
      BY <1>9, <2>9, <3>2
    <3> QED
      BY <3>1, <3>2
  <2> QED
    BY <2>7, <2>10, <2>11, <2>12, <2>13, <2>14, <2>15 DEF CallsInv
<1> QED
  BY <1>1, <1>12, <1>13

-----------------------------------------------------------------------------
(* The theorems. *)

LEMMA InitCallsInv == Init => CallsInv
<1> SUFFICES ASSUME Init PROVE CallsInv
  OBVIOUS
<1>1. /\ program \in Programs /\ pc = "prototypes" /\ pass = 1 /\ cur = 1 /\ block = 1 /\ inst = 1
      /\ raised = [f \in Funcs |-> NoFunction] /\ calls = <<>> /\ rets = [f \in Funcs |-> <<>>]
      /\ value = NoValue /\ rax = NoValue /\ chain = <<>> /\ newType = "void"
  BY DEF Init
<1>2. Funcs = 1..Len(program)
  BY <1>1, ProgramFacts
<1>3. NoFunction \in FunctionObjects /\ NoFunction.ret = "void" /\ newType \in Types
  BY <1>1 DEF NoFunction, FunctionObjects, Types
<1>4. Typed
  <2>1. /\ raised \in [Funcs -> FunctionObjects] /\ rets \in [Funcs -> Seq(Returns)]
        /\ calls \in Seq(CallRecords) /\ chain \in Seq(Funcs)
    BY <1>1, <1>3
  <2> QED
    BY <1>1, <1>3, <2>1 DEF Typed, NoValue
<1>5. Phases
  BY <1>1, <1>2 DEF Phases
<1>6. ChainOrdered /\ VoidUntilRaised
  BY <1>1, <1>3 DEF ChainOrdered, VoidUntilRaised
<1> QED
  BY <1>1, <1>4, <1>5, <1>6 DEF CallsInv

LEMMA NextKeepsCallsInv == CallsInv /\ [Next]_protoVars => CallsInv'
<1> SUFFICES ASSUME CallsInv, [Next]_protoVars PROVE CallsInv'
  OBVIOUS
<1>1. CASE ConstructPrototype
  BY <1>1, ConstructPrototypeKeepsInv
<1>2. CASE EndIteration
  BY <1>2, EndIterationKeepsInv
<1>3. CASE RaiseDef
  BY <1>3, RaiseDefKeepsInv
<1>4. CASE RaiseCall
  BY <1>4, RaiseCallKeepsInv
<1>5. CASE RaiseFork
  BY <1>5, RaiseForkKeepsInv
<1>6. CASE RaiseReturn
  BY <1>6, RaiseReturnKeepsInv
<1>7. CASE RaiseTailCall
  BY <1>7, RaiseTailCallKeepsInv
<1>8. CASE EndFunction
  BY <1>8, EndFunctionKeepsInv
<1>9. CASE NoUsers
  BY <1>9, NoUsersKeepsInv
<1>10. CASE ChangeCall
  BY <1>10, ChangeCallKeepsInv
<1>11. CASE ChangeTailCall
  BY <1>11, ChangeTailCallKeepsInv
<1>12. CASE Stopped \/ UNCHANGED protoVars
  <2>1. UNCHANGED protoVars
    BY <1>12 DEF Stopped
  <2>2. UNCHANGED <<program, pc, pass, cur, block, inst, raised, calls, rets, value, rax, chain,
                    newType>>
    BY <2>1 DEF protoVars
  <2>3. /\ Funcs' = Funcs
        /\ \A f, b : AfterOps(f, b)' = AfterOps(f, b) /\ ExitsBefore(f, b)' = ExitsBefore(f, b)
        /\ \A g : CallSites(g)' = CallSites(g) /\ (CalledOnce(g)' <=> CalledOnce(g))
        /\ \A f : /\ ReturnBlocks(f)' = ReturnBlocks(f) /\ TailCallees(f)' = TailCallees(f)
                  /\ (SingleExit(f)' <=> SingleExit(f)) /\ (LaterCallees(f)' <=> LaterCallees(f))
    BY <2>2, KeptProgram
  <2>4. Typed' = Typed /\ Phases' = Phases /\ ChainOrdered' = ChainOrdered
    BY <2>2, <2>3 DEF Typed, Phases, ChainOrdered
  <2>5. Progress' = Progress /\ VoidUntilRaised' = VoidUntilRaised
    BY <2>2, <2>3 DEF Progress, VoidUntilRaised, Block, ExitsBefore
  <2>6. CallsPlaced' = CallsPlaced /\ TailsCalled' = TailsCalled
    BY <2>2, <2>3 DEF CallsPlaced, TailsCalled, Passed, Before, AfterOps
  <2>7. \A f : Final(f)' = Final(f) /\ Pending(f)' = Pending(f)
    <3>1. Replaced' = Replaced
      BY <2>2 DEF Replaced
    <3> QED
      BY <2>2, <3>1 DEF Final, Pending, NewFunction
  <2>8. CallsCurrent' = CallsCurrent
    BY <2>2, <2>3, <2>7 DEF CallsCurrent
  <2>9. ReturnsPending' = ReturnsPending /\ TailsPending' = TailsPending
    BY <2>2, <2>3, <2>7 DEF ReturnsPending, TailsPending, Changing
  <2> QED
    BY <2>2, <2>4, <2>5, <2>6, <2>8, <2>9 DEF CallsInv
<1> QED
  BY <1>1, <1>2, <1>3, <1>4, <1>5, <1>6, <1>7, <1>8, <1>9, <1>10, <1>11, <1>12 DEF Next

LEMMA CallsInvAlways == Spec => []CallsInv
<1>1. Init => CallsInv
  BY InitCallsInv
<1>2. CallsInv /\ [Next]_protoVars => CallsInv'
  BY NextKeepsCallsInv
<1> QED
  BY <1>1, <1>2, PTL DEF Spec

\* Whatever changeRaisedFunctionReturnType replaces on its way up the tail
\* callers, no raised call is of a Function that was taken out of the module,
\* if the callee is called in one place.
THEOREM CallsAlwaysFollow == Spec => []CallsFollow
<1>1. CallsInv => CallsFollow
  <2> SUFFICES ASSUME CallsInv, pc \in {"raise", "done"} PROVE CallsFollow
    BY DEF CallsFollow
  <2>1. ChainOrdered /\ CallsCurrent
    BY DEF CallsInv
  <2>2. \A f : Final(f) = raised[f]
    BY <2>1, NoChain DEF ChainOrdered
  <2> QED
    BY <2>1, <2>2 DEF CallsCurrent, CallsFollow
<1> QED
  BY <1>1, CallsInvAlways, PTL

\* The returns of a raised function have the return type of its Function in the
\* end, with several exits, and with a tail call of a function raised after it.
THEOREM ReturnsAlwaysTyped == Spec => []ReturnsTyped
<1>1. CallsInv => ReturnsTyped
  <2> SUFFICES ASSUME CallsInv, pc = "done" PROVE ReturnsTyped
    BY DEF ReturnsTyped
  <2>1. ChainOrdered /\ Phases /\ ReturnsPending
    BY DEF CallsInv
  <2>2. \A f \in Funcs : f < cur /\ Pending(f) = raised[f].ret
    BY <2>1, NoChain DEF ChainOrdered, Phases
  <2> QED
    BY <2>1, <2>2 DEF ReturnsPending, ReturnsTyped, LaterCallees
<1> QED
  BY <1>1, CallsInvAlways, PTL

\* A function that only ends in a tail call has the return type of its callee
\* in the end, along any chain of such functions that are raised before it.
THEOREM TailTypesAlwaysFollow == Spec => []TailTypesFollow
<1>1. CallsInv => TailTypesFollow
  <2> SUFFICES ASSUME CallsInv, pc = "done", NEW f \in Funcs, NEW g \in TailCallees(f),
                      SingleExit(f), f < g, CalledOnce(g)
               PROVE  raised[f].ret = raised[g].ret
    BY DEF TailTypesFollow
  <2>1. ChainOrdered /\ Phases /\ Progress /\ TailsPending /\ program \in Programs
    BY DEF CallsInv, Typed
  <2>2. \A h : Pending(h) = raised[h].ret
    BY <2>1, NoChain DEF ChainOrdered
  <2>3. g \in Funcs
    <3>1. \A b \in DOMAIN program[f] : program[f][b].end = "tail" => program[f][b].to \in Funcs
      BY <2>1, ProgramFacts
    <3> QED
      BY <3>1 DEF TailCallees
  <2>4. rets[f] # <<>>
    <3>1. Len(rets[f]) = 1
      BY <2>1 DEF Progress, Phases
    <3>2. Len(<<>>) = 0
      OBVIOUS
    <3> QED
      BY <3>1, <3>2
  <2> QED
    BY <2>1, <2>2, <2>3, <2>4 DEF TailsPending
<1> QED
  BY <1>1, CallsInvAlways, PTL

=============================================================================
