------------------------------- MODULE Prototypes -------------------------------
(***************************************************************************)
(* The return types of the raised functions (ModuleRaiser.cpp, X86): first *)
(* runMachineFunctionPasses constructs the prototypes of the functions in  *)
(* their order, then it raises them in that order.  Raising a return can   *)
(* show that the discovered type was wrong; the function is then replaced  *)
(* by a new one, in the calls to it that have been raised, and in turn in  *)
(* the functions that tail-call it (changeRaisedFunctionReturnType).       *)
(*                                                                         *)
(* A function is abstracted to what the return register sees of it: blocks *)
(* that define it and call functions; the first one leads to all others.   *)
(***************************************************************************)
EXTENDS Integers, Sequences, FiniteSets, FiniteSetsExt, SequencesExt

CONSTANT Programs    \* the modules considered: sequences of functions

Types == {"void", "i32", "i64"}

\* A definition of RAX or EAX, or a call of the function number to.
Ops == [op : {"def"}, type : Types \ {"void"}] \cup [op : {"call"}, to : Nat]

\* fork: goes on in one of the blocks after the first; tail: a jump to another
\* function (one to the own entry is a branch).
Blocks == [ops : Seq(Ops), end : {"fork", "ret"}] \cup
          [ops : Seq(Ops), end : {"tail"}, to : Nat]

ASSUME ProgramsAssumption ==
  \A p \in Programs :
    /\ p \in Seq(Seq(Blocks))
    /\ \A f \in DOMAIN p : p[f] # <<>> /\ \A b \in DOMAIN p[f] :
         /\ p[f][b].end = "fork" <=> b = 1 /\ Len(p[f]) > 1
         /\ p[f][b].end = "tail" => p[f][b].to \in DOMAIN p \ {f}
         /\ \A i \in DOMAIN p[f][b].ops :
              p[f][b].ops[i].op = "call" => p[f][b].ops[i].to \in DOMAIN p

VARIABLES
  program,    \* MFRaiserVector
  pc,         \* "prototypes", "raise", "change", "done"; "aborted"
  pass,       \* Idx, the iteration over the prototypes
  cur,        \* the function that is next
  block,      \* the block of it that is next
  inst,       \* the instruction of the block that is next
  raised,     \* RaisedFunction of each function
  calls,      \* the calls raised so far
  rets,       \* the return instructions of each function
  value,      \* the value of the return register
  rax,        \* its value at the end of the first block
  chain,      \* the functions whose return type is being changed
  newType     \* NewRetTy

protoVars ==
  <<program, pc, pass, cur, block, inst, raised, calls, rets, value, rax, chain, newType>>

Funcs == DOMAIN program

\* A Function object.  One that is replaced makes room for the next version.
NoFunction == [fn |-> 0, version |-> 0, ret |-> "void"]
NewFunction(f, T) == [fn |-> f, version |-> raised[f].version + 1, ret |-> T]

\* Values of the return register: undefined, a definition, or a call.
NoValue == -1
SomeDef == 0

Init ==
  /\ program \in Programs
  /\ pc = "prototypes"
  /\ pass = 1
  /\ cur = 1
  /\ block = 1 /\ inst = 1
  /\ raised = [f \in Funcs |-> NoFunction]
  /\ calls = <<>>
  /\ rets = [f \in Funcs |-> <<>>]
  /\ value = NoValue /\ rax = NoValue
  /\ chain = <<>>
  /\ newType = "void"

-----------------------------------------------------------------------------
(* getRaisedFunctionPrototype *)

\* getCalledFunction: null as long as the callee has no prototype.
getCalledFunction(f) == raised[f]

\* getReturnTypeFromMBB: only what follows the last call or definition counts.
TypeOfOp(o) == IF o.op = "def" THEN o.type ELSE getCalledFunction(o.to).ret

getReachingReturnType(f, b) ==
  LET own == program[f][b].ops
      ops == IF own # <<>> THEN own ELSE program[f][1].ops
  IN  IF ops = <<>> THEN "void" ELSE TypeOfOp(Last(ops))

ReturnBlocks(f) == {b \in DOMAIN program[f] : program[f][b].end = "ret"}

\* The callees of tail calls whose type is known, each of which may be the one
\* that the traversal of the blocks meets last.
TailCallTypes(f) ==
  {getCalledFunction(program[f][b].to).ret :
     b \in {c \in DOMAIN program[f] :
              /\ program[f][c].end = "tail"
              /\ getCalledFunction(program[f][c].to) # NoFunction}}

DiscoveredTypes(f) ==
  IF TailCallTypes(f) # {} THEN TailCallTypes(f)
  ELSE IF ReturnBlocks(f) = {} THEN {"void"}
  ELSE {getReachingReturnType(f, Min(ReturnBlocks(f)))}

\* A function that has a prototype keeps it in the second iteration.
ConstructPrototype ==
  /\ pc = "prototypes"
  /\ cur \in Funcs
  /\ IF raised[cur] # NoFunction THEN UNCHANGED raised
     ELSE \E T \in DiscoveredTypes(cur) :
            raised' = [raised EXCEPT ![cur] = NewFunction(cur, T)]
  /\ cur' = cur + 1
  /\ UNCHANGED <<program, pc, pass, block, inst, calls, rets, value, rax, chain, newType>>

\* Mutant: iterate until every function returns a value.
EndIteration_UntilTyped ==
  /\ pc = "prototypes"
  /\ cur \notin Funcs
  /\ cur' = 1
  /\ pass' = 2
  /\ pc' = IF \A f \in Funcs : raised[f].ret # "void" THEN "raise" ELSE "prototypes"
  /\ UNCHANGED <<program, block, inst, raised, calls, rets, value, rax, chain, newType>>

EndIteration ==
  /\ pc = "prototypes"
  /\ cur \notin Funcs
  /\ cur' = 1
  /\ pass' = pass + 1
  /\ pc' = IF pass = 2 THEN "raise" ELSE "prototypes"
  /\ UNCHANGED <<program, block, inst, raised, calls, rets, value, rax, chain, newType>>

-----------------------------------------------------------------------------
(* raiseMachineFunction, one instruction at a time. *)

Raising == pc = "raise" /\ cur \in Funcs /\ block \in DOMAIN program[cur]
Block == program[cur][block]

Inside == Raising /\ inst \in DOMAIN Block.ops
AtEnd == Raising /\ inst \notin DOMAIN Block.ops
Op == Block.ops[inst]

\* The call of a Function, by an instruction or by the jump at the end of a block.
NewCall(to, tail) ==
  [by |-> cur, block |-> block, inst |-> inst, target |-> raised[to], tail |-> tail]

RaiseDef ==
  /\ Inside
  /\ Op.op = "def"
  /\ value' = SomeDef
  /\ inst' = inst + 1
  /\ UNCHANGED <<program, pc, pass, cur, block, raised, calls, rets, rax, chain, newType>>

\* A call of a void function leaves the register as it is.
RaiseCall ==
  /\ Inside
  /\ Op.op = "call"
  /\ calls' = Append(calls, NewCall(Op.to, FALSE))
  /\ value' = IF raised[Op.to].ret = "void" THEN value ELSE Len(calls')
  /\ inst' = inst + 1
  /\ UNCHANGED <<program, pc, pass, cur, block, raised, rets, rax, chain, newType>>

AddReturn(T, val) ==
  rets' = [rets EXCEPT ![cur] = Append(@, [type |-> T,
             calls |-> IF val > 0 /\ T # "void" THEN {val} ELSE {}])]

ChangeReturnType(T) ==
  IF raised[cur].ret = T THEN UNCHANGED <<pc, chain, newType>>
  ELSE pc' = "change" /\ chain' = <<cur>> /\ newType' = T

NextBlock ==
  /\ block' = block + 1 /\ inst' = 1
  /\ value' = rax'
  /\ UNCHANGED <<program, pass, cur, raised>>

RaiseFork ==
  /\ AtEnd
  /\ Block.end = "fork"
  /\ rax' = value
  /\ NextBlock
  /\ UNCHANGED <<pc, calls, rets, chain, newType>>

\* raiseReturnMachineInstr: without a value the function becomes void.
RaiseReturn ==
  /\ AtEnd
  /\ Block.end = "ret"
  /\ LET T == IF value = NoValue THEN "void" ELSE raised[cur].ret
     IN  AddReturn(T, value) /\ ChangeReturnType(T)
  /\ UNCHANGED <<calls, rax>>
  /\ NextBlock

\* Mutant: the caller keeps its return type.
RaiseTailCall_KeepType ==
  /\ AtEnd
  /\ Block.end = "tail"
  /\ calls' = Append(calls, NewCall(Block.to, TRUE))
  /\ AddReturn(raised[Block.to].ret, Len(calls'))
  /\ UNCHANGED <<rax, pc, chain, newType>>
  /\ NextBlock

\* raiseCallMachineInstr, for a jump: the function gets the type of a callee
\* that is not void.
RaiseTailCall ==
  /\ AtEnd
  /\ Block.end = "tail"
  /\ calls' = Append(calls, NewCall(Block.to, TRUE))
  /\ LET T == raised[Block.to].ret
     IN  /\ AddReturn(T, Len(calls'))
         /\ IF T = "void" THEN UNCHANGED <<pc, chain, newType>> ELSE ChangeReturnType(T)
  /\ UNCHANGED rax
  /\ NextBlock

\* UnifyFunctionExitNodes: several returns become one, of the function's type,
\* which takes a value of that type from each of them.
EndFunction ==
  /\ pc = "raise"
  /\ cur \in Funcs
  /\ block \notin DOMAIN program[cur]
  /\ LET T == raised[cur].ret
         all == rets[cur]
     IN  IF Len(all) > 1 /\ T # "void" /\ \E i \in DOMAIN all : all[i].type # T
         THEN pc' = "aborted" /\ UNCHANGED rets
         ELSE /\ rets' = IF Len(all) < 2 THEN rets
                         ELSE [rets EXCEPT ![cur] =
                                 <<[type |-> T,
                                    calls |-> IF T = "void" THEN {} ELSE
                                              UNION {all[i].calls : i \in DOMAIN all}]>>]
              /\ pc' = IF cur = Len(program) THEN "done" ELSE "raise"
  /\ cur' = cur + 1
  /\ block' = 1 /\ inst' = 1
  /\ value' = NoValue /\ rax' = NoValue
  /\ UNCHANGED <<program, pass, raised, calls, chain, newType>>

-----------------------------------------------------------------------------
(* changeRaisedFunctionReturnType *)

Changing == Last(chain)

\* The users of the function being replaced, newest first, are walked while
\* each is taken off the list: the walk ends at the first one.
Users(f) == {c \in DOMAIN calls : calls[c].target = raised[f]}
FirstUser == Max(Users(Changing))

ValueUsed(c) == \E i \in DOMAIN rets[calls[c].by] : c \in rets[calls[c].by][i].calls

\* Mutant: only the function that was last is replaced.
FinishChange_Last ==
  /\ raised' = [raised EXCEPT ![Changing] = NewFunction(Changing, newType)]
  /\ pc' = "raise"
  /\ chain' = <<>>

\* The recursion returns: every function on the chain is replaced.
FinishChange ==
  /\ raised' = [f \in Funcs |-> IF f \in ToSet(chain)
                                THEN NewFunction(f, newType) ELSE raised[f]]
  /\ pc' = "raise"
  /\ chain' = <<>>

NoUsers ==
  /\ pc = "change"
  /\ Users(Changing) = {}
  /\ FinishChange
  /\ UNCHANGED <<program, pass, cur, block, inst, calls, rets, value, rax, newType>>

\* Mutant: the call keeps calling the old Function.
Retarget_OldFunction(c) == c \in DOMAIN calls /\ UNCHANGED calls

Retarget(c) == calls' = [calls EXCEPT ![c].target = NewFunction(Changing, newType)]

ChangeCall ==
  /\ pc = "change"
  /\ Users(Changing) # {}
  /\ ~calls[FirstUser].tail
  /\ IF newType = "void" /\ ValueUsed(FirstUser)
     THEN pc' = "aborted" /\ UNCHANGED <<calls, raised, chain>>
     ELSE Retarget(FirstUser) /\ FinishChange
  /\ UNCHANGED <<program, pass, cur, block, inst, rets, value, rax, newType>>

\* The first return of the caller is replaced, then the caller itself.  A
\* function on the chain has no raiser until its change is finished.
ChangeTailCall ==
  /\ pc = "change"
  /\ Users(Changing) # {}
  /\ calls[FirstUser].tail
  /\ LET by == calls[FirstUser].by
     IN  IF (newType = "void" /\ ValueUsed(FirstUser)) \/ by \in ToSet(chain)
         THEN pc' = "aborted" /\ UNCHANGED <<calls, rets, raised, chain>>
         ELSE /\ Retarget(FirstUser)
              /\ rets' = [rets EXCEPT ![by][1] =
                            [type |-> newType,
                             calls |-> IF newType = "void" THEN {} ELSE {FirstUser}]]
              /\ IF raised[by].ret = newType THEN FinishChange
                 ELSE chain' = Append(chain, by) /\ UNCHANGED <<pc, raised>>
  /\ UNCHANGED <<program, pass, cur, block, inst, value, rax, newType>>

Stopped == pc \in {"done", "aborted"} /\ UNCHANGED protoVars

Next ==
  \/ ConstructPrototype \/ EndIteration
  \/ RaiseDef \/ RaiseCall \/ RaiseFork \/ RaiseReturn \/ RaiseTailCall \/ EndFunction
  \/ NoUsers \/ ChangeCall \/ ChangeTailCall
  \/ Stopped

Spec == Init /\ [][Next]_protoVars

\* One thread raises the module.
FairSpec == Spec /\ WF_protoVars(Next)

-----------------------------------------------------------------------------
(* Properties *)

\* The places where a function is called: function, block, and instruction of the block,
\* or what follows the last one for a tail call.
Places ==
  UNION {UNION {{<<f, b, i>> : i \in 1..(Len(program[f][b].ops) + 1)}
                  : b \in DOMAIN program[f]} : f \in Funcs}

Calls(f, b, i, g) ==
  IF i \in DOMAIN program[f][b].ops
  THEN program[f][b].ops[i].op = "call" /\ program[f][b].ops[i].to = g
  ELSE program[f][b].end = "tail" /\ program[f][b].to = g

CallSites(g) == {s \in Places : Calls(s[1], s[2], s[3], g)}
CalledOnce(g) == \E s \in CallSites(g) : CallSites(g) = {s}

TailCallees(f) ==
  {program[f][b].to : b \in {c \in DOMAIN program[f] : program[f][c].end = "tail"}}
SingleExit(f) == Len(program[f]) <= 2

\* changeRaisedFunctionReturnType leaves no call of a Function that it takes
\* out of the module, if the callee is called in one place.
CallsFollow ==
  pc \in {"raise", "done"} =>
    \A c \in DOMAIN calls :
      CalledOnce(calls[c].target.fn) => calls[c].target = raised[calls[c].target.fn]

\* The returns of a raised function have its return type, whatever was found
\* out about its tail callees meanwhile, if it has several, or if its tail callee
\* is raised after it.
ReturnsTyped ==
  pc = "done" =>
    \A f \in Funcs :
      (SingleExit(f) => \A g \in TailCallees(f) : f < g) =>
        \A i \in DOMAIN rets[f] : rets[f][i].type = raised[f].ret

\* A function whose only exit is a tail call ends up with the type that its
\* callee ends up with, though the callee is raised after it.
TailTypesFollow ==
  pc = "done" =>
    \A f \in Funcs : \A g \in TailCallees(f) :
      SingleExit(f) /\ f < g /\ CalledOnce(g) => raised[f].ret = raised[g].ret

\* The iterations over the prototypes, and the recursion over the tail callers
\* whose type changes, come to an end.
RaisingEnds == <>(pc \in {"done", "aborted"})

=============================================================================
