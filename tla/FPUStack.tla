-------------------------------- MODULE FPUStack --------------------------------
(***************************************************************************)
(* The x87 register stack that X86MachineInstructionRaiser keeps while it  *)
(* raises a function: a ring of eight values and the index of the top,     *)
(* one for the function and not one per block.  Blocks are raised one      *)
(* after the other, so that the second arm of a branch is raised with the  *)
(* stack the first arm left.                                               *)
(*                                                                         *)
(* Abstraction: a value is what the instructions compute; that all of them *)
(* are raised in single precision is left out.                             *)
(***************************************************************************)
EXTENDS Integers, Sequences

CONSTANTS FPUValues,        \* the values that are loaded
          Combine(_, _),    \* fadd, fmul and fdiv
          MaxAtBranch       \* the depth at which a branch can be met

FPUSTACK_SZ == 8
Null == "nullptr"
Registers == 0 .. FPUSTACK_SZ - 1

ASSUME FPUAssumption ==
  /\ Null \notin FPUValues /\ MaxAtBranch \in Nat
  /\ \A a, b \in FPUValues : Combine(a, b) \in FPUValues

VARIABLES
  Regs,      \* FPUStack.Regs
  TOP,       \* FPUStack.TOP
  stored,    \* the value of the last store
  failed,    \* an assertion failed
  depth,     \* the depth of the stack in the machine
  saved,     \* the stack of the machine at the last branch
  defined    \* the machine promises something about its stack

fpuVars == <<Regs, TOP, stored, failed, depth, saved, defined>>

FPUInit ==
  /\ Regs = [r \in Registers |-> Null]
  /\ TOP = 0
  /\ stored = <<>>
  /\ failed = FALSE
  /\ depth = 0
  /\ saved = <<>>
  /\ defined = TRUE

-----------------------------------------------------------------------------
(* The accessors. *)

At(top, i) == (FPUSTACK_SZ + top + i) % FPUSTACK_SZ

pushFPURegisterStack(v) ==
  LET PushIndex == (FPUSTACK_SZ + TOP - 1) % FPUSTACK_SZ IN
  Regs' = [Regs EXCEPT ![PushIndex] = v] /\ TOP' = PushIndex

\* Mutant: the popped register keeps its value.
popFPURegisterStack_Keep(regs) == Regs' = regs /\ TOP' = (FPUSTACK_SZ + TOP + 1) % FPUSTACK_SZ

popFPURegisterStack(regs) ==
  Regs' = [regs EXCEPT ![TOP] = Null] /\ TOP' = (FPUSTACK_SZ + TOP + 1) % FPUSTACK_SZ

getFPURegisterStackValueAt(i) == Regs[At(TOP, i)]
setFPURegisterStackValueAt(i, v) == [Regs EXCEPT ![At(TOP, i)] = v]

\* The stack of the machine, read off the ring.
Stack == [k \in 1 .. depth |-> Regs[At(TOP, k - 1)]]

Fail == failed' = TRUE /\ UNCHANGED <<Regs, TOP, stored>>

-----------------------------------------------------------------------------
(* The instructions. *)

\* fld, fild.  Nothing tells whether the register is in use.
raiseLoadIntToFloatRegInstr(v) ==
  /\ pushFPURegisterStack(v)
  /\ depth' = depth + 1
  /\ defined' = (defined /\ depth < FPUSTACK_SZ)
  /\ UNCHANGED <<stored, failed, saved>>

\* fstp.
raiseStoreIntToFloatRegInstr ==
  /\ LET top == getFPURegisterStackValueAt(0) IN
     \/ top = Null /\ Fail
     \/ top # Null /\ stored' = top /\ popFPURegisterStack(Regs) /\ UNCHANGED failed
  /\ depth' = depth - 1
  /\ defined' = (defined /\ depth > 0)
  /\ UNCHANGED saved

\* Mutant: the operands are swapped, as fdivrp has them.
raiseFPURegisterOpInstr_Reversed(i) ==
  /\ LET St0Val == getFPURegisterStackValueAt(0)
         StVal == getFPURegisterStackValueAt(i)
     IN  \/ (St0Val = Null \/ StVal = Null) /\ Fail
         \/ /\ St0Val # Null /\ StVal # Null
            /\ popFPURegisterStack(setFPURegisterStackValueAt(i, Combine(St0Val, StVal)))
            /\ UNCHANGED <<stored, failed>>
  /\ depth' = depth - 1
  /\ defined' = (defined /\ i < depth)
  /\ UNCHANGED saved

\* faddp, fmulp, fdivp.
raiseFPURegisterOpInstr(i) ==
  /\ LET St0Val == getFPURegisterStackValueAt(0)
         StVal == getFPURegisterStackValueAt(i)
     IN  \/ (St0Val = Null \/ StVal = Null) /\ Fail
         \/ /\ St0Val # Null /\ StVal # Null
            /\ popFPURegisterStack(setFPURegisterStackValueAt(i, Combine(StVal, St0Val)))
            /\ UNCHANGED <<stored, failed>>
  /\ depth' = depth - 1
  /\ defined' = (defined /\ i < depth)
  /\ UNCHANGED saved

\* The block ends in a branch; later its other arm is raised, with the stack as it is.
Branch ==
  /\ depth <= MaxAtBranch
  /\ saved' = Stack
  /\ UNCHANGED <<Regs, TOP, stored, failed, depth, defined>>
OtherArm ==
  /\ depth' = Len(saved)
  /\ defined' = (defined /\ Stack = saved)
  /\ UNCHANGED <<Regs, TOP, stored, failed, saved>>

FPUNext ==
  /\ ~failed /\ defined
  /\ \/ \E v \in FPUValues : raiseLoadIntToFloatRegInstr(v)
     \/ raiseStoreIntToFloatRegInstr
     \/ \E i \in Registers : raiseFPURegisterOpInstr(i)
     \/ Branch
     \/ OtherArm

FPUSpec == FPUInit /\ [][FPUNext]_fpuVars

-----------------------------------------------------------------------------
FPUTypeOK ==
  /\ Regs \in [Registers -> FPUValues \cup {Null}]
  /\ TOP \in Registers
  /\ depth \in Nat \/ ~defined

\* The ring holds the stack of the machine and nothing else: the registers above it are
\* empty, so that an instruction that takes more than was pushed finds no stale value.
RingIsTheStack ==
  defined => /\ depth <= FPUSTACK_SZ
             /\ \A k \in 0 .. FPUSTACK_SZ - 1 : Regs[At(TOP, k)] = Null <=> k >= depth

\* Raising gives up only where the machine has no operand.
FailsOnUnderflowOnly == failed => ~defined

X == INSTANCE X87 WITH Values <- FPUValues, stack <- Stack, Size <- FPUSTACK_SZ

\* What is raised for the instructions is what the machine does with its stack.
ImplementsX87 == X!Spec
=============================================================================
