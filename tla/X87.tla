---------------------------------- MODULE X87 ----------------------------------
(***************************************************************************)
(* The register stack of the x87 unit, as the instructions that the raiser *)
(* handles use it: a stack of at most Size values.  At a conditional       *)
(* branch the same stack enters both arms.  Once the stack has over- or    *)
(* underflowed, or an arm was entered with another stack than the branch   *)
(* left, nothing is promised any more (defined is FALSE).                  *)
(***************************************************************************)
EXTENDS Naturals, Sequences

CONSTANTS Size,             \* the number of registers
          Values,           \* the values in them
          Combine(_, _)     \* fadd, fmul and fdiv

VARIABLES stack, stored, saved, defined

machineVars == <<stack, stored, saved, defined>>

NotStored == <<>>

Init ==
  /\ stack = <<>> /\ saved = <<>>
  /\ stored = NotStored
  /\ defined = TRUE

\* fld, fild.
Load(v) ==
  /\ Len(stack) < Size
  /\ stack' = <<v>> \o stack
  /\ UNCHANGED <<stored, saved, defined>>

\* fstp: the top is stored and popped.
Store ==
  /\ stack # <<>>
  /\ stored' = Head(stack)
  /\ stack' = Tail(stack)
  /\ UNCHANGED <<saved, defined>>

\* faddp, fmulp, fdivp: ST(i) and ST(0) are combined into ST(i), ST(0) is popped.
Arith(i) ==
  /\ i < Len(stack)
  /\ stack' = Tail([stack EXCEPT ![i + 1] = Combine(stack[i + 1], stack[1])])
  /\ UNCHANGED <<stored, saved, defined>>

\* A branch is reached, and later its other arm is entered.
Branch == saved' = stack /\ UNCHANGED <<stack, stored, defined>>
OtherArm == stack' = saved /\ UNCHANGED <<stored, saved, defined>>

Next ==
  \/ defined /\ \/ \E v \in Values : Load(v)
                \/ Store
                \/ \E i \in 0 .. Size - 1 : Arith(i)
                \/ Branch
                \/ OtherArm
  \/ ~defined'

Spec == Init /\ [][Next]_machineVars
=============================================================================
