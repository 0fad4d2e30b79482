------------------------------- MODULE StackFrame -------------------------------
(***************************************************************************)
(* How X86MachineInstructionRaiser gives a function a stack frame.  While  *)
(* instructions are raised, every stack reference gets an object of its    *)
(* own, found by its displacement alone (ShadowStackIndexedByOffset); when *)
(* all are raised, createFunctionStackFrame lays the objects out in one    *)
(* allocation.                                                             *)
(*                                                                         *)
(* Abstractions: distances are counted in units of four bytes; the contents *)
(* of memory and the types of the references are left out: what matters is  *)
(* which addresses two references stand for.                               *)
(***************************************************************************)
EXTENDS Integers, Sequences, FiniteSets, FiniteSetsExt

CONSTANTS
  Prologues,      \* the instruction sequences a function can start with
  Instructions,   \* the instructions its body is made of
  MaxBody         \* bound: instructions of the body

PointerSize == 2       \* push and adjustments make objects of eight bytes
Away == 100            \* distance between unrelated parts of memory

Nowhere == 10 * Away   \* what a register has that was not set
Heap == 20 * Away      \* the memory a loaded pointer points to
Registers == {"RSP", "RBP", "RAX"}   \* RAX stands for every other register

Operations == {"push", "pop", "mov", "adjust", "access", "lea", "load", "promote"}

\* base and disp make up the memory operand, index is the value its index register adds,
\* size the size of the access.
Instruction ==
  [op : Operations, base : Registers, disp : Int, index : Int, size : Nat \ {0}]

ASSUME StackFrameAssumption ==
  /\ Instructions \subseteq Instruction
  /\ Prologues \subseteq Seq(Instruction)

VARIABLES
  todo,      \* instructions of the prologue that are left
  body,      \* number of instructions of the body raised
  address,   \* what the machine has in a register, relative to RSP at entry
  value,     \* raised value of a register
  shadow,    \* ShadowStackIndexedByOffset and the objects of MachineFrameInfo
  refs,      \* the references of the body: machine address, size, raised value
  lookups,   \* the displacements looked up, with the address of their base
  marks,     \* what the program did that the layout is not made for
  stage,     \* "raise", "aborted", or after the layout "framed", "hung" or "negative"
  position   \* of the objects in the raised frame

vars == <<todo, body, address, value, shadow, refs, lookups, marks, stage, position>>

\* Raised address: add bytes after the object at offset slot.  form tells what
\* computes it: the alloca itself, an addition, or a load of a promoted value.
Ref(slot, add, form) == [slot |-> slot, add |-> add, form |-> form]
NoValue == Ref(Nowhere, 0, "nullptr")

Init ==
  /\ todo \in Prologues
  /\ body = 0
  /\ address = [r \in Registers |-> IF r = "RSP" THEN 0 ELSE Nowhere]
  /\ value = [r \in Registers |-> NoValue]
  /\ shadow = <<>>
  /\ refs = {} /\ lookups = {}
  /\ marks = {}
  /\ stage = "raise" /\ position = <<>>

-----------------------------------------------------------------------------
(* The shadow stack. *)

Spills == {o \in DOMAIN shadow : shadow[o].isSpillSlot}
Plain == DOMAIN shadow \ Spills

\* Objects that start before an offset and reach past it.
Including(disp) ==
  {o \in DOMAIN shadow : o < disp /\ o + shadow[o].size > disp}

\* The reference of an instruction, or NoValue: then the base is not on the stack.
getStackAllocatedValue(base, disp, isAdjust) ==
  LET CurSPVal == value[base] IN
  IF disp = 0 /\ CurSPVal # NoValue THEN CurSPVal
  ELSE IF CurSPVal # NoValue /\ CurSPVal.form = "add" THEN NoValue
  ELSE IF disp \in DOMAIN shadow THEN Ref(disp, 0, "alloca")
  ELSE IF isAdjust /\ -disp \in DOMAIN shadow THEN Ref(-disp, 0, "alloca")
  ELSE IF Including(disp) # {}
       THEN LET o == Min(Including(disp)) IN Ref(o, disp - o, "add")
  ELSE Ref(disp, 0, "alloca")

Insert(offset, object) ==
  [o \in DOMAIN shadow \cup {offset} |-> IF o = offset THEN object ELSE shadow[o]]

\* A reference to an object that is not there makes it.
Allocate(ref, size) ==
  shadow' = IF ref = NoValue \/ ref.slot \in DOMAIN shadow \cup {Heap} THEN shadow
            ELSE Insert(ref.slot, [size |-> size, isSpillSlot |-> FALSE])

\* Below all objects, when a promotion slot has been put there.
Unreserved(disp) ==
  IF Spills # {} /\ disp # 0 /\ disp < Min(Plain \cup {0}) THEN {"unreserved"} ELSE {}

\* What the properties ask of a lookup.
Note(base, disp, isAdjust, more) ==
  /\ lookups' = lookups \cup {[base |-> address[base], disp |-> disp, adjust |-> isAdjust]}
  /\ marks' = marks \cup more \cup Unreserved(disp)
                 \cup (IF "released" \in marks THEN {"after release"} ELSE {})

-----------------------------------------------------------------------------
(* The instructions. *)

Abort == stage' = "aborted"

\* push: its object is the one RSP stands for, and the one at offset 0 at first.
raisePushInstruction(i) ==
  LET StackRef == getStackAllocatedValue("RSP", 0, FALSE) IN
  /\ address' = [address EXCEPT !["RSP"] = @ - PointerSize]
  /\ value' = [value EXCEPT !["RSP"] = StackRef]
  /\ Allocate(StackRef, PointerSize)
  /\ UNCHANGED <<refs, lookups, marks, stage>>

\* pop and leave raise nothing.
raisePopInstruction(i) ==
  /\ address' = [address EXCEPT !["RSP"] = @ + PointerSize]
  /\ marks' = marks \cup {"released"}
  /\ UNCHANGED <<value, shadow, refs, lookups, stage>>

\* mov %rsp,%rbp
raiseMoveRegToReg(i) ==
  /\ address' = [address EXCEPT !["RBP"] = address["RSP"]]
  /\ value' = [value EXCEPT !["RBP"] = value["RSP"]]
  /\ UNCHANGED <<shadow, refs, lookups, marks, stage>>

\* sub and add of a constant to RSP: it becomes the object at that distance; an add of
\* what a sub took, the object of the sub.
raiseStackPointerAdjust(i) ==
  LET StackRefVal == getStackAllocatedValue("RSP", i.disp, TRUE) IN
  /\ address' = [address EXCEPT !["RSP"] = @ + i.disp]
  /\ Allocate(StackRefVal, PointerSize)
  /\ IF StackRefVal = NoValue THEN Abort /\ UNCHANGED value
     ELSE value' = [value EXCEPT !["RSP"] = StackRefVal] /\ UNCHANGED stage
  /\ IF i.disp < 0 THEN Note("RSP", i.disp, TRUE, {})
     ELSE marks' = marks \cup Unreserved(-i.disp) \cup {"released"} /\ UNCHANGED lookups
  /\ UNCHANGED refs

\* A base plus a constant, for a base that is not on the stack.
getMemoryAddressExprValue(base, disp) ==
  LET v == value[base] IN IF v = NoValue THEN NoValue ELSE Ref(v.slot, v.add + disp, "add")

MemRefValue(i) ==
  LET onStack == getStackAllocatedValue(i.base, i.disp, FALSE) IN
  IF i.base \in {"RSP", "RBP"} /\ onStack # NoValue THEN onStack
  ELSE getMemoryAddressExprValue(i.base, i.disp)

\* The value of the index register is added to the reference.
getMemoryRefValue(i) ==
  LET v == MemRefValue(i) IN
  IF v = NoValue \/ i.index = 0 THEN v ELSE Ref(v.slot, v.add + i.index, "add")

MachineAddress(i) == address[i.base] + i.disp + i.index

\* The object a reference through RSP or RBP makes, and what is noted of it.
Refer(i, more) ==
  IF i.base \in {"RSP", "RBP"}
  THEN Allocate(MemRefValue(i), i.size) /\ Note(i.base, i.disp, FALSE, more)
  ELSE UNCHANGED <<shadow, lookups, marks>>

\* A load or a store.
raiseMemoryAccess(i) ==
  LET v == getMemoryRefValue(i) IN
  /\ Refer(i, {})
  /\ IF v = NoValue THEN Abort /\ UNCHANGED refs
     ELSE /\ refs' = refs \cup {[at |-> MachineAddress(i), size |-> i.size, val |-> v]}
          /\ UNCHANGED stage
  /\ UNCHANGED <<address, value>>

\* lea of a register of the stack: its index is not looked at, and there is no other way
\* to an address than a stack reference.
LeaValue(i) ==
  IF i.base \in {"RSP", "RBP"} THEN getStackAllocatedValue(i.base, i.disp, FALSE)
  ELSE getMemoryAddressExprValue(i.base, i.disp)

raiseLEAMachineInstr(i) ==
  LET v == LeaValue(i)
      moved == i.index # 0 /\ i.base = "RAX"
  IN
  /\ Refer(i, IF i.index # 0 THEN {"indexed lea"} ELSE {})
  /\ address' = [address EXCEPT !["RAX"] = MachineAddress(i)]
  /\ IF v = NoValue THEN Abort /\ UNCHANGED value
     ELSE /\ value' = [value EXCEPT !["RAX"] =
                         IF moved THEN Ref(v.slot, v.add + i.index, "add") ELSE v]
          /\ UNCHANGED stage
  /\ UNCHANGED refs

\* A pointer into other memory is loaded into RBP.
raiseLoadPointer(i) ==
  /\ address' = [address EXCEPT !["RBP"] = Heap]
  /\ value' = [value EXCEPT !["RBP"] = Ref(Heap, 0, "load")]
  /\ UNCHANGED <<shadow, refs, lookups, marks, stage>>

\* getReachingDef: the register reaches the block over several paths and is kept in
\* an object of its own, below all others; from here on it is a load.
\* Mutant: the objects are not searched for the lowest.
StackTopOffset_Zero == 0

StackTopOffset == Min(DOMAIN shadow \cup {0})

promoteReachingDef(i) ==
  /\ shadow' = Insert(StackTopOffset - PointerSize, [size |-> PointerSize, isSpillSlot |-> TRUE])
  /\ value' = IF value[i.base] = NoValue THEN value
              ELSE [value EXCEPT ![i.base].form = "load"]
  /\ UNCHANGED <<address, refs, lookups, marks, stage>>

Raise(i) ==
  /\ CASE i.op = "push" -> raisePushInstruction(i)
       [] i.op = "pop" -> raisePopInstruction(i)
       [] i.op = "mov" -> raiseMoveRegToReg(i)
       [] i.op = "adjust" -> raiseStackPointerAdjust(i)
       [] i.op = "access" -> raiseMemoryAccess(i)
       [] i.op = "lea" -> raiseLEAMachineInstr(i)
       [] i.op = "load" -> raiseLoadPointer(i)
       [] i.op = "promote" -> promoteReachingDef(i)
  /\ UNCHANGED position

-----------------------------------------------------------------------------
(* createFunctionStackFrame. *)

\* The first object that is no promotion slot.
\* Mutant: the first object.
Top_Any == Min(DOMAIN shadow)

Top == Min(Plain)
Last == Max(DOMAIN shadow)

StackFrameSize == Last - Top + shadow[Last].size

\* Mutant: offsets are all counted from the end.
IRStackOffset_FromEnd(o) == IF o = Top THEN 0 ELSE StackFrameSize + o

IRStackOffset(o) ==
  IF o = Top THEN 0 ELSE IF o < 0 THEN StackFrameSize + o ELSE o

\* Each promotion slot stays an allocation of its own.
Placed(o) == IF o \in Spills THEN Away * (1 - o) ELSE IRStackOffset(o)

\* The loop over the objects after the top does not get past a promotion slot.
Stops == {o \in DOMAIN shadow : o > Top /\ (o \in Spills \/ IRStackOffset(o) < 0)}

createFunctionStackFrame ==
  /\ stage = "raise" /\ todo = <<>>
  /\ IF Cardinality(DOMAIN shadow) <= 1 \/ Plain = {}
     THEN stage' = "framed" /\ position' = [o \in DOMAIN shadow |-> Away * (1 - o)]
     ELSE IF Stops # {}
     THEN /\ stage' = IF Min(Stops) \in Spills THEN "hung" ELSE "negative"
          /\ UNCHANGED position
     ELSE stage' = "framed" /\ position' = [o \in DOMAIN shadow |-> Placed(o)]
  /\ UNCHANGED <<todo, body, address, value, shadow, refs, lookups, marks>>

-----------------------------------------------------------------------------
RaisePrologue ==
  /\ stage = "raise" /\ todo # <<>>
  /\ Raise(Head(todo))
  /\ todo' = Tail(todo) /\ UNCHANGED body

\* A register is used only after it was set.
RaiseBody ==
  /\ stage = "raise" /\ todo = <<>> /\ body < MaxBody
  /\ \E i \in Instructions : address[i.base] # Nowhere /\ Raise(i)
  /\ body' = body + 1 /\ UNCHANGED todo

Next == RaisePrologue \/ RaiseBody \/ createFunctionStackFrame

Spec == Init /\ [][Next]_vars

-----------------------------------------------------------------------------
(* The frames the layout is made for. *)

Moves == {l \in lookups : l.adjust}
References == {l \in lookups \ Moves : ~(l.base = Heap /\ l.disp = 0)}

\* Locals below one address A, all of them referred to by their distance from it, or at
\* the address the stack pointer was moved to from there. Nothing refers to bytes below the
\* object its pointer points into.
Below(A) ==
  /\ \A l \in References :
       \/ l.base = A /\ l.disp <= 0
       \/ l.disp = 0 /\ \E m \in Moves : m.base = A /\ l.base = A + m.disp
  /\ \A r \in refs : r.val.slot = Heap \/ (r.val.add >= 0 /\ r.at + r.size <= A)

\* Locals above the stack pointer, which is moved once, to A.
Above(A) ==
  /\ \A l \in References : l.base = A /\ l.disp >= 0
  /\ \E m \in Moves : Moves = {m} /\ m.base + m.disp = A

Overlap(a, m, b, n) == a < b + n /\ b < a + m

\* The last object ends where the frame of the caller begins, or it is the saved RBP,
\* which sets the object at the top apart: then nothing reaches from there to the others.
Even(A) ==
  LET e == Last + shadow[Last].size IN
  \/ e = 0
  \/ /\ e > 0
     /\ \A r, s \in refs : r.val.slot = Top /\ s.val.slot # Top =>
                             ~Overlap(r.at, r.size, s.at, s.size)

Bases == {l.base : l \in References} \ {Heap}

Regular ==
  /\ marks \subseteq {"released"}
  /\ Plain = {} \/ \E A \in Bases : Above(A) \/ (Below(A) /\ Even(A))

RaisedAddress(v) == (IF v.slot = Heap THEN Heap ELSE position[v.slot]) + v.add

\* Two references of a regular frame touch the same bytes of the raised frame exactly
\* when they do so in the machine, and then at the same distance.
AccessesAgree ==
  stage = "framed" /\ Regular =>
    \A r, s \in refs :
      LET a == RaisedAddress(r.val)  b == RaisedAddress(s.val) IN
      Overlap(r.at, r.size, s.at, s.size) \/ Overlap(a, r.size, b, s.size) =>
        r.at - s.at = a - b

\* No reference of a program is to an object that keeps a promoted register.
SlotsPrivate == "unreserved" \notin marks => \A r \in refs : r.val.slot \notin Spills

\* Laying out a regular frame comes to an end and its offsets are not negative.
FrameCompletes == Regular => stage \notin {"hung", "negative"}
=============================================================================
