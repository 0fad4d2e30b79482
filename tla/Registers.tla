-------------------------------- MODULE Registers --------------------------------
(***************************************************************************)
(* The general registers in the raised code: how                           *)
(* X86MachineInstructionRaiser.cpp moves integers between registers and    *)
(* memory.  A register of the machine is 64 bits wide and an instruction   *)
(* writes all of it, its lower half with zeros above, or 16 or 8 bits of   *)
(* it and keeps the rest.  The raiser knows one value of one width for     *)
(* each register, the one that was written last, and casts it when a read  *)
(* wants another width.  The same handlers keep the value sets of module   *)
(* ValueSets, which follow the same registers and slots as constants.      *)
(*                                                                         *)
(* Abstraction: the raised program runs beside the machine, in one block.  *)
(* Memory is a few slots of the frame.  In the raised code they are stack  *)
(* objects, which are found by the displacement of a reference and not by  *)
(* the slot it means; all have 64 bits, and none overlaps another (module  *)
(* StackFrame is about their layout).  Operands in other memory,           *)
(* immediates that are addresses of globals, and the flags (module Eflags) *)
(* are left out.  A byte has ByteBits bits.                                *)
(***************************************************************************)
EXTENDS Integers, FiniteSets, TLC

CONSTANTS ByteBits,    \* the bits of a byte
          Inits,       \* the 64-bit numbers the registers and the slots start with
          Imms,        \* the immediates
          Dests, Sources,  \* the registers the moves write and read
          Slots,       \* the slots, by their distance from the stack pointer at the entry
          MaxInsts,    \* how many instructions run, ...
          MaxFromZero  \* ... and how many if everything starts as 0

Regs == {"A", "B", "D"}
Parts == {"b", "h", "w", "d", "q"}   \* AL, AH, AX, EAX, RAX
Size == [b |-> 1, h |-> 1, w |-> 2, d |-> 4, q |-> 8]
Width(p) == Size[p] * ByteBits
Wide == {"w", "d", "q"}

Pow(n) == 2^n
Modulus(p) == Pow(Width(p))
Low(v, p) == v % Modulus(p)
Signed(v, p) == IF v >= Modulus(p) \div 2 THEN v - Modulus(p) ELSE v
Quad == 0 .. Modulus("q") - 1

ASSUME RegistersAssumption ==
  /\ ByteBits \in Nat \ {0}
  /\ Inits \subseteq Quad /\ Imms \subseteq Int
  /\ Slots \subseteq Int /\ \A s \in Slots : s % 8 = 0
  /\ Dests \subseteq Regs /\ Sources \subseteq Regs
  /\ MaxInsts \in Nat /\ MaxFromZero \in Nat

VARIABLES
  reg, mem, sp,    \* the machine: its registers, the slots and its stack pointer
  val,             \* the raised value of each register: a number and its width in bytes
  rmem,            \* the contents of the stack objects in the raised code
  made,            \* the stack objects there are (ShadowStackIndexedByOffset)
  top,             \* the stack object that is the raised value of RSP
  vs,              \* alocToVSMap
  covered,         \* how many bytes of a register its raised value stands for
  slotIn,          \* the slot whose contents an object has
  stale,           \* the locations whose value sets need not be right
  fromZero,        \* everything was 0 at the start, in 64 bits, the slots written
  insts            \* the number of instructions so far

machineVars == <<reg, mem, sp>>
raisedVars == <<val, rmem, made, top>>
ghostVars == <<covered, slotIn, stale>>
registersVars == <<machineVars, raisedVars, vs, ghostVars, fromZero, insts>>

\* Abstract locations (AlocType).
R(r) == <<"register", r>>
LocalMem(n) == <<"local", n>>
GlobalMem(n) == <<"global", n>>

VS == INSTANCE ValueSets WITH Limit <- Modulus("q") \div 2

-----------------------------------------------------------------------------
(* The machine. *)

ReadPart(v, p) == IF p = "h" THEN Low(v \div Modulus("b"), "b") ELSE Low(v, p)
WritePart(old, p, x) ==
  CASE p = "q" -> x
    [] p = "d" -> x
    [] p = "h" -> old - ReadPart(old, "h") * Modulus("b") + x * Modulus("b")
    [] OTHER   -> old - Low(old, p) + x

\* A slot in memory: the lower bytes are replaced.
StorePart(old, p, x) == old - Low(old, p) + x

-----------------------------------------------------------------------------
(* Values in the raised code. *)

Value(v, n) == [v |-> v, n |-> n]
Pow8(n) == Pow(n * ByteBits)
ValueSigned(x) == IF x.v >= Pow8(x.n) \div 2 THEN x.v - Pow8(x.n) ELSE x.v

\* Mutant: a signed source is extended with zeros.
castValue_Unsigned(x, n, signed) == Value(x.v % Pow8(n), n)

\* castValue: truncation or extension, with the sign if the source is signed.
castValue(x, n, signed) == Value((IF signed THEN ValueSigned(x) ELSE x.v) % Pow8(n), n)

\* getRegOperandValue and getPhysRegValue, for a register that has a value.
getRegOperandValue(r, p) ==
  IF p = "h" THEN castValue(Value(castValue(val[r], 2, FALSE).v \div Pow8(1), 2), 1, FALSE)
  ELSE castValue(val[r], Size[p], FALSE)

\* An instruction reads a part of a register that the raised value stands for.
Covers(r, p) == IF p = "h" THEN covered[r] >= 2 ELSE covered[r] >= Size[p]

\* The bytes of the register that are right after a write of this part: a write of 32
\* bits clears the rest, a narrower one keeps what the raised value has no part of.
CoveredBy(p) ==
  CASE p \in {"q", "d"} -> 8 [] p = "w" -> 2 [] p = "b" -> 1 [] OTHER -> 0

\* A write of a register: x in the machine, y in the raised code (setPhysRegSSAValue, which
\* keeps one value for the 64-bit register), from operands that are right or not.
Write(r, p, x, y, right) ==
  /\ reg' = [reg EXCEPT ![r] = WritePart(@, p, x)]
  /\ val' = [val EXCEPT ![r] = y]
  /\ covered' = [covered EXCEPT ![r] = IF right THEN CoveredBy(p) ELSE 0]

-----------------------------------------------------------------------------
(* Stack objects, by the displacement of the reference that made them. *)

Objects == {s - t : s \in Slots, t \in Slots \cup {0}} \cup {-8, 0, 8}
Nothing == 1   \* no object, no slot: both are multiples of 8

\* getStackAllocatedValue: a reference without displacement is to the object that is the
\* value of RSP, wherever RSP points by now.
ObjectAt(disp) == IF disp = 0 /\ top # Nothing THEN top ELSE disp

\* The same for an adjustment of RSP, which may also take the object of the opposite
\* displacement.
AdjustedObject(by) == IF by \notin made /\ -by \in made THEN -by ELSE by

\* A reference to a slot goes through RSP.
ObjectOf(s) == ObjectAt(s - sp)
Right(s) == slotIn[ObjectOf(s)] = s
Load(s, p) == Low(mem[s], p)
RaisedLoad(s, p) == Low(rmem[ObjectOf(s)], p)

\* A write of a slot, which the raised code makes to the object o: o has the contents of
\* the slot if all of it was written, or if it had them before, and no other object has.
StoreTo(o, s, p, x, y, right) ==
  /\ mem' = [mem EXCEPT ![s] = StorePart(@, p, x)]
  /\ rmem' = [rmem EXCEPT ![o] = StorePart(@, p, castValue(y, Size[p], FALSE).v)]
  /\ made' = made \cup {o}
  /\ slotIn' = [q \in Objects |->
                 IF q = o THEN IF right /\ (p = "q" \/ slotIn[o] = s) THEN s ELSE Nothing
                 ELSE IF slotIn[q] = s THEN Nothing ELSE slotIn[q]]

Store(s, p, x, y, right) == StoreTo(ObjectOf(s), s, p, x, y, right)

\* A read makes the object, too.
Refer(s) == made' = made \cup {ObjectOf(s)} /\ UNCHANGED <<mem, rmem, slotIn>>

KeepMemory == UNCHANGED <<mem, rmem, made, slotIn>>
KeepRSP == UNCHANGED <<sp, top>>
KeepRegisters == UNCHANGED <<reg, val, covered>>

\* The value set of a location is right from now on, or it need not be.
Trust(a, right) == stale' = IF right THEN stale \ {a} ELSE stale \cup {a}

\* The location of a frame reference: the displacement and the constant of the base.
LocalMemLoc(disp) == LocalMem(VS!Wrapped(disp + (IF VS!HasConstant(vs, R("RSP"))
                                                  THEN VS!ConstantAt(vs, R("RSP")) ELSE 0)))
SlotLoc(s) == LocalMemLoc(s - sp)

Bound == insts < (IF fromZero THEN MaxFromZero ELSE MaxInsts)
Step == Bound /\ insts' = insts + 1 /\ UNCHANGED fromZero

\* The other handlers leave the value sets alone.
Untracked(a) == vs' = vs /\ Trust(a, FALSE)

-----------------------------------------------------------------------------
(* Moves of immediates and registers. *)

\* The immediates of a form: 32 bits for MOV64ri32, all of the register otherwise.
Fits(imm, n) == -Pow8(n) \div 2 <= imm /\ imm < Pow8(n) \div 2
Immediate(imm, n) == Value(imm % Pow8(n), n)

\* raiseMoveImmToRegMachineInstr.  The value set is the one of the constant, or of 0 if
\* the constant had to be cast.
MOVri(r, p, imm, n) ==
  /\ Step /\ Fits(imm, n) /\ n \in (IF p = "q" THEN {4, 8} ELSE {Size[p]})
  /\ LET y == castValue(Immediate(imm, n), Size[p], n = 4)
     IN /\ Write(r, p, imm % Modulus(p), y, TRUE)
        /\ vs' = VS!assignValueConst(vs, R(r), IF n = Size[p] THEN ValueSigned(y) ELSE 0)
        /\ Trust(R(r), (p = "q" /\ n = 8) \/ (p = "d" /\ imm >= 0))
  /\ KeepMemory /\ KeepRSP

\* raiseMoveRegToRegMachineInstr: MOV8rr .. MOV64rr.
MOVrr(r, p, s, q) ==
  /\ Step /\ Size[p] = Size[q]
  /\ Write(r, p, ReadPart(reg[s], q), getRegOperandValue(s, q), Covers(s, q))
  /\ vs' = VS!assignValueToSrc(vs, R(r), R(s))
  /\ Trust(R(r), p = "q" /\ R(s) \notin stale)
  /\ KeepMemory /\ KeepRSP

Extend(x, q, p, signed) == (IF signed THEN Signed(x, q) ELSE x) % Modulus(p)

\* MOVSX and MOVZX from a register.
MOVXrr(r, p, s, q, signed) ==
  /\ Step /\ Size[q] < Size[p] /\ (q = "d" => signed)
  /\ Write(r, p, Extend(ReadPart(reg[s], q), q, p, signed),
           castValue(getRegOperandValue(s, q), Size[p], signed), Covers(s, q))
  /\ Untracked(R(r)) /\ KeepMemory /\ KeepRSP

\* CMOVcc; whether the condition holds is the business of module Eflags.
CMOVrr(r, p, s, holds) ==
  /\ Step
  /\ Write(r, p, ReadPart(IF holds THEN reg[s] ELSE reg[r], p),
           IF holds THEN getRegOperandValue(s, p) ELSE castValue(val[r], Size[p], FALSE),
           Covers(IF holds THEN s ELSE r, p))
  /\ Untracked(R(r)) /\ KeepMemory /\ KeepRSP

Half == [w |-> "b", d |-> "w", q |-> "d"]

\* raiseConvertBWWDDQMachineInstr: CBW, CWDE, CDQE.
ConvertInPlace(p) ==
  /\ Step
  /\ Write("A", p, Extend(ReadPart(reg["A"], Half[p]), Half[p], p, TRUE),
           castValue(getRegOperandValue("A", Half[p]), Size[p], TRUE), Covers("A", Half[p]))
  /\ Untracked(R("A")) /\ KeepMemory /\ KeepRSP

\* raiseConvertWDDQQOMachineInstr: CWD, CDQ, CQO.  The value is extended to twice its
\* width, shifted right by its width and truncated.
ConvertToPair(p) ==
  /\ Step
  /\ LET x == castValue(val["A"], Size[p], FALSE)
         high == castValue(x, 2 * Size[p], TRUE).v \div Pow8(Size[p])
     IN Write("D", p, IF Signed(ReadPart(reg["A"], p), p) < 0 THEN Modulus(p) - 1 ELSE 0,
              castValue(Value(high, 2 * Size[p]), Size[p], FALSE), Covers("A", p))
  /\ Untracked(R("D")) /\ KeepMemory /\ KeepRSP

\* The part of raiseBinaryOpRegToRegMachineInstr that clears a register: XOR r, r.
XORself(r, p) ==
  /\ Step
  /\ Write(r, p, 0, Value(0, Size[p]), TRUE)
  /\ vs' = VS!xorValueWithSrc(vs, R(r), R(r)) /\ Trust(R(r), p \in {"d", "q"})
  /\ KeepMemory /\ KeepRSP

-----------------------------------------------------------------------------
(* Immediate operands and addresses. *)

\* raiseBinaryOpImmToRegMachineInstr: ADD and SUB.
AddImm(r, p, imm, sub) ==
  /\ Step /\ Fits(imm, Size[p])
  /\ LET by == IF sub THEN -imm ELSE imm
     IN /\ Write(r, p, (ReadPart(reg[r], p) + by) % Modulus(p),
                 Value((getRegOperandValue(r, p).v + by) % Pow8(Size[p]), Size[p]), Covers(r, p))
        /\ vs' = VS!addValueWithImmTimes(vs, R(r), imm, IF sub THEN -1 ELSE 1)
        /\ Trust(R(r), p = "q" /\ R(r) \notin stale)
  /\ KeepMemory /\ KeepRSP

\* The same on RSP.
MoveSP(by) ==
  /\ Step /\ sp + by \in Slots \cup {0}
  /\ sp' = sp + by
  /\ top' = AdjustedObject(by)
  /\ made' = made \cup {AdjustedObject(by)}
  /\ vs' = VS!addValueWithImm(vs, R("RSP"), by)
  /\ KeepRegisters /\ UNCHANGED <<mem, rmem, slotIn, stale>>

\* raiseLEAMachineInstr with getMemoryAddressExprValue: LEA64r and LEA64_32r.  The base has
\* the width of its raised value unless there is an index; the sum is cast at the end.
None == "none"
LEA(r, p, base, index, scale, disp) ==
  /\ Step
  /\ LET scaled == getRegOperandValue(index, "q").v * scale
         b == IF index = None THEN val[base] ELSE castValue(val[base], 8, FALSE)
         sum == Value((b.v + disp + (IF index = None THEN 0 ELSE scaled)) % Pow8(b.n), b.n)
         operands == {base, index} \ {None}
         machine == reg[base] + disp + (IF index = None THEN 0 ELSE reg[index] * scale)
         shifted == IF disp = 0 THEN VS!assignZeroRic(vs, R("temp"))
                    ELSE VS!addValueWithImm(VS!assignZeroRic(vs, R("temp")), R("temp"), disp)
         based == VS!addValueWithSrc(shifted, R("temp"), R(base))
         temp == IF index = None THEN based ELSE VS!addValueWithSrcTimes(based, R("temp"), R(index), scale)
     IN /\ Write(r, p, Low(machine, p), castValue(sum, Size[p], FALSE),
                 /\ \A o \in operands : covered[o] = 8
                 /\ index # None \/ disp = 0 \/ val[base].n >= Size[p])
        /\ vs' = VS!assignValueToSrc(temp, R(r), R("temp"))
        /\ Trust(R(r), p = "q" /\ stale \cap {R(o) : o \in operands} = {})
  /\ KeepMemory /\ KeepRSP

-----------------------------------------------------------------------------
(* Loads and stores. *)

\* raiseMoveFromMemInstr: MOV.  An object of another width is cast first, and is no
\* longer a stack object for the value sets.
MOVrm(r, p, s) ==
  /\ Step
  /\ Write(r, p, Load(s, p), Value(RaisedLoad(s, p), Size[p]), Right(s))
  /\ IF p = "q"
     THEN /\ vs' = VS!assignValueToSrc(vs, R(r), SlotLoc(s))
          /\ Trust(R(r), SlotLoc(s) \notin stale)
     ELSE Untracked(R(r))
  /\ Refer(s) /\ KeepRSP

\* MOVSX and MOVZX: loads as much as the register takes, truncates, and extends.
MOVXrm(r, p, s, q, signed) ==
  /\ Step /\ Size[q] < Size[p] /\ (q = "d" => signed)
  /\ LET loaded == Value(RaisedLoad(s, p), Size[p])
     IN Write(r, p, Extend(Load(s, q), q, p, signed),
              castValue(castValue(loaded, Size[q], FALSE), Size[p], signed), Right(s))
  /\ Untracked(R(r)) /\ Refer(s) /\ KeepRSP

\* raiseBinaryOpMemToRegInstr, by the example of ADD; the other operations differ only
\* in what is computed.
ADDrm(r, p, s) ==
  /\ Step
  /\ Write(r, p, (ReadPart(reg[r], p) + Load(s, p)) % Modulus(p),
           Value((castValue(val[r], Size[p], FALSE).v + RaisedLoad(s, p)) % Pow8(Size[p]), Size[p]),
           Right(s) /\ Covers(r, p))
  /\ Untracked(R(r)) /\ Refer(s) /\ KeepRSP

\* raiseMoveToMemInstr: MOV of a register, and the value sets it leaves.
MOVmr(s, r, p) ==
  /\ Step
  /\ Store(s, p, ReadPart(reg[r], p), getRegOperandValue(r, p), Covers(r, p))
  /\ IF p = "q"
     THEN /\ vs' = VS!assignValueToSrc(vs, SlotLoc(s), R(r))
          /\ Trust(SlotLoc(s), R(r) \notin stale)
     ELSE /\ vs' = VS!assignValueToSrc(vs, GlobalMem(s - sp), R(r))
          /\ Trust(SlotLoc(s), FALSE)
  /\ KeepRegisters /\ KeepRSP

\* Mutant: the immediate of MOV64mi32 is extended with zeros.
MOVmi_ZeroExtended(s, p, imm) ==
  LET n == IF p = "q" THEN 4 ELSE Size[p]
      y == castValue(Immediate(imm, n), Size[p], FALSE)
  IN /\ Step /\ Fits(imm, n)
     /\ Store(s, p, imm % Modulus(p), y, TRUE)
     /\ vs' = vs /\ Trust(SlotLoc(s), FALSE)
     /\ KeepRegisters /\ KeepRSP

\* MOV of an immediate; that of MOV64mi32 is extended by a cast.
MOVmi(s, p, imm) ==
  LET n == IF p = "q" THEN 4 ELSE Size[p]
      y == castValue(Immediate(imm, n), Size[p], p = "q")
  IN /\ Step /\ Fits(imm, n)
     /\ Store(s, p, imm % Modulus(p), y, TRUE)
     /\ IF p = "q"
        THEN vs' = VS!assignValueConst(vs, SlotLoc(s), 0)
        ELSE vs' = VS!assignValueConst(vs, GlobalMem(s - sp), ValueSigned(y))
     /\ Trust(SlotLoc(s), FALSE)
     /\ KeepRegisters /\ KeepRSP

\* An operation on memory with a register.
ADDmr(s, r, p) ==
  /\ Step
  /\ Store(s, p, (Load(s, p) + ReadPart(reg[r], p)) % Modulus(p),
           Value((RaisedLoad(s, p) + getRegOperandValue(r, p).v) % Pow8(Size[p]), Size[p]),
           Right(s) /\ Covers(r, p))
  /\ vs' = VS!assignValueToSrc(vs, IF p = "q" THEN SlotLoc(s) ELSE GlobalMem(s - sp), R(r))
  /\ Trust(SlotLoc(s), FALSE)
  /\ KeepRegisters /\ KeepRSP

\* An operation on memory with an immediate of n bytes, which is cast without its sign.
ADDmi(s, p, imm, n) ==
  /\ Step /\ n <= 4 /\ n \in {1, Size[p], 4} /\ n <= Size[p] /\ Fits(imm, n)
  /\ LET y == castValue(Immediate(imm, n), Size[p], FALSE)
     IN Store(s, p, (Load(s, p) + imm) % Modulus(p),
              Value((RaisedLoad(s, p) + y.v) % Pow8(Size[p]), Size[p]),
              Right(s) /\ (imm >= 0 \/ n = Size[p]))
  /\ vs' = VS!assignValueConst(vs, IF p = "q" THEN SlotLoc(s) ELSE GlobalMem(s - sp), 0)
  /\ Trust(SlotLoc(s), FALSE)
  /\ KeepRegisters /\ KeepRSP

\* raiseInplaceMemOpInstr: INC and NOT.
InplaceMemOp(s, p, op) ==
  LET Apply(x) == (IF op = "INC" THEN x + 1 ELSE -1 - x) % Modulus(p)
  IN /\ Step
     /\ Store(s, p, Apply(Load(s, p)), Value(Apply(RaisedLoad(s, p)), Size[p]), Right(s))
     /\ vs' = vs /\ Trust(SlotLoc(s), FALSE)
     /\ KeepRegisters /\ KeepRSP

\* raisePushInstruction and raisePopInstruction.  A push stores to the object that is the
\* value of RSP, the one of displacement 0 if there is none, and leaves it there: pushes in
\* a row share it.  A pop raises nothing: the register keeps its value, RSP its object, and
\* only the value sets know what was popped.
PUSH(r) ==
  /\ Step /\ sp - 8 \in Slots
  /\ sp' = sp - 8
  /\ top' = ObjectAt(0)
  /\ StoreTo(ObjectAt(0), sp - 8, "q", reg[r], getRegOperandValue(r, "q"), Covers(r, "q"))
  /\ LET moved == VS!addValueWithImm(vs, R("RSP"), -8)
         offset == IF VS!HasConstant(moved, R("RSP")) THEN VS!ConstantAt(moved, R("RSP")) ELSE 0
     IN /\ vs' = VS!assignValueToSrc(moved, LocalMem(offset), R(r))
        /\ Trust(LocalMem(sp - 8), R(r) \notin stale)
  /\ KeepRegisters

POP(r) ==
  /\ Step /\ sp \in Slots
  /\ sp' = sp + 8
  /\ reg' = [reg EXCEPT ![r] = mem[sp]]
  /\ covered' = [covered EXCEPT ![r] = 0]
  /\ LET popped == IF VS!HasConstant(vs, R("RSP"))
                   THEN VS!assignValueToSrc(vs, R(r), LocalMem(VS!ConstantAt(vs, R("RSP")))) ELSE vs
     IN vs' = VS!addValueWithImm(popped, R("RSP"), 8)
  /\ Trust(R(r), VS!HasConstant(vs, R("RSP")) /\ LocalMem(sp) \notin stale)
  /\ UNCHANGED <<val, top>> /\ KeepMemory

-----------------------------------------------------------------------------
(* Division. *)

Abs(x) == IF x < 0 THEN -x ELSE x
Quotient(a, b) == IF (a < 0) = (b < 0) THEN Abs(a) \div Abs(b) ELSE -(Abs(a) \div Abs(b))
Remainder(a, b) == a - b * Quotient(a, b)
Numeral(v, n, signed) == IF signed THEN ValueSigned(Value(v, n)) ELSE v

\* raiseDivideInstr for DX:AX, EDX:EAX and RDX:RAX.  Both halves and the divisor are cast to
\* the double width; the upper half is shifted there with nuw, poison if it is negative
\* (here 0, no property relies on it), and the lower half is or'ed to it.
Dividend(high, low, n, signed) ==
  LET h == castValue(high, 2 * n, signed).v
      l == castValue(low, 2 * n, signed).v
      upper == IF h >= Pow8(n) THEN 0 ELSE h
  IN (IF l >= Pow8(n) THEN Pow8(2 * n) - Pow8(n) ELSE upper * Pow8(n)) + (l % Pow8(n))

\* The machine raises an exception if the quotient does not fit.
Divides(dividend, divisor, n, signed) ==
  /\ divisor # 0
  /\ Quotient(dividend, divisor) \in (IF signed THEN -Pow8(n) \div 2 .. Pow8(n) \div 2 - 1
                                      ELSE 0 .. Pow8(n) - 1)

\* The halves are combined right unless one of them is negative.
DividendCombined(signed, p) ==
  signed => Signed(ReadPart(reg["A"], p), p) >= 0 /\ Signed(ReadPart(reg["D"], p), p) >= 0

DIV(p, signed, machineSrc, raisedSrc, right) ==
  LET n == Size[p]
      dividend == Numeral(ReadPart(reg["D"], p) * Modulus(p) + ReadPart(reg["A"], p), 2 * n, signed)
      divisor == Numeral(machineSrc, n, signed)
      full == Numeral(Dividend(castValue(val["D"], n, FALSE), castValue(val["A"], n, FALSE), n, signed),
                      2 * n, signed)
      by == ValueSigned(castValue(Value(raisedSrc, n), 2 * n, signed))
      rby == IF by = 0 THEN 1 ELSE by
      ok == right /\ Covers("A", p) /\ Covers("D", p) /\ DividendCombined(signed, p)
  IN /\ Step /\ Divides(dividend, divisor, n, signed)
     /\ reg' = [reg EXCEPT !["A"] = WritePart(@, p, Quotient(dividend, divisor) % Modulus(p)),
                           !["D"] = WritePart(@, p, Remainder(dividend, divisor) % Modulus(p))]
     /\ val' = [val EXCEPT !["A"] = Value(Quotient(full, rby) % Pow8(n), n),
                           !["D"] = Value(Remainder(full, rby) % Pow8(n), n)]
     /\ covered' = [covered EXCEPT !["A"] = IF ok THEN CoveredBy(p) ELSE 0,
                                   !["D"] = IF ok THEN CoveredBy(p) ELSE 0]
     /\ vs' = vs /\ stale' = stale \cup {R("A"), R("D")}
     /\ KeepRSP

\* The byte form divides AX; the quotient is put into AL and the remainder into AH.
DIV8(signed, machineSrc, raisedSrc, right) ==
  LET dividend == Numeral(ReadPart(reg["A"], "w"), 2, signed)
      divisor == Numeral(machineSrc, 1, signed)
      full == Numeral(castValue(val["A"], 2, FALSE).v, 2, signed)
      by == Numeral(raisedSrc, 1, signed)
      rby == IF by = 0 THEN 1 ELSE by
      Pair(a, b) == (Quotient(a, b) % Pow8(1)) + (Remainder(a, b) % Pow8(1)) * Pow8(1)
  IN /\ Step /\ Divides(dividend, divisor, 1, signed)
     /\ Write("A", "w", Pair(dividend, divisor), Value(Pair(full, rby), 2), right /\ Covers("A", "w"))
     /\ Untracked(R("A")) /\ KeepRSP

\* The divisor is in a register or (raiseDivideFromMemInstr) in memory.
DivideInstr(p, signed) ==
  LET Divide(machineSrc, raisedSrc, right) ==
        IF p = "b" THEN DIV8(signed, machineSrc, raisedSrc, right)
        ELSE DIV(p, signed, machineSrc, raisedSrc, right)
  IN \/ /\ Divide(ReadPart(reg["B"], p), getRegOperandValue("B", p).v, Covers("B", p))
        /\ KeepMemory
     \/ \E s \in Slots : Divide(Load(s, p), RaisedLoad(s, p), Right(s)) /\ Refer(s)

-----------------------------------------------------------------------------
\* An argument has the width its register was first read with; what is above it in the
\* machine is arbitrary.  The slots have been written, or not yet; RSP has no value.
Init ==
  /\ reg \in [Regs -> Inits]
  /\ mem \in {[s \in Slots |-> x] : x \in Inits}
  /\ made \in {{}, Slots}
  /\ rmem = [o \in Objects |-> IF o \in made THEN mem[o] ELSE 0]
  /\ slotIn = [o \in Objects |-> IF o \in made THEN o ELSE Nothing]
  /\ \E n \in {4, 8} :
       /\ val = [r \in Regs |-> Value(reg[r] % Pow8(n), n)]
       /\ covered = [r \in Regs |-> n]
       /\ fromZero = /\ n = 8 /\ made = Slots
                     /\ (\A r \in Regs : reg[r] = 0) /\ \A s \in Slots : mem[s] = 0
  /\ sp = 0
  /\ top = Nothing
  /\ vs = << >>
  /\ stale = {}
  /\ insts = 0

Move ==
  \E r \in Dests, p \in Parts :
    \/ \E imm \in Imms, n \in {1, 2, 4, 8} : MOVri(r, p, imm, n)
    \/ \E s \in Sources, q \in Parts : MOVrr(r, p, s, q)
    \/ \E s \in Sources, q \in Parts \ {"q"}, signed \in BOOLEAN : MOVXrr(r, p, s, q, signed)
    \/ p \in Wide /\ \E s \in Sources, holds \in BOOLEAN : CMOVrr(r, p, s, holds)

Compute ==
  \/ \E p \in Wide : ConvertInPlace(p) \/ ConvertToPair(p)
  \/ \E r \in Dests, p \in Parts :
       \/ XORself(r, p)
       \/ \E imm \in Imms, sub \in BOOLEAN : AddImm(r, p, imm, sub)
  \/ \E by \in {-8, 8} : MoveSP(by)
  \/ \E r \in Dests, p \in {"d", "q"}, b \in Sources, i \in {None, "B"}, scale \in {1, 4}, disp \in {0} \cup Imms :
       (i = None => scale = 1) /\ LEA(r, p, b, i, scale, disp)
  \/ \E p \in Parts \ {"h"}, signed \in BOOLEAN : DivideInstr(p, signed)

Memory ==
  \E s \in Slots, p \in Parts \ {"h"} :
    \/ \E r \in Dests : MOVrm(r, p, s) \/ ADDrm(r, p, s)
    \/ \E r \in Dests, q \in {"b", "w", "d"}, signed \in BOOLEAN : MOVXrm(r, p, s, q, signed)
    \/ \E r \in Sources : MOVmr(s, r, p) \/ ADDmr(s, r, p)
    \/ \E imm \in Imms : MOVmi(s, p, imm) \/ \E n \in {1, 2, 4} : ADDmi(s, p, imm, n)
    \/ \E op \in {"INC", "NOT"} : InplaceMemOp(s, p, op)

Stack == \E r \in Dests : PUSH(r) \/ POP(r)

Next == Move \/ Compute \/ Memory \/ Stack
Spec == Init /\ [][Next]_registersVars

-----------------------------------------------------------------------------
\* As far as the raised value of a register covers it, it is what the machine has there:
\* what an instruction computed from covered operands, of any widths, is right.  A write of
\* 8 or 16 bits loses what was above, a write of a high byte loses all, and so does a pop.
RegistersFollow == \A r \in Regs : val[r].v % Pow8(covered[r]) = reg[r] % Pow8(covered[r])

\* An object holds what the machine has in the slot that was last written through it, if all
\* that was stored there since the last full store was computed from covered operands, no
\* immediate of an operation on memory was negative and narrower than the operation, and
\* the slot was not written through another object since.  Moves of RSP change what a
\* reference finds, not what the objects hold.
MemoryFollows == \A o \in Objects : slotIn[o] # Nothing => rmem[o] = mem[slotIn[o]]

\* In a run in which everything starts as 0, what the value sets take to be a constant is
\* the number the machine has there, unless it comes from an instruction whose handler
\* does not keep the sets, or one that writes less than the register.
ConstantsFollow ==
  fromZero => \A a \in DOMAIN vs \ stale :
    VS!HasConstant(vs, a) =>
      /\ \A r \in Regs : a = R(r) => VS!ConstantAt(vs, a) = Signed(reg[r], "q")
      /\ a = R("RSP") => VS!ConstantAt(vs, a) = sp
      /\ \A s \in Slots : a = LocalMem(s) => VS!ConstantAt(vs, a) = Signed(mem[s], "q")
=============================================================================
