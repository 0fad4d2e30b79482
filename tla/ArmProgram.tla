------------------------------- MODULE ArmProgram -------------------------------
(***************************************************************************)
(* Functions of ARM code and what the machine does with them: instructions *)
(* as records, and a run along a path of blocks over symbolic values.      *)
(* Nothing here is taken from the raiser.                                  *)
(***************************************************************************)
EXTENDS Integers, Sequences, SequencesExt, FiniteSets, TLC

\* op d, [n, m, #imm]; "-" where there is no register.  at is the address.
Instr(op, d, n, m, imm) == [op |-> op, d |-> d, n |-> n, m |-> m, imm |-> imm, at |-> 0]

ArgRegs == <<"r0", "r1", "r2", "r3">>
Registers == {"r0", "r1", "r2", "r3", "r5", "fp", "sp", "v1", "v2"}

Loads == {"LDRi12", "LDRH", "LDRBi12", "LDRrs", "LDR_PRE_IMM", "LDR_POST_IMM", "LDRpc"}
Stores == {"STRi12", "STRH", "STRBi12", "STR_PRE_IMM", "STR_POST_IMM"}
Moves == {"MOVr", "MOVi", "ADDri", "ADDrr", "SUBri", "LSLi"}
Jumps == {"B", "Bcc", "BX_RET", "POP"}

AccessSize(op) ==
  CASE op \in {"LDRH", "STRH"} -> 2 [] op \in {"LDRBi12", "STRBi12"} -> 1 [] OTHER -> 4

\* The registers an instruction names as operands: a call names none.
Defs(i) ==
  ((IF i.op \in Moves \cup Loads THEN {i.d} ELSE {})
     \cup (IF i.op \in {"LDR_PRE_IMM", "LDR_POST_IMM", "STR_PRE_IMM", "STR_POST_IMM"} THEN {i.n} ELSE {}))
  \cap Registers
Uses(i) ==
  (IF i.op \in Stores THEN {i.d, i.n, i.m} ELSE IF i.op = "BL" THEN {} ELSE {i.n, i.m}) \cap Registers

----------------------------------------------------------------------------
(* A word is an atom plus a number, a byte the k-th of a word.             *)
Word(of, plus) == [of |-> of, plus |-> plus]
Number(c) == Word(<<"const", 0>>, c)
Arg(k) == Word(<<"arg", k>>, 0)
Junk == Word(<<"junk", 0>>, 0)
Plus(v, k) == [v EXCEPT !.plus = @ + k]
SumOf(v, w) ==
  IF w.of[1] = "const" THEN Plus(v, w.plus) ELSE IF v.of[1] = "const" THEN Plus(w, v.plus)
  ELSE Word(<<"sum", <<v, w>>>>, 0)
Lsl(v, k) == IF k = 0 THEN v ELSE Word(<<"lsl", <<v, k>>>>, 0)

Byte(w, k) == [w |-> w, k |-> k]
\* The bytes of a word that was loaded from fewer than four are those, then its extension,
\* with zeros or with the sign.
ByteOf(v, k) ==
  IF v.of[1] \notin {"word", "zero", "sign"} \/ v.plus # 0 THEN Byte(v, k)
  ELSE IF k < Len(v.of[2]) THEN v.of[2][k + 1] ELSE Byte(v, 4)
Joined(bs, extension) ==
  IF Len(bs) = 4 /\ \A k \in 1 .. 4 : bs[k] = Byte(bs[1].w, k - 1) THEN bs[1].w
  ELSE Word(<<IF Len(bs) = 4 THEN "word" ELSE extension, bs>>, 0)

\* What is at an address that nothing was stored to: arguments above the stack pointer
\* at the entry, nothing below it and in new objects.
InitialByte(a) ==
  CASE a.of[1] = "sp" /\ a.plus >= 0 -> Byte(Arg(5 + a.plus \div 4), a.plus % 4)
    [] a.of[1] \in {"sp", "obj"} /\ a.plus < 0 -> Byte(Junk, 0)
    [] a.of[1] = "obj" -> Byte(Junk, 0)
    [] OTHER -> Byte(Word(<<"mem", a>>, 0), 0)
Fetch(mem, a, size) ==
  [k \in 1 .. size |-> LET b == Plus(a, k - 1) IN IF b \in DOMAIN mem THEN mem[b] ELSE InitialByte(b)]
Put(mem, a, v, size) ==
  [b \in {Plus(a, k) : k \in 0 .. size - 1} |-> ByteOf(v, b.plus - a.plus)] @@ mem

\* The calls and the stores to memory other than the stack, in order.
CallEvent(g, args) == [call |-> g, args |-> args]
StoreEvent(a, v, size) == [store |-> a, bytes |-> [k \in 1 .. size |-> ByteOf(v, k - 1)]]

----------------------------------------------------------------------------
(* The machine.                                                            *)
Pointer(s, i) ==
  CASE i.op = "LDRrs" -> SumOf(s.reg[i.n], Lsl(s.reg[i.m], i.imm))
    [] i.op \in {"LDR_POST_IMM", "STR_POST_IMM"} -> s.reg[i.n]
    [] OTHER -> Plus(s.reg[i.n], i.imm)

\* Write-back of the base register.
Based(reg, i) ==
  IF i.op \in {"LDR_PRE_IMM", "LDR_POST_IMM", "STR_PRE_IMM", "STR_POST_IMM"}
    THEN [reg EXCEPT ![i.n] = Plus(@, i.imm)] ELSE reg

\* locals: the bytes of the frame that were accessed together.
Tracked(s, i, a) ==
  IF a.of[1] = "sp" /\ i.op \notin {"LDR_POST_IMM", "STR_PRE_IMM"}
    THEN s.locals \cup {a.plus .. a.plus + AccessSize(i.op) - 1} ELSE s.locals

Step(s, i, literals) ==
  CASE i.op = "MOVr" -> [s EXCEPT !.reg[i.d] = s.reg[i.n]]
    [] i.op = "MOVi" -> [s EXCEPT !.reg[i.d] = Number(i.imm)]
    [] i.op = "ADDri" -> [s EXCEPT !.reg[i.d] = Plus(s.reg[i.n], i.imm)]
    [] i.op = "SUBri" -> [s EXCEPT !.reg[i.d] = Plus(s.reg[i.n], -i.imm)]
    [] i.op = "PUSH" -> [s EXCEPT !.reg["sp"] = Plus(@, -4 * i.imm)]
    [] i.op = "POP" -> [s EXCEPT !.reg["sp"] = Plus(@, 4 * i.imm)]
    [] i.op = "LDRpc" -> [s EXCEPT !.reg[i.d] = Number(literals[i.imm])]
    [] i.op \in Loads \ {"LDRpc"} ->
         LET a == Pointer(s, i) IN
         [s EXCEPT !.reg = [Based(s.reg, i) EXCEPT ![i.d] = Joined(Fetch(s.mem, a, AccessSize(i.op)), "zero")],
                   !.locals = Tracked(s, i, a)]
    [] i.op \in Stores ->
         LET a == Pointer(s, i)
             v == s.reg[i.d]
             size == AccessSize(i.op) IN
         [s EXCEPT !.reg = Based(s.reg, i), !.mem = Put(s.mem, a, v, size), !.locals = Tracked(s, i, a),
                   !.events = IF a.of[1] = "sp" THEN @ ELSE Append(@, StoreEvent(a, v, size))]
    [] i.op = "BL" ->
         [s EXCEPT !.events = Append(@, CallEvent(i.n, [k \in 1 .. i.imm |->
              IF k <= 4 THEN s.reg[ArgRegs[k]]
                        ELSE Joined(Fetch(s.mem, Plus(s.reg["sp"], 4 * (k - 5)), 4), "zero")])),
                   !.reg = [r \in Registers |->
                      CASE r = "r0" -> Word(<<"call", Len(s.events) + 1>>, 0)
                        [] r \in {"r1", "r2", "r3"} -> Junk
                        [] OTHER -> s.reg[r]]]
    [] OTHER -> s

Entry(params) ==
  [reg |-> [r \in Registers |->
              CASE r = "sp" -> Word(<<"sp", 0>>, 0)
                [] \E k \in 1 .. 4 : ArgRegs[k] = r /\ k <= params -> Arg(CHOOSE k \in 1 .. 4 : ArgRegs[k] = r)
                [] OTHER -> Junk],
   mem |-> <<>>, events |-> <<>>, locals |-> {}]

\* The state at the end of a path, a sequence of blocks.
MachineRun(prog, path, literals) ==
  FoldLeft(LAMBDA s, b : FoldLeft(LAMBDA t, i : Step(t, i, literals), s, prog.code[b]), Entry(prog.params), path)

\* The paths from the entry to a block without successors, in code without loops.
PathsOf(succs) ==
  {p \in UNION {[1 .. n -> DOMAIN succs] : n \in 1 .. Len(succs)} :
     /\ p[1] = 1 /\ succs[p[Len(p)]] = <<>>
     /\ \A k \in 1 .. Len(p) - 1 : \E j \in DOMAIN succs[p[k]] : succs[p[k]][j] = p[k + 1]}
=============================================================================
