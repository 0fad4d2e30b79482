------------------------------ MODULE ArmFunction ------------------------------
(***************************************************************************)
(* The raising of one ARM function, pass after pass: the prototype         *)
(* (ARMFunctionPrototype), the revision of literals and calls              *)
(* (ARMMIRevising), the removal of prologue and epilogue                   *)
(* (ARMEliminatePrologEpilog), the arguments (ARMArgumentRaiser), the      *)
(* stack objects (ARMFrameBuilder), the splitting of addresses             *)
(* (ARMInstructionSplitting) and, block after block, the selection of DAG  *)
(* nodes and the emission of IR (ARMSelectionDAGISel, InstSelector,        *)
(* IREmitter).  Conditions and flags are those of ArmFlags and left out.   *)
(***************************************************************************)
EXTENDS ArmProgram

CONSTANTS
  Programs,     \* [params, code, succs, literals]: blocks of instructions, their successors
  Callees,      \* name -> [args, library]: the parameters of its prototype, if it is external
  Symbols,      \* the object symbols: [at, size, bss]
  Strings       \* address -> the number of % in the string there

VARIABLES
  prog,         \* the function as disassembled
  pass,         \* the next pass
  code,         \* the blocks as the passes left them
  proto,        \* [params, ret] of the raised function
  formats,      \* InstArgCollect and InstArgNumMap: <<address, number of arguments>>
  frame,        \* [spills, size, adjustment] of MachineFrameInfo
  objects,      \* frame index -> bytes, of the stack objects
  regVal,       \* RegValMap: register -> DAG operand
  argVal,       \* ArgValMap: register -> IR value
  ir,           \* the emitted blocks
  edges,        \* their successors
  retVal        \* RetValMap: exit block -> IR value

vars == <<prog, pass, code, proto, formats, frame, objects, regVal, argVal, ir, edges, retVal>>

Blocks == DOMAIN prog.code
\* The instructions of all blocks, in the order of the layout.
Flat(blocks) == FlattenSeq(blocks)
OnBlocks(F(_), blocks) == [b \in DOMAIN blocks |-> FlattenSeq([k \in DOMAIN blocks[b] |-> F(blocks[b][k])])]
ArgIndex(r) == CHOOSE k \in 1 .. 4 : ArgRegs[k] = r
Empty == [x \in {} |-> 0]

Init ==
  /\ prog \in Programs /\ pass = "discover" /\ code = prog.code
  /\ proto = [params |-> 0, ret |-> FALSE] /\ formats = <<>>
  /\ frame = [spills |-> 0, size |-> 0, adjustment |-> 0]
  /\ objects = Empty /\ regVal = Empty /\ argVal = Empty /\ retVal = Empty
  /\ ir = <<>> /\ edges = <<>>

----------------------------------------------------------------------------
(* ARMFunctionPrototype.                                                   *)
\* computeAndAddLiveIns, in layout order: only back edges would bring live-outs.
isLiveIn(block, r) ==
  \E k \in DOMAIN block : r \in Uses(block[k]) /\ \A j \in 1 .. k - 1 : r \notin Defs(block[j])

RECURSIVE Preorder(_, _)
Preorder(seen, b) ==
  IF b \in Range(seen) THEN seen ELSE FoldLeft(Preorder, Append(seen, b), prog.succs[b])

\* The register seen last gives the number, not the highest one.
RegisterParams ==
  LET visit(s, b) ==
        LET new == {k \in 1 .. 4 \ s.got : isLiveIn(prog.code[b], ArgRegs[k])} IN
        [got |-> s.got \cup new, max |-> IF new = {} THEN s.max ELSE CHOOSE k \in new : \A j \in new : j <= k] IN
  FoldLeft(visit, [got |-> {}, max |-> 0], Preorder(<<>>, 1)).max

isStackParameter(i) == i.op = "LDRi12" /\ i.n = "fp" /\ i.imm >= 0
StackParams == {i.imm \div 4 - 2 + 5 : i \in {j \in Range(Flat(prog.code)) : isStackParameter(j)}}

\* isDefinedRegiser(r0): its last mention is a definition that is not tied.
DefinesReturn(block) ==
  LET mentions == {k \in DOMAIN block : "r0" \in Defs(block[k]) \cup Uses(block[k])} IN
  /\ mentions # {}
  /\ LET i == block[CHOOSE k \in mentions : \A j \in mentions : j <= k] IN i.d = "r0" /\ i.op \notin Stores

Discover ==
  /\ pass = "discover"
  /\ LET all == StackParams \cup {RegisterParams} IN
     proto' = [params |-> CHOOSE n \in all : \A m \in all : m <= n,
               ret |-> \E b \in Blocks : prog.succs[b] = <<>> /\ DefinesReturn(prog.code[b])]
  /\ pass' = "revise"
  /\ UNCHANGED <<prog, code, formats, frame, objects, regVal, argVal, ir, edges, retVal>>

----------------------------------------------------------------------------
(* ARMMIRevising.                                                          *)
SymbolOf(w) == {s \in Symbols : s.at <= w /\ w < s.at + s.size}
\* An initializer is made with ConstantInt::get, which does not take arrays.
Unraisable(w) == \E s \in SymbolOf(w) : s.size \notin {1, 2, 4} /\ ~s.bss

\* Strings with a %: recorded when the literal is met first, later the cached global is found.
Recorded(fs, i, before) ==
  LET w == prog.literals[i.imm] IN
  IF /\ i.op = "LDRpc" /\ SymbolOf(w) = {} /\ w \in DOMAIN Strings /\ Strings[w] > 0
     /\ \A j \in Range(before) : j.op = "LDRpc" => j.imm # i.imm
    THEN Append(fs, <<i.at, Strings[w] + 1>>) ELSE fs

reviseMI(i) ==
  CASE i.op = "MOVr" /\ i.d = i.n -> <<>>
    [] i.op = "LDRpc" -> <<[i EXCEPT !.op = "LDRi12", !.n = "SYM"]>>
    [] OTHER -> <<i>>

Revise ==
  /\ pass = "revise"
  /\ LET flat == Flat(prog.code) IN
     /\ formats' = FoldLeft(LAMBDA fs, k : Recorded(fs, flat[k], SubSeq(flat, 1, k - 1)), <<>>,
                            [k \in DOMAIN flat |-> k])
     /\ pass' = IF \E i \in Range(flat) : i.op = "LDRpc" /\ Unraisable(prog.literals[i.imm])
                  THEN "aborted" ELSE "eliminate"
  /\ code' = OnBlocks(reviseMI, code)
  /\ UNCHANGED <<prog, proto, frame, objects, regVal, argVal, ir, edges, retVal>>

----------------------------------------------------------------------------
(* ARMEliminatePrologEpilog: the front block loses both, others only the   *)
(* epilogue; a POP of pc leaves a BX_RET.                                  *)
isProlog(i) ==
  \/ i.op = "MOVr" /\ i.d = "fp" /\ i.n = "sp"
  \/ i.op = "PUSH" \/ (i.op = "STR_PRE_IMM" /\ i.n = "sp")
  \/ i.op = "ADDri" /\ i.d = "fp" /\ i.n = "sp"
  \/ i.op = "SUBri" /\ i.d = "sp" /\ i.n = "sp"
isEpilog(i) ==
  \/ i.op = "POP" \/ (i.op = "LDR_POST_IMM" /\ i.n = "sp") \/ (i.op = "STR_PRE_IMM" /\ i.n = "sp")
  \/ i.op \in {"ADDri", "SUBri"} /\ i.d = "sp"
  \/ i.op = "MOVr" /\ i.d = "sp" /\ i.n = "fp"

analyzeStackSize ==
  LET k == SelectInSeq(code[1], LAMBDA i : i.op = "SUBri" /\ i.d = "sp" /\ i.n = "sp" /\ i.imm > 0) IN
  IF k = 0 THEN 0 ELSE code[1][k].imm
analyzeFrameAdjustment ==
  LET k == SelectInSeq(code[1], LAMBDA i : i.op = "ADDri" /\ i.d = "fp" /\ i.n = "sp" /\ i.imm > 0) IN
  IF k = 0 THEN 0 ELSE code[1][k].imm

Saved(i) == IF i.op = "PUSH" THEN i.imm ELSE IF i.op = "STR_PRE_IMM" /\ i.n = "sp" THEN 1 ELSE 0
Eliminated(b, i) ==
  IF ~isEpilog(i) /\ ~(b = 1 /\ isProlog(i)) THEN <<i>>
  ELSE IF i.op = "POP" /\ i.m = "pc" THEN <<[i EXCEPT !.op = "BX_RET", !.n = "-", !.m = "-"]>> ELSE <<>>

Eliminate ==
  /\ pass = "eliminate"
  /\ frame' = [spills |-> FoldLeft(LAMBDA n, i : n + Saved(i), 0, code[1]),
               size |-> analyzeStackSize, adjustment |-> analyzeFrameAdjustment]
  /\ code' = [b \in Blocks |-> FlattenSeq([k \in DOMAIN code[b] |-> Eliminated(b, code[b][k])])]
  /\ pass' = "arguments"
  /\ UNCHANGED <<prog, proto, formats, objects, regVal, argVal, ir, edges, retVal>>

----------------------------------------------------------------------------
(* ARMArgumentRaiser: frame index 0 is the return value, k the parameter k.*)
updateParameterFrame(i) ==
  <<IF proto.params > 4 /\ isStackParameter(i) THEN [i EXCEPT !.n = "FI", !.imm = @ \div 4 - 2 + 5] ELSE i>>
moveArgumentToRegister(k) == [Instr("MOVr", ArgRegs[k], "FI", "-", k) EXCEPT !.at = -k]
Moved(n) == [k \in 1 .. IF n < 4 THEN n ELSE 4 |-> moveArgumentToRegister(k)]

RaiseArgs ==
  /\ pass = "arguments"
  /\ code' = LET updated == OnBlocks(updateParameterFrame, code) IN
             [updated EXCEPT ![1] = Moved(proto.params) \o @]
  /\ pass' = "frame"
  /\ UNCHANGED <<prog, proto, formats, frame, objects, regVal, argVal, ir, edges, retVal>>

----------------------------------------------------------------------------
(* ARMFrameBuilder.                                                        *)
isHalfwordOP(op) == op \in {"STRH", "LDRH"}
isStackOp(op) == op \in {"LDRi12", "LDRH", "LDRBi12", "STRi12", "STRH", "STRBi12", "ADDri"}
getBitCount(op) == IF op = "ADDri" THEN 4 ELSE AccessSize(op)

\* replaceNonSPBySP: aliases of sp stand for sp until they are written.
IsAlias(i) == i.op = "MOVr" /\ i.n = "sp"
replaceNonSPBySP(s, i) ==
  IF IsAlias(i) THEN [s EXCEPT !.aliases = @ \cup {i.d}]
  ELSE LET new(r) == IF r \in s.aliases THEN "sp" ELSE r
           d == IF i.op \in Stores THEN new(i.d) ELSE i.d IN
       [aliases |-> s.aliases \ Defs(i), out |-> Append(s.out, [i EXCEPT !.d = d, !.n = new(@), !.m = new(@)])]
Unaliased ==
  LET block(s, b) ==
        LET t == FoldLeft(replaceNonSPBySP, [aliases |-> s.aliases, out |-> <<>>], b) IN
        [aliases |-> t.aliases, out |-> Append(s.out, t.out)] IN
  FoldLeft(block, [aliases |-> {}, out |-> <<>>], code).out

\* A conversion to int8_t.
Int8(n) == ((n + 128) % 256) - 128

\* The distance from sp, -1 if it is not a stack operand.
identifyStackOp(i) ==
  LET fromFp(off) == frame.size + off + frame.adjustment IN
  CASE ~isStackOp(i.op) -> -1
    [] i.n = "sp" /\ i.imm >= 0 -> i.imm
    [] i.n = "fp" /\ i.imm <= 0 -> fromFp(i.imm)
    [] i.n = "fp" /\ isHalfwordOP(i.op) -> fromFp(-Int8(i.imm))
    [] OTHER -> -1

Offsets(flat) == {identifyStackOp(i) : i \in Range(flat)} \ {o \in {identifyStackOp(i) : i \in Range(flat)} : o < 0}
\* Objects are made from the highest offset down, after those of saved registers, of the
\* return value and of the parameters.
IndexAt(o, offsets) == frame.spills + proto.params + 1 + Cardinality({p \in offsets : p > o})
\* The first reference gives the object its size.
SizeAt(o, flat) == getBitCount(flat[SelectInSeq(flat, LAMBDA i : identifyStackOp(i) = o)].op)

BuildFrame ==
  /\ pass = "frame"
  /\ LET flat == Flat(Unaliased)
         offsets == Offsets(flat)
         replaced(i) == <<IF identifyStackOp(i) < 0 THEN i
                          ELSE [i EXCEPT !.n = "FI", !.imm = IndexAt(identifyStackOp(i), offsets)]>> IN
     /\ objects' = [f \in {IndexAt(o, offsets) : o \in offsets} |->
                      SizeAt(CHOOSE o \in offsets : IndexAt(o, offsets) = f, flat)]
     /\ code' = OnBlocks(replaced, Unaliased)
  /\ pass' = "split"
  /\ UNCHANGED <<prog, proto, formats, frame, regVal, argVal, ir, edges, retVal>>

----------------------------------------------------------------------------
(* ARMInstructionSplitting.  at becomes the number of the part, which is   *)
(* all that its metadata says.                                             *)
Based12(op) == op \in {"LDRi12", "STRi12", "LDRBi12", "STRBi12"}
Part(i, n) == [i EXCEPT !.at = n]
Sum(d, n, m, imm) == Instr("ADDrr", d, n, m, imm)
getLoadStoreOpcode(op) ==
  CASE op \in {"LDRrs", "LDR_PRE_IMM"} -> "LDRi12" [] op = "STR_PRE_IMM" -> "STRi12" [] OTHER -> op
Access(i, v) == Instr(getLoadStoreOpcode(i.op), i.d, v, "-", 0)

splitLDRSTRPreImm(i) == <<Part(Sum(i.n, i.n, "-", i.imm), 0), Part(Access(i, i.n), 1)>>
splitLDRSTRImm(i) == <<Part(Sum("v2", i.n, "-", i.imm), 0), Part(Access(i, "v2"), 1)>>
splitLDRSTR(i) ==
  IF i.imm > 0
    THEN <<Part(Instr("LSLi", "v1", i.m, "-", i.imm), 0), Part(Sum("v2", i.n, "v1", 0), 1), Part(Access(i, "v2"), 2)>>
    ELSE <<Part(Sum("v2", i.n, i.m, 0), 0), Part(Access(i, "v2"), 1)>>

splitMI(i) ==
  CASE i.op \in {"LDR_PRE_IMM", "STR_PRE_IMM"} /\ i.imm # 0 -> splitLDRSTRPreImm(i)
    [] i.op = "LDRrs" /\ i.n # "sp" -> splitLDRSTR(i)
    [] Based12(i.op) /\ i.n \notin {"sp", "FI", "SYM"} /\ i.imm # 0 -> splitLDRSTRImm(i)
    [] OTHER -> <<i>>

Split ==
  /\ pass = "split"
  /\ code' = OnBlocks(splitMI, code)
  /\ pass' = "select"
  /\ UNCHANGED <<prog, proto, formats, frame, objects, regVal, argVal, ir, edges, retVal>>

----------------------------------------------------------------------------
(* InstSelector.  An operand is a node of this block's DAG, a constant, a  *)
(* frame index, a symbol, a register without definition, or a node of an   *)
(* earlier block, whose memory is gone.                                    *)
Node(k) == <<"node", k>>
Const(c) == <<"const", c>>
getValFromRegMap(s, r) == IF r \in DOMAIN s.regVal THEN s.regVal[r] ELSE <<"register", 0>>
Operand(s, i) ==
  CASE i.n = "FI" -> <<"frame", i.imm>>
    [] i.n = "SYM" -> <<"symbol", prog.literals[i.imm]>>
    [] OTHER -> getValFromRegMap(s, i.n)
\* m or the immediate.
Second(s, i) == IF i.m \in Registers THEN getValFromRegMap(s, i.m) ELSE Const(i.imm)

\* getNode: a node that is there already, with the same operands and metadata, is shared.
getNode(s, node) ==
  LET k == SelectInSeq(s.nodes, LAMBDA n : n = node) IN
  IF k > 0 THEN [s |-> s, id |-> k]
           ELSE [s |-> [s EXCEPT !.nodes = Append(@, node)], id |-> Len(s.nodes) + 1]
Noded(op, a, b, size, md) == [op |-> op, a |-> a, b |-> b, size |-> size, md |-> md]

recordDefinition(s, r, k) ==
  [s EXCEPT !.regVal = (r :> Node(k)) @@ @, !.nodeReg = (k :> r) @@ @]
Defining(s, r, node) == LET g == getNode(s, node) IN recordDefinition(g.s, r, g.id)

selectLoad(s, i) == Defining(s, i.d, Noded("load", Operand(s, i), Const(0), AccessSize(i.op), i.at))
\* Post-indexed stores, and pre-indexed ones that are not split, name the base first.
selectStore(s, i) ==
  LET val == getValFromRegMap(s, i.d)
      ptr == Operand(s, i)
      swapped == i.op \in {"STR_POST_IMM", "STR_PRE_IMM"} IN
  getNode(s, Noded("store", IF swapped THEN ptr ELSE val, IF swapped THEN val ELSE ptr, AccessSize(i.op), i.at)).s
\* The conditional move has no metadata.
selectMOV(s, i) ==
  Defining(s, i.d, Noded("mov", IF i.op = "MOVi" THEN Const(i.imm) ELSE Operand(s, i), Const(0), 4, -1))
\* The address of a stack object is selected as a load of it.
selectADD(s, i) ==
  IF i.n = "FI" THEN selectLoad(s, i)
  ELSE Defining(s, i.d, Noded("add", Operand(s, i), Second(s, i), 4, i.at))
selectSUB(s, i) == Defining(s, i.d, Noded("sub", Operand(s, i), Second(s, i), 4, i.at))
selectLSL(s, i) == Defining(s, i.d, Noded("shl", Operand(s, i), Second(s, i), 4, i.at))
selectBL(s, i) ==
  LET g == getNode([s EXCEPT !.callees = Append(@, i)], Noded("call", Const(Len(s.callees) + 1), Const(0), 4, i.at)) IN
  recordDefinition(g.s, "r0", g.id)

selectCode(s, i) ==
  CASE i.op \in Loads -> selectLoad(s, i)
    [] i.op \in Stores -> selectStore(s, i)
    [] i.op \in {"MOVr", "MOVi"} -> selectMOV(s, i)
    [] i.op \in {"ADDri", "ADDrr"} -> selectADD(s, i)
    [] i.op = "SUBri" -> selectSUB(s, i)
    [] i.op = "LSLi" -> selectLSL(s, i)
    [] i.op = "BL" -> selectBL(s, i)
    [] OTHER -> s

\* Nodes of an earlier block stay in RegValMap after its DAG is cleared.
Stale(v) == IF v[1] = "node" THEN <<"freed", 0>> ELSE v
doInstructionSelection(block) ==
  FoldLeft(selectCode, [nodes |-> <<>>, nodeReg |-> Empty, callees |-> <<>>,
                        regVal |-> [r \in DOMAIN regVal |-> Stale(regVal[r])]], block)

----------------------------------------------------------------------------
(* IREmitter: one IR instruction for each node, in the order they were     *)
(* made.  A value is named by its block and node.                          *)
Value(b, k) == <<"value", 100 * b + k>>
isArgumentIndex(f) == 1 <= f /\ f <= proto.params
getIRValue(b, o) ==
  CASE o[1] = "node" -> Value(b, o[2])
    [] o[1] = "frame" -> IF isArgumentIndex(o[2]) THEN <<"arg", o[2]>> ELSE <<"object", o[2]>>
    [] o[1] = "freed" -> <<"undef", 0>>
    [] OTHER -> o
\* getRealValue asserts that the node has a property.
NoValue(v) == v[1] \in {"register", "null"}

\* A load of a symbol: arrays and strings are their address, a constant that is not an
\* instruction; other globals, and words that are no address, are read.
emitSymbol(w) ==
  IF SymbolOf(w) # {}
    THEN LET g == CHOOSE x \in SymbolOf(w) : TRUE IN
         IF g.size \in {1, 2, 4} THEN [op |-> "load", a |-> Const(g.at), b |-> Const(0), size |-> g.size]
         ELSE [op |-> "address", a |-> Const(g.at), b |-> Const(0), size |-> 4]
  ELSE [op |-> IF w \in DOMAIN Strings THEN "address" ELSE "mov", a |-> Const(w), b |-> Const(0), size |-> 4]

emitLoad(b, node) ==
  LET p == getIRValue(b, node.a) IN
  CASE p[1] = "symbol" -> emitSymbol(p[2])
    [] p[1] = "object" -> [op |-> "load", a |-> p, b |-> Const(0),
                           size |-> IF p[2] \in DOMAIN objects THEN objects[p[2]] ELSE 0]
    [] OTHER -> [op |-> "load", a |-> p, b |-> Const(0), size |-> node.size]
emitBinary(b, node) ==
  [op |-> node.op, a |-> getIRValue(b, node.a), b |-> getIRValue(b, node.b), size |-> node.size]

\* The number of arguments: the parameters, or for an external function what the format
\* that was loaded last before the call takes.
getArgNumInstrAddr(call) ==
  LET later == {k \in DOMAIN formats : formats[k][1] > call} IN
  IF formats = <<>> THEN 0
  ELSE IF later = {} THEN Len(formats) ELSE (CHOOSE k \in later : \A j \in later : k <= j) - 1
\* Mutant: the first format of the function.
getFunctionArgNum_First(call) == IF formats = <<>> THEN 0 ELSE formats[1][2]
getFunctionArgNum(call) == LET k == getArgNumInstrAddr(call) IN IF k = 0 THEN 0 ELSE formats[k][2]
ArgNum(i) ==
  LET g == Callees[i.n] IN
  IF g.library /\ getFunctionArgNum(i.at) > g.args THEN getFunctionArgNum(i.at) ELSE g.args
\* No entry before the first.
BeforeTheFirst(i) == Callees[i.n].library /\ formats # <<>> /\ getArgNumInstrAddr(i.at) = 0

NumObjects == frame.spills + proto.params + 1 + Cardinality(DOMAIN objects)
StackArg(n) == IF NumObjects - 2 > n - 4 THEN NumObjects - 2 ELSE n - 4
StackArgument(n, k) == StackArg(n) - (k - 1) - 4 + 1
callArgument(args, n, k) ==
  IF k > 4
    THEN IF StackArgument(n, k) \in DOMAIN objects THEN <<"object", StackArgument(n, k)>> ELSE <<"null", 0>>
  ELSE IF ArgRegs[k] \in DOMAIN args THEN args[ArgRegs[k]] ELSE <<"null", 0>>

\* emitNode: the call leaves ArgValMap alone.
emitNode(b, sel, s, k) ==
  LET node == sel.nodes[k]
      out(inst) == Append(s.out, inst @@ [id |-> Value(b, k), args |-> <<>>, callee |-> "-"])
      defined == IF k \in DOMAIN sel.nodeReg THEN (sel.nodeReg[k] :> Value(b, k)) @@ s.argVal ELSE s.argVal IN
  CASE node.op = "call" ->
         LET i == sel.callees[node.a[2]]
             n == ArgNum(i) IN
         [s EXCEPT !.out = Append(@, [op |-> "call", a |-> Const(0), b |-> Const(0), size |-> 4, id |-> Value(b, k),
                                      callee |-> i.n, args |-> [j \in 1 .. n |-> callArgument(s.argVal, n, j)]]),
                   !.ok = @ /\ ~BeforeTheFirst(i)]
    [] node.op = "load" -> [s EXCEPT !.out = out(emitLoad(b, node)), !.argVal = defined]
    [] node.op = "store" -> [s EXCEPT !.out = out(emitBinary(b, node))]
    [] OTHER -> [s EXCEPT !.out = out(emitBinary(b, node)), !.argVal = defined]

\* BRCOND and BR; a block without a branch gets one to the exit block.
emitBranch(b) ==
  LET last == IF code[b] = <<>> THEN "-" ELSE code[b][Len(code[b])].op IN
  CASE last = "Bcc" -> <<prog.succs[b][1], b + 1>>
    [] last = "B" -> <<prog.succs[b][1]>>
    [] OTHER -> <<>>

Complete(out) ==
  \A k \in DOMAIN out : ~NoValue(out[k].a) /\ ~NoValue(out[k].b) /\ \A v \in Range(out[k].args) : ~NoValue(v)
\* Mutant: the value of the last node of the block.
returnValue_Last(b, sel) == Value(b, Len(sel.nodes))
returnValue(b, sel) == getIRValue(b, getValFromRegMap(sel, "r0"))
isInstruction(out, v) == v[1] = "undef" \/ \E k \in DOMAIN out : out[k].id = v /\ out[k].op # "address"

SelectBlock ==
  /\ pass = "select" /\ Len(ir) < Len(code)
  /\ LET b == Len(ir) + 1
         sel == doInstructionSelection(code[b])
         emitted == FoldLeft(LAMBDA s, k : emitNode(b, sel, s, k), [out |-> <<>>, argVal |-> argVal, ok |-> TRUE],
                             [k \in DOMAIN sel.nodes |-> k])
         returns == proto.ret /\ prog.succs[b] = <<>>
         value == returnValue(b, sel) IN
     /\ ir' = Append(ir, emitted.out)
     /\ edges' = Append(edges, emitBranch(b))
     /\ regVal' = sel.regVal /\ argVal' = emitted.argVal
     /\ retVal' = IF returns THEN (b :> value) @@ retVal ELSE retVal
     /\ pass' = IF Complete(emitted.out) /\ emitted.ok /\ (returns => isInstruction(emitted.out, value))
                  THEN "select" ELSE "aborted"
  /\ UNCHANGED <<prog, code, proto, formats, frame, objects>>

\* The exit block: a PHI over RetValMap.
Exit ==
  /\ pass = "select" /\ Len(ir) = Len(code)
  /\ pass' = "raised"
  /\ UNCHANGED <<prog, code, proto, formats, frame, objects, regVal, argVal, ir, edges, retVal>>

Next == Discover \/ Revise \/ Eliminate \/ RaiseArgs \/ BuildFrame \/ Split \/ SelectBlock \/ Exit
Spec == Init /\ [][Next]_vars

----------------------------------------------------------------------------
(* What the IR does.                                                       *)
Undefined == Word(<<"undef", 0>>, 0)
Meaning(s, v) ==
  CASE v[1] = "const" -> Number(v[2])
    [] v[1] = "arg" -> Arg(v[2])
    [] v[1] = "object" -> Word(<<"obj", v[2]>>, 0)
    [] v[1] = "value" /\ v \in DOMAIN s.val -> s.val[v]
    [] OTHER -> Undefined

Execute(s, i) ==
  LET a == Meaning(s, i.a)
      c == Meaning(s, i.b)
      is(w) == [s EXCEPT !.val = (i.id :> w) @@ @] IN
  CASE i.op \in {"mov", "address"} -> is(a)
    [] i.op = "add" -> is(SumOf(a, c))
    [] i.op = "sub" -> is(Plus(a, -c.plus))
    [] i.op = "shl" -> is(Lsl(a, c.plus))
    [] i.op = "load" -> is(Joined(Fetch(s.mem, a, i.size), "sign"))
    [] i.op = "store" ->
         [s EXCEPT !.mem = Put(@, c, a, i.size),
                   !.events = IF c.of[1] = "obj" THEN @ ELSE Append(@, StoreEvent(c, a, i.size))]
    [] OTHER ->
         [s EXCEPT !.val = (i.id :> Word(<<"call", Len(s.events) + 1>>, 0)) @@ @,
                   !.events = Append(@, CallEvent(i.callee, [k \in DOMAIN i.args |->
                      LET w == Meaning(s, i.args[k]) IN
                      IF i.args[k][1] = "object" THEN Joined(Fetch(s.mem, w, 4), "sign") ELSE w]))]

RaisedRun(path) ==
  FoldLeft(LAMBDA s, b : FoldLeft(Execute, s, ir[b]), [val |-> Empty, mem |-> Empty, events |-> <<>>], path)

----------------------------------------------------------------------------
(* The functions the properties are about.                                 *)
ProgBlock(b) == prog.code[b]
Paths == PathsOf(prog.succs)
Reads(i) == IF i.op = "BL" THEN {ArgRegs[k] : k \in 1 .. IF i.imm < 4 THEN i.imm ELSE 4} ELSE Uses(i)
Writes(i) ==
  CASE i.op = "BL" -> Range(ArgRegs) [] i.op = "MOVr" /\ i.d = i.n -> {} [] OTHER -> Defs(i)
General == Range(ArgRegs) \cup {"r5"}
\* The instruction of the block that wrote r last before j, 0 if none did.
Writer(b, j, r) ==
  LET ks == {k \in 1 .. j - 1 : r \in Writes(ProgBlock(b)[k])} IN
  IF ks = {} THEN 0 ELSE CHOOSE k \in ks : \A l \in ks : l <= k
FromStack(i) == i.n \in {"sp", "fp"}

\* Up to four parameters and arguments, none read from the caller's frame.
FewArguments ==
  \A i \in Range(Flat(prog.code)) :
     /\ i.op = "BL" => i.imm <= 4
     /\ i.op \in Loads \cup Stores /\ i.n = "fp" => i.imm < 0

\* What a block reads was written in it, or is a parameter at the entry; what a call
\* passes is not the result of the last call, and a parameter that is only passed on
\* comes with one that is read.
BlockLocal ==
  \A b \in Blocks : \A j \in DOMAIN ProgBlock(b) : \A r \in Reads(ProgBlock(b)[j]) \cap General :
    LET i == ProgBlock(b)[j]
        k == Writer(b, j, r) IN
    IF k = 0
      THEN /\ b = 1 /\ r # "r5" /\ ArgIndex(r) <= prog.params
           /\ i.op = "BL" => \E q \in ArgIndex(r) .. 4 : isLiveIn(ProgBlock(1), ArgRegs[q])
      ELSE ProgBlock(b)[k].op = "BL" => r = "r0" /\ i.op # "BL"

\* No address of the frame is a value; sp has aliases only to reach it.
AddressesOfLocalsUnused ==
  /\ \A i \in Range(Flat(prog.code)) :
       FromStack(i) => i.op \in Loads \cup Stores \cup {"PUSH"} \/ i.d \in {"sp", "fp"} \/ IsAlias(i)
  /\ \A b \in Blocks : \A j \in DOMAIN ProgBlock(b) : \A r \in Reads(ProgBlock(b)[j]) \ {"sp", "fp"} :
       LET k == Writer(b, j, r) IN
       k > 0 /\ IsAlias(ProgBlock(b)[k]) => ProgBlock(b)[j].op \in {"LDRi12", "STRi12"} /\ ProgBlock(b)[j].n = r
                                          /\ ProgBlock(b)[j].d # r
\* No write-back after the access, no offset from a pointer for halfwords.
SimpleAddressing ==
  \A i \in Range(Flat(prog.code)) :
    i.n # "sp" => /\ i.op \notin {"LDR_POST_IMM", "STR_POST_IMM"}
                  /\ isHalfwordOP(i.op) /\ i.n # "fp" => i.imm = 0

\* Bytes of the frame that are accessed together are never accessed otherwise.
WholeAccesses ==
  LET spans == UNION {MachineRun(prog, p, prog.literals).locals : p \in Paths} IN
  \A x, y \in spans : x # y => x \cap y = {}

\* A byte or halfword that was loaded is only stored again.
NarrowOnlyStored ==
  \A b \in Blocks : \A j \in 1 .. Len(ProgBlock(b)) + 1 :
    \A r \in IF j <= Len(ProgBlock(b)) THEN Reads(ProgBlock(b)[j]) ELSE {"r0"} :
      LET k == Writer(b, j, r) IN
      k > 0 /\ ProgBlock(b)[k].op \in Loads =>
        \/ AccessSize(ProgBlock(b)[k].op) = 4
        \/ /\ j <= Len(ProgBlock(b))
           /\ ProgBlock(b)[j].op \in Stores /\ ProgBlock(b)[j].d = r /\ ProgBlock(b)[j].n # r
           /\ AccessSize(ProgBlock(b)[j].op) <= AccessSize(ProgBlock(b)[k].op)

\* No two instructions of a block that become the same node: moves of the same operand,
\* accesses of one kind at the same distance from the same register.
SplitClass(i) ==
  CASE i.op \in {"MOVr", "MOVi"} -> "mov"
    [] i.op \in {"LDRi12", "LDR_PRE_IMM", "LDRrs"} /\ ~FromStack(i) -> "load"
    [] i.op \in {"STRi12", "STR_PRE_IMM"} /\ ~FromStack(i) -> "store"
    [] i.op \in {"LDRBi12", "STRBi12"} /\ ~FromStack(i) -> i.op
    [] OTHER -> "-"
NodesDistinct ==
  \A b \in Blocks : \A j, k \in DOMAIN ProgBlock(b) :
    LET x == ProgBlock(b)[j]
        y == ProgBlock(b)[k] IN
    j < k /\ SplitClass(x) # "-" /\ SplitClass(x) = SplitClass(y) => <<x.n, x.m, x.imm>> # <<y.n, y.m, y.imm>>

\* A block ends in a branch or a return.
BlocksEnd == \A b \in Blocks : ProgBlock(b)[Len(ProgBlock(b))].op \in Jumps

\* A literal is the start of an array, a string or no address.
PlainLiterals ==
  \A i \in Range(Flat(prog.code)) : i.op = "LDRpc" =>
    \A s \in SymbolOf(prog.literals[i.imm]) : s.size \notin {1, 2, 4} /\ s.bss /\ prog.literals[i.imm] = s.at

\* A call passes what its prototype has; a call of a library function passes what the
\* format that was loaded last takes, and no format of the function comes later if none
\* came before.
FormatsLead ==
  \A i \in Range(Flat(prog.code)) : i.op = "BL" =>
    LET loads == {l \in Range(Flat(prog.code)) : l.op = "LDRpc" /\ SymbolOf(prog.literals[l.imm]) = {}
                                               /\ prog.literals[l.imm] \in DOMAIN Strings
                                               /\ Strings[prog.literals[l.imm]] > 0}
        before == {l \in loads : l.at < i.at}
        last == CHOOSE l \in before : \A m \in before : m.at <= l.at
        takes == IF before = {} THEN 0 ELSE Strings[prog.literals[last.imm]] + 1 IN
    IF ~Callees[i.n].library THEN i.imm = Callees[i.n].args
    ELSE /\ before = {} => loads = {}
         /\ \A l, m \in loads : l # m => l.imm # m.imm
         /\ i.imm = IF takes > Callees[i.n].args THEN takes ELSE Callees[i.n].args

Regular ==
  /\ FewArguments /\ BlockLocal /\ AddressesOfLocalsUnused /\ SimpleAddressing
  /\ NarrowOnlyStored /\ NodesDistinct /\ BlocksEnd /\ PlainLiterals /\ FormatsLead
  /\ WholeAccesses
\* Every exit leaves in r0 what its own block computed.
Returns ==
  \A b \in Blocks : prog.succs[b] = <<>> =>
    LET k == Writer(b, Len(ProgBlock(b)) + 1, "r0") IN
    k > 0 /\ ~(ProgBlock(b)[k].op = "LDRpc" /\ prog.literals[ProgBlock(b)[k].imm] >= 100)

----------------------------------------------------------------------------
(* For functions as above, the raised function takes the paths of the      *)
(* machine's, and on each calls the same functions with the same arguments *)
(* and stores the same bytes to memory in the same order.                  *)
ArmCallsFollow ==
  pass \in {"raised", "aborted"} /\ Regular /\ (proto.ret => Returns) =>
    /\ pass = "raised"
    /\ PathsOf(edges) = Paths
    /\ \A p \in Paths : RaisedRun(p).events = MachineRun(prog, p, prog.literals).events

(* If it returns a value, it is the machine's r0 at the end of the path.   *)
ArmReturnsFollow ==
  pass = "raised" /\ Regular /\ proto.ret /\ Returns =>
    \A p \in Paths :
      Meaning(RaisedRun(p), retVal[p[Len(p)]]) = MachineRun(prog, p, prog.literals).reg["r0"]
=============================================================================
