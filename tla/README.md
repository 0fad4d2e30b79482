# A verification project for llvm-mctoll

llvm-mctoll raises a binary to LLVM IR. It is one sequential C++ program: nothing in it
runs concurrently. What makes it hard is of two kinds. Its passes share mutable state
(filter lists, target sets, CFGs, use lists, prototypes, reaching definitions), each
relies on an order in which another one filled it, and symbols, bytes, functions and
calls come in every order a linker can produce. And its handlers claim that the IR they
emit does what an instruction of the machine does, on every operand and after every
other instruction. The modules model the passes as state machines whose inputs are
nondeterministic, and run the code that the handlers emit beside the machine.

Paths below are relative to the repository's root (`src/` in `PROJECT.json`). File names
are shortened to `MT` (`llvm-mctoll.cpp`), `FF` (`Raiser/FunctionFilter.cpp`), `MI`
(`Raiser/MCInstRaiser.cpp`), `MR` (`Raiser/ModuleRaiser.cpp`), `XR`
(`X86/X86MachineInstructionRaiser.cpp`), `XU` (`X86/X86MachineInstructionRaiserUtils.cpp`),
`FP` (`X86/X86FuncPrototypeDiscovery.cpp`), `VT` (`X86/X86RaisedValueTracker.cpp`) and
`JT` (`X86/X86JumpTables.cpp`).

## The system

| Part | Where | State | Operations | Hard because |
|---|---|---|---|---|
| Function filter | `Raiser/FunctionFilter` | exclude and include list, section being read | read the file; look up by name or start index; erase | the lists are merged in file order; the include list shrinks while it is used |
| Disassembly driver | `llvm-mctoll.cpp`, `disassembleObject` | symbol cursor, offset, `BranchTargetSet`, vector of raisers | walk the symbols of `.text`, skip, start or extend a function, decode, collect targets | bytes of labels, overlapping ends, failing decodes, targets handed over late |
| MC instruction raiser | `Raiser/MCInstRaiser` | `InstMap`, `TargetIndices`, `InstToMBBNum`, the machine CFG | `addTarget`, `adjustFuncEnd`, `addMCInstOrData`, `buildCFG` | edges are computed one leader late; inline data; the last block |
| Module raiser | `Raiser/ModuleRaiser`, `MachineFunctionRaiser` | `MFRaiserVector`, the IR module | run the passes over all functions; `changeRaisedFunctionReturnType` | recursion over callers, use lists changed while walked |
| X86 prototype discovery | `FP` | `RaisedFunction` | argument and return types from the CFG and the callees known so far | depends on the order of functions and blocks |
| X86 control-flow raising | `XR`, `XU` | machine CFG, `mbbToBBMap`, `CTInfo` | delete noops, unlink empty blocks, walk, record and raise branches | offsets in the stream against blocks that have shrunk; dead code |
| X86 jump tables | `JT` | jump table descriptors, CFG | scan the table, erase and replace the blocks, raise the switch | where a table ends; what the bound was checked on |
| X86 instruction raising | `XR`, `X86MachineInstructionRaiserSSE.cpp` | basic blocks under construction | one case per kind of opcode | widths, signs, flags, lanes |
| X86 raised value tracker | `VT` | value of each register in each block, definitions to promote | record, find and promote reaching definitions; flags | loops; blocks not raised yet; widths that differ |
| X86 stack frame | `XR`, `XU` | `ShadowStackIndexedByOffset`, stack objects | one object per displacement; the final layout | references that overlap; several bases |
| X86 value-set analysis | `X86/X86ValueSetAnalysis.cpp`, `Raiser/ReducedIntervalCongruence` | abstract stores | assign, add, multiply, meet | stale sets, signs |
| FPU stack | `XU:479-540` | eight registers and a top | push, pop, access | wrap-around, branches |
| ARM raiser | `ARM/` | machine function, frame, selection DAG, values per register and block | prototype, revising, prologue elimination, arguments, frame, splitting, selection, emission | each pass rewrites what the next one recognises |
| RISC-V raiser, external prototypes, output passes, dumpers, opcode tables | `RISCV/`, `Raiser/IncludedFileInfo`, `Peephole...`, `COFFDump`, `MachODump`, `X86AdditionalInstrInfo` | none or a look-up map | printing, look-up | not modelled |

How they interact: the driver asks the filter about each function symbol (and erases it
from the include list), creates a raiser per function, and fills its instruction map and
target set. `runMachineFunctionPasses` then builds each function's CFG, discovers each
prototype (which also deletes noops and unlinks empty blocks), and raises each function's
instructions. The handlers of the instructions ask the value tracker for the registers
they read and tell it what they wrote; it may have to promote a register to a stack slot,
which is completed after the last block. Then the frame is laid out. While one function is
raised, its raiser may call back into the module raiser to replace others.

What makes each part correct: the filter decides as the file says; every recorded byte
has one owner and every raiser its leaders; the CFG has the blocks and edges of the code;
the raised function goes where the code goes, computes what it computes, and accesses the
memory it accesses; calls and returns agree with the prototypes, whatever was found out
in between; every walk ends.

## The modules

| Module | Models | State and actions |
|---|---|---|
| `FunctionFilter` | the filter: each list is a bag of names, the file a sequence of lines | one action per kind of line; the look-ups and erasures are operators that `Disassembly` uses |
| `Disassembly` (extends `FunctionFilter`) | `disassembleObject`, from reading the filter file to the call of the passes | `ReadConfig`, `BeginWalk`, the fates of a symbol (`SkipEmptySymbol`, `SkipFilteredFunction`, `BeginFunction`, `SkipOrphanSymbol` / `ExtendFunction`), the fates of an offset (`DecodeInst`, `FailToDecode`, `AddData`, `PrintObject`), `EndSymbol`, `EndWalk` |
| `MCInstRaiser` | `buildCFG` | one action per kind of entry of the stream, `LastMBB`, `NextMBBEdges` |
| `BranchRaising` (extends `MCInstRaiser`) | from the machine CFG to the branches of the raised function | `DeleteNOOPs`, `UnlinkMBB`, the walk (`Raise...`, `RecordBranch`), `RaiseDirectBranch`, `RaiseFallThrough` |
| `Prototypes` | return types: discovery, and their change while functions are raised | `ConstructPrototype`, `EndIteration`, one action per kind of instruction (`RaiseDef`, `RaiseCall`) and per way a block ends (`RaiseFork`, `RaiseReturn`, `RaiseTailCall`), `EndFunction`, and the steps of `changeRaisedFunctionReturnType` (`NoUsers`, `ChangeCall`, `ChangeTailCall`) |
| `JumpTables` | `raiseMachineJumpTable`, `raiseIndirectBranchMachineInstr` | the scan (`SkipInst`, the two forms of a table), `EraseMBBs`, the raising of the switch |
| `ValueTracker` | argument discovery, reaching definitions and their promotion, arguments of calls | `RaiseNext` (one instruction), `RaiseBranches`, `handleUnpromotedReachingDefs` (the late stores), `Finish`; then `RunBlock` runs the raised blocks beside the machine |
| `Words`, `X86Machine` | two's complement words; what the machine does to values and flags | operators; external |
| `Eflags` | the integer arithmetic, the five flags the raiser tracks, and their users | `Step`: one instruction, in the machine and raised; `NextBlock`: the flags are read in another block |
| `X87`, `FPUStack` | the register stack of the x87 (abstract, external); the ring of eight slots | the three kinds of handler, and a fork with its second arm; `FPUStack` implements `X87` |
| `ValueSets`, `Registers` | the abstract store; moves, conversions, additions, addresses, stack operations and divisions | one action per group of handlers (`Move`, `Compute`, `Memory`, `Stack`), each of which runs the machine, the raised code and the value sets |
| `Vectors` | the SSE handlers | one action per handler (`FloatOp`, `BinaryOpRegToReg`, `SSECompare`, `ConvertFloat`, ...) |
| `StackFrame` | the objects of stack references, promotion slots, the layout | `RaisePrologue`, `RaiseBody` (one instruction), `createFunctionStackFrame` |
| `ArmMachine`, `ArmFlags` | data-processing instructions of ARM (the first is external): splitting, conditions, flags | as `Eflags` |
| `ArmProgram`, `ArmFunction` | programs and the machine that runs them; the passes that `ARM/ARMRaiserBase` runs on one function | one action per pass: `Discover`, `Revise`, `Eliminate`, `RaiseArgs`, `BuildFrame`, `Split`, then `SelectBlock` for each block, and `Exit`; the properties run both functions on every path |
| `Disassembly_proofs`, `BranchRaising_proofs`, `Prototypes_proofs`, `JumpTables_proofs`, `StackFrame_proofs`, `X86State_proofs` (of `Eflags` and `FPUStack`), `ArmFlags_proofs` | theorems | |
| `Words_proofs` | lemmas about words, for the two modules before it | |
| `MC...` | instances for TLC | |

How they fit together. `Disassembly` ends with, for each function, its bytes and its
leaders (`LeadersRecorded`); `MCInstRaiser` starts from any stream of entries with
exactly those leaders (`RecordedTargets`), so that it covers every function the first
could produce at the given size; `BranchRaising` continues each of its behaviours.
`JumpTables` starts where `BranchRaising` leaves functions with indirect branches.
`Registers` and `Vectors` are about what one register holds within a block,
`ValueTracker` about which definition it is between blocks, `Eflags` about the flags of
both. `Prototypes` and `ValueTracker` share prototype discovery: what it says of the
return register and of the arguments.

### Abstractions

- **Bytes** are what the decoder answers for them, chosen at the moment an offset is
  decoded; no offset is decoded twice. An instruction is its size, kind and displacement.
- **The filter file** is a sequence of lines of the kinds the reader tells apart. An
  overlong line is one of 512 or more characters. Prototypes are data.
- **Control flow**: a raised block is its terminator; the instructions in between build
  values and do not affect control flow. One-byte entries, so that a byte that was not
  decoded is a gap.
- **A function in `Prototypes`** is what the return register sees of it: definitions of
  RAX or EAX, calls, and how each block ends; its first block leads to all others. A
  `Function` object is a number and a version, so that a call of a replaced object can be
  told from a call of the one that replaced it.
- **A function in `ValueTracker`** reads and defines four registers, in some of the three
  widths the tracker tells apart; a value is the definition it comes from and the parts
  of it that were cut off, so that two definitions always differ.
- **Numbers** in `Registers` and `Vectors` have bytes of one bit: the boundaries between
  8, 16, 32 and 64 bits stay where they are and every value is tried. Floats are a sign
  and a magnitude in fixed steps; their arithmetic is a constant (`Arith`) that the
  machine and LLVM share, as rounding is not what the raiser decides.
- **Poison** of LLVM (a shift by the width, signed overflow under `nsw`) is a value of its
  own, and no property says that it equals the machine's.
- **Memory** in `Registers` is what the raiser makes of it: slots for the machine, and for
  the raised code objects of 64 bits, found by displacement or as what RSP stands for. That
  narrower objects may overlap others is the subject of `StackFrame`.
- **Stack distances** are counted in units of four bytes; what matters is which addresses
  two references stand for, not what is stored there.
- **ARM** values are symbolic terms (the argument in r0, a load from an address, a sum),
  so that two functions agree only if they compute the same thing.
- A failed `assert` or `llvm_unreachable` is the state "aborted"; a read of something
  undefined is "undefined". `Asserts` tells a build with assertions from the Release
  build that `README.md` section 7 describes.
- Only `.text` of one linked ELF file is walked (the driver asserts that there is one
  text section); `--start-address`/`--stop-address`, printing and loading are left out.

## The runs

| Run | Instance | Shows |
|---|---|---|
| `MCDisassembly` | `.text` of 4 bytes; symbol tables of up to 4 symbols of all types, adjacent, coinciding and beyond the section; 7 filter files; decoders that fail, and branches in and out | A function of the exclude list is never raised, in whatever order the sections stand. Ranges are disjoint. Every raiser knows its leaders before `buildCFG` uses them. The walk ends. |
| `MCBranchRaising` | all 4-entry streams of code with padding, and of code with data and indirect branches, that are `LaidOut` | Blocks partition the instructions and edges are exactly the ways control can go. Each raised block branches, returns or calls as its code does; no reachable code is lost; an assertion fails only in a function with dead code. |
| `MCPrototypes` | all modules of 3 functions, each with one exit, directly or after a fork, or with two: 53998 programs | Calls follow a callee that is called once. Returns have the type of their function, and tail callers the type of their callee, although the callee is raised later. The iterations and the recursion end. |
| `MCJumpTables` | 7 blocks, tables of up to 5 values, both forms of table code, overlapping sections | The CFG gets the edges of the table's entries and the raised switch goes where the jump goes. |
| `MCValueTracker` | 13422 functions of 4 blocks over 6 CFGs (a diamond, loops tested at the top and at the bottom, nested, and entered in the middle), four registers, calls | A register read, returned or passed has, on every path, the value the machine has, and every definition dominates its uses. |
| `MCEflags` | 4-bit words, all pairs of instructions of all forms | Values and flags are the machine's wherever the machine defines them and the module names no departure; conditions decide as the comparison does. |
| `MCRegisters` | two instructions from all numbers of `Inits`; three from zeros | What the raised registers and stack objects hold is the machine's as far as it is covered; a constant the value sets know is the machine's. |
| `MCVectors` | two SSE instructions, two registers and 16 bytes of memory | The same for the bytes of the SSE registers, for the general registers that conversions write, and for the flags of UCOMIS. |
| `MCFPUStack` | all straight-line programs, with branches at which at most `MaxAtBranch` values are on the stack | The ring is the register stack; it implements `X87`. |
| `MCStackFrame` | 7 prologues, bodies of 3 instructions | References that touch the same bytes of the machine's frame touch the same bytes of the raised one, at the same distance, and no others; promotion slots are private; the layout completes. |
| `MCArmFlags` | 4-bit words, pairs of instructions, conditional, shifted, flag-setting | As `MCEflags`. |
| `MCArmFunction` | 9692 functions of six frames and up to three blocks | Carried through all passes, a function that is `Regular` makes the calls and stores of the machine, with the same arguments, in the same order, on every path, and returns the machine's r0. |

`MCDisassembly`, `MCBranchRaising`, `MCPrototypes`, `MCJumpTables` and `MCEflags` are
checked with deadlock detection; a program that has ended stutters by an explicit action.
The others switch it off (`CHECK_DEADLOCK FALSE`): their behaviours are straight-line code
of bounded length, or one function that is raised once, and stop at their end. There
`FrameCompletes` says, as an invariant, that the last step of the layout can be taken.

**Bounds.** Four bytes or entries (`SectSize`, `FuncEnd`) give a function two branches, a
block between them and code after it, every relative position of a branch and its target,
and data, noops or a second function in between. Three symbols with the dummy one give a
raised, a skipped and a following one. Three functions give a caller, a callee that is
also a tail caller, and a second caller, in every order; a fourth would add only longer
chains, each link of which is the same step. Four blocks (`LastBlock = 3`) are the least
that have a diamond, or a loop with a body and an exit; the raised function runs for
`MaxBlocks = 6` blocks, two rounds of the longest loop. `MaxInsts = 2` in the instruction
modules is a write followed by a read: state carries over only in one register, or in the
flags, and the sets of initial values contain every boundary of the width. `MaxFromZero`
gives the value sets a third instruction, to be stale after. `MaxBody = 3` is a move of
the stack pointer, a reference and a second one that may overlap it. `MaxIndex` exceeds
the longest table by one. `MaxAtBranch = 2` bounds what is on the FPU stack where the
path forks, as the two arms then push onto both.

**Fairness.** `Disassembly!FairSpec` and `Prototypes!FairSpec` assume weak fairness of
`Next`: the program is one thread that the operating system runs. No action is assumed
to be chosen rather than another, so the decoder may fail for ever and still
`WalkTerminates` holds. `RaisingEnds` is about the recursion over tail callers, which may
be cyclic.

## Conditions in the properties

Much of what was met while modelling is a departure of the raised code from the machine
that no document or test of the repository denies. Each property states the cases it
leaves out as named conditions, defined in its module at the line where the code departs.
They are listed here so that they are not forgotten; what a condition leaves out, the
model still does. Where a hazard of `PROJECT.json` is such a case, it names no property and
its note says which condition leaves it out; where it is so in part, the note says which
part is covered.

**Filter and driver.** `WalkTerminates`: no overlong line, as `getline` sets failbit on a
line that fills `Buf` and `while (!F.eof())` (FF:281) then spins for ever.
`ExcludedNeverRaised`: no section names a function twice (`NoRepeatedEntry`), as only one
entry is erased (FF:168). Further: an include list that has become empty counts as none,
so that every later function is raised (MT:1269); an excluded function without a symbol
answers for start index 0 (FF:160); a Release build parses no prototype (FF:157) and
leaves `FuncEnd` as it was (MT:1085), both being inside `assert`; instructions after an
undecoded byte are added though the comment at MT:1224-1226 says they are not; a function
whose first byte does not decode reads the last block of an empty function (MI:114).

**CFG.** `LaidOut` describes code as compilers lay it out. Without it: a conditional branch that leaves the function loses its fall-through (MI:71); a branch or a
return directly before inline data gets no edges (MI:97); the size of the last
instruction counts undecoded bytes (MI:143); `getMCInst` of a last entry that is data
reads what is not there (MI:127); a return with padding in its own block keeps a
successor, as `isReturnBlock` looks at the last instruction only (MI:183,
`ReturnsEndBlocks`). A byte that does not decode directly after a branch lets the branch
stand inside a block (`GapsApart` in `BranchRaising_proofs`).
`NoopsApart`: a conditional branch before a noop that starts its own fall-through block
aborts (XR:4801). Of several predecessors of an empty block only the first gets its
successors (XU:289), so that code is lost; in a stream this takes branches to noops from
two places and six entries, more than the run has (`0: jmp 2; 1: jmp 3; 2: jmp 3; 3: nop;
4: cond 1; 5: jmp 4`). `~Empty(1)` in `ReachableCodeRaised`: a first block of noops alone has
no predecessor, so that its edges are dropped (XU:292-299) and nothing of the function is
raised; it takes a leader right behind noops that begin the function.

**Prototypes.** A function with a single exit that tail-calls a function raised before it
keeps the type discovered before, and returns nothing, if the callee has become void in
between (hence `f < g` in `ReturnsTyped` and `TailTypesFollow`). `CalledOnce`: the list of
users is walked while it is changed, so that of several callers only one follows (MR:344). The
second iteration discovers nothing (MR:212).

**Jump tables** (`TablesApart`, `EntriesLead`, `EntriesGuarded`, `ComparedDirectly`,
`BasesInside`, `BasesAtBranches`, `ChecksGuard`, `ComparesNumbers`). Adjacent tables and
words after a table are read as entries, and the bound check is erased with its block
(JT:95-125, 175-213); an entry that is no leader enters its block at the start; an entry
that leads to a branch through a table makes a second predecessor, on which the discovery
asserts, or a case that is erased (JT:292-293, 363-370); a comparison of a register that a
lower bound was subtracted from switches on the register before; `SecEnd >= base` picks the
section before; a base taken in the block that falls through to the branch asserts; the
default block is left unset in one form (`ModuleRaiser.h:39-48`). An erased block with more
than two predecessors is taken out of their successors while the list is walked (JT:365-368,
`Overruns`: the outcome is undefined). Not modelled: the case of `getSwitchCompareValue` for
a XOR32 before the branch (JT:452-469), which checks no bound.

**Value tracker.** `WellDefined` is about the program. `CallsForeseen`: that a call
defines RAX is not recorded before the raising, so that a loop misses it (VT:60-103).
`CopiesFixed`: when a register is promoted, the uses of a copy are redirected to a slot
that changes (XU:1010-1045). `OneWidth`: definitions of several widths meet in a slot of
one (VT:460-495). `ArgumentsSeen`: a register that is defined on one of two paths to a
read counts as defined (FP:233), and the read then fails or a call passes 0 (XR:5537).
`VariadicsSetUp`: the arguments of a variadic call are counted over the edges into its
block: arguments of the function itself are not counted, and two definitions above one
edge count twice (XR:5422-5474). Prototypes not constructed yet contribute no argument.

**Values and flags** (`Departures` in `Eflags`). The masks of shift counts are swapped
(XR:1341, 3055); SAR by a constant or of memory is raised as LShr (XR:4593); ADD, IMUL and
MUL have `nsw`, so that overflow is poison; the carry of NEG is always 0 (VT:765); SHR,
SAR and SHRD test a wrong bit, SHL by 1 is tested as signed; shifts and rotations by 0,
SBB when the subtrahend and the carry wrap, double shifts by the width. A flag the machine
writes and the raiser does not is no longer tracked: INC of memory sets none (XR:3174-3236,
where `raiseMemRefMachineInstr` sends it; the case of `raiseMoveToMemInstr` is never
reached). DEC of memory is not among the instructions: the raiser asserts on it (XR:3224).

**Registers and value sets** (ghosts for what is covered). A write of 8 or 16 bits loses
the rest of the register for a wider read, one of AH loses everything; `pop` raises
nothing; pushes in a row store to one object, the one RSP stands for (XR:92-116), and a
reference after RSP was moved is looked up by its displacement from the new place, so that
an object may hold another slot than the one a reference means (`slotIn`); immediates of operations on memory are extended without their sign (XR:2931); an
address without index on a 32-bit value is added in 32 bits; IDIV of a negative dividend.
Of the value sets: sign and width of constants are lost in several moves, narrow moves
assign the whole register, an operation on memory sets the slot to the register's set, and
most handlers leave the set of what they write stale.

**Vectors** (ghosts for what is covered). Operations on a scalar forget the upper lanes;
the three-operand SQRT takes the value of the destination (XR:1647); CMPNEQ is ordered;
conversions to integers truncate where the machine rounds, and are poison out of range;
CVTSI2SD converts in the width of the raised value; MOVD and MOVQ move 16 bytes to and
from memory; UCOMIS loads 16 bytes.

**Frame** (`Regular`: all references are on one side of what the prologue set up; if they
are below it, the last object ends there, or nothing reaches from the object at the top to
another, and no pointer refers to bytes below its own object; no mark of the following was
set). An array at the top of an RBP frame is split; a leaf whose highest local is not next
to the return address, stack arguments, pushes after locals and the pushes of the prologue
share objects with locals; a base that was loaded is taken for the frame (XU:1337); the
distance of two objects need not be that of their locals, so a pointer that was moved
below its object reaches other bytes; a promotion slot above a later reference makes the
layout loop for ever (XU:1202); an index is dropped from a LEA of the frame (XR:741-750).
A reference after RSP was raised again, by a `pop` or an `add`, counts from what RSP stood
for before (`after release`); and an `add` of more than was taken can find a promotion
slot in place of the object of the `sub` (XU:1354-1360).

**ARM flags** (`Departures`, `carryLost`, `overflowLost`). Carry and overflow of
comparisons are lost for the largest unsigned and signed first operand; HI/LS and GT/LE
are wrong for flags that no comparison leaves; an instruction that both is conditional and
sets flags sets none; CMP, CLZ, MLA and RSC ignore their condition; shifted TST and TEQ,
ROR and RRX lose the carry; a shift by a register that holds 0 is poison; ADCS adds a
carry of 1; the destination of SBC is never defined; RSB's operands are swapped.

**ARM functions** (`Regular`, `Returns`). Stack parameters are numbered wrongly and
dereferenced; the number of parameters is that of the one discovered last; parameters that
are only passed on are missed, as is the value of `return g();`; a pushed r3 is counted; an
ADD of a frame object becomes a load; the offset into a symbol is lost; the count of a
format string is applied to every library call, and a call before the first format reads
index -1; narrow loads are sign-extended; a write-back after the access is lost; the sign
of a register offset is ignored; nodes of earlier blocks are freed, and values pass between
blocks in the order of the layout; the position of arguments on the stack is computed
wrongly (`ARM/DAG/IREmitter.cpp:749`).

## The proofs

`tlapm` checks the theorems with Z3, Zenon and LS4. Each holds for every value of the
constants that satisfies the assumptions of its module (`DisassemblyAssumption` and
`ConfigsAssumption`: symbols sorted by address, an instruction that decodes has a size;
`StreamsAssumption`; `ProgramsAssumption`: calls and tail calls are of functions of the
module, and only the first of several blocks is a fork; `FunctionsAssumption` of
`JumpTables`: a check has two ways to go on, sections are sorted and do not overlap, the
table of a switch has entries, lies in one section and leads into the function;
`WidthAssumption`: a word has at least two bits and `Half` is the power of two that goes
with them; `OperandsAssumption`: operands are words, shift counts below two widths;
`ArmAssumption`: operands are words, and the four flags fit into one; `FPUAssumption`,
`StackFrameAssumption`: what sets the constants are taken from). None of the properties is
inductive by itself; the strengthening is named with each.

**`Disassembly_proofs`** (invariant `WalkInv`). That a new range does not overlap the
older ones depends on where the walk stands. `WalkInv` adds: the symbols are sorted
(`Sorted`); a symbol is decoded only when there is a raiser (`DecodeHasRaiser`); the last
raiser ends no later than the next symbol starts, or, while decoding, at the end of the
symbol, which the offset lies in (`LastRaiserPlaced`); ranges are not inverted
(`RangesOrdered`); and, in a build with assertions, instructions are in range
(`InstsPlaced`). There is one lemma per action, or per group with the same effect on these
conjuncts; `NextKeepsWalkInv` combines them. From `WalkInvariant` follow `TypeCorrect`,
`RangesAreDisjoint`, `InstructionsInRange` (under `Asserts`: without it `FuncEnd` does not
move), `TargetsAreSafe` (the dereference at MT:1278 is safe, since targets are only
collected while there is a raiser) and the action property `OlderRaisersAreFrozen`.

**`LeadersAreRecorded`** (in `Disassembly_proofs`, invariant `LeadersInv`): whatever the
symbols, the bytes and the file are, in a build with assertions every raiser knows its
leaders when the passes begin. The invariant says, of every branch of the last raiser, that
the leaders it makes are in `BranchTargetSet` or were handed over already, as far as the
walk has come (`Collects`: the instruction after a branch becomes a leader only once it is
decoded), and that all raisers before it know theirs (`KnowsLeaders`), which by `WalkInv`
change no more.

**`ExclusionHolds`** (in `Disassembly_proofs`, invariant `ListsInv`): if no section of the
file names a function twice, an excluded function is never raised. The invariant relates
the lists to the lines read so far: the reader's section is the one the last header opened
(`SectionTracked`); every name read in an exclude section is in the exclude list, for good
(`ExcludedListed`); a name in the include list comes from an include entry, is there once,
and is not excluded (`IncludedListed`); the walk starts when the file is read
(`ConfigRead`).

**`BranchRaising_proofs`** (`CFGInv`, `EdgeInv`, `RaiserInv`). `BlocksAlwaysPartition`: for functions of any length
in which no undecoded byte directly follows a branch or data, the blocks that `buildCFG`
makes hold each instruction once, in order, and no branch is inside one or leads into one.
The invariant: blocks lie in the order of the stream (`InOrder`), contain what the walk
has met and nothing else (`AllCovered`, `InstsMet`), contain leaders only at their start
and branches only at their end (`Straight`), and after a branch the walk stands right behind it or
behind data (`BranchesEnd`), so that the next instruction is a leader. It is
proved of `CFGSpec`, which `RaiserSpec` implements (`RaiserImplementsCFG`).

`EdgesAlwaysSound` and `EdgesAlwaysComplete` (`EdgeInv`, which adds to `CFGInv`): the edges
of a function of any length in which every byte was decoded (`AllDecoded`) are ways control
can go; and they are all the ways, if no conditional branch leaves the function and data
follows no conditional branch and no jump within the function (`DataUnreached`). Without
these hypotheses the code does not do it (see the conditions on the CFG above). `EdgeInv`
says that the instructions of a block are adjacent (`Adjacent`); that the targets noted for
a closed block are a function of its last instruction and of what comes after it
(`TargetsNoted`, `NotedTargets`), and its edges the blocks of those targets (`SuccsNoted`).
Since every target in the function is a leader and leaders start blocks, no target is lost.
The targets are turned into blocks by a recursive function (`TargetMBBs`), about which
`TargetMBBsFacts` is proved by taking the least index at which it would fail
(`LeastElement`, from the library's `WFMin`), as induction is not available.

`RaisedFlowAlwaysFaithful`, `ReachableCodeAlwaysRaised` and `AbortsAlwaysOnDeadCode`
(`RaiserInv`): for functions of any length whose streams are `LaidOut`, the raised function
takes the control flow of the machine code, no code that the machine can come to is left
out, and only dead code can make an assertion fail. The hard part is the clean-up between
the machine CFG and the walk, and the invariant follows the edges through it. While empty
blocks are unlinked, a block that is still `Linked` has all its edges (`EdgesKept`); an edge
that is there is one of buildCFG's or was handed to a block that ends with a conditional
branch (`EdgesFrom`); and what an unlinked block led to, its predecessors lead to
(`EdgesMoved`). That needs that each empty block has one predecessor (`OneBeforeEmpty`),
which is what `NoopsApart` gives: only the conditional branch before it falls through to
it, and what is behind the noops is code (`NoopsBetween`). Then the walk: the blocks that
are visited are closed under the edges (`WalkClosed`, from the least set that
`ReachableFrom` is), records are of branches to blocks of their own (`RecordsOK`, from
`BranchTargetNumber`: a jump without a block leads out of the function, as the bytes left of
a block never reach beyond `FuncEnd`, `BytesLeftBound`), and the terminator of a block is
known as soon as a step has dealt with it (`ExitKnown`). Where control goes there is an edge
to the block that begins there, noops aside (`NextBlock`), so every branch finds its block
raised; and the offsets at which a block is raised are closed under what the machine does
(`RaisedAtNext`), so they contain `ComesTo`. Sums over a block (`BytesLeft`) are a recursive
function whose existence is proved by the least length at which it would fail
(`PrefixSums`). The edges are a set with times rather than lists, and reachability is the
least closed set rather than a recursive operator, so that they can be reasoned about.

**`Prototypes_proofs`** (`CallsInv`), for modules of any number of functions with any
number of blocks, calls and tail calls among each other. `CallsAlwaysFollow`: no raised
call is of a `Function` that was replaced, if the callee is called once.
`ReturnsAlwaysTyped` and `TailTypesAlwaysFollow`: in the end returns have the type of their
function, and single-exit tail callers the type of their callee, however long the chain of
tail callers is. While a change is under way some functions of the chain have had their
call changed and none its `Function`, so the invariant speaks of what will be: all
functions on the chain but the last are called by the objects they will be replaced with
(`CallsCurrent`), returns have the type their function will have (`ReturnsPending`), and
so have tail callers, but for the callers of the last function of the chain
(`TailsPending`), whose one call is the next the recursion meets (`OnlyUser`,
`TailCaller`). That rests on where the walk stands: each call was made at a place of its
own that the walk has passed (`CallsPlaced`), every tail call passed was made
(`TailsCalled`), and a function has as many returns as exits were passed, and one once it
is done (`Progress`), so that the return the recursion replaces is the only one. The
functions of a chain are distinct and were reached by the walk (`ChainOrdered`). For this
the instructions of a block are raised one at a time in the model, as in the code.

**`JumpTables_proofs`** (`ShapeInv`, `TablesInv`, `CompleteInv`), for functions of any
number of blocks and switches, any instructions between, tables of any length, any words
around them and any sections. `EdgesAlwaysFollowTables`: no edge leads to an erased block,
and a block with a table leads to its default and the entries that are kept.
`SwitchesAlwaysFollow`: under the conditions above the discovery and the raising get
through, and each switch goes where the machine goes, for every index. `TableExtent` is the
lemma about the scan: `SectionOf` picks the section of the table, although its end is
counted to it, and the greatest extent that reads as addresses (`TableShape`) is the bound
of the check. `TablesInv` relates the two blocks of a switch: each block with a table is the
check of exactly one block that is to be erased, whose base the scan has passed (`Built`,
`Passed`), and edges are those of the code and of the tables (`Edges`). So a branch that is
met has not been built, and its check is a conditional jump still. `CompleteInv` adds, for
tables that are readable, that a base that was passed has its table: as no table leads to
a branch (`TablesLeadElsewhere`), the check stays the only predecessor and no assertion
fails. Checks and branches belong together one to one (`ChecksApart`), and the default is
never erased: that needs that the target of a check is no branch through a table.

**`StackFrame_proofs`** (`FrameInv`), for bodies of any length made of any instructions
with any operands. `SlotsArePrivate`: no reference is to an object that keeps a promoted
register. `FramesComplete`: the layout of a regular frame gets past every object, with
offsets that are not negative. Promotion slots are put below everything there is at that
time, and objects made later could be put below or into them; so the invariant says that,
as long as nothing `unreserved` was referred to, every slot lies below all objects of the
program and below RSP at entry (`SpillsBelow`) and no register stands for one
(`ValuesPrivate`). Objects below RSP at entry were looked up at their own offset
(`PlainLookedUp`): in a frame whose locals are above RSP only the one move of RSP does
that, so that no second one can be negative. Without the marks `after release` and, for an
`add`, `unreserved` both are false, though only of bodies longer than those of the run.

**`Words_proofs`**: what the two modules below need to know of words of any width. The
powers of two are a recursive function, and that they satisfy their recursion (`TwoToDef`) is
proved by taking the least number at which no finite prefix would exist. By the same argument
(`Least`) a word is the set of its bits, and every set of bits is one word (`BitsExist`,
`BitsDetermine`, `WordOfBits`), so that the bitwise operations, which choose the word with
given bits, are what they are bit by bit (`BitOperations`), and masks, complements, rotations
(`RotatedWord`) and the bit that a shift moves out (`LeftCarry`, `RightCarry`, `ArithCarry`)
can be told in numbers. Products of two widths are split into words (`UnsignedProduct`,
`SignedProduct`).

**`X86State_proofs`, about flags** (`ComparedInv`, `FlagsInv`). `ComparisonsAlwaysDecide`: for
words of every width and all operands, a condition that is read after a raised comparison
orders its operands. The invariant gives the raised flags as a formula of the operands; it is
established by a comparison and given up at the next instruction. `ValuesAlwaysFollow`,
`FlagsAlwaysFollow`, `ConditionsAlwaysFollow`: for words of every width, all operands and
shift counts, and sequences of any length, values and flags that are tracked are those of the
processor. `FlagsInv` adds only types: what makes the properties inductive is that each
instruction, whatever flags it starts from and whichever of them are tracked, leaves the
value and the flags of the processor where `Departures` does not name them (`StepFollows`). That
has one lemma per group of instructions, of which the hard ones are those on a borrow
(`SbbFollows`: the raised code adds it to the second operand first, and the sum wraps or
changes its sign for one operand each), on products (`MulFollows`), and on shifts and
rotations, whose counts may exceed the width (`ShiftFollows`, `RotateFollows`,
`DoubleFollows`).

**`ArmFlags_proofs`** (`ArmComparedInv`, `ArmInv`). `ArmComparisonsAlwaysDecide`: as above,
but for the largest first operand, whose successor wraps. `ArmValuesAlwaysFollow`,
`ArmFlagsAlwaysFollow`, `ArmConditionsAlwaysFollow`: as above, for words of four bits or more.
An instruction with a shifted operand was split in two, and both parts store flags; so the
proof has lemmas on the shifted operand (`FirstValue`, `FirstFlags`), on the node of the
second part (`LogicNode` to `StatusNode`), and on the two stores together (`FlagsAgree`,
`RunFollows`): where the second part stores a flag it must be right, and where it does not,
the first. `ConditionFollows` puts the condition around them, which is read from raised
flags of which only the tracked ones can be trusted.

**`X86State_proofs`, about the x87** (`FInv`). `RingInvariant`: the slots from the top hold the values
that are on the stack, in their order, and the others are empty; `RingImplementsX87`: with
that list as its stack, every behaviour of the ring is one of `X87`, for any set of values
and any operation. The lemmas say what a push, a pop and a write do to the list, modulo 8.

Only model-checked: the liveness properties (`WalkTerminates`, `RaisingEnds`);
`AccessesAgree` of `StackFrame`, whose cases (which object a register stands for at each of
its addresses) need an invariant per shape of frame, and which is meant for displacements
that do not reach from one part of memory into another (`Away`); the properties of `Registers` and
`Vectors`, where what a register holds is computed by three interpreters (the machine, the
raised code and, in `Registers`, the value sets) for each handler and width; and
`ValueTracker` and `ArmFunction`, whose traversals and terms are `RECURSIVE` operators.

## Not modelled, and the plan

Hazards met that no property covers, each too small or too deep in data for these models:
`MCInstOrData::operator=` never resets its type; `getCalledFunctionUsingTextReloc` passes
`Loc + Size` for a size (MR:166); `AllPrototypesConstructed |=` never fails (MR:215); the
constructor of the tracker compares the number of arguments with `>` (VT:46); `SUB64rm`
has the class of a comparison (`X86AdditionalInstrInfo.cpp:2614`).

Parts that are modelled partly lack: operands in global memory and relocations
(XU:1409-2244), arguments in SSE registers and on the stack, arguments of tail calls, tables
of function pointers, results in XMM0 of `CALL64r`; splitting of ARM instructions under a
condition and by pre-indexed registers, ARM jump tables and calls through registers.

Left out for good: the tables of `X86AdditionalInstrInfo.cpp` (14000 lines of data: which
handler an opcode has), `COFFDump` and `MachODump` (7000 lines of printing taken over from
llvm-objdump), clang's parsing of headers (`IncludedFileInfo`), the RISC-V stub, and the
output passes.

Next, in this order:

1. Theorems about `ValueSets`: each operation contains the exact result
   (`Meaning(multiplyRIC(...))`), for any `Limit`.
2. Arguments on the stack and in SSE registers, in `Prototypes` and `ValueTracker`.
