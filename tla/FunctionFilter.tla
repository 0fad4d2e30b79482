---------------------------- MODULE FunctionFilter ----------------------------
(***************************************************************************)
(* The include and exclude lists of --filter-functions-file                *)
(* (Raiser/FunctionFilter.cpp): how the configuration file fills them,     *)
(* line by line, and the queries and the erasure the disassembler makes.   *)
(*                                                                         *)
(* A list is a std::vector of FuncInfo.  Every operation looks an entry up *)
(* by its symbol name and takes the first match, so a list is modelled by  *)
(* the number of entries it holds for each name.  Prototypes are data: a   *)
(* line is abstracted to the section header, section end, entry (of the    *)
(* binary being raised), or other text it is.                              *)
(***************************************************************************)
EXTENDS Integers, Sequences

CONSTANTS
  Names,     \* symbol names
  Configs    \* the configuration files considered: sequences of lines

LineKinds == {"exclude-functions", "include-functions",
              "end",         \* "}"
              "entry",
              "ignored",     \* a comment, or an entry of another binary
              "overlong"}    \* a line that does not fit Buf[512]

Lines == [kind : LineKinds, name : Names]

ASSUME ConfigsAssumption == Configs \subseteq Seq(Lines)

VARIABLES
  config,      \* the configuration file being read
  line,        \* position of the next line to read
  section,     \* FFType, the section the reader is in
  excluded,    \* number of entries of each name in ExcludedFunctionVector
  included,    \* number of entries of each name in IncludedFunctionVector
  startIdx     \* StartIdx of the first ExcludedFunctionVector entry of a name

filterVars == <<config, line, section, excluded, included, startIdx>>

Sections == {"FILTER_NONE", "FILTER_EXCLUDE", "FILTER_INCLUDE"}

FilterTypeOK ==
  /\ config \in Configs
  /\ line \in 1..(Len(config) + 1)
  /\ section \in Sections
  /\ excluded \in [Names -> Nat]
  /\ included \in [Names -> Nat]
  /\ startIdx \in [Names -> Nat]

FilterInit ==
  /\ config \in Configs
  /\ line = 1
  /\ section = "FILTER_NONE"
  /\ excluded = [n \in Names |-> 0]
  /\ included = [n \in Names |-> 0]
  /\ startIdx = [n \in Names |-> 0]

-----------------------------------------------------------------------------
(* Queries and updates of the lists. *)

isFilterSetEmpty(list) == \A n \in Names : list[n] = 0

findFuncInfoBySymbol(list, n) == list[n] > 0

\* Only the first matching entry goes.
eraseFunctionBySymbol(list, n) ==
  [list EXCEPT ![n] = IF @ > 0 THEN @ - 1 ELSE @]

\* The names findFunctionByIndex may answer for index i: every entry of the
\* exclude list whose StartIdx is i.  An entry keeps StartIdx 0 until the
\* disassembler meets its symbol, and a repeated entry keeps it for ever.
findFunctionByIndex(i) ==
  {n \in Names : \/ excluded[n] > 0 /\ startIdx[n] = i
                 \/ excluded[n] > 1 /\ i = 0}

\* Mutant: the include list keeps a function that is excluded later.
addExcludedFunction_KeepIncluded(n) ==
  /\ excluded' = [excluded EXCEPT ![n] = @ + 1]
  /\ UNCHANGED included

addExcludedFunction(n) ==
  /\ excluded' = [excluded EXCEPT ![n] = @ + 1]
  /\ included' = eraseFunctionBySymbol(included, n)

addIncludedFunction(n) ==
  /\ included' = IF findFuncInfoBySymbol(excluded, n) THEN included
                 ELSE [included EXCEPT ![n] = @ + 1]
  /\ UNCHANGED excluded

-----------------------------------------------------------------------------
(* readFilterFunctionConfigFile, one line at a time. *)

Reading == line <= Len(config)

NextLine(kind) ==
  /\ Reading
  /\ config[line].kind = kind
  /\ line' = line + 1
  /\ UNCHANGED <<config, startIdx>>

OpenExclude ==
  /\ NextLine("exclude-functions")
  /\ section' = "FILTER_EXCLUDE"
  /\ UNCHANGED <<excluded, included>>

OpenInclude ==
  /\ NextLine("include-functions")
  /\ section' = "FILTER_INCLUDE"
  /\ UNCHANGED <<excluded, included>>

CloseSection ==
  /\ NextLine("end")
  /\ section' = "FILTER_NONE"
  /\ UNCHANGED <<excluded, included>>

ReadEntry ==
  /\ NextLine("entry")
  /\ \/ section = "FILTER_EXCLUDE" /\ addExcludedFunction(config[line].name)
     \/ section = "FILTER_INCLUDE" /\ addIncludedFunction(config[line].name)
     \/ section = "FILTER_NONE" /\ UNCHANGED <<excluded, included>>
  /\ UNCHANGED section

IgnoreLine ==
  /\ NextLine("ignored")
  /\ UNCHANGED <<section, excluded, included>>

\* getline() stores 511 characters (here: of a comment) and sets failbit, not
\* eofbit: the loop "while (!F.eof())" goes on and reads nothing ever after.
ReadOverlongLine ==
  /\ Reading
  /\ config[line].kind = "overlong"
  /\ UNCHANGED filterVars

ReadConfigLine ==
  \/ OpenExclude \/ OpenInclude \/ CloseSection \/ ReadEntry \/ IgnoreLine
  \/ ReadOverlongLine

-----------------------------------------------------------------------------
(* What the file asks for, read off its text. *)

\* The section the line i stands in: that of the last header or "end" above it.
Heads == {"exclude-functions", "include-functions", "end"}

InSection(cfg, i, head) ==
  \E h \in 1..(i - 1) :
    /\ cfg[h].kind = head
    /\ \A k \in (h + 1)..(i - 1) : cfg[k].kind \notin Heads

EntriesOf(cfg, head) ==
  {cfg[i].name : i \in {j \in 1..Len(cfg) :
                          cfg[j].kind = "entry" /\ InSection(cfg, j, head)}}

ExcludeRequests(cfg) == EntriesOf(cfg, "exclude-functions")

\* A file no section of which names a function twice.
NoRepeatedEntry(cfg) ==
  \A i, j \in 1..Len(cfg), head \in Heads :
    /\ cfg[i].kind = "entry" /\ cfg[j].kind = "entry"
    /\ InSection(cfg, i, head) /\ InSection(cfg, j, head)
    /\ cfg[i].name = cfg[j].name
    => i = j
=============================================================================
