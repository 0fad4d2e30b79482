----------------------------- MODULE MCJumpTables -----------------------------
(***************************************************************************)
(* Functions of seven blocks: a switch in 0 and 1 with default 2, another  *)
(* in 3 and 4 with default 5, and 6 for a case of them.  The data is two   *)
(* tables of two entries each and what stands between and after them.  And *)
(* functions whose indirect branch is a block of its own, as computed      *)
(* gotos have it.                                                          *)
(***************************************************************************)
EXTENDS JumpTables

B(mis, end, bound, cmp, base) ==
  [mis |-> mis, term |-> end, bound |-> bound, cmp |-> cmp, base |-> base]
T(op) == [op |-> op]
MI(op, base, def) == [op |-> op, base |-> base, def |-> def]
NoCmp == [op |-> "none", def |-> "none", low |-> 0]
Jcc(b) == [op |-> "jcc", target |-> b]
Plain(op) == B(<<>>, T(op), 0, NoCmp, 0)

Cmps == {[op |-> "sub", def |-> "any", low |-> 0], [op |-> "cmp", def |-> "cast", low |-> 0],
         [op |-> "cmp", def |-> "sub", low |-> 1], [op |-> "cmp", def |-> "arg", low |-> 0]}

\* The blocks that take the base and branch: by lea, by a load of the entry, or through
\* memory; with a write of the register in between; with an index load of other data.
Calcs(base) ==
  {B(<<MI("lea", base, "rax")>>, T("ijmp"), 0, NoCmp, base),
   B(<<MI("mov", base, "rax")>>, T("ijmp"), 0, NoCmp, base),
   B(<<MI("mov", base, "rax"), MI("other", 0, "rax")>>, T("ijmp"), 0, NoCmp, base),
   B(<<MI("other", 0, "rcx")>>, [op |-> "ijmpmem", base |-> base], 0, NoCmp, base)}

Preds == <<<<>>, <<0>>, <<0>>, <<2>>, <<3>>, <<3>>, <<>>>>
ByBlock(s) == [b \in 0 .. 6 |-> s[b + 1]]

\* Two tables of two addresses, next to each other or with a word between, and a word after.
Words(base) ==
  {<<a, b>> \o gap \o <<10, c, after>> :
     a \in {10}, b \in {11, 12}, c \in {4}, after \in {2, 14},
     gap \in IF base = 2 THEN {<<>>} ELSE {<<2>>, <<4>>, <<14>>}}
Sections(base) ==
  {<<[start |-> 0, end |-> base + 3]>>,
   <<[start |-> 0, end |-> 2], [start |-> 2, end |-> base + 3]>>,
   <<[start |-> 0, end |-> 2], [start |-> 2, end |-> base + 2]>>}

TwoSwitches(base) ==
  {[code |-> ByBlock(<<B(hoisted, Jcc(2), 2, cmp, 0), c1, B(<<>>, T("none"), 0, NoCmp, 0),
                       B(<<>>, Jcc(5), 2, [op |-> "cmp", def |-> "cast", low |-> 0], 0), c2,
                       Plain("ret"), Plain("ret")>>),
    preds |-> ByBlock(Preds), words |-> w, sections |-> secs] :
     hoisted \in {<<>>, <<MI("lea", 0, "rbx")>>}, cmp \in Cmps, c1 \in Calcs(0),
     c2 \in Calcs(base), w \in Words(base), secs \in Sections(base)}

\* Blocks 1 and 3 take the base and jump to the branch in 4; or 1 falls through to it.
Gotos ==
  {[code |-> ByBlock(<<B(<<>>, Jcc(2), 2, [op |-> "cmp", def |-> "cast", low |-> 0], 0),
                       B(<<MI("lea", 0, "rax")>>, T(jump), 0, NoCmp, 0),
                       B(<<>>, T("jmp"), 0, NoCmp, 0),
                       B(<<MI("lea", base, "rax")>>, T("jmp"), 0, NoCmp, 0),
                       Plain(branch), Plain("ret"), Plain("ret")>>),
    preds |-> ByBlock(<<<<>>, <<0>>, <<0>>, <<2>>, ps, <<>>, <<>>>>),
    words |-> w, sections |-> <<[start |-> 0, end |-> 5]>>] :
     jump \in {"jmp", "none"}, base \in {0, 4}, branch \in {"ijmp", "ret"},
     ps \in {<<1, 3>>, <<3, 1>>}, w \in {<<10, 12, 20, 10, 20>>, <<10, 20, 4, 10, 20>>}}

MCFunctions == TwoSwitches(2) \cup TwoSwitches(3) \cup Gotos
===============================================================================
