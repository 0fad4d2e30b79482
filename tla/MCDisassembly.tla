---- MODULE MCDisassembly ----
(* Instances of Disassembly: small symbol tables and configuration files. *)
EXTENDS Disassembly

CONSTANTS f, g, h, crt, none

MCNames == {f, g, h, crt, none}

Sym(n, a, t) == [name |-> n, addr |-> a, type |-> t]

\* Two and three symbols: adjacent, at the same address, beyond the section.
MCSymTabs ==
  {<<Sym(f, 0, "func"), Sym(g, a, t), Sym(h, b, u)>> :
     a \in {0, 2}, b \in {2, 3, 4}, t \in SymTypes, u \in {"func", "code"}}
  \cup {<<Sym(g, 1, t), Sym(f, 2, "func"), Sym(f, 3, "func")>> :
          t \in {"code", "object"}}
  \cup {<<Sym(crt, 0, "func"), Sym(h, 1, t), Sym(f, 2, "func"), Sym(g, 5, "func")>> :
          t \in {"code", "func"}}
  \cup {<<>>}

Header(k) == [kind |-> k, name |-> none]
Entry(n) == [kind |-> "entry", name |-> n]
Exclude == Header("exclude-functions")
Include == Header("include-functions")
Close == Header("end")

\* No name twice in a section: the sections in both orders, a name in both,
\* a missing "}", an entry outside the sections.
MCConfigs ==
  { <<>>,
    <<Exclude, Entry(g), Close>>,
    <<Include, Entry(f), Entry(h), Close>>,
    <<Include, Entry(f), Entry(g), Close, Exclude, Entry(g), Close>>,
    <<Exclude, Entry(f), Include, Entry(h), Entry(f), Close>>,
    <<Include, Entry(h), Close, Entry(g), Header("ignored")>>,
    <<Include, Entry(g), Header("overlong"), Entry(f), Close>> }

D(ok, size, kind, disp) == [ok |-> ok, size |-> size, kind |-> kind, disp |-> disp]

MCDecodings ==
  { D(TRUE, 1, "plain", 0), D(TRUE, 1, "cond", 0), D(TRUE, 2, "jmp", -2),
    D(TRUE, 1, "jmp", 1), D(TRUE, 1, "indirect", 0), D(FALSE, 0, "plain", 0) }
====
