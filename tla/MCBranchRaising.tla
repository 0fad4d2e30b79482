---- MODULE MCBranchRaising ----
(* Instances of BranchRaising: all streams of FuncEnd entries over an alphabet. *)
EXTENDS BranchRaising

I(kind, target) == [kind |-> kind, target |-> target]
Kinds(S) == {I(k, 0) : k \in S}
Jumps(T) == {I("jmp", t) : t \in T}
Conds(T) == {I("cond", t) : t \in T}

\* Code with padding, and a jump out of the function.
Padding ==
  [Offsets -> Kinds({"plain", "nop", "ret"}) \cup Jumps(Offsets \cup {FuncEnd + 1}) \cup Conds(Offsets)]

\* Code with data and indirect branches, and a jump before the function.
WithData ==
  [Offsets -> Kinds({"plain", "ret", "indirect", "data"})
     \cup Jumps(Offsets \cup {-1}) \cup Conds(Offsets)]

MCStreams == {s \in Padding \cup WithData : LaidOut(s)}
====
