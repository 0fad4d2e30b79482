---- MODULE MCPrototypes ----
(* Instances of Prototypes. *)
EXTENDS Prototypes

Def(T) == [op |-> "def", type |-> T]
Call(g) == [op |-> "call", to |-> g]
Fork(ops) == [ops |-> ops, end |-> "fork"]
Ret(ops) == [ops |-> ops, end |-> "ret"]
TailCall(ops, g) == [ops |-> ops, end |-> "tail", to |-> g]

Others(f) == 1..3 \ {f}
OpLists == {<<>>, <<Def("i32")>>, <<Def("i64")>>} \cup {<<Call(g)>> : g \in 1..3}
             \cup {<<Def("i64"), Call(g)>> : g \in 1..3}
Straight(f) == {<<Ret(o)>> : o \in OpLists} \cup {<<TailCall(<<>>, g)>> : g \in Others(f)}
               \cup {<<Fork(<<Def("i64")>>), TailCall(<<>>, g)>> : g \in Others(f)}

Exits(f) == {Ret(<<>>), Ret(<<Def("i64")>>)} \cup {TailCall(<<>>, g) : g \in Others(f)}
            \cup {Ret(<<Call(g)>>) : g \in {h \in Others(f) : f < h}}
Forked(f) == {<<Fork(<<>>), x, y>> : x \in Exits(f), y \in Exits(f)}

\* All modules of three functions.
MCPrograms == {<<a, b, c>> : a \in Straight(1) \cup Forked(1),
                             b \in Straight(2) \cup Forked(2),
                             c \in Straight(3) \cup Forked(3)}
====
