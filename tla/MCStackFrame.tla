------------------------------ MODULE MCStackFrame ------------------------------
EXTENDS StackFrame

I(op, base, disp, index, size) ==
  [op |-> op, base |-> base, disp |-> disp, index |-> index, size |-> size]

Push == I("push", "RSP", 0, 0, 2)
MovRbp == I("mov", "RSP", 0, 0, 2)
Adjust(k) == I("adjust", "RSP", k, 0, 2)

\* Leaf functions, frames of RBP, with and without RSP moved, and frames of RSP.
MCPrologues ==
  {<<>>, <<Push>>, <<Push, MovRbp>>, <<Push, MovRbp, Adjust(-4)>>, <<Adjust(-4)>>,
   <<Push, Adjust(-4)>>, <<Push, MovRbp, Push, Adjust(-4)>>}

MCInstructions ==
  {I("access", b, d, 0, s) : b \in {"RSP", "RBP"}, d \in {-4, -3, -2, -1, 0, 1, 2}, s \in {1, 2}}
  \cup {I("access", b, d, 1, 1) : b \in {"RSP", "RBP"}, d \in {-3, 1}}
  \cup {I("access", "RAX", d, 0, 1) : d \in -2 .. 2}
  \cup {I("lea", b, d, 0, 2) : b \in {"RSP", "RBP"}, d \in {-4, -3, 0, 1}}
  \cup {I("lea", "RAX", 1, 1, 2), I("lea", "RBP", -3, 1, 2)}
  \cup {I("promote", r, 0, 0, 2) : r \in Registers}
  \cup {I("load", "RSP", 0, 0, 2), I("pop", "RSP", 0, 0, 2), Adjust(-4), Adjust(-2), Adjust(4)}
=============================================================================
