------------------------------- MODULE MCVectors -------------------------------
(* The instance of Vectors that is checked: bytes of one bit, so that a float has 4 *)
(* bits and a double 8.                                                            *)
EXTENDS Vectors

\* Among their lanes are floats and doubles of both signs and what is no number.
MCInits == {12082, 44935}
MCGeneralInits == {5, 250}
MCShuffles == {27, 78}

\* The stand-in for float arithmetic tells its operands apart.
MCArith(op, l, a, b) ==
  (3 * a + b + (CASE op = "ADD" -> 0 [] op = "SUB" -> 1 [] op = "MUL" -> 2
                  [] op = "DIV" -> 3 [] OTHER -> 5)) % Pow8(l)
=============================================================================
