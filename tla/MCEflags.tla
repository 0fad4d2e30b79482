---- MODULE MCEflags ----
(* Instances of Eflags: words of four bits. *)
EXTENDS Eflags

MCWidth == 4
MCHalf == 8
MCOperands == {0, 1, 7, 8, 9, 15}
MCCounts == {0, 1, 2, 3, 4, 5}
====
