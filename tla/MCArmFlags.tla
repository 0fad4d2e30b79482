---- MODULE MCArmFlags ----
(* Instances of ArmFlags: words of four bits. *)
EXTENDS ArmFlags

MCWidth == 4
MCHalf == 8
MCOperands == {0, 1, 2, 7, 8, 15}
MCSamples == {0, 8, 15}
MCCounts == {0, 1, 4, 5}
====
