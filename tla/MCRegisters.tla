------------------------------- MODULE MCRegisters -------------------------------
(* The instance of Registers that is checked: bytes of one bit, so that a register *)
(* has eight; the distances between slots are in bytes all the same.              *)
EXTENDS Registers

MCInits == {0, 165}
MCImms == {-1, 3}
MCSlots == {-8, -16}
=============================================================================
