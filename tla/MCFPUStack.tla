---- MODULE MCFPUStack ----
(* An instance of FPUStack: two values, and an operation that does not commute. *)
EXTENDS FPUStack

MCValues == {"a", "b"}
MCCombine(x, y) == IF x # y THEN x ELSE IF x = "a" THEN "b" ELSE "a"
====
