-------------------------------- MODULE ValueSets --------------------------------
(***************************************************************************)
(* The value sets of X86ValueSetAnalysis: a map from abstract locations    *)
(* (registers and memory, AlocType) to sets of reduced interval            *)
(* congruences, and the updates the raiser makes to it while it raises one *)
(* instruction after the other.                                            *)
(*                                                                         *)
(* A congruence (ReducedIntervalCongruence) stands for the numbers         *)
(* align * i + off with lo <= i <= hi.  All that the raiser creates have   *)
(* both bounds set and are in region 0, so neither is a field here.  The   *)
(* set operations of the class (intersectRIC, unionRIC, isSubsetOf) have   *)
(* no caller.                                                              *)
(***************************************************************************)
EXTENDS Integers, FiniteSets, TLC

CONSTANT Limit    \* the first number that is too large for an int64_t

Wrapped(x) == ((x + Limit) % (2 * Limit)) - Limit

RIC(align, lo, hi, off) == [align |-> align, lo |-> lo, hi |-> hi, off |-> off]
ConstantRIC(v) == RIC(1, 0, 0, v)

\* The numbers a congruence stands for.
Meaning(ric) == {ric.align * i + ric.off : i \in ric.lo .. ric.hi}

adjustRIC(ric, v) == [ric EXCEPT !.off = Wrapped(@ + v)]
multiplyRIC(ric, times) ==
  [ric EXCEPT !.off = Wrapped(@ * times), !.lo = Wrapped(@ * times), !.hi = Wrapped(@ * times)]

-----------------------------------------------------------------------------
(* The updates: each gives the map after the call. *)

assignValueConst(vs, dest, v) == (dest :> {ConstantRIC(v)}) @@ vs
assignZeroRic(vs, dest) == assignValueConst(vs, dest, 0)

\* A location that was never met counts as zero from then on.
Met(vs, a) == IF a \in DOMAIN vs THEN vs ELSE assignZeroRic(vs, a)
assignValueToSrc(vs, dest, src) == LET met == Met(vs, src) IN (dest :> met[src]) @@ met

\* Only the offsets of the source are added: its bounds are taken to be 0.
crossValueSets(dest, src) ==
  {[d EXCEPT !.off = Wrapped(@ + s.off)] : d \in dest, s \in src}

addValueWithSrcTimes(vs, dest, src, times) ==
  LET met == Met(vs, dest)
      scaled == IF times = 1 THEN met[src] ELSE {multiplyRIC(r, times) : r \in met[src]}
  IN IF times = 0 \/ src \notin DOMAIN met
     THEN met
     ELSE (dest :> crossValueSets(met[dest], scaled)) @@ met
addValueWithSrc(vs, dest, src) == addValueWithSrcTimes(vs, dest, src, 1)

\* Mutant: a subtraction adds.
addValueWithImmTimes_Unscaled(vs, dest, imm, times) ==
  LET met == Met(vs, dest)
  IN IF times = 0 THEN met ELSE (dest :> {adjustRIC(r, imm) : r \in met[dest]}) @@ met

addValueWithImmTimes(vs, dest, imm, times) ==
  LET met == Met(vs, dest)
  IN IF times = 0 THEN met
     ELSE (dest :> {adjustRIC(r, Wrapped(imm * times)) : r \in met[dest]}) @@ met
addValueWithImm(vs, dest, imm) == addValueWithImmTimes(vs, dest, imm, 1)

xorValueWithSrc(vs, dest, src) == IF dest = src THEN assignZeroRic(vs, dest) ELSE vs

\* getConstantValue: whether a location holds one known number, and which.
HasConstant(vs, a) ==
  a \in DOMAIN vs /\ Cardinality(vs[a]) = 1 /\ \A r \in vs[a] : r.lo = r.hi
ConstantAt(vs, a) == LET r == CHOOSE x \in vs[a] : TRUE IN Wrapped(r.off + r.align * r.lo)
=============================================================================
