------------------------------ MODULE Words_proofs ------------------------------
(***************************************************************************)
(* Facts about machine words of any width of two bits or more, for the     *)
(* proofs about flags. The powers of two satisfy their recursion; a word   *)
(* is the set of its bits, and every set of bits is one word; so the       *)
(* bitwise operations, masks, shifts, rotations and products are what they *)
(* are bit by bit, or as numbers.                                          *)
(***************************************************************************)
EXTENDS Words, WellFoundedInduction, TLAPS

\* A set of numbers has a least element: what stands here for induction.
LEMMA Least ==
  ASSUME NEW T \in SUBSET Nat, T # {}
  PROVE  \E x \in T : \A y \in T : x <= y
<1> DEFINE R == {ss \in Nat \X Nat : ss[1] < ss[2]}
<1>1. IsWellFoundedOn(R, Nat)
  BY NatLessThanWellFounded DEF OpToRel
<1>2. \A x, y \in Nat : <<y, x>> \in R <=> y < x
  OBVIOUS
<1> HIDE DEF R
<1>3. PICK x \in T : \A y \in T : <<y, x>> \notin R
  BY <1>1, WFMin
<1>4. \A y \in T : x \in Nat /\ y \in Nat /\ ~(y < x)
  BY <1>2, <1>3
<1> QED
  BY <1>4

\* Division with remainder, by its defining property and as a computation.
LEMMA DivUnique ==
  ASSUME NEW x \in Int, NEW d \in Nat \ {0}, NEW q \in Int, NEW r \in Int,
         x = d * q + r, 0 <= r, r < d
  PROVE  x \div d = q /\ x % d = r
  OBVIOUS

LEMMA DivMod ==
  ASSUME NEW x \in Int, NEW d \in Nat \ {0}
  PROVE  /\ x \div d \in Int /\ x % d \in 0 .. d - 1
         /\ x = d * (x \div d) + (x % d)
  OBVIOUS

LEMMA DivNat ==
  ASSUME NEW x \in Nat, NEW d \in Nat \ {0}
  PROVE  x \div d \in Nat
  OBVIOUS

-----------------------------------------------------------------------------
(* Powers of two.  The recursion that defines TwoTo has a solution on 0 .. n for *)
(* every n, and only one; together they make up the one on Nat.                  *)

Doubling(f, k) == [i \in 0 .. k |-> IF i = 0 THEN 1 ELSE 2 * f[i - 1]]

\* The recursion up to n has a solution.
LEMMA DoublingExists ==
  ASSUME NEW n \in Nat
  PROVE  \E f \in [0 .. n -> Nat] : f = Doubling(f, n)
<1> DEFINE Good(k) == \E f \in [0 .. k -> Nat] : f = Doubling(f, k)
           bad == {k \in Nat : ~Good(k)}
<1>1. SUFFICES ASSUME bad # {} PROVE FALSE
  OBVIOUS
<1>2. PICK m \in bad : \A k \in bad : m <= k
  BY <1>1, Least
<1>3. m \in Nat /\ ~Good(m) /\ \A k \in Nat : ~Good(k) => m <= k
  BY <1>2
<1>4. CASE m = 0
  <2> DEFINE f == [i \in 0 .. m |-> 1]
  <2>1. f \in [0 .. m -> Nat]
    OBVIOUS
  <2>2. Doubling(f, m) = f
    BY <1>4 DEF Doubling
  <2> QED
    BY <1>3, <2>1, <2>2
<1>5. CASE m # 0
  <2>1. m - 1 \in Nat /\ ~(m <= m - 1)
    BY <1>3, <1>5
  <2>2. PICK f \in [0 .. m - 1 -> Nat] : f = Doubling(f, m - 1)
    BY <1>3, <2>1
  <2> DEFINE g == [i \in 0 .. m |-> IF i = m THEN 2 * f[m - 1] ELSE f[i]]
  <2>3. \A i \in 0 .. m - 1 : f[i] \in Nat /\ f[i] = IF i = 0 THEN 1 ELSE 2 * f[i - 1]
    BY <2>2 DEF Doubling
  <2>4. m - 1 \in 0 .. m - 1 /\ \A i \in 0 .. m : i = m \/ i \in 0 .. m - 1
    BY <2>1
  <2>5. g \in [0 .. m -> Nat]
    BY <2>3, <2>4
  <2>6. ASSUME NEW i \in 0 .. m PROVE g[i] = IF i = 0 THEN 1 ELSE 2 * g[i - 1]
    <3>1. CASE i = m
      <4>1. m - 1 \in 0 .. m /\ m - 1 # m
        BY <1>5, <2>1
      <4>2. g[m - 1] = f[m - 1]
        BY <4>1
      <4> QED
        BY <1>5, <3>1, <4>2
    <3>2. CASE i # m
      <4>1. i \in 0 .. m - 1 /\ (i # 0 => i - 1 \in 0 .. m /\ i - 1 # m)
        BY <2>1, <3>2
      <4>2. g[i] = f[i] /\ (i # 0 => g[i - 1] = f[i - 1])
        BY <3>2, <4>1
      <4> QED
        BY <2>3, <4>1, <4>2
    <3> QED
      BY <3>1, <3>2
  <2>7. g = Doubling(g, m)
    <3> HIDE DEF g
    <3>1. g = [i \in 0 .. m |-> g[i]]
      BY <2>5
    <3> QED
      BY <2>6, <3>1 DEF Doubling
  <2> QED
    BY <1>3, <2>5, <2>7
<1> QED
  BY <1>4, <1>5

\* Two solutions agree where both are defined.
LEMMA DoublingUnique ==
  ASSUME NEW m \in Nat, NEW n \in Nat, NEW f, f = Doubling(f, m), NEW g, g = Doubling(g, n)
  PROVE  \A i \in 0 .. m : i \in 0 .. n => f[i] = g[i]
<1> DEFINE bad == {i \in 0 .. m : i \in 0 .. n /\ f[i] # g[i]}
<1>1. SUFFICES ASSUME bad # {} PROVE FALSE
  OBVIOUS
<1>2. bad \in SUBSET Nat
  OBVIOUS
<1>3. PICK i \in bad : \A k \in bad : i <= k
  BY <1>1, <1>2, Least
<1>4. /\ i \in 0 .. m /\ i \in 0 .. n /\ f[i] # g[i]
      /\ \A k \in 0 .. m : k \in 0 .. n /\ f[k] # g[k] => i <= k
  BY <1>3
<1> HIDE DEF bad
<1>5. /\ \A k \in 0 .. m : f[k] = IF k = 0 THEN 1 ELSE 2 * f[k - 1]
      /\ \A k \in 0 .. n : g[k] = IF k = 0 THEN 1 ELSE 2 * g[k - 1]
  BY DEF Doubling
<1>6. i # 0
  BY <1>4, <1>5
<1>7. i - 1 \in 0 .. m /\ i - 1 \in 0 .. n /\ ~(i <= i - 1)
  BY <1>4, <1>6
<1>8. f[i - 1] = g[i - 1]
  BY <1>4, <1>7
<1> QED
  BY <1>4, <1>5, <1>6, <1>8

\* The function that TwoTo chooses satisfies the recursion on all numbers.
LEMMA TwoToDef ==
  /\ TwoTo \in [Nat -> Nat]
  /\ \A n \in Nat : TwoTo[n] = IF n = 0 THEN 1 ELSE 2 * TwoTo[n - 1]
<1> DEFINE G(n) == CHOOSE f \in [0 .. n -> Nat] : f = Doubling(f, n)
           h == [n \in Nat |-> G(n)[n]]
           Step(f) == [n \in Nat |-> IF n = 0 THEN 1 ELSE 2 * f[n - 1]]
<1>1. \A n \in Nat : G(n) \in [0 .. n -> Nat] /\ G(n) = Doubling(G(n), n)
  BY DoublingExists
<1> HIDE DEF G
<1>2. h \in [Nat -> Nat]
  <2>1. \A n \in Nat : n \in 0 .. n
    OBVIOUS
  <2> QED
    BY <1>1, <2>1
<1>3. ASSUME NEW n \in Nat PROVE h[n] = IF n = 0 THEN 1 ELSE 2 * h[n - 1]
  <2>1. G(n)[n] = IF n = 0 THEN 1 ELSE 2 * G(n)[n - 1]
    <3>1. n \in 0 .. n
      OBVIOUS
    <3>2. Doubling(G(n), n)[n] = IF n = 0 THEN 1 ELSE 2 * G(n)[n - 1]
      BY <3>1 DEF Doubling
    <3> QED
      BY <1>1, <3>2
  <2>2. ASSUME n # 0 PROVE G(n)[n - 1] = G(n - 1)[n - 1]
    <3>1. n - 1 \in Nat /\ n - 1 \in 0 .. n /\ n - 1 \in 0 .. n - 1
      BY <2>2
    <3>2. G(n) = Doubling(G(n), n) /\ G(n - 1) = Doubling(G(n - 1), n - 1)
      BY <1>1, <3>1
    <3> QED
      BY <3>1, <3>2, DoublingUnique
  <2>3. n # 0 => n - 1 \in Nat
    OBVIOUS
  <2> QED
    BY <2>1, <2>2, <2>3
<1>4. h = Step(h)
  <2> HIDE DEF h
  <2>1. h = [n \in Nat |-> h[n]]
    BY <1>2
  <2> QED
    BY <1>3, <2>1
<1>5. TwoTo = CHOOSE f : f = Step(f)
  BY DEF TwoTo
<1>6. TwoTo = Step(TwoTo)
  <2> HIDE DEF Step, h
  <2> QED
    BY <1>4, <1>5
<1>7. \A n \in Nat : TwoTo[n] = IF n = 0 THEN 1 ELSE 2 * TwoTo[n - 1]
  BY <1>6
<1>8. \A n \in Nat : TwoTo[n] = h[n]
  <2> DEFINE bad == {n \in Nat : TwoTo[n] # h[n]}
  <2>1. SUFFICES ASSUME bad # {} PROVE FALSE
    OBVIOUS
  <2>2. PICK i \in bad : \A k \in bad : i <= k
    BY <2>1, Least
  <2> HIDE DEF h
  <2>3. i \in Nat /\ TwoTo[i] # h[i] /\ \A k \in Nat : TwoTo[k] # h[k] => i <= k
    BY <2>2
  <2>4. i # 0
    BY <1>3, <1>7, <2>3
  <2>5. i - 1 \in Nat /\ ~(i <= i - 1)
    BY <2>3, <2>4
  <2>6. TwoTo[i - 1] = h[i - 1]
    BY <2>3, <2>5
  <2> QED
    BY <1>3, <1>7, <2>3, <2>4, <2>6
<1>9. TwoTo \in [Nat -> Nat]
  <2>1. TwoTo = [n \in Nat |-> TwoTo[n]]
    BY <1>6
  <2> QED
    BY <1>2, <1>8, <2>1
<1> QED
  BY <1>7, <1>9

\* The powers are positive, double, and exceed their exponents.
LEMMA TwoToPositive ==
  /\ TwoTo[0] = 1
  /\ \A n \in Nat : TwoTo[n] \in Nat \ {0} /\ TwoTo[n + 1] = 2 * TwoTo[n] /\ n < TwoTo[n]
<1>1. ASSUME NEW n \in Nat PROVE TwoTo[n] \in Nat /\ TwoTo[n + 1] = 2 * TwoTo[n]
  <2>1. n + 1 \in Nat /\ n + 1 # 0 /\ n + 1 - 1 = n
    OBVIOUS
  <2> QED
    BY <2>1, TwoToDef
<1>2. TwoTo[0] = 1
  BY TwoToDef
<1> DEFINE bad == {n \in Nat : ~(n < TwoTo[n])}
<1>3. bad = {}
  <2>1. SUFFICES ASSUME bad # {} PROVE FALSE
    OBVIOUS
  <2>2. PICK i \in bad : \A k \in bad : i <= k
    BY <2>1, Least
  <2>3. i \in Nat /\ ~(i < TwoTo[i]) /\ \A k \in Nat : ~(k < TwoTo[k]) => i <= k
    BY <2>2
  <2>4. i # 0
    BY <1>2, <2>3
  <2>5. i - 1 \in Nat /\ ~(i <= i - 1) /\ i - 1 + 1 = i
    BY <2>3, <2>4
  <2>6. i - 1 < TwoTo[i - 1] /\ TwoTo[i - 1] \in Nat /\ TwoTo[i - 1 + 1] = 2 * TwoTo[i - 1]
    BY <1>1, <2>3, <2>5
  <2>7. TwoTo[i] = 2 * TwoTo[i - 1]
    BY <2>5, <2>6
  <2> QED
    BY <2>3, <2>4, <2>6, <2>7
<1>4. \A n \in Nat : n < TwoTo[n]
  BY <1>3
<1>5. \A n \in Nat : TwoTo[n] # 0
  BY <1>4
<1> QED
  BY <1>1, <1>2, <1>4, <1>5

\* The power of a sum.
LEMMA TwoToSum ==
  ASSUME NEW m \in Nat, NEW n \in Nat
  PROVE  TwoTo[m + n] = TwoTo[m] * TwoTo[n]
<1> DEFINE bad == {k \in Nat : TwoTo[m + k] # TwoTo[m] * TwoTo[k]}
<1>1. SUFFICES ASSUME bad # {} PROVE FALSE
  OBVIOUS
<1>2. PICK i \in bad : \A k \in bad : i <= k
  BY <1>1, Least
<1>3. /\ i \in Nat /\ TwoTo[m + i] # TwoTo[m] * TwoTo[i]
      /\ \A k \in Nat : TwoTo[m + k] # TwoTo[m] * TwoTo[k] => i <= k
  BY <1>2
<1> HIDE DEF bad
<1>4. i # 0
  BY <1>3, TwoToPositive
<1>5. /\ i - 1 \in Nat /\ ~(i <= i - 1) /\ i - 1 + 1 = i
      /\ m + (i - 1) \in Nat /\ m + (i - 1) + 1 = m + i
  BY <1>3, <1>4
<1>6. TwoTo[m + (i - 1)] = TwoTo[m] * TwoTo[i - 1]
  BY <1>3, <1>5
<1>7. TwoTo[m + i] = 2 * TwoTo[m + (i - 1)] /\ TwoTo[i] = 2 * TwoTo[i - 1]
  BY <1>5, TwoToPositive
<1>8. TwoTo[m] \in Nat /\ TwoTo[i - 1] \in Nat
  BY <1>5, TwoToPositive
<1>9. TwoTo[m] * (2 * TwoTo[i - 1]) = 2 * (TwoTo[m] * TwoTo[i - 1])
  BY <1>8
<1> QED
  BY <1>3, <1>6, <1>7, <1>9

\* A power is an even multiple of each smaller one.
LEMMA TwoToMultiple ==
  ASSUME NEW m \in Nat, NEW n \in Nat, m < n
  PROVE  TwoTo[n] = TwoTo[m] * (2 * TwoTo[n - m - 1])
<1>1. n - m - 1 \in Nat /\ n - m - 1 + 1 = n - m /\ m + (n - m) = n /\ n - m \in Nat
  OBVIOUS
<1>2. TwoTo[n - m] = 2 * TwoTo[n - m - 1]
  BY <1>1, TwoToPositive
<1>3. TwoTo[m + (n - m)] = TwoTo[m] * TwoTo[n - m]
  BY <1>1, TwoToSum
<1> QED
  BY <1>1, <1>2, <1>3

\* A larger power is at least twice a smaller one.
LEMMA TwoToGrows ==
  ASSUME NEW m \in Nat, NEW n \in Nat, m < n
  PROVE  2 * TwoTo[m] <= TwoTo[n]
<1>1. TwoTo[m] \in Nat \ {0} /\ TwoTo[n - m - 1] \in Nat \ {0}
  BY TwoToPositive
<1>2. TwoTo[m] * (2 * TwoTo[n - m - 1]) >= 2 * TwoTo[m]
  BY <1>1
<1> QED
  BY <1>2, TwoToMultiple

\* Width, Half, Modulus and the sets of words and of bits as numbers.
LEMMA WordBounds ==
  /\ Width \in Nat /\ Width >= 2
  /\ Half \in Nat /\ Half >= 2 /\ Half = TwoTo[Width - 1] /\ Half = 2 * TwoTo[Width - 2]
  /\ Modulus = 2 * Half /\ Modulus = TwoTo[Width]
  /\ Values = 0 .. 2 * Half - 1 /\ Bits = 0 .. Width - 1
<1>1. Width \in Nat /\ Width >= 2 /\ Half = TwoTo[Width - 1]
  BY WidthAssumption
<1>2. Width - 1 \in Nat /\ Width - 2 \in Nat /\ Width - 1 + 1 = Width /\ Width - 2 + 1 = Width - 1
  BY <1>1
<1>3. Half \in Nat /\ TwoTo[Width] = 2 * Half /\ Width - 1 < Half /\ Half = 2 * TwoTo[Width - 2]
  BY <1>1, <1>2, TwoToPositive
<1> QED
  BY <1>1, <1>3 DEF Modulus, Values, Bits

\* The same in parts, for the steps that need one of them: the words, the powers and the bits.
LEMMA WordRange ==
  Half \in Nat /\ Half >= 2 /\ Modulus = 2 * Half /\ Values = 0 .. 2 * Half - 1
  BY WordBounds

LEMMA WordPowers ==
  Half = TwoTo[Width - 1] /\ Half = 2 * TwoTo[Width - 2] /\ Modulus = TwoTo[Width]
  BY WordBounds

LEMMA BitBounds ==
  Width \in Nat /\ Width >= 2 /\ Bits = 0 .. Width - 1
  BY WordBounds

-----------------------------------------------------------------------------
(* The bits of a word, from the lowest: a word is 2w + b, the lowest bit is b, *)
(* and the others are those of w.                                              *)

\* The lowest bit of 2w + b.
LEMMA BitZero ==
  ASSUME NEW w \in Nat, NEW b \in {0, 1}
  PROVE  Bit(2 * w + b, 0) <=> b = 1
<1>1. (2 * w + b) \div 1 = 2 * w + b
  OBVIOUS
<1>2. (2 * w + b) % 2 = b
  OBVIOUS
<1> QED
  BY <1>1, <1>2, TwoToPositive DEF Bit

\* The other bits of 2w + b.
LEMMA BitSuccessor ==
  ASSUME NEW w \in Nat, NEW b \in {0, 1}, NEW n \in Nat
  PROVE  Bit(2 * w + b, n + 1) <=> Bit(w, n)
<1>1. PICK t \in Nat \ {0} : t = TwoTo[n] /\ TwoTo[n + 1] = 2 * t
  BY TwoToPositive
<1>2. PICK q \in Int, r \in 0 .. t - 1 : q = w \div t /\ w = t * q + r
  BY DivMod
<1>3. 2 * w + b = (2 * t) * q + (2 * r + b)
  <2>1. (2 * t) * q = 2 * (t * q) /\ t * q \in Int
    OBVIOUS
  <2>2. w = t * q + r
    BY <1>2
  <2> QED
    BY <2>1, <2>2
<1>4. 0 <= 2 * r + b /\ 2 * r + b < 2 * t
  OBVIOUS
<1>5. (2 * w + b) \div (2 * t) = q
  <2>1. 2 * w + b \in Int /\ 2 * t \in Nat \ {0} /\ 2 * r + b \in Int
    OBVIOUS
  <2> QED
    BY <1>3, <1>4, <2>1, DivUnique
<1> QED
  BY <1>1, <1>2, <1>5 DEF Bit

\* Every number is 2w + b.
LEMMA LowBit ==
  ASSUME NEW v \in Nat
  PROVE  \E w \in Nat, b \in {0, 1} : v = 2 * w + b
<1>1. v \div 2 \in Nat /\ v % 2 \in {0, 1} /\ v = 2 * (v \div 2) + (v % 2)
  OBVIOUS
<1> QED
  BY <1>1

\* Every set of numbers below n is the set of the bits of one number below 2^n.
LEMMA BitsExist ==
  ASSUME NEW n \in Nat
  PROVE  \A S \in SUBSET Nat : \E v \in 0 .. TwoTo[n] - 1 :
           \A k \in 0 .. n - 1 : Bit(v, k) <=> k \in S
<1> DEFINE Good(m) == \A S \in SUBSET Nat : \E v \in 0 .. TwoTo[m] - 1 :
                        \A k \in 0 .. m - 1 : Bit(v, k) <=> k \in S
           bad == {m \in Nat : ~Good(m)}
<1>1. SUFFICES ASSUME bad # {} PROVE FALSE
  OBVIOUS
<1>2. PICK m \in bad : \A k \in bad : m <= k
  BY <1>1, Least
<1>3. m \in Nat /\ ~Good(m) /\ \A k \in Nat : ~Good(k) => m <= k
  BY <1>2
<1>4. CASE m = 0
  <2>1. 0 \in 0 .. TwoTo[m] - 1 /\ 0 .. m - 1 = {}
    BY <1>4, TwoToPositive
  <2> QED
    BY <1>3, <2>1
<1>5. CASE m # 0
  <2>1. m - 1 \in Nat /\ ~(m <= m - 1) /\ m - 1 + 1 = m
    BY <1>3, <1>5
  <2>2. Good(m - 1)
    BY <1>3, <2>1
  <2>3. ASSUME NEW S \in SUBSET Nat
        PROVE  \E v \in 0 .. TwoTo[m] - 1 : \A k \in 0 .. m - 1 : Bit(v, k) <=> k \in S
    <3> DEFINE R == {k \in Nat : k + 1 \in S}
    <3>1. PICK w \in 0 .. TwoTo[m - 1] - 1 : \A k \in 0 .. m - 1 - 1 : Bit(w, k) <=> k \in R
      BY <2>2
    <3>2. PICK b \in {0, 1} : b = 1 <=> 0 \in S
      <4>1. CASE 0 \in S
        BY <4>1
      <4>2. CASE 0 \notin S
        BY <4>2
      <4> QED
        BY <4>1, <4>2
    <3>3. w \in Nat /\ 2 * w + b \in 0 .. TwoTo[m] - 1
      <4>1. TwoTo[m] = 2 * TwoTo[m - 1] /\ TwoTo[m - 1] \in Nat
        BY <2>1, TwoToPositive
      <4> QED
        BY <4>1
    <3>4. ASSUME NEW k \in 0 .. m - 1 PROVE Bit(2 * w + b, k) <=> k \in S
      <4>1. CASE k = 0
        BY <3>2, <3>3, <4>1, BitZero
      <4>2. CASE k # 0
        <5>1. k - 1 \in 0 .. m - 1 - 1 /\ k - 1 \in Nat /\ k - 1 + 1 = k
          BY <2>1, <4>2
        <5>2. Bit(2 * w + b, k - 1 + 1) <=> Bit(w, k - 1)
          BY <3>3, <5>1, BitSuccessor
        <5> QED
          BY <3>1, <5>1, <5>2
      <4> QED
        BY <4>1, <4>2
    <3> QED
      BY <3>3, <3>4
  <2> QED
    BY <1>3, <2>3
<1> QED
  BY <1>4, <1>5

\* Two numbers with the same bits are equal.
LEMMA BitsDetermine ==
  ASSUME NEW n \in Nat
  PROVE  \A v, w \in 0 .. TwoTo[n] - 1 :
           (\A k \in 0 .. n - 1 : Bit(v, k) <=> Bit(w, k)) => v = w
<1> DEFINE Good(m) == \A v, w \in 0 .. TwoTo[m] - 1 :
                        (\A k \in 0 .. m - 1 : Bit(v, k) <=> Bit(w, k)) => v = w
           bad == {m \in Nat : ~Good(m)}
<1>1. SUFFICES ASSUME bad # {} PROVE FALSE
  OBVIOUS
<1>2. PICK m \in bad : \A k \in bad : m <= k
  BY <1>1, Least
<1>3. m \in Nat /\ ~Good(m) /\ \A k \in Nat : ~Good(k) => m <= k
  BY <1>2
<1>4. CASE m = 0
  BY <1>3, <1>4, TwoToPositive
<1>5. CASE m # 0
  <2>1. m - 1 \in Nat /\ ~(m <= m - 1) /\ m - 1 + 1 = m
    BY <1>3, <1>5
  <2>2. Good(m - 1)
    BY <1>3, <2>1
  <2>3. ASSUME NEW v \in 0 .. TwoTo[m] - 1, NEW w \in 0 .. TwoTo[m] - 1,
               \A k \in 0 .. m - 1 : Bit(v, k) <=> Bit(w, k)
        PROVE  v = w
    <3>1. TwoTo[m] = 2 * TwoTo[m - 1] /\ TwoTo[m - 1] \in Nat \ {0}
      BY <2>1, TwoToPositive
    <3>2. v \in Nat /\ w \in Nat
      BY <3>1
    <3>3. PICK x \in Nat, b \in {0, 1} : v = 2 * x + b
      BY <3>2, LowBit
    <3>4. PICK y \in Nat, c \in {0, 1} : w = 2 * y + c
      BY <3>2, LowBit
    <3>5. x \in 0 .. TwoTo[m - 1] - 1 /\ y \in 0 .. TwoTo[m - 1] - 1
      BY <3>1, <3>3, <3>4
    <3>6. b = c
      <4>1. 0 \in 0 .. m - 1
        BY <2>1
      <4>2. Bit(v, 0) <=> Bit(w, 0)
        BY <2>3, <4>1
      <4> QED
        BY <3>3, <3>4, <4>2, BitZero
    <3>7. ASSUME NEW k \in 0 .. m - 1 - 1 PROVE Bit(x, k) <=> Bit(y, k)
      <4>1. k \in Nat /\ k + 1 \in 0 .. m - 1
        BY <2>1
      <4>2. Bit(v, k + 1) <=> Bit(w, k + 1)
        BY <2>3, <4>1
      <4> QED
        BY <3>3, <3>4, <4>1, <4>2, BitSuccessor
    <3>8. x = y
      BY <2>2, <3>5, <3>7
    <3> QED
      BY <3>3, <3>4, <3>6, <3>8
  <2> QED
    BY <1>3, <2>3
<1> QED
  BY <1>4, <1>5

\* The word with given bits: it is a word, it has those bits, and it is the only one.
LEMMA WordOfBits ==
  ASSUME NEW S
  PROVE  /\ WordOf(S) \in Values
         /\ \A n \in Bits : Bit(WordOf(S), n) <=> n \in S
         /\ \A v \in Values : (\A n \in Bits : Bit(v, n) <=> n \in S) => v = WordOf(S)
<1>1. Values = 0 .. TwoTo[Width] - 1 /\ Bits = 0 .. Width - 1 /\ Width \in Nat
  BY WordRange, WordPowers, BitBounds
<1>2. \E v \in Values : \A n \in Bits : Bit(v, n) <=> n \in S
  <2> DEFINE R == {n \in Bits : n \in S}
  <2>1. R \in SUBSET Nat
    BY <1>1
  <2>2. PICK v \in Values : \A n \in Bits : Bit(v, n) <=> n \in R
    BY <1>1, <2>1, BitsExist
  <2> QED
    BY <2>2
<1>3. WordOf(S) \in Values /\ \A n \in Bits : Bit(WordOf(S), n) <=> n \in S
  BY <1>2 DEF WordOf
<1>4. ASSUME NEW v \in Values, \A n \in Bits : Bit(v, n) <=> n \in S
      PROVE  v = WordOf(S)
  <2>1. \A n \in Bits : Bit(v, n) <=> Bit(WordOf(S), n)
    BY <1>3, <1>4
  <2> QED
    BY <1>1, <1>3, <2>1, BitsDetermine
<1> QED
  BY <1>3, <1>4

-----------------------------------------------------------------------------
(* The bits of particular words. *)

\* The number of a bit, and its power.
LEMMA BitRange ==
  ASSUME NEW n \in Bits
  PROVE  n \in Nat /\ n < Width /\ Width \in Nat /\ TwoTo[n] \in Nat \ {0}
<1>1. n \in Nat /\ n < Width /\ Width \in Nat
  BY BitBounds
<1> QED
  BY <1>1, TwoToPositive

\* Zero has no bits.
LEMMA NoBits == ASSUME NEW n \in Bits PROVE ~Bit(0, n)
<1>1. PICK t \in Nat \ {0} : t = TwoTo[n]
  BY BitRange
<1>2. 0 \div t = 0
  OBVIOUS
<1> QED
  BY <1>1, <1>2 DEF Bit

\* The highest bit.
LEMMA TopBit == ASSUME NEW v \in Values PROVE Bit(v, Width - 1) <=> HighBit(v)
<1>1. v \in Nat /\ v < 2 * Half /\ Half \in Nat \ {0} /\ Half = TwoTo[Width - 1]
  BY WordRange, WordPowers
<1>2. CASE v < Half
  <2>1. v \div Half = 0
    BY <1>1, <1>2
  <2> QED
    BY <1>1, <1>2, <2>1 DEF Bit, HighBit
<1>3. CASE ~(v < Half)
  <2>1. v = Half * 1 + (v - Half) /\ 0 <= v - Half /\ v - Half < Half
    BY <1>1, <1>3
  <2>2. v \div Half = 1
    BY <1>1, <2>1, DivUnique
  <2> QED
    BY <1>1, <1>3, <2>2 DEF Bit, HighBit
<1> QED
  BY <1>2, <1>3

\* A power of two has one bit.
LEMMA OneBit ==
  ASSUME NEW k \in Bits
  PROVE  /\ TwoTo[k] \in Values
         /\ \A n \in Bits : Bit(TwoTo[k], n) <=> n = k
<1>1. k \in Nat /\ k < Width /\ Width \in Nat /\ TwoTo[k] \in Nat \ {0}
  BY BitRange
<1>2. TwoTo[k] \in Values
  BY <1>1, TwoToGrows, WordRange, WordPowers, BitBounds
<1>3. ASSUME NEW n \in Bits PROVE Bit(TwoTo[k], n) <=> n = k
  <2>1. n \in Nat /\ TwoTo[n] \in Nat \ {0}
    BY BitRange
  <2>2. CASE n = k
    <3>1. TwoTo[k] \div TwoTo[k] = 1
      BY <1>1
    <3> QED
      BY <2>2, <3>1 DEF Bit
  <2>3. CASE k < n
    <3>1. TwoTo[k] < TwoTo[n]
      BY <1>1, <2>1, <2>3, TwoToGrows
    <3>2. TwoTo[k] \div TwoTo[n] = 0
      BY <1>1, <2>1, <3>1
    <3> QED
      BY <1>1, <2>3, <3>2 DEF Bit
  <2>4. CASE n < k
    <3>1. PICK m \in Nat : m = TwoTo[k - n - 1]
      <4>1. k - n - 1 \in Nat
        BY <1>1, <2>1, <2>4
      <4> QED
        BY <4>1, TwoToPositive
    <3>2. TwoTo[k] = TwoTo[n] * (2 * m) + 0
      <4>1. TwoTo[k] = TwoTo[n] * (2 * m)
        BY <1>1, <2>1, <2>4, <3>1, TwoToMultiple
      <4> QED
        BY <1>1, <4>1
    <3>3. TwoTo[k] \div TwoTo[n] = 2 * m
      <4>1. 2 * m \in Int /\ TwoTo[k] \in Int /\ 0 \in Int /\ 0 < TwoTo[n]
        BY <1>1, <2>1
      <4> QED
        BY <2>1, <3>2, <4>1, DivUnique
    <3>4. (2 * m) % 2 = 0
      OBVIOUS
    <3> QED
      BY <1>1, <2>4, <3>3, <3>4 DEF Bit
  <2> QED
    BY <1>1, <2>1, <2>2, <2>3, <2>4
<1> QED
  BY <1>2, <1>3

\* The complement of a word has the other bits.
LEMMA ComplementBits ==
  ASSUME NEW v \in Values
  PROVE  /\ Modulus - 1 - v \in Values
         /\ \A n \in Bits : Bit(Modulus - 1 - v, n) <=> ~Bit(v, n)
<1>1. Modulus - 1 - v \in Values
  BY WordRange
<1>2. ASSUME NEW n \in Bits PROVE Bit(Modulus - 1 - v, n) <=> ~Bit(v, n)
  <2>1. n \in Nat /\ n < Width /\ Width \in Nat /\ Modulus = TwoTo[Width] /\ v \in Int
    BY WordRange, WordPowers, BitBounds
  <2>2. PICK t \in Nat \ {0} : t = TwoTo[n]
    BY <2>1, TwoToPositive
  <2>3. PICK m \in Nat : m = TwoTo[Width - n - 1]
    <3>1. Width - n - 1 \in Nat
      BY <2>1
    <3> QED
      BY <3>1, TwoToPositive
  <2>4. Modulus = t * (2 * m)
    BY <2>1, <2>2, <2>3, TwoToMultiple
  <2>5. PICK q \in Int, r \in 0 .. t - 1 : q = v \div t /\ v = t * q + r
    BY <2>1, DivMod
  <2>6. t * (2 * m - 1 - q) = t * (2 * m) - t - t * q
    OBVIOUS
  <2>7. Modulus - 1 - v = t * (2 * m - 1 - q) + (t - 1 - r)
    <3>1. t * q \in Int /\ t * (2 * m) \in Int /\ t * (2 * m - 1 - q) \in Int
      OBVIOUS
    <3>2. v = t * q + r
      BY <2>5
    <3> HIDE DEF Modulus
    <3> QED
      BY <2>1, <2>4, <2>6, <3>1, <3>2
  <2>8. (Modulus - 1 - v) \div t = 2 * m - 1 - q
    <3>1. /\ Modulus - 1 - v \in Int /\ 2 * m - 1 - q \in Int /\ t - 1 - r \in Int
          /\ 0 <= t - 1 - r /\ t - 1 - r < t
      BY <1>1, WordRange
    <3> QED
      BY <2>7, <3>1, DivUnique
  <2>9. (2 * m - 1 - q) % 2 = 1 <=> ~(q % 2 = 1)
    OBVIOUS
  <2> QED
    BY <2>2, <2>5, <2>8, <2>9 DEF Bit
<1> QED
  BY <1>1, <1>2

\* The largest word has all bits.
LEMMA AllBits ==
  /\ Modulus - 1 \in Values
  /\ \A n \in Bits : Bit(Modulus - 1, n)
<1>1. 0 \in Values /\ Modulus - 1 - 0 = Modulus - 1
  BY WordRange
<1> QED
  BY <1>1, ComplementBits, NoBits

-----------------------------------------------------------------------------
(* The operations on bits. *)

\* The bitwise operations make words.
LEMMA BitOperations ==
  ASSUME NEW a, NEW b
  PROVE  /\ BitAnd(a, b) \in Values /\ BitOr(a, b) \in Values /\ BitXor(a, b) \in Values
         /\ \A n \in Bits : Bit(BitAnd(a, b), n) <=> Bit(a, n) /\ Bit(b, n)
  BY WordOfBits DEF BitAnd, BitOr, BitXor, BitsOf

\* XOR with ones is the complement.
LEMMA XorOnes == ASSUME NEW a \in Values PROVE BitXor(a, Modulus - 1) = Modulus - 1 - a
<1> DEFINE S == {n \in Bits : Bit(a, n) # Bit(Modulus - 1, n)}
<1>1. \A n \in Bits : Bit(Modulus - 1 - a, n) <=> n \in S
  <2>1. ASSUME NEW n \in Bits PROVE Bit(Modulus - 1 - a, n) <=> n \in S
    <3>1. Bit(a, n) \in BOOLEAN /\ Bit(Modulus - 1, n)
      BY AllBits DEF Bit
    <3>2. Bit(Modulus - 1 - a, n) <=> ~Bit(a, n)
      BY ComplementBits
    <3> QED
      BY <3>1, <3>2
  <2> QED
    BY <2>1
<1>2. Modulus - 1 - a \in Values
  BY ComplementBits
<1> HIDE DEF S
<1>3. Modulus - 1 - a = WordOf(S)
  BY <1>1, <1>2, WordOfBits
<1> QED
  BY <1>3 DEF BitXor, S

\* AND with a power of two tests a bit.
LEMMA TestBit ==
  ASSUME NEW a, NEW k \in Bits
  PROVE  BitAnd(a, TwoTo[k]) = IF Bit(a, k) THEN TwoTo[k] ELSE 0
<1> DEFINE S == BitsOf(a) \cap BitsOf(TwoTo[k])
<1>1. S = IF Bit(a, k) THEN {k} ELSE {}
  BY OneBit DEF BitsOf
<1>2. BitAnd(a, TwoTo[k]) = WordOf(S)
  BY DEF BitAnd
<1> HIDE DEF S
<1>3. CASE Bit(a, k)
  <2>1. \A n \in Bits : Bit(TwoTo[k], n) <=> n \in S
    BY <1>1, <1>3, OneBit
  <2>2. TwoTo[k] = WordOf(S)
    BY <2>1, OneBit, WordOfBits
  <2> QED
    BY <1>2, <1>3, <2>2
<1>4. CASE ~Bit(a, k)
  <2>1. 0 \in Values /\ \A n \in Bits : Bit(0, n) <=> n \in S
    BY <1>1, <1>4, NoBits, WordRange
  <2>2. 0 = WordOf(S)
    BY <2>1, WordOfBits
  <2> QED
    BY <1>2, <1>4, <2>2
<1> QED
  BY <1>3, <1>4

\* Setting, resetting and flipping a bit by OR, AND and XOR with a mask.
LEMMA MaskOperations ==
  ASSUME NEW a, NEW k \in Bits
  PROVE  /\ BitOr(a, TwoTo[k]) = WordOf(BitsOf(a) \cup {k})
         /\ BitAnd(a, Modulus - 1 - TwoTo[k]) = WordOf(BitsOf(a) \ {k})
         /\ BitXor(a, TwoTo[k])
              = WordOf(IF k \in BitsOf(a) THEN BitsOf(a) \ {k} ELSE BitsOf(a) \cup {k})
<1>1. BitsOf(TwoTo[k]) = {k}
  BY OneBit DEF BitsOf
<1>2. BitsOf(Modulus - 1 - TwoTo[k]) = Bits \ {k}
  BY OneBit, ComplementBits DEF BitsOf
<1>3. BitsOf(a) \cap (Bits \ {k}) = BitsOf(a) \ {k}
  BY DEF BitsOf
<1>4. {n \in Bits : Bit(a, n) # Bit(TwoTo[k], n)}
        = IF k \in BitsOf(a) THEN BitsOf(a) \ {k} ELSE BitsOf(a) \cup {k}
  <2>1. \A n \in Bits : Bit(a, n) \in BOOLEAN /\ Bit(TwoTo[k], n) \in BOOLEAN
                        /\ (Bit(TwoTo[k], n) <=> n = k)
    BY OneBit DEF Bit
  <2> QED
    BY <2>1 DEF BitsOf
<1>5. BitXor(a, TwoTo[k])
        = WordOf(IF k \in BitsOf(a) THEN BitsOf(a) \ {k} ELSE BitsOf(a) \cup {k})
  BY <1>4 DEF BitXor
<1> QED
  BY <1>1, <1>2, <1>3, <1>5 DEF BitOr, BitAnd

\* AND with 255 keeps the bits of the lowest byte, also of a word that is shorter.
LEMMA ByteBits == ASSUME NEW n \in Bits PROVE Bit(255 % Modulus, n) <=> n < 8
<1>1. n \in Nat /\ n < Width /\ Width \in Nat /\ Modulus = TwoTo[Width]
  BY BitRange, WordPowers
<1>2. TwoTo[8] = 256
  <2>1. TwoTo[0 + 1] = 2 /\ TwoTo[1 + 1] = 2 * TwoTo[1] /\ TwoTo[2 + 1] = 2 * TwoTo[2]
        /\ TwoTo[3 + 1] = 2 * TwoTo[3] /\ TwoTo[4 + 1] = 2 * TwoTo[4] /\ TwoTo[5 + 1] = 2 * TwoTo[5]
        /\ TwoTo[6 + 1] = 2 * TwoTo[6] /\ TwoTo[7 + 1] = 2 * TwoTo[7]
    BY TwoToPositive
  <2> QED
    BY <2>1
<1>3. CASE Width <= 8
  <2>1. 255 % Modulus = Modulus - 1
    <3>1. CASE Width = 8
      BY <1>1, <1>2, <3>1
    <3>2. CASE Width < 8
      <4>1. PICK m \in Nat \ {0} : m = 2 * TwoTo[8 - Width - 1]
        <5>1. 8 - Width - 1 \in Nat
          BY <1>1, <3>2
        <5>2. TwoTo[8 - Width - 1] \in Nat \ {0}
          BY <5>1, TwoToPositive
        <5> QED
          BY <5>2
      <4>2. 256 = Modulus * m
        BY <1>1, <1>2, <3>2, <4>1, TwoToMultiple
      <4>3. Modulus * (m - 1) = Modulus * m - Modulus /\ Modulus \in Nat \ {0}
        <5>1. Modulus \in Nat \ {0}
          BY WordRange
        <5> QED
          BY <5>1
      <4>4. 255 = Modulus * (m - 1) + (Modulus - 1)
        BY <4>2, <4>3
      <4>5. m - 1 \in Int /\ Modulus - 1 \in Int /\ 0 <= Modulus - 1 /\ Modulus - 1 < Modulus
        BY <4>3
      <4> QED
        BY <4>3, <4>4, <4>5, DivUnique
    <3> QED
      BY <1>1, <1>3, <3>1, <3>2
  <2> QED
    BY <1>1, <1>3, <2>1, AllBits
<1>4. CASE 8 < Width
  <2>1. 255 % Modulus = 255
    <3>1. Modulus \in Nat /\ 256 < Modulus
      <4>1. 2 * TwoTo[8] <= TwoTo[Width]
        BY <1>1, <1>4, TwoToGrows
      <4>2. Modulus \in Nat
        BY WordRange
      <4> QED
        BY <1>1, <1>2, <4>1, <4>2
    <3> QED
      BY <3>1
  <2>2. PICK t \in Nat \ {0} : t = TwoTo[n]
    BY BitRange
  <2>3. CASE n < 8
    <3>1. PICK m \in Nat : m = TwoTo[8 - n - 1]
      <4>1. 8 - n - 1 \in Nat
        BY <1>1, <2>3
      <4> QED
        BY <4>1, TwoToPositive
    <3>2. 256 = t * (2 * m)
      <4>1. TwoTo[8] = TwoTo[n] * (2 * TwoTo[8 - n - 1])
        BY <1>1, <2>3, TwoToMultiple
      <4> QED
        BY <1>2, <2>2, <3>1, <4>1
    <3>3. t * (2 * m - 1) = t * (2 * m) - t
      OBVIOUS
    <3>4. 255 = t * (2 * m - 1) + (t - 1)
      BY <3>2, <3>3
    <3>5. 255 \div t = 2 * m - 1
      <4>1. 2 * m - 1 \in Int /\ t - 1 \in Int /\ 0 <= t - 1 /\ t - 1 < t
        OBVIOUS
      <4> QED
        BY <3>4, <4>1, DivUnique
    <3>6. (2 * m - 1) % 2 = 1
      OBVIOUS
    <3> QED
      BY <2>1, <2>2, <2>3, <3>5, <3>6 DEF Bit
  <2>4. CASE ~(n < 8)
    <3>1. t >= 256
      <4>1. CASE n = 8
        BY <1>2, <2>2, <4>1
      <4>2. CASE n > 8
        BY <1>1, <1>2, <2>2, <4>2, TwoToGrows
      <4> QED
        BY <1>1, <2>4, <4>1, <4>2
    <3>2. 255 \div t = 0
      BY <3>1
    <3> QED
      BY <2>1, <2>2, <2>4, <3>2 DEF Bit
  <2> QED
    BY <1>1, <2>3, <2>4
<1> QED
  BY <1>1, <1>3, <1>4

\* The parity flag of the raised code counts the bits of the lowest byte.
LEMMA ByteCount ==
  ASSUME NEW v
  PROVE  PopCount(BitAnd(v, 255 % Modulus)) = Cardinality(BitsOf(v) \cap 0 .. 7)
<1>1. \A n \in Bits : n \in 0 .. 7 <=> n < 8
  BY BitBounds
<1>2. BitsOf(BitAnd(v, 255 % Modulus)) = BitsOf(v) \cap 0 .. 7
  BY <1>1, ByteBits, BitOperations DEF BitsOf
<1> QED
  BY <1>2 DEF PopCount

-----------------------------------------------------------------------------
(* Shifts and rotations. *)

\* A word shifted is a word; the two shifts to the right differ for negative words only.
LEMMA ShiftedWords ==
  ASSUME NEW v \in Values, NEW n \in Bits
  PROVE  /\ ShiftLeft(v, n) \in Values /\ ShiftRight(v, n) \in Values
         /\ ShiftArith(v, n) \in Values
         /\ ~HighBit(v) \/ n = 0 => ShiftArith(v, n) = ShiftRight(v, n)
<1>1. PICK t \in Nat \ {0} : t = TwoTo[n]
  BY BitRange
<1>2. v \in Nat /\ v < Modulus /\ Modulus \in Nat \ {0} /\ Signed(v) \in Int
  BY WordRange DEF Signed, HighBit
<1>3. v \div t \in Nat /\ v \div t <= v
  <2>1. PICK q \in Int, r \in 0 .. t - 1 : q = v \div t /\ v = t * q + r
    <3>1. v \in Int
      BY <1>2
    <3> QED
      BY <3>1, DivMod
  <2>2. q \in Nat
    BY <1>2, <2>1, DivNat
  <2>3. t * q >= q
    BY <2>2
  <2>4. t * q \in Int /\ v = t * q + r
    BY <2>1
  <2> QED
    BY <2>1, <2>2, <2>3, <2>4
<1>4. ASSUME NEW x \in Int PROVE x % Modulus \in Values
  <2>1. x % Modulus \in 0 .. Modulus - 1
    BY <1>2, DivMod
  <2> QED
    BY <2>1 DEF Values
<1>5. v * t \in Int /\ Signed(v) \div t \in Int
  BY <1>2, DivMod
<1>6. ShiftLeft(v, n) \in Values /\ ShiftArith(v, n) \in Values
  BY <1>1, <1>4, <1>5 DEF ShiftLeft, ShiftArith
<1>7. ShiftRight(v, n) \in Values
  BY <1>1, <1>2, <1>3 DEF ShiftRight, Values
<1>8. ASSUME ~HighBit(v) PROVE ShiftArith(v, n) = ShiftRight(v, n)
  <2>1. Signed(v) = v
    BY <1>8 DEF Signed
  <2>2. (v \div t) % Modulus = v \div t
    BY <1>2, <1>3
  <2> QED
    BY <1>1, <2>1, <2>2 DEF ShiftArith, ShiftRight
<1>9. ASSUME n = 0 PROVE ShiftArith(v, n) = ShiftRight(v, n)
  <2>1. t = 1 /\ v \div 1 = v /\ Signed(v) \div 1 = Signed(v)
    BY <1>1, <1>2, <1>9, TwoToPositive
  <2>2. Signed(v) % Modulus = v
    <3>1. CASE HighBit(v)
      <4>1. Signed(v) = Modulus * (-1) + v /\ 0 <= v
        BY <1>2, <3>1 DEF Signed
      <4>2. -1 \in Int /\ v \in Int
        BY <1>2
      <4> QED
        BY <1>2, <4>1, <4>2, DivUnique
    <3>2. CASE ~HighBit(v)
      BY <1>2, <3>2 DEF Signed
    <3> QED
      BY <3>1, <3>2
  <2> QED
    BY <1>1, <2>1, <2>2 DEF ShiftArith, ShiftRight
<1> QED
  BY <1>6, <1>7, <1>8, <1>9

\* A rotation by one moves the highest bit to the lowest, or one down.
LEMMA RotatedLeft == ASSUME NEW a \in Values PROVE Bit(FunnelLeft(a, a, 1), 0) <=> HighBit(a)
<1>1. /\ a \in Nat /\ a < 2 * Half /\ Half \in Nat \ {0} /\ Modulus = 2 * Half
      /\ TwoTo[Width - 1] = Half
  BY WordRange, WordPowers
<1>2. TwoTo[1] = 2 /\ TwoTo[0] = 1
  BY TwoToPositive DEF TwoTo
<1>3. PICK b \in {0, 1} : (b = 1 <=> HighBit(a)) /\ a \div Half = b
  <2>1. CASE HighBit(a)
    <3>1. a = Half * 1 + (a - Half) /\ 0 <= a - Half /\ a - Half < Half
      BY <1>1, <2>1 DEF HighBit
    <3>2. a \div Half = 1
      BY <1>1, <3>1, DivUnique
    <3> QED
      BY <2>1, <3>2
  <2>2. CASE ~HighBit(a)
    BY <1>1, <2>2 DEF HighBit
  <2> QED
    BY <2>1, <2>2
<1>4. PICK w \in Nat : (a * 2) % Modulus = 2 * w
  <2>1. CASE HighBit(a)
    <3>1. a * 2 = (2 * Half) * 1 + 2 * (a - Half) /\ a - Half \in Nat /\ 2 * (a - Half) < 2 * Half
      BY <1>1, <2>1 DEF HighBit
    <3>2. (a * 2) % (2 * Half) = 2 * (a - Half)
      <4>1. /\ a * 2 \in Int /\ 2 * Half \in Nat \ {0} /\ 2 * (a - Half) \in Int
            /\ 0 <= 2 * (a - Half) /\ 1 \in Int
        BY <1>1, <3>1
      <4> QED
        BY <3>1, <4>1, DivUnique
    <3> QED
      BY <1>1, <3>1, <3>2
  <2>2. CASE ~HighBit(a)
    BY <1>1, <2>2 DEF HighBit
  <2> QED
    BY <2>1, <2>2
<1>5. FunnelLeft(a, a, 1) = 2 * w + b
  BY <1>1, <1>2, <1>3, <1>4 DEF FunnelLeft, ShiftLeft
<1> QED
  BY <1>3, <1>5, BitZero

\* The highest bit goes down by one.
LEMMA RotatedRight ==
  ASSUME NEW a \in Values
  PROVE  Bit(FunnelRight(a, a, 1), Width - 2) <=> HighBit(a)
<1>1. PICK t \in Nat \ {0} : t = TwoTo[Width - 2]
  <2>1. Width - 2 \in Nat
    BY BitBounds
  <2> QED
    BY <2>1, TwoToPositive
<1>2. /\ a \in Nat /\ a < 4 * t /\ Half = 2 * t /\ Modulus = 4 * t /\ Half \in Nat \ {0}
      /\ TwoTo[Width - 1] = Half
  <2>1. TwoTo[Width - 1] = Half /\ Half = 2 * t
    BY <1>1, WordPowers
  <2> QED
    BY <2>1, WordRange
<1>3. TwoTo[1] = 2
  BY TwoToPositive DEF TwoTo
<1>4. PICK w \in Nat, b \in {0, 1} : a = 2 * w + b
  BY <1>2, LowBit
<1>5. a \div 2 = w
  BY <1>4
<1>6. (a * Half) % Modulus = Half * b
  <2>1. a * Half = (2 * Half) * w + Half * b
    BY <1>2, <1>4
  <2>2. 0 <= Half * b /\ Half * b < 2 * Half /\ Half * b \in Int
    BY <1>2
  <2>3. 2 * Half \in Nat \ {0} /\ a * Half \in Int /\ Modulus = 2 * Half
    BY <1>2
  <2> QED
    BY <2>1, <2>2, <2>3, DivUnique
<1>7. FunnelRight(a, a, 1) = w + Half * b
  BY <1>2, <1>3, <1>5, <1>6 DEF FunnelRight, ShiftLeft
<1>8. w < 2 * t /\ (HighBit(a) <=> w >= t)
  BY <1>2, <1>4 DEF HighBit
<1>9. PICK c \in {0, 1}, r \in 0 .. t - 1 : w = t * c + r /\ (c = 1 <=> HighBit(a))
  <2>1. CASE w >= t
    <3>1. w = t * 1 + (w - t) /\ w - t \in 0 .. t - 1
      BY <1>8, <2>1
    <3> QED
      BY <1>8, <2>1, <3>1
  <2>2. CASE ~(w >= t)
    <3>1. w = t * 0 + w /\ w \in 0 .. t - 1
      BY <2>2
    <3> QED
      BY <1>8, <2>2, <3>1
  <2> QED
    BY <2>1, <2>2
<1>10. (w + Half * b) \div t = 2 * b + c
  <2>1. w + Half * b = t * (2 * b + c) + r
    <3>1. t * (2 * b + c) = (2 * t) * b + t * c
      OBVIOUS
    <3> QED
      BY <1>2, <1>9, <3>1
  <2>2. w + Half * b \in Int
    BY <1>2
  <2>3. 2 * b + c \in Int /\ r \in Int /\ 0 <= r /\ r < t
    OBVIOUS
  <2> QED
    BY <2>1, <2>2, <2>3, DivUnique
<1>11. (2 * b + c) % 2 = c
  OBVIOUS
<1> QED
  BY <1>1, <1>7, <1>9, <1>10, <1>11 DEF Bit

-----------------------------------------------------------------------------
(* Products: of two words, and of two signed words, as double words. *)

\* The signed value of a word.
LEMMA SignedRange == ASSUME NEW v \in Values PROVE Signed(v) \in -Half .. Half - 1
  BY WordRange DEF Signed, HighBit

\* A multiple of m that is smaller than m is zero.
LEMMA SmallMultiple ==
  ASSUME NEW m \in Nat \ {0}, NEW k \in Int, -m < m * k, m * k < m
  PROVE  k = 0
<1>1. CASE k >= 1
  <2>1. m * k >= m
    BY <1>1
  <2> QED
    BY <2>1
<1>2. CASE k <= -1
  <2>1. m * k <= -m
    BY <1>2
  <2> QED
    BY <2>1
<1> QED
  BY <1>1, <1>2

\* The product of two words fits a double word.
LEMMA UnsignedProduct ==
  ASSUME NEW a \in Values, NEW b \in Values
  PROVE  /\ a * b \in Nat
         /\ (a * b) % (Modulus * Modulus) = a * b
         /\ (Modulus * Modulus) \div 2 = Half * Modulus
<1>1. PICK m \in Nat \ {0} : m = Modulus
  BY WordRange
<1>2. a \in Nat /\ b \in Nat /\ a < m /\ b < m
  BY <1>1, WordRange
<1>3. a * b < m * m
  <2>1. a * b <= a * m
    BY <1>2
  <2>2. a * m < m * m
    BY <1>2
  <2> QED
    BY <1>2, <2>1, <2>2
<1>4. a * b \in Nat /\ m * m \in Nat \ {0}
  BY <1>2
<1>5. (a * b) % (m * m) = a * b
  BY <1>3, <1>4
<1>6. (m * m) \div 2 = Half * m
  <2>1. PICK h \in Nat : h = Half /\ m = 2 * h
    BY <1>1, WordRange
  <2>2. m * m = 2 * (h * m) /\ h * m \in Nat
    BY <2>1
  <2>3. (2 * (h * m)) \div 2 = h * m
    BY <2>2
  <2> QED
    BY <2>1, <2>2, <2>3
<1> QED
  BY <1>1, <1>4, <1>5, <1>6

\* The product of two signed words is that of their sign extensions, and fits a word if its
\* sign-extended lower word gives it back.
LEMMA SignedProduct ==
  ASSUME NEW x \in -Half .. Half - 1, NEW y \in -Half .. Half - 1, NEW p, p = x * y
  PROVE  /\ p \in Int
         /\ p < (Modulus * Modulus) \div 2
         /\ p % (Modulus * Modulus) \in Nat
         /\ Signed((p % (Modulus * Modulus)) % Modulus) % (Modulus * Modulus)
                = p % (Modulus * Modulus)
              <=> FitsSigned(p)
<1>1. PICK h \in Nat : h = Half /\ h >= 2 /\ Modulus = 2 * h
  BY WordRange
<1>2. x \in Int /\ y \in Int /\ -h <= x /\ x <= h /\ -h <= y /\ y <= h
  BY <1>1
<1>3. p \in Int /\ -(h * h) <= p /\ p <= h * h
  <2>1. (h - x) * (h - y) >= 0 /\ (h + x) * (h + y) >= 0
    BY <1>2
  <2>2. (h - x) * (h + y) >= 0 /\ (h + x) * (h - y) >= 0
    BY <1>2
  <2>3. (h - x) * (h - y) + (h + x) * (h + y) = 2 * (h * h) + 2 * (x * y)
    BY <1>2
  <2>4. (h - x) * (h + y) + (h + x) * (h - y) = 2 * (h * h) - 2 * (x * y)
    BY <1>2
  <2>5. x * y \in Int /\ h * h \in Int
    BY <1>2
  <2>6. /\ (h - x) * (h - y) \in Int /\ (h + x) * (h + y) \in Int
        /\ (h - x) * (h + y) \in Int /\ (h + x) * (h - y) \in Int
    BY <1>2
  <2> QED
    BY <2>1, <2>2, <2>3, <2>4, <2>5, <2>6
<1>4. PICK hh \in Nat : hh = h * h /\ hh >= 2 * h
  <2>1. h * h \in Nat /\ h * h >= 2 * h
    BY <1>1
  <2> QED
    BY <2>1
<1>5. PICK m \in Nat \ {0} : m = Modulus /\ m = 2 * h
  BY <1>1
<1>6. PICK d \in Nat \ {0} : d = Modulus * Modulus /\ d = 4 * hh /\ d = m * m
  <2>1. m * m = 4 * hh
    BY <1>4, <1>5
  <2> QED
    BY <1>1, <1>4, <1>5, <2>1
<1>7. p < d \div 2
  BY <1>1, <1>3, <1>4, <1>6
<1>8. PICK q \in Int, v \in 0 .. d - 1 : v = p % d /\ p = d * q + v
  <2>1. p \div d \in Int /\ p % d \in 0 .. d - 1 /\ p = d * (p \div d) + (p % d)
    BY <1>3, DivMod
  <2> QED
    BY <2>1
<1>9. PICK z \in Int, l \in 0 .. m - 1 : l = v % m /\ v = m * z + l
  <2>1. v \in Int
    OBVIOUS
  <2>2. v \div m \in Int /\ v % m \in 0 .. m - 1 /\ v = m * (v \div m) + (v % m)
    BY <2>1, DivMod
  <2> QED
    BY <2>2
<1>10. PICK s \in Int, c \in {0, 1} : s = Signed(l) /\ s = l - m * c /\ -h <= s /\ s < h
  <2>1. CASE HighBit(l)
    <3>1. Signed(l) = l - m * 1 /\ h <= l
      BY <1>1, <1>5, <2>1 DEF Signed, HighBit
    <3> QED
      BY <1>5, <3>1
  <2>2. CASE ~HighBit(l)
    <3>1. Signed(l) = l - m * 0 /\ l < h
      BY <1>1, <1>5, <2>2 DEF Signed, HighBit
    <3> QED
      BY <1>5, <3>1
  <2> QED
    BY <2>1, <2>2
<1>11. p - s = m * (m * q + z + c)
  <2>1. p = d * q + (m * z + l)
    BY <1>8, <1>9
  <2>2. d * q = m * (m * q)
    BY <1>6
  <2>3. m * (m * q + z + c) = m * (m * q) + m * z + m * c
    OBVIOUS
  <2>4. m * (m * q) \in Int /\ m * z \in Int /\ m * c \in Int
    OBVIOUS
  <2> QED
    BY <1>10, <2>1, <2>2, <2>3, <2>4
<1>12. ASSUME FitsSigned(p) PROVE s % d = v
  <2>1. -h <= p /\ p < h
    BY <1>1, <1>3, <1>12 DEF FitsSigned
  <2>2. -m < p - s /\ p - s < m
    BY <1>3, <1>5, <1>10, <2>1
  <2>3. m * q + z + c \in Int
    OBVIOUS
  <2>4. m * q + z + c = 0
    BY <1>11, <2>2, <2>3, SmallMultiple
  <2>5. p = s
    <3>1. m * 0 = 0
      OBVIOUS
    <3> QED
      BY <1>3, <1>10, <1>11, <2>4, <3>1
  <2> QED
    BY <1>8, <2>5
<1>13. ASSUME s % d = v PROVE FitsSigned(p)
  <2>1. PICK k \in Int : s = d * k + v
    <3>1. s \div d \in Int /\ s = d * (s \div d) + (s % d)
      BY DivMod
    <3> QED
      BY <1>13, <3>1
  <2>2. s - p = d * (k - q)
    <3>1. d * (k - q) = d * k - d * q /\ d * k \in Int /\ d * q \in Int
      OBVIOUS
    <3>2. p = d * q + v
      BY <1>8
    <3> QED
      BY <2>1, <3>1, <3>2
  <2>3. -d < s - p /\ s - p < d
    BY <1>1, <1>3, <1>4, <1>6, <1>10
  <2>4. k - q \in Int
    OBVIOUS
  <2>5. k - q = 0
    BY <2>2, <2>3, <2>4, SmallMultiple
  <2>6. s = p
    <3>1. d * 0 = 0
      OBVIOUS
    <3> QED
      BY <1>3, <1>10, <2>2, <2>5, <3>1
  <2> QED
    BY <1>1, <1>10, <2>6 DEF FitsSigned
<1>14. v \in Nat
  OBVIOUS
<1>15. Signed((p % d) % m) % d = p % d <=> FitsSigned(p)
  <2>1. p % d = v /\ v % m = l /\ Signed(l) = s
    BY <1>8, <1>9, <1>10
  <2>2. Signed((p % d) % m) % d = s % d
    BY <2>1, Zenon
  <2> QED
    BY <1>12, <1>13, <2>1, <2>2, Zenon
<1>16. d = Modulus * Modulus /\ m = Modulus
  BY <1>5, <1>6
<1>17. p % d \in Nat
  BY <1>8, <1>14
<1> QED
  BY <1>3, <1>7, <1>15, <1>16, <1>17, Zenon

\* A shift by zero changes nothing.
LEMMA UnshiftedWords ==
  ASSUME NEW v \in Values
  PROVE  ShiftLeft(v, 0) = v /\ ShiftRight(v, 0) = v /\ ShiftArith(v, 0) = v
<1>1. v \in Nat /\ v < Modulus /\ Modulus \in Nat \ {0} /\ TwoTo[0] = 1 /\ 0 \in Bits
  <2>1. v \in Nat /\ v < Modulus /\ Modulus \in Nat \ {0}
    BY WordRange
  <2>2. 0 \in Bits
    BY BitBounds
  <2> QED
    BY <2>1, <2>2, TwoToPositive
<1>2. ShiftRight(v, 0) = v
  BY <1>1 DEF ShiftRight
<1>3. ShiftLeft(v, 0) = v
  <2>1. v * 1 = v /\ v % Modulus = v
    BY <1>1
  <2> QED
    BY <1>1, <2>1 DEF ShiftLeft
<1>4. ShiftArith(v, 0) = ShiftRight(v, 0)
  BY <1>1, ShiftedWords
<1> QED
  BY <1>2, <1>3, <1>4

\* The last bit that a shift by k + 1 moves out, to the left and to the right.
LEMMA LeftCarry ==
  ASSUME NEW v \in Values, NEW k \in Bits
  PROVE  HighBit(ShiftLeft(v, k)) <=> Bit(v, Width - 1 - k)
<1>1. /\ v \in Nat /\ Width - 1 - k \in Nat /\ k \in Nat /\ Width - 1 - k + k = Width - 1
      /\ Half = TwoTo[Width - 1] /\ Modulus = 2 * Half /\ Half \in Nat \ {0}
  BY WordRange, WordPowers, BitBounds
<1>2. PICK t \in Nat \ {0} : t = TwoTo[k]
  BY <1>1, TwoToPositive
<1>3. PICK a \in Nat \ {0} : a = TwoTo[Width - 1 - k]
  BY <1>1, TwoToPositive
<1>4. Half = a * t
  BY <1>1, <1>2, <1>3, TwoToSum
<1>5. PICK q \in Nat, r \in 0 .. a - 1 : q = v \div a /\ v = a * q + r
  <2>1. v \in Int
    BY <1>1
  <2>2. v \div a \in Nat /\ v % a \in 0 .. a - 1 /\ v = a * (v \div a) + (v % a)
    BY <1>1, <2>1, DivMod, DivNat
  <2> QED
    BY <2>2
<1>6. PICK j \in Nat, b \in {0, 1} : q = 2 * j + b
  BY LowBit
<1>7. r * t < Half /\ r * t \in Nat
  <2>1. r * t <= (a - 1) * t
    BY <1>2, <1>3
  <2>2. (a - 1) * t = a * t - t
    BY <1>2, <1>3
  <2>3. a * t \in Int /\ r * t \in Nat
    OBVIOUS
  <2> QED
    BY <1>4, <2>1, <2>2, <2>3
<1>8. v * t = Modulus * j + (Half * b + r * t)
  <2>1. v * t = (a * t) * q + r * t
    <3>1. (a * q + r) * t = (a * t) * q + r * t
      OBVIOUS
    <3> QED
      BY <1>5, <3>1
  <2>2. (a * t) * q = 2 * (a * t) * j + (a * t) * b
    BY <1>6
  <2> QED
    BY <1>1, <1>4, <2>1, <2>2
<1>9. (v * t) % Modulus = Half * b + r * t
  <2>1. Half * b + r * t \in Int /\ 0 <= Half * b + r * t /\ Half * b + r * t < Modulus
    <3>1. Half * b = 0 \/ Half * b = Half
      BY <1>1
    <3>2. PICK x \in Nat, y \in Nat : x = Half * b /\ y = r * t
      BY <1>1, <1>7
    <3> QED
      BY <1>1, <1>7, <3>1, <3>2
  <2>2. v * t \in Int /\ Modulus \in Nat \ {0} /\ j \in Int
    BY <1>1
  <2> QED
    BY <1>8, <2>1, <2>2, DivUnique
<1>10. HighBit(ShiftLeft(v, k)) <=> b = 1
  <2>1. ShiftLeft(v, k) = Half * b + r * t
    BY <1>2, <1>9 DEF ShiftLeft
  <2>2. CASE b = 1
    <3>1. Half * b = Half
      BY <1>1, <2>2
    <3> QED
      BY <1>1, <1>7, <2>1, <2>2, <3>1 DEF HighBit
  <2>3. CASE b = 0
    <3>1. Half * b = 0
      BY <1>1, <2>3
    <3> QED
      BY <1>1, <1>7, <2>1, <2>3, <3>1 DEF HighBit
  <2> QED
    BY <2>2, <2>3
<1>11. q % 2 = b
  BY <1>6
<1> QED
  BY <1>3, <1>5, <1>10, <1>11 DEF Bit

\* The lowest bit of a word shifted to the right.
LEMMA RightCarry ==
  ASSUME NEW v \in Values, NEW k \in Bits
  PROVE  Bit(ShiftRight(v, k), 0) <=> Bit(v, k)
<1>1. v \div TwoTo[k] \in Nat /\ TwoTo[0] = 1
  <2>1. TwoTo[k] \in Nat \ {0} /\ v \in Nat
    BY BitRange, WordRange
  <2> QED
    BY <2>1, DivNat, TwoToPositive
<1>2. (v \div TwoTo[k]) \div 1 = v \div TwoTo[k]
  BY <1>1
<1> QED
  BY <1>1, <1>2 DEF Bit, ShiftRight

\* The lowest bit of a word shifted to the right with its sign.
LEMMA ArithCarry ==
  ASSUME NEW v \in Values, NEW k \in Bits
  PROVE  Bit(ShiftArith(v, k), 0) <=> Bit(v, k)
<1>1. /\ v \in Nat /\ k \in Nat /\ Width \in Nat /\ k < Width /\ Width - k - 1 \in Nat
      /\ Modulus = TwoTo[Width] /\ Modulus = 2 * Half /\ Half \in Nat \ {0}
  BY WordRange, WordPowers, BitBounds
<1>2. PICK t \in Nat \ {0} : t = TwoTo[k]
  BY <1>1, TwoToPositive
<1>3. PICK e \in Nat \ {0} : e = TwoTo[Width - k - 1]
  BY <1>1, TwoToPositive
<1>4. Modulus = t * (2 * e)
  BY <1>1, <1>2, <1>3, TwoToMultiple
<1>5. PICK q \in Nat, r \in 0 .. t - 1 : q = v \div t /\ v = t * q + r
  <2>1. v \in Int
    BY <1>1
  <2>2. v \div t \in Nat /\ v % t \in 0 .. t - 1 /\ v = t * (v \div t) + (v % t)
    BY <1>1, <2>1, DivMod, DivNat
  <2> QED
    BY <2>2
<1>6. PICK h \in {0, 1} : Signed(v) = v - Modulus * h
  BY <1>1 DEF Signed
<1>7. Signed(v) \div t = q - 2 * (e * h)
  <2>1. Signed(v) = t * (q - 2 * (e * h)) + r
    <3>1. (t * (2 * e)) * h = t * (2 * (e * h))
      OBVIOUS
    <3>2. t * (q - 2 * (e * h)) = t * q - t * (2 * (e * h))
      OBVIOUS
    <3>3. t * q \in Int /\ t * (2 * (e * h)) \in Int
      OBVIOUS
    <3> QED
      BY <1>4, <1>5, <1>6, <3>1, <3>2, <3>3
  <2>2. q - 2 * (e * h) \in Int /\ Signed(v) \in Int /\ r \in Int /\ 0 <= r /\ r < t
    BY <1>1, <1>6
  <2> QED
    BY <2>1, <2>2, DivUnique
<1>8. PICK s \in Values : s = ShiftArith(v, k)
  BY ShiftedWords
<1>9. PICK j \in Int : q - 2 * (e * h) = Modulus * j + s
  <2>1. s = (q - 2 * (e * h)) % Modulus
    BY <1>2, <1>7, <1>8 DEF ShiftArith
  <2>2. q - 2 * (e * h) \in Int /\ Modulus \in Nat \ {0}
    BY <1>1
  <2>3. (q - 2 * (e * h)) \div Modulus \in Int
    BY <2>2, DivMod
  <2> QED
    BY <2>1, <2>2, <2>3, DivMod
<1>10. s % 2 = q % 2
  <2>1. Modulus * j = 2 * (Half * j)
    BY <1>1
  <2>2. PICK x \in Int : x = e * h
    OBVIOUS
  <2>3. PICK y \in Int : y = Half * j
    BY <1>1
  <2>4. s = q - 2 * x - 2 * y /\ s \in Int
    <3>1. s \in Int
      BY WordRange
    <3> QED
      BY <1>9, <2>1, <2>2, <2>3, <3>1
  <2> HIDE <2>1
  <2> QED
    BY <2>4
<1>11. s \div 1 = s /\ TwoTo[0] = 1
  <2>1. s \in Nat
    BY WordRange
  <2> QED
    BY <2>1, TwoToPositive
<1> QED
  BY <1>2, <1>5, <1>8, <1>10, <1>11 DEF Bit

\* A rotated word is a word.
LEMMA RotatedWord ==
  ASSUME NEW v \in Values, NEW n \in Bits, n # 0
  PROVE  FunnelRight(v, v, n) \in Values
<1>1. /\ v \in Nat /\ n \in Nat /\ Width - n \in Nat /\ n + (Width - n) = Width
      /\ Modulus = TwoTo[Width] /\ v < Modulus /\ Values = 0 .. Modulus - 1 /\ Modulus \in Nat \ {0}
  BY WordRange, WordPowers, BitBounds
<1>2. PICK t \in Nat \ {0} : t = TwoTo[n]
  BY <1>1, TwoToPositive
<1>3. PICK u \in Nat \ {0} : u = TwoTo[Width - n]
  BY <1>1, TwoToPositive
<1>4. Modulus = t * u
  BY <1>1, <1>2, <1>3, TwoToSum
<1>5. PICK q \in Nat, r \in 0 .. t - 1 : q = v \div t /\ v = t * q + r
  <2>1. v \in Int
    BY <1>1
  <2>2. v \div t \in Nat /\ v % t \in 0 .. t - 1 /\ v = t * (v \div t) + (v % t)
    BY <1>1, <2>1, DivMod, DivNat
  <2> QED
    BY <2>2
<1>6. r * u <= t * u - u /\ r * u \in Nat /\ t * u \in Nat
  <2>1. r * u <= (t - 1) * u
    OBVIOUS
  <2>2. (t - 1) * u = t * u - u
    OBVIOUS
  <2> QED
    BY <2>1, <2>2
<1>7. q <= u - 1
  <2> SUFFICES ASSUME q >= u PROVE FALSE
    OBVIOUS
  <2>1. t * q >= t * u
    OBVIOUS
  <2>2. t * q \in Int /\ t * u \in Int
    OBVIOUS
  <2> QED
    BY <1>1, <1>4, <1>5, <2>1, <2>2
<1>8. (v * u) % Modulus = r * u
  <2>1. v * u = Modulus * q + r * u
    <3>1. (t * q + r) * u = (t * u) * q + r * u
      OBVIOUS
    <3> QED
      BY <1>4, <1>5, <3>1
  <2>2. v * u \in Int /\ r * u \in Int /\ 0 <= r * u /\ r * u < Modulus
    BY <1>1, <1>4, <1>6
  <2>3. Modulus \in Nat \ {0} /\ q \in Int
    BY <1>1
  <2> QED
    BY <2>1, <2>2, <2>3, DivUnique
<1>9. FunnelRight(v, v, n) = q + r * u
  BY <1>2, <1>3, <1>5, <1>8 DEF FunnelRight, ShiftLeft
<1> QED
  BY <1>1, <1>4, <1>6, <1>7, <1>9

\* RRX makes a word.
LEMMA ShiftedByOne ==
  ASSUME NEW v \in Values, NEW c \in {0, 1}
  PROVE  v \div 2 + c * Half \in Values
<1>1. PICK w \in Nat, b \in {0, 1} : v = 2 * w + b
  <2>1. v \in Nat
    BY WordRange
  <2> QED
    BY <2>1, LowBit
<1>2. v \div 2 = w /\ w < Half
  BY <1>1, WordRange
<1>3. c * Half = 0 \/ c * Half = Half
  BY WordRange
<1> QED
  BY <1>2, <1>3, WordRange
====
