--------------------------- MODULE StackFrame_proofs ---------------------------
(***************************************************************************)
(* Promotion slots and the layout of the stack frame, for bodies of every  *)
(* length made of any instructions: no reference is to an object that      *)
(* keeps a promoted register, and the layout of a regular frame completes. *)
(***************************************************************************)
EXTENDS StackFrame, WellFoundedInduction, TLAPS

Values == [slot : Int, add : Int, form : {"alloca", "add", "load", "nullptr"}]
Objects == [size : Nat, isSpillSlot : BOOLEAN]

-----------------------------------------------------------------------------
(* The inductive invariant. *)

ShadowTyped ==
  /\ shadow \in [DOMAIN shadow -> Objects]
  /\ \E n \in Nat : DOMAIN shadow \subseteq (-n) .. n

FrameTyped ==
  /\ todo \in Seq(Instruction)
  /\ value \in [Registers -> Values]
  /\ \A r \in refs : r.val \in Values
  /\ ShadowTyped

\* What a register or a reference stands for has an object, or is no part of the frame.
Located ==
  /\ \A r \in Registers : value[r] = NoValue \/ value[r].slot \in DOMAIN shadow \cup {Heap}
  /\ \A r \in refs : r.val.slot \in DOMAIN shadow \cup {Heap}

\* The promotion slots lie below the objects of the program and below what RSP is at entry.
SpillsBelow ==
  "unreserved" \notin marks =>
    \A o \in Spills : /\ shadow[o].size = PointerSize /\ o + PointerSize <= 0
                      /\ \A p \in Plain : o + PointerSize <= p

\* No register stands for a promotion slot.
ValuesPrivate == "unreserved" \notin marks => \A r \in Registers : value[r].slot \notin Spills

\* An object below RSP at entry was looked up.
PlainLookedUp == \A o \in Plain : o >= 0 \/ \E l \in lookups : l.disp = o

\* Why a layout does not complete.
Stuck ==
  /\ stage = "hung" => Plain # {} /\ \E o \in Spills : o > Top
  /\ stage = "negative" => Plain # {} /\ \E o \in Plain : o > Top /\ IRStackOffset(o) < 0

FrameInv ==
  /\ FrameTyped /\ Located /\ SpillsBelow /\ ValuesPrivate /\ SlotsPrivate
  /\ PlainLookedUp /\ Stuck

-----------------------------------------------------------------------------
(* Sets of offsets. *)

\* A nonempty set of integers with a lower bound has a least element.
LEMMA LeastElement ==
  ASSUME NEW T \in SUBSET Int, T # {}, NEW n \in Int, \A x \in T : n <= x
  PROVE  Min(T) \in T /\ \A y \in T : Min(T) <= y
<1> DEFINE R == {ss \in Nat \X Nat : ss[1] < ss[2]}
           U == {x - n : x \in T}
<1>1. IsWellFoundedOn(R, Nat)
  BY NatLessThanWellFounded DEF OpToRel
<1>2. \A x, y \in Nat : <<y, x>> \in R <=> y < x
  OBVIOUS
<1>3. U \in SUBSET Nat /\ U # {}
  <2>1. \A x \in T : x - n \in Nat /\ x - n \in U
    OBVIOUS
  <2>2. U # {}
    BY <2>1
  <2>3. \A u \in U : u \in Nat
    BY <2>1
  <2> QED
    BY <2>2, <2>3
<1> HIDE DEF R
<1>4. PICK u \in U : \A y \in U : <<y, u>> \notin R
  <2> HIDE DEF U
  <2> QED
    BY <1>1, <1>3, WFMin
<1>5. PICK x \in T : u = x - n
  OBVIOUS
<1>6. \A y \in T : x <= y
  <2> SUFFICES ASSUME NEW y \in T PROVE x <= y
    OBVIOUS
  <2>1. y - n \in U /\ y - n \in Nat /\ u \in Nat
    BY <1>3
  <2>2. ~(y - n < u)
    BY <1>2, <1>4, <2>1
  <2> QED
    BY <1>5, <2>2
<1> QED
  BY <1>6 DEF Min

LEMMA GreatestElement ==
  ASSUME NEW T \in SUBSET Int, T # {}, NEW n \in Int, \A x \in T : x <= n
  PROVE  Max(T) \in T /\ \A y \in T : y <= Max(T)
<1> DEFINE U == {-x : x \in T}
<1>1. U \in SUBSET Int /\ U # {} /\ -n \in Int /\ \A u \in U : -n <= u
  <2>1. \A x \in T : -x \in Int /\ -x \in U /\ -n <= -x
    OBVIOUS
  <2>2. U # {}
    BY <2>1
  <2>3. \A u \in U : u \in Int /\ -n <= u
    BY <2>1
  <2> QED
    BY <2>2, <2>3
<1> HIDE DEF U
<1>2. Min(U) \in U /\ \A u \in U : Min(U) <= u
  BY <1>1, LeastElement
<1> USE DEF U
<1>3. PICK x \in T : Min(U) = -x
  BY <1>2
<1>4. \A y \in T : y <= x
  <2> SUFFICES ASSUME NEW y \in T PROVE y <= x
    OBVIOUS
  <2>1. -y \in U
    OBVIOUS
  <2>2. Min(U) <= -y
    BY <1>2, <2>1
  <2> QED
    BY <1>3, <2>2
<1> QED
  BY <1>4 DEF Max

LEMMA ShadowFacts ==
  ASSUME ShadowTyped
  PROVE  /\ DOMAIN shadow \subseteq Int /\ Spills \subseteq DOMAIN shadow
         /\ Plain \subseteq DOMAIN shadow /\ DOMAIN shadow = Plain \cup Spills
         /\ \A T \in SUBSET (DOMAIN shadow \cup {0}) : T # {} =>
              /\ Min(T) \in T /\ \A y \in T : Min(T) <= y
              /\ Max(T) \in T /\ \A y \in T : y <= Max(T)
<1>1. PICK n \in Nat : DOMAIN shadow \subseteq (-n) .. n
  BY DEF ShadowTyped
<1>2. ASSUME NEW T \in SUBSET (DOMAIN shadow \cup {0}), T # {}
      PROVE  /\ Min(T) \in T /\ \A y \in T : Min(T) <= y
             /\ Max(T) \in T /\ \A y \in T : y <= Max(T)
  <2>1. T \in SUBSET Int /\ -n \in Int /\ n \in Int /\ \A x \in T : -n <= x /\ x <= n
    BY <1>1
  <2>2. Min(T) \in T /\ \A y \in T : Min(T) <= y
    BY <1>2, <2>1, LeastElement
  <2>3. Max(T) \in T /\ \A y \in T : y <= Max(T)
    BY <1>2, <2>1, GreatestElement
  <2> QED
    BY <2>2, <2>3
<1> QED
  BY <1>1, <1>2 DEF Spills, Plain

-----------------------------------------------------------------------------
(* Lookups and allocations. *)

\* What a lookup can find.
LEMMA LookupFacts ==
  ASSUME FrameTyped, NEW base \in Registers, NEW disp \in Int, NEW isAdjust \in BOOLEAN
  PROVE  LET v == getStackAllocatedValue(base, disp, isAdjust) IN
         /\ v \in Values
         /\ \/ v = NoValue
            \/ v = value[base]
            \/ v.slot = disp
            \/ isAdjust /\ v.slot = -disp /\ v.slot \in DOMAIN shadow
            \/ v.slot \in Including(disp)
<1>1. value[base] \in Values /\ NoValue \in Values /\ disp + 0 \in Int
  BY DEF FrameTyped, Values, NoValue, Ref, Nowhere, Away
<1>2. DOMAIN shadow \subseteq Int /\ Including(disp) \subseteq DOMAIN shadow
  BY ShadowFacts DEF FrameTyped, Including
<1>3. Including(disp) # {} => Min(Including(disp)) \in Including(disp)
  BY <1>2, ShadowFacts DEF FrameTyped
<1>4. \A o \in Int, a \in Int, f \in {"alloca", "add", "load", "nullptr"} :
        Ref(o, a, f) \in Values /\ Ref(o, a, f).slot = o
  BY DEF Ref, Values
<1> QED
  BY <1>1, <1>2, <1>3, <1>4 DEF getStackAllocatedValue

\* What the marks leave to be found is no promotion slot, and no offset below one.
Private(v) ==
  v = NoValue \/ (v.slot \notin Spills /\
                  (\/ v.slot \in DOMAIN shadow \cup {Heap}
                   \/ \A s \in Spills : s + PointerSize <= v.slot))

LEMMA LookupPrivate ==
  ASSUME FrameInv, NEW base \in Registers, NEW disp \in Int, NEW isAdjust \in BOOLEAN,
         "unreserved" \notin marks,
         Unreserved(IF isAdjust /\ disp >= 0 THEN -disp ELSE disp) = {}
  PROVE  Private(getStackAllocatedValue(base, disp, isAdjust))
<1> DEFINE v == getStackAllocatedValue(base, disp, isAdjust)
           d == IF isAdjust /\ disp >= 0 THEN -disp ELSE disp
<1>1. FrameTyped /\ DOMAIN shadow \subseteq Int /\ Spills \subseteq DOMAIN shadow
      /\ Plain \subseteq DOMAIN shadow
  BY ShadowFacts DEF FrameInv, FrameTyped
<1>2. \A s \in Spills : s \in Int /\ shadow[s].size = PointerSize /\ s + PointerSize <= 0
  BY <1>1 DEF FrameInv, SpillsBelow
<1>3. \A s \in Spills : s + PointerSize <= d
  <2>0. Min(Plain \cup {0}) \in Plain \cup {0}
    <3>1. Plain \cup {0} \in SUBSET (DOMAIN shadow \cup {0}) /\ Plain \cup {0} # {}
      BY <1>1
    <3>2. ShadowTyped
      BY DEF FrameInv, FrameTyped
    <3> QED
      BY <3>1, <3>2, ShadowFacts
  <2>5. Min(Plain \cup {0}) \in Int
    BY <1>1, <2>0
  <2>1. CASE Spills = {}
    BY <2>1
  <2>2. CASE d = 0
    BY <1>2, <2>2
  <2>3. CASE d >= Min(Plain \cup {0})
    <3>1. \A s \in Spills : s + PointerSize <= Min(Plain \cup {0})
      BY <1>2, <2>0 DEF FrameInv, SpillsBelow
    <3>2. ASSUME NEW s \in Spills
          PROVE  s + PointerSize <= d
      <4>1. s + PointerSize \in Int /\ d \in Int
        BY <1>2 DEF PointerSize
      <4>2. s + PointerSize <= Min(Plain \cup {0})
        BY <3>1
      <4> HIDE DEF d
      <4> QED
        BY <2>3, <2>5, <4>1, <4>2
    <3> QED
      BY <3>2
  <2>4. Spills = {} \/ d = 0 \/ ~(d < Min(Plain \cup {0}))
    BY DEF Unreserved
  <2> QED
    BY <2>1, <2>2, <2>3, <2>4, <2>5
<1>4. \A s \in Spills : s + PointerSize <= disp /\ (isAdjust => s + PointerSize <= -disp)
  BY <1>2, <1>3 DEF PointerSize
<1>5. \A s \in Spills : s # disp /\ (isAdjust => s # -disp) /\ s \notin Including(disp)
  BY <1>2, <1>4 DEF Including, PointerSize
<1>6. \/ v = NoValue
      \/ v = value[base]
      \/ v.slot = disp
      \/ isAdjust /\ v.slot = -disp /\ v.slot \in DOMAIN shadow
      \/ v.slot \in Including(disp)
  BY <1>1, LookupFacts
<1>7. value[base] = NoValue \/ value[base].slot \in DOMAIN shadow \cup {Heap}
  BY DEF FrameInv, Located
<1>8. value[base].slot \notin Spills
  BY DEF FrameInv, ValuesPrivate
<1>9. Including(disp) \subseteq DOMAIN shadow
  BY DEF Including
<1> HIDE DEF v
<1>10. Private(v)
  BY <1>4, <1>5, <1>6, <1>7, <1>8, <1>9 DEF Private
<1> QED
  BY <1>10 DEF v

LEMMA InsertFacts ==
  ASSUME ShadowTyped, NEW o \in Int, o \notin DOMAIN shadow, NEW object \in Objects,
         shadow' = Insert(o, object)
  PROVE  /\ ShadowTyped' /\ DOMAIN shadow' = DOMAIN shadow \cup {o} /\ shadow'[o] = object
         /\ \A x \in DOMAIN shadow : shadow'[x] = shadow[x]
         /\ ~object.isSpillSlot => Spills' = Spills /\ Plain' = Plain \cup {o}
         /\ object.isSpillSlot => Spills' = Spills \cup {o} /\ Plain' = Plain
<1>1. /\ DOMAIN shadow' = DOMAIN shadow \cup {o} /\ shadow'[o] = object
      /\ \A x \in DOMAIN shadow : shadow'[x] = shadow[x]
      /\ shadow' \in [DOMAIN shadow' -> Objects]
  BY DEF Insert, ShadowTyped
<1>2. ShadowTyped'
  <2>1. PICK n \in Nat : DOMAIN shadow \subseteq (-n) .. n
    BY DEF ShadowTyped
  <2>2. PICK m \in Nat : o \in (-m) .. m
    <3>1. CASE o >= 0
      <4>1. o \in Nat /\ o \in (-o) .. o
        BY <3>1
      <4> QED
        BY <4>1
    <3>2. CASE o < 0
      <4>1. -o \in Nat /\ o \in (-(-o)) .. (-o)
        BY <3>2
      <4> QED
        BY <4>1
    <3> QED
      BY <3>1, <3>2
  <2>3. n + m \in Nat /\ DOMAIN shadow' \subseteq (-(n + m)) .. (n + m)
    BY <1>1, <2>1, <2>2
  <2> QED
    BY <1>1, <2>3 DEF ShadowTyped
<1>3. Spills' = {x \in DOMAIN shadow' : shadow'[x].isSpillSlot} /\ Plain' = DOMAIN shadow' \ Spills'
  BY DEF Spills, Plain
<1>4. object.isSpillSlot \in BOOLEAN
  BY DEF Objects
<1>5. CASE ~object.isSpillSlot
  <2>1. Spills' = Spills
    BY <1>1, <1>3, <1>5 DEF Spills
  <2> QED
    BY <1>1, <1>2, <1>3, <1>5, <2>1 DEF Plain, Spills
<1>6. CASE object.isSpillSlot
  <2>1. Spills' = Spills \cup {o}
    BY <1>1, <1>3, <1>6 DEF Spills
  <2> QED
    BY <1>1, <1>2, <1>3, <1>6, <2>1 DEF Plain, Spills
<1> QED
  BY <1>4, <1>5, <1>6

LEMMA AllocateFacts ==
  ASSUME ShadowTyped, NEW v \in Values, NEW size \in Nat, Allocate(v, size)
  PROVE  /\ ShadowTyped' /\ Spills' = Spills
         /\ \/ Plain' = Plain
            \/ /\ v # NoValue /\ v.slot \notin DOMAIN shadow \cup {Heap}
               /\ Plain' = Plain \cup {v.slot}
         /\ DOMAIN shadow \subseteq DOMAIN shadow'
         /\ \A o \in DOMAIN shadow : shadow'[o] = shadow[o]
         /\ v # NoValue => v.slot \in DOMAIN shadow' \cup {Heap}
<1>1. CASE v = NoValue \/ v.slot \in DOMAIN shadow \cup {Heap}
  <2>1. shadow' = shadow
    BY <1>1 DEF Allocate
  <2>2. ShadowTyped' /\ Spills' = Spills /\ Plain' = Plain
    BY <2>1 DEF ShadowTyped, Spills, Plain
  <2>3. /\ DOMAIN shadow \subseteq DOMAIN shadow'
        /\ \A o \in DOMAIN shadow : shadow'[o] = shadow[o]
        /\ v # NoValue => v.slot \in DOMAIN shadow' \cup {Heap}
    BY <1>1, <2>1
  <2> QED
    BY <2>2, <2>3
<1>2. CASE ~(v = NoValue \/ v.slot \in DOMAIN shadow \cup {Heap})
  <2> DEFINE object == [size |-> size, isSpillSlot |-> FALSE]
  <2>1. shadow' = Insert(v.slot, object)
    BY <1>2 DEF Allocate
  <2>2. object \in Objects /\ v.slot \in Int /\ v.slot \notin DOMAIN shadow
        /\ ~object.isSpillSlot
    BY <1>2 DEF Objects, Values
  <2> HIDE DEF object
  <2>3. /\ ShadowTyped' /\ DOMAIN shadow' = DOMAIN shadow \cup {v.slot}
        /\ \A x \in DOMAIN shadow : shadow'[x] = shadow[x]
        /\ Spills' = Spills /\ Plain' = Plain \cup {v.slot}
    BY <2>1, <2>2, InsertFacts
  <2> QED
    BY <1>2, <2>3
<1> QED
  BY <1>1, <1>2

LEMMA NoteFacts ==
  ASSUME NEW base, NEW disp, NEW isAdjust, NEW more, Note(base, disp, isAdjust, more)
  PROVE  /\ marks \subseteq marks' /\ Unreserved(disp) \subseteq marks'
         /\ lookups \subseteq lookups'
         /\ \E l \in lookups' : l.disp = disp
<1> DEFINE k == [base |-> address[base], disp |-> disp, adjust |-> isAdjust]
<1>1. lookups' = lookups \cup {k} /\ k.disp = disp
  BY DEF Note
<1>2. marks' = marks \cup more \cup Unreserved(disp)
                 \cup (IF "released" \in marks THEN {"after release"} ELSE {})
  BY DEF Note
<1> HIDE DEF k
<1> QED
  BY <1>1, <1>2

-----------------------------------------------------------------------------
(* The steps. *)

\* An instruction whose reference is v.
LEMMA ReferenceKeepsInv ==
  ASSUME FrameInv, stage = "raise",
         NEW v \in Values, NEW size \in Nat, Allocate(v, size),
         "unreserved" \notin marks' => Private(v),
         v = NoValue \/ v.slot \in DOMAIN shadow \cup {Heap} \/ v.slot >= 0
           \/ \E l \in lookups' : l.disp = v.slot,
         marks \subseteq marks', lookups \subseteq lookups',
         todo' \in Seq(Instruction), stage' \in {"raise", "aborted"},
         value' \in [Registers -> Values],
         \A r \in Registers :
           \/ value'[r] = NoValue \/ value'[r].slot = Heap
           \/ v # NoValue /\ value'[r].slot = v.slot
           \/ \E q \in Registers : value[q] # NoValue /\ value'[r].slot = value[q].slot,
         \A r \in refs' : r \in refs \/ (r.val \in Values /\ v # NoValue /\ r.val.slot = v.slot)
  PROVE  FrameInv'
<1>1. FrameTyped /\ ShadowTyped
  BY DEF FrameInv, FrameTyped
<1>2. /\ ShadowTyped' /\ Spills' = Spills
      /\ \/ Plain' = Plain
         \/ v # NoValue /\ v.slot \notin DOMAIN shadow \cup {Heap} /\ Plain' = Plain \cup {v.slot}
      /\ DOMAIN shadow \subseteq DOMAIN shadow'
      /\ \A o \in DOMAIN shadow : shadow'[o] = shadow[o]
      /\ v # NoValue => v.slot \in DOMAIN shadow' \cup {Heap}
  BY <1>1, AllocateFacts
<1>3. /\ Spills \subseteq DOMAIN shadow
      /\ "unreserved" \in marks \/ (Heap \notin Spills /\ NoValue.slot \notin Spills)
  <2>1. SpillsBelow
    BY DEF FrameInv
  <2>2. Spills \subseteq DOMAIN shadow /\ DOMAIN shadow \subseteq Int
    BY <1>1, ShadowFacts
  <2> QED
    BY <2>1, <2>2 DEF SpillsBelow, Heap, NoValue, Ref, Nowhere, Away, PointerSize
<1>4. "unreserved" \notin marks' => "unreserved" \notin marks
  OBVIOUS
<1>5. FrameTyped'
  BY <1>1, <1>2 DEF FrameTyped
<1>6. Located'
  <2>1. \A r \in Registers : value'[r] = NoValue \/ value'[r].slot \in DOMAIN shadow' \cup {Heap}
    BY <1>2 DEF FrameInv, Located
  <2>2. \A r \in refs' : r.val.slot \in DOMAIN shadow' \cup {Heap}
    BY <1>2 DEF FrameInv, Located
  <2> QED
    BY <2>1, <2>2 DEF Located
<1>7. SpillsBelow'
  <2> SUFFICES ASSUME "unreserved" \notin marks', NEW o \in Spills
               PROVE  /\ shadow'[o].size = PointerSize /\ o + PointerSize <= 0
                      /\ \A p \in Plain' : o + PointerSize <= p
    BY <1>2 DEF SpillsBelow
  <2>1. /\ shadow[o].size = PointerSize /\ o + PointerSize <= 0
        /\ \A p \in Plain : o + PointerSize <= p
    BY <1>4 DEF FrameInv, SpillsBelow
  <2>2. Plain' = Plain \/ (Plain' = Plain \cup {v.slot} /\ o + PointerSize <= v.slot)
    BY <1>2 DEF Private
  <2> QED
    BY <1>2, <1>3, <1>4, <2>1, <2>2
<1>8. ValuesPrivate' /\ SlotsPrivate'
  <2> SUFFICES ASSUME "unreserved" \notin marks'
               PROVE  /\ \A r \in Registers : value'[r].slot \notin Spills
                      /\ \A r \in refs' : r.val.slot \notin Spills
    BY <1>2 DEF ValuesPrivate, SlotsPrivate
  <2>1. v # NoValue => v.slot \notin Spills
    BY DEF Private
  <2>2. \A r \in Registers : value[r].slot \notin Spills
    BY <1>4 DEF FrameInv, ValuesPrivate
  <2>3. \A r \in refs : r.val.slot \notin Spills
    BY <1>4 DEF FrameInv, SlotsPrivate
  <2> QED
    BY <1>3, <1>4, <2>1, <2>2, <2>3
<1>9. PlainLookedUp'
  <2>1. \A o \in Plain : o >= 0 \/ \E l \in lookups' : l.disp = o
    BY DEF FrameInv, PlainLookedUp
  <2>2. \A o \in Plain' : o >= 0 \/ \E l \in lookups' : l.disp = o
    BY <1>2, <2>1
  <2> QED
    BY <2>2 DEF PlainLookedUp
<1>10. Stuck'
  BY DEF Stuck
<1> QED
  BY <1>5, <1>6, <1>7, <1>8, <1>9, <1>10 DEF FrameInv

LEMMA UnreservedFacts ==
  ASSUME NEW disp PROVE Unreserved(disp) \in {{}, {"unreserved"}}
  BY DEF Unreserved

\* A reference through a register.
LEMMA MemRefFacts ==
  ASSUME FrameInv, NEW i \in Instruction
  PROVE  LET v == MemRefValue(i) IN
         /\ v \in Values
         /\ \/ v = NoValue \/ v.slot \in DOMAIN shadow \cup {Heap}
            \/ i.base \in {"RSP", "RBP"} /\ v.slot = i.disp
         /\ /\ "unreserved" \notin marks
            /\ i.base \in {"RSP", "RBP"} => Unreserved(i.disp) = {}
            => Private(v)
<1> DEFINE u == getStackAllocatedValue(i.base, i.disp, FALSE)
           w == getMemoryAddressExprValue(i.base, i.disp)
<1>1. i.base \in Registers /\ i.disp \in Int /\ value[i.base] \in Values /\ FrameTyped
  BY DEF Instruction, FrameInv, FrameTyped
<1>2. value[i.base] = NoValue \/ value[i.base].slot \in DOMAIN shadow \cup {Heap}
  BY <1>1 DEF FrameInv, Located
<1>3. /\ u \in Values
      /\ u = NoValue \/ u.slot \in DOMAIN shadow \cup {Heap} \/ u.slot = i.disp
  <2>1. /\ u \in Values
        /\ \/ u = NoValue
           \/ u = value[i.base]
           \/ u.slot = i.disp
           \/ u.slot \in Including(i.disp)
    BY <1>1, LookupFacts
  <2>2. Including(i.disp) \subseteq DOMAIN shadow
    BY DEF Including
  <2> HIDE DEF u
  <2> QED
    BY <1>2, <2>1, <2>2
<1>4. "unreserved" \notin marks /\ Unreserved(i.disp) = {} => Private(u)
  BY <1>1, LookupPrivate
<1>5. /\ w \in Values
      /\ w = NoValue \/ w.slot \in DOMAIN shadow \cup {Heap}
      /\ "unreserved" \notin marks => Private(w)
  <2>1. CASE value[i.base] = NoValue
    <3>1. w = NoValue
      BY <2>1 DEF getMemoryAddressExprValue
    <3> QED
      BY <1>1, <2>1, <3>1 DEF Private
  <2>2. CASE value[i.base] # NoValue
    <3>1. w = Ref(value[i.base].slot, value[i.base].add + i.disp, "add")
      BY <2>2 DEF getMemoryAddressExprValue
    <3>2. w \in Values /\ w.slot = value[i.base].slot
      BY <1>1, <3>1 DEF Ref, Values
    <3>3. "unreserved" \notin marks => w.slot \notin Spills
      BY <1>1, <3>2 DEF FrameInv, ValuesPrivate
    <3> QED
      BY <1>2, <2>2, <3>2, <3>3 DEF Private
  <2> QED
    BY <2>1, <2>2
<1>6. MemRefValue(i) = IF i.base \in {"RSP", "RBP"} /\ u # NoValue THEN u ELSE w
  BY DEF MemRefValue
<1> HIDE DEF u, w
<1> QED
  BY <1>3, <1>4, <1>5, <1>6

\* What an access or a lea does to the objects is one allocation.
LEMMA ReferFacts ==
  ASSUME FrameInv, NEW i \in Instruction, NEW more, Refer(i, more)
  PROVE  LET v == MemRefValue(i) IN
         /\ v \in Values /\ Allocate(v, i.size) /\ i.size \in Nat
         /\ "unreserved" \notin marks' => Private(v)
         /\ \/ v = NoValue \/ v.slot \in DOMAIN shadow \cup {Heap}
            \/ \E l \in lookups' : l.disp = v.slot
         /\ marks \subseteq marks' /\ lookups \subseteq lookups'
<1> DEFINE v == MemRefValue(i)
<1>1. /\ v \in Values
      /\ \/ v = NoValue \/ v.slot \in DOMAIN shadow \cup {Heap}
         \/ i.base \in {"RSP", "RBP"} /\ v.slot = i.disp
      /\ /\ "unreserved" \notin marks
         /\ i.base \in {"RSP", "RBP"} => Unreserved(i.disp) = {}
         => Private(v)
  BY MemRefFacts
<1>2. i.size \in Nat
  BY DEF Instruction
<1>3. CASE i.base \in {"RSP", "RBP"}
  <2>1. Allocate(v, i.size) /\ Note(i.base, i.disp, FALSE, more)
    BY <1>3 DEF Refer
  <2> HIDE DEF v
  <2>2. /\ marks \subseteq marks' /\ Unreserved(i.disp) \subseteq marks'
        /\ lookups \subseteq lookups'
        /\ \E l \in lookups' : l.disp = i.disp
    BY <2>1, NoteFacts
  <2>3. "unreserved" \notin marks' => "unreserved" \notin marks /\ Unreserved(i.disp) = {}
    BY <2>2, UnreservedFacts
  <2>4. \/ v = NoValue \/ v.slot \in DOMAIN shadow \cup {Heap}
        \/ \E l \in lookups' : l.disp = v.slot
    BY <1>1, <2>2
  <2>5. "unreserved" \notin marks' => Private(v)
    BY <1>1, <2>3
  <2> QED
    BY <1>1, <1>2, <2>1, <2>2, <2>4, <2>5 DEF v
<1>4. CASE i.base \notin {"RSP", "RBP"}
  <2>1. UNCHANGED <<shadow, lookups, marks>>
    BY <1>4 DEF Refer
  <2> HIDE DEF v
  <2>2. Allocate(v, i.size)
    BY <1>1, <1>4, <2>1 DEF Allocate
  <2> QED
    BY <1>1, <1>2, <1>4, <2>1, <2>2 DEF v
<1> QED
  BY <1>3, <1>4

LEMMA PushKeepsInv ==
  ASSUME FrameInv, stage = "raise", todo' \in Seq(Instruction),
         NEW i \in Instruction, raisePushInstruction(i)
  PROVE  FrameInv'
<1> DEFINE v == getStackAllocatedValue("RSP", 0, FALSE)
<1>1. "RSP" \in Registers /\ FrameTyped /\ Unreserved(0) = {} /\ 0 \in Int /\ FALSE \in BOOLEAN
  BY DEF Registers, FrameInv, Unreserved
<1>2. /\ v \in Values
      /\ v = NoValue \/ v = value["RSP"] \/ v.slot = 0 \/ v.slot \in Including(0)
  <2>1. /\ v \in Values
        /\ \/ v = NoValue \/ v = value["RSP"] \/ v.slot = 0
           \/ FALSE /\ v.slot = -0 /\ v.slot \in DOMAIN shadow
           \/ v.slot \in Including(0)
    BY <1>1, LookupFacts
  <2> QED
    BY <2>1
<1>3. Including(0) \subseteq DOMAIN shadow
  BY DEF Including
<1>4. "unreserved" \notin marks => Private(v)
  <2>1. (IF FALSE /\ 0 >= 0 THEN -0 ELSE 0) = 0
    OBVIOUS
  <2>2. Unreserved(IF FALSE /\ 0 >= 0 THEN -0 ELSE 0) = {}
    BY <1>1, <2>1
  <2> QED
    BY <1>1, <2>2, LookupPrivate
<1>5. /\ value' = [value EXCEPT !["RSP"] = v] /\ Allocate(v, PointerSize)
      /\ UNCHANGED <<refs, lookups, marks, stage>>
  BY DEF raisePushInstruction
<1> HIDE DEF v
<1>6. v = NoValue \/ v.slot \in DOMAIN shadow \cup {Heap} \/ v.slot >= 0
  BY <1>1, <1>2, <1>3 DEF FrameInv, Located
<1>7. /\ value' \in [Registers -> Values]
      /\ \A r \in Registers : value'[r] = IF r = "RSP" THEN v ELSE value[r]
  BY <1>1, <1>2, <1>5 DEF FrameTyped
<1>8. \A r \in Registers :
        \/ value'[r] = NoValue \/ value'[r].slot = Heap
        \/ v # NoValue /\ value'[r].slot = v.slot
        \/ \E q \in Registers : value[q] # NoValue /\ value'[r].slot = value[q].slot
  BY <1>7
<1>9. PointerSize \in Nat
  BY DEF PointerSize
<1> QED
  BY <1>2, <1>4, <1>5, <1>6, <1>7, <1>8, <1>9, ReferenceKeepsInv

\* An instruction that refers to nothing.
LEMMA NoReferenceKeepsInv ==
  ASSUME FrameInv, stage = "raise", todo' \in Seq(Instruction),
         UNCHANGED <<shadow, refs, lookups>>, marks \subseteq marks',
         stage' \in {"raise", "aborted"},
         value' \in [Registers -> Values],
         \A r \in Registers :
           \/ value'[r] = NoValue \/ value'[r].slot = Heap
           \/ \E q \in Registers : value[q] # NoValue /\ value'[r].slot = value[q].slot
  PROVE  FrameInv'
<1>1. NoValue \in Values /\ 2 \in Nat /\ Allocate(NoValue, 2) /\ Private(NoValue)
  BY DEF NoValue, Ref, Values, Nowhere, Away, Allocate, Private
<1> QED
  BY <1>1, ReferenceKeepsInv

LEMMA PopKeepsInv ==
  ASSUME FrameInv, stage = "raise", todo' \in Seq(Instruction),
         NEW i \in Instruction, raisePopInstruction(i)
  PROVE  FrameInv'
<1>1. UNCHANGED <<value, shadow, refs, lookups, stage>> /\ marks \subseteq marks'
  BY DEF raisePopInstruction
<1>2. value' \in [Registers -> Values]
  BY <1>1 DEF FrameInv, FrameTyped
<1> QED
  BY <1>1, <1>2, NoReferenceKeepsInv

LEMMA MovKeepsInv ==
  ASSUME FrameInv, stage = "raise", todo' \in Seq(Instruction),
         NEW i \in Instruction, raiseMoveRegToReg(i)
  PROVE  FrameInv'
<1>1. /\ UNCHANGED <<shadow, refs, lookups, marks, stage>>
      /\ value' = [value EXCEPT !["RBP"] = value["RSP"]] /\ value \in [Registers -> Values]
      /\ "RSP" \in Registers /\ "RBP" \in Registers
  BY DEF raiseMoveRegToReg, FrameInv, FrameTyped, Registers
<1>2. /\ value' \in [Registers -> Values]
      /\ \A r \in Registers : value'[r] = value[IF r = "RBP" THEN "RSP" ELSE r]
  BY <1>1
<1> QED
  BY <1>1, <1>2, NoReferenceKeepsInv

LEMMA LoadKeepsInv ==
  ASSUME FrameInv, stage = "raise", todo' \in Seq(Instruction),
         NEW i \in Instruction, raiseLoadPointer(i)
  PROVE  FrameInv'
<1> DEFINE v == Ref(Heap, 0, "load")
<1>1. /\ UNCHANGED <<shadow, refs, lookups, marks, stage>>
      /\ value' = [value EXCEPT !["RBP"] = v] /\ value \in [Registers -> Values]
  BY DEF raiseLoadPointer, FrameInv, FrameTyped
<1>2. v \in Values /\ v.slot = Heap
  BY DEF Ref, Values, Heap, Away
<1> HIDE DEF v
<1>3. /\ value' \in [Registers -> Values]
      /\ \A r \in Registers : value'[r] = IF r = "RBP" THEN v ELSE value[r]
  BY <1>1, <1>2
<1> QED
  BY <1>1, <1>2, <1>3, NoReferenceKeepsInv

LEMMA AdjustKeepsInv ==
  ASSUME FrameInv, stage = "raise", todo' \in Seq(Instruction),
         NEW i \in Instruction, raiseStackPointerAdjust(i)
  PROVE  FrameInv'
<1> DEFINE v == getStackAllocatedValue("RSP", i.disp, TRUE)
           d == IF TRUE /\ i.disp >= 0 THEN -i.disp ELSE i.disp
<1>1. "RSP" \in Registers /\ FrameTyped /\ i.disp \in Int /\ PointerSize \in Nat
  BY DEF Registers, FrameInv, Instruction, PointerSize
<1>2. /\ v \in Values
      /\ \/ v = NoValue \/ v = value["RSP"] \/ v.slot = i.disp
         \/ v.slot = -i.disp /\ v.slot \in DOMAIN shadow
         \/ v.slot \in Including(i.disp)
  BY <1>1, LookupFacts
<1>3. "unreserved" \notin marks /\ Unreserved(d) = {} => Private(v)
  BY <1>1, LookupPrivate
<1>4. Allocate(v, PointerSize) /\ UNCHANGED refs
      /\ IF v = NoValue THEN stage' = "aborted" /\ UNCHANGED value
         ELSE value' = [value EXCEPT !["RSP"] = v] /\ UNCHANGED stage
  BY DEF raiseStackPointerAdjust, Abort
<1>5. /\ marks \subseteq marks' /\ Unreserved(d) \subseteq marks' /\ lookups \subseteq lookups'
      /\ i.disp < 0 => \E l \in lookups' : l.disp = i.disp
  <2>1. CASE i.disp < 0
    <3>1. Note("RSP", i.disp, TRUE, {})
      BY <2>1 DEF raiseStackPointerAdjust
    <3>2. d = i.disp
      BY <1>1, <2>1
    <3> HIDE DEF d
    <3> QED
      BY <3>1, <3>2, NoteFacts
  <2>2. CASE ~(i.disp < 0)
    <3>1. /\ marks' = marks \cup Unreserved(-i.disp) \cup {"released"} /\ UNCHANGED lookups
          /\ d = -i.disp
      BY <1>1, <2>2 DEF raiseStackPointerAdjust
    <3> QED
      BY <2>2, <3>1
  <2> QED
    BY <2>1, <2>2
<1>6. Including(i.disp) \subseteq DOMAIN shadow
  BY DEF Including
<1> HIDE DEF v, d
<1>7. "unreserved" \notin marks' => Private(v)
  BY <1>3, <1>5, UnreservedFacts
<1>8. v = NoValue \/ v.slot \in DOMAIN shadow \cup {Heap} \/ v.slot >= 0
        \/ \E l \in lookups' : l.disp = v.slot
  BY <1>1, <1>2, <1>5, <1>6 DEF FrameInv, Located
<1>9. /\ value' \in [Registers -> Values] /\ stage' \in {"raise", "aborted"}
      /\ \A r \in Registers : value'[r] = value[r] \/ (v # NoValue /\ value'[r] = v)
  BY <1>1, <1>2, <1>4 DEF FrameTyped
<1>10. \A r \in Registers :
        \/ value'[r] = NoValue \/ value'[r].slot = Heap
        \/ v # NoValue /\ value'[r].slot = v.slot
        \/ \E q \in Registers : value[q] # NoValue /\ value'[r].slot = value[q].slot
  BY <1>9
<1> QED
  BY <1>1, <1>2, <1>4, <1>5, <1>7, <1>8, <1>9, <1>10, ReferenceKeepsInv

LEMMA AccessKeepsInv ==
  ASSUME FrameInv, stage = "raise", todo' \in Seq(Instruction),
         NEW i \in Instruction, raiseMemoryAccess(i)
  PROVE  FrameInv'
<1> DEFINE v == MemRefValue(i)
           w == getMemoryRefValue(i)
<1>1. Refer(i, {}) /\ UNCHANGED value
      /\ IF w = NoValue THEN stage' = "aborted" /\ UNCHANGED refs
         ELSE /\ refs' = refs \cup {[at |-> MachineAddress(i), size |-> i.size, val |-> w]}
              /\ UNCHANGED stage
  BY DEF raiseMemoryAccess, Abort
<1>2. /\ v \in Values /\ Allocate(v, i.size) /\ i.size \in Nat
      /\ "unreserved" \notin marks' => Private(v)
      /\ \/ v = NoValue \/ v.slot \in DOMAIN shadow \cup {Heap}
         \/ \E l \in lookups' : l.disp = v.slot
      /\ marks \subseteq marks' /\ lookups \subseteq lookups'
  BY <1>1, ReferFacts
<1>3. w = NoValue \/ (v # NoValue /\ w \in Values /\ w.slot = v.slot)
  BY <1>2 DEF getMemoryRefValue, Ref, Values, Instruction
<1> HIDE DEF v, w
<1>4. \A r \in refs' : r \in refs \/ (r.val \in Values /\ v # NoValue /\ r.val.slot = v.slot)
  BY <1>1, <1>3
<1>5. value' \in [Registers -> Values] /\ stage' \in {"raise", "aborted"}
  BY <1>1 DEF FrameInv, FrameTyped
<1>6. \A r \in Registers :
        \/ value'[r] = NoValue \/ value'[r].slot = Heap
        \/ v # NoValue /\ value'[r].slot = v.slot
        \/ \E q \in Registers : value[q] # NoValue /\ value'[r].slot = value[q].slot
  BY <1>1
<1> QED
  BY <1>2, <1>4, <1>5, <1>6, ReferenceKeepsInv

LEMMA LeaKeepsInv ==
  ASSUME FrameInv, stage = "raise", todo' \in Seq(Instruction),
         NEW i \in Instruction, raiseLEAMachineInstr(i)
  PROVE  FrameInv'
<1> DEFINE u == MemRefValue(i)
           v == LeaValue(i)
           more == IF i.index # 0 THEN {"indexed lea"} ELSE {}
           w == IF i.index # 0 /\ i.base = "RAX" THEN Ref(v.slot, v.add + i.index, "add") ELSE v
<1>1. Refer(i, more) /\ UNCHANGED refs
      /\ IF v = NoValue THEN stage' = "aborted" /\ UNCHANGED value
         ELSE value' = [value EXCEPT !["RAX"] = w] /\ UNCHANGED stage
  BY DEF raiseLEAMachineInstr, Abort
<1> HIDE DEF more
<1>2. /\ u \in Values /\ Allocate(u, i.size) /\ i.size \in Nat
      /\ "unreserved" \notin marks' => Private(u)
      /\ \/ u = NoValue \/ u.slot \in DOMAIN shadow \cup {Heap}
         \/ \E l \in lookups' : l.disp = u.slot
      /\ marks \subseteq marks' /\ lookups \subseteq lookups'
  BY <1>1, ReferFacts
<1>3. v = NoValue \/ (u # NoValue /\ w \in Values /\ w.slot = u.slot)
  <2>1. v = NoValue \/ v = u
    BY DEF LeaValue, MemRefValue
  <2> QED
    BY <1>2, <2>1 DEF Ref, Values, Instruction
<1> HIDE DEF u, v, w
<1>4. /\ value' \in [Registers -> Values] /\ stage' \in {"raise", "aborted"}
      /\ \A r \in Registers : value'[r] = value[r] \/ (v # NoValue /\ value'[r] = w)
  BY <1>1, <1>3 DEF FrameInv, FrameTyped
<1>5. \A r \in Registers :
        \/ value'[r] = NoValue \/ value'[r].slot = Heap
        \/ u # NoValue /\ value'[r].slot = u.slot
        \/ \E q \in Registers : value[q] # NoValue /\ value'[r].slot = value[q].slot
  BY <1>3, <1>4
<1>6. \A r \in refs' : r \in refs \/ (r.val \in Values /\ u # NoValue /\ r.val.slot = u.slot)
  BY <1>1
<1> QED
  BY <1>1, <1>2, <1>4, <1>5, <1>6, ReferenceKeepsInv

\* A promotion slot is put below everything there is.
LEMMA PromoteKeepsInv ==
  ASSUME FrameInv, stage = "raise", todo' \in Seq(Instruction),
         NEW i \in Instruction, promoteReachingDef(i)
  PROVE  FrameInv'
<1> DEFINE o == StackTopOffset - PointerSize
           object == [size |-> PointerSize, isSpillSlot |-> TRUE]
<1>1. /\ shadow' = Insert(o, object)
      /\ value' = IF value[i.base] = NoValue THEN value
                  ELSE [value EXCEPT ![i.base].form = "load"]
      /\ UNCHANGED <<refs, lookups, marks, stage>>
  BY DEF promoteReachingDef
<1>2. FrameTyped /\ ShadowTyped /\ i.base \in Registers
  BY DEF FrameInv, FrameTyped, Instruction
<1>3. /\ DOMAIN shadow \subseteq Int
      /\ Plain \subseteq DOMAIN shadow /\ Spills \subseteq DOMAIN shadow
      /\ StackTopOffset \in DOMAIN shadow \cup {0}
      /\ \A x \in DOMAIN shadow \cup {0} : StackTopOffset <= x
  BY <1>2, ShadowFacts DEF StackTopOffset
<1>4. /\ o \in Int /\ o \notin DOMAIN shadow /\ o + PointerSize <= 0 /\ o < 0
      /\ \A x \in DOMAIN shadow : o + PointerSize <= x
  BY <1>3 DEF PointerSize
<1>5. object \in Objects /\ object.isSpillSlot /\ object.size = PointerSize
  BY DEF Objects, PointerSize
<1> HIDE DEF o, object
<1>6. /\ ShadowTyped' /\ DOMAIN shadow' = DOMAIN shadow \cup {o} /\ shadow'[o] = object
      /\ \A x \in DOMAIN shadow : shadow'[x] = shadow[x]
      /\ Spills' = Spills \cup {o} /\ Plain' = Plain
  BY <1>1, <1>2, <1>4, <1>5, InsertFacts
<1>7. /\ value' \in [Registers -> Values]
      /\ \A r \in Registers : value'[r].slot = value[r].slot
      /\ \A r \in Registers : value[r] = NoValue => value'[r] = NoValue
  <2>1. CASE value[i.base] = NoValue
    BY <1>1, <1>2, <2>1 DEF FrameTyped
  <2>2. CASE value[i.base] # NoValue
    <3> DEFINE w == [value[i.base] EXCEPT !.form = "load"]
    <3>1. w \in Values /\ w.slot = value[i.base].slot
      BY <1>2 DEF FrameTyped, Values
    <3>2. value' = [value EXCEPT ![i.base] = w]
      BY <1>1, <2>2
    <3> HIDE DEF w
    <3> QED
      BY <1>2, <2>2, <3>1, <3>2 DEF FrameTyped
  <2> QED
    BY <2>1, <2>2
<1>8. FrameTyped'
  BY <1>1, <1>2, <1>6, <1>7 DEF FrameTyped
<1>9. Located'
  <2>1. \A r \in Registers : value'[r] = NoValue \/ value'[r].slot \in DOMAIN shadow' \cup {Heap}
    BY <1>6, <1>7 DEF FrameInv, Located
  <2>2. \A r \in refs' : r.val.slot \in DOMAIN shadow' \cup {Heap}
    BY <1>1, <1>6 DEF FrameInv, Located
  <2> QED
    BY <2>1, <2>2 DEF Located
<1>10. SpillsBelow'
  <2> SUFFICES ASSUME "unreserved" \notin marks, NEW x \in Spills \cup {o}
               PROVE  /\ shadow'[x].size = PointerSize /\ x + PointerSize <= 0
                      /\ \A p \in Plain : x + PointerSize <= p
    BY <1>1, <1>6 DEF SpillsBelow
  <2>1. CASE x = o
    BY <1>3, <1>4, <1>5, <1>6, <2>1
  <2>2. CASE x \in Spills
    BY <1>3, <1>6, <2>2 DEF FrameInv, SpillsBelow
  <2> QED
    BY <2>1, <2>2
<1>11. ValuesPrivate' /\ SlotsPrivate'
  <2> SUFFICES ASSUME "unreserved" \notin marks
               PROVE  /\ \A r \in Registers : value'[r].slot \notin Spills \cup {o}
                      /\ \A r \in refs : r.val.slot \notin Spills \cup {o}
    BY <1>1, <1>6 DEF ValuesPrivate, SlotsPrivate
  <2>1. Heap # o /\ NoValue.slot # o
    BY <1>4 DEF Heap, NoValue, Ref, Nowhere, Away
  <2>2. \A r \in Registers : value[r].slot # o
    BY <1>4, <2>1 DEF FrameInv, Located
  <2>3. \A r \in refs : r.val.slot # o
    BY <1>4, <2>1 DEF FrameInv, Located
  <2> QED
    BY <1>7, <2>2, <2>3 DEF FrameInv, ValuesPrivate, SlotsPrivate
<1>12. PlainLookedUp' /\ Stuck'
  BY <1>1, <1>6 DEF FrameInv, PlainLookedUp, Stuck
<1> QED
  BY <1>8, <1>9, <1>10, <1>11, <1>12 DEF FrameInv

LEMMA RaiseKeepsInv ==
  ASSUME FrameInv, stage = "raise", todo' \in Seq(Instruction),
         NEW i \in Instruction, Raise(i)
  PROVE  FrameInv'
<1>1. i.op \in Operations
  BY DEF Instruction
<1>2. \/ raisePushInstruction(i) \/ raisePopInstruction(i) \/ raiseMoveRegToReg(i)
      \/ raiseStackPointerAdjust(i) \/ raiseMemoryAccess(i) \/ raiseLEAMachineInstr(i)
      \/ raiseLoadPointer(i) \/ promoteReachingDef(i)
  BY <1>1 DEF Raise, Operations
<1> QED
  BY <1>2, PushKeepsInv, PopKeepsInv, MovKeepsInv, AdjustKeepsInv, AccessKeepsInv, LeaKeepsInv,
     LoadKeepsInv, PromoteKeepsInv

LEMMA LayoutKeepsInv ==
  ASSUME FrameInv, createFunctionStackFrame PROVE FrameInv'
<1>1. UNCHANGED <<todo, address, value, shadow, refs, lookups, marks>>
  BY DEF createFunctionStackFrame
<1>2. Spills' = Spills /\ Plain' = Plain /\ ShadowTyped' = ShadowTyped /\ Top' = Top
      /\ \A o : IRStackOffset(o)' = IRStackOffset(o)
  BY <1>1 DEF Spills, Plain, ShadowTyped, Top, IRStackOffset, StackFrameSize, Last
<1>3. FrameTyped' /\ Located' /\ SpillsBelow' /\ ValuesPrivate' /\ SlotsPrivate' /\ PlainLookedUp'
  BY <1>1, <1>2
  DEF FrameInv, FrameTyped, Located, SpillsBelow, ValuesPrivate, SlotsPrivate, PlainLookedUp
<1>4. Stuck'
  <2>1. CASE stage' \notin {"hung", "negative"}
    BY <2>1 DEF Stuck
  <2>2. CASE stage' \in {"hung", "negative"}
    <3>1. /\ Plain # {} /\ Stops # {}
          /\ stage' = IF Min(Stops) \in Spills THEN "hung" ELSE "negative"
      BY <2>2 DEF createFunctionStackFrame
    <3>2. Min(Stops) \in Stops
      BY <3>1, ShadowFacts DEF Stops, FrameInv, FrameTyped
    <3>3. Min(Stops) \in Spills \/ (Min(Stops) \in Plain /\ IRStackOffset(Min(Stops)) < 0)
      BY <3>2 DEF Stops, Plain
    <3>4. Min(Stops) > Top
      BY <3>2 DEF Stops
    <3> QED
      BY <1>2, <3>1, <3>3, <3>4 DEF Stuck
  <2> QED
    BY <2>1, <2>2
<1> QED
  BY <1>3, <1>4 DEF FrameInv

LEMMA InitFrameInv == ASSUME Init PROVE FrameInv
<1>1. DOMAIN shadow = {} /\ shadow \in [DOMAIN shadow -> Objects]
  BY DEF Init
<1>2. NoValue \in Values
  BY DEF NoValue, Ref, Values, Nowhere, Away
<1>3. ShadowTyped
  <2>1. 0 \in Nat /\ DOMAIN shadow \subseteq (-0) .. 0
    BY <1>1
  <2> QED
    BY <1>1, <2>1 DEF ShadowTyped
<1>4. FrameTyped
  BY <1>2, <1>3, StackFrameAssumption DEF Init, FrameTyped
<1>5. Spills = {} /\ Plain = {}
  BY <1>1 DEF Spills, Plain
<1> QED
  BY <1>4, <1>5
  DEF Init, FrameInv, Located, SpillsBelow, ValuesPrivate, SlotsPrivate, PlainLookedUp, Stuck

LEMMA NextKeepsInv == ASSUME FrameInv, [Next]_vars PROVE FrameInv'
<1>1. CASE RaisePrologue
  <2>1. /\ stage = "raise" /\ Head(todo) \in Instruction /\ todo' \in Seq(Instruction)
        /\ Raise(Head(todo))
    BY <1>1 DEF RaisePrologue, FrameInv, FrameTyped
  <2> QED
    BY <2>1, RaiseKeepsInv
<1>2. CASE RaiseBody
  <2>1. PICK i \in Instructions : Raise(i)
    BY <1>2 DEF RaiseBody
  <2>2. stage = "raise" /\ i \in Instruction /\ todo' \in Seq(Instruction)
    BY <1>2, StackFrameAssumption DEF RaiseBody, FrameInv, FrameTyped
  <2> QED
    BY <2>1, <2>2, RaiseKeepsInv
<1>3. CASE createFunctionStackFrame
  BY <1>3, LayoutKeepsInv
<1>4. CASE UNCHANGED vars
  <2>1. UNCHANGED <<todo, value, shadow, refs, lookups, marks, stage>>
    BY <1>4 DEF vars
  <2>2. Spills' = Spills /\ Plain' = Plain /\ ShadowTyped' = ShadowTyped /\ Top' = Top
        /\ \A o : IRStackOffset(o)' = IRStackOffset(o)
    BY <2>1 DEF Spills, Plain, ShadowTyped, Top, IRStackOffset, StackFrameSize, Last
  <2> QED
    BY <2>1, <2>2
    DEF FrameInv, FrameTyped, Located, SpillsBelow, ValuesPrivate, SlotsPrivate, PlainLookedUp,
        Stuck
<1> QED
  BY <1>1, <1>2, <1>3, <1>4 DEF Next

-----------------------------------------------------------------------------
(* The theorems. *)

\* If the program stays out of what lies below its objects once a promotion slot is there,
\* none of its references is to a promotion slot.
THEOREM SlotsArePrivate == Spec => []SlotsPrivate
<1>1. Init => FrameInv
  BY InitFrameInv
<1>2. FrameInv /\ [Next]_vars => FrameInv'
  BY NextKeepsInv
<1>3. FrameInv => SlotsPrivate
  BY DEF FrameInv
<1> QED
  BY <1>1, <1>2, <1>3, PTL DEF Spec

LEMMA InvCompletes == ASSUME FrameInv PROVE FrameCompletes
<1> SUFFICES ASSUME Regular, stage \in {"hung", "negative"} PROVE FALSE
  BY DEF FrameCompletes
<1>1. "unreserved" \notin marks /\ ShadowTyped /\ Plain # {}
  BY DEF Regular, FrameInv, FrameTyped, Stuck
<1>2. /\ DOMAIN shadow \subseteq Int
      /\ Plain \subseteq DOMAIN shadow /\ Spills \subseteq DOMAIN shadow
      /\ Top \in Plain /\ \A p \in Plain : Top <= p
      /\ Last \in DOMAIN shadow /\ shadow[Last].size \in Nat
  <2>1. /\ DOMAIN shadow \subseteq Int
        /\ Plain \subseteq DOMAIN shadow /\ Spills \subseteq DOMAIN shadow
        /\ Top \in Plain /\ \A p \in Plain : Top <= p
    BY <1>1, ShadowFacts DEF Top
  <2>2. Last \in DOMAIN shadow
    BY <1>1, <2>1, ShadowFacts DEF Last
  <2>3. shadow[Last] \in Objects
    BY <1>1, <2>2 DEF ShadowTyped
  <2> QED
    BY <2>1, <2>2, <2>3 DEF Objects
<1>3. CASE stage = "hung"
  <2>1. PICK o \in Spills : o > Top
    BY <1>3 DEF FrameInv, Stuck
  <2>2. o + PointerSize <= Top
    BY <1>1, <1>2 DEF FrameInv, SpillsBelow
  <2> QED
    BY <1>2, <2>1, <2>2 DEF PointerSize
<1>4. CASE stage = "negative"
  <2>1. PICK o \in Plain : o > Top /\ IRStackOffset(o) < 0
    BY <1>4 DEF FrameInv, Stuck
  <2>2. o \in Int /\ Top \in Int /\ Last \in Int
    BY <1>2
  <2>3. o < 0 /\ Last - Top + shadow[Last].size + o < 0
    BY <1>2, <2>1, <2>2 DEF IRStackOffset, StackFrameSize
  <2>4. PICK A \in Bases : Above(A) \/ (Below(A) /\ Even(A))
    BY <1>1 DEF Regular
  <2>5. CASE Below(A) /\ Even(A)
    <3> DEFINE e == Last + shadow[Last].size
    <3>1. e >= 0
      <4>1. e \in Int
        BY <1>2, <2>2
      <4>2. e = 0 \/ e > 0
        BY <2>5 DEF Even
      <4> QED
        BY <4>1, <4>2
    <3> QED
      BY <1>2, <2>1, <2>2, <2>3, <3>1
  <2>6. CASE Above(A)
    <3>1. PICK l \in lookups : l.disp = o
      BY <2>2, <2>3 DEF FrameInv, PlainLookedUp
    <3>2. PICK k \in lookups : k.disp = Top
      BY <1>2, <2>1, <2>2, <2>3 DEF FrameInv, PlainLookedUp
    <3>3. l \in Moves /\ k \in Moves
      BY <2>1, <2>2, <2>3, <2>6, <3>1, <3>2 DEF Above, References
    <3>4. l = k
      BY <2>6, <3>3 DEF Above
    <3> QED
      BY <2>1, <2>2, <3>1, <3>2, <3>4
  <2> QED
    BY <2>4, <2>5, <2>6
<1> QED
  BY <1>3, <1>4

\* The layout of a regular frame, of any size, comes to an end with offsets that are not
\* negative.
THEOREM FramesComplete == Spec => []FrameCompletes
<1>1. Init => FrameInv
  BY InitFrameInv
<1>2. FrameInv /\ [Next]_vars => FrameInv'
  BY NextKeepsInv
<1>3. FrameInv => FrameCompletes
  BY InvCompletes
<1> QED
  BY <1>1, <1>2, <1>3, PTL DEF Spec
=============================================================================
