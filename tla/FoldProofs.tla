----------------------------- MODULE FoldProofs -----------------------------
(***************************************************************************)
(* What a fold over a sequence computes, for any operator: the lemma that  *)
(* the parser's loops need.  Op is a parameter of the module because a     *)
(* lemma cannot have one; q stands for what the operator depends on.       *)
(***************************************************************************)
EXTENDS Integers, Folds, WellFoundedInduction, TLAPS

CONSTANT Op(_, _, _)

Most(s) == CHOOSE x \in s : \A y \in s : x >= y

(* FoldLeft of SequencesExt, which every instance would bring along. *)
Fold(q, base, seq) ==
  MapThenFoldSet(LAMBDA x, y : Op(q, y, x), base, LAMBDA i : seq[i], LAMBDA s : Most(s),
                 DOMAIN seq)

(* The values st[0], st[1], ... that a fold passes through. *)
Passes(q, base, seq, n, st) ==
  st[0] = base /\ \A i \in 1 .. n : st[i] = Op(q, st[i - 1], seq[i])

LessThan == {ss \in Nat \X Nat : ss[1] < ss[2]}

LEMMA LeastElement ==
  ASSUME NEW T \in SUBSET Nat, T # {}
  PROVE  \E x \in T : \A y \in T : x <= y
<1>1. LessThan = OpToRel(<, Nat)
  BY DEF OpToRel, LessThan
<1>2. IsWellFoundedOn(LessThan, Nat)
  BY <1>1, NatLessThanWellFounded
<1>3. PICK x \in T : \A y \in T : ~ (<<y, x>> \in LessThan)
  BY <1>2, WFMin
<1>4. ASSUME NEW y \in T PROVE x <= y
  <2>1. ~ (<<y, x>> \in LessThan)
    BY <1>3
  <2> QED
    BY <2>1 DEF LessThan
<1> QED
  BY <1>4

(* Induction over the natural numbers, for a set. *)
LEMMA CountUp ==
  ASSUME NEW S, 0 \in S, \A n \in Nat : n \in S => n + 1 \in S
  PROVE  \A n \in Nat : n \in S
<1> SUFFICES ASSUME Nat \ S # {} PROVE FALSE
  OBVIOUS
<1>1. PICK x \in Nat \ S : \A y \in Nat \ S : x <= y
  BY LeastElement
<1>2. x - 1 \in Nat
  BY <1>1
<1>3. x - 1 \in S
  BY <1>1, <1>2
<1> QED
  BY <1>1, <1>2, <1>3

(* The greatest index is taken first. *)
LEMMA Greatest ==
  ASSUME NEW k \in Nat, NEW s \in SUBSET (1 .. k + 1), k + 1 \in s
  PROVE  Most(s) = k + 1
<1>1. \A x \in s : k + 1 >= x
  OBVIOUS
<1>2. \A x \in s : (\A y \in s : x >= y) => x = k + 1
  OBVIOUS
<1> QED
  BY <1>1, <1>2 DEF Most

(* FoldLeft as the states it passes through, one per element. *)
LEMMA FoldStates ==
  ASSUME NEW q, NEW base, NEW seq, NEW n \in Nat, DOMAIN seq = 1 .. n
  PROVE  \E st : Passes(q, base, seq, n, st) /\ Fold(q, base, seq) = st[n]
<1> DEFINE Taking(g, s) == IF s = {} THEN base
                         ELSE Op(q, g[s \ {Most(s)}], seq[Most(s)])
           Upto(k) == \E g : g = [s \in SUBSET (1 .. k) |-> Taking(g, s)]
           K == {k \in Nat : Upto(k)}
<1>1. 0 \in K
  <2>1. PICK g : g = [s \in SUBSET (1 .. 0) |-> base]
    OBVIOUS
  <2>2. \A s \in SUBSET (1 .. 0) : Taking(g, s) = base
    OBVIOUS
  <2> QED
    BY <2>1, <2>2
<1>2. ASSUME NEW k \in Nat, k \in K PROVE k + 1 \in K
  <2>1. PICK g : g = [s \in SUBSET (1 .. k) |-> Taking(g, s)]
    BY <1>2
  <2>2. PICK h : h = [s \in SUBSET (1 .. k + 1) |->
                        IF k + 1 \in s THEN Op(q, g[s \ {k + 1}], seq[k + 1]) ELSE g[s]]
    OBVIOUS
  <2>3. ASSUME NEW s \in SUBSET (1 .. k + 1) PROVE h[s] = Taking(h, s)
    <3>1. CASE k + 1 \in s
      <4>1. Most(s) = k + 1
        BY <3>1, Greatest
      <4>2. s \ {k + 1} \in SUBSET (1 .. k + 1) /\ k + 1 \notin s \ {k + 1}
        OBVIOUS
      <4>3. h[s \ {k + 1}] = g[s \ {k + 1}]
        BY <2>2, <4>2
      <4>4. h[s] = Op(q, g[s \ {k + 1}], seq[k + 1])
        BY <2>2, <3>1
      <4> QED
        BY <3>1, <4>1, <4>3, <4>4
    <3>2. CASE k + 1 \notin s
      <4>1. s \in SUBSET (1 .. k)
        BY <3>2
      <4>2. h[s] = g[s] /\ g[s] = Taking(g, s)
        BY <2>1, <2>2, <3>2, <4>1
      <4>3. s # {} => h[s \ {Most(s)}] = g[s \ {Most(s)}]
        <5>1. s \ {Most(s)} \in SUBSET (1 .. k + 1) /\ k + 1 \notin s \ {Most(s)}
          BY <3>2
        <5> QED
          BY <2>2, <5>1
      <4> QED
        BY <4>2, <4>3
    <3> QED
      BY <3>1, <3>2
  <2> HIDE DEF Taking
  <2>4. h = [s \in SUBSET (1 .. k + 1) |-> Taking(h, s)]
    BY <2>2, <2>3
  <2> QED
    BY <2>4
<1>3. Upto(n)
  <2> HIDE DEF K
  <2>1. \A k \in Nat : k \in K
    BY <1>1, <1>2, CountUp
  <2> QED
    BY <2>1 DEF K
<1> DEFINE iter == CHOOSE g : g = [s \in SUBSET (1 .. n) |-> Taking(g, s)]
<1>4. iter = [s \in SUBSET (1 .. n) |-> Taking(iter, s)]
  <2> HIDE DEF Taking
  <2> QED
    BY <1>3
<1>5. Fold(q, base, seq) = iter[1 .. n]
  BY DEF Fold, MapThenFoldSet
<1> HIDE DEF iter
<1> DEFINE st == [i \in 0 .. n |-> iter[1 .. i]]
<1>6. st[0] = base
  <2>1. {} \in SUBSET (1 .. n) /\ 1 .. 0 = {}
    OBVIOUS
  <2> QED
    BY <1>4, <2>1
<1>7. ASSUME NEW i \in 1 .. n PROVE st[i] = Op(q, st[i - 1], seq[i])
  <2>1. 1 .. i \in SUBSET (1 .. n) /\ 1 .. i # {}
    OBVIOUS
  <2>2. Most(1 .. i) = i
    <3>1. i - 1 \in Nat /\ i - 1 + 1 = i
      OBVIOUS
    <3>2. 1 .. i \in SUBSET (1 .. i - 1 + 1) /\ i - 1 + 1 \in 1 .. i
      OBVIOUS
    <3> QED
      BY <3>1, <3>2, Greatest
  <2>3. (1 .. i) \ {i} = 1 .. i - 1
    OBVIOUS
  <2>4. iter[1 .. i] = Op(q, iter[1 .. i - 1], seq[i])
    BY <1>4, <2>1, <2>2, <2>3
  <2> QED
    BY <2>4
<1>8. st[n] = iter[1 .. n]
  OBVIOUS
<1> HIDE DEF st
<1> QED
  BY <1>5, <1>6, <1>7, <1>8 DEF Passes
=============================================================================
