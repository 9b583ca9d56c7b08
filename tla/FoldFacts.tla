------------------------------ MODULE FoldFacts ------------------------------
(***************************************************************************)
(* Folds over a sequence, for proofs: what a left fold of the community    *)
(* modules computes, step by step.  The operator that is folded and what   *)
(* it keeps are constants, so that a module that reasons about a fold of   *)
(* its own instantiates this one with them.                                *)
(***************************************************************************)
EXTENDS Integers, Sequences, Folds, WellFoundedInduction, TLAPS

CONSTANTS
    Op(_, _, _),    \* Op(p, a, x): what the fold makes of a and the next x
    Good(_, _, _)   \* Good(p, n, a): what a is after n steps

Greatest(S) == CHOOSE x \in S : \A y \in S : x >= y

\* FoldLeft of the community modules, spelled out: an instance of this module
\* then brings no more definitions than these.
Folded(p, base, seq) ==
  MapThenFoldSet(LAMBDA x, a : Op(p, a, x), base, LAMBDA i : seq[i], Greatest, DOMAIN seq)

-----------------------------------------------------------------------------
\* Induction over the naturals, for a set: the form in which a fact that is
\* no operator can be cited.
THEOREM SetInduction ==
  ASSUME NEW S, 0 \in S, \A n \in Nat : n \in S => n + 1 \in S
  PROVE  Nat \subseteq S
<1> SUFFICES ASSUME Nat \ S # {} PROVE FALSE
  OBVIOUS
<1> DEFINE R == {ss \in Nat \X Nat : ss[1] < ss[2]}
<1>1. IsWellFoundedOn(R, Nat)
  BY NatLessThanWellFounded, Zenon DEF OpToRel
<1>2. PICK x \in Nat \ S : \A y \in Nat \ S : ~(<<y, x>> \in R)
  BY <1>1, WFMin, Zenon
<1>3. x # 0 /\ x - 1 \in Nat /\ <<x - 1, x>> \in R
  OBVIOUS
<1>4. x - 1 \in S
  BY <1>2, <1>3
<1> QED BY <1>3, <1>4

\* A set of naturals that is not empty has a least member.
THEOREM LeastOf ==
  ASSUME NEW S \in SUBSET Nat, S # {}
  PROVE  \E x \in S : \A y \in S : x <= y
<1> DEFINE R == {ss \in Nat \X Nat : ss[1] < ss[2]}
<1>1. IsWellFoundedOn(R, Nat)
  BY NatLessThanWellFounded, Zenon DEF OpToRel
<1>2. PICK x \in S : \A y \in S : ~(<<y, x>> \in R)
  BY <1>1, WFMin, Zenon
<1>3. \A y \in S : ~(y < x)
  BY <1>2
<1> QED BY <1>3

\* A part of 1..n that is not empty has a greatest member.
THEOREM GreatestOf ==
  ASSUME NEW n \in Nat, NEW s \in SUBSET (1..n), s # {}
  PROVE  \E x \in s : \A y \in s : x >= y
<1> DEFINE S == {k \in Nat : \A t \in SUBSET (1..k) : t # {} => \E x \in t : \A y \in t : x >= y}
<1>1. 0 \in S
  <2>1. \A t \in SUBSET (1..0) : t = {}
    OBVIOUS
  <2> QED BY <2>1
<1>2. ASSUME NEW k \in Nat, k \in S PROVE k + 1 \in S
  <2> SUFFICES ASSUME NEW t \in SUBSET (1..(k + 1)), t # {} PROVE \E x \in t : \A y \in t : x >= y
    OBVIOUS
  <2>1. CASE k + 1 \in t
    BY <2>1
  <2>2. CASE k + 1 \notin t
    <3>1. t \in SUBSET (1..k)
      BY <2>2
    <3> QED BY <3>1, <1>2
  <2> QED BY <2>1, <2>2
<1> HIDE DEF S
<1>3. n \in S
  BY <1>1, <1>2, SetInduction
<1> QED BY <1>3 DEF S

\* Greatest finds it.
LEMMA GreatestOfPart ==
  ASSUME NEW n \in Nat, NEW s \in SUBSET (1..n), s # {}
  PROVE  Greatest(s) \in s /\ \A y \in s : y <= Greatest(s)
  BY GreatestOf DEF Greatest

-----------------------------------------------------------------------------
\* g gives the values a fold passes through.
Steps(p, base, seq, g) ==
  /\ g[0] = base
  /\ \A i \in 1..Len(seq) : g[i] = Op(p, g[i - 1], seq[i])

\* A left fold is where its steps lead to: the fold is defined over the parts
\* of the sequence's domain, and of these it visits 1..n, 1..n-1 and so on.
THEOREM FoldSteps ==
  ASSUME NEW p, NEW base, NEW X, NEW seq \in Seq(X)
  PROVE  \E g : Steps(p, base, seq, g) /\ Folded(p, base, seq) = g[Len(seq)]
<1> DEFINE eq(h, m) == h = [s \in SUBSET (1..m) |->
                              IF s = {} THEN base ELSE Op(p, h[s \ {Greatest(s)}], seq[Greatest(s)])]
           S == {m \in Nat : \E h : eq(h, m)}
           n == Len(seq)
           D == DOMAIN seq
<1>0. n \in Nat /\ D = 1..n
  OBVIOUS
<1>1. 0 \in S
  <2> DEFINE h == [s \in SUBSET (1..0) |-> base]
  <2>1. \A s \in SUBSET (1..0) : s = {}
    OBVIOUS
  <2>2. eq(h, 0)
    BY <2>1
  <2> HIDE DEF h
  <2> QED BY <2>2
<1>2. ASSUME NEW m \in Nat, m \in S PROVE m + 1 \in S
  <2>1. PICK h : eq(h, m)
    BY <1>2
  <2> DEFINE e == [s \in SUBSET (1..(m + 1)) |->
                     IF s = {} THEN base ELSE Op(p, h[s \ {Greatest(s)}], seq[Greatest(s)])]
  <2>2. ASSUME NEW s \in SUBSET (1..(m + 1)), s # {}
        PROVE  s \ {Greatest(s)} \in SUBSET (1..m)
    <3>1. Greatest(s) \in s /\ \A y \in s : y <= Greatest(s)
      BY <2>2, m + 1 \in Nat, GreatestOfPart
    <3>2. SUFFICES ASSUME NEW y \in s \ {Greatest(s)} PROVE y \in 1..m
      OBVIOUS
    <3>3. y \in 1..(m + 1) /\ y <= Greatest(s) /\ y # Greatest(s) /\ Greatest(s) \in 1..(m + 1)
      BY <3>1, <3>2
    <3> HIDE DEF eq
    <3> QED BY <3>3
  <2>3. \A t \in SUBSET (1..m) : t \in SUBSET (1..(m + 1)) /\ e[t] = h[t]
    <3> TAKE t \in SUBSET (1..m)
    <3>1. t \in SUBSET (1..(m + 1))
      OBVIOUS
    <3>2. h[t] = IF t = {} THEN base ELSE Op(p, h[t \ {Greatest(t)}], seq[Greatest(t)])
      BY <2>1
    <3> QED BY <3>1, <3>2
  <2>4. eq(e, m + 1)
    <3>1. \A s \in SUBSET (1..(m + 1)) : s # {} => h[s \ {Greatest(s)}] = e[s \ {Greatest(s)}]
      BY <2>2, <2>3
    <3> QED BY <3>1
  <2> HIDE DEF e, eq
  <2> QED BY <2>4
<1>3. n \in S
  <2> HIDE DEF S
  <2> QED BY <1>0, <1>1, <1>2, SetInduction
<1> DEFINE iter == CHOOSE h : eq(h, n)
<1>4. eq(iter, n)
  BY <1>3
<1>5. Folded(p, base, seq) = iter[D]
  BY <1>0, Zenon DEF Folded, MapThenFoldSet
<1> HIDE DEF iter
<1> DEFINE g == [i \in 0..n |-> iter[1..i]]
<1>6. Steps(p, base, seq, g)
  <2>1. g[0] = base
    BY <1>0, <1>4
  <2>2. ASSUME NEW i \in 1..n PROVE g[i] = Op(p, g[i - 1], seq[i])
    <3>1. i \in Nat /\ 1..i \in SUBSET (1..n) /\ 1..i # {}
      <4> HIDE DEF n, D, eq, g
      <4>1. i \in Nat /\ i <= n /\ i >= 1
        BY <1>0
      <4> QED BY <4>1, <1>0
    <3>2. Greatest(1..i) = i
      <4>1. Greatest(1..i) \in 1..i /\ \A y \in 1..i : y <= Greatest(1..i)
        BY <3>1, GreatestOfPart
      <4> QED BY <4>1, <3>1
    <3>3. (1..i) \ {i} = 1..(i - 1)
      BY <3>1
    <3>4. iter[1..i] = Op(p, iter[1..(i - 1)], seq[i])
      BY <3>1, <3>2, <3>3, <1>4
    <3> QED BY <3>4, <1>0
  <2> QED BY <2>1, <2>2 DEF Steps
<1>7. g[n] = iter[D]
  BY <1>0
<1> HIDE DEF g
<1> QED BY <1>5, <1>6, <1>7, Zenon

\* What the base is, and each step keeps, the fold is.
THEOREM FoldKeeps ==
  ASSUME NEW p, NEW base, NEW X, NEW seq \in Seq(X), Good(p, 0, base),
         \A i \in 1..Len(seq) : \A a : Good(p, i - 1, a) => Good(p, i, Op(p, a, seq[i]))
  PROVE  Good(p, Len(seq), Folded(p, base, seq))
<1>1. PICK g : Steps(p, base, seq, g) /\ Folded(p, base, seq) = g[Len(seq)]
  BY FoldSteps
<1> DEFINE S == {m \in Nat : m <= Len(seq) => Good(p, m, g[m])}
<1>2. 0 \in S
  BY <1>1 DEF Steps
<1>3. ASSUME NEW m \in Nat, m \in S PROVE m + 1 \in S
  <2> SUFFICES ASSUME m + 1 <= Len(seq) PROVE Good(p, m + 1, g[m + 1])
    OBVIOUS
  <2>1. m + 1 \in 1..Len(seq) /\ (m + 1) - 1 = m
    OBVIOUS
  <2>2. g[m + 1] = Op(p, g[m], seq[m + 1])
    BY <1>1, <2>1 DEF Steps
  <2>3. Good(p, m, g[m])
    BY <1>3
  <2> QED BY <2>1, <2>2, <2>3
<1> HIDE DEF S
<1>4. Len(seq) \in S
  BY <1>2, <1>3, SetInduction
<1> QED BY <1>1, <1>4 DEF S
=============================================================================
