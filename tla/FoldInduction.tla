--------------------------- MODULE FoldInduction ---------------------------
(***************************************************************************)
(* Induction over data: the least number of a set of naturals, and what a  *)
(* FoldLeft computes, step by step.  The theorem modules of the library    *)
(* state induction for a predicate, which no prover instantiates; a set of *)
(* numbers and, for folds, an operator given by INSTANCE do the same.      *)
(***************************************************************************)
EXTENDS SequencesExt, Integers, WellFoundedInduction, TLAPS

CONSTANT Op(_, _, _)    \* what is folded: from a parameter, the result so far, an element

Fold(e, base, seq) == FoldLeft(LAMBDA acc, x : Op(e, acc, x), base, seq)

(* A set of natural numbers has a least one.                               *)
LEMMA LeastNumber ==
    ASSUME NEW S, S \subseteq Nat, S # {}
    PROVE  \E n \in S : \A m \in S : n =< m
<1> DEFINE R == OpToRel(<, Nat)
<1>1. \A a, b \in Nat : <<a, b>> \in R <=> a < b
  BY DEF OpToRel
<1>2. IsWellFoundedOn(R, Nat)
  BY NatLessThanWellFounded
<1> HIDE DEF R
<1>3. PICK n \in S : \A m \in S : ~(<<m, n>> \in R)
  BY <1>2, WFMin
<1>4. \A m \in S : m \in Nat /\ n \in Nat /\ ~(m < n)
  BY <1>1, <1>3
<1>5. \A m \in S : n =< m
  BY <1>4
<1> QED
  BY <1>5

(* Induction up to a bound, for a property given as a set.                 *)
LEMMA UpTo ==
    ASSUME NEW n \in Nat, NEW S, 0 \in S,
           \A k \in 1 .. n : k - 1 \in S => k \in S
    PROVE  \A k \in 0 .. n : k \in S
<1> DEFINE Out == { k \in 0 .. n : k \notin S }
<1> SUFFICES ASSUME Out # {} PROVE FALSE
  OBVIOUS
<1>1. PICK k \in Out : \A m \in Out : k =< m
  <2>1. Out \subseteq Nat
    OBVIOUS
  <2> HIDE DEF Out
  <2> QED
    BY <2>1, LeastNumber
<1>2. k \in 1 .. n
  BY <1>1
<1>3. k - 1 \in S
  BY <1>1, <1>2
<1> QED
  BY <1>1, <1>2, <1>3

(* The greatest number of a set that is bounded.                           *)
LEMMA GreatestNumber ==
    ASSUME NEW n \in Nat, NEW S, S \subseteq 1 .. n, S # {}
    PROVE  Max(S) \in S /\ \A m \in S : m =< Max(S)
<1> DEFINE Gaps == { n - m : m \in S }
<1>1. PICK g \in Gaps : \A h \in Gaps : g =< h
  <2>1. Gaps \subseteq Nat
    <3>1. \A m \in S : n - m \in Nat
      OBVIOUS
    <3> QED
      BY <3>1
  <2>2. Gaps # {}
    OBVIOUS
  <2> HIDE DEF Gaps
  <2> QED
    BY <2>1, <2>2, LeastNumber
<1>2. PICK m \in S : g = n - m
  BY <1>1
<1>3. \A k \in S : n - m =< n - k /\ k \in Int /\ m \in Int
  BY <1>1, <1>2
<1>4. \A k \in S : k =< m
  BY <1>3
<1>5. \E x \in S : \A y \in S : x >= y
  BY <1>3, <1>4
<1>6. Max(S) \in S /\ \A y \in S : Max(S) >= y
  BY <1>5 DEF Max
<1> QED
  BY <1>6

-----------------------------------------------------------------------------
(* The recursion a fold stands for, over the subsets of 1 .. n.            *)
Iterates(g, e, base, seq, n) ==
    g = [ s \in SUBSET (1 .. n) |->
            IF s = {} THEN base ELSE Op(e, g[s \ {Max(s)}], seq[Max(s)]) ]

(* A function with the recursion of the fold exists.                        *)
LEMMA IterationExists ==
    ASSUME NEW e, NEW base, NEW seq, NEW n \in Nat
    PROVE  \E g : Iterates(g, e, base, seq, n)
<1> DEFINE S == { k \in Nat : \E g : Iterates(g, e, base, seq, k) }
<1>1. 0 \in S
  <2> DEFINE g == [ s \in SUBSET (1 .. 0) |-> base ]
  <2>1. \A s \in SUBSET (1 .. 0) : s = {}
    OBVIOUS
  <2>2. g = [ s \in SUBSET (1 .. 0) |->
                IF s = {} THEN base ELSE Op(e, g[s \ {Max(s)}], seq[Max(s)]) ]
    BY <2>1
  <2>3. Iterates(g, e, base, seq, 0)
    BY <2>2 DEF Iterates
  <2> QED
    BY <2>3
<1>2. ASSUME NEW k \in 1 .. n, k - 1 \in S PROVE k \in S
  <2>1. PICK h : Iterates(h, e, base, seq, k - 1)
    BY <1>2
  <2> DEFINE g == [ s \in SUBSET (1 .. k) |->
                      IF s = {} THEN base ELSE Op(e, h[s \ {Max(s)}], seq[Max(s)]) ]
  <2>2. ASSUME NEW s \in SUBSET (1 .. k), s # {}
        PROVE  s \ {Max(s)} \in SUBSET (1 .. k - 1)
    <3>1. s \subseteq 1 .. k /\ k \in Nat
      BY <1>2
    <3>2. Max(s) \in s /\ \A m \in s : m =< Max(s)
      BY <2>2, <3>1, GreatestNumber, Zenon
    <3>3. ASSUME NEW m \in s, m # Max(s) PROVE m \in 1 .. k - 1
      <4>1. m \in 1 .. k /\ Max(s) \in 1 .. k /\ m =< Max(s)
        BY <3>1, <3>2
      <4> HIDE DEF Max
      <4> QED
        BY <3>3, <4>1
    <3> QED
      BY <3>3
  <2>3. ASSUME NEW s \in SUBSET (1 .. k - 1) PROVE g[s] = h[s]
    <3>1. s \in SUBSET (1 .. k)
      OBVIOUS
    <3>2. h[s] = IF s = {} THEN base ELSE Op(e, h[s \ {Max(s)}], seq[Max(s)])
      BY <2>1 DEF Iterates
    <3>3. g[s] = IF s = {} THEN base ELSE Op(e, h[s \ {Max(s)}], seq[Max(s)])
      BY <3>1
    <3> QED
      BY <3>2, <3>3
  <2>4. ASSUME NEW s \in SUBSET (1 .. k), s # {}
        PROVE  g[s \ {Max(s)}] = h[s \ {Max(s)}]
    BY <2>2, <2>3, <2>4
  <2>5. Iterates(g, e, base, seq, k)
    BY <2>4, Zenon DEF Iterates
  <2> QED
    BY <2>5
<1> HIDE DEF S
<1>3. n \in S
  BY <1>1, <1>2, UpTo
<1> QED
  BY <1>3 DEF S

(* The results of a fold, one after the other.                             *)
Traces(f, e, base, seq, n) ==
    /\ f[0] = base
    /\ \A k \in 1 .. n : f[k] = Op(e, f[k - 1], seq[k])
    /\ Fold(e, base, seq) = f[n]

(* A fold over a sequence of length n is the last of n + 1 results, the     *)
(* first of which is its base, each one made from the one before.           *)
THEOREM FoldTrace ==
    ASSUME NEW e, NEW base, NEW seq, NEW n \in Nat, DOMAIN seq = 1 .. n
    PROVE  \E f : Traces(f, e, base, seq, n)
<1> DEFINE iter == CHOOSE g : Iterates(g, e, base, seq, n)
           f == [ k \in 0 .. n |-> iter[1 .. k] ]
<1>1. Fold(e, base, seq) = iter[1 .. n]
  BY Zenon DEF Fold, FoldLeft, MapThenFoldSet, Iterates
<1>2. Iterates(iter, e, base, seq, n)
  BY IterationExists, Zenon
<1> HIDE DEF iter
<1>3. ASSUME NEW k \in 1 .. n
      PROVE  iter[1 .. k] = Op(e, iter[1 .. k - 1], seq[k])
  <2>1. /\ \A m \in 1 .. k : m \in 1 .. n
        /\ k \in 1 .. k /\ k \in Nat
    OBVIOUS
  <2>2. 1 .. k \in SUBSET (1 .. n) /\ 1 .. k # {} /\ 1 .. k \subseteq 1 .. k
    BY <2>1, Zenon
  <2>3. Max(1 .. k) = k
    <3>1. Max(1 .. k) \in 1 .. k /\ \A m \in 1 .. k : m =< Max(1 .. k)
      BY <2>1, <2>2, GreatestNumber
    <3> QED
      BY <3>1
  <2>4. (1 .. k) \ {k} = 1 .. k - 1
    OBVIOUS
  <2>5. iter[1 .. k] = Op(e, iter[(1 .. k) \ {Max(1 .. k)}], seq[Max(1 .. k)])
    BY <1>2, <2>2 DEF Iterates
  <2> QED
    BY <2>3, <2>4, <2>5
<1>4. iter[1 .. 0] = base
  <2>1. 1 .. 0 = {} /\ {} \in SUBSET (1 .. n)
    OBVIOUS
  <2> QED
    BY <1>2, <2>1 DEF Iterates
<1>5. f[0] = base /\ \A k \in 1 .. n : f[k] = Op(e, f[k - 1], seq[k])
  <2>1. ASSUME NEW k \in 1 .. n
        PROVE  f[k] = iter[1 .. k] /\ f[k - 1] = iter[1 .. k - 1]
    OBVIOUS
  <2>2. f[0] = iter[1 .. 0]
    OBVIOUS
  <2> HIDE DEF f
  <2> QED
    BY <1>3, <1>4, <2>1, <2>2
<1>6. f[n] = iter[1 .. n]
  OBVIOUS
<1> QED
  BY <1>1, <1>5, <1>6 DEF Traces
=============================================================================
