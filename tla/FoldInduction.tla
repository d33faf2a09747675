---------------------------- MODULE FoldInduction ----------------------------
(***************************************************************************)
(* Induction for FoldLeft: what holds of the base, and is kept by each     *)
(* application of the operator, holds of the result.  The models fold      *)
(* where the code has a loop over an array, so this is the rule for loop   *)
(* invariants.                                                             *)
(*                                                                         *)
(* The operator and the invariant are constants of this module; a proof    *)
(* instantiates it with the ones it is about.  Each has an argument for    *)
(* what else it speaks of.                                                 *)
(***************************************************************************)
EXTENDS Naturals, Sequences, SequencesExt, FiniteSets, FiniteSetsExt, WellFoundedInduction, TLAPS

CONSTANTS Op(_, _, _), \* the operator: of its own argument, what is folded, the element
          P(_, _, _)   \* the invariant: of its context, how many are done, what is folded

Fold(arg, base, seq) == FoldLeft(LAMBDA x, y : Op(arg, x, y), base, seq)

\* A set of numbers that is not empty has a least one.
LEMMA LeastElement ==
  ASSUME NEW Bad \in SUBSET Nat, Bad # {}
  PROVE  \E n \in Bad : \A m \in Bad : n <= m
<1> DEFINE R == {p \in Nat \X Nat : p[1] < p[2]}
<1>1. IsWellFoundedOn(R, Nat)
  BY NatLessThanWellFounded, Zenon DEF OpToRel
<1> HIDE DEF R
<1>2. PICK n \in Bad : \A m \in Bad : <<m, n>> \notin R
  BY <1>1, WFMin
<1>3. ASSUME NEW m \in Bad PROVE n <= m
  <2>1. n \in Nat /\ m \in Nat
    OBVIOUS
  <2>2. m < n => <<m, n>> \in R
    BY <2>1 DEF R
  <2> QED
    BY <1>2, <2>1, <2>2
<1> QED
  BY <1>3

LEMMA MinIsLeast ==
  ASSUME NEW S \in SUBSET Nat, S # {}
  PROVE  Min(S) \in S /\ \A n \in S : Min(S) <= n
<1>1. \E x \in S : \A y \in S : x =< y
  BY LeastElement
<1> QED
  BY <1>1 DEF Min

LEMMA MaxOfInterval ==
  ASSUME NEW n \in Nat, n # 0
  PROVE  Max(1..n) = n /\ (1..n) \ {n} = 1..(n - 1)
<1>1. n \in 1..n /\ \A y \in 1..n : n >= y
  OBVIOUS
<1>2. \A x \in 1..n : (\A y \in 1..n : x >= y) => x = n
  OBVIOUS
<1>3. Max(1..n) = n
  BY <1>1, <1>2 DEF Max
<1>4. (1..n) \ {n} = 1..(n - 1)
  OBVIOUS
<1> QED
  BY <1>3, <1>4

\* Of a set of the first n numbers with n in it, n is the greatest.
LEMMA MaxIsLast ==
  ASSUME NEW n \in Nat, n # 0, NEW s \in SUBSET (1..n), n \in s
  PROVE  Max(s) = n
<1>1. \A y \in s : n >= y
  OBVIOUS
<1>2. \A x \in s : (\A y \in s : x >= y) => x = n
  OBVIOUS
<1> QED
  BY <1>1, <1>2 DEF Max

\* The recursive function of FoldLeft, over the first n elements.
Solves(f, arg, base, seq, n) ==
  f = [s \in SUBSET (1..n) |->
         IF s = {} THEN base ELSE Op(arg, f[s \ {Max(s)}], seq[Max(s)])]

\* A solution for the first n - 1 elements extends to the first n.
LEMMA SolutionGrows ==
  ASSUME NEW arg, NEW base, NEW seq, NEW n \in Nat, n # 0, NEW f, Solves(f, arg, base, seq, n - 1)
  PROVE  \E g : Solves(g, arg, base, seq, n)
<1> DEFINE g == [s \in SUBSET (1..n) |->
                   IF n \in s THEN Op(arg, f[s \ {n}], seq[n]) ELSE f[s]]
<1>1. (1..n) \ {n} = 1..(n - 1)
  BY MaxOfInterval
<1>2. ASSUME NEW s \in SUBSET (1..n)
      PROVE  g[s] = IF s = {} THEN base ELSE Op(arg, g[s \ {Max(s)}], seq[Max(s)])
  <2>1. CASE n \in s
    <3>1. Max(s) = n
      BY <2>1, MaxIsLast
    <3>2. g[s \ {n}] = f[s \ {n}]
      OBVIOUS
    <3>3. g[s] = Op(arg, f[s \ {n}], seq[n])
      BY <2>1
    <3> QED
      BY <2>1, <3>1, <3>2, <3>3
  <2>2. CASE n \notin s
    <3>1. s \in SUBSET (1..(n - 1))
      BY <2>2, <1>1
    <3>2. g[s] = f[s]
      BY <2>2
    <3>3. f[s] = IF s = {} THEN base ELSE Op(arg, f[s \ {Max(s)}], seq[Max(s)])
      BY <3>1 DEF Solves
    <3>4. g[s \ {Max(s)}] = f[s \ {Max(s)}]
      BY <2>2
    <3> QED
      BY <3>2, <3>3, <3>4
  <2> QED
    BY <2>1, <2>2
<1>3. g = [s \in SUBSET (1..n) |->
             IF s = {} THEN base ELSE Op(arg, g[s \ {Max(s)}], seq[Max(s)])]
  BY <1>2
<1> QED
  BY <1>3 DEF Solves

LEMMA SolutionExists ==
  ASSUME NEW arg, NEW base, NEW seq
  PROVE  \A n \in Nat : \E f : Solves(f, arg, base, seq, n)
<1> DEFINE Bad == {n \in Nat : ~\E f : Solves(f, arg, base, seq, n)}
<1>1. SUFFICES ASSUME Bad # {} PROVE FALSE
  OBVIOUS
<1>2. PICK n \in Bad : \A m \in Bad : n <= m
  BY <1>1, LeastElement
<1>3. CASE n = 0
  <2> DEFINE f == [s \in SUBSET (1..0) |-> base]
  <2>1. f = [s \in SUBSET (1..0) |->
               IF s = {} THEN base ELSE Op(arg, f[s \ {Max(s)}], seq[Max(s)])]
    <3>1. \A s \in SUBSET (1..0) : s = {}
      OBVIOUS
    <3> QED
      BY <3>1
  <2> QED
    BY <1>3, <2>1 DEF Solves
<1>4. CASE n # 0
  <2>1. \E f : Solves(f, arg, base, seq, n - 1)
    <3>1. n - 1 \in Nat /\ ~(n <= n - 1)
      BY <1>4
    <3> QED
      BY <1>2, <3>1
  <2> QED
    BY <2>1, <1>4, SolutionGrows
<1> QED
  BY <1>3, <1>4

(* What holds of the base when nothing is done, and of the result of Op for
   i elements when it holds for i - 1, holds of the fold of the sequence.   *)
THEOREM FoldLeftInduction ==
  ASSUME NEW ctx, NEW arg, NEW base, NEW n \in Nat, NEW seq, DOMAIN seq = 1..n,
         P(ctx, 0, base),
         \A i \in 1..n : \A x : P(ctx, i - 1, x) => P(ctx, i, Op(arg, x, seq[i]))
  PROVE  P(ctx, n, Fold(arg, base, seq))
<1> DEFINE f == CHOOSE g : Solves(g, arg, base, seq, n)
<1>1. Fold(arg, base, seq) = f[1..n]
  BY DEF Fold, FoldLeft, MapThenFoldSet, Solves
<1>2. f = [s \in SUBSET (1..n) |->
             IF s = {} THEN base ELSE Op(arg, f[s \ {Max(s)}], seq[Max(s)])]
  <2>1. \E g : Solves(g, arg, base, seq, n)
    BY SolutionExists
  <2>2. Solves(f, arg, base, seq, n)
    BY <2>1, Zenon
  <2> HIDE DEF f
  <2> QED
    BY <2>2 DEF Solves
<1> HIDE DEF f
<1> DEFINE Bad == {k \in 0..n : ~P(ctx, k, f[1..k])}
<1>3. SUFFICES ASSUME Bad # {} PROVE FALSE
  BY <1>1
<1>4. PICK k \in Bad : \A j \in Bad : k <= j
  <2>1. Bad \in SUBSET Nat
    OBVIOUS
  <2> QED
    BY <1>3, <2>1, LeastElement
<1>5. CASE k = 0
  <2>1. f[1..0] = base
    BY <1>2
  <2> QED
    BY <1>4, <1>5, <2>1
<1>6. CASE k # 0
  <2>1. k \in 1..n /\ 1..k \in SUBSET (1..n) /\ 1..k # {}
    <3>1. k \in 0..n
      OBVIOUS
    <3> HIDE DEF Bad
    <3> QED
      BY <3>1, <1>6
  <2>2. Max(1..k) = k /\ (1..k) \ {k} = 1..(k - 1)
    BY <2>1, MaxOfInterval
  <2>3. f[1..k] = Op(arg, f[1..(k - 1)], seq[k])
    BY <1>2, <2>1, <2>2
  <2>4. P(ctx, k - 1, f[1..(k - 1)])
    <3>1. k - 1 \in 0..n /\ ~(k <= k - 1)
      BY <2>1
    <3> QED
      BY <1>4, <3>1
  <2> QED
    BY <1>4, <2>1, <2>3, <2>4
<1> QED
  BY <1>5, <1>6
==============================================================================
