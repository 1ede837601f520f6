----------------------------- MODULE FoldLemmas -----------------------------
(***************************************************************************)
(* Induction over data.  The induction theorems of the library take an     *)
(* operator, so induction is stated here for a set of numbers, and a fold  *)
(* of the community modules is related to the sequence of its partial      *)
(* results, about which such an induction is possible.                     *)
(***************************************************************************)
EXTENDS Integers, SequencesExt, WellFoundedInduction, TLAPS

-----------------------------------------------------------------------------
(* Natural numbers                                                         *)

Less == {ss \in Nat \X Nat : ss[1] < ss[2]}

LEMMA LessWellFounded == IsWellFoundedOn(Less, Nat)
  BY NatLessThanWellFounded DEF OpToRel, Less

(* A set with 0 that has the successor of each of its members is Nat. *)
LEMMA SetInduction ==
  ASSUME NEW S \in SUBSET Nat, 0 \in S, \A n \in S : n + 1 \in S
  PROVE  S = Nat
<1> SUFFICES ASSUME Nat \ S # {} PROVE FALSE
  OBVIOUS
<1>1. PICK x \in Nat \ S : \A y \in Nat \ S : ~(<<y, x>> \in Less)
  <2> DEFINE T == Nat \ S
  <2>1. T \subseteq Nat /\ T # {}
    OBVIOUS
  <2> HIDE DEF T
  <2> QED BY <2>1, LessWellFounded, WFMin DEF T
<1>2. x # 0 /\ x - 1 \in Nat /\ x - 1 < x
  OBVIOUS
<1>3. x - 1 \in S
  BY <1>1, <1>2 DEF Less
<1> QED BY <1>3

(* The same up to a bound. *)
LEMMA BoundedInduction ==
  ASSUME NEW n \in Nat, NEW S, 0 \in S,
         \A k \in 0 .. n - 1 : k \in S => k + 1 \in S
  PROVE  \A k \in 0 .. n : k \in S
<1> DEFINE T == {k \in Nat : k <= n => k \in S}
<1>1. T \in SUBSET Nat /\ 0 \in T
  OBVIOUS
<1>2. ASSUME NEW k \in T PROVE k + 1 \in T
  OBVIOUS
<1>3. T = Nat
  <2> HIDE DEF T
  <2> QED BY <1>1, <1>2, SetInduction
<1> QED BY <1>3

-----------------------------------------------------------------------------
(* The largest of some indices                                             *)

LEMMA LargestExists ==
  ASSUME NEW n \in Nat, NEW s \in SUBSET (1 .. n), s # {}
  PROVE  \E x \in s : \A y \in s : x >= y
<1> DEFINE S == {k \in 0 .. n : \A t \in SUBSET (1 .. k) : t # {} => \E x \in t : \A y \in t : x >= y}
<1>1. 0 \in S
  <2>1. \A t \in SUBSET (1 .. 0) : t = {}
    OBVIOUS
  <2>2. \A t \in SUBSET (1 .. 0) : t # {} => \E x \in t : \A y \in t : x >= y
    BY <2>1, Zenon
  <2> QED BY <2>2
<1>2. ASSUME NEW k \in 0 .. n - 1, k \in S PROVE k + 1 \in S
  <2>1. ASSUME NEW t \in SUBSET (1 .. k + 1), t # {} PROVE \E x \in t : \A y \in t : x >= y
    <3>1. CASE k + 1 \in t
      BY <3>1
    <3>2. CASE k + 1 \notin t
      <4>1. t \in SUBSET (1 .. k)
        BY <3>2
      <4> QED BY <1>2, <2>1, <4>1
    <3> QED BY <3>1, <3>2
  <2> QED BY <2>1
<1>3. n \in S
  <2> HIDE DEF S
  <2> QED BY <1>1, <1>2, BoundedInduction
<1> QED BY <1>3

LEMMA MaxIsLargest ==
  ASSUME NEW n \in Nat, NEW s \in SUBSET (1 .. n), s # {}
  PROVE  Max(s) \in s /\ \A y \in s : Max(s) >= y
  BY LargestExists, Zenon DEF Max

LEMMA MaxOfFirst ==
  ASSUME NEW k \in Nat \ {0}
  PROVE  Max(1 .. k) = k /\ (1 .. k) \ {Max(1 .. k)} = 1 .. k - 1
<1>1. 1 .. k \in SUBSET (1 .. k) /\ 1 .. k # {}
  OBVIOUS
<1>2. Max(1 .. k) \in 1 .. k /\ \A y \in 1 .. k : Max(1 .. k) >= y
  BY <1>1, MaxIsLargest
<1>3. Max(1 .. k) = k
  BY <1>2
<1> QED BY <1>3

-----------------------------------------------------------------------------
(* Folds                                                                   *)

(* The recursive function by which FoldLeft is defined, for a sequence of  *)
(* length n and a step F that gets the index and the result before it.     *)
IsFold(it, n, b, F) ==
  it = [s \in SUBSET (1 .. n) |->
          IF s = {} THEN b ELSE F[Max(s)][it[s \ {Max(s)}]]]

LEMMA FoldExists ==
  ASSUME NEW D, NEW b \in D, NEW n \in Nat, NEW F \in [1 .. n -> [D -> D]]
  PROVE  \E it \in [SUBSET (1 .. n) -> D] : IsFold(it, n, b, F)
<1> DEFINE S == {k \in 0 .. n : \E it \in [SUBSET (1 .. k) -> D] : IsFold(it, k, b, F)}
<1>1. 0 \in S
  <2> DEFINE z == [s \in SUBSET (1 .. 0) |-> b]
  <2>1. \A s \in SUBSET (1 .. 0) : s = {}
    OBVIOUS
  <2>2. z \in [SUBSET (1 .. 0) -> D]
    OBVIOUS
  <2>3. IsFold(z, 0, b, F)
    BY <2>1 DEF IsFold
  <2> QED BY <2>2, <2>3
<1>2. ASSUME NEW k \in 0 .. n - 1, k \in S PROVE k + 1 \in S
  <2>1. PICK it \in [SUBSET (1 .. k) -> D] : IsFold(it, k, b, F)
    BY <1>2
  <2> DEFINE up == [s \in SUBSET (1 .. k + 1) |->
                      IF k + 1 \in s THEN F[k + 1][it[s \ {k + 1}]] ELSE it[s]]
  <2>2. ASSUME NEW s \in SUBSET (1 .. k + 1)
        PROVE  up[s] = (IF s = {} THEN b ELSE F[Max(s)][up[s \ {Max(s)}]]) /\ up[s] \in D
    <3>1. CASE k + 1 \in s
      <4>1. Max(s) \in s /\ \A y \in s : Max(s) >= y
        BY <3>1, MaxIsLargest, SMTT(40)
      <4>2. Max(s) = k + 1
        <5> PICK m : m = Max(s)
          OBVIOUS
        <5>1. m \in s /\ \A y \in s : m >= y
          BY <4>1
        <5>2. m \in 1 .. k + 1 /\ m >= k + 1
          BY <3>1, <5>1
        <5> QED BY ONLY k \in 0 .. n - 1, n \in Nat, <5>2, m = Max(s)
      <4>3. PICK t : t = s \ {k + 1}
        OBVIOUS
      <4>4. t \in SUBSET (1 .. k) /\ t \in SUBSET (1 .. k + 1) /\ k + 1 \notin t
        BY <4>3
      <4>5. up[t] = it[t] /\ it[t] \in D
        BY <4>4
      <4>6. up[s] = F[k + 1][it[t]]
        BY <3>1, <4>3
      <4>7. F[k + 1] \in [D -> D] /\ s # {}
        BY <3>1
      <4> HIDE DEF up
      <4> QED BY <4>2, <4>3, <4>5, <4>6, <4>7
    <3>2. CASE k + 1 \notin s
      <4>1. s \in SUBSET (1 .. k)
        BY <3>2
      <4>2. up[s] = it[s] /\ it[s] \in D
        BY <3>2, <4>1
      <4>3. it[s] = IF s = {} THEN b ELSE F[Max(s)][it[s \ {Max(s)}]]
        BY <2>1, <4>1 DEF IsFold
      <4>4. PICK t : t = s \ {Max(s)}
        OBVIOUS
      <4>5. t \in SUBSET (1 .. k)
        BY <4>1, <4>4
      <4>6. up[t] = it[t]
        <5>1. k + 1 \notin t /\ t \in SUBSET (1 .. k + 1)
          BY <4>5
        <5> QED BY <5>1
      <4> HIDE DEF up
      <4> QED BY <4>2, <4>3, <4>4, <4>6
    <3> QED BY <3>1, <3>2
  <2>3. up \in [SUBSET (1 .. k + 1) -> D]
    BY <2>2
  <2>4. IsFold(up, k + 1, b, F)
    <3>1. \A s \in SUBSET (1 .. k + 1) : up[s] = IF s = {} THEN b ELSE F[Max(s)][up[s \ {Max(s)}]]
      BY <2>2
    <3>2. up \in [SUBSET (1 .. k + 1) -> D]
      BY <2>3
    <3> HIDE DEF up
    <3> QED BY <3>1, <3>2 DEF IsFold
  <2>5. k + 1 \in 0 .. n
    BY ONLY n \in Nat, k \in 0 .. n - 1
  <2> HIDE DEF up
  <2> QED BY <2>3, <2>4, <2>5
<1>3. \A k \in 0 .. n : k \in S
  <2> HIDE DEF S
  <2> QED BY ONLY n \in Nat, <1>1, <1>2, BoundedInduction
<1>4. n \in 0 .. n
  OBVIOUS
<1> QED BY <1>3, <1>4

(* A function that folds as F does wherever its results are in D. *)
FoldsWithin(D, n, b, F, it) ==
  /\ n \in Nat /\ b \in D /\ F \in [1 .. n -> [D -> D]]
  /\ it[{}] = b
  /\ \A s \in SUBSET (1 .. n) :
       s # {} /\ it[s \ {Max(s)}] \in D => it[s] = F[Max(s)][it[s \ {Max(s)}]]

(* Its results are in D, and are those of the steps of F in their order. *)
LEMMA FoldSteps ==
  ASSUME NEW D, NEW n, NEW b, NEW F, NEW it, FoldsWithin(D, n, b, F, it)
  PROVE  \E f \in [0 .. n -> D] :
           /\ f[0] = b /\ f[n] = it[1 .. n]
           /\ \A k \in 1 .. n : f[k] = F[k][f[k - 1]]
<1> USE DEF FoldsWithin
<1> DEFINE S == {k \in 0 .. n : it[1 .. k] \in D}
<1>1. 0 \in S
  <2>1. 1 .. 0 = {}
    OBVIOUS
  <2> QED BY <2>1
<1>2. ASSUME NEW k \in 1 .. n, it[1 .. k - 1] \in D
      PROVE  it[1 .. k] = F[k][it[1 .. k - 1]] /\ it[1 .. k] \in D
  <2>1. Max(1 .. k) = k /\ (1 .. k) \ {Max(1 .. k)} = 1 .. k - 1
    BY MaxOfFirst
  <2>2. 1 .. k \in SUBSET (1 .. n) /\ 1 .. k # {}
    BY ONLY n \in Nat, k \in 1 .. n
  <2>3. it[1 .. k] = F[k][it[1 .. k - 1]]
    BY <1>2, <2>1, <2>2
  <2> QED BY <1>2, <2>3
<1>3. ASSUME NEW k \in 0 .. n - 1, k \in S PROVE k + 1 \in S
  <2>1. k + 1 \in 1 .. n /\ (k + 1) - 1 = k
    BY ONLY n \in Nat, k \in 0 .. n - 1
  <2> QED BY <1>2, <1>3, <2>1
<1>4. \A k \in 0 .. n : k \in S
  <2> HIDE DEF S
  <2> QED BY <1>1, <1>3, BoundedInduction
<1> DEFINE f == [k \in 0 .. n |-> it[1 .. k]]
<1>5. f \in [0 .. n -> D]
  BY <1>4
<1>6. f[0] = b /\ f[n] = it[1 .. n]
  <2>1. 1 .. 0 = {}
    OBVIOUS
  <2> QED BY <2>1
<1>7. ASSUME NEW k \in 1 .. n PROVE f[k] = F[k][f[k - 1]]
  <2>1. k - 1 \in 0 .. n
    OBVIOUS
  <2> QED BY <1>2, <1>4, <2>1
<1> QED BY <1>5, <1>6, <1>7

(* f has the partial results of a fold. *)
Partial(f, D, n, b, F, it) ==
  /\ f \in [0 .. n -> D]
  /\ f[0] = b /\ f[n] = it[1 .. n]
  /\ \A k \in 1 .. n : f[k] = F[k][f[k - 1]]

LEMMA PartialExists ==
  ASSUME NEW D, NEW n, NEW b, NEW F, NEW it, FoldsWithin(D, n, b, F, it)
  PROVE  \E f : Partial(f, D, n, b, F, it)
  BY FoldSteps DEF Partial
=============================================================================
