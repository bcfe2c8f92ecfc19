-------------------------- MODULE AclReview_proofs --------------------------
(***************************************************************************)
(* Theorems about AclReview for every set of rules, forms, addresses and   *)
(* ports: what a request is drawn on, what it predicts, what its page      *)
(* shows, what the agent makes of its plan, and what the verification      *)
(* tells.                                                                  *)
(*                                                                         *)
(* AclText is written with folds, minima and maxima, and one function      *)
(* defined by itself.  The first lemmas show that these exist and what     *)
(* they return, by the least element of a set of naturals; then come       *)
(* lemmas on the lines of a configuration, the inductive invariant         *)
(* History, and the theorems.                                              *)
(***************************************************************************)
EXTENDS AclReview, AclTable_proofs, SequenceTheorems, WellFoundedInduction, TLAPS

(* A set of naturals that is not empty has a least element.                *)
LEMMA WellOrdered ==
  ASSUME NEW T, T \subseteq Nat, T # {}
  PROVE  \E x \in T : \A y \in T : x <= y
<1> DEFINE R == {ss \in Nat \X Nat : ss[1] < ss[2]}
<1>1. IsWellFoundedOn(R, Nat)
  BY NatLessThanWellFounded DEF OpToRel
<1> HIDE DEF R
<1>2. PICK x \in T : \A y \in T : ~ (<<y, x>> \in R)
  BY <1>1, WFMin
<1>3. \A y \in T : ~ (y < x)
  <2> TAKE y \in T
  <2>1. ~ (<<y, x>> \in R)
    BY <1>2
  <2>2. <<y, x>> \in Nat \X Nat /\ <<y, x>>[1] = y /\ <<y, x>>[2] = x
    OBVIOUS
  <2>3. QED
    BY <2>1, <2>2 DEF R
<1>4. x \in Nat /\ \A y \in T : y \in Nat
  OBVIOUS
<1>5. QED
  BY <1>3, <1>4

(* Induction, on a set: what holds 0 and is closed under successor holds   *)
(* every natural number.                                                   *)
LEMMA Induction ==
  ASSUME NEW T, 0 \in T, \A k \in Nat : k \in T => k + 1 \in T
  PROVE  Nat \subseteq T
<1> DEFINE Out == {k \in Nat : k \notin T}
<1>1. CASE Out = {}
  BY <1>1
<1>2. CASE Out # {}
  <2>1. PICK x \in Out : \A y \in Out : x <= y
    <3> HIDE DEF Out
    <3>1. Out \subseteq Nat
      BY DEF Out
    <3>2. QED
      BY <1>2, <3>1, WellOrdered
  <2>2. x \in Nat \ {0} /\ x \notin T
    OBVIOUS
  <2>3. x - 1 \in Nat /\ x - 1 + 1 = x /\ ~ (x <= x - 1)
    BY <2>2
  <2>4. x - 1 \in T
    BY <2>1, <2>3
  <2>5. QED
    BY <2>2, <2>3, <2>4
<1>3. QED
  BY <1>1, <1>2

(* The same up to a bound.                                                 *)
LEMMA BoundedInduction ==
  ASSUME NEW n \in Nat, NEW T, 0 \in T, \A k \in 0..n : k < n /\ k \in T => k + 1 \in T
  PROVE  0..n \subseteq T
<1> DEFINE U == {k \in Nat : k <= n => k \in T}
<1>1. 0 \in U
  OBVIOUS
<1>2. \A k \in Nat : k \in U => k + 1 \in U
  OBVIOUS
<1>3. Nat \subseteq U
  <2> HIDE DEF U
  <2>1. QED
    BY <1>1, <1>2, Induction
<1>4. QED
  BY <1>3

(* The greatest and the least element of a finite set of numbers.          *)
LEMMA LeastIs ==
  ASSUME NEW T, T \subseteq Nat, T # {}
  PROVE  Min(T) \in T /\ \A y \in T : Min(T) <= y
<1>1. \E x \in T : \A y \in T : x <= y
  BY WellOrdered
<1>2. QED
  BY <1>1 DEF Min

(* The greatest element of a bounded set of numbers is the one Max chooses. *)
LEMMA GreatestIs ==
  ASSUME NEW n \in Nat, NEW T, T \subseteq 0..n, T # {}
  PROVE  Max(T) \in T /\ \A y \in T : Max(T) >= y
<1> DEFINE U == {n - y : y \in T}
<1>1. U \subseteq Nat /\ U # {}
  <2>1. \A y \in T : n - y \in Nat
    OBVIOUS
  <2>2. QED
    BY <2>1
<1>2. PICK x \in U : \A y \in U : x <= y
  <2> HIDE DEF U
  <2>1. QED
    BY <1>1, WellOrdered
<1>3. PICK z \in T : x = n - z
  OBVIOUS
<1>4. \A y \in T : n - z <= n - y
  BY <1>2, <1>3
<1>5. z \in T /\ \A y \in T : z >= y
  <2>1. \A y \in T : y \in 0..n
    OBVIOUS
  <2>2. QED
    BY <1>4, <2>1
<1>6. QED
  BY <1>5 DEF Max

(* The greatest of the first k numbers, and the rest of them.              *)
LEMMA UpTo ==
  ASSUME NEW k \in Nat \ {0}
  PROVE  Max(1..k) = k /\ (1..k) \ {k} = 1..k - 1 /\ 1..k # {}
<1>1. 1..k \subseteq 0..k /\ 1..k # {} /\ k \in 1..k /\ k \in Nat
  OBVIOUS
<1>2. Max(1..k) \in 1..k /\ Max(1..k) >= k
  BY <1>1, GreatestIs
<1>3. QED
  BY <1>1, <1>2

(* Small facts about intervals and short sequences.                        *)
LEMMA OneMore ==
  ASSUME NEW k \in Nat
  PROVE  1..k + 1 = (1..k) \cup {k + 1}
<1>1. \A x : x \in 1..k + 1 <=> x \in 1..k \/ x = k + 1
  OBVIOUS
<1>2. QED
  BY <1>1

(* One line, and two lines one after the other.                            *)
LEMMA ShortConcat ==
  ASSUME NEW r, NEW c
  PROVE  <<r>> \o <<>> = <<r>> /\ <<r>> \o <<c>> = <<r, c>>
<1> DEFINE S == {r, c}
           one == <<r>>
           two == <<c>>
           both == <<r, c>>
<1>1. one \in Seq(S) /\ two \in Seq(S) /\ both \in Seq(S)
  OBVIOUS
<1>2. Len(one) = 1 /\ Len(two) = 1 /\ Len(both) = 2
  OBVIOUS
<1>3. one[1] = r /\ two[1] = c /\ both[1] = r /\ both[2] = c
  OBVIOUS
<1> HIDE DEF S, one, two, both
<1>4. one \o <<>> = one
  BY <1>1, ConcatEmptySeq
<1>5. one \o two = both
  <2>1. /\ one \o two \in Seq(S) /\ Len(one \o two) = 2
        /\ \A i \in 1..2 : (one \o two)[i] = IF i <= 1 THEN one[i] ELSE two[i - 1]
    <3>1. /\ one \o two \in Seq(S) /\ Len(one \o two) = Len(one) + Len(two)
          /\ \A i \in 1..Len(one) + Len(two) :
               (one \o two)[i] = IF i <= Len(one) THEN one[i] ELSE two[i - Len(one)]
      BY <1>1, ConcatProperties
    <3>2. Len(one) + Len(two) = 2
      BY <1>2
    <3>3. QED
      BY <1>2, <3>1, <3>2
  <2>2. (one \o two)[1] = r /\ (one \o two)[2] = c
    <3>1. 1 \in 1..2 /\ 2 \in 1..2 /\ 1 <= 1 /\ ~ (2 <= 1) /\ 2 - 1 = 1
      OBVIOUS
    <3>2. QED
      BY <1>3, <2>1, <3>1
  <2>3. \A i \in 1..2 : i = 1 \/ i = 2
    OBVIOUS
  <2>4. \A i \in 1..Len(both) : both[i] = (one \o two)[i]
    BY <1>2, <1>3, <2>2, <2>3
  <2>5. QED
    BY <1>1, <1>2, <2>1, <2>4, SeqEqual
<1>6. QED
  BY <1>4, <1>5 DEF one, two, both

(* The fold of the library takes the elements of a set one by one, in the  *)
(* order pick gives; it is defined for every step.                         *)
Folds(f, n, base, step, pick) ==
  \A s \in SUBSET (1..n) :
    f[s] = IF s = {} THEN base ELSE step[<<f[s \ {pick[s]}], pick[s]>>]

(* A fold exists for every step function.                                  *)
LEMMA FoldExists ==
  ASSUME NEW V, NEW base \in V, NEW n \in Nat, NEW step \in [V \X (1..n) -> V],
         NEW pick, \A s \in SUBSET (1..n) : s # {} => pick[s] \in s
  PROVE  \E f \in [SUBSET (1..n) -> V] : Folds(f, n, base, step, pick)
<1> DEFINE All == SUBSET (1..n)
           Rest(s) == s \ {pick[s]}
           Eq(f, s) == f[s] = IF s = {} THEN base ELSE step[<<f[Rest(s)], pick[s]>>]
           T == {k \in 0..n : \E f \in [All -> V] :
                                \A s \in All : Cardinality(s) <= k => Eq(f, s)}
<1>1. \A s \in All : /\ IsFiniteSet(s) /\ Cardinality(s) \in 0..n
                     /\ Cardinality(s) = 0 <=> s = {}
  <2> TAKE s \in All
  <2>1. IsFiniteSet(1..n) /\ Cardinality(1..n) = n
    BY FS_Interval
  <2>2. IsFiniteSet(s) /\ Cardinality(s) <= Cardinality(1..n)
    BY <2>1, FS_Subset
  <2>3. Cardinality(s) \in Nat
    BY <2>2, FS_CardinalityType
  <2>4. Cardinality(s) = 0 <=> s = {}
    BY <2>2, FS_EmptySet
  <2>5. QED
    BY <2>1, <2>2, <2>3, <2>4
<1>2. \A s \in All : s # {} => /\ Rest(s) \in All /\ pick[s] \in 1..n
                               /\ Cardinality(Rest(s)) = Cardinality(s) - 1
  <2> TAKE s \in All
  <2> HAVE s # {}
  <2>1. pick[s] \in s /\ IsFiniteSet(s)
    BY <1>1
  <2>2. Cardinality(Rest(s)) = Cardinality(s) - 1
    BY <2>1, FS_RemoveElement
  <2>3. QED
    BY <2>1, <2>2
<1>3. 0 \in T
  <2> DEFINE g == [s \in All |-> base]
  <2>1. g \in [All -> V] /\ \A s \in All : s = {} => g[s] = base
    OBVIOUS
  <2> HIDE DEF g
  <2>2. \A s \in All : Cardinality(s) <= 0 => s = {}
    BY <1>1
  <2>3. \A s \in All : Cardinality(s) <= 0 => Eq(g, s)
    <3> HIDE DEF All
    <3>1. QED
      BY <2>1, <2>2
  <2> HIDE DEF All, Eq
  <2>4. \E f \in [All -> V] : \A s \in All : Cardinality(s) <= 0 => Eq(f, s)
    BY <2>1, <2>3
  <2>5. 0 \in 0..n
    OBVIOUS
  <2>6. QED
    BY <2>4, <2>5, Zenon
<1>4. \A k \in 0..n : k < n /\ k \in T => k + 1 \in T
  <2> TAKE k \in 0..n
  <2> HAVE k < n /\ k \in T
  <2>1. PICK f \in [All -> V] : \A s \in All : Cardinality(s) <= k => Eq(f, s)
    <3> HIDE DEF All, Eq
    <3>1. QED
      OBVIOUS
  <2> DEFINE g == [s \in All |-> IF Cardinality(s) = k + 1
                                 THEN step[<<f[Rest(s)], pick[s]>>] ELSE f[s]]
  <2>2. g \in [All -> V]
    <3>1. \A s \in All : s # {} => <<f[Rest(s)], pick[s]>> \in V \X (1..n)
      <4> HIDE DEF All, Rest
      <4>1. QED
        BY <1>2
    <3>2. \A s \in All : Cardinality(s) = k + 1 => s # {}
      BY <1>1
    <3> HIDE DEF All, Rest
    <3>3. QED
      BY <3>1, <3>2
  <2>3. \A s \in All : g[s] = IF Cardinality(s) = k + 1
                              THEN step[<<f[Rest(s)], pick[s]>>] ELSE f[s]
    <3> HIDE DEF All, Rest
    <3>1. QED
      OBVIOUS
  <2> HIDE DEF g
  <2>4. \A s \in All : Cardinality(s) <= k + 1 => Eq(g, s)
    <3> SUFFICES ASSUME NEW s \in All, Cardinality(s) <= k + 1 PROVE Eq(g, s)
      OBVIOUS
    <3>1. s # {} => Cardinality(Rest(s)) <= k
      BY <1>1, <1>2
    <3>2. s # {} => Rest(s) \in All
      BY <1>2
    <3> HIDE DEF All, Rest
    <3>3. s # {} => g[Rest(s)] = f[Rest(s)]
      <4>1. ASSUME s # {} PROVE Cardinality(Rest(s)) # k + 1
        <5>1. Cardinality(Rest(s)) \in 0..n
          BY <1>1, <3>2, <4>1
        <5>2. QED
          BY <3>1, <4>1, <5>1
      <4>2. QED
        BY <2>3, <3>2, <4>1
    <3>4. CASE Cardinality(s) = k + 1
      <4>1. s # {}
        BY <3>4, <1>1
      <4>2. g[s] = step[<<f[Rest(s)], pick[s]>>]
        BY <2>3, <3>4
      <4>3. QED
        BY <4>1, <4>2, <3>3
    <3>5. CASE Cardinality(s) # k + 1
      <4>1. Cardinality(s) <= k
        <5>1. Cardinality(s) \in 0..n
          BY <1>1
        <5>2. QED
          BY <5>1, <3>5
      <4>2. g[s] = f[s] /\ Eq(f, s)
        BY <2>3, <3>5, <4>1, <2>1
      <4>3. QED
        BY <4>2, <3>3
    <3>6. QED
      BY <3>4, <3>5
  <2> HIDE DEF All, Eq
  <2>5. \E h \in [All -> V] : \A s \in All : Cardinality(s) <= k + 1 => Eq(h, s)
    BY <2>2, <2>4
  <2>6. k + 1 \in 0..n
    OBVIOUS
  <2>7. QED
    BY <2>5, <2>6, Zenon
<1>5. n \in T
  <2> HIDE DEF T
  <2>1. QED
    BY <1>3, <1>4, BoundedInduction
<1>6. PICK f \in [All -> V] : \A s \in All : Cardinality(s) <= n => Eq(f, s)
  <2> HIDE DEF All, Eq
  <2>1. QED
    BY <1>5
<1>7. \A s \in All : Eq(f, s)
  <2> HIDE DEF All, Eq
  <2>1. QED
    BY <1>1, <1>6
<1>8. Folds(f, n, base, step, pick)
  BY <1>7 DEF Folds
<1>9. QED
  <2> HIDE DEF Eq
  <2>1. QED
    BY <1>8

(* A fold from the left, by the greatest index, is a run over the indices. *)
Runs(run, n, base, step) ==
  run[0] = base /\ \A k \in 1..n : run[k] = step[<<run[k - 1], k>>]

Unrolls(iter, V, n, base, step) ==
  /\ iter[{}] = base
  /\ \A s \in SUBSET (1..n) :
       s # {} /\ iter[s \ {Max(s)}] \in V => iter[s] = step[<<iter[s \ {Max(s)}], Max(s)>>]

RunOf(run, iter, n, base, step) == Runs(run, n, base, step) /\ iter[1..n] = run[n]

(* A fold from the left is the last state of a run.                        *)
LEMMA FoldRun ==
  ASSUME NEW V, NEW base \in V, NEW n \in Nat, NEW step \in [V \X (1..n) -> V],
         NEW iter, Unrolls(iter, V, n, base, step)
  PROVE  \E run \in [0..n -> V] : RunOf(run, iter, n, base, step)
<1> USE DEF Unrolls, RunOf
<1> DEFINE run == [k \in 0..n |-> iter[1..k]]
<1>1. \A k \in 0..n : run[k] = iter[1..k]
  OBVIOUS
<1>2. run[0] = base
  <2>1. 1..0 = {} /\ 0 \in 0..n
    OBVIOUS
  <2> HIDE DEF run
  <2>2. QED
    BY <1>1, <2>1
<1>3. ASSUME NEW k \in 1..n, run[k - 1] \in V
      PROVE  run[k] = step[<<run[k - 1], k>>] /\ run[k] \in V
  <2>1. k \in Nat \ {0} /\ 1..k \in SUBSET (1..n) /\ k \in 0..n /\ k - 1 \in 0..n
    OBVIOUS
  <2>2. Max(1..k) = k /\ (1..k) \ {k} = 1..k - 1 /\ 1..k # {}
    BY <2>1, UpTo
  <2>3. run[k] = iter[1..k] /\ run[k - 1] = iter[1..k - 1]
    BY <2>1, <1>1
  <2> HIDE DEF run
  <2>4. iter[1..k] = step[<<iter[1..k - 1], k>>]
    BY <1>3, <2>1, <2>2, <2>3
  <2>5. <<run[k - 1], k>> \in V \X (1..n)
    BY <1>3
  <2>6. QED
    BY <2>3, <2>4, <2>5
<1> HIDE DEF run
<1> DEFINE T == {k \in 0..n : run[k] \in V}
<1>4. 0..n \subseteq T
  <2>1. 0 \in T
    BY <1>2
  <2>2. \A k \in 0..n : k < n /\ k \in T => k + 1 \in T
    <3> TAKE k \in 0..n
    <3> HAVE k < n /\ k \in T
    <3>1. k + 1 \in 1..n /\ k + 1 - 1 = k /\ k + 1 \in 0..n /\ run[k] \in V
      OBVIOUS
    <3> DEFINE j == k + 1
    <3>2. j \in 1..n /\ run[j - 1] \in V
      BY <3>1
    <3> HIDE DEF j
    <3>3. run[j] \in V
      BY <1>3, <3>2
    <3>4. QED
      BY <3>1, <3>3 DEF j
  <2>3. QED
    <3> HIDE DEF T
    <3>1. QED
      BY <2>1, <2>2, BoundedInduction
<1>5. run \in [0..n -> V]
  <2>1. \A k \in 0..n : run[k] \in V
    BY <1>4
  <2>2. run = [k \in 0..n |-> run[k]]
    BY DEF run
  <2>3. QED
    BY <2>1, <2>2
<1>6. Runs(run, n, base, step)
  <2>1. \A k \in 1..n : run[k - 1] \in V
    BY <1>4
  <2>2. QED
    BY <1>2, <1>3, <2>1 DEF Runs
<1>7. QED
  BY <1>1, <1>5, <1>6

(* A fold from the right, by the least index, runs downwards.              *)
RunsDown(run, n, base, step) ==
  run[n + 1] = base /\ \A k \in 1..n : run[k] = step[<<run[k + 1], k>>]

UnrollsDown(iter, V, n, base, step) ==
  /\ iter[{}] = base
  /\ \A s \in SUBSET (1..n) :
       s # {} /\ iter[s \ {Min(s)}] \in V => iter[s] = step[<<iter[s \ {Min(s)}], Min(s)>>]

RunDownOf(run, iter, n, base, step) ==
  RunsDown(run, n, base, step) /\ iter[1..n] = run[1]

(* A fold from the right is the last state of a run that counts down.      *)
LEMMA FoldRunDown ==
  ASSUME NEW V, NEW base \in V, NEW n \in Nat, NEW step \in [V \X (1..n) -> V],
         NEW iter, UnrollsDown(iter, V, n, base, step)
  PROVE  \E run \in [1..n + 1 -> V] : RunDownOf(run, iter, n, base, step)
<1> USE DEF UnrollsDown, RunDownOf
<1> DEFINE run == [k \in 1..n + 1 |-> iter[k..n]]
<1>1. \A k \in 1..n + 1 : run[k] = iter[k..n]
  OBVIOUS
<1>2. run[n + 1] = base
  <2>1. n + 1..n = {} /\ n + 1 \in 1..n + 1
    OBVIOUS
  <2> HIDE DEF run
  <2>2. QED
    BY <1>1, <2>1
<1>3. ASSUME NEW k \in 1..n, run[k + 1] \in V
      PROVE  run[k] = step[<<run[k + 1], k>>] /\ run[k] \in V
  <2>1. k..n \in SUBSET (1..n) /\ k \in 1..n + 1 /\ k + 1 \in 1..n + 1
    OBVIOUS
  <2>2. Min(k..n) = k
    <3>1. k..n \subseteq Nat /\ k \in k..n
      OBVIOUS
    <3>2. Min(k..n) \in k..n /\ Min(k..n) <= k
      BY <3>1, LeastIs
    <3>3. QED
      BY <3>2
  <2>3. (k..n) \ {k} = k + 1..n /\ k..n # {}
    OBVIOUS
  <2>4. run[k] = iter[k..n] /\ run[k + 1] = iter[k + 1..n]
    BY <2>1, <1>1
  <2> HIDE DEF run
  <2>5. iter[k..n] = step[<<iter[k + 1..n], k>>]
    BY <1>3, <2>1, <2>2, <2>3, <2>4
  <2>6. <<run[k + 1], k>> \in V \X (1..n)
    BY <1>3
  <2>7. QED
    BY <2>4, <2>5, <2>6
<1> HIDE DEF run
<1> DEFINE T == {k \in 0..n : run[n + 1 - k] \in V}
<1>4. 0..n \subseteq T
  <2>1. 0 \in T
    BY <1>2
  <2>2. \A k \in 0..n : k < n /\ k \in T => k + 1 \in T
    <3> TAKE k \in 0..n
    <3> HAVE k < n /\ k \in T
    <3>1. /\ n + 1 - (k + 1) \in 1..n /\ n + 1 - (k + 1) + 1 = n + 1 - k
          /\ k + 1 \in 0..n /\ run[n + 1 - k] \in V
      OBVIOUS
    <3>2. run[n + 1 - (k + 1)] \in V
      BY <1>3, <3>1
    <3>3. QED
      BY <3>1, <3>2
  <2>3. QED
    <3> HIDE DEF T
    <3>1. QED
      BY <2>1, <2>2, BoundedInduction
<1>5. \A k \in 1..n + 1 : run[k] \in V
  <2> TAKE k \in 1..n + 1
  <2>1. n + 1 - k \in 0..n /\ n + 1 - (n + 1 - k) = k
    OBVIOUS
  <2>2. n + 1 - k \in T
    BY <1>4, <2>1
  <2>3. QED
    BY <2>1, <2>2
<1>6. run \in [1..n + 1 -> V]
  <2>1. run = [k \in 1..n + 1 |-> run[k]]
    BY DEF run
  <2>2. QED
    BY <1>5, <2>1
<1>7. RunsDown(run, n, base, step)
  BY <1>2, <1>3, <1>5 DEF RunsDown
<1>8. run[1] = iter[1..n]
  BY <1>1
<1>9. QED
  BY <1>6, <1>7, <1>8

(* The greatest and the least of some indices.                             *)
LEMMA PickGreatest ==
  ASSUME NEW n \in Nat
  PROVE  \A s \in SUBSET (1..n) : s # {} => Max(s) \in s
<1> TAKE s \in SUBSET (1..n)
<1> HAVE s # {}
<1>1. s \subseteq 0..n
  OBVIOUS
<1>2. QED
  BY <1>1, GreatestIs

(* A fold from the left that is defined everywhere.                        *)
Solves(f, n, base, step) ==
  /\ f[{}] = base
  /\ \A s \in SUBSET (1..n) : s # {} => f[s] = step[<<f[s \ {Max(s)}], Max(s)>>]

(* Such a fold exists.                                                      *)
LEMMA FoldSolved ==
  ASSUME NEW V, NEW base \in V, NEW n \in Nat, NEW step \in [V \X (1..n) -> V]
  PROVE  \E f \in [SUBSET (1..n) -> V] : Solves(f, n, base, step)
<1> DEFINE pick == [s \in SUBSET (1..n) |-> Max(s)]
<1>1. \A s \in SUBSET (1..n) : pick[s] = Max(s)
  OBVIOUS
<1>2. \A s \in SUBSET (1..n) : s # {} => pick[s] \in s
  <2> HIDE DEF pick
  <2>1. QED
    BY <1>1, PickGreatest
<1> HIDE DEF pick
<1>3. PICK f \in [SUBSET (1..n) -> V] : Folds(f, n, base, step, pick)
  BY <1>2, FoldExists
<1>4. f[{}] = base
  <2>1. {} \in SUBSET (1..n)
    OBVIOUS
  <2>2. QED
    BY <1>3, <2>1 DEF Folds
<1>5. \A s \in SUBSET (1..n) : s # {} => f[s] = step[<<f[s \ {Max(s)}], Max(s)>>]
  BY <1>1, <1>3 DEF Folds
<1>6. Solves(f, n, base, step)
  BY <1>4, <1>5 DEF Solves
<1>7. QED
  BY <1>6

(* A run over 0..n exists for every step.                                  *)
LEMMA RunExists ==
  ASSUME NEW V, NEW base \in V, NEW n \in Nat, NEW step \in [V \X (1..n) -> V]
  PROVE  \E run \in [0..n -> V] : Runs(run, n, base, step)
<1>1. PICK f \in [SUBSET (1..n) -> V] : Solves(f, n, base, step)
  BY FoldSolved
<1>2. Unrolls(f, V, n, base, step)
  BY <1>1 DEF Solves, Unrolls
<1>3. \E run \in [0..n -> V] : RunOf(run, f, n, base, step)
  BY <1>2, FoldRun
<1>4. QED
  BY <1>3 DEF RunOf

(* The texts of several blocks, one after the other.                       *)
Joins(run, blocks) ==
  run[0] = <<>> /\ \A k \in DOMAIN blocks : run[k] = run[k - 1] \o blocks[k]

(* FlattenSeq is the last text of such a run.                               *)
LEMMA FlattenRun ==
  ASSUME NEW S, NEW C \in Nat, NEW blocks \in [1..C -> Seq(S)]
  PROVE  \E run \in [0..C -> Seq(S)] : Joins(run, blocks) /\ FlattenSeq(blocks) = run[C]
<1> DEFINE V == Seq(S)
           step == [p \in V \X (1..C) |-> p[1] \o blocks[p[2]]]
<1>1. <<>> \in V /\ step \in [V \X (1..C) -> V]
  <2>1. \A p \in V \X (1..C) : p[1] \in V /\ blocks[p[2]] \in V
    OBVIOUS
  <2>2. \A x, y \in V : x \o y \in V
    OBVIOUS
  <2> HIDE DEF V
  <2>3. step \in [V \X (1..C) -> V]
    BY <2>1, <2>2
  <2>4. QED
    BY <2>3 DEF V
<1>2. PICK run \in [0..C -> V] : Runs(run, C, <<>>, step)
  <2> HIDE DEF V, step
  <2>1. QED
    BY <1>1, RunExists
<1>3. run[0] = <<>> /\ \A k \in 1..C : run[k] = run[k - 1] \o blocks[k]
  <2>1. run[0] = <<>> /\ \A k \in 1..C : run[k] = step[<<run[k - 1], k>>]
    BY <1>2 DEF Runs
  <2>2. ASSUME NEW k \in 1..C PROVE step[<<run[k - 1], k>>] = run[k - 1] \o blocks[k]
    <3>1. run[k - 1] \in V
      <4> HIDE DEF V
      <4>1. QED
        OBVIOUS
    <3> DEFINE p == <<run[k - 1], k>>
    <3>2. p \in V \X (1..C) /\ p[1] = run[k - 1] /\ p[2] = k
      BY <3>1
    <3> HIDE DEF p, V
    <3>3. step[p] = p[1] \o blocks[p[2]]
      BY <3>2
    <3>4. QED
      BY <3>2, <3>3 DEF p
  <2>3. QED
    BY <2>1, <2>2
<1>4. DOMAIN blocks = 1..C /\ Len(blocks) = C
  OBVIOUS
<1> DEFINE flatten == CHOOSE f : f = [i \in 1..C |-> IF i = 1 THEN blocks[i]
                                                     ELSE f[i - 1] \o blocks[i]]
<1>5. CASE C = 0
  <2>1. blocks = <<>> /\ FlattenSeq(blocks) = blocks
    BY <1>4, <1>5 DEF FlattenSeq
  <2>2. QED
    BY <1>2, <1>3, <1>4, <1>5, <2>1 DEF Joins
<1>6. CASE C # 0
  <2>1. FlattenSeq(blocks) = flatten[C]
    BY <1>4, <1>6 DEF FlattenSeq
  <2> DEFINE g == [i \in 1..C |-> run[i]]
             Next1(f, i) == IF i = 1 THEN blocks[i] ELSE f[i - 1] \o blocks[i]
  <2> HIDE DEF V, step, flatten
  <2>a. run[1] = blocks[1]
    <3>1. blocks[1] \in Seq(S) /\ 1 \in 1..C /\ 1 - 1 = 0
      BY <1>6
    <3>2. run[1] = run[1 - 1] \o blocks[1]
      BY <1>3, <3>1
    <3>3. <<>> \o blocks[1] = blocks[1]
      BY <3>1, ConcatEmptySeq
    <3>4. QED
      BY <1>3, <3>1, <3>2, <3>3
  <2>2. \A i \in 1..C : run[i] = Next1(g, i)
    <3> TAKE i \in 1..C
    <3>1. CASE i = 1
      BY <2>a, <3>1
    <3>2. CASE i # 1
      <4>1. i - 1 \in 1..C
        BY <3>2
      <4>2. g[i - 1] = run[i - 1]
        BY <4>1
      <4>3. run[i] = run[i - 1] \o blocks[i]
        BY <1>3
      <4> HIDE DEF g
      <4>4. QED
        BY <3>2, <4>2, <4>3
    <3>3. QED
      BY <3>1, <3>2
  <2>3. g = [i \in 1..C |-> Next1(g, i)]
    <3>1. g = [i \in 1..C |-> run[i]]
      BY SMTT(60)
    <3> HIDE DEF g, Next1
    <3>2. QED
      BY <2>2, <3>1
  <2>4. flatten = [i \in 1..C |-> Next1(flatten, i)]
    <3> HIDE DEF g
    <3>1. QED
      BY <2>3 DEF flatten
  <2> HIDE DEF flatten, g
  <2>5. \A i \in 1..C : flatten[i] = Next1(flatten, i)
    BY <2>4
  <2> DEFINE T == {k \in 0..C : k # 0 => flatten[k] = run[k]}
  <2>6. 0..C \subseteq T
    <3>1. 0 \in T
      OBVIOUS
    <3>2. \A k \in 0..C : k < C /\ k \in T => k + 1 \in T
      <4> TAKE k \in 0..C
      <4> HAVE k < C /\ k \in T
      <4> DEFINE j == k + 1
      <4>1. j \in 1..C /\ j \in 0..C /\ (j # 1 => flatten[j - 1] = run[j - 1])
        OBVIOUS
      <4> HIDE DEF j
      <4>2. flatten[j] = run[j]
        <5>1. flatten[j] = Next1(flatten, j)
          BY <2>5, <4>1
        <5>2. run[j] = run[j - 1] \o blocks[j]
          BY <1>3, <4>1
        <5>3. QED
          BY <2>a, <4>1, <5>1, <5>2
      <4>3. QED
        BY <4>1, <4>2 DEF j
    <3>3. QED
      <4> HIDE DEF T
      <4>1. QED
        BY <3>1, <3>2, BoundedInduction
  <2>7. flatten[C] = run[C]
    BY <1>6, <2>6
  <2>8. QED
    BY <1>2, <1>3, <1>4, <2>1, <2>7 DEF Joins, V
<1>7. QED
  BY <1>5, <1>6

(* Numbers lists every rule number once, in ascending order.               *)
LEMMA NumbersAre ==
  /\ Cardinality(RuleIds) \in Nat
  /\ Numbers \in [1..Cardinality(RuleIds) -> RuleIds]
  /\ \A n \in RuleIds : \E i \in 1..Cardinality(RuleIds) : Numbers[i] = n
  /\ \A i, j \in 1..Cardinality(RuleIds) : i < j => Numbers[i] < Numbers[j]
<1> DEFINE C == Cardinality(RuleIds)
           Below(n) == {m \in RuleIds : m < n}
           rank == [n \in RuleIds |-> Cardinality(Below(n))]
<1>0. C \in Nat /\ IsFiniteSet(RuleIds) /\ RuleIds \subseteq Nat
  BY FS_CardinalityType, TableAssumption
<1>1. \A n \in RuleIds : IsFiniteSet(Below(n)) /\ Cardinality(Below(n)) \in 0..C - 1
  <2> TAKE n \in RuleIds
  <2>1. Below(n) \in SUBSET RuleIds /\ n \notin Below(n)
    BY <1>0
  <2> HIDE DEF Below
  <2>2. IsFiniteSet(Below(n)) /\ Cardinality(Below(n)) <= C /\ Cardinality(Below(n)) # C
    BY <1>0, <2>1, FS_Subset
  <2>3. Cardinality(Below(n)) \in Nat
    BY <2>2, FS_CardinalityType
  <2>4. QED
    BY <1>0, <2>2, <2>3
<1>2. \A m, n \in RuleIds : m < n => Cardinality(Below(m)) < Cardinality(Below(n))
  <2> SUFFICES ASSUME NEW m \in RuleIds, NEW n \in RuleIds, m < n
               PROVE  Cardinality(Below(m)) < Cardinality(Below(n))
    OBVIOUS
  <2>1. Below(m) \in SUBSET Below(n) /\ Below(m) # Below(n)
    <3>1. m \in Below(n) /\ m \notin Below(m)
      BY <1>0
    <3>2. \A x \in Below(m) : x \in Below(n)
      BY <1>0
    <3>3. QED
      BY <3>1, <3>2
  <2>2. IsFiniteSet(Below(n)) /\ Cardinality(Below(m)) \in Int /\ Cardinality(Below(n)) \in Int
    BY <1>1, <1>0
  <2> HIDE DEF Below
  <2>3. /\ Cardinality(Below(m)) <= Cardinality(Below(n))
        /\ Cardinality(Below(n)) = Cardinality(Below(m)) => Below(n) = Below(m)
    BY <2>1, <2>2, FS_Subset
  <2>4. QED
    BY <2>1, <2>2, <2>3
<1>3. \A m, n \in RuleIds : rank[m] < rank[n] => m < n
  <2> SUFFICES ASSUME NEW m \in RuleIds, NEW n \in RuleIds, rank[m] < rank[n], ~ (m < n)
               PROVE  FALSE
    OBVIOUS
  <2>1. Cardinality(Below(m)) \in Int /\ Cardinality(Below(n)) \in Int
    BY <1>0, <1>1
  <2>2. rank[m] = Cardinality(Below(m)) /\ rank[n] = Cardinality(Below(n))
    OBVIOUS
  <2> HIDE DEF rank, Below
  <2>3. m = n \/ n < m
    BY <1>0
  <2>4. QED
    BY <1>2, <2>1, <2>2, <2>3
<1>4. \A m, n \in RuleIds : rank[m] = rank[n] => m = n
  <2> SUFFICES ASSUME NEW m \in RuleIds, NEW n \in RuleIds, rank[m] = rank[n], m # n
               PROVE  FALSE
    OBVIOUS
  <2>1. Cardinality(Below(m)) \in Int /\ Cardinality(Below(n)) \in Int
    BY <1>0, <1>1
  <2>2. rank[m] = Cardinality(Below(m)) /\ rank[n] = Cardinality(Below(n))
    OBVIOUS
  <2> HIDE DEF rank, Below
  <2>3. m < n \/ n < m
    BY <1>0
  <2>4. Cardinality(Below(m)) < Cardinality(Below(n)) \/ Cardinality(Below(n)) < Cardinality(Below(m))
    BY <1>2, <2>3
  <2>5. Cardinality(Below(m)) = Cardinality(Below(n))
    BY <2>2
  <2> DEFINE cm == Cardinality(Below(m))
             cn == Cardinality(Below(n))
  <2>6. cm \in Int /\ cn \in Int /\ cm = cn /\ (cm < cn \/ cn < cm)
    BY <2>1, <2>4, <2>5
  <2> HIDE DEF cm, cn
  <2>7. QED
    BY <2>6
<1>5. rank \in [RuleIds -> 0..C - 1]
  BY <1>1
<1>6. rank \in Injection(RuleIds, 0..C - 1)
  BY <1>4, <1>5 DEF Injection, IsInjective
<1> HIDE DEF rank, C
<1>7. IsFiniteSet(0..C - 1) /\ Cardinality(0..C - 1) = C
  <2>1. 0 \in Int /\ C - 1 \in Int
    BY <1>0
  <2>2. /\ IsFiniteSet(0..C - 1)
        /\ Cardinality(0..C - 1) = IF 0 > C - 1 THEN 0 ELSE (C - 1) - 0 + 1
    BY <2>1, FS_Interval, Zenon
  <2>3. QED
    BY <1>0, <2>2
<1>8. rank \in Surjection(RuleIds, 0..C - 1)
  BY <1>0, <1>6, <1>7, FS_Injection DEF C
<1>9. \A i \in 1..C : \E n \in RuleIds : rank[n] = i - 1
  BY <1>0, <1>8 DEF Surjection
<1>10. \A i \in 1..C : Numbers[i] \in RuleIds /\ rank[Numbers[i]] = i - 1
  BY <1>9 DEF Numbers, rank, C, Below
<1>11. \A n \in RuleIds : rank[n] + 1 \in 1..C /\ Numbers[rank[n] + 1] = n
  <2> TAKE n \in RuleIds
  <2>1. rank[n] + 1 \in 1..C /\ (rank[n] + 1) - 1 = rank[n]
    BY <1>0, <1>5
  <2>2. QED
    BY <1>4, <1>10, <2>1
<1>12. Numbers \in [1..C -> RuleIds]
  <2>1. Numbers = [i \in 1..C |-> Numbers[i]]
    BY SMTT(60) DEF Numbers, C
  <2>2. QED
    BY <1>10, <2>1
<1>13. ASSUME NEW i \in 1..C, NEW j \in 1..C, i < j
       PROVE  Numbers[i] < Numbers[j]
  <2>1. rank[Numbers[i]] < rank[Numbers[j]]
    BY <1>0, <1>10, <1>13
  <2>2. QED
    BY <1>3, <1>10, <2>1
<1>14. QED
  BY <1>0, <1>11, <1>12, <1>13 DEF C

-----------------------------------------------------------------------------
(* The text of an ACL.  E is what a rule number may hold, X the texts that *)
(* a line may carry.                                                       *)
Tags == {"header", "bare header", "step", "rule", "comment", "prompt"}
Lines(X) == [tag : Tags, n : Nat, text : X]
Texts(E, X) == None \in X /\ \A e \in E : e.body \in X /\ e.comment \in X
TablesOf(E) == [RuleIds -> E \cup {Absent}]

Tally == Cardinality(RuleIds)
HeadLine(t, o) == IF o /\ Count(t) = 0 THEN Bare ELSE Counted(Count(t))

(* The rules of a table, printed one after the other.                      *)
Prints(run, t) ==
  run[0] = <<>> /\ \A k \in 1..Tally : run[k] = run[k - 1] \o RuleLines(Numbers[k], t[Numbers[k]])

Printed(t) == FlattenSeq([i \in 1..Tally |-> RuleLines(Numbers[i], t[Numbers[i]])])

(* A line is what Line makes it.                                           *)
LEMMA LineIs ==
  ASSUME NEW X, NEW tag \in Tags, NEW n \in Nat, NEW x \in X
  PROVE  /\ Line(tag, n, x) \in Lines(X)
         /\ Line(tag, n, x).tag = tag /\ Line(tag, n, x).n = n /\ Line(tag, n, x).text = x
BY DEF Line, Lines

(* The header and the step line belong to no rule.                         *)
LEMMA HeadIs ==
  ASSUME NEW X, None \in X, NEW t, NEW o
  PROVE  /\ HeadLine(t, o) \in Lines(X) /\ Step \in Lines(X)
         /\ HeadLine(t, o).tag \in {"header", "bare header"} /\ Step.tag = "step"
         /\ ~ OfRule(HeadLine(t, o)) /\ ~ OfRule(Step)
         /\ HeadLine(t, o).tag = "header" => HeadLine(t, o).n = Count(t)
         /\ HeadLine(t, o).tag # "header" => Count(t) = 0
<1>1. Count(t) \in Nat
  BY OccupiedFinite
<1>2. Counted(Count(t)) \in Lines(X) /\ Bare \in Lines(X) /\ Step \in Lines(X)
  BY <1>1 DEF Counted, Bare, Step, Line, Lines, Tags
<1>3. /\ Counted(Count(t)).tag = "header" /\ Counted(Count(t)).n = Count(t)
      /\ Bare.tag = "bare header" /\ Step.tag = "step"
  BY DEF Counted, Bare, Step, Line
<1>4. QED
  BY <1>1, <1>2, <1>3 DEF HeadLine, OfRule

(* The lines of one rule.                                                  *)
LEMMA RuleLinesAre ==
  ASSUME NEW E, NEW X, Texts(E, X), NEW n \in Nat, NEW e \in E \cup {Absent}
  PROVE  /\ RuleLines(n, e) \in Seq(Lines(X))
         /\ e = Absent => RuleLines(n, e) = <<>>
         /\ \A i \in 1..Len(RuleLines(n, e)) :
              /\ OfRule(RuleLines(n, e)[i]) /\ RuleLines(n, e)[i].n = n
              /\ e # Absent
              /\ \/ RuleLines(n, e)[i] = Line("rule", n, e.body)
                 \/ e.comment # None /\ RuleLines(n, e)[i] = Line("comment", n, e.comment)
         /\ e # Absent => /\ Len(RuleLines(n, e)) >= 1
                          /\ RuleLines(n, e)[1] = Line("rule", n, e.body)
         /\ e # Absent /\ e.comment # None =>
              /\ Len(RuleLines(n, e)) = 2
              /\ RuleLines(n, e)[2] = Line("comment", n, e.comment)
<1>1. CASE e = Absent
  <2>1. RuleLines(n, e) = <<>>
    BY <1>1 DEF RuleLines
  <2>2. QED
    BY <1>1, <2>1
<1>2. CASE e # Absent
  <2> DEFINE r == Line("rule", n, e.body)
             c == Line("comment", n, e.comment)
  <2>1. /\ r \in Lines(X) /\ r.tag = "rule" /\ r.n = n
        /\ c \in Lines(X) /\ c.tag = "comment" /\ c.n = n
    BY <1>2 DEF Texts, Line, Lines, Tags
  <2>2. RuleLines(n, e) = IF e.comment = None THEN <<r>> ELSE <<r, c>>
    <3>1. RuleLines(n, e) = <<r>> \o IF e.comment = None THEN <<>> ELSE <<c>>
      BY <1>2 DEF RuleLines
    <3>2. <<r>> \o <<>> = <<r>> /\ <<r>> \o <<c>> = <<r, c>>
      BY ShortConcat
    <3> HIDE DEF r, c
    <3>3. QED
      BY <3>1, <3>2
  <2>3. OfRule(r) /\ OfRule(c)
    BY <2>1 DEF OfRule
  <2> HIDE DEF r, c
  <2>4. CASE e.comment = None
    <3>1. RuleLines(n, e) = <<r>>
      BY <2>2, <2>4
    <3>2. <<r>> \in Seq(Lines(X)) /\ Len(<<r>>) = 1 /\ <<r>>[1] = r
      BY <2>1
    <3>3. QED
      BY <1>2, <2>1, <2>3, <2>4, <3>1, <3>2 DEF r
  <2>5. CASE e.comment # None
    <3>1. RuleLines(n, e) = <<r, c>>
      BY <2>2, <2>5
    <3>2. <<r, c>> \in Seq(Lines(X)) /\ Len(<<r, c>>) = 2 /\ <<r, c>>[1] = r /\ <<r, c>>[2] = c
      BY <2>1
    <3>3. \A i \in 1..2 : i = 1 \/ i = 2
      OBVIOUS
    <3>4. QED
      BY <1>2, <2>1, <2>3, <2>5, <3>1, <3>2, <3>3 DEF r, c
  <2>6. QED
    BY <2>4, <2>5
<1>3. QED
  BY <1>1, <1>2

(* "display acl" prints the header, the step and the rules.                *)
LEMMA AclRun ==
  ASSUME NEW E, NEW X, Texts(E, X), NEW t \in TablesOf(E), NEW o
  PROVE  /\ AclLines(t, o) = <<HeadLine(t, o), Step>> \o Printed(t)
         /\ \E run \in [0..Tally -> Seq(Lines(X))] : Prints(run, t) /\ Printed(t) = run[Tally]
<1> DEFINE S == Lines(X)
           blocks == [i \in 1..Tally |-> RuleLines(Numbers[i], t[Numbers[i]])]
<1>1. Tally \in Nat /\ DOMAIN Numbers = 1..Tally /\ \A i \in 1..Tally : Numbers[i] \in RuleIds
  BY NumbersAre DEF Tally
<1>2. \A i \in 1..Tally : Numbers[i] \in Nat /\ t[Numbers[i]] \in E \cup {Absent}
  BY <1>1, TableAssumption DEF TablesOf
<1>3. \A i \in 1..Tally : RuleLines(Numbers[i], t[Numbers[i]]) \in Seq(S)
  BY <1>2, RuleLinesAre
<1>4. blocks \in [1..Tally -> Seq(S)] /\ DOMAIN blocks = 1..Tally
  BY <1>3
<1>5. \A i \in 1..Tally : blocks[i] = RuleLines(Numbers[i], t[Numbers[i]])
  OBVIOUS
<1>6. AclLines(t, o) = <<HeadLine(t, o), Step>> \o FlattenSeq(blocks) /\ Printed(t) = FlattenSeq(blocks)
  BY <1>1 DEF AclLines, HeadLine, Printed
<1> HIDE DEF blocks, S
<1>7. PICK run \in [0..Tally -> Seq(S)] : Joins(run, blocks) /\ FlattenSeq(blocks) = run[Tally]
  BY <1>1, <1>4, FlattenRun
<1>8. Prints(run, t)
  BY <1>4, <1>5, <1>7 DEF Joins, Prints
<1>9. QED
  BY <1>6, <1>7, <1>8 DEF S

(* The lines of two texts one after the other.                             *)
LEMMA ToSetConcat ==
  ASSUME NEW S, NEW s \in Seq(S), NEW u \in Seq(S)
  PROVE  ToSet(s \o u) = ToSet(s) \cup ToSet(u)
<1>1. /\ s \o u \in Seq(S) /\ Len(s \o u) = Len(s) + Len(u)
      /\ \A i \in 1..Len(s) + Len(u) : (s \o u)[i] = IF i <= Len(s) THEN s[i] ELSE u[i - Len(s)]
  BY ConcatProperties
<1>2. /\ DOMAIN s = 1..Len(s) /\ DOMAIN u = 1..Len(u) /\ Len(s) \in Nat /\ Len(u) \in Nat
      /\ DOMAIN (s \o u) = 1..Len(s) + Len(u)
  BY <1>1, LenProperties
<1>3. ASSUME NEW x \in ToSet(s \o u) PROVE x \in ToSet(s) \cup ToSet(u)
  <2>1. PICK i \in 1..Len(s) + Len(u) : x = (s \o u)[i]
    BY <1>2 DEF ToSet
  <2>2. CASE i <= Len(s)
    BY <1>1, <1>2, <2>1, <2>2 DEF ToSet
  <2>3. CASE ~ (i <= Len(s))
    <3>1. i - Len(s) \in 1..Len(u) /\ x = u[i - Len(s)]
      BY <1>1, <1>2, <2>1, <2>3
    <3>2. QED
      BY <1>2, <3>1 DEF ToSet
  <2>4. QED
    BY <2>2, <2>3
<1>4. ASSUME NEW x \in ToSet(s) PROVE x \in ToSet(s \o u)
  <2>1. PICK i \in 1..Len(s) : x = s[i]
    BY <1>2 DEF ToSet
  <2>2. i \in 1..Len(s) + Len(u) /\ (s \o u)[i] = s[i]
    BY <1>1, <1>2
  <2>3. QED
    BY <1>2, <2>1, <2>2 DEF ToSet
<1>5. ASSUME NEW x \in ToSet(u) PROVE x \in ToSet(s \o u)
  <2>1. PICK i \in 1..Len(u) : x = u[i]
    BY <1>2 DEF ToSet
  <2> DEFINE j == i + Len(s)
  <2>2. j \in 1..Len(s) + Len(u) /\ ~ (j <= Len(s)) /\ j - Len(s) = i
    BY <1>2
  <2> HIDE DEF j
  <2>3. (s \o u)[j] = u[i]
    BY <1>1, <2>2
  <2>4. QED
    BY <1>2, <2>1, <2>2, <2>3 DEF ToSet
<1>6. QED
  BY <1>3, <1>4, <1>5

(* A printed table shows its rules and nothing else.                       *)
LEMMA PrintedLines ==
  ASSUME NEW E, NEW X, Texts(E, X), NEW t \in TablesOf(E),
         NEW run \in [0..Tally -> Seq(Lines(X))], Prints(run, t), NEW l
  PROVE  l \in ToSet(run[Tally]) <=> \E n \in RuleIds : l \in ToSet(RuleLines(n, t[n]))
<1> DEFINE Of(k) == l \in ToSet(RuleLines(Numbers[k], t[Numbers[k]]))
           T == {k \in 0..Tally : l \in ToSet(run[k]) <=> \E i \in 1..k : Of(i)}
<1>1. Tally \in Nat /\ \A i \in 1..Tally : Numbers[i] \in RuleIds
  BY NumbersAre DEF Tally
<1>2. 0 \in T
  <2>1. ToSet(<<>>) = {} /\ 1..0 = {} /\ 0 \in 0..Tally
    BY <1>1 DEF ToSet
  <2>2. run[0] = <<>>
    BY DEF Prints
  <2> HIDE DEF Of
  <2>3. QED
    BY <2>1, <2>2
<1>3. \A k \in 0..Tally : k < Tally /\ k \in T => k + 1 \in T
  <2> TAKE k \in 0..Tally
  <2> HAVE k < Tally /\ k \in T
  <2> DEFINE j == k + 1
             b == RuleLines(Numbers[j], t[Numbers[j]])
  <2>1. j \in 1..Tally /\ j \in 0..Tally /\ j - 1 = k /\ 1..j = (1..k) \cup {j}
    <3>1. j \in Int /\ k \in Int /\ Tally \in Int /\ 0 <= k /\ k < Tally
      BY <1>1
    <3>2. j \in 1..Tally /\ j \in 0..Tally /\ j - 1 = k
      BY <3>1
    <3>3. 1..j = (1..k) \cup {j}
      BY OneMore
    <3>4. QED
      BY <3>2, <3>3
  <2> HIDE DEF j
  <2>2. run[j] = run[k] \o b
    BY <2>1 DEF Prints
  <2>3. b \in Seq(Lines(X))
    <3>1. Numbers[j] \in Nat /\ t[Numbers[j]] \in E \cup {Absent}
      BY <1>1, <2>1, TableAssumption DEF TablesOf
    <3>2. QED
      BY <3>1, RuleLinesAre
  <2>4. ToSet(run[j]) = ToSet(run[k]) \cup ToSet(b)
    <3>1. run[k] \in Seq(Lines(X))
      OBVIOUS
    <3> HIDE DEF b
    <3>2. QED
      BY <2>2, <2>3, <3>1, ToSetConcat
  <2>5. l \in ToSet(b) <=> Of(j)
    OBVIOUS
  <2>6. l \in ToSet(run[k]) <=> \E i \in 1..k : Of(i)
    OBVIOUS
  <2> HIDE DEF b, Of
  <2>7. l \in ToSet(run[j]) <=> \E i \in 1..j : Of(i)
    BY <2>1, <2>4, <2>5, <2>6
  <2>8. QED
    BY <2>1, <2>7 DEF j
<1>4. 0..Tally \subseteq T
  <2> HIDE DEF T
  <2>0. Tally \in Nat
    BY <1>1
  <2>1. QED
    BY <1>2, <1>3, <2>0, BoundedInduction
<1>5. l \in ToSet(run[Tally]) <=> \E i \in 1..Tally : Of(i)
  <2>1. Tally \in T
    BY <1>1, <1>4
  <2>2. QED
    BY <2>1
<1>6. \A n \in RuleIds : \E i \in 1..Tally : Numbers[i] = n
  BY NumbersAre DEF Tally
<1>7. QED
  BY <1>1, <1>5, <1>6

(* What is printed: the header, the step, and the lines of the rules.      *)
LEMMA AclLinesAre ==
  ASSUME NEW E, NEW X, Texts(E, X), NEW t \in TablesOf(E), NEW o
  PROVE  /\ AclLines(t, o) \in Seq(Lines(X))
         /\ Len(AclLines(t, o)) >= 2
         /\ AclLines(t, o)[1] = HeadLine(t, o) /\ AclLines(t, o)[2] = Step
         /\ \A i \in 3..Len(AclLines(t, o)) : OfRule(AclLines(t, o)[i])
         /\ \A l : l \in ToSet(AclLines(t, o)) <=>
                     \/ l = HeadLine(t, o) \/ l = Step
                     \/ \E n \in RuleIds : l \in ToSet(RuleLines(n, t[n]))
<1> DEFINE S == Lines(X)
           h == HeadLine(t, o)
           top == <<h, Step>>
           all == AclLines(t, o)
<1>1. PICK run \in [0..Tally -> Seq(S)] : Prints(run, t) /\ all = top \o run[Tally]
  BY AclRun
<1>2. Tally \in Nat
  BY NumbersAre DEF Tally
<1> DEFINE body == run[Tally]
<1>3. body \in Seq(S)
  <2>1. Tally \in 0..Tally
    BY <1>2
  <2> HIDE DEF S
  <2>2. QED
    BY <2>1
<1>4. h \in S /\ Step \in S
  BY HeadIs DEF Texts
<1>5. top \in Seq(S) /\ Len(top) = 2 /\ top[1] = h /\ top[2] = Step /\ ToSet(top) = {h, Step}
  <2> HIDE DEF S, h
  <2>1. top \in Seq(S) /\ Len(top) = 2 /\ top[1] = h /\ top[2] = Step /\ DOMAIN top = 1..2
    BY <1>4
  <2>2. \A i \in 1..2 : i = 1 \/ i = 2
    OBVIOUS
  <2> HIDE DEF top
  <2>3. QED
    BY <2>1, <2>2 DEF ToSet
<1> HIDE DEF S, h, top, body, all
<1>6. /\ all \in Seq(S) /\ Len(all) = 2 + Len(body)
      /\ \A i \in 1..2 + Len(body) : all[i] = IF i <= 2 THEN top[i] ELSE body[i - 2]
  <2>1. /\ top \o body \in Seq(S) /\ Len(top \o body) = Len(top) + Len(body)
        /\ \A i \in 1..Len(top) + Len(body) :
             (top \o body)[i] = IF i <= Len(top) THEN top[i] ELSE body[i - Len(top)]
    BY <1>3, <1>5, ConcatProperties
  <2>2. all = top \o body
    BY <1>1 DEF body
  <2>3. QED
    BY <1>5, <2>1, <2>2
<1>7. Len(body) \in Nat /\ DOMAIN body = 1..Len(body)
  BY <1>3, LenProperties
<1>8. ToSet(all) = {h, Step} \cup ToSet(body)
  <2>1. all = top \o body
    BY <1>1 DEF body
  <2>2. QED
    BY <1>3, <1>5, <2>1, ToSetConcat
<1>9. \A l : l \in ToSet(body) <=> \E n \in RuleIds : l \in ToSet(RuleLines(n, t[n]))
  BY <1>1, PrintedLines DEF body, S
<1>10. ASSUME NEW l \in ToSet(body) PROVE OfRule(l)
  <2>1. PICK n \in RuleIds : l \in ToSet(RuleLines(n, t[n]))
    BY <1>9
  <2>2. n \in Nat /\ t[n] \in E \cup {Absent}
    BY TableAssumption DEF TablesOf
  <2>3. RuleLines(n, t[n]) \in Seq(S) /\ \A i \in 1..Len(RuleLines(n, t[n])) : OfRule(RuleLines(n, t[n])[i])
    BY <2>2, RuleLinesAre DEF S
  <2>4. DOMAIN RuleLines(n, t[n]) = 1..Len(RuleLines(n, t[n]))
    BY <2>3, LenProperties
  <2>5. QED
    BY <2>1, <2>3, <2>4 DEF ToSet
<1>11. \A i \in 3..Len(all) : OfRule(all[i])
  <2> TAKE i \in 3..Len(all)
  <2>1. i \in 1..2 + Len(body) /\ ~ (i <= 2) /\ i - 2 \in 1..Len(body)
    BY <1>6, <1>7
  <2>2. all[i] = body[i - 2] /\ body[i - 2] \in ToSet(body)
    BY <1>6, <1>7, <2>1 DEF ToSet
  <2>3. QED
    BY <2>2, <1>10
<1>12. Len(all) >= 2 /\ all[1] = h /\ all[2] = Step
  BY <1>5, <1>6, <1>7
<1>13. all \in Seq(S)
  BY <1>6
<1>14. QED
  BY <1>8, <1>9, <1>11, <1>12, <1>13 DEF all, h, S

(* The prompt is a line that belongs to no rule.                           *)
LEMMA PromptIs ==
  ASSUME NEW X, None \in X
  PROVE  /\ Prompt \in Lines(X) /\ Prompt.tag = "prompt" /\ ~ OfRule(Prompt)
         /\ <<Prompt>> \in Seq(Lines(X)) /\ ToSet(<<Prompt>>) = {Prompt}
<1>1. Prompt \in Lines(X) /\ Prompt.tag = "prompt"
  BY DEF Prompt, Line, Lines, Tags
<1> DEFINE p == Prompt
<1> HIDE DEF p
<1>2. <<p>> \in Seq({p}) /\ Len(<<p>>) = 1 /\ <<p>>[1] = p /\ DOMAIN <<p>> = 1..1
  OBVIOUS
<1>3. p \in Lines(X) => <<p>> \in Seq(Lines(X))
  OBVIOUS
<1>4. ToSet(<<p>>) = {p}
  BY <1>2 DEF ToSet
<1>5. QED
  BY <1>1, <1>3, <1>4 DEF p, OfRule

(* The text of a table: what is printed, and the prompt.                   *)
LEMMA DisplayLines ==
  ASSUME NEW E, NEW X, Texts(E, X), NEW t \in TablesOf(E), NEW o
  PROVE  /\ DisplayACL(t, o) = AclLines(t, o) \o <<Prompt>>
         /\ DisplayACL(t, o) \in Seq(Lines(X))
         /\ Len(DisplayACL(t, o)) >= 2
         /\ DisplayACL(t, o)[1] = HeadLine(t, o) /\ DisplayACL(t, o)[2] = Step
         /\ \A i \in 3..Len(DisplayACL(t, o)) :
              OfRule(DisplayACL(t, o)[i]) \/ DisplayACL(t, o)[i] = Prompt
         /\ \A l : l \in ToSet(DisplayACL(t, o)) <=>
                     \/ l = HeadLine(t, o) \/ l = Step \/ l = Prompt
                     \/ \E n \in RuleIds : l \in ToSet(RuleLines(n, t[n]))
<1> DEFINE S == Lines(X)
           all == AclLines(t, o)
           p == Prompt
           one == <<p>>
           whole == all \o one
           M == Len(all)
<1>1. /\ all \in Seq(S) /\ M >= 2 /\ all[1] = HeadLine(t, o) /\ all[2] = Step
      /\ \A i \in 3..M : OfRule(all[i])
      /\ \A l : l \in ToSet(all) <=> \/ l = HeadLine(t, o) \/ l = Step
                                      \/ \E n \in RuleIds : l \in ToSet(RuleLines(n, t[n]))
  BY AclLinesAre
<1>2. p \in S /\ one \in Seq(S) /\ ToSet(one) = {p}
  BY PromptIs DEF Texts
<1>3. Len(one) = 1 /\ one[1] = p
  <2> HIDE DEF p
  <2>1. QED
    OBVIOUS
<1> HIDE DEF S, all, p, one
<1>4. DisplayACL(t, o) = whole
  BY <1>1 DEF DisplayACL, all, one, p
<1>5. /\ whole \in Seq(S) /\ Len(whole) = M + 1 /\ M \in Nat
      /\ \A i \in 1..M + 1 : whole[i] = IF i <= M THEN all[i] ELSE one[i - M]
  <2>1. /\ whole \in Seq(S) /\ Len(whole) = M + Len(one)
        /\ \A i \in 1..M + Len(one) : whole[i] = IF i <= M THEN all[i] ELSE one[i - M]
    BY <1>1, <1>2, ConcatProperties
  <2>2. M \in Nat
    BY <1>1, LenProperties
  <2> HIDE DEF whole, M
  <2>3. QED
    BY <1>3, <2>1, <2>2
<1>6. ToSet(whole) = ToSet(all) \cup {p}
  BY <1>1, <1>2, ToSetConcat
<1> HIDE DEF whole, M
<1>7. Len(whole) >= 2 /\ whole[1] = HeadLine(t, o) /\ whole[2] = Step
  BY <1>1, <1>5
<1>8. \A i \in 3..M + 1 : OfRule(whole[i]) \/ whole[i] = p
  <2> TAKE i \in 3..M + 1
  <2>1. CASE i <= M
    <3>1. i \in 3..M /\ whole[i] = all[i]
      BY <1>5, <2>1
    <3>2. QED
      BY <1>1, <3>1
  <2>2. CASE ~ (i <= M)
    <3>1. i - M = 1 /\ i \in 1..M + 1
      BY <1>5, <2>2
    <3>2. QED
      BY <1>3, <1>5, <2>2, <3>1
  <2>3. QED
    BY <2>1, <2>2
<1>9. QED
  BY <1>1, <1>4, <1>5, <1>6, <1>7, <1>8 DEF whole, all, one, p, S

(* A rule's lines carry its number, and are there when it is.              *)
LEMMA RuleLineSet ==
  ASSUME NEW E, NEW X, Texts(E, X), NEW t \in TablesOf(E), NEW n \in RuleIds
  PROVE  /\ \A l \in ToSet(RuleLines(n, t[n])) : OfRule(l) /\ l.n = n /\ n \in Occupied(t)
         /\ n \in Occupied(t) => Line("rule", n, t[n].body) \in ToSet(RuleLines(n, t[n]))
<1> DEFINE b == RuleLines(n, t[n])
           r == Line("rule", n, t[n].body)
<1>1. n \in Nat /\ t[n] \in E \cup {Absent}
  BY TableAssumption DEF TablesOf
<1>2. /\ b \in Seq(Lines(X))
      /\ \A i \in 1..Len(b) : OfRule(b[i]) /\ b[i].n = n /\ t[n] # Absent
      /\ t[n] # Absent => Len(b) >= 1 /\ b[1] = r
  BY <1>1, RuleLinesAre
<1>3. DOMAIN b = 1..Len(b) /\ Len(b) \in Nat
  BY <1>2, LenProperties
<1> HIDE DEF b, r
<1>4. ToSet(b) = {b[i] : i \in 1..Len(b)}
  BY <1>3 DEF ToSet
<1>5. \A l \in ToSet(b) : OfRule(l) /\ l.n = n /\ n \in Occupied(t)
  BY <1>2, <1>4 DEF Occupied
<1>6. n \in Occupied(t) => r \in ToSet(b)
  <2>1. t[n] # Absent => 1 \in 1..Len(b)
    BY <1>2, <1>3
  <2>2. QED
    BY <1>2, <1>4, <2>1 DEF Occupied
<1>7. QED
  BY <1>5, <1>6 DEF b, r

(* The rules read off the whole text are those of the table.               *)
LEMMA RuleIDsOfDisplay ==
  ASSUME NEW E, NEW X, Texts(E, X), NEW t \in TablesOf(E), NEW o
  PROVE  RuleIDs(DisplayACL(t, o)) = Occupied(t)
<1> DEFINE all == DisplayACL(t, o)
<1>1. \A l : l \in ToSet(all) <=> \/ l = HeadLine(t, o) \/ l = Step \/ l = Prompt
                                 \/ \E n \in RuleIds : l \in ToSet(RuleLines(n, t[n]))
  BY DisplayLines
<1>2. ~ OfRule(HeadLine(t, o)) /\ ~ OfRule(Step) /\ ~ OfRule(Prompt)
  BY HeadIs, PromptIs DEF Texts
<1> HIDE DEF all
<1>3. ASSUME NEW m \in RuleIDs(all) PROVE m \in Occupied(t)
  <2>1. PICK l \in ToSet(all) : OfRule(l) /\ l.n = m
    BY DEF RuleIDs
  <2>2. PICK n \in RuleIds : l \in ToSet(RuleLines(n, t[n]))
    BY <1>1, <1>2, <2>1
  <2>3. l.n = n /\ n \in Occupied(t)
    BY <2>2, RuleLineSet
  <2>4. QED
    BY <2>1, <2>3
<1>4. ASSUME NEW m \in Occupied(t) PROVE m \in RuleIDs(all)
  <2> DEFINE l == Line("rule", m, t[m].body)
  <2>1. m \in RuleIds
    BY DEF Occupied
  <2>2. l \in ToSet(RuleLines(m, t[m]))
    BY <2>1, RuleLineSet
  <2>3. OfRule(l) /\ l.n = m
    BY <2>1, <2>2, RuleLineSet
  <2> HIDE DEF l
  <2>4. QED
    BY <1>1, <2>1, <2>2, <2>3 DEF RuleIDs
<1>5. QED
  BY <1>3, <1>4 DEF all

(* What a session that broke off has left of the text.                     *)
Beginning(s, whole) == \E k \in 1..Len(whole) : s = SubSeq(whole, 1, k)

(* The beginning of a text has its lines.                                  *)
LEMMA BeginningIs ==
  ASSUME NEW S, NEW whole \in Seq(S), NEW s, Beginning(s, whole)
  PROVE  /\ s \in Seq(S) /\ Len(s) \in 1..Len(whole) /\ DOMAIN s = 1..Len(s)
         /\ \A i \in 1..Len(s) : s[i] = whole[i]
         /\ ToSet(s) \subseteq ToSet(whole)
<1>1. PICK k \in 1..Len(whole) : s = SubSeq(whole, 1, k)
  BY DEF Beginning
<1>2. Len(whole) \in Nat /\ DOMAIN whole = 1..Len(whole) /\ \A i \in 1..Len(whole) : whole[i] \in S
  BY LenProperties, ElementOfSeq
<1>3. 1 \in Int /\ k \in Int /\ \A i \in 1..k : whole[i] \in S
  BY <1>2
<1>4. /\ SubSeq(whole, 1, k) \in Seq(S) /\ Len(SubSeq(whole, 1, k)) = IF 1 <= k THEN k - 1 + 1 ELSE 0
      /\ \A i \in 1..k - 1 + 1 : SubSeq(whole, 1, k)[i] = whole[1 + i - 1]
  BY <1>3, SubSeqProperties
<1>5. s \in Seq(S) /\ Len(s) = k /\ \A i \in 1..k : s[i] = whole[i]
  BY <1>1, <1>2, <1>4
<1>6. DOMAIN s = 1..k
  BY <1>5, LenProperties
<1>7. \A i \in 1..k : i \in 1..Len(whole)
  BY <1>2
<1>8. ToSet(s) \subseteq ToSet(whole)
  BY <1>2, <1>5, <1>6, <1>7 DEF ToSet
<1>9. QED
  BY <1>5, <1>6, <1>8

(* A text whose count can be read shows every rule: a beginning that lacks *)
(* one says less than its header claims.                                   *)
LEMMA CountedIsWhole ==
  ASSUME NEW E, NEW X, Texts(E, X), NEW t \in TablesOf(E), NEW o, NEW s,
         Beginning(s, DisplayACL(t, o)), CountRead(s) # None
  PROVE  RuleIDs(s) = Occupied(t) /\ CountRead(s) = Count(t)
<1> DEFINE all == DisplayACL(t, o)
<1>1. /\ all \in Seq(Lines(X)) /\ all[1] = HeadLine(t, o) /\ all[2] = Step
      /\ \A i \in 3..Len(all) : OfRule(all[i]) \/ all[i] = Prompt
  BY DisplayLines
<1>2. /\ Len(s) \in 1..Len(all) /\ DOMAIN s = 1..Len(s) /\ \A i \in 1..Len(s) : s[i] = all[i]
      /\ ToSet(s) \subseteq ToSet(all)
  BY <1>1, BeginningIs
<1>3. RuleIDs(all) = Occupied(t)
  BY RuleIDsOfDisplay
<1> HIDE DEF all
<1>4. RuleIDs(s) \subseteq Occupied(t)
  BY <1>2, <1>3 DEF RuleIDs
<1>5. IsFiniteSet(Occupied(t)) /\ Count(t) \in Nat
  BY OccupiedFinite
<1> DEFINE ids == Cardinality(RuleIDs(s))
<1>6. IsFiniteSet(RuleIDs(s)) /\ ids \in Nat /\ ids <= Count(t) /\ (ids = Count(t) => RuleIDs(s) = Occupied(t))
  <2>1. IsFiniteSet(RuleIDs(s)) /\ ids <= Count(t) /\ (ids = Count(t) => RuleIDs(s) = Occupied(t))
    BY <1>4, <1>5, FS_Subset DEF Count
  <2>2. QED
    BY <2>1, FS_CardinalityType
<1>7. /\ HeadLine(t, o).tag \in {"header", "bare header"} /\ Step.tag = "step"
      /\ HeadLine(t, o).tag = "header" => HeadLine(t, o).n = Count(t)
      /\ HeadLine(t, o).tag # "header" => Count(t) = 0
      /\ Prompt.tag = "prompt"
  BY HeadIs, PromptIs DEF Texts
<1>8. \A i \in 1..Len(s) : s[i].tag = "header" => i = 1
  <2> TAKE i \in 1..Len(s)
  <2>1. i \in 1..Len(all) /\ (i = 1 \/ i = 2 \/ i \in 3..Len(all))
    BY <1>2
  <2>2. QED
    BY <1>1, <1>2, <1>7, <2>1 DEF OfRule
<1>9. s[1] = HeadLine(t, o) /\ 1 \in 1..Len(s)
  BY <1>1, <1>2
<1> HIDE DEF ids
<1>10. CASE HeadLine(t, o).tag = "header"
  <2>1. Headers(s) = {1}
    BY <1>2, <1>8, <1>9, <1>10 DEF Headers
  <2>2. Min(Headers(s)) = 1
    <3>1. {1} \subseteq Nat /\ {1} # {}
      OBVIOUS
    <3>2. Min({1}) \in {1}
      BY <3>1, LeastIs
    <3>3. QED
      BY <2>1, <3>2
  <2>3. Claimed(s) = Count(t)
    BY <1>7, <1>9, <1>10, <2>2 DEF Claimed
  <2>4. CountRead(s) = IF ids < Count(t) THEN None ELSE Count(t)
    BY <2>1, <2>3 DEF CountRead, ids
  <2>5. ~ (ids < Count(t)) /\ CountRead(s) = Count(t)
    BY <2>4
  <2>6. QED
    BY <1>5, <1>6, <2>5
<1>11. CASE HeadLine(t, o).tag # "header"
  <2>1. Headers(s) = {}
    BY <1>2, <1>8, <1>9, <1>11 DEF Headers
  <2>2. Count(t) = 0 /\ ids = 0
    <3>1. Count(t) = 0
      BY <1>7, <1>11
    <3>2. ids \in Nat /\ ids <= Count(t)
      BY <1>6
    <3>3. QED
      BY <3>1, <3>2
  <2>3. CountRead(s) = ids
    BY <2>1 DEF CountRead, ids
  <2>4. QED
    BY <1>6, <2>2, <2>3
<1>12. QED
  BY <1>10, <1>11

(* And the count of the whole text can be read.                            *)
LEMMA CountOfDisplay ==
  ASSUME NEW E, NEW X, Texts(E, X), NEW t \in TablesOf(E), NEW o
  PROVE  CountRead(DisplayACL(t, o)) = Count(t) /\ Count(t) # None
<1> DEFINE all == DisplayACL(t, o)
<1>0. Count(t) \in Nat /\ Count(t) # None
  BY OccupiedFinite, TextAssumption
<1>1. all \in Seq(Lines(X)) /\ Len(all) >= 2 /\ all[1] = HeadLine(t, o)
  BY DisplayLines
<1>2. RuleIDs(all) = Occupied(t)
  BY RuleIDsOfDisplay
<1>3. Len(all) \in Nat /\ DOMAIN all = 1..Len(all)
  BY <1>1, LenProperties, SMTT(60)
<1>4. Beginning(all, all)
  <2>1. all = SubSeq(all, 1, Len(all)) /\ Len(all) \in 1..Len(all)
    <3> HIDE DEF all
    <3>1. QED
      BY <1>1, <1>3, SubSeqFull
  <2> HIDE DEF all
  <2>2. QED
    BY <2>1 DEF Beginning
<1>5. CountRead(all) # None
  <2>1. Cardinality(RuleIDs(all)) = Count(t)
    BY <1>2 DEF Count
  <2>2. \/ HeadLine(t, o).tag = "header" /\ HeadLine(t, o).n = Count(t)
        \/ HeadLine(t, o).tag = "bare header" /\ Count(t) = 0
    BY HeadIs DEF Texts
  <2>3. HeadLine(t, o) \in ToSet(all)
    BY <1>1, <1>3 DEF ToSet
  <2> HIDE DEF all
  <2>4. CASE Headers(all) = {}
    BY <1>0, <2>1, <2>2, <2>3, <2>4, <1>1, <1>3 DEF CountRead, Headers
  <2>5. CASE Headers(all) # {}
    <3>1. Headers(all) = {1}
      <4>1. \A i \in 3..Len(all) : OfRule(all[i]) \/ all[i] = Prompt
        BY DisplayLines DEF all
      <4>2. all[2] = Step /\ Step.tag = "step"
        <5>1. all[2] = Step
          BY DisplayLines DEF all
        <5>2. Step.tag = "step"
          BY DEF Step, Line
        <5>3. QED
          BY <5>1, <5>2
      <4>p. Prompt.tag = "prompt"
        BY PromptIs DEF Texts
      <4>3. \A i \in 1..Len(all) : i = 1 \/ i = 2 \/ i \in 3..Len(all)
        BY <1>3
      <4>4. QED
        BY <2>5, <4>1, <4>2, <4>p, <4>3, <1>3 DEF Headers, OfRule
    <3>2. Min({1}) = 1
      <4>1. {1} \subseteq Nat /\ {1} # {}
        OBVIOUS
      <4>2. QED
        BY <4>1, LeastIs
    <3>3. Claimed(all) = Count(t)
      BY <1>1, <2>2, <3>1, <3>2 DEF Claimed, Headers
    <3>4. CountRead(all) = IF Count(t) < Count(t) THEN None ELSE Count(t)
      BY <2>1, <2>5, <3>3 DEF CountRead
    <3>5. QED
      BY <1>0, <3>4
  <2>6. QED
    BY <2>4, <2>5
<1>6. QED
  <2> HIDE DEF all
  <2>1. CountRead(all) = Count(t)
    BY <1>4, <1>5, CountedIsWhole DEF all
  <2>2. QED
    BY <1>0, <2>1 DEF all

(* How a request for a new rule, and one for a deletion, comes to be.      *)
Marks == {e.comment : e \in Entries}
AddPlan == PlanOf(Normalize(form), NextRuleID(old))

AddDrawn ==
  /\ form # Blank /\ form.protocol # Blank
  /\ NextRuleID(old) # None
  /\ ValidateForAgent(AddPlan)
  /\ \E mark \in Marks :
       LET entry == [body |-> BuildRuleCmd(AddPlan), comment |-> mark]
       IN /\ request = [plan |-> AddPlan, entry |-> entry]
          /\ new = ExpectedConfig(old, NextRuleID(old), entry)

DeleteDrawn ==
  /\ form = Blank
  /\ CountRead(old) # None
  /\ \E n \in RuleIDs(old) \cap Window :
       /\ request = [plan |-> DeletePlan(n), entry |-> Absent]
       /\ new = RemoveRuleFromConfig(old, n)

Command(plan) ==
  IF ~ (ValidateForAgent(plan) /\ AbsoluteGuard(plan)) THEN Refusal
  ELSE IF plan.op = "add" THEN BuildRuleCmd(plan) ELSE [undo |-> plan.number]

Verdict(plan, pre, post) ==
  IF plan.op = "add" THEN VerifyChangeText(pre, post, plan.number)
  ELSE VerifyDeletionText(pre, post, plan.number)

(* Everything the request has become is what the code makes of what it was *)
(* before.                                                                 *)
History ==
  /\ form \in PageForms \cup OtherForms \cup {Blank}
  /\ table \in TablesOf(Entries)
  /\ old # <<>> => Beginning(old, DisplayACL(table, omit))
  /\ request # None => old # <<>> /\ (AddDrawn \/ DeleteDrawn)
  /\ rows # <<>> => request # None /\ rows = SideBySide(UnifiedDiff(old, new))
  /\ sent # None => rows # <<>> /\ sent = Command(request.plan)
  /\ after # None =>
       /\ Written
       /\ after \in TablesOf(Entries \cup {request.entry})
       /\ verified = Verdict(request.plan, DisplayACL(table, omit), DisplayACL(after, omit))

(* It holds at the start.                                                  *)
LEMMA HistoryInit == Init => History
<1> SUFFICES ASSUME Init PROVE History
  OBVIOUS
<1>1. form \in PageForms \cup OtherForms \cup {Blank}
  BY ReviewAssumption DEF Init
<1>2. table \in TablesOf(Entries)
  BY ReviewAssumption DEF Init, Tables, TablesOf
<1>3. QED
  BY <1>1, <1>2 DEF Init, History

(* The texts of given entries.                                             *)
TextsOf(E) == {None} \cup {e.body : e \in E} \cup {e.comment : e \in E}

(* They are the texts of those entries.                                    *)
LEMMA TextsAre == ASSUME NEW E PROVE Texts(E, TextsOf(E))
BY DEF Texts, TextsOf

(* And every step keeps it.                                                *)
LEMMA HistoryNext == History /\ [Next]_vars => History'
<1> SUFFICES ASSUME History, [Next]_vars PROVE History'
  OBVIOUS
<1> USE DEF History
<1>1. CASE Snapshot
  <2>1. \E k \in 1..Len(DisplayACL(table, omit)) : old' = SubSeq(DisplayACL(table, omit), 1, k)
    <3>1. /\ DisplayACL(table, omit) \in Seq(Lines(TextsOf(Entries)))
          /\ Len(DisplayACL(table, omit)) >= 2
      BY TextsAre, DisplayLines
    <3> DEFINE whole == DisplayACL(table, omit)
    <3> HIDE DEF whole
    <3>2. Len(whole) \in 1..Len(whole)
      BY <3>1, LenProperties DEF whole
    <3>3. QED
      BY <1>1, <3>2 DEF Snapshot, whole
  <2>2. Beginning(old', DisplayACL(table, omit))
    BY <2>1 DEF Beginning
  <2>3. old = <<>> /\ UNCHANGED <<asked, request, new, rows, sent, after, verified>>
    BY <1>1 DEF Snapshot
  <2>4. request = None
    BY <2>3
  <2>5. rows = <<>> /\ sent = None /\ after = None
    BY <2>3, <2>4 DEF Written
  <2>6. QED
    BY <2>2, <2>3, <2>4, <2>5 DEF asked
<1>2. CASE Submit
  <2>1. /\ request = None /\ old # <<>> /\ form # Blank /\ form.protocol # Blank
        /\ NextRuleID(old) # None /\ ValidateForAgent(AddPlan)
        /\ \E mark \in Marks :
             LET entry == [body |-> BuildRuleCmd(AddPlan), comment |-> mark]
             IN /\ request' = [plan |-> AddPlan, entry |-> entry]
                /\ new' = ExpectedConfig(old, NextRuleID(old), entry)
        /\ UNCHANGED <<asked, old, rows, sent, after, verified>>
    BY <1>2 DEF Submit, AddPlan, Marks
  <2>2. rows = <<>> /\ sent = None /\ after = None
    BY <2>1 DEF Written
  <2>3. AddPlan' = AddPlan /\ form' = form /\ old' = old /\ table' = table /\ omit' = omit
    BY <2>1 DEF AddPlan, asked
  <2>4. AddDrawn'
    BY <2>1, <2>3 DEF AddDrawn
  <2>5. QED
    BY <2>1, <2>2, <2>3, <2>4
<1>3. ASSUME NEW n \in Window, SubmitDelete(n) PROVE History'
  <2>1. /\ request = None /\ old # <<>> /\ form = Blank /\ CountRead(old) # None
        /\ n \in RuleIDs(old) \cap Window
        /\ request' = [plan |-> DeletePlan(n), entry |-> Absent]
        /\ new' = RemoveRuleFromConfig(old, n)
        /\ UNCHANGED <<asked, old, rows, sent, after, verified>>
    BY <1>3 DEF SubmitDelete
  <2>2. rows = <<>> /\ sent = None /\ after = None
    BY <2>1 DEF Written
  <2>3. DeleteDrawn'
    BY <2>1 DEF DeleteDrawn, asked
  <2>4. QED
    BY <2>1, <2>2, <2>3 DEF asked
<1>4. CASE ShowPage
  <2>1. /\ request # None /\ rows = <<>> /\ rows' = SideBySide(UnifiedDiff(old, new))
        /\ UNCHANGED <<asked, old, request, new, sent, after, verified>>
    BY <1>4 DEF ShowPage
  <2>2. sent = None /\ after = None
    BY <2>1 DEF Written
  <2>3. (AddDrawn \/ DeleteDrawn)'
    BY <2>1 DEF AddDrawn, DeleteDrawn, AddPlan, asked
  <2>4. QED
    BY <2>1, <2>2, <2>3 DEF asked
<1>5. CASE Execute
  <2>1. /\ rows # <<>> /\ sent = None /\ sent' = Command(request.plan)
        /\ UNCHANGED <<asked, old, request, new, rows, after, verified>>
    BY <1>5 DEF Execute, Command
  <2>2. after = None
    BY <2>1 DEF Written
  <2>3. (AddDrawn \/ DeleteDrawn)'
    BY <2>1 DEF AddDrawn, DeleteDrawn, AddPlan, asked
  <2>4. QED
    BY <2>1, <2>2, <2>3 DEF asked
<1>6. CASE Verify
  <2>1. /\ Written /\ after = None
        /\ verified' = Verdict(request.plan, DisplayACL(table, omit), DisplayACL(after', omit))
        /\ UNCHANGED <<asked, old, request, new, rows, sent>>
    BY <1>6 DEF Verify, Verdict
  <2>2. after' \in TablesOf(Entries \cup {request.entry})
    <3>1. CASE Thorough
      BY <1>6, <3>1 DEF Verify, TablesOf
    <3>2. CASE ~ Thorough
      <4>1. after' = table \/ after' = Approved
        BY <1>6, <3>2 DEF Verify
      <4>2. \A m : WithRule(table, m, request.entry) \in TablesOf(Entries \cup {request.entry})
        BY DEF WithRule, TablesOf
      <4>3. \A m : WithoutRule(table, m) \in TablesOf(Entries \cup {request.entry})
        BY DEF WithoutRule, TablesOf
      <4>4. table \in TablesOf(Entries \cup {request.entry})
        BY DEF TablesOf
      <4>5. QED
        BY <4>1, <4>2, <4>3, <4>4 DEF Approved
    <3>3. QED
      BY <3>1, <3>2
  <2>3. (AddDrawn \/ DeleteDrawn)'
    BY <2>1 DEF AddDrawn, DeleteDrawn, AddPlan, asked, Written
  <2>4. QED
    BY <2>1, <2>2, <2>3 DEF asked, Written
<1>7. CASE UNCHANGED vars
  BY <1>7 DEF vars, AddDrawn, DeleteDrawn, AddPlan, Written
<1>8. QED
  BY <1>1, <1>2, <1>3, <1>4, <1>5, <1>6, <1>7 DEF Next

(* The history holds in every state.                                       *)
THEOREM HistoryHolds == Spec => []History
BY HistoryInit, HistoryNext, PTL DEF Spec

-----------------------------------------------------------------------------
(* A request is drawn on a text that shows every rule.                     *)
LEMMA DrawnOnAll ==
  ASSUME History, request # None
  PROVE  RuleIDs(old) = Occupied(table) /\ CountRead(old) = Count(table)
<1>1. CountRead(old) # None
  <2>1. CASE AddDrawn
    BY <2>1 DEF AddDrawn, NextRuleID
  <2>2. CASE DeleteDrawn
    BY <2>2 DEF DeleteDrawn
  <2>3. QED
    BY <2>1, <2>2 DEF History
<1>2. Beginning(old, DisplayACL(table, omit)) /\ table \in TablesOf(Entries)
  BY DEF History
<1>3. QED
  BY <1>1, <1>2, TextsAre, CountedIsWhole

(* The greatest number in use, and the one after it.                       *)
LEMMA NextIsAllocated ==
  ASSUME NEW t, NEW s, RuleIDs(s) = Occupied(t), NextRuleID(s) # None
  PROVE  Allocates(t, NextRuleID(s)) /\ NextRuleID(s) \in RuleIds
<1> DEFINE used == Occupied(t) \cap Window
           next == IF used = {} THEN RangeMin ELSE Max(used) + 1
<1>1. RangeMin \in Nat /\ AllocMax \in Nat /\ RangeMin <= AllocMax /\ Window \subseteq RuleIds
  BY TableAssumption DEF Window
<1>2. NextRuleID(s) = next /\ ~ (next > AllocMax) /\ next \notin used
  BY DEF NextRuleID
<1>3. CASE used = {}
  <2>1. next = RangeMin /\ RangeMin \in Window
    BY <1>1, <1>3 DEF Window
  <2>2. QED
    BY <1>1, <1>2, <1>3, <2>1 DEF Allocates
<1>4. CASE used # {}
  <2>1. used \subseteq 0..AllocMax
    BY <1>1 DEF Window
  <2>2. Max(used) \in used /\ \A m \in used : Max(used) >= m
    <3> HIDE DEF used
    <3>1. QED
      BY <1>1, <1>4, <2>1, GreatestIs
  <2> DEFINE top == Max(used)
  <2>3. top \in Int /\ RangeMin <= top /\ next = top + 1
    <3>1. top \in Window
      BY <2>2
    <3>2. QED
      BY <1>1, <1>4, <3>1 DEF Window
  <2> HIDE DEF top
  <2>4. next \in Window /\ next - 1 = top
    <3> HIDE DEF next
    <3>1. QED
      BY <1>1, <1>2, <2>3 DEF Window
  <2>5. \A m \in used : m < next
    <3>1. \A m \in used : m \in Int /\ m <= top
      BY <2>1, <2>2 DEF top
    <3> HIDE DEF next, used
    <3>2. QED
      BY <2>3, <3>1
  <2>6. next - 1 \in used
    BY <2>2, <2>4 DEF top
  <2> HIDE DEF next
  <2>7. QED
    BY <1>1, <1>2, <2>4, <2>5, <2>6 DEF Allocates
<1>5. QED
  BY <1>3, <1>4

(* A request is never drawn on part of the ACL: its snapshot shows every   *)
(* rule the switch has, and the number allocated is the one the whole      *)
(* table allocates.                                                        *)
LEMMA DrawnWhole == History => DrawnOnWholeAcl
<1> SUFFICES ASSUME History, request # None
             PROVE  /\ RuleIDs(old) = Occupied(table)
                    /\ request.plan.op = "add" => Allocates(table, request.plan.number)
  BY DEF DrawnOnWholeAcl
<1>1. RuleIDs(old) = Occupied(table)
  BY DrawnOnAll
<1>2. CASE AddDrawn
  <2>1. NextRuleID(old) # None /\ request.plan = AddPlan
    BY <1>2 DEF AddDrawn
  <2>2. request.plan.number = NextRuleID(old)
    BY <2>1 DEF AddPlan, PlanOf
  <2>3. QED
    BY <1>1, <2>1, <2>2, NextIsAllocated
<1>3. CASE DeleteDrawn
  <2>1. PICK n : request.plan = DeletePlan(n)
    BY <1>3 DEF DeleteDrawn
  <2>2. request.plan.op = "delete"
    BY <2>1 DEF DeletePlan
  <2>3. QED
    BY <1>1, <2>2
<1>4. QED
  BY <1>2, <1>3 DEF History

(* The same in every state of the system (core.go:129-140, aclout.go:49-53).*)
THEOREM DrawnOnWholeAclHolds == Spec => []DrawnOnWholeAcl
BY HistoryHolds, DrawnWhole, PTL

-----------------------------------------------------------------------------
(* Powers of two.                                                          *)
LEMMA Pow2Is ==
  /\ AddrBits \in Nat \ {0} /\ PortBits \in Nat \ {0}
  /\ Pow2[0] = 1
  /\ \A k \in 1..AddrBits + PortBits : Pow2[k] = 2 * Pow2[k - 1]
  /\ \A k \in 0..AddrBits + PortBits : Pow2[k] \in Nat \ {0}
<1> DEFINE N == AddrBits + PortBits
           V == Nat \ {0}
           step == [p \in V \X (1..N) |-> 2 * p[1]]
           Body(f, k) == IF k = 0 THEN 1 ELSE 2 * f[k - 1]
<1>1. AddrBits \in Nat \ {0} /\ PortBits \in Nat \ {0} /\ N \in Nat
  BY PlanAssumption
<1>2. PICK run \in [0..N -> V] : Runs(run, N, 1, step)
  <2>1. \A x \in V : 2 * x \in V
    OBVIOUS
  <2>2. step \in [V \X (1..N) -> V] /\ 1 \in V
    <3>1. \A p \in V \X (1..N) : p[1] \in V
      OBVIOUS
    <3> HIDE DEF V, N
    <3>2. \A p \in V \X (1..N) : 2 * p[1] \in V
      BY <2>1, <3>1
    <3>3. QED
      BY <3>2 DEF V
  <2> HIDE DEF V, N, step
  <2>3. QED
    BY <1>1, <2>2, RunExists
<1>3. run[0] = 1 /\ \A k \in 1..N : run[k] = 2 * run[k - 1]
  <2>1. run[0] = 1 /\ \A k \in 1..N : run[k] = step[<<run[k - 1], k>>]
    BY <1>2 DEF Runs
  <2>2. ASSUME NEW k \in 1..N PROVE step[<<run[k - 1], k>>] = 2 * run[k - 1]
    <3> DEFINE p == <<run[k - 1], k>>
    <3>1. p \in V \X (1..N) /\ p[1] = run[k - 1]
      <4>1. k - 1 \in 0..N /\ run \in [0..N -> V]
        BY <1>1
      <4> HIDE DEF V, N
      <4>2. run[k - 1] \in V
        BY <4>1
      <4>3. QED
        BY <4>2
    <3> HIDE DEF p, V, N
    <3>2. step[p] = 2 * p[1]
      BY <3>1
    <3>3. QED
      BY <3>1, <3>2 DEF p
  <2>3. QED
    BY <2>1, <2>2
<1>4. run = [k \in 0..N |-> Body(run, k)]
  <2>1. \A k \in 0..N : run[k] = Body(run, k)
    <3> TAKE k \in 0..N
    <3>1. k = 0 \/ k \in 1..N
      BY <1>1
    <3> HIDE DEF N
    <3>2. QED
      BY <1>3, <3>1
  <2> HIDE DEF Body, N
  <2>2. QED
    BY <2>1
<1>5. Pow2 = [k \in 0..N |-> Body(Pow2, k)]
  <2>1. Pow2 = CHOOSE f : f = [k \in 0..N |-> Body(f, k)]
    BY DEF Pow2
  <2> HIDE DEF Body, N
  <2>2. QED
    BY <1>4, <2>1
<1>6. \A k \in 0..N : Pow2[k] = Body(Pow2, k)
  <2> HIDE DEF Body
  <2>1. QED
    BY <1>5
<1>7. Pow2[0] = 1 /\ \A k \in 1..N : Pow2[k] = 2 * Pow2[k - 1]
  <2>1. 0 \in 0..N /\ \A k \in 1..N : k \in 0..N /\ k # 0
    BY <1>1
  <2>2. Pow2[0] = 1
    BY <1>6, <2>1
  <2>3. \A k \in 1..N : Pow2[k] = 2 * Pow2[k - 1]
    BY <1>6, <2>1
  <2>4. QED
    BY <2>2, <2>3
<1> DEFINE T == {k \in 0..N : Pow2[k] \in V}
<1>8. 0..N \subseteq T
  <2>1. 0 \in T
    BY <1>1, <1>7
  <2>2. \A k \in 0..N : k < N /\ k \in T => k + 1 \in T
    <3> TAKE k \in 0..N
    <3> HAVE k < N /\ k \in T
    <3>1. k + 1 \in 1..N /\ k + 1 - 1 = k /\ k + 1 \in 0..N
      BY <1>1
    <3>2. Pow2[k + 1] = 2 * Pow2[k] /\ Pow2[k] \in V
      BY <1>7, <3>1
    <3>3. QED
      BY <3>1, <3>2
  <2> HIDE DEF T, N
  <2>3. QED
    BY <1>1, <2>1, <2>2, BoundedInduction
<1>9. QED
  BY <1>1, <1>7, <1>8

(* A power of two is the product of two.                                   *)
LEMMA Pow2Splits ==
  ASSUME NEW i \in 0..AddrBits
  PROVE  Pow2[AddrBits] = Pow2[i] * Pow2[AddrBits - i]
<1> DEFINE B == AddrBits
           T == {k \in 0..B : Pow2[B] = Pow2[B - k] * Pow2[k]}
<1>1. B \in Nat \ {0} /\ PortBits \in Nat \ {0}
  BY Pow2Is
<1>2. /\ Pow2[0] = 1
      /\ \A k \in 1..B : Pow2[k] = 2 * Pow2[k - 1]
      /\ \A k \in 0..B : Pow2[k] \in Nat \ {0}
  <2>1. \A k \in 0..B : k \in 0..B + PortBits
    BY <1>1
  <2>2. \A k \in 1..B : k \in 1..B + PortBits
    BY <1>1
  <2> HIDE DEF B
  <2>3. QED
    BY <2>1, <2>2, Pow2Is DEF B
<1> HIDE DEF B
<1>3. 0 \in T
  <2>1. B - 0 = B /\ 0 \in 0..B /\ B \in 0..B
    BY <1>1
  <2>2. QED
    BY <1>2, <2>1
<1>4. \A k \in 0..B : k < B /\ k \in T => k + 1 \in T
  <2> TAKE k \in 0..B
  <2> HAVE k < B /\ k \in T
  <2> DEFINE j == B - k
             a == Pow2[j - 1]
             b == Pow2[k]
  <2>1. j \in 1..B /\ B - (k + 1) = j - 1 /\ k + 1 \in 1..B /\ k + 1 - 1 = k /\ j - 1 \in 0..B
    BY <1>1
  <2>2. Pow2[j] = 2 * a /\ Pow2[k + 1] = 2 * b /\ Pow2[B] = Pow2[j] * b
    <3>1. Pow2[j] = 2 * Pow2[j - 1] /\ Pow2[k + 1] = 2 * Pow2[k + 1 - 1]
      BY <1>2, <2>1
    <3>2. QED
      BY <2>1, <3>1
  <2>3. a \in Nat /\ b \in Nat
    BY <1>2, <2>1
  <2> HIDE DEF a, b, j
  <2>4. (2 * a) * b = a * (2 * b)
    BY <2>3
  <2>5. Pow2[B] = Pow2[B - (k + 1)] * Pow2[k + 1]
    BY <2>1, <2>2, <2>4 DEF a
  <2>6. QED
    BY <2>1, <2>5
<1>5. 0..B \subseteq T
  <2> HIDE DEF T
  <2>1. QED
    BY <1>1, <1>3, <1>4, BoundedInduction
<1>6. B - i \in T /\ B - (B - i) = i
  BY <1>1, <1>5 DEF B
<1>7. QED
  BY <1>6 DEF B

(* One less than a product, divided by one factor.                         *)
LEMMA OneLess ==
  ASSUME NEW p \in Nat \ {0}, NEW q \in Nat \ {0}
  PROVE  (p * q - 1) \div p = q - 1
OBVIOUS

(* An odd number.                                                          *)
LEMMA Odd ==
  ASSUME NEW q \in Nat \ {0}
  PROVE  (2 * q - 1) % 2 = 1
<1>1. q - 1 \in Nat /\ 2 * q - 1 = 2 * (q - 1) + 1
  OBVIOUS
<1>2. \A r \in Nat : (2 * r + 1) % 2 = 1
  OBVIOUS
<1>3. QED
  BY <1>1, <1>2

(* Every bit of AllOnes is set.                                            *)
LEMMA AllOnesIs ==
  \A i \in 0..AddrBits - 1 : Bit(AllOnes, i) = 1
<1> TAKE i \in 0..AddrBits - 1
<1> DEFINE p == Pow2[i]
           q == Pow2[AddrBits - i]
           h == Pow2[AddrBits - i - 1]
<1>1. AddrBits \in Nat \ {0} /\ PortBits \in Nat \ {0}
  BY Pow2Is
<1>2. /\ i \in 0..AddrBits /\ i \in 0..AddrBits + PortBits
      /\ AddrBits - i \in 1..AddrBits + PortBits /\ AddrBits - i \in 0..AddrBits + PortBits
      /\ AddrBits - i - 1 \in 0..AddrBits + PortBits
  BY <1>1
<1>3. p \in Nat \ {0} /\ q \in Nat \ {0} /\ h \in Nat \ {0} /\ q = 2 * h
  BY <1>2, Pow2Is
<1>4. AllOnes = p * q - 1
  BY <1>2, Pow2Splits DEF AllOnes
<1> HIDE DEF p, q, h
<1>5. AllOnes \div p = q - 1
  BY <1>3, <1>4, OneLess
<1>6. (q - 1) % 2 = 1
  BY <1>3, Odd
<1>7. QED
  BY <1>5, <1>6 DEF Bit, p

(* The wildcard of all ones.                                               *)
LEMMA MatchesAll == Matched([ip |-> 0, wildcard |-> AllOnes]) = Words
<1>1. /\ [ip |-> 0, wildcard |-> AllOnes].wildcard = AllOnes
      /\ [ip |-> 0, wildcard |-> AllOnes].ip # Six
  BY PlanAssumption
<1>2. \A i \in 0..AddrBits - 1 : Bit(AllOnes, i) # 0
  BY AllOnesIs
<1>3. QED
  BY <1>1, <1>2 DEF Matched

-----------------------------------------------------------------------------
(* The fields a form can have.                                             *)
Addresses == Words \cup {Blank, Junk, Six}
FormFields(f) ==
  /\ f.protocol \in Protocols \cup {Blank}
  /\ f.src \in Addresses /\ f.srcWildcard \in Addresses
  /\ f.dst \in Addresses /\ f.dstWildcard \in Addresses
  /\ f.srcOp \in {"eq", "gt", "lt", "neq", "range", "any", Blank} /\ f.srcPort \in Nat
  /\ f.dstOp \in {"eq", "gt", "lt", "neq", "any", Blank} /\ f.dstPort \in Nat

(* Words and ports have at least two values.                               *)
LEMMA TwoAtLeast == /\ Pow2[AddrBits] \in Nat /\ Pow2[AddrBits] >= 2
                    /\ Pow2[PortBits] \in Nat /\ Pow2[PortBits] >= 2
                    /\ {0, 1, AllOnes} \subseteq Words
<1>1. AddrBits \in Nat \ {0} /\ PortBits \in Nat \ {0}
  BY Pow2Is
<1>2. /\ AddrBits \in 1..AddrBits + PortBits /\ AddrBits - 1 \in 0..AddrBits + PortBits
      /\ PortBits \in 1..AddrBits + PortBits /\ PortBits - 1 \in 0..AddrBits + PortBits
  BY <1>1
<1>3. /\ Pow2[AddrBits] = 2 * Pow2[AddrBits - 1] /\ Pow2[AddrBits - 1] \in Nat \ {0}
      /\ Pow2[PortBits] = 2 * Pow2[PortBits - 1] /\ Pow2[PortBits - 1] \in Nat \ {0}
  BY <1>2, Pow2Is
<1>4. QED
  BY <1>3 DEF Words, AllOnes

(* Every form that is tried has these fields.                              *)
LEMMA FormsAre == \A f \in PageForms \cup OtherForms : FormFields(f)
<1> TAKE f \in PageForms \cup OtherForms
<1>1. Pow2[PortBits] \in Nat /\ \A p \in Ports : p \in Nat
  BY TwoAtLeast DEF Ports
<1>2. CASE f \in PageForms
  <2>1. /\ f.protocol \in {"tcp", "udp", "ip"} /\ f.src \in Words \cup {Blank}
        /\ f.srcWildcard = Blank /\ f.srcOp = Blank /\ f.srcPort = 0
        /\ f.dst \in Words /\ f.dstWildcard \in Words /\ f.dstOp \in {"eq", Blank}
        /\ f.dstPort \in Ports
    BY <1>2 DEF PageForms
  <2>2. f.srcPort \in Nat /\ f.dstPort \in Nat
    <3>1. f.srcPort = 0 /\ f.dstPort \in Ports
      BY <2>1
    <3>2. f.dstPort \in Nat
      BY <1>1, <3>1
    <3>3. f.srcPort \in Nat
      BY <3>1
    <3>4. QED
      BY <3>2, <3>3
  <2>3. f.protocol \in Protocols \cup {Blank} /\ f.src \in Addresses /\ f.srcWildcard \in Addresses
    BY <2>1 DEF Addresses, Protocols
  <2>4. f.dst \in Addresses /\ f.dstWildcard \in Addresses
    BY <2>1 DEF Addresses
  <2>5. f.srcOp = Blank /\ f.dstOp \in {"eq", Blank}
    BY <2>1
  <2>6. QED
    BY <2>2, <2>3, <2>4, <2>5 DEF FormFields
<1>3. CASE f \in OtherForms
  <2>1. /\ f.protocol \in {"tcp", "icmp", Blank} /\ f.src \in {0, 1, Blank, Junk, Six}
        /\ f.srcWildcard \in {0, AllOnes, Blank, Junk, Six}
        /\ f.srcOp \in {"gt", "range", Blank}
        /\ f.srcPort \in {0, 1, Pow2[PortBits] + 1} /\ f.dst \in {0, 1, Blank, Junk, Six}
        /\ f.dstWildcard \in {0, AllOnes, Blank, Junk, Six} /\ f.dstOp \in {"lt", "neq", "any"}
        /\ f.dstPort \in {0, 1, Pow2[PortBits]}
    BY <1>3 DEF OtherForms
  <2>2. f.srcPort \in Nat /\ f.dstPort \in Nat
    BY <1>1, <2>1
  <2>3. QED
    BY <2>1, <2>2, TwoAtLeast DEF FormFields, Addresses, Protocols
<1>4. QED
  BY <1>2, <1>3

(* The plan of a form, field by field.                                     *)
LEMMA PlanIs ==
  ASSUME NEW f \in PageForms \cup OtherForms, NEW n
  PROVE  LET p == PlanOf(Normalize(f), n) IN
         /\ p.op = "add" /\ p.number = n /\ p.protocol = f.protocol
         /\ p.src = AddrMask(f.src, Default(f.src, f.srcWildcard))
         /\ p.dst = [ip |-> f.dst, wildcard |-> Default(f.dst, f.dstWildcard)]
         /\ p.srcPort = PortCond(IF f.srcPort = 0 THEN Blank ELSE f.srcOp, f.srcPort)
         /\ p.dstPort = PortCond(IF f.dstPort = 0 THEN Blank ELSE f.dstOp, f.dstPort)
<1> DEFINE g == Normalize(f)
<1>1. /\ g.protocol = f.protocol /\ g.src = f.src /\ g.dst = f.dst
      /\ g.srcWildcard = Default(f.src, f.srcWildcard)
      /\ g.dstWildcard = Default(f.dst, f.dstWildcard)
      /\ g.srcOp = IF f.srcPort = 0 THEN Blank ELSE f.srcOp
      /\ g.dstOp = IF f.dstPort = 0 THEN Blank ELSE f.dstOp
      /\ g.srcPort = IF f.srcOp = Blank THEN 0 ELSE f.srcPort
      /\ g.dstPort = IF f.dstOp = Blank THEN 0 ELSE f.dstPort
  BY DEF Normalize, PageForms, OtherForms
<1> HIDE DEF g
<1>2. PortCond(g.srcOp, g.srcPort) = PortCond(IF f.srcPort = 0 THEN Blank ELSE f.srcOp, f.srcPort)
  BY <1>1 DEF PortCond
<1>3. PortCond(g.dstOp, g.dstPort) = PortCond(IF f.dstPort = 0 THEN Blank ELSE f.dstOp, f.dstPort)
  BY <1>1 DEF PortCond
<1> DEFINE p == PlanOf(g, n)
<1>4. /\ p.op = "add" /\ p.number = n /\ p.protocol = g.protocol
      /\ p.src = AddrMask(g.src, g.srcWildcard)
      /\ p.dst = [ip |-> g.dst, wildcard |-> g.dstWildcard]
      /\ p.srcPort = PortCond(g.srcOp, g.srcPort)
      /\ p.dstPort = PortCond(g.dstOp, g.dstPort)
  BY DEF PlanOf
<1> HIDE DEF p
<1>5. p = PlanOf(Normalize(f), n)
  BY DEF p, g
<1>6. QED
  BY <1>1, <1>2, <1>3, <1>4, <1>5

(* The plan says nothing of a source exactly where the form does, nor of a *)
(* port.                                                                   *)
LEMMA BlanksAre ==
  ASSUME NEW f \in PageForms \cup OtherForms
  PROVE  /\ AddrMask(f.src, Default(f.src, f.srcWildcard)) = Blank <=> f.src = Blank
         /\ f.dst # Blank => [ip |-> f.dst, wildcard |-> Default(f.dst, f.dstWildcard)] # Blank
         /\ \A op \in Operators \cup {"any", Blank}, value \in Nat :
              PortCond(op, value) = Blank <=> op = Blank
<1>1. FormFields(f)
  BY FormsAre
<1>2. \A ip \in Words \cup {Junk, Six}, w \in Words \cup {Blank, Junk, Six} :
        [ip |-> ip, wildcard |-> w] # Blank
  BY RecordAssumption
<1>3. \A ip \in Addresses, w \in Addresses : Default(ip, w) \in Words \cup {Blank, Junk, Six}
  BY TwoAtLeast DEF Default, Addresses
<1>4. AddrMask(f.src, Default(f.src, f.srcWildcard)) = Blank <=> f.src = Blank
  BY <1>1, <1>2, <1>3 DEF AddrMask, FormFields, Addresses
<1>5. f.dst # Blank => [ip |-> f.dst, wildcard |-> Default(f.dst, f.dstWildcard)] # Blank
  BY <1>1, <1>2, <1>3 DEF FormFields, Addresses
<1>6. \A value \in Nat : value % Pow2[PortBits] \in Ports
  BY TwoAtLeast DEF Ports
<1>7. \A op \in Operators \cup {"any"}, v \in Ports : [op |-> op, value |-> v, low |-> 0, high |-> 0] # Blank
  BY RecordAssumption
<1>8. \A op \in Operators \cup {"any", Blank}, value \in Nat : PortCond(op, value) = Blank <=> op = Blank
  BY <1>6, <1>7 DEF PortCond
<1>9. QED
  BY <1>4, <1>5, <1>8

-----------------------------------------------------------------------------
(* What the agent's limits forbid is what the form asks for.               *)
LEMMA BroadIsAsked ==
  ASSUME NEW f \in PageForms \cup OtherForms, NEW n,
         ValidRuleFields(PlanOf(Normalize(f), n)), TooBroad(PlanOf(Normalize(f), n))
  PROVE  AskedTooMuch(f)
<1> DEFINE p == PlanOf(Normalize(f), n)
           d == [ip |-> f.dst, wildcard |-> Default(f.dst, f.dstWildcard)]
<1>1. p.protocol = f.protocol /\ p.src = AddrMask(f.src, Default(f.src, f.srcWildcard)) /\ p.dst = d
  BY PlanIs
<1>2. ValidAddrMask(p.dst) /\ TooBroad(p)
  BY DEF ValidRuleFields
<1> HIDE DEF p
<1>3. f.dst # Blank
  BY <1>1, <1>2 DEF ValidAddrMask
<1>4. p.dst # Blank
  BY <1>1, <1>3, BlanksAre
<1>5. CASE p.protocol = "ip"
  BY <1>1, <1>5 DEF AskedTooMuch
<1>6. CASE p.src = Blank /\ p.dst = [ip |-> 0, wildcard |-> AllOnes]
  <2>1. f.src = Blank
    BY <1>1, <1>6, BlanksAre
  <2>2. f.dst = 0 /\ Default(f.dst, f.dstWildcard) = AllOnes
    BY <1>1, <1>6
  <2>3. Matched(d) = Words
    BY <2>2, MatchesAll
  <2>4. AskedAddresses(f.dst, f.dstWildcard) = Matched(d)
    BY <1>3 DEF AskedAddresses, Default
  <2>5. QED
    BY <2>1, <2>3, <2>4 DEF AskedTooMuch
<1>7. QED
  BY <1>2, <1>4, <1>5, <1>6 DEF TooBroad

(* A command is no refusal.                                                *)
LEMMA UndoIsNoRefusal == \A n : [undo |-> n] # Refusal
<1> SUFFICES ASSUME NEW n, [undo |-> n] = [refused |-> TRUE] PROVE FALSE
  BY DEF Refusal
<1>1. DOMAIN [undo |-> n] = DOMAIN [refused |-> TRUE]
  OBVIOUS
<1>2. QED
  BY <1>1

(* Nor is the command for a new rule.                                      *)
LEMMA RuleIsNoRefusal == \A p : BuildRuleCmd(p) # Refusal
<1> SUFFICES ASSUME NEW a, NEW b, NEW c, NEW d, NEW e,
                    [protocol |-> a, from |-> b, fromPorts |-> c, to |-> d, toPorts |-> e]
                      = [refused |-> TRUE]
             PROVE FALSE
  BY DEF Refusal, BuildRuleCmd
<1>1. DOMAIN [protocol |-> a, from |-> b, fromPorts |-> c, to |-> d, toPorts |-> e]
        = DOMAIN [refused |-> TRUE]
  OBVIOUS
<1>2. QED
  BY <1>1

(* What aclweb accepted and a human approved the agent executes, except    *)
(* what its own limits forbid a new rule.                                  *)
LEMMA Executable == History => AcceptedIsExecutable
<1> SUFFICES ASSUME History, sent = Refusal PROVE form # Blank /\ AskedTooMuch(form)
  BY DEF AcceptedIsExecutable
<1>1. sent # None
  BY ReviewAssumption
<1>2. Command(request.plan) = Refusal /\ (AddDrawn \/ DeleteDrawn)
  BY <1>1 DEF History
<1>3. CASE AddDrawn
  <2>1. request.plan = AddPlan /\ form # Blank /\ ValidateForAgent(AddPlan)
    BY <1>3 DEF AddDrawn
  <2>2. form \in PageForms \cup OtherForms
    BY <2>1 DEF History
  <2>3. AddPlan.op = "add"
    BY <2>2, PlanIs, ZenonT(60) DEF AddPlan
  <2>4. ~ AbsoluteGuard(AddPlan)
    BY <1>2, <2>1, <2>3, RuleIsNoRefusal DEF Command
  <2>5. TooBroad(AddPlan) /\ ValidRuleFields(AddPlan)
    BY <2>1, <2>3, <2>4 DEF AbsoluteGuard, ValidateForAgent
  <2>6. QED
    BY <2>1, <2>2, <2>5, BroadIsAsked DEF AddPlan
<1>4. CASE DeleteDrawn
  <2>1. PICK n \in Window : request.plan = DeletePlan(n)
    BY <1>4 DEF DeleteDrawn
  <2>2. DeletePlan(n).op = "delete" /\ DeletePlan(n).number = n
    BY DEF DeletePlan
  <2>3. RangeMin <= n /\ n <= RangeMax
    BY PlanAssumption, TableAssumption DEF Window
  <2>4. ValidateForAgent(DeletePlan(n)) /\ AbsoluteGuard(DeletePlan(n))
    BY <2>2, <2>3 DEF ValidateForAgent, AbsoluteGuard
  <2>5. Command(DeletePlan(n)) = [undo |-> n]
    BY <2>2, <2>4 DEF Command
  <2>6. QED
    BY <1>2, <2>1, <2>5, UndoIsNoRefusal
<1>5. QED
  BY <1>2, <1>3, <1>4

(* The same in every state of the system (main.go:288-307).                *)
THEOREM AcceptedIsExecutableHolds == Spec => []AcceptedIsExecutable
BY HistoryHolds, Executable, PTL

-----------------------------------------------------------------------------
(* The ports of a condition the form can carry and the plan fits.          *)
LEMMA PortsAreAsked ==
  ASSUME NEW op \in {"eq", "lt", "gt", "neq"}, NEW port \in Ports
  PROVE  PortsOf([op |-> op, value |-> port % Pow2[PortBits], low |-> 0, high |-> 0])
           = PortsOf([op |-> op, value |-> port, low |-> port, high |-> port])
<1>1. port % Pow2[PortBits] = port
  BY TwoAtLeast DEF Ports
<1> DEFINE c == [op |-> op, value |-> port % Pow2[PortBits], low |-> 0, high |-> 0]
           d == [op |-> op, value |-> port, low |-> port, high |-> port]
<1>2. c.op = op /\ d.op = op /\ c.value = port /\ d.value = port
  BY <1>1
<1> HIDE DEF c, d
<1>3. PortsOf(c) = PortsOf(d)
  BY <1>2 DEF PortsOf
<1>4. QED
  BY <1>3 DEF c, d

(* The command of an accepted plan lets through what the form asked for.   *)
LEMMA CommandIsAsked ==
  ASSUME NEW f \in PageForms \cup OtherForms, NEW n,
         ValidRuleFields(PlanOf(Normalize(f), n)),
         f \in PageForms \/ FitsThePlan(f)
  PROVE  BuildRuleCmd(PlanOf(Normalize(f), n)) = AskedRule(f)
<1> DEFINE p == PlanOf(Normalize(f), n)
           srcOp == IF f.srcPort = 0 THEN Blank ELSE f.srcOp
           dstOp == IF f.dstPort = 0 THEN Blank ELSE f.dstOp
           d == [ip |-> f.dst, wildcard |-> Default(f.dst, f.dstWildcard)]
<1>1. /\ p.protocol = f.protocol /\ p.dst = d
      /\ p.src = AddrMask(f.src, Default(f.src, f.srcWildcard))
      /\ p.srcPort = PortCond(srcOp, f.srcPort)
      /\ p.dstPort = PortCond(dstOp, f.dstPort)
  BY PlanIs
<1>2. FormFields(f)
  BY FormsAre
<1>3. /\ ValidAddrMask(p.dst)
      /\ p.dstPort # Blank => ValidPortCond(p.dstPort)
      /\ p.srcPort # Blank => ValidPortCond(p.srcPort)
  BY DEF ValidRuleFields
<1>4. /\ p.src = Blank <=> f.src = Blank
      /\ p.srcPort = Blank <=> (f.srcPort = 0 \/ f.srcOp = Blank)
      /\ p.dstPort = Blank <=> (f.dstPort = 0 \/ f.dstOp = Blank)
  <2>1. /\ srcOp \in Operators \cup {"any", Blank} /\ dstOp \in Operators \cup {"any", Blank}
        /\ f.srcPort \in Nat /\ f.dstPort \in Nat
    BY <1>2 DEF FormFields, Operators
  <2>2. PortCond(srcOp, f.srcPort) = Blank <=> srcOp = Blank
    BY <2>1, BlanksAre
  <2>3. PortCond(dstOp, f.dstPort) = Blank <=> dstOp = Blank
    BY <2>1, BlanksAre
  <2> HIDE DEF p
  <2>4. QED
    BY <1>1, <2>2, <2>3, BlanksAre
<1>5. f.dst # Blank
  <2> HIDE DEF p
  <2>1. QED
    BY <1>1, <1>3 DEF ValidAddrMask
<1>6. f.srcPort \in Ports /\ f.dstPort \in Ports
  BY TwoAtLeast DEF FitsThePlan, PageForms, Ports
<1>7. f.src = Blank => f.srcOp = Blank \/ f.srcPort = 0
  BY DEF FitsThePlan, PageForms
<1> HIDE DEF p
<1>8. (IF p.src = Blank THEN Words ELSE Matched(p.src)) = AskedAddresses(f.src, f.srcWildcard)
  BY <1>1, <1>4 DEF AskedAddresses, AddrMask, Default
<1>9. Matched(p.dst) = AskedAddresses(f.dst, f.dstWildcard)
  BY <1>1, <1>5 DEF AskedAddresses, Default
<1>10. (IF p.src = Blank \/ p.srcPort = Blank THEN Ports ELSE PortsOf(p.srcPort))
         = AskedPorts(f.srcOp, f.srcPort)
  <2>1. CASE f.srcPort = 0 \/ f.srcOp = Blank
    BY <1>4, <2>1 DEF AskedPorts
  <2>2. CASE ~ (f.srcPort = 0 \/ f.srcOp = Blank)
    <3>1. p.src # Blank /\ p.srcPort # Blank
      BY <1>4, <1>7, <2>2
    <3>2. p.srcPort = [op |-> f.srcOp, value |-> f.srcPort % Pow2[PortBits], low |-> 0, high |-> 0]
      BY <1>1, <2>2 DEF PortCond
    <3>3. f.srcOp \in Operators
      BY <1>3, <3>1, <3>2 DEF ValidPortCond
    <3>4. f.srcOp # "range"
      BY <2>2 DEF FitsThePlan, PageForms
    <3>5. f.srcOp \in {"eq", "lt", "gt", "neq"}
      BY <3>3, <3>4 DEF Operators
    <3>6. PortsOf(p.srcPort) = AskedPorts(f.srcOp, f.srcPort)
      BY <1>6, <2>2, <3>2, <3>5, PortsAreAsked DEF AskedPorts
    <3>7. QED
      BY <3>1, <3>6
  <2>3. QED
    BY <2>1, <2>2
<1>11. (IF p.dstPort = Blank THEN Ports ELSE PortsOf(p.dstPort)) = AskedPorts(f.dstOp, f.dstPort)
  <2>1. CASE f.dstPort = 0 \/ f.dstOp = Blank
    BY <1>4, <2>1 DEF AskedPorts
  <2>2. CASE ~ (f.dstPort = 0 \/ f.dstOp = Blank)
    <3>1. p.dstPort # Blank
      BY <1>4, <2>2
    <3>2. p.dstPort = [op |-> f.dstOp, value |-> f.dstPort % Pow2[PortBits], low |-> 0, high |-> 0]
      BY <1>1, <2>2 DEF PortCond
    <3>3. f.dstOp \in Operators
      BY <1>3, <3>1, <3>2 DEF ValidPortCond
    <3>4. f.dstOp \in {"eq", "lt", "gt", "neq"}
      BY <1>2, <2>2, <3>3 DEF Operators, FormFields
    <3>5. PortsOf(p.dstPort) = AskedPorts(f.dstOp, f.dstPort)
      BY <1>6, <2>2, <3>2, <3>4, PortsAreAsked DEF AskedPorts
    <3>6. QED
      BY <3>1, <3>5
  <2>3. QED
    BY <2>1, <2>2
<1>12. BuildRuleCmd(p) = AskedRule(f)
  BY <1>1, <1>8, <1>9, <1>10, <1>11 DEF BuildRuleCmd, AskedRule
<1>13. QED
  BY <1>12 DEF p

-----------------------------------------------------------------------------

(* The copy of a text without the lines of one rule, line by line.         *)
Copies(run, s, n) ==
  /\ run[0] = <<>>
  /\ \A k \in 1..Len(s) :
       run[k] = IF OfRule(s[k]) /\ s[k].n = n THEN run[k - 1] ELSE Append(run[k - 1], s[k])

(* The copying loop passes such texts.                                     *)
LEMMA CopyRun ==
  ASSUME NEW S, NEW s \in Seq(S), NEW n
  PROVE  \E run \in [0..Len(s) -> Seq(S)] : Copies(run, s, n) /\ LinesWithout(s, n) = run[Len(s)]
<1> DEFINE V == Seq(S)
           N == Len(s)
           Body(x, k) == IF OfRule(s[k]) /\ s[k].n = n THEN x ELSE Append(x, s[k])
           step == [p \in V \X (1..N) |-> Body(p[1], p[2])]
           Iter(it) == it = [w \in SUBSET (1..N) |->
                               IF w = {} THEN <<>> ELSE Body(it[w \ {Max(w)}], Max(w))]
           it == CHOOSE it : Iter(it)
<1>1. N \in Nat /\ <<>> \in V /\ DOMAIN s = 1..N
  OBVIOUS
<1>2. \A x \in V, k \in 1..N : Body(x, k) \in V
  OBVIOUS
<1>3. /\ step \in [V \X (1..N) -> V]
      /\ \A x \in V, k \in 1..N : step[<<x, k>>] = Body(x, k)
  <2>1. \A p \in V \X (1..N) : p[1] \in V /\ p[2] \in 1..N
    OBVIOUS
  <2>2. \A x \in V, k \in 1..N : <<x, k>> \in V \X (1..N) /\ <<x, k>>[1] = x /\ <<x, k>>[2] = k
    OBVIOUS
  <2> HIDE DEF V, N, Body
  <2>3. QED
    BY <1>2, <2>1, <2>2
<1>4. LinesWithout(s, n) = it[1..N]
  BY <1>1 DEF LinesWithout, FoldLeft, MapThenFoldSet
<1>5. Iter(it)
  <2> HIDE DEF V, N, step, Body
  <2>0. N \in Nat /\ <<>> \in V /\ step \in [V \X (1..N) -> V]
    BY <1>1, <1>3
  <2>1. PICK f \in [SUBSET (1..N) -> V] : Solves(f, N, <<>>, step)
    BY <2>0, FoldSolved
  <2>2. ASSUME NEW w \in SUBSET (1..N), w # {} PROVE f[w] = Body(f[w \ {Max(w)}], Max(w))
    <3>1. Max(w) \in 1..N /\ w \ {Max(w)} \in SUBSET (1..N)
      BY <1>1, <2>2, PickGreatest
    <3>2. f[w] = step[<<f[w \ {Max(w)}], Max(w)>>]
      BY <2>1, <2>2 DEF Solves
    <3>3. QED
      BY <1>3, <3>1, <3>2
  <2>3. f = [w \in SUBSET (1..N) |-> IF w = {} THEN <<>> ELSE Body(f[w \ {Max(w)}], Max(w))]
    BY <2>1, <2>2 DEF Solves
  <2>4. QED
    BY <2>3
<1>6. PICK run \in [0..N -> V] : Runs(run, N, <<>>, step) /\ it[1..N] = run[N]
  <2>1. it[{}] = <<>>
    <3>1. {} \in SUBSET (1..N)
      OBVIOUS
    <3> HIDE DEF it, N, Body
    <3>2. QED
      BY <1>5, <3>1
  <2> HIDE DEF it, N, Body, step, V, Iter
  <2>2. \A w \in SUBSET (1..N) :
          w # {} /\ it[w \ {Max(w)}] \in V => it[w] = step[<<it[w \ {Max(w)}], Max(w)>>]
    <3> TAKE w \in SUBSET (1..N)
    <3> HAVE w # {} /\ it[w \ {Max(w)}] \in V
    <3>1. Max(w) \in 1..N
      BY <1>1, PickGreatest
    <3>2. it[w] = Body(it[w \ {Max(w)}], Max(w))
      BY <1>5 DEF Iter
    <3>3. QED
      BY <1>3, <3>1, <3>2
  <2>3. Unrolls(it, V, N, <<>>, step)
    BY <2>1, <2>2 DEF Unrolls
  <2>4. N \in Nat /\ <<>> \in V /\ step \in [V \X (1..N) -> V]
    BY <1>1, <1>3
  <2>5. \E run \in [0..N -> V] : RunOf(run, it, N, <<>>, step)
    BY <2>3, <2>4, FoldRun
  <2>6. QED
    BY <2>5 DEF RunOf
<1>7. Copies(run, s, n)
  <2> HIDE DEF N, step, V, it
  <2>1. run[0] = <<>>
    BY <1>6 DEF Runs
  <2>2. ASSUME NEW k \in 1..N PROVE run[k] = Body(run[k - 1], k)
    <3>1. run[k] = step[<<run[k - 1], k>>]
      BY <1>6 DEF Runs
    <3>2. k - 1 \in 0..N
      BY <1>1
    <3>3. run[k - 1] \in V
      BY <1>6, <3>2
    <3> HIDE DEF Body
    <3>4. QED
      BY <1>3, <3>1, <3>3
  <2>3. QED
    BY <2>1, <2>2 DEF Copies, N
<1>8. QED
  <2> HIDE DEF it
  <2>1. QED
    BY <1>4, <1>6, <1>7

(* No line of another rule is lost, and none of this one is kept.          *)
LEMMA WithoutNone ==
  ASSUME NEW S, NEW s \in Seq(S), NEW n, \A i \in 1..Len(s) : ~ (OfRule(s[i]) /\ s[i].n = n)
  PROVE  LinesWithout(s, n) = s
<1>1. PICK run \in [0..Len(s) -> Seq(S)] : Copies(run, s, n) /\ LinesWithout(s, n) = run[Len(s)]
  BY CopyRun
<1> DEFINE N == Len(s)
           T == {k \in 0..N : run[k] = SubSeq(s, 1, k)}
<1>2. N \in Nat
  OBVIOUS
<1>3. 0 \in T
  <2>1. SubSeq(s, 1, 0) = <<>>
    OBVIOUS
  <2>2. QED
    BY <1>1, <1>2, <2>1 DEF Copies
<1>4. \A k \in 0..N : k < N /\ k \in T => k + 1 \in T
  <2> TAKE k \in 0..N
  <2> HAVE k < N /\ k \in T
  <2> DEFINE j == k + 1
  <2>1. j \in 1..N /\ j - 1 = k /\ j \in 0..N /\ k \in Nat
    OBVIOUS
  <2>2. run[j - 1] = SubSeq(s, 1, j - 1)
    BY <2>1
  <2>3. SubSeq(s, 1, j) = Append(SubSeq(s, 1, j - 1), s[j])
    OBVIOUS
  <2> HIDE DEF j
  <2>4. run[j] = Append(run[j - 1], s[j])
    BY <1>1, <2>1 DEF Copies
  <2>5. run[j] = SubSeq(s, 1, j)
    BY <2>2, <2>3, <2>4
  <2>6. QED
    BY <2>1, <2>5 DEF j
<1>5. N \in T
  <2> HIDE DEF T, N
  <2>1. 0..N \subseteq T
    BY <1>2, <1>3, <1>4, BoundedInduction
  <2>2. QED
    BY <1>2, <2>1
<1>6. SubSeq(s, 1, N) = s
  OBVIOUS
<1>7. QED
  BY <1>1, <1>5, <1>6

(* Nothing is left of a text that is all the rule's own.                   *)
LEMMA WithoutAll ==
  ASSUME NEW S, NEW s \in Seq(S), NEW n, \A i \in 1..Len(s) : OfRule(s[i]) /\ s[i].n = n
  PROVE  LinesWithout(s, n) = <<>>
<1>1. PICK run \in [0..Len(s) -> Seq(S)] : Copies(run, s, n) /\ LinesWithout(s, n) = run[Len(s)]
  BY CopyRun
<1> DEFINE N == Len(s)
           T == {k \in 0..N : run[k] = <<>>}
<1>2. N \in Nat
  OBVIOUS
<1>3. 0 \in T
  BY <1>1, <1>2 DEF Copies
<1>4. \A k \in 0..N : k < N /\ k \in T => k + 1 \in T
  <2> TAKE k \in 0..N
  <2> HAVE k < N /\ k \in T
  <2> DEFINE j == k + 1
  <2>1. j \in 1..N /\ j - 1 = k /\ j \in 0..N /\ k \in Nat /\ run[j - 1] = <<>>
    OBVIOUS
  <2> HIDE DEF j
  <2>2. run[j] = run[j - 1]
    BY <1>1, <2>1 DEF Copies
  <2>3. QED
    BY <2>1, <2>2 DEF j
<1>5. N \in T
  <2> HIDE DEF T, N
  <2>1. 0..N \subseteq T
    BY <1>2, <1>3, <1>4, BoundedInduction
  <2>2. QED
    BY <1>2, <2>1
<1>6. QED
  BY <1>1, <1>5

(* Copying distributes over concatenation.                                 *)
Distributes(s, u, n) == LinesWithout(s \o u, n) = LinesWithout(s, n) \o LinesWithout(u, n)

(* The copy of two texts is the two copies.                                *)
LEMMA WithoutConcat ==
  ASSUME NEW S, NEW s \in Seq(S), NEW u \in Seq(S), NEW n
  PROVE  Distributes(s, u, n)
<1> DEFINE M == Len(s)
           N == Len(u)
           w == s \o u
<1>1. /\ M \in Nat /\ N \in Nat /\ w \in Seq(S) /\ Len(w) = M + N
      /\ \A k \in 1..M : w[k] = s[k]
      /\ \A k \in 1..N : w[M + k] = u[k]
  OBVIOUS
<1>2. PICK rs \in [0..M -> Seq(S)] : Copies(rs, s, n) /\ LinesWithout(s, n) = rs[M]
  BY CopyRun
<1>3. PICK ru \in [0..N -> Seq(S)] : Copies(ru, u, n) /\ LinesWithout(u, n) = ru[N]
  BY CopyRun
<1>4. PICK rw \in [0..M + N -> Seq(S)] : Copies(rw, w, n) /\ LinesWithout(w, n) = rw[M + N]
  <2> HIDE DEF w, M, N
  <2>1. \E rw \in [0..Len(w) -> Seq(S)] : Copies(rw, w, n) /\ LinesWithout(w, n) = rw[Len(w)]
    <3>1. w \in Seq(S)
      BY <1>1
    <3>2. QED
      BY <3>1, CopyRun
  <2>2. QED
    BY <1>1, <2>1
<1> HIDE DEF w, M, N
<1> DEFINE T == {k \in 0..M : rw[k] = rs[k]}
<1>5. 0..M \subseteq T
  <2>1. 0 \in T
    BY <1>1, <1>2, <1>4 DEF Copies
  <2>2. \A k \in 0..M : k < M /\ k \in T => k + 1 \in T
    <3> TAKE k \in 0..M
    <3> HAVE k < M /\ k \in T
    <3> DEFINE j == k + 1
    <3>1. j \in 1..M /\ j \in 1..M + N /\ j \in 0..M /\ rw[j - 1] = rs[j - 1]
      BY <1>1
    <3> HIDE DEF j
    <3>2. rw[j] = rs[j]
      BY <1>1, <1>2, <1>4, <3>1 DEF Copies, M
    <3>3. QED
      BY <3>1, <3>2 DEF j
  <2>3. QED
    <3> HIDE DEF T
    <3>1. QED
      BY <1>1, <2>1, <2>2, BoundedInduction
<1>6. rw[M] = rs[M] /\ rs[M] \in Seq(S)
  BY <1>1, <1>5
<1> DEFINE U == {k \in 0..N : rw[M + k] = rs[M] \o ru[k]}
<1>7. 0..N \subseteq U
  <2>1. 0 \in U
    <3>1. rs[M] \o <<>> = rs[M]
      BY <1>6, ConcatEmptySeq
    <3>2. QED
      BY <1>1, <1>3, <1>6, <3>1 DEF Copies
  <2>2. \A k \in 0..N : k < N /\ k \in U => k + 1 \in U
    <3> TAKE k \in 0..N
    <3> HAVE k < N /\ k \in U
    <3> DEFINE j == k + 1
               i == M + j
    <3>0. /\ j \in 1..N /\ j \in 0..N /\ i \in 1..M + N /\ i - 1 = M + k /\ j - 1 = k
          /\ j - 1 \in 0..N
      <4> HIDE DEF U
      <4>1. QED
        BY <1>1
    <3>1. rw[i - 1] = rs[M] \o ru[j - 1]
      <4> HIDE DEF i, j
      <4>1. QED
        BY <3>0
    <3>2. w[i] = u[j]
      BY <1>1, <3>0
    <3> HIDE DEF j, i
    <3>3. rw[i] = IF OfRule(w[i]) /\ w[i].n = n THEN rw[i - 1] ELSE Append(rw[i - 1], w[i])
      BY <1>1, <1>4, <3>0 DEF Copies
    <3>4. ru[j] = IF OfRule(u[j]) /\ u[j].n = n THEN ru[j - 1] ELSE Append(ru[j - 1], u[j])
      BY <1>3, <3>0 DEF Copies, N
    <3>5. ru[j - 1] \in Seq(S) /\ u[j] \in S
      BY <3>0, SMTT(60) DEF N
    <3>6. rs[M] \o Append(ru[j - 1], u[j]) = Append(rs[M] \o ru[j - 1], u[j])
      <4> DEFINE x == rs[M]
                 y == ru[j - 1]
                 z == u[j]
      <4>1. x \in Seq(S) /\ y \in Seq(S) /\ z \in S
        BY <1>6, <3>5
      <4> HIDE DEF x, y, z
      <4>2. x \o Append(y, z) = Append(x \o y, z)
        BY <4>1
      <4>3. QED
        BY <4>2 DEF x, y, z
    <3>7. rw[i] = rs[M] \o ru[j]
      BY <3>1, <3>2, <3>3, <3>4, <3>6
    <3>8. QED
      BY <3>0, <3>7 DEF i, j
  <2>3. QED
    <3> HIDE DEF U
    <3>1. QED
      BY <1>1, <2>1, <2>2, BoundedInduction
<1>8. rw[M + N] = rs[M] \o ru[N]
  <2>1. N \in 0..N
    BY <1>1
  <2> HIDE DEF N
  <2>2. N \in U
    <3> HIDE DEF U
    <3>1. QED
      BY <1>7, <2>1
  <2>3. QED
    BY <2>2
<1>9. QED
  BY <1>2, <1>3, <1>4, <1>6, <1>8 DEF w, Distributes

-----------------------------------------------------------------------------
(* Concatenation may be regrouped.                                         *)
Groups(x, y, z) == (x \o y) \o z = x \o (y \o z)

(* Concatenation of texts is associative.                                  *)
LEMMA Regroup ==
  ASSUME NEW S, NEW x \in Seq(S), NEW y \in Seq(S), NEW z \in Seq(S)
  PROVE  Groups(x, y, z)
BY ConcatAssociative DEF Groups

(* The rules of a table as they are printed.                               *)
LEMMA PrintedIs ==
  ASSUME NEW E, NEW X, Texts(E, X), NEW t \in TablesOf(E)
  PROVE  /\ Printed(t) \in Seq(Lines(X))
         /\ \A o : AclLines(t, o) = <<HeadLine(t, o), Step>> \o Printed(t)
         /\ \A l : l \in ToSet(Printed(t)) <=> \E n \in RuleIds : l \in ToSet(RuleLines(n, t[n]))
         /\ \A i \in 1..Len(Printed(t)) : OfRule(Printed(t)[i])
<1>1. PICK run \in [0..Tally -> Seq(Lines(X))] : Prints(run, t) /\ Printed(t) = run[Tally]
  BY AclRun
<1>2. Tally \in 0..Tally
  BY NumbersAre DEF Tally
<1>3. Printed(t) \in Seq(Lines(X))
  BY <1>1, <1>2
<1>4. \A o : AclLines(t, o) = <<HeadLine(t, o), Step>> \o Printed(t)
  BY AclRun
<1>5. \A l : l \in ToSet(Printed(t)) <=> \E n \in RuleIds : l \in ToSet(RuleLines(n, t[n]))
  <2> TAKE l
  <2>1. l \in ToSet(run[Tally]) <=> \E n \in RuleIds : l \in ToSet(RuleLines(n, t[n]))
    BY <1>1, PrintedLines
  <2>2. QED
    BY <1>1, <2>1
<1>6. \A i \in 1..Len(Printed(t)) : OfRule(Printed(t)[i])
  <2> TAKE i \in 1..Len(Printed(t))
  <2>1. Printed(t)[i] \in ToSet(Printed(t))
    BY <1>3 DEF ToSet
  <2>2. PICK n \in RuleIds : Printed(t)[i] \in ToSet(RuleLines(n, t[n]))
    BY <1>5, <2>1
  <2>3. QED
    BY <2>2, RuleLineSet
<1>7. QED
  BY <1>3, <1>4, <1>5, <1>6

(* Lines behind a header, and what the prompt does to them.                *)
Headless(r) == \A i \in 1..Len(r) : r[i].tag # "header"
Ended(t) == Printed(t) \o <<Prompt>>

(* The prompt is one more line that is no header.                          *)
LEMMA PromptEnds ==
  ASSUME NEW X, None \in X, NEW r \in Seq(Lines(X))
  PROVE  /\ r \o <<Prompt>> \in Seq(Lines(X)) /\ Len(r \o <<Prompt>>) = Len(r) + 1
         /\ Len(r) \in Nat
         /\ \A i \in 1..Len(r) : (r \o <<Prompt>>)[i] = r[i]
         /\ (r \o <<Prompt>>)[Len(r) + 1] = Prompt
         /\ Headless(r) => Headless(r \o <<Prompt>>)
<1> DEFINE p == Prompt
           one == <<p>>
           w == r \o one
           M == Len(r)
<1>1. one \in Seq(Lines(X)) /\ p.tag = "prompt"
  BY PromptIs
<1>2. Len(one) = 1 /\ one[1] = p
  <2> HIDE DEF p
  <2>1. QED
    OBVIOUS
<1> HIDE DEF p, one
<1>3. /\ w \in Seq(Lines(X)) /\ Len(w) = M + Len(one)
      /\ \A i \in 1..M + Len(one) : w[i] = IF i <= M THEN r[i] ELSE one[i - M]
  BY <1>1, ConcatProperties
<1>4. M \in Nat
  BY LenProperties
<1> HIDE DEF w, M
<1>5. \A i \in 1..M : w[i] = r[i]
  BY <1>2, <1>3, <1>4
<1>6. w[M + 1] = p
  <2> DEFINE k == M + 1
  <2>1. k \in 1..M + Len(one) /\ ~ (k <= M) /\ k - M = 1
    BY <1>2, <1>4
  <2> HIDE DEF k
  <2>2. w[k] = one[k - M]
    BY <1>3, <2>1
  <2>3. QED
    BY <1>2, <2>1, <2>2 DEF k
<1>7. Headless(r) => Headless(w)
  <2>1. \A i \in 1..M + 1 : i \in 1..M \/ i = M + 1
    BY <1>4
  <2>2. Len(w) = M + 1 /\ Len(r) = M
    BY <1>2, <1>3 DEF M
  <2>3. QED
    BY <1>1, <1>5, <1>6, <2>1, <2>2 DEF Headless
<1>8. w \in Seq(Lines(X)) /\ Len(w) = M + 1
  BY <1>2, <1>3
<1>9. QED
  BY <1>4, <1>5, <1>6, <1>7, <1>8 DEF w, M, one, p

(* A text ends with the prompt behind the rules.                           *)
LEMMA EndedIs ==
  ASSUME NEW E, NEW X, Texts(E, X), NEW t \in TablesOf(E)
  PROVE  /\ Ended(t) \in Seq(Lines(X)) /\ Headless(Printed(t)) /\ Headless(Ended(t))
         /\ \A o : DisplayACL(t, o) = <<HeadLine(t, o), Step>> \o Ended(t)
<1>1. Printed(t) \in Seq(Lines(X)) /\ \A i \in 1..Len(Printed(t)) : OfRule(Printed(t)[i])
  BY PrintedIs
<1>2. Headless(Printed(t))
  BY <1>1 DEF Headless, OfRule
<1>3. None \in X
  BY DEF Texts
<1>4. Ended(t) \in Seq(Lines(X)) /\ Headless(Ended(t))
  BY <1>1, <1>2, <1>3, PromptEnds DEF Ended
<1>5. ASSUME NEW o PROVE DisplayACL(t, o) = <<HeadLine(t, o), Step>> \o Ended(t)
  <2> DEFINE S == Lines(X)
             h == HeadLine(t, o)
             top == <<h, Step>>
             one == <<Prompt>>
             body == Printed(t)
  <2>1. h \in S /\ Step \in S /\ one \in Seq(S) /\ body \in Seq(S)
    BY <1>1, <1>3, HeadIs, PromptIs
  <2>2. DisplayACL(t, o) = AclLines(t, o) \o one /\ AclLines(t, o) = top \o body
    BY DisplayLines, PrintedIs
  <2>3. Ended(t) = body \o one
    BY DEF Ended
  <2> HIDE DEF h, S, one, body
  <2>4. top \in Seq(S)
    BY <2>1
  <2> HIDE DEF top
  <2>5. Groups(top, body, one)
    BY <2>1, <2>4, Regroup
  <2>6. QED
    BY <2>2, <2>3, <2>5 DEF Groups, top, h
<1>6. QED
  BY <1>2, <1>4, <1>5

PrintedBy(run, t) == Prints(run, t) /\ Printed(t) = run[Tally]

(* The rules of a table are printed one number after the other.            *)
LEMMA PrintedRun ==
  ASSUME NEW E, NEW X, Texts(E, X), NEW t \in TablesOf(E)
  PROVE  \E run \in [0..Tally -> Seq(Lines(X))] : PrintedBy(run, t)
BY AclRun DEF PrintedBy

(* Without the lines of a rule, the text is that of the table without it.  *)
LEMMA PrintedWithout ==
  ASSUME NEW E, NEW X, Texts(E, X), NEW t \in TablesOf(E), NEW n \in RuleIds
  PROVE  /\ WithoutRule(t, n) \in TablesOf(E)
         /\ LinesWithout(Printed(t), n) = Printed(WithoutRule(t, n))
<1> DEFINE u == WithoutRule(t, n)
           S == Lines(X)
<1>1. u \in TablesOf(E) /\ \A m \in RuleIds : u[m] = IF m = n THEN Absent ELSE t[m]
  BY DEF WithoutRule, TablesOf
<1> HIDE DEF u
<1>2. PICK rt \in [0..Tally -> Seq(S)] : PrintedBy(rt, t)
  BY PrintedRun
<1>3. PICK ru \in [0..Tally -> Seq(S)] : PrintedBy(ru, u)
  BY <1>1, PrintedRun
<1> USE DEF PrintedBy
<1>4. Tally \in Nat /\ \A i \in 1..Tally : Numbers[i] \in RuleIds
  BY NumbersAre DEF Tally
<1> DEFINE T == {k \in 0..Tally : LinesWithout(rt[k], n) = ru[k]}
<1>5. 0 \in T
  <2>1. <<>> \in Seq(S) /\ \A i \in 1..Len(<<>>) : ~ (OfRule(<<>>[i]) /\ <<>>[i].n = n)
    OBVIOUS
  <2>2. LinesWithout(<<>>, n) = <<>>
    BY <2>1, WithoutNone
  <2>3. rt[0] = <<>> /\ ru[0] = <<>> /\ 0 \in 0..Tally
    BY <1>2, <1>3, <1>4 DEF Prints
  <2>4. QED
    BY <2>2, <2>3
<1>6. \A k \in 0..Tally : k < Tally /\ k \in T => k + 1 \in T
  <2> TAKE k \in 0..Tally
  <2> HAVE k < Tally /\ k \in T
  <2> DEFINE j == k + 1
             m == Numbers[j]
             b == RuleLines(m, t[m])
             c == RuleLines(m, u[m])
  <2>1. j \in 1..Tally /\ j \in 0..Tally /\ j - 1 = k
    <3> HIDE DEF T
    <3>1. QED
      BY <1>4
  <2> HIDE DEF j
  <2>2. m \in RuleIds /\ m \in Nat /\ t[m] \in E \cup {Absent} /\ u[m] \in E \cup {Absent}
    <3>1. m \in RuleIds
      BY <1>4, <2>1
    <3>2. QED
      BY <1>1, <3>1, TableAssumption DEF TablesOf
  <2> HIDE DEF m
  <2>3. /\ b \in Seq(S) /\ \A i \in 1..Len(b) : OfRule(b[i]) /\ b[i].n = m
        /\ u[m] = Absent => c = <<>>
    <3>1. b \in Seq(S) /\ \A i \in 1..Len(b) : OfRule(b[i]) /\ b[i].n = m
      <4> DEFINE e == t[m]
      <4>1. m \in Nat /\ e \in E \cup {Absent}
        BY <2>2
      <4> HIDE DEF e
      <4>2. /\ RuleLines(m, e) \in Seq(S)
            /\ \A i \in 1..Len(RuleLines(m, e)) :
                 OfRule(RuleLines(m, e)[i]) /\ RuleLines(m, e)[i].n = m
        BY <4>1, RuleLinesAre
      <4>3. QED
        BY <4>2 DEF e
    <3>2. u[m] = Absent => c = <<>>
      BY DEF RuleLines
    <3>3. QED
      BY <3>1, <3>2
  <2>4. LinesWithout(b, n) = c
    <3>1. CASE m = n
      <4>1. c = <<>>
        BY <1>1, <2>2, <2>3, <3>1
      <4> HIDE DEF b, c, S
      <4>2. LinesWithout(b, n) = <<>>
        BY <2>3, <3>1, WithoutAll
      <4>3. QED
        BY <4>1, <4>2
    <3>2. CASE m # n
      <4>1. c = b
        BY <1>1, <2>2, <3>2
      <4> HIDE DEF b, c, S
      <4>2. LinesWithout(b, n) = b
        BY <2>3, <3>2, WithoutNone
      <4>3. QED
        BY <4>1, <4>2
    <3>3. QED
      BY <3>1, <3>2
  <2>5. rt[j] = rt[k] \o b /\ ru[j] = ru[k] \o c
    BY <1>2, <1>3, <2>1 DEF Prints, m
  <2> HIDE DEF b, c, S
  <2>6. rt[k] \in Seq(S) /\ LinesWithout(rt[k], n) = ru[k]
    OBVIOUS
  <2> DEFINE a == rt[k]
  <2>a. a \in Seq(S) /\ b \in Seq(S)
    BY <2>3, <2>6
  <2> HIDE DEF a
  <2>b. Distributes(a, b, n)
    BY <2>a, WithoutConcat
  <2>7. LinesWithout(rt[k] \o b, n) = LinesWithout(rt[k], n) \o LinesWithout(b, n)
    BY <2>b DEF Distributes, a
  <2>8. LinesWithout(rt[j], n) = ru[j]
    BY <2>4, <2>5, <2>6, <2>7
  <2>9. QED
    BY <2>1, <2>8 DEF j
<1>7. 0..Tally \subseteq T
  <2> HIDE DEF T
  <2>1. QED
    BY <1>4, <1>5, <1>6, BoundedInduction
<1>8. LinesWithout(rt[Tally], n) = ru[Tally]
  BY <1>4, <1>7
<1>9. QED
  BY <1>1, <1>2, <1>3, <1>8 DEF u

(* The whole text without the lines of a rule keeps its head.              *)
LEMMA DisplayWithout ==
  ASSUME NEW E, NEW X, Texts(E, X), NEW t \in TablesOf(E), NEW n \in RuleIds, NEW o
  PROVE  LinesWithout(DisplayACL(t, o), n)
           = <<HeadLine(t, o), Step>> \o Ended(WithoutRule(t, n))
<1> DEFINE top == <<HeadLine(t, o), Step>>
<1>1. top \in Seq(Lines(X)) /\ \A i \in 1..Len(top) : ~ OfRule(top[i])
  <2>1. /\ HeadLine(t, o) \in Lines(X) /\ Step \in Lines(X)
        /\ ~ OfRule(HeadLine(t, o)) /\ ~ OfRule(Step)
    BY HeadIs DEF Texts
  <2> DEFINE h == HeadLine(t, o)
  <2> HIDE DEF h
  <2>2. <<h, Step>> \in Seq(Lines(X)) /\ \A i \in 1..Len(<<h, Step>>) : ~ OfRule(<<h, Step>>[i])
    BY <2>1 DEF h
  <2>3. QED
    BY <2>2 DEF h
<1> HIDE DEF top
<1>2. Ended(t) \in Seq(Lines(X)) /\ DisplayACL(t, o) = top \o Ended(t)
  BY EndedIs DEF top
<1>3. LinesWithout(top, n) = top
  BY <1>1, WithoutNone
<1>4. Distributes(top, Ended(t), n)
  BY <1>1, <1>2, WithoutConcat
<1>5. LinesWithout(Ended(t), n) = Ended(WithoutRule(t, n))
  <2> DEFINE one == <<Prompt>>
             p == Prompt
  <2>1. Printed(t) \in Seq(Lines(X)) /\ one \in Seq(Lines(X)) /\ ~ OfRule(p)
    BY PrintedIs, PromptIs DEF Texts
  <2>2. Len(one) = 1 /\ one[1] = p
    <3> HIDE DEF p
    <3>1. <<p>> \in Seq({p}) /\ Len(<<p>>) = 1 /\ <<p>>[1] = p
      OBVIOUS
    <3>2. QED
      BY <3>1 DEF p
  <2> HIDE DEF one, p
  <2>3. \A i \in 1..Len(one) : ~ (OfRule(one[i]) /\ one[i].n = n)
    <3>1. \A i \in 1..1 : i = 1
      OBVIOUS
    <3>2. QED
      BY <2>1, <2>2, <3>1
  <2>4. LinesWithout(one, n) = one
    BY <2>1, <2>3, WithoutNone
  <2>5. Distributes(Printed(t), one, n)
    BY <2>1, WithoutConcat
  <2>6. LinesWithout(Printed(t), n) = Printed(WithoutRule(t, n))
    BY PrintedWithout
  <2>7. Ended(t) = Printed(t) \o one /\ Ended(WithoutRule(t, n)) = Printed(WithoutRule(t, n)) \o one
    BY DEF Ended, one
  <2>8. QED
    BY <2>4, <2>5, <2>6, <2>7 DEF Distributes
<1>6. QED
  BY <1>2, <1>3, <1>4, <1>5 DEF top, Distributes

(* Two tables that print the same rules are the same, when every entry is  *)
(* a body and a comment.                                                   *)
Pairs(E) == \A e \in E : e = [body |-> e.body, comment |-> e.comment]

(* A line printed for a rule is its body's or its comment's.               *)
LEMMA LineOfRule ==
  ASSUME NEW E, NEW X, Texts(E, X), NEW n \in Nat, NEW e \in E \cup {Absent},
         NEW l \in ToSet(RuleLines(n, e))
  PROVE  /\ e # Absent
         /\ \/ l = Line("rule", n, e.body)
            \/ e.comment # None /\ l = Line("comment", n, e.comment)
<1>1. RuleLines(n, e) \in Seq(Lines(X))
  BY RuleLinesAre
<1>2. PICK i \in 1..Len(RuleLines(n, e)) : l = RuleLines(n, e)[i]
  BY <1>1 DEF ToSet
<1>3. \A j \in 1..Len(RuleLines(n, e)) :
        /\ e # Absent
        /\ \/ RuleLines(n, e)[j] = Line("rule", n, e.body)
           \/ e.comment # None /\ RuleLines(n, e)[j] = Line("comment", n, e.comment)
  BY RuleLinesAre
<1>4. QED
  BY <1>2, <1>3

(* A rule printed for one of two equal prints is the same in the other.    *)
LEMMA OneSideSame ==
  ASSUME NEW E, NEW X, Texts(E, X), Pairs(E), NEW t \in TablesOf(E), NEW u \in TablesOf(E),
         ToSet(Printed(t)) = ToSet(Printed(u)), NEW m \in RuleIds, t[m] # Absent
  PROVE  u[m] # Absent /\ u[m].body = t[m].body
         /\ (t[m].comment # None => u[m].comment = t[m].comment)
<1> DEFINE S == Lines(X)
<1>1. m \in Nat /\ t[m] \in E /\ u[m] \in E \cup {Absent} /\ t[m] \in E \cup {Absent}
  BY TableAssumption DEF TablesOf
<1>2. \A k \in RuleIds : k \in Nat /\ u[k] \in E \cup {Absent}
  BY TableAssumption DEF TablesOf
<1>a. /\ t[m].body \in X /\ t[m].comment \in X
      /\ u[m] \in E => u[m].body \in X /\ u[m].comment \in X
  BY <1>1 DEF Texts
<1>3. ASSUME NEW l, l \in ToSet(RuleLines(m, t[m]))
      PROVE  u[m] # Absent /\ \/ l = Line("rule", m, u[m].body)
                              \/ u[m].comment # None /\ l = Line("comment", m, u[m].comment)
  <2>1. l \in ToSet(Printed(t)) /\ l.n = m
    BY <1>3, PrintedIs, RuleLineSet
  <2>2. PICK k \in RuleIds : l \in ToSet(RuleLines(k, u[k]))
    BY <2>1, PrintedIs
  <2>3. k = m
    BY <2>1, <2>2, RuleLineSet
  <2> DEFINE e == u[m]
  <2>4. m \in Nat /\ e \in E \cup {Absent} /\ l \in ToSet(RuleLines(m, e))
    BY <1>1, <2>2, <2>3
  <2> HIDE DEF e
  <2>5. /\ e # Absent
        /\ \/ l = Line("rule", m, e.body)
           \/ e.comment # None /\ l = Line("comment", m, e.comment)
    BY <2>4, LineOfRule
  <2>6. QED
    BY <2>5 DEF e
<1>4. Line("rule", m, t[m].body) \in ToSet(RuleLines(m, t[m]))
  BY RuleLineSet DEF Occupied
<1>5. /\ Line("rule", m, t[m].body).tag = "rule" /\ Line("rule", m, t[m].body).text = t[m].body
      /\ Line("comment", m, t[m].comment).tag = "comment"
      /\ Line("comment", m, t[m].comment).text = t[m].comment
  BY DEF Line
<1>6. u[m] # Absent /\ u[m] \in E
  BY <1>1, <1>3, <1>4
<1>7. /\ Line("rule", m, u[m].body).tag = "rule" /\ Line("rule", m, u[m].body).text = u[m].body
      /\ Line("comment", m, u[m].comment).tag = "comment"
      /\ Line("comment", m, u[m].comment).text = u[m].comment
  BY DEF Line
<1>8. "rule" # "comment"
  OBVIOUS
<1>9. u[m].body = t[m].body
  BY <1>3, <1>4, <1>5, <1>7, <1>8
<1>10. ASSUME t[m].comment # None PROVE u[m].comment = t[m].comment
  <2>1. /\ RuleLines(m, t[m]) \in Seq(S) /\ Len(RuleLines(m, t[m])) = 2
        /\ RuleLines(m, t[m])[2] = Line("comment", m, t[m].comment)
    BY <1>1, <1>10, RuleLinesAre
  <2>2. Line("comment", m, t[m].comment) \in ToSet(RuleLines(m, t[m]))
    BY <2>1 DEF ToSet
  <2>3. QED
    BY <1>3, <1>5, <1>7, <1>8, <2>2
<1>11. QED
  BY <1>6, <1>9, <1>10

(* A print determines its table.                                           *)
LEMMA PrintedSame ==
  ASSUME NEW E, NEW X, Texts(E, X), Pairs(E), NEW t \in TablesOf(E), NEW u \in TablesOf(E),
         Printed(t) = Printed(u)
  PROVE  t = u
<1>1. ToSet(Printed(t)) = ToSet(Printed(u))
  OBVIOUS
<1>2. ASSUME NEW m \in RuleIds PROVE t[m] = u[m]
  <2>1. CASE t[m] = Absent
    <3>1. u[m] = Absent
      BY <1>1, <2>1, OneSideSame
    <3>2. QED
      BY <2>1, <3>1
  <2>2. CASE t[m] # Absent
    <3>1. /\ u[m] # Absent /\ u[m].body = t[m].body
          /\ (t[m].comment # None => u[m].comment = t[m].comment)
      BY <1>1, <2>2, OneSideSame
    <3>2. u[m].comment # None => t[m].comment = u[m].comment
      BY <1>1, <3>1, OneSideSame
    <3>3. t[m].comment = u[m].comment
      BY <3>1, <3>2
    <3>4. t[m] \in E /\ u[m] \in E
      BY <2>2, <3>1 DEF TablesOf
    <3>5. /\ t[m] = [body |-> t[m].body, comment |-> t[m].comment]
          /\ u[m] = [body |-> u[m].body, comment |-> u[m].comment]
      BY <3>4 DEF Pairs
    <3>6. QED
      BY <3>1, <3>3, <3>5
  <2>3. QED
    BY <2>1, <2>2
<1>3. QED
  BY <1>2 DEF TablesOf

-----------------------------------------------------------------------------
(* Equal texts with an equal beginning go on equally.                      *)
LEMMA Cancel ==
  ASSUME NEW S, NEW a \in Seq(S), NEW p \in Seq(S), NEW q \in Seq(S), a \o p = a \o q
  PROVE  p = q
<1>1. Len(p) = Len(q)
  <2>1. Len(a \o p) = Len(a) + Len(p) /\ Len(a \o q) = Len(a) + Len(q)
    OBVIOUS
  <2>2. Len(a) \in Nat /\ Len(p) \in Nat /\ Len(q) \in Nat
    OBVIOUS
  <2>3. QED
    BY <2>1, <2>2
<1>2. ASSUME NEW i \in 1..Len(p) PROVE p[i] = q[i]
  <2>1. (a \o p)[Len(a) + i] = p[i]
    OBVIOUS
  <2>2. (a \o q)[Len(a) + i] = q[i]
    BY <1>1
  <2>3. QED
    BY <2>1, <2>2
<1>3. QED
  BY <1>1, <1>2

(* And equal texts with an equal end begin equally.                        *)
LEMMA CancelEnd ==
  ASSUME NEW S, NEW x \in S, NEW p \in Seq(S), NEW q \in Seq(S), p \o <<x>> = q \o <<x>>
  PROVE  p = q
<1>1. Len(p) = Len(q)
  <2>1. Len(p \o <<x>>) = Len(p) + 1 /\ Len(q \o <<x>>) = Len(q) + 1
    OBVIOUS
  <2>2. Len(p) \in Nat /\ Len(q) \in Nat
    OBVIOUS
  <2>3. QED
    BY <2>1, <2>2
<1>2. ASSUME NEW i \in 1..Len(p) PROVE p[i] = q[i]
  <2>1. (p \o <<x>>)[i] = p[i]
    OBVIOUS
  <2>2. (q \o <<x>>)[i] = q[i]
    BY <1>1
  <2>3. QED
    BY <2>1, <2>2
<1>3. QED
  BY <1>1, <1>2

(* With the count neutralised, the head of every display is the same.      *)
LEMMA NeutralHead ==
  ASSUME NEW t, NEW o
  PROVE  /\ NeutralizeRuleCount(HeadLine(t, o)) = Bare
         /\ NeutralizeRuleCount(BumpRuleCount(HeadLine(t, o))) = Bare
         /\ NeutralizeRuleCount(Step) = Step /\ BumpRuleCount(Step) = Step
<1>1. HeadLine(t, o).tag # "header" => HeadLine(t, o) = Bare
  BY DEF HeadLine, Counted, Line
<1>2. Step.tag # "header" /\ Bare.tag # "header" /\ \A n : Counted(n).tag = "header"
  BY DEF Step, Bare, Counted, Line
<1>3. QED
  BY <1>1, <1>2 DEF NeutralizeRuleCount, BumpRuleCount

(* Taking the count out of a text changes its header alone.                *)
LEMMA NeutralText ==
  ASSUME NEW X, NEW h, NeutralizeRuleCount(h) = Bare, NEW r \in Seq(Lines(X)),
         Headless(r)
  PROVE  Neutral(<<h, Step>> \o r) = <<Bare, Step>> \o r
<1> DEFINE w == <<h, Step>> \o r
           v == <<Bare, Step>> \o r
<1>1. NeutralizeRuleCount(Step) = Step
  BY NeutralHead
<1>2. \A i \in 1..Len(r) : NeutralizeRuleCount(r[i]) = r[i]
  BY DEF NeutralizeRuleCount, Headless
<1>3. /\ DOMAIN w = 1..2 + Len(r) /\ w[1] = h /\ w[2] = Step
      /\ \A i \in 3..2 + Len(r) : w[i] = r[i - 2] /\ i - 2 \in 1..Len(r)
  OBVIOUS
<1>4. /\ DOMAIN v = 1..2 + Len(r) /\ v[1] = Bare /\ v[2] = Step
      /\ \A i \in 3..2 + Len(r) : v[i] = r[i - 2]
      /\ v = [i \in 1..2 + Len(r) |-> v[i]]
  OBVIOUS
<1>5. \A i \in 1..2 + Len(r) : i = 1 \/ i = 2 \/ i \in 3..2 + Len(r)
  OBVIOUS
<1> HIDE DEF w, v
<1>6. \A i \in 1..2 + Len(r) : NeutralizeRuleCount(w[i]) = v[i]
  BY <1>1, <1>2, <1>3, <1>4, <1>5
<1>7. Neutral(w) = [i \in 1..2 + Len(r) |-> NeutralizeRuleCount(w[i])]
  BY <1>3 DEF Neutral
<1>8. Neutral(w) = v
  BY <1>4, <1>6, <1>7
<1>9. QED
  BY <1>8 DEF w, v

(* What is left of what is printed when its count is taken out.            *)
LEMMA NeutralLines ==
  ASSUME NEW E, NEW X, Texts(E, X), NEW t \in TablesOf(E), NEW o
  PROVE  Neutral(AclLines(t, o)) = <<Bare, Step>> \o Printed(t)
<1>1. /\ Printed(t) \in Seq(Lines(X)) /\ Headless(Printed(t))
      /\ AclLines(t, o) = <<HeadLine(t, o), Step>> \o Printed(t)
  BY PrintedIs, EndedIs
<1>2. NeutralizeRuleCount(HeadLine(t, o)) = Bare
  BY NeutralHead
<1>3. QED
  BY <1>1, <1>2, NeutralText

(* The lines that must not have moved, of a whole text.                    *)
LEMMA SignificantIs ==
  ASSUME NEW E, NEW X, Texts(E, X), NEW t \in TablesOf(E), NEW n \in RuleIds, NEW o
  PROVE  SignificantLines(DisplayACL(t, o), n) = <<Bare, Step>> \o Ended(WithoutRule(t, n))
<1> DEFINE u == WithoutRule(t, n)
<1>1. LinesWithout(DisplayACL(t, o), n) = <<HeadLine(t, o), Step>> \o Ended(u)
  BY DisplayWithout
<1>2. u \in TablesOf(E)
  BY PrintedWithout
<1> HIDE DEF u
<1>3. Ended(u) \in Seq(Lines(X)) /\ Headless(Ended(u))
  BY <1>2, EndedIs
<1>4. NeutralizeRuleCount(HeadLine(t, o)) = Bare
  BY NeutralHead
<1>5. Neutral(<<HeadLine(t, o), Step>> \o Ended(u)) = <<Bare, Step>> \o Ended(u)
  BY <1>3, <1>4, NeutralText
<1>6. SignificantLines(DisplayACL(t, o), n) = Neutral(LinesWithout(DisplayACL(t, o), n))
  BY DEF SignificantLines, Neutral
<1>7. QED
  BY <1>1, <1>5, <1>6 DEF u

(* Nothing but the rule has moved in the texts exactly when nothing but    *)
(* the rule has in the tables.                                             *)
LEMMA OnlyChanged ==
  ASSUME NEW E, NEW X, Texts(E, X), Pairs(E), NEW t \in TablesOf(E), NEW u \in TablesOf(E),
         NEW n \in RuleIds, NEW o
  PROVE  OnlyRuleChanged(DisplayACL(t, o), DisplayACL(u, o), n) <=> SameExcept(t, u, n)
<1> DEFINE a == WithoutRule(t, n)
           b == WithoutRule(u, n)
           top == <<Bare, Step>>
<1>1. a \in TablesOf(E) /\ b \in TablesOf(E)
  BY PrintedWithout
<1>2. a = b <=> SameExcept(t, u, n)
  BY DEF WithoutRule, SameExcept, TablesOf
<1>3. OnlyRuleChanged(DisplayACL(t, o), DisplayACL(u, o), n) <=> top \o Ended(a) = top \o Ended(b)
  BY SignificantIs DEF OnlyRuleChanged
<1>4. top \in Seq(Lines(X))
  <2>1. Bare \in Lines(X) /\ Step \in Lines(X)
    <3>1. None \in X /\ 0 \in Nat /\ "bare header" \in Tags /\ "step" \in Tags
      BY DEF Texts, Tags
    <3>2. QED
      BY <3>1, LineIs DEF Bare, Step
  <2>2. QED
    BY <2>1
<1> HIDE DEF a, b, top
<1>5. /\ Printed(a) \in Seq(Lines(X)) /\ Printed(b) \in Seq(Lines(X))
      /\ Ended(a) \in Seq(Lines(X)) /\ Ended(b) \in Seq(Lines(X)) /\ Prompt \in Lines(X)
  BY <1>1, PrintedIs, EndedIs, PromptIs DEF Texts
<1>6. top \o Ended(a) = top \o Ended(b) => a = b
  <2>1. ASSUME top \o Ended(a) = top \o Ended(b) PROVE Printed(a) = Printed(b)
    <3>1. Ended(a) = Ended(b)
      BY <1>4, <1>5, <2>1, Cancel
    <3>2. Printed(a) \o <<Prompt>> = Printed(b) \o <<Prompt>>
      BY <3>1 DEF Ended
    <3>3. QED
      BY <1>5, <3>2, CancelEnd
  <2>2. QED
    BY <1>1, <2>1, PrintedSame
<1>7. QED
  BY <1>2, <1>3, <1>6

(* The verifications on texts are the verifications on tables.             *)
LEMMA VerdictIs ==
  ASSUME NEW E, NEW X, Texts(E, X), Pairs(E), NEW t \in TablesOf(E), NEW u \in TablesOf(E),
         NEW n \in RuleIds, NEW o
  PROVE  /\ VerifyChangeText(DisplayACL(t, o), DisplayACL(u, o), n) = VerifyChange(t, u, n)
         /\ VerifyDeletionText(DisplayACL(t, o), DisplayACL(u, o), n) = VerifyDeletion(t, u, n)
<1> DEFINE pre == DisplayACL(t, o)
           post == DisplayACL(u, o)
<1>1. /\ CountRead(pre) = Count(t) /\ Count(t) # None
      /\ CountRead(post) = Count(u) /\ Count(u) # None
  BY CountOfDisplay
<1>2. RuleIDs(post) = Occupied(u)
  BY RuleIDsOfDisplay
<1>3. OnlyRuleChanged(pre, post, n) <=> SameExcept(t, u, n)
  BY OnlyChanged
<1>4. Count(t) \in Nat /\ Count(u) \in Nat
  BY OccupiedFinite, FS_CardinalityType DEF Count
<1> HIDE DEF pre, post
<1>5. CountMoved(pre, post, 1) <=> Count(u) = Count(t) + 1
  BY <1>1 DEF CountMoved
<1>6. CountMoved(pre, post, -1) <=> Count(u) + 1 = Count(t)
  <2>1. CountMoved(pre, post, -1) <=> Count(u) = Count(t) + (-1)
    BY <1>1 DEF CountMoved
  <2>2. QED
    BY <1>4, <2>1
<1>7. VerifyChangeText(pre, post, n) = VerifyChange(t, u, n)
  BY <1>2, <1>3, <1>5 DEF VerifyChangeText, VerifyChange, Holds
<1>8. VerifyDeletionText(pre, post, n) = VerifyDeletion(t, u, n)
  BY <1>2, <1>3, <1>6 DEF VerifyDeletionText, VerifyDeletion, Holds
<1>9. QED
  BY <1>7, <1>8 DEF pre, post

(* The number of a request is one the switch can hold.                     *)
LEMMA NumberIs ==
  ASSUME History, request # None
  PROVE  /\ request.plan.number \in RuleIds
         /\ request.plan.op = "add" <=> AddDrawn
         /\ AddDrawn => /\ request.plan = AddPlan /\ request.plan.number = NextRuleID(old)
                        /\ request.entry = [body |-> BuildRuleCmd(AddPlan),
                                            comment |-> request.entry.comment]
                        /\ request.entry.comment \in Marks
                        /\ new = ExpectedConfig(old, NextRuleID(old), request.entry)
         /\ ~ AddDrawn => /\ request.plan = DeletePlan(request.plan.number)
                          /\ request.entry = Absent
                          /\ request.plan.number \in RuleIDs(old) \cap Window
                          /\ new = RemoveRuleFromConfig(old, request.plan.number)
<1>1. ASSUME AddDrawn
      PROVE  /\ request.plan = AddPlan /\ request.plan.number = NextRuleID(old)
             /\ request.plan.op = "add"
             /\ request.plan.number \in RuleIds
             /\ request.entry = [body |-> BuildRuleCmd(AddPlan), comment |-> request.entry.comment]
             /\ request.entry.comment \in Marks
             /\ new = ExpectedConfig(old, NextRuleID(old), request.entry)
  <2>1. NextRuleID(old) # None /\ request.plan = AddPlan
    BY <1>1 DEF AddDrawn
  <2>2. request.plan.number = NextRuleID(old) /\ request.plan.op = "add"
    BY <2>1 DEF AddPlan, PlanOf
  <2>3. RuleIDs(old) = Occupied(table)
    BY DrawnOnAll
  <2>4. NextRuleID(old) \in RuleIds
    BY <2>1, <2>3, NextIsAllocated
  <2>5. PICK mark \in Marks :
          /\ request.entry = [body |-> BuildRuleCmd(AddPlan), comment |-> mark]
          /\ new = ExpectedConfig(old, NextRuleID(old),
                                  [body |-> BuildRuleCmd(AddPlan), comment |-> mark])
    BY <1>1 DEF AddDrawn
  <2>6. request.entry.comment = mark
    BY <2>5
  <2>7. QED
    BY <2>1, <2>2, <2>4, <2>5, <2>6
<1>2. ASSUME DeleteDrawn
      PROVE  /\ request.plan.op = "delete" /\ request.plan = DeletePlan(request.plan.number)
             /\ request.plan.number \in RuleIds
             /\ request.entry = Absent
             /\ request.plan.number \in RuleIDs(old) \cap Window
             /\ new = RemoveRuleFromConfig(old, request.plan.number)
  <2>1. PICK n \in RuleIDs(old) \cap Window :
          /\ request = [plan |-> DeletePlan(n), entry |-> Absent]
          /\ new = RemoveRuleFromConfig(old, n)
    BY <1>2 DEF DeleteDrawn
  <2>2. DeletePlan(n).number = n /\ DeletePlan(n).op = "delete"
    BY DEF DeletePlan
  <2>3. request.plan = DeletePlan(n) /\ request.entry = Absent
    BY <2>1
  <2>4. n \in RuleIds
    BY TableAssumption DEF Window
  <2>5. QED
    BY <2>1, <2>2, <2>3, <2>4
<1>3. AddDrawn \/ DeleteDrawn
  BY DEF History
<1>4. "add" # "delete"
  OBVIOUS
<1>5. QED
  BY <1>1, <1>2, <1>3, <1>4

(* What the switch may hold once the request has an entry.                 *)
Entered == IF AddDrawn THEN Entries \cup {request.entry} ELSE Entries

(* The tables over those entries are the ones the verification may find.   *)
LEMMA EnteredIs ==
  ASSUME History, request # None
  PROVE  /\ Pairs(Entered)
         /\ table \in TablesOf(Entered)
         /\ TablesOf(Entries \cup {request.entry}) = TablesOf(Entered)
<1>1. Pairs(Entries)
  BY TextAssumption DEF Pairs
<1>2. table \in TablesOf(Entries)
  BY DEF History
<1>3. CASE AddDrawn
  <2>1. request.entry = [body |-> BuildRuleCmd(AddPlan), comment |-> request.entry.comment]
    BY <1>3, NumberIs
  <2>2. request.entry.body = BuildRuleCmd(AddPlan)
    BY <2>1
  <2>3. QED
    BY <1>1, <1>2, <1>3, <2>1, <2>2 DEF Pairs, Entered, TablesOf
<1>4. CASE ~ AddDrawn
  BY <1>1, <1>2, <1>4, NumberIs DEF Entered, TablesOf
<1>5. QED
  BY <1>3, <1>4

(* The verification on texts is the verification on the rules themselves,  *)
(* whatever else became of the switch.                                     *)
LEMMA Verifies == History => VerifiesTheRules
<1> SUFFICES ASSUME History, after # None
             PROVE  verified = IF request.plan.op = "add"
                               THEN VerifyChange(table, after, request.plan.number)
                               ELSE VerifyDeletion(table, after, request.plan.number)
  BY DEF VerifiesTheRules
<1>1. request # None
  BY DEF History, Written
<1>2. /\ after \in TablesOf(Entries \cup {request.entry})
      /\ verified = Verdict(request.plan, DisplayACL(table, omit), DisplayACL(after, omit))
  BY DEF History
<1> DEFINE n == request.plan.number
<1>3. n \in RuleIds /\ Pairs(Entered) /\ table \in TablesOf(Entered) /\ after \in TablesOf(Entered)
  BY <1>1, <1>2, NumberIs, EnteredIs
<1>4. Texts(Entered, TextsOf(Entered))
  BY TextsAre
<1> HIDE DEF n
<1>5. /\ VerifyChangeText(DisplayACL(table, omit), DisplayACL(after, omit), n)
           = VerifyChange(table, after, n)
      /\ VerifyDeletionText(DisplayACL(table, omit), DisplayACL(after, omit), n)
           = VerifyDeletion(table, after, n)
  BY <1>3, <1>4, VerdictIs
<1>6. QED
  BY <1>2, <1>5 DEF Verdict, n

(* The same in every state of the system (core.go:846-885).                *)
THEOREM VerifiesTheRulesHolds == Spec => []VerifiesTheRules
BY HistoryHolds, Verifies, PTL

-----------------------------------------------------------------------------
(* The copy with the counts bumped, and where the new lines go.            *)
Bumped(text) == [i \in DOMAIN text |-> BumpRuleCount(text[i])]
Higher(l, n) == OfRule(l) /\ l.n > n

(* The new lines go between two parts when nothing in the first is higher, *)
(* and the second is empty or begins with what is.                         *)
LEMMA ExpectedSplit ==
  ASSUME NEW X, NEW s \in Seq(Lines(X)), NEW q \in Seq(Lines(X)), NEW n, NEW e,
         \A i \in 1..Len(s) : ~ Higher(s[i], n),
         q = <<>> \/ Higher(q[1], n)
  PROVE  ExpectedConfig(s \o q, n, e) = Bumped(s) \o RuleLines(n, e) \o Bumped(q)
<1> DEFINE w == s \o q
           M == Len(s)
           N == Len(q)
           b == Bumped(w)
           higher == {i \in DOMAIN w : OfRule(w[i]) /\ w[i].n > n}
           at == IF higher = {} THEN Len(w) + 1 ELSE Min(higher)
<1>1. /\ M \in Nat /\ N \in Nat /\ Len(w) = M + N /\ DOMAIN w = 1..M + N
      /\ \A i \in 1..M : w[i] = s[i]
      /\ \A i \in 1..N : w[M + i] = q[i]
      /\ DOMAIN s = 1..M /\ DOMAIN q = 1..N
      /\ w \in Seq(Lines(X))
  OBVIOUS
<1>2. /\ \A i \in 1..M : ~ Higher(w[i], n)
      /\ N # 0 => M + 1 \in 1..M + N /\ Higher(w[M + 1], n)
  <2>1. \A i \in 1..M : w[i] = s[i] /\ ~ Higher(s[i], n)
    <3> HIDE DEF w
    <3>1. QED
      BY <1>1
  <2>2. N # 0 => 1 \in 1..N /\ M + 1 \in 1..M + N
    BY <1>1
  <2>3. N # 0 => q # <<>>
    OBVIOUS
  <2>4. N # 0 => w[M + 1] = q[1]
    <3> HIDE DEF w, N, M
    <3>1. QED
      BY <1>1, <2>2
  <2> HIDE DEF w, M, N
  <2>5. QED
    BY <2>1, <2>2, <2>3, <2>4
<1> HIDE DEF w, M, N
<1>3. /\ higher = {i \in 1..M + N : Higher(w[i], n)}
      /\ \A i \in higher : i \in Nat /\ M + 1 <= i
      /\ N # 0 => M + 1 \in higher
      /\ N = 0 => higher = {}
  <2>1. higher = {i \in 1..M + N : Higher(w[i], n)}
    BY <1>1 DEF Higher
  <2> HIDE DEF higher
  <2>2. \A i \in 1..M + N : i \notin 1..M => i \in Nat /\ M + 1 <= i
    BY <1>1
  <2>3. N = 0 => 1..M + N = 1..M
    BY <1>1
  <2>4. QED
    BY <1>2, <2>1, <2>2, <2>3
<1>4. at = M + 1
  <2>1. CASE N = 0
    <3>1. higher = {}
      BY <1>3, <2>1
    <3>2. QED
      BY <1>1, <2>1, <3>1
  <2>2. CASE N # 0
    <3>1. M + 1 \in higher /\ \A i \in higher : i \in Nat /\ M + 1 <= i
      BY <1>3, <2>2
    <3> HIDE DEF higher
    <3>2. higher \subseteq Nat /\ higher # {}
      BY <3>1
    <3>3. Min(higher) \in higher /\ \A y \in higher : Min(higher) <= y
      BY <3>2, LeastIs
    <3>4. Min(higher) = M + 1
      BY <1>1, <3>1, <3>3
    <3>5. QED
      BY <3>2, <3>4
  <2>3. QED
    BY <2>1, <2>2
<1>5. ExpectedConfig(w, n, e) = SubSeq(b, 1, at - 1) \o RuleLines(n, e) \o SubSeq(b, at, Len(w))
  BY DEF ExpectedConfig, Bumped
<1> HIDE DEF at, higher
<1>6. at - 1 = M /\ Len(w) = M + N
  BY <1>1, <1>4
<1>7. /\ b = [i \in 1..M + N |-> b[i]] /\ \A i \in 1..M + N : b[i] = BumpRuleCount(w[i])
      /\ Bumped(s) = [i \in 1..M |-> BumpRuleCount(s[i])]
  BY <1>1 DEF Bumped
<1> DEFINE K == M + N
           T == {b[i] : i \in 1..K}
<1>8. Len(b) = K /\ b \in Seq(T) /\ K \in Nat
  <2>1. b \in [1..K -> T]
    <3> HIDE DEF b
    <3>1. QED
      BY <1>7
  <2>2. K \in Nat
    BY <1>1
  <2> HIDE DEF b, K, T
  <2>3. QED
    BY <2>1, <2>2
<1> HIDE DEF T
<1> HIDE DEF b
<1>9. SubSeq(b, 1, M) = Bumped(s)
  <2>1. SubSeq(b, 1, M) = [i \in 1..M |-> b[i]]
    <3>1. SubSeq(b, 1, M) = [i \in 1..M |-> b[1 + i - 1]]
      BY <1>1, <1>8
    <3>2. \A i \in 1..M : 1 + i - 1 = i
      BY <1>1
    <3>3. QED
      BY <3>1, <3>2
  <2>2. \A i \in 1..M : b[i] = BumpRuleCount(s[i])
    <3>1. \A i \in 1..M : i \in 1..M + N
      BY <1>1
    <3>2. QED
      BY <1>1, <1>7, <3>1
  <2>3. QED
    BY <1>7, <2>1, <2>2
<1>10. SubSeq(b, M + 1, M + N) = Bumped(q)
  <2> DEFINE c == SubSeq(b, M + 1, M + N)
  <2>1. c = [i \in 1..N |-> b[M + i]]
    <3>1. c = [i \in 1..(M + N) - (M + 1) + 1 |-> b[(M + 1) + i - 1]]
      <4>1. M + 1 \in Int /\ M + N \in Int
        BY <1>1
      <4>2. \A x, y \in Int : SubSeq(b, x, y) = [i \in 1..y - x + 1 |-> b[x + i - 1]]
        OBVIOUS
      <4>3. QED
        BY <4>1, <4>2
    <3>2. (M + N) - (M + 1) + 1 = N /\ \A i \in 1..N : (M + 1) + i - 1 = M + i
      BY <1>1
    <3> HIDE DEF c
    <3>3. QED
      BY <3>1, <3>2
  <2>2. \A i \in 1..N : b[M + i] = BumpRuleCount(q[i])
    <3> TAKE i \in 1..N
    <3>1. M + i \in 1..M + N /\ w[M + i] = q[i]
      BY <1>1
    <3>2. QED
      BY <1>7, <3>1
  <2>3. Bumped(q) = [i \in 1..N |-> BumpRuleCount(q[i])]
    BY <1>1 DEF Bumped
  <2> HIDE DEF c
  <2>4. QED
    BY <2>1, <2>2, <2>3 DEF c
<1>11. ExpectedConfig(w, n, e) = SubSeq(b, 1, M) \o RuleLines(n, e) \o SubSeq(b, M + 1, M + N)
  BY <1>4, <1>5, <1>6
<1>12. QED
  BY <1>9, <1>10, <1>11 DEF w

(* A free number splits a printed table in two; a rule under it is printed *)
(* between them.                                                           *)
Parts(p, q, E, X, t, n, e) ==
  /\ p \in Seq(Lines(X)) /\ q \in Seq(Lines(X))
  /\ Printed(t) = p \o q
  /\ Printed(WithRule(t, n, e)) = p \o RuleLines(n, e) \o q
  /\ \A i \in 1..Len(p) : OfRule(p[i]) /\ ~ Higher(p[i], n)
  /\ \A i \in 1..Len(q) : Higher(q[i], n)

(* The lines of a rule carry its number.                                   *)
OfOneRule(s, X, n) ==
  s \in Seq(Lines(X)) /\ \A i \in 1..Len(s) : s[i] \in Lines(X) /\ OfRule(s[i]) /\ s[i].n = n

(* The lines printed for a rule are its own.                               *)
LEMMA RuleLinesOf ==
  ASSUME NEW E, NEW X, Texts(E, X), NEW n \in Nat, NEW e \in E \cup {Absent}
  PROVE  OfOneRule(RuleLines(n, e), X, n)
<1> DEFINE s == RuleLines(n, e)
<1>0. Texts(E, X) /\ n \in Nat /\ e \in E \cup {Absent}
  OBVIOUS
<1>1. s \in Seq(Lines(X)) /\ \A i \in 1..Len(s) : OfRule(s[i]) /\ s[i].n = n
  BY ONLY <1>0, RuleLinesAre
<1> HIDE DEF s
<1>2. \A i \in 1..Len(s) : s[i] \in Lines(X)
  BY <1>1
<1>3. OfOneRule(s, X, n)
  BY <1>1, <1>2 DEF OfOneRule
<1>4. QED
  BY <1>3 DEF s

(* All lines of a text have a property: of two texts one after the other.  *)
LEMMA AllConcat ==
  ASSUME NEW S, NEW s \in Seq(S), NEW u \in Seq(S), NEW G,
         \A i \in 1..Len(s) : s[i] \in G, \A i \in 1..Len(u) : u[i] \in G
  PROVE  s \o u \in Seq(S) /\ \A i \in 1..Len(s \o u) : (s \o u)[i] \in G
<1> SUFFICES ASSUME NEW i \in 1..Len(s \o u) PROVE (s \o u)[i] \in G
  OBVIOUS
<1>1. Len(s \o u) = Len(s) + Len(u) /\ Len(s) \in Nat /\ Len(u) \in Nat
  OBVIOUS
<1>2. CASE i <= Len(s)
  <2>1. i \in 1..Len(s) /\ (s \o u)[i] = s[i]
    BY <1>2
  <2>2. QED
    BY <2>1
<1>3. CASE ~ (i <= Len(s))
  <2>1. i - Len(s) \in 1..Len(u) /\ (s \o u)[i] = u[i - Len(s)]
    BY <1>1, <1>3
  <2>2. QED
    BY <2>1
<1>4. QED
  BY <1>2, <1>3

(* The numbers before the one of n are lower, those after it higher.       *)
LEMMA NumbersAround ==
  ASSUME NEW p \in 1..Tally
  PROVE  /\ \A k \in 1..Tally : k < p => Numbers[k] < Numbers[p] /\ Numbers[k] # Numbers[p]
         /\ \A k \in 1..Tally : k > p => Numbers[k] > Numbers[p] /\ Numbers[k] # Numbers[p]
         /\ \A k \in 1..Tally : Numbers[k] \in Nat /\ Numbers[k] \in RuleIds
<1>1. Tally \in Nat /\ \A k \in 1..Tally : Numbers[k] \in RuleIds
  BY NumbersAre DEF Tally
<1>2. \A k \in 1..Tally : Numbers[k] \in Nat
  BY <1>1, TableAssumption
<1>3. \A i, j \in 1..Tally : i < j => Numbers[i] < Numbers[j]
  BY NumbersAre DEF Tally
<1>4. \A k \in 1..Tally : k < p => Numbers[k] < Numbers[p]
  BY <1>3
<1>5. \A k \in 1..Tally : k > p => Numbers[p] < Numbers[k]
  <2> TAKE k \in 1..Tally
  <2> HAVE k > p
  <2>1. p < k
    BY <1>1
  <2>2. QED
    BY <1>3, <2>1
<1>6. \A x, y \in Nat : x < y => y > x /\ x # y
  OBVIOUS
<1>7. QED
  BY <1>1, <1>2, <1>4, <1>5, <1>6


(* A free number splits the printed table.                                  *)
LEMMA PrintedParts ==
  ASSUME NEW E, NEW X, Texts(E, X), NEW t \in TablesOf(E), NEW n \in RuleIds, t[n] = Absent,
         NEW F, NEW e \in F \cup {Absent}, Texts(F, X)
  PROVE  \E p, q : Parts(p, q, E, X, t, n, e)
<1> DEFINE S == Lines(X)
           G == E \cup F
           u == WithRule(t, n, e)
           r == RuleLines(n, e)
           Low == {l \in S : OfRule(l) /\ ~ Higher(l, n)}
           High == {l \in S : Higher(l, n)}
<1>1. /\ Texts(G, X) /\ t \in TablesOf(G) /\ u \in TablesOf(G)
      /\ u[n] = e /\ \A m \in RuleIds : m # n => u[m] = t[m]
  BY DEF Texts, TablesOf, WithRule
<1> HIDE DEF u, G
<1>2. PICK rt \in [0..Tally -> Seq(S)] : PrintedBy(rt, t)
  BY <1>1, PrintedRun
<1>3. PICK ru \in [0..Tally -> Seq(S)] : PrintedBy(ru, u)
  BY <1>1, PrintedRun
<1>4. Tally \in Nat
  BY NumbersAre DEF Tally
<1>5. PICK at \in 1..Tally : Numbers[at] = n
  BY NumbersAre DEF Tally
<1>6. /\ \A k \in 1..Tally : k < at => Numbers[k] < n /\ Numbers[k] # n
      /\ \A k \in 1..Tally : k > at => Numbers[k] > n /\ Numbers[k] # n
      /\ \A k \in 1..Tally : Numbers[k] \in Nat /\ Numbers[k] \in RuleIds
  BY <1>5, NumbersAround
<1>7. n \in Nat /\ e \in F \cup {Absent} /\ r \in Seq(S) /\ RuleLines(n, Absent) = <<>>
  <2>1. n \in Nat
    BY TableAssumption
  <2>2. r \in Seq(S)
    BY <2>1, RuleLinesAre
  <2>3. QED
    BY <2>1, <2>2 DEF RuleLines
<1>8. ASSUME NEW k \in 1..Tally, k # at
      PROVE  /\ u[Numbers[k]] = t[Numbers[k]]
             /\ RuleLines(Numbers[k], t[Numbers[k]]) \in Seq(S)
             /\ \A i \in 1..Len(RuleLines(Numbers[k], t[Numbers[k]])) :
                  /\ RuleLines(Numbers[k], t[Numbers[k]])[i] \in S
                  /\ OfRule(RuleLines(Numbers[k], t[Numbers[k]])[i])
                  /\ RuleLines(Numbers[k], t[Numbers[k]])[i].n = Numbers[k]
  <2> DEFINE m == Numbers[k]
             f == t[m]
  <2>1. m \in RuleIds /\ m \in Nat /\ m # n
    <3>1. k < at \/ k > at
      BY <1>4, <1>8
    <3>2. QED
      BY <1>6, <3>1
  <2> HIDE DEF m
  <2>2. f \in G \cup {Absent} /\ u[m] = f
    BY <1>1, <2>1 DEF TablesOf
  <2> HIDE DEF f
  <2>3. /\ RuleLines(m, f) \in Seq(S)
        /\ \A i \in 1..Len(RuleLines(m, f)) : OfRule(RuleLines(m, f)[i]) /\ RuleLines(m, f)[i].n = m
    <3>1. Texts(G, X) /\ m \in Nat /\ f \in G \cup {Absent}
      BY <1>1, <2>1, <2>2
    <3>2. OfOneRule(RuleLines(m, f), X, m)
      BY <3>1, RuleLinesOf
    <3>3. QED
      BY <3>2 DEF OfOneRule
  <2>4. \A i \in 1..Len(RuleLines(m, f)) : RuleLines(m, f)[i] \in S
    BY <2>3
  <2>5. QED
    BY <2>2, <2>3, <2>4 DEF m, f
<1> DEFINE b(k) == RuleLines(Numbers[k], t[Numbers[k]])
<1>9. /\ rt[0] = <<>> /\ ru[0] = <<>> /\ Printed(t) = rt[Tally] /\ Printed(u) = ru[Tally]
      /\ \A k \in 1..Tally : rt[k] = rt[k - 1] \o b(k)
      /\ \A k \in 1..Tally : k # at => ru[k] = ru[k - 1] \o b(k)
      /\ rt[at] = rt[at - 1] \o <<>> /\ ru[at] = ru[at - 1] \o r
  BY <1>1, <1>2, <1>3, <1>5, <1>7, <1>8 DEF PrintedBy, Prints
<1>10. \A k \in 1..Tally : k < at => b(k) \in Seq(S) /\ \A i \in 1..Len(b(k)) : b(k)[i] \in Low
  <2> TAKE k \in 1..Tally
  <2> HAVE k < at
  <2>1. k # at /\ Numbers[k] < n /\ Numbers[k] \in Nat
    BY <1>4, <1>6
  <2>2. b(k) \in Seq(S) /\ \A i \in 1..Len(b(k)) : /\ b(k)[i] \in S /\ OfRule(b(k)[i])
                                                  /\ b(k)[i].n = Numbers[k]
    BY <1>8, <2>1
  <2> HIDE DEF b, S
  <2>3. ~ (Numbers[k] > n)
    BY <1>7, <2>1
  <2>4. QED
    BY <2>2, <2>3 DEF Higher
<1>11. \A k \in 1..Tally : k > at => b(k) \in Seq(S) /\ \A i \in 1..Len(b(k)) : b(k)[i] \in High
  <2> TAKE k \in 1..Tally
  <2> HAVE k > at
  <2>1. k # at /\ Numbers[k] > n
    BY <1>4, <1>6
  <2>2. b(k) \in Seq(S) /\ \A i \in 1..Len(b(k)) : /\ b(k)[i] \in S /\ OfRule(b(k)[i])
                                                  /\ b(k)[i].n = Numbers[k]
    BY <1>8, <2>1
  <2> HIDE DEF b, S
  <2>3. QED
    BY <2>1, <2>2 DEF Higher
<1> HIDE DEF b, S, r, Low, High
<1> DEFINE L == at - 1
           T1 == {k \in 0..L : ru[k] = rt[k] /\ \A i \in 1..Len(rt[k]) : rt[k][i] \in Low}
<1>12. L \in Nat /\ L \in 0..Tally /\ at \in Nat /\ at \in 0..Tally
  BY <1>4
<1>13. 0..L \subseteq T1
  <2>1. 0 \in T1
    <3>1. 0 \in 0..L /\ \A i \in 1..Len(<<>>) : <<>>[i] \in Low
      BY <1>12
    <3> HIDE DEF L
    <3>2. QED
      BY <1>9, <3>1
  <2>2. \A k \in 0..L : k < L /\ k \in T1 => k + 1 \in T1
    <3> TAKE k \in 0..L
    <3> HAVE k < L /\ k \in T1
    <3> DEFINE j == k + 1
               x == rt[k]
               y == b(j)
    <3>1. j \in 1..Tally /\ j < at /\ j # at /\ j - 1 = k /\ j \in 0..L /\ k \in 0..Tally
      BY <1>4, <1>12
    <3>2. ru[k] = x /\ \A i \in 1..Len(x) : x[i] \in Low
      OBVIOUS
    <3>3. x \in Seq(S)
      BY <3>1
    <3> HIDE DEF j
    <3>4. y \in Seq(S) /\ \A i \in 1..Len(y) : y[i] \in Low
      BY <1>10, <3>1
    <3>5. rt[j] = x \o y /\ ru[j] = x \o y
      BY <1>9, <3>1, <3>2
    <3> HIDE DEF x, y, L
    <3>6. \A i \in 1..Len(x \o y) : (x \o y)[i] \in Low
      BY <3>2, <3>3, <3>4, AllConcat
    <3>7. j \in T1
      BY <3>1, <3>5, <3>6
    <3>8. QED
      BY <3>7 DEF j
  <2> HIDE DEF T1, L
  <2>3. QED
    BY <1>12, <2>1, <2>2, BoundedInduction
<1> DEFINE p == rt[L]
<1>14. p \in Seq(S) /\ ru[L] = p /\ \A i \in 1..Len(p) : p[i] \in Low
  <2>1. L \in T1
    <3> HIDE DEF T1, L
    <3>1. QED
      BY <1>12, <1>13
  <2>2. QED
    BY <1>12, <2>1
<1>15. rt[at] = p /\ ru[at] = p \o r
  <2>1. rt[at] = p \o <<>>
    BY <1>9
  <2> HIDE DEF p, L
  <2>2. p \o <<>> = p
    BY <1>14, ConcatEmptySeq
  <2>3. ru[at] = p \o r
    BY <1>9, <1>14 DEF L
  <2>4. QED
    BY <2>1, <2>2, <2>3
<1> HIDE DEF p
<1> DEFINE M == Tally - at
           Grown(q, k) == /\ q \in Seq(S) /\ rt[at + k] = p \o q /\ ru[at + k] = p \o r \o q
                          /\ \A i \in 1..Len(q) : q[i] \in High
           T2 == {k \in 0..M : \E q : Grown(q, k)}
<1>16. M \in Nat /\ at + M = Tally
  BY <1>4, <1>12
<1>17. 0..M \subseteq T2
  <2>1. 0 \in T2
    <3>1. Grown(<<>>, 0)
      <4>1. at + 0 = at /\ <<>> \in Seq(S) /\ \A i \in 1..Len(<<>>) : <<>>[i] \in High
        BY <1>12
      <4>2. p \o <<>> = p /\ p \o r \in Seq(S)
        BY <1>7, <1>14, ConcatEmptySeq
      <4>3. p \o r \o <<>> = p \o r
        BY <4>2, ConcatEmptySeq
      <4>4. QED
        BY <1>15, <4>1, <4>2, <4>3
    <3>2. 0 \in 0..M
      BY <1>16
    <3> HIDE DEF Grown
    <3>3. QED
      BY <3>1, <3>2
  <2>2. \A k \in 0..M : k < M /\ k \in T2 => k + 1 \in T2
    <3> TAKE k \in 0..M
    <3> HAVE k < M /\ k \in T2
    <3> DEFINE j == at + k + 1
    <3>1. PICK q : Grown(q, k)
      <4> HIDE DEF Grown
      <4>1. QED
        OBVIOUS
    <3>2. j \in 1..Tally /\ j > at /\ j # at /\ j - 1 = at + k /\ at + (k + 1) = j /\ k + 1 \in 0..M
      BY <1>4, <1>12, <1>16
    <3> DEFINE y == b(j)
               x == p \o r
    <3> HIDE DEF j
    <3>3. y \in Seq(S) /\ \A i \in 1..Len(y) : y[i] \in High
      BY <1>11, <3>2
    <3>4. /\ q \in Seq(S) /\ rt[j - 1] = p \o q /\ ru[j - 1] = x \o q
          /\ \A i \in 1..Len(q) : q[i] \in High
      BY <3>1, <3>2
    <3>5. rt[j] = (p \o q) \o y /\ ru[j] = (x \o q) \o y
      BY <1>9, <3>2, <3>4
    <3>6. x \in Seq(S)
      BY <1>7, <1>14
    <3> HIDE DEF y, x
    <3>7. (p \o q) \o y = p \o (q \o y) /\ (x \o q) \o y = x \o (q \o y)
      <4>1. Groups(p, q, y)
        BY <1>14, <3>3, <3>4, Regroup
      <4>2. Groups(x, q, y)
        BY <3>3, <3>4, <3>6, Regroup
      <4>3. QED
        BY <4>1, <4>2 DEF Groups
    <3> DEFINE z == q \o y
    <3>8. z \in Seq(S) /\ \A i \in 1..Len(z) : z[i] \in High
      BY <3>3, <3>4, AllConcat
    <3>9. rt[j] = p \o z /\ ru[j] = x \o z
      BY <3>5, <3>7
    <3> HIDE DEF z
    <3>10. Grown(z, k + 1)
      BY <3>2, <3>8, <3>9 DEF x
    <3> HIDE DEF Grown
    <3>11. QED
      BY <3>2, <3>10
  <2> HIDE DEF T2, M
  <2>3. QED
    BY <1>16, <2>1, <2>2, BoundedInduction
<1>18. PICK q : Grown(q, M)
  <2>1. M \in T2
    <3> HIDE DEF T2, M
    <3>1. QED
      BY <1>16, <1>17
  <2> HIDE DEF Grown
  <2>2. QED
    BY <2>1
<1>19. /\ q \in Seq(S) /\ rt[Tally] = p \o q /\ ru[Tally] = p \o r \o q
       /\ \A i \in 1..Len(q) : q[i] \in High
  BY <1>16, <1>18
<1>20. Parts(p, q, E, X, t, n, e)
  <2>1. Printed(t) = p \o q /\ Printed(u) = p \o r \o q
    BY <1>9, <1>19
  <2>2. \A i \in 1..Len(p) : OfRule(p[i]) /\ ~ Higher(p[i], n)
    BY <1>14 DEF Low
  <2>3. \A i \in 1..Len(q) : Higher(q[i], n)
    BY <1>19 DEF High
  <2>4. QED
    BY <1>14, <1>19, <2>1, <2>2, <2>3 DEF Parts, S, u, r
<1>21. QED
  BY <1>20

-----------------------------------------------------------------------------
(* The number allocated to a new rule is free.                             *)
LEMMA AllocatedIsFree ==
  ASSUME History, request # None, AddDrawn
  PROVE  table[request.plan.number] = Absent
<1> DEFINE n == request.plan.number
<1>1. n = NextRuleID(old) /\ n \in RuleIds
  BY NumberIs
<1>2. Allocates(table, n)
  BY <1>1, DrawnWhole DEF DrawnOnWholeAcl, AddDrawn, AddPlan, PlanOf
<1> HIDE DEF n
<1>3. n \notin Occupied(table)
  <2>1. n \in Window /\ \A m \in Occupied(table) \cap Window : m < n
    BY <1>2 DEF Allocates
  <2>2. n \in Nat
    BY <1>1, TableAssumption
  <2>3. QED
    BY <2>1, <2>2
<1>4. QED
  BY <1>1, <1>3 DEF Occupied, n

(* The head of a text, with the count bumped.                              *)
LEMMA BumpedTop ==
  ASSUME NEW X, NEW h \in Lines(X), Step \in Lines(X), NEW p \in Seq(Lines(X)),
         Headless(p)
  PROVE  Bumped(<<h, Step>> \o p) = <<BumpRuleCount(h), Step>> \o p
<1> DEFINE g == BumpRuleCount(h)
           w == <<h, Step>> \o p
           v == <<g, Step>> \o p
<1>1. BumpRuleCount(Step) = Step
  BY NeutralHead
<1>2. \A i \in 1..Len(p) : BumpRuleCount(p[i]) = p[i]
  BY DEF BumpRuleCount, Headless
<1>3. /\ DOMAIN w = 1..2 + Len(p) /\ w[1] = h /\ w[2] = Step
      /\ \A i \in 3..2 + Len(p) : w[i] = p[i - 2] /\ i - 2 \in 1..Len(p)
  OBVIOUS
<1>4. /\ DOMAIN v = 1..2 + Len(p) /\ v[1] = g /\ v[2] = Step
      /\ \A i \in 3..2 + Len(p) : v[i] = p[i - 2]
      /\ v = [i \in 1..2 + Len(p) |-> v[i]]
  <2> HIDE DEF g
  <2>1. QED
    OBVIOUS
<1>5. \A i \in 1..2 + Len(p) : i = 1 \/ i = 2 \/ i \in 3..2 + Len(p)
  OBVIOUS
<1> HIDE DEF w, v
<1>6. \A i \in 1..2 + Len(p) : BumpRuleCount(w[i]) = v[i]
  BY <1>1, <1>2, <1>3, <1>4, <1>5
<1> HIDE DEF g
<1>7. Bumped(w) = [i \in 1..2 + Len(p) |-> BumpRuleCount(w[i])]
  BY <1>3 DEF Bumped
<1>8. Bumped(w) = v
  BY <1>4, <1>6, <1>7
<1>9. QED
  BY <1>8 DEF w, v, g

(* A text that is v but for the prompt, which stands somewhere in it.      *)
Holding(w, v, S) == \E a \in Seq(S), b \in Seq(S) : w = (a \o <<Prompt>>) \o b /\ a \o b = v

(* The prompt can be taken out again.                                      *)
LEMMA TakenOut ==
  ASSUME NEW S, Prompt \in S, NEW w, NEW v, Holding(w, v, S)
  PROVE  \E i \in DOMAIN w : w[i] = Prompt /\ RemoveAt(w, i) = v
<1>1. PICK a \in Seq(S), b \in Seq(S) : w = (a \o <<Prompt>>) \o b /\ a \o b = v
  BY DEF Holding
<1> DEFINE p == Prompt
           M == Len(a)
           N == Len(b)
           u == (a \o <<p>>) \o b
<1>2. p \in S
  OBVIOUS
<1> HIDE DEF p
<1>3. /\ u \in Seq(S) /\ Len(u) = M + 1 + N /\ DOMAIN u = 1..M + 1 + N
      /\ M \in Nat /\ N \in Nat /\ DOMAIN a = 1..M /\ DOMAIN b = 1..N
      /\ \A i \in 1..M : u[i] = a[i]
      /\ u[M + 1] = p
      /\ \A i \in 1..N : u[M + 1 + i] = b[i]
  <2> DEFINE ap == a \o <<p>>
  <2>1. /\ ap \in Seq(S) /\ Len(ap) = M + 1 /\ ap[M + 1] = p
        /\ \A i \in 1..M : ap[i] = a[i]
    BY <1>2
  <2>2. M \in Nat /\ N \in Nat /\ DOMAIN a = 1..M /\ DOMAIN b = 1..N
    OBVIOUS
  <2> HIDE DEF ap
  <2>3. /\ ap \o b \in Seq(S) /\ Len(ap \o b) = Len(ap) + N
        /\ \A i \in 1..Len(ap) + N : (ap \o b)[i] = IF i <= Len(ap) THEN ap[i] ELSE b[i - Len(ap)]
    BY <2>1, ConcatProperties
  <2>4. DOMAIN (ap \o b) = 1..Len(ap \o b)
    BY <2>3, LenProperties
  <2>5. u = ap \o b
    BY DEF ap
  <2> HIDE DEF u, M, N
  <2>6. \A i \in 1..M : u[i] = a[i]
    BY <2>1, <2>2, <2>3, <2>5
  <2>7. u[M + 1] = p
    BY <2>1, <2>2, <2>3, <2>5
  <2>8. \A i \in 1..N : u[M + 1 + i] = b[i]
    <3> TAKE i \in 1..N
    <3> DEFINE k == M + 1 + i
    <3>1. k \in 1..Len(ap) + N /\ ~ (k <= Len(ap)) /\ k - Len(ap) = i
      BY <2>1, <2>2
    <3> HIDE DEF k
    <3>2. u[k] = b[k - Len(ap)]
      BY <2>3, <2>5, <3>1
    <3>3. QED
      BY <3>1, <3>2 DEF k
  <2>9. QED
    BY <2>1, <2>2, <2>3, <2>4, <2>5, <2>6, <2>7, <2>8
<1> HIDE DEF u, M, N
<1>4. SubSeq(u, 1, M) = a
  <2>1. SubSeq(u, 1, M) = [i \in 1..M |-> u[i]]
    <3>1. SubSeq(u, 1, M) = [i \in 1..M |-> u[1 + i - 1]]
      BY <1>3
    <3>2. \A i \in 1..M : 1 + i - 1 = i
      BY <1>3
    <3>3. QED
      BY <3>1, <3>2
  <2>2. a = [i \in 1..M |-> a[i]]
    BY <1>3
  <2>3. QED
    BY <1>3, <2>1, <2>2
<1>5. SubSeq(u, M + 1 + 1, M + 1 + N) = b
  <2> DEFINE c == SubSeq(u, M + 1 + 1, M + 1 + N)
  <2>1. c = [i \in 1..N |-> u[M + 1 + i]]
    <3>1. c = [i \in 1..(M + 1 + N) - (M + 1 + 1) + 1 |-> u[(M + 1 + 1) + i - 1]]
      <4>1. M + 1 + 1 \in Int /\ M + 1 + N \in Int
        BY <1>3
      <4>2. \A x, y \in Int : SubSeq(u, x, y) = [i \in 1..y - x + 1 |-> u[x + i - 1]]
        BY <1>3
      <4>3. QED
        BY <4>1, <4>2
    <3>2. /\ (M + 1 + N) - (M + 1 + 1) + 1 = N
          /\ \A i \in 1..N : (M + 1 + 1) + i - 1 = M + 1 + i
      BY <1>3
    <3> HIDE DEF c
    <3>3. QED
      BY <3>1, <3>2
  <2>2. b = [i \in 1..N |-> b[i]]
    BY <1>3
  <2> HIDE DEF c
  <2>3. QED
    BY <1>3, <2>1, <2>2 DEF c
<1>6. RemoveAt(u, M + 1) = a \o b
  <2> DEFINE k == M + 1
  <2>1. k - 1 = M
    BY <1>3
  <2> HIDE DEF k
  <2>2. RemoveAt(u, k) = SubSeq(u, 1, k - 1) \o SubSeq(u, k + 1, Len(u))
    BY Zenon DEF RemoveAt
  <2>3. SubSeq(u, k + 1, Len(u)) = b
    BY <1>3, <1>5 DEF k
  <2>4. SubSeq(u, 1, k - 1) = a
    BY <1>4, <2>1
  <2>5. RemoveAt(u, k) = a \o b
    BY <2>2, <2>3, <2>4
  <2>6. QED
    BY <2>5 DEF k
<1>7. M + 1 \in DOMAIN u /\ u[M + 1] = p
  BY <1>3
<1>8. w = u /\ a \o b = v
  BY <1>1 DEF u, p
<1> DEFINE k == M + 1
<1> HIDE DEF k
<1>9. k \in DOMAIN w /\ w[k] = Prompt /\ RemoveAt(w, k) = v
  BY <1>6, <1>7, <1>8 DEF k, p
<1>10. QED
  BY <1>9

(* Lines without a header are not bumped.                                  *)
LEMMA BumpedNone ==
  ASSUME NEW S, NEW q \in Seq(S), Headless(q)
  PROVE  Bumped(q) = q
<1>1. DOMAIN q = 1..Len(q)
  OBVIOUS
<1>2. \A i \in 1..Len(q) : BumpRuleCount(q[i]) = q[i]
  BY DEF Headless, BumpRuleCount
<1>3. q = [i \in 1..Len(q) |-> q[i]]
  OBVIOUS
<1>4. QED
  BY <1>1, <1>2, <1>3 DEF Bumped

(* The prediction of a new rule on the whole text is what the switch will  *)
(* print, with the prompt behind the rules there were.                     *)
LEMMA PredictedRule ==
  ASSUME NEW E, NEW X, Texts(E, X), NEW t \in TablesOf(E), NEW n \in RuleIds, t[n] = Absent,
         NEW F, NEW e \in F \cup {Absent}, Texts(F, X), NEW o
  PROVE  Holding(ExpectedConfig(DisplayACL(t, o), n, e),
                 <<BumpRuleCount(HeadLine(t, o)), Step>> \o Printed(WithRule(t, n, e)), Lines(X))
<1> DEFINE S == Lines(X)
           h == HeadLine(t, o)
           r == RuleLines(n, e)
           top == <<h, Step>>
           g == BumpRuleCount(h)
           bump == <<g, Step>>
           one == <<Prompt>>
<1>1. PICK p, q : Parts(p, q, E, X, t, n, e)
  BY PrintedParts
<1>2. /\ p \in Seq(S) /\ q \in Seq(S) /\ Printed(t) = p \o q
      /\ Printed(WithRule(t, n, e)) = p \o r \o q
      /\ \A i \in 1..Len(p) : OfRule(p[i]) /\ ~ Higher(p[i], n)
      /\ \A i \in 1..Len(q) : Higher(q[i], n)
  BY <1>1 DEF Parts
<1>3. h \in S /\ Step \in S /\ ~ OfRule(h) /\ ~ OfRule(Step)
  BY HeadIs DEF Texts
<1>4. g \in S
  <2>1. \A k : Counted(k).tag = "header"
    BY DEF Counted, Line
  <2>2. h.tag = "header" => h.n \in Nat
    BY <1>3 DEF Lines
  <2>3. ASSUME NEW k \in Nat PROVE Counted(k) \in S
    <3>1. "header" \in Tags /\ None \in X
      BY DEF Tags, Texts
    <3>2. QED
      BY <3>1, LineIs DEF Counted
  <2>4. h.tag = "header" => Counted(h.n + 1) \in S
    <3>1. ASSUME h.tag = "header" PROVE Counted(h.n + 1) \in S
      <4>1. h.n + 1 \in Nat
        BY <2>2, <3>1
      <4>2. QED
        BY <2>3, <4>1
    <3>2. QED
      BY <3>1
  <2> HIDE DEF h, S
  <2>5. QED
    BY <1>3, <2>4 DEF BumpRuleCount
<1>5. r \in Seq(S)
  <2>1. n \in Nat
    BY TableAssumption
  <2>2. OfOneRule(RuleLines(n, e), X, n)
    BY <2>1, RuleLinesOf
  <2>3. QED
    BY <2>2 DEF OfOneRule
<1>o. one \in Seq(S) /\ Prompt \in S /\ ~ OfRule(Prompt) /\ None \in X
  BY PromptIs DEF Texts
<1> HIDE DEF h, g, S, r, one
<1>6. top \in Seq(S) /\ bump \in Seq(S) /\ top \o p \in Seq(S)
  BY <1>2, <1>3, <1>4
<1>7. /\ p \o one \in Seq(S) /\ Headless(p) /\ Headless(p \o one)
      /\ \A i \in 1..Len(p \o one) : ~ Higher((p \o one)[i], n)
  <2>1. /\ p \o one \in Seq(S) /\ Len(p \o one) = Len(p) + 1 /\ Len(p) \in Nat
        /\ \A i \in 1..Len(p) : (p \o one)[i] = p[i]
        /\ (p \o one)[Len(p) + 1] = Prompt
        /\ Headless(p) => Headless(p \o one)
    <3>1. p \in Seq(Lines(X))
      BY <1>2 DEF S
    <3>2. QED
      BY <1>o, <3>1, PromptEnds DEF S, one
  <2>2. Headless(p)
    BY <1>2 DEF Headless, OfRule
  <2>3. \A i \in 1..Len(p) + 1 : i \in 1..Len(p) \/ i = Len(p) + 1
    BY <2>1
  <2>4. \A i \in 1..Len(p) + 1 : ~ Higher((p \o one)[i], n)
    BY <1>2, <1>o, <2>1, <2>3 DEF Higher
  <2>5. QED
    BY <2>1, <2>2, <2>4
<1>8. ASSUME NEW y \in Seq(S), \A i \in 1..Len(y) : ~ Higher(y[i], n), Headless(y),
             NEW z \in Seq(S), z = <<>> \/ Higher(z[1], n), Headless(z)
      PROVE  ExpectedConfig((top \o y) \o z, n, e) = ((bump \o y) \o r) \o z
  <2>1. \A i \in 1..Len(top \o y) : ~ Higher((top \o y)[i], n)
    <3>1. \A i \in 1..Len(top \o y) :
            \/ (top \o y)[i] = h \/ (top \o y)[i] = Step
            \/ \E j \in 1..Len(y) : (top \o y)[i] = y[j]
      <4>1. Len(top \o y) = 2 + Len(y) /\ (top \o y)[1] = h /\ (top \o y)[2] = Step
        BY <1>3
      <4>2. \A i \in 3..2 + Len(y) : (top \o y)[i] = y[i - 2] /\ i - 2 \in 1..Len(y)
        BY <1>3
      <4>3. \A i \in 1..2 + Len(y) : i = 1 \/ i = 2 \/ i \in 3..2 + Len(y)
        OBVIOUS
      <4> HIDE DEF top
      <4>4. QED
        BY <4>1, <4>2, <4>3
    <3> HIDE DEF top
    <3>2. QED
      BY <1>3, <1>8, <3>1 DEF Higher
  <2>2. Bumped(top \o y) = bump \o y
    <3>1. h \in Lines(X) /\ Step \in Lines(X) /\ y \in Seq(Lines(X))
      BY <1>3 DEF S
    <3>2. QED
      BY <1>8, <3>1, BumpedTop DEF g
  <2>3. Bumped(z) = z
    BY <1>8, BumpedNone
  <2>4. top \o y \in Seq(S)
    BY <1>6
  <2> DEFINE x == top \o y
  <2> HIDE DEF x, top
  <2>5. x \in Seq(Lines(X)) /\ z \in Seq(Lines(X)) /\ \A i \in 1..Len(x) : ~ Higher(x[i], n)
    BY <2>1, <2>4 DEF x, S
  <2>6. ExpectedConfig(x \o z, n, e) = Bumped(x) \o RuleLines(n, e) \o Bumped(z)
    BY <1>8, <2>5, ExpectedSplit, SMTT(60)
  <2>7. QED
    BY <2>2, <2>3, <2>6 DEF x, r
<1>9. DisplayACL(t, o) = top \o ((p \o q) \o one)
  BY <1>2, EndedIs DEF top, h, one, Ended
<1> DEFINE v == bump \o ((p \o r) \o q)
<1>10. v = <<g, Step>> \o Printed(WithRule(t, n, e))
  BY <1>2
<1> HIDE DEF top, bump
<1>11. ((bump \o p) \o r) \o q = v
  <2>1. p \o r \in Seq(S) /\ bump \o p \in Seq(S)
    BY <1>2, <1>5, <1>6
  <2>2. Groups(bump, p, r)
    BY <1>2, <1>5, <1>6, Regroup
  <2> DEFINE pr == p \o r
  <2> HIDE DEF pr
  <2>3. Groups(bump, pr, q)
    BY <1>2, <1>6, <2>1, Regroup DEF pr
  <2>4. QED
    BY <2>2, <2>3 DEF Groups, pr
<1>12. CASE q # <<>>
  <2> DEFINE z == q \o one
             a == ((bump \o p) \o r) \o q
  <2>1. z \in Seq(S) /\ Headless(z) /\ Higher(z[1], n)
    <3>1. /\ q \o one \in Seq(S) /\ (\A i \in 1..Len(q) : (q \o one)[i] = q[i])
          /\ Headless(q) => Headless(q \o one)
      <4>1. q \in Seq(Lines(X))
        BY <1>2 DEF S
      <4>2. QED
        BY <1>o, <4>1, PromptEnds DEF S, one
    <3>2. Headless(q)
      BY <1>2 DEF Headless, Higher, OfRule
    <3>3. 1 \in 1..Len(q)
      BY <1>2, <1>12
    <3>4. QED
      BY <1>2, <3>1, <3>2, <3>3
  <2>2. \A i \in 1..Len(p) : ~ Higher(p[i], n)
    BY <1>2
  <2> HIDE DEF z
  <2>3. ExpectedConfig((top \o p) \o z, n, e) = ((bump \o p) \o r) \o z
    BY <1>2, <1>7, <1>8, <2>1, <2>2
  <2>4. top \o ((p \o q) \o one) = (top \o p) \o z
    <3>1. Groups(p, q, one)
      BY <1>2, <1>o, Regroup
    <3>2. Groups(top, p, z)
      BY <1>2, <1>6, <2>1, Regroup
    <3>3. QED
      BY <3>1, <3>2 DEF Groups, z
  <2> DEFINE c == (bump \o p) \o r
  <2>5. c \in Seq(S) /\ a \in Seq(S)
    BY <1>2, <1>5, <1>6
  <2> HIDE DEF c
  <2>6. c \o z = (c \o q) \o one
    <3>1. Groups(c, q, one)
      BY <1>2, <1>o, <2>5, Regroup
    <3>2. QED
      BY <3>1 DEF Groups, z
  <2>7. a = c \o q /\ a = v
    BY <1>11 DEF c
  <2> HIDE DEF a, v
  <2>8. ExpectedConfig(DisplayACL(t, o), n, e) = a \o one
    BY <1>9, <2>3, <2>4, <2>6, <2>7 DEF c
  <2>9. /\ a \o one \in Seq(S) /\ (a \o one) \o <<>> = a \o one /\ a \o <<>> = a
        /\ <<>> \in Seq(S)
    BY <1>o, <2>5
  <2> DEFINE none == <<>>
             w == ExpectedConfig(DisplayACL(t, o), n, e)
  <2>10. none \in Seq(S) /\ a \in Seq(S) /\ w = (a \o one) \o none /\ a \o none = v
    BY <2>5, <2>7, <2>8, <2>9
  <2> HIDE DEF none, w
  <2>11. Holding(w, v, S)
    BY <2>10 DEF Holding, one
  <2>12. QED
    BY <1>10, <2>11 DEF w, S, g, h
<1>13. CASE q = <<>>
  <2> DEFINE y == p \o one
             a == bump \o p
             w == ExpectedConfig(DisplayACL(t, o), n, e)
             none == <<>>
  <2>1. p \o q = p
    BY <1>2, <1>13
  <2>2. top \o y \in Seq(S) /\ (top \o y) \o none = top \o y
    BY <1>6, <1>7
  <2>3. none \in Seq(S) /\ Headless(none)
    BY DEF Headless
  <2>4. y \in Seq(S) /\ Headless(y) /\ \A i \in 1..Len(y) : ~ Higher(y[i], n)
    BY <1>7
  <2>5. a \in Seq(S) /\ (bump \o y) \o r \in Seq(S) /\ a \o r \in Seq(S)
    BY <1>2, <1>5, <1>6, <1>7
  <2>6. ((bump \o y) \o r) \o none = (bump \o y) \o r /\ (a \o r) \o none = a \o r
    BY <2>5
  <2>7. none = <<>> /\ q = none
    BY <1>13
  <2>8. (a \o r) \o q = v
    BY <1>11
  <2>9. bump \o y = a \o one
    <3>1. Groups(bump, p, one)
      BY <1>2, <1>6, <1>o, Regroup
    <3>2. QED
      BY <3>1 DEF Groups
  <2>10. w = ExpectedConfig(top \o y, n, e)
    BY <1>9, <2>1
  <2> HIDE DEF none, y, a, w, v
  <2>11. ExpectedConfig((top \o y) \o none, n, e) = ((bump \o y) \o r) \o none
    BY <1>8, <2>3, <2>4, <2>7
  <2>12. w = (a \o one) \o r /\ a \o r = v
    BY <2>2, <2>6, <2>7, <2>8, <2>9, <2>10, <2>11
  <2>13. Holding(w, v, S)
    BY <1>5, <2>5, <2>12 DEF Holding, one
  <2>14. QED
    BY <1>10, <2>13 DEF w, S, g, h
<1>14. QED
  BY <1>12, <1>13

(* The command of a valid plan is a rule.                                  *)
LEMMA CommandIsRule ==
  ASSUME NEW p, ValidRuleFields(p)
  PROVE  BuildRuleCmd(p) \in Rules
<1>1. \A ad : Matched(ad) \in SUBSET Words
  BY DEF Matched
<1>2. ASSUME NEW c, ValidPortCond(c) PROVE PortsOf(c) \in SUBSET Ports
  <2>1. c.op \in {"eq", "lt", "gt", "neq", "range"}
    BY <1>2 DEF ValidPortCond, Operators
  <2>2. QED
    BY <2>1 DEF PortsOf
<1>3. p.protocol \in Protocols
  BY DEF ValidRuleFields
<1> DEFINE from == IF p.src = Blank THEN Words ELSE Matched(p.src)
           fromPorts == IF p.src = Blank \/ p.srcPort = Blank THEN Ports ELSE PortsOf(p.srcPort)
           to == Matched(p.dst)
           toPorts == IF p.dstPort = Blank THEN Ports ELSE PortsOf(p.dstPort)
<1>4. from \in SUBSET Words /\ to \in SUBSET Words
  BY <1>1
<1>5. fromPorts \in SUBSET Ports /\ toPorts \in SUBSET Ports
  BY <1>2 DEF ValidRuleFields
<1>6. BuildRuleCmd(p) = [protocol |-> p.protocol, from |-> from, fromPorts |-> fromPorts,
                         to |-> to, toPorts |-> toPorts]
  BY DEF BuildRuleCmd
<1> HIDE DEF from, fromPorts, to, toPorts
<1>7. QED
  BY <1>3, <1>4, <1>5, <1>6 DEF Rules

(* A request for a new rule has an entry to make.                          *)
LEMMA EntryIsThere ==
  ASSUME History, request # None, AddDrawn
  PROVE  request.entry # Absent
<1>1. /\ request.plan = AddPlan /\ ValidateForAgent(AddPlan)
      /\ request.plan.op = "add"
      /\ request.entry = [body |-> BuildRuleCmd(AddPlan), comment |-> request.entry.comment]
      /\ request.entry.comment \in Marks
  BY NumberIs DEF AddDrawn
<1>2. ValidRuleFields(AddPlan)
  BY <1>1 DEF ValidateForAgent
<1>3. request.entry \in [body : Rules, comment : Marks]
  BY <1>1, <1>2, CommandIsRule
<1>4. QED
  BY <1>3, ReviewAssumption DEF Marks

(* A rule under a free number is one rule more.                            *)
LEMMA OneRuleMore ==
  ASSUME NEW E, NEW t \in TablesOf(E), NEW n \in RuleIds, t[n] = Absent, NEW e, e # Absent
  PROVE  Count(WithRule(t, n, e)) = Count(t) + 1 /\ Count(t) \in Nat
<1> DEFINE u == WithRule(t, n, e)
<1>1. \A m \in RuleIds : u[m] = IF m = n THEN e ELSE t[m]
  BY DEF WithRule, TablesOf
<1> HIDE DEF u
<1>2. Occupied(u) = Occupied(t) \cup {n} /\ n \notin Occupied(t)
  BY <1>1 DEF Occupied
<1>3. IsFiniteSet(Occupied(t)) /\ Count(t) \in Nat
  BY OccupiedFinite
<1>4. QED
  BY <1>2, <1>3, FS_AddElement DEF Count, u

(* A switch that did exactly what was approved, and nothing else, shows    *)
(* the predicted configuration line for line, wherever that has the        *)
(* prompt.                                                                 *)
LEMMA Predicted == History => PredictionComesTrue
<1> SUFFICES ASSUME History, request # None, old = DisplayACL(table, omit)
             PROVE  \E i \in DOMAIN new :
                      /\ new[i] = Prompt
                      /\ Neutral(RemoveAt(new, i)) = Neutral(AclLines(Approved, omit))
                      /\ CountPredicted => RemoveAt(new, i) = AclLines(Approved, omit)
  BY DEF PredictionComesTrue
<1> DEFINE n == request.plan.number
           e == request.entry
           E == Entries \cup {e}
           X == TextsOf(E)
           S == Lines(X)
<1>1. n \in RuleIds /\ table \in TablesOf(Entries)
  BY NumberIs DEF History
<1>2. Texts(E, X) /\ Texts(Entries, X) /\ Texts({e}, X) /\ table \in TablesOf(E)
  <2>1. Texts(E, X)
    BY TextsAre
  <2> HIDE DEF X
  <2>2. QED
    BY <1>1, <2>1 DEF Texts, TablesOf
<1> HIDE DEF X
<1>3. Prompt \in S
  BY <1>2, PromptIs DEF Texts
<1>4. ASSUME NEW u \in TablesOf(E), NEW g, NeutralizeRuleCount(g) = Bare,
             Holding(new, <<g, Step>> \o Printed(u), S), Approved = u,
             CountPredicted => g = HeadLine(u, omit)
      PROVE  \E i \in DOMAIN new :
               /\ new[i] = Prompt
               /\ Neutral(RemoveAt(new, i)) = Neutral(AclLines(Approved, omit))
               /\ CountPredicted => RemoveAt(new, i) = AclLines(Approved, omit)
  <2> DEFINE v == <<g, Step>> \o Printed(u)
  <2>1. Printed(u) \in Seq(Lines(X)) /\ Headless(Printed(u))
    BY <1>2, PrintedIs, EndedIs
  <2>2. Neutral(v) = <<Bare, Step>> \o Printed(u)
    BY <1>4, <2>1, NeutralText
  <2>3. Neutral(AclLines(u, omit)) = <<Bare, Step>> \o Printed(u)
    BY <1>2, NeutralLines
  <2>4. AclLines(u, omit) = <<HeadLine(u, omit), Step>> \o Printed(u)
    BY <1>2, PrintedIs
  <2>5. CountPredicted => v = AclLines(u, omit)
    BY <1>4, <2>4
  <2> HIDE DEF v, S
  <2> DEFINE w == new
  <2>a. Prompt \in S /\ Holding(w, v, S)
    BY <1>3, <1>4 DEF v
  <2> HIDE DEF w
  <2>b. \E i \in DOMAIN w : w[i] = Prompt /\ RemoveAt(w, i) = v
    BY ONLY <2>a, TakenOut
  <2>6. PICK i \in DOMAIN new : new[i] = Prompt /\ RemoveAt(new, i) = v
    BY <2>b DEF w
  <2>7. QED
    BY <1>4, <2>2, <2>3, <2>5, <2>6
<1>5. CASE AddDrawn
  <2>1. Approved = WithRule(table, n, e) /\ new = ExpectedConfig(old, n, e)
    BY <1>5, NumberIs DEF Approved
  <2>2. table[n] = Absent
    BY <1>5, AllocatedIsFree
  <2>3. e # Absent
    BY <1>5, EntryIsThere
  <2> DEFINE u == WithRule(table, n, e)
             g == BumpRuleCount(HeadLine(table, omit))
  <2>4. u \in TablesOf(E)
    BY <1>2 DEF WithRule, TablesOf
  <2> HIDE DEF n, e, E
  <2>5. Holding(new, <<g, Step>> \o Printed(u), S)
    <3>1. e \in {e} \cup {Absent}
      OBVIOUS
    <3>2. Holding(ExpectedConfig(DisplayACL(table, omit), n, e), <<g, Step>> \o Printed(u), S)
      BY <1>1, <1>2, <2>2, <3>1, PredictedRule
    <3>3. QED
      BY <2>1, <3>2
  <2>6. NeutralizeRuleCount(g) = Bare
    BY NeutralHead
  <2>7. CountPredicted => g = HeadLine(u, omit)
    <3>1. old[1] = HeadLine(table, omit)
      BY <1>2, DisplayLines
    <3>2. Count(u) = Count(table) + 1 /\ Count(table) \in Nat
      BY <1>1, <2>2, <2>3, OneRuleMore
    <3>3. \A k : Counted(k).tag = "header" /\ Counted(k).n = k
      BY DEF Counted, Line
    <3>4. Bare.tag # "header"
      BY DEF Bare, Line
    <3>5. HeadLine(table, omit).tag = "header" => g = Counted(Count(table) + 1)
      BY <3>3, <3>4 DEF HeadLine, BumpRuleCount
    <3>6. HeadLine(u, omit) = Counted(Count(table) + 1)
      BY <3>2 DEF HeadLine
    <3>7. QED
      BY <3>1, <3>5, <3>6 DEF CountPredicted
  <2> HIDE DEF u, g
  <2>8. Approved = u
    BY <2>1 DEF u
  <2>9. QED
    BY <1>4, <2>4, <2>5, <2>6, <2>7, <2>8
<1>6. CASE ~ AddDrawn
  <2>1. /\ Approved = WithoutRule(table, n) /\ new = LinesWithout(old, n)
        /\ ~ CountPredicted
    BY <1>6, NumberIs DEF Approved, RemoveRuleFromConfig, CountPredicted
  <2> DEFINE u == WithoutRule(table, n)
             g == HeadLine(table, omit)
  <2> HIDE DEF n, e, E
  <2>3. u \in TablesOf(E)
    BY <1>1, <1>2, PrintedWithout
  <2>4. new = <<g, Step>> \o Ended(u)
    BY <1>1, <1>2, <2>1, DisplayWithout
  <2>5. NeutralizeRuleCount(g) = Bare
    BY NeutralHead
  <2>6. g \in S /\ Step \in S /\ <<Prompt>> \in Seq(S)
    BY <1>2, HeadIs, PromptIs DEF Texts
  <2> HIDE DEF u, g
  <2>7. Printed(u) \in Seq(S)
    BY <1>2, <2>3, PrintedIs
  <2> HIDE DEF S
  <2>8. Holding(new, <<g, Step>> \o Printed(u), S)
    <3> DEFINE top == <<g, Step>>
               one == <<Prompt>>
               body == Printed(u)
               v == top \o body
               none == <<>>
    <3>1. top \in Seq(S)
      BY <2>6
    <3>2. Groups(top, body, one)
      BY <2>6, <2>7, <3>1, Regroup
    <3>3. new = top \o (body \o one)
      BY <2>4 DEF Ended
    <3> HIDE DEF top, one, body
    <3>4. new = v \o one
      BY <3>2, <3>3 DEF Groups
    <3>5. body \in Seq(S) /\ one \in Seq(S)
      BY <2>6, <2>7 DEF body, one
    <3>6. v \in Seq(S) /\ v \o one \in Seq(S)
      BY <3>1, <3>5
    <3> HIDE DEF v
    <3>7. none \in Seq(S) /\ v \o none = v /\ (v \o one) \o none = v \o one
      BY <3>6
    <3> HIDE DEF none
    <3>8. new = (v \o one) \o none /\ v \o none = v /\ none \in Seq(S)
      BY <3>4, <3>7
    <3>9. Holding(new, v, S)
      BY <3>6, <3>8 DEF Holding, one
    <3>10. QED
      BY <3>9 DEF v, top, body
  <2>9. Approved = u
    BY <2>1 DEF u
  <2>10. QED
    BY <1>4, <2>1, <2>3, <2>5, <2>8, <2>9
<1>7. QED
  BY <1>5, <1>6

(* The same in every state of the system (core.go:674-677).                *)
THEOREM PredictionComesTrueHolds == Spec => []PredictionComesTrue
BY HistoryHolds, Predicted, PTL

-----------------------------------------------------------------------------
(* A walk over a set of places, every step of which lowers a rank, writes  *)
(* one item a step.                                                        *)
Walks(f, G, End, item, after1) ==
  \A p \in G : f[p] = IF p \in End THEN <<>> ELSE <<item[p]>> \o f[after1[p]]

Descends(G, End, after1, rank) ==
  \A p \in G : p \notin End => after1[p] \in G /\ rank[after1[p]] < rank[p]

(* What holds a place whenever it holds the next one holds all of them.    *)
LEMMA WalkInduction ==
  ASSUME NEW G, NEW End, NEW after1, NEW K \in Nat, NEW rank \in [G -> 0..K],
         Descends(G, End, after1, rank),
         NEW T, \A p \in G : p \in End \/ after1[p] \in T => p \in T
  PROVE  G \subseteq T
<1> DEFINE U == {k \in 0..K : \A p \in G : rank[p] <= k => p \in T}
<1>1. \A p \in G : rank[p] \in 0..K
  OBVIOUS
<1>2. 0 \in U
  <2>1. \A p \in G : rank[p] <= 0 => p \in End
    <3> TAKE p \in G
    <3> HAVE rank[p] <= 0
    <3>1. rank[p] = 0
      BY <1>1
    <3>2. p \notin End => after1[p] \in G /\ rank[after1[p]] < 0
      BY <3>1 DEF Descends
    <3>3. QED
      BY <1>1, <3>2
  <2>2. 0 \in 0..K
    OBVIOUS
  <2>3. QED
    BY <2>1, <2>2
<1>3. \A k \in 0..K : k < K /\ k \in U => k + 1 \in U
  <2> TAKE k \in 0..K
  <2> HAVE k < K /\ k \in U
  <2>1. \A p \in G : rank[p] <= k => p \in T
    OBVIOUS
  <2>2. ASSUME NEW p \in G, rank[p] <= k + 1 PROVE p \in T
    <3>1. CASE p \in End
      BY <3>1
    <3>2. CASE p \notin End
      <4>1. after1[p] \in G /\ rank[after1[p]] < rank[p]
        BY <3>2 DEF Descends
      <4>2. rank[p] \in Int /\ rank[after1[p]] \in Int
        BY <1>1, <4>1
      <4>3. rank[after1[p]] <= k
        BY <2>2, <4>1, <4>2
      <4>4. QED
        BY <2>1, <4>1, <4>3
    <3>3. QED
      BY <3>1, <3>2
  <2>3. k + 1 \in 0..K
    OBVIOUS
  <2>4. QED
    BY <2>2, <2>3
<1>4. 0..K \subseteq U
  <2> HIDE DEF U
  <2>1. QED
    BY <1>2, <1>3, BoundedInduction
<1>5. QED
  BY <1>1, <1>4

(* Such a walk exists.                                                     *)
LEMMA WalkExists ==
  ASSUME NEW G, NEW End, NEW after1, NEW K \in Nat, NEW rank \in [G -> 0..K],
         Descends(G, End, after1, rank),
         NEW S, NEW item, \A p \in G : p \notin End => item[p] \in S
  PROVE  \E f \in [G -> Seq(S)] : Walks(f, G, End, item, after1)
<1> DEFINE V == Seq(S)
           Eq(f, p) == f[p] = IF p \in End THEN <<>> ELSE <<item[p]>> \o f[after1[p]]
           U == {k \in 0..K : \E f \in [G -> V] : \A p \in G : rank[p] <= k => Eq(f, p)}
<1>1. \A p \in G : rank[p] \in 0..K
  OBVIOUS
<1>2. 0 \in U
  <2> DEFINE f == [p \in G |-> <<>>]
  <2>1. f \in [G -> V] /\ \A p \in G : f[p] = <<>>
    OBVIOUS
  <2>2. \A p \in G : rank[p] <= 0 => p \in End
    <3> TAKE p \in G
    <3> HAVE rank[p] <= 0
    <3>1. rank[p] = 0
      BY <1>1
    <3>2. p \notin End => after1[p] \in G /\ rank[after1[p]] < 0
      BY <3>1 DEF Descends
    <3>3. QED
      BY <1>1, <3>2
  <2> HIDE DEF f
  <2>3. \A p \in G : rank[p] <= 0 => Eq(f, p)
    BY <2>1, <2>2
  <2> HIDE DEF Eq, V
  <2>4. \E h \in [G -> V] : \A p \in G : rank[p] <= 0 => Eq(h, p)
    BY <2>1, <2>3
  <2>5. 0 \in 0..K
    OBVIOUS
  <2>6. QED
    BY <2>4, <2>5, Zenon
<1>3. \A k \in 0..K : k < K /\ k \in U => k + 1 \in U
  <2> TAKE k \in 0..K
  <2> HAVE k < K /\ k \in U
  <2>1. PICK f \in [G -> V] : \A p \in G : rank[p] <= k => Eq(f, p)
    <3> HIDE DEF Eq, V
    <3>1. QED
      OBVIOUS
  <2> DEFINE Step1(p) == IF p \in End THEN <<>> ELSE <<item[p]>> \o f[after1[p]]
             g == [p \in G |-> IF rank[p] = k + 1 THEN Step1(p) ELSE f[p]]
  <2>2. \A p \in G : Step1(p) \in V
    <3> TAKE p \in G
    <3>1. CASE p \in End
      BY <3>1
    <3>2. CASE p \notin End
      <4>1. after1[p] \in G /\ item[p] \in S
        BY <3>2 DEF Descends
      <4>2. f[after1[p]] \in V
        <5> HIDE DEF V
        <5>1. QED
          BY <4>1
      <4>3. \A x \in S, y \in V : <<x>> \o y \in V
        OBVIOUS
      <4> HIDE DEF V
      <4>4. QED
        BY <3>2, <4>1, <4>2, <4>3
    <3>3. QED
      BY <3>1, <3>2
  <2>3. g \in [G -> V] /\ \A p \in G : g[p] = IF rank[p] = k + 1 THEN Step1(p) ELSE f[p]
    <3>1. \A p \in G : f[p] \in V
      <4> HIDE DEF V
      <4>1. QED
        OBVIOUS
    <3> HIDE DEF Step1, V
    <3>2. QED
      BY <2>2, <3>1
  <2> HIDE DEF g
  <2>4. ASSUME NEW p \in G, rank[p] <= k + 1 PROVE Eq(g, p)
    <3>1. p \notin End => g[after1[p]] = f[after1[p]]
      <4>1. ASSUME p \notin End PROVE after1[p] \in G /\ rank[after1[p]] # k + 1
        <5>1. after1[p] \in G /\ rank[after1[p]] < rank[p]
          BY <4>1 DEF Descends
        <5>2. rank[p] \in Int /\ rank[after1[p]] \in Int
          BY <1>1, <5>1
        <5>3. QED
          BY <2>4, <5>1, <5>2
      <4>2. QED
        BY <2>3, <4>1
    <3>2. g[p] = Step1(p)
      <4>1. CASE rank[p] = k + 1
        BY <2>3, <4>1
      <4>2. CASE rank[p] # k + 1
        <5>1. rank[p] <= k
          BY <1>1, <2>4, <4>2
        <5>2. Eq(f, p)
          BY <2>1, <5>1
        <5>3. QED
          BY <2>3, <4>2, <5>2
      <4>3. QED
        BY <4>1, <4>2
    <3>3. QED
      BY <3>1, <3>2
  <2>5. \A p \in G : rank[p] <= k + 1 => Eq(g, p)
    BY <2>4
  <2> HIDE DEF Eq, V
  <2>6. \E h \in [G -> V] : \A p \in G : rank[p] <= k + 1 => Eq(h, p)
    BY <2>3, <2>5
  <2>7. k + 1 \in 0..K
    OBVIOUS
  <2>8. QED
    BY <2>6, <2>7, Zenon
<1>4. K \in U
  <2> HIDE DEF U
  <2>1. QED
    BY <1>2, <1>3, BoundedInduction
<1>5. PICK f \in [G -> V] : \A p \in G : rank[p] <= K => Eq(f, p)
  <2> HIDE DEF Eq, V
  <2>1. QED
    BY <1>4
<1>6. Walks(f, G, End, item, after1)
  BY <1>1, <1>5 DEF Walks
<1>7. QED
  BY <1>6

-----------------------------------------------------------------------------
(* The edit script of two texts is such a walk over pairs of positions.    *)
Grid(a, b) == (1..Len(a) + 1) \X (1..Len(b) + 1)
GridEnd(a, b) == {<<Len(a) + 1, Len(b) + 1>>}

EqualAt(a, b, p) == p[1] <= Len(a) /\ p[2] <= Len(b) /\ a[p[1]] = b[p[2]]
DeleteAt(a, b, lcs, p) ==
  /\ p[1] <= Len(a)
  /\ p[2] > Len(b) \/ (a[p[1]] # b[p[2]] /\ lcs[p[1] + 1][p[2]] >= lcs[p[1]][p[2] + 1])

ItemAt(a, b, lcs, p) ==
  IF EqualAt(a, b, p) THEN Op("equal", a[p[1]])
  ELSE IF DeleteAt(a, b, lcs, p) THEN Op("delete", a[p[1]]) ELSE Op("insert", b[p[2]])
PlaceAfter(a, b, lcs, p) ==
  IF EqualAt(a, b, p) THEN <<p[1] + 1, p[2] + 1>>
  ELSE IF DeleteAt(a, b, lcs, p) THEN <<p[1] + 1, p[2]>> ELSE <<p[1], p[2] + 1>>

Items(a, b) == [p \in Grid(a, b) |-> ItemAt(a, b, LcsTable(a, b), p)]
After1(a, b) == [p \in Grid(a, b) |-> PlaceAfter(a, b, LcsTable(a, b), p)]
Left(a, b) == [p \in Grid(a, b) |-> (Len(a) + 1 - p[1]) + (Len(b) + 1 - p[2])]
OpsOf(S) == [kind : {"equal", "delete", "insert"}, line : S]

(* Every step is towards the end.                                          *)
LEMMA GridDescends ==
  ASSUME NEW S, NEW a \in Seq(S), NEW b \in Seq(S)
  PROVE  /\ Left(a, b) \in [Grid(a, b) -> 0..Len(a) + Len(b)]
         /\ Descends(Grid(a, b), GridEnd(a, b), After1(a, b), Left(a, b))
         /\ \A p \in Grid(a, b) : p \notin GridEnd(a, b) => Items(a, b)[p] \in OpsOf(S)
<1> DEFINE M == Len(a)
           N == Len(b)
           G == Grid(a, b)
           lcs == LcsTable(a, b)
<1>1. M \in Nat /\ N \in Nat /\ \A i \in 1..M : a[i] \in S
  OBVIOUS
<1>2. \A j \in 1..N : b[j] \in S
  OBVIOUS
<1>3. \A p \in G : /\ p[1] \in 1..M + 1 /\ p[2] \in 1..N + 1 /\ p = <<p[1], p[2]>>
                   /\ Left(a, b)[p] = (M + 1 - p[1]) + (N + 1 - p[2])
                   /\ After1(a, b)[p] = PlaceAfter(a, b, lcs, p)
                   /\ Items(a, b)[p] = ItemAt(a, b, lcs, p)
  BY DEF Grid, Left, After1, Items
<1>4. \A p \in G : Left(a, b)[p] \in 0..M + N
  BY <1>1, <1>3
<1>5. Left(a, b) \in [G -> 0..M + N]
  <2>1. Left(a, b) = [p \in G |-> Left(a, b)[p]]
    BY <1>3 DEF Left
  <2>2. QED
    BY <1>4, <2>1
<1>6. \A i \in 1..M + 1, j \in 1..N + 1 : /\ <<i, j>> \in G
                                          /\ <<i, j>>[1] = i /\ <<i, j>>[2] = j
  BY DEF Grid
<1> HIDE DEF lcs
<1>7. ASSUME NEW p \in G, p \notin GridEnd(a, b)
      PROVE  /\ After1(a, b)[p] \in G /\ Left(a, b)[After1(a, b)[p]] < Left(a, b)[p]
             /\ Items(a, b)[p] \in OpsOf(S)
  <2>1. p[1] \in 1..M + 1 /\ p[2] \in 1..N + 1 /\ ~ (p[1] = M + 1 /\ p[2] = N + 1)
    BY <1>3, <1>7 DEF GridEnd
  <2> DEFINE i == p[1]
             j == p[2]
  <2>2. i \in 1..M + 1 /\ j \in 1..N + 1 /\ ~ (i = M + 1 /\ j = N + 1)
    BY <2>1
  <2>3. ASSUME EqualAt(a, b, p) PROVE i \in 1..M /\ j \in 1..N
    BY <1>1, <2>2, <2>3 DEF EqualAt
  <2>4. ASSUME DeleteAt(a, b, lcs, p) PROVE i \in 1..M
    BY <1>1, <2>2, <2>4 DEF DeleteAt
  <2>5. ASSUME ~ EqualAt(a, b, p), ~ DeleteAt(a, b, lcs, p) PROVE j \in 1..N
    BY <1>1, <2>2, <2>5 DEF DeleteAt
  <2>6. After1(a, b)[p] = PlaceAfter(a, b, lcs, p) /\ Items(a, b)[p] = ItemAt(a, b, lcs, p)
        /\ Left(a, b)[p] = (M + 1 - i) + (N + 1 - j)
    BY <1>3
  <2>7. \A x \in 1..M + 1, y \in 1..N + 1 : Left(a, b)[<<x, y>>] = (M + 1 - x) + (N + 1 - y)
    BY <1>3, <1>6, ZenonT(60)
  <2>8. /\ \A l \in S : Op("equal", l) \in OpsOf(S)
        /\ \A l \in S : Op("delete", l) \in OpsOf(S)
        /\ \A l \in S : Op("insert", l) \in OpsOf(S)
    BY DEF Op, OpsOf
  <2> HIDE DEF M, N, G, i, j
  <2>9. CASE EqualAt(a, b, p)
    <3>1. i + 1 \in 1..M + 1 /\ j + 1 \in 1..N + 1
      BY <1>1, <2>3, <2>9
    <3>2. PlaceAfter(a, b, lcs, p) = <<i + 1, j + 1>> /\ ItemAt(a, b, lcs, p) = Op("equal", a[i])
      BY <2>9 DEF PlaceAfter, ItemAt, i, j
    <3>3. Left(a, b)[<<i + 1, j + 1>>] < Left(a, b)[p]
      <4>1. /\ Left(a, b)[<<i + 1, j + 1>>] = (M + 1 - (i + 1)) + (N + 1 - (j + 1))
            /\ Left(a, b)[p] = (M + 1 - i) + (N + 1 - j)
        BY <2>6, <2>7, <3>1
      <4>2. QED
        BY <1>1, <2>2, <4>1
    <3>4. <<i + 1, j + 1>> \in G
      BY <1>6, <3>1
    <3>5. QED
      BY <1>1, <2>3, <2>6, <2>8, <2>9, <3>2, <3>3, <3>4
  <2>10. CASE ~ EqualAt(a, b, p) /\ DeleteAt(a, b, lcs, p)
    <3>1. i + 1 \in 1..M + 1 /\ j \in 1..N + 1
      BY <1>1, <2>2, <2>4, <2>10
    <3>2. PlaceAfter(a, b, lcs, p) = <<i + 1, j>> /\ ItemAt(a, b, lcs, p) = Op("delete", a[i])
      BY <2>10 DEF PlaceAfter, ItemAt, i, j
    <3>3. Left(a, b)[<<i + 1, j>>] < Left(a, b)[p]
      <4>1. /\ Left(a, b)[<<i + 1, j>>] = (M + 1 - (i + 1)) + (N + 1 - (j))
            /\ Left(a, b)[p] = (M + 1 - i) + (N + 1 - j)
        BY <2>6, <2>7, <3>1
      <4>2. QED
        BY <1>1, <2>2, <4>1
    <3>4. <<i + 1, j>> \in G
      BY <1>6, <3>1
    <3>5. QED
      BY <1>1, <2>4, <2>6, <2>8, <2>10, <3>2, <3>3, <3>4
  <2>11. CASE ~ EqualAt(a, b, p) /\ ~ DeleteAt(a, b, lcs, p)
    <3>1. i \in 1..M + 1 /\ j + 1 \in 1..N + 1
      BY <1>1, <2>2, <2>5, <2>11
    <3>2. PlaceAfter(a, b, lcs, p) = <<i, j + 1>> /\ ItemAt(a, b, lcs, p) = Op("insert", b[j])
      BY <2>11 DEF PlaceAfter, ItemAt, i, j
    <3>3. Left(a, b)[<<i, j + 1>>] < Left(a, b)[p]
      <4>1. /\ Left(a, b)[<<i, j + 1>>] = (M + 1 - (i)) + (N + 1 - (j + 1))
            /\ Left(a, b)[p] = (M + 1 - i) + (N + 1 - j)
        BY <2>6, <2>7, <3>1
      <4>2. QED
        BY <1>1, <2>2, <4>1, SMTT(60)
    <3>4. <<i, j + 1>> \in G
      BY <1>6, <3>1
    <3>5. QED
      BY <1>2, <2>5, <2>6, <2>8, <2>11, <3>2, <3>3, <3>4
  <2>12. QED
    BY <2>9, <2>10, <2>11
<1>8. QED
  BY <1>5, <1>7 DEF Descends

(* The walk DiffOps chooses is one.                                        *)
LEMMA DiffWalk ==
  ASSUME NEW S, NEW a \in Seq(S), NEW b \in Seq(S)
  PROVE  \E f : Walks(f, Grid(a, b), GridEnd(a, b), Items(a, b), After1(a, b))
                /\ DiffOps(a, b) = f[<<1, 1>>]
<1> DEFINE M == Len(a)
           N == Len(b)
           G == Grid(a, b)
           End == GridEnd(a, b)
           lcs == LcsTable(a, b)
           item == Items(a, b)
           next == After1(a, b)
           Body(f, p) ==
             LET i == p[1]
                 j == p[2]
                 delete == <<Op("delete", a[i])>> \o f[<<i + 1, j>>]
                 insert == <<Op("insert", b[j])>> \o f[<<i, j + 1>>]
             IN IF i > Len(a) /\ j > Len(b) THEN <<>>
                ELSE IF j > Len(b) THEN delete
                ELSE IF i > Len(a) THEN insert
                ELSE IF a[i] = b[j] THEN <<Op("equal", a[i])>> \o f[<<i + 1, j + 1>>]
                ELSE IF lcs[i + 1][j] >= lcs[i][j + 1] THEN delete ELSE insert
           Is(f) == f = [p \in G |-> Body(f, p)]
           from == CHOOSE f : Is(f)
<1>1. M \in Nat /\ N \in Nat
  OBVIOUS
<1>2. \A p \in G : /\ p[1] \in 1..M + 1 /\ p[2] \in 1..N + 1 /\ p = <<p[1], p[2]>>
                   /\ next[p] = PlaceAfter(a, b, lcs, p)
                   /\ item[p] = ItemAt(a, b, lcs, p)
                   /\ p \in End <=> p[1] = M + 1 /\ p[2] = N + 1
  BY DEF Grid, After1, Items, GridEnd
<1>3. DiffOps(a, b) = from[<<1, 1>>]
  BY DEF DiffOps, Grid
<1>4. ASSUME NEW f, NEW p \in G
      PROVE  Body(f, p) = IF p \in End THEN <<>> ELSE <<item[p]>> \o f[next[p]]
  <2> DEFINE i == p[1]
             j == p[2]
  <2>1. i \in 1..M + 1 /\ j \in 1..N + 1
    BY <1>2
  <2>2. /\ next[p] = PlaceAfter(a, b, lcs, p)
        /\ item[p] = ItemAt(a, b, lcs, p)
        /\ p \in End <=> i = M + 1 /\ j = N + 1
    BY <1>2
  <2>3. EqualAt(a, b, p) <=> i <= M /\ j <= N /\ a[i] = b[j]
    BY DEF EqualAt
  <2>4. DeleteAt(a, b, lcs, p) <=> i <= M /\ (j > N \/ (a[i] # b[j] /\ lcs[i + 1][j] >= lcs[i][j + 1]))
    BY DEF DeleteAt
  <2>5. Body(f, p) = IF i > M /\ j > N THEN <<>>
                ELSE IF j > N THEN <<Op("delete", a[i])>> \o f[<<i + 1, j>>]
                ELSE IF i > M THEN <<Op("insert", b[j])>> \o f[<<i, j + 1>>]
                ELSE IF a[i] = b[j] THEN <<Op("equal", a[i])>> \o f[<<i + 1, j + 1>>]
                ELSE IF lcs[i + 1][j] >= lcs[i][j + 1] THEN <<Op("delete", a[i])>> \o f[<<i + 1, j>>]
                ELSE <<Op("insert", b[j])>> \o f[<<i, j + 1>>]
    OBVIOUS
  <2>6. /\ EqualAt(a, b, p) => /\ ItemAt(a, b, lcs, p) = Op("equal", a[i])
                               /\ PlaceAfter(a, b, lcs, p) = <<i + 1, j + 1>>
        /\ ~ EqualAt(a, b, p) /\ DeleteAt(a, b, lcs, p) =>
             /\ ItemAt(a, b, lcs, p) = Op("delete", a[i])
             /\ PlaceAfter(a, b, lcs, p) = <<i + 1, j>>
        /\ ~ EqualAt(a, b, p) /\ ~ DeleteAt(a, b, lcs, p) =>
             /\ ItemAt(a, b, lcs, p) = Op("insert", b[j])
             /\ PlaceAfter(a, b, lcs, p) = <<i, j + 1>>
    BY DEF ItemAt, PlaceAfter
  <2> HIDE DEF Body, lcs, M, N, i, j, item, next, End
  <2>7. (i > M <=> i = M + 1) /\ (j > N <=> j = N + 1) /\ (i <= M <=> ~ (i > M)) /\ (j <= N <=> ~ (j > N))
    BY <1>1, <2>1
  <2>8. CASE i > M /\ j > N
    BY <2>2, <2>5, <2>7, <2>8
  <2>9. CASE ~ (i > M) /\ j > N
    <3>1. ~ EqualAt(a, b, p) /\ DeleteAt(a, b, lcs, p) /\ p \notin End
      BY <2>2, <2>3, <2>4, <2>7, <2>9
    <3>2. QED
      BY <2>2, <2>5, <2>6, <2>9, <3>1
  <2>10. CASE i > M /\ ~ (j > N)
    <3>1. ~ EqualAt(a, b, p) /\ ~ DeleteAt(a, b, lcs, p) /\ p \notin End
      BY <2>2, <2>3, <2>4, <2>7, <2>10
    <3>2. QED
      BY <2>2, <2>5, <2>6, <2>10, <3>1
  <2>11. CASE ~ (i > M) /\ ~ (j > N) /\ a[i] = b[j]
    <3>1. EqualAt(a, b, p) /\ p \notin End
      BY <2>2, <2>3, <2>7, <2>11
    <3>2. QED
      BY <2>2, <2>5, <2>6, <2>11, <3>1
  <2>12. CASE ~ (i > M) /\ ~ (j > N) /\ a[i] # b[j]
    <3>1. ~ EqualAt(a, b, p) /\ p \notin End
          /\ (DeleteAt(a, b, lcs, p) <=> lcs[i + 1][j] >= lcs[i][j + 1])
      BY <2>2, <2>3, <2>4, <2>7, <2>12
    <3>2. QED
      BY <2>2, <2>5, <2>6, <2>12, <3>1
  <2>13. QED
    BY <2>8, <2>9, <2>10, <2>11, <2>12
<1>5. PICK f \in [G -> Seq(OpsOf(S))] : Walks(f, G, End, item, next)
  <2>1. M + N \in Nat
    BY <1>1
  <2> HIDE DEF M, N, item, next, End, G
  <2>2. Left(a, b) \in [G -> 0..M + N] /\ Descends(G, End, next, Left(a, b))
        /\ \A p \in G : p \notin End => item[p] \in OpsOf(S)
    BY GridDescends DEF M, N, item, next, End, G
  <2>3. QED
    BY <2>1, <2>2, WalkExists
<1> HIDE DEF Body, lcs, M, N, item, next, End
<1>6. Is(f)
  <2>1. f = [p \in G |-> f[p]]
    OBVIOUS
  <2>2. \A p \in G : f[p] = Body(f, p)
    BY <1>4, <1>5 DEF Walks
  <2> HIDE DEF G
  <2>3. QED
    BY <2>1, <2>2
<1>7. Is(from)
  <2> HIDE DEF Is
  <2>1. QED
    BY <1>6
<1>8. \A p \in G : from[p] = Body(from, p)
  <2> HIDE DEF from, G
  <2>1. QED
    BY <1>7
<1>9. Walks(from, G, End, item, next)
  <2> HIDE DEF from, G
  <2>1. QED
    BY <1>4, <1>8 DEF Walks
<1> HIDE DEF from
<1>10. QED
  BY <1>3, <1>9 DEF item, next, End

-----------------------------------------------------------------------------
(* A unit of a diff - an edit, or a number of lines left out - moves from  *)
(* a position of both texts to another.                                    *)
Units(S) == OpsOf(S) \cup [kind : {"skip"}, n : Nat \ {0}]

Moves(u, a, b, p, q, x, y) ==
  /\ p \in Nat /\ q \in Nat /\ x \in 0..Len(a) /\ y \in 0..Len(b)
  /\ \/ /\ u.kind = "skip" /\ u.n \in Nat \ {0} /\ x = p + u.n /\ y = q + u.n
        /\ \A k \in 1..u.n : a[p + k] = b[q + k]
     \/ u.kind = "equal" /\ x = p + 1 /\ y = q + 1 /\ u.line = a[x] /\ u.line = b[y]
     \/ u.kind = "delete" /\ x = p + 1 /\ y = q /\ u.line = a[x]
     \/ u.kind = "insert" /\ x = p /\ y = q + 1 /\ u.line = b[y]

Steps(us, a, b, l, r) ==
  \A k \in 1..Len(us) : Moves(us[k], a, b, l[k - 1], r[k - 1], l[k], r[k])

Along(us, a, b, l, r, p, q, x, y) ==
  Steps(us, a, b, l, r) /\ l[0] = p /\ r[0] = q /\ l[Len(us)] = x /\ r[Len(us)] = y

Leads(us, a, b, p, q, x, y) ==
  \E l, r \in [0..Len(us) -> Nat] : Along(us, a, b, l, r, p, q, x, y)

(* A unit before a diff.                                                   *)
LEMMA LeadsAfter ==
  ASSUME NEW U, NEW u \in U, NEW us \in Seq(U), NEW a, NEW b, NEW p, NEW q, NEW x, NEW y,
         NEW v, NEW w, Moves(u, a, b, p, q, x, y), Leads(us, a, b, x, y, v, w)
  PROVE  Leads(<<u>> \o us, a, b, p, q, v, w)
<1> DEFINE n == Len(us)
           all == <<u>> \o us
<1>1. n \in Nat /\ all \in Seq(U) /\ Len(all) = n + 1 /\ all[1] = u
      /\ \A k \in 2..n + 1 : all[k] = us[k - 1]
  OBVIOUS
<1>2. PICK l \in [0..n -> Nat], r \in [0..n -> Nat] : Along(us, a, b, l, r, x, y, v, w)
  BY DEF Leads
<1>3. p \in Nat /\ q \in Nat
  BY DEF Moves
<1> DEFINE l1 == [k \in 0..n + 1 |-> IF k = 0 THEN p ELSE l[k - 1]]
           r1 == [k \in 0..n + 1 |-> IF k = 0 THEN q ELSE r[k - 1]]
<1> HIDE DEF n, all
<1>4. /\ l1 \in [0..n + 1 -> Nat] /\ r1 \in [0..n + 1 -> Nat]
      /\ l1[0] = p /\ r1[0] = q
      /\ \A k \in 1..n + 1 : l1[k] = l[k - 1] /\ r1[k] = r[k - 1]
  BY <1>1, <1>2, <1>3
<1> HIDE DEF l1, r1
<1>5. \A k \in 1..n : Moves(us[k], a, b, l[k - 1], r[k - 1], l[k], r[k])
  BY <1>2 DEF Along, Steps, n
<1>6. l[0] = x /\ r[0] = y /\ l[n] = v /\ r[n] = w
  BY <1>2 DEF Along, n
<1>7. ASSUME NEW k \in 1..n + 1 PROVE Moves(all[k], a, b, l1[k - 1], r1[k - 1], l1[k], r1[k])
  <2>1. CASE k = 1
    <3>1. k - 1 = 0 /\ l1[k] = x /\ r1[k] = y /\ all[k] = u
      BY <1>1, <1>4, <1>6, <2>1
    <3>2. QED
      BY <1>4, <3>1
  <2>2. CASE k # 1
    <3> DEFINE j == k - 1
    <3>1. j \in 1..n /\ k \in 2..n + 1 /\ k = j + 1
      BY <1>1, <2>2
    <3>2. l1[k] = l[j] /\ r1[k] = r[j] /\ all[k] = us[j]
      BY <1>1, <1>4, <3>1
    <3>3. j \in 1..n + 1
      BY <1>1, <3>1
    <3> HIDE DEF j
    <3>4. l1[j] = l[j - 1] /\ r1[j] = r[j - 1]
      BY <1>4, <3>3
    <3>5. Moves(all[k], a, b, l1[j], r1[j], l1[k], r1[k])
      BY <1>5, <3>1, <3>2, <3>4
    <3>6. QED
      BY <3>5 DEF j
  <2>3. QED
    BY <2>1, <2>2
<1>8. l1[n + 1] = v /\ r1[n + 1] = w
  <2> DEFINE j == n + 1
  <2>1. j \in 1..n + 1 /\ j - 1 = n
    BY <1>1
  <2> HIDE DEF j
  <2>2. l1[j] = v /\ r1[j] = w
    BY <1>4, <1>6, <2>1
  <2>3. QED
    BY <2>2 DEF j
<1>9. Along(all, a, b, l1, r1, p, q, v, w)
  BY <1>1, <1>4, <1>7, <1>8 DEF Along, Steps
<1>10. Leads(all, a, b, p, q, v, w)
  BY <1>1, <1>4, <1>9 DEF Leads
<1>11. QED
  BY <1>10 DEF all

(* A unit after a diff.                                                    *)
LEMMA LeadsOn ==
  ASSUME NEW U, NEW u \in U, NEW us \in Seq(U), NEW a, NEW b, NEW p, NEW q, NEW x, NEW y,
         NEW v, NEW w, Leads(us, a, b, p, q, x, y), Moves(u, a, b, x, y, v, w)
  PROVE  Leads(Append(us, u), a, b, p, q, v, w)
<1> DEFINE n == Len(us)
           all == Append(us, u)
<1>1. n \in Nat /\ all \in Seq(U) /\ Len(all) = n + 1 /\ all[n + 1] = u
      /\ \A k \in 1..n : all[k] = us[k]
  OBVIOUS
<1>2. PICK l \in [0..n -> Nat], r \in [0..n -> Nat] : Along(us, a, b, l, r, p, q, x, y)
  BY DEF Leads
<1>3. v \in Nat /\ w \in Nat
  BY DEF Moves
<1> DEFINE l1 == [k \in 0..n + 1 |-> IF k = n + 1 THEN v ELSE l[k]]
           r1 == [k \in 0..n + 1 |-> IF k = n + 1 THEN w ELSE r[k]]
<1> HIDE DEF n, all
<1>4. /\ l1 \in [0..n + 1 -> Nat] /\ r1 \in [0..n + 1 -> Nat]
      /\ l1[n + 1] = v /\ r1[n + 1] = w
      /\ \A k \in 0..n : l1[k] = l[k] /\ r1[k] = r[k]
  BY <1>1, <1>2, <1>3
<1> HIDE DEF l1, r1
<1>5. \A k \in 1..n : Moves(us[k], a, b, l[k - 1], r[k - 1], l[k], r[k])
  BY <1>2 DEF Along, Steps, n
<1>6. l[0] = p /\ r[0] = q /\ l[n] = x /\ r[n] = y
  BY <1>2 DEF Along, n
<1>7. ASSUME NEW k \in 1..n + 1 PROVE Moves(all[k], a, b, l1[k - 1], r1[k - 1], l1[k], r1[k])
  <2> DEFINE j == k - 1
  <2>1. j \in 0..n /\ l1[j] = l[j] /\ r1[j] = r[j]
    BY <1>1, <1>4
  <2> HIDE DEF j
  <2>2. CASE k = n + 1
    <3>1. j = n /\ all[k] = u
      BY <1>1, <2>2 DEF j
    <3>2. Moves(all[k], a, b, l1[j], r1[j], l1[k], r1[k])
      BY <1>4, <1>6, <2>1, <2>2, <3>1
    <3>3. QED
      BY <3>2 DEF j
  <2>3. CASE k # n + 1
    <3>1. k \in 1..n /\ k \in 0..n
      BY <1>1, <2>3
    <3>2. all[k] = us[k] /\ l1[k] = l[k] /\ r1[k] = r[k]
      BY <1>1, <1>4, <3>1
    <3>3. Moves(us[k], a, b, l[j], r[j], l[k], r[k])
      BY <1>5, <3>1 DEF j
    <3>4. Moves(all[k], a, b, l1[j], r1[j], l1[k], r1[k])
      BY <2>1, <3>2, <3>3
    <3>5. QED
      BY <3>4 DEF j
  <2>4. QED
    BY <2>2, <2>3
<1>8. 0 \in 0..n
  BY <1>1
<1>9. Along(all, a, b, l1, r1, p, q, v, w)
  BY <1>1, <1>4, <1>6, <1>7, <1>8 DEF Along, Steps
<1>10. Leads(all, a, b, p, q, v, w)
  BY <1>1, <1>4, <1>9 DEF Leads
<1>11. QED
  BY <1>10 DEF all

(* A diff without its last unit.                                           *)
LEMMA LeadsBack ==
  ASSUME NEW U, NEW us \in Seq(U), us # <<>>, NEW a, NEW b, NEW p, NEW q, NEW x, NEW y,
         Leads(us, a, b, p, q, x, y)
  PROVE  \E v, w \in Nat : /\ Leads(Front(us), a, b, p, q, v, w)
                           /\ Moves(Last(us), a, b, v, w, x, y)
<1> DEFINE n == Len(us) - 1
           front == Front(us)
<1>1. n \in Nat /\ Len(us) = n + 1 /\ front \in Seq(U) /\ Len(front) = n
      /\ Last(us) = us[n + 1] /\ \A k \in 1..n : front[k] = us[k]
  <2>1. n \in Nat /\ Len(us) = n + 1 /\ front = SubSeq(us, 1, n) /\ Last(us) = us[n + 1]
    BY DEF Front, Last
  <2> HIDE DEF n, front
  <2>2. front \in Seq(U) /\ Len(front) = n /\ \A k \in 1..n : front[k] = us[k]
    BY <2>1
  <2>3. QED
    BY <2>1, <2>2
<1>2. PICK l \in [0..n + 1 -> Nat], r \in [0..n + 1 -> Nat] : Along(us, a, b, l, r, p, q, x, y)
  BY <1>1 DEF Leads
<1> DEFINE l1 == [k \in 0..n |-> l[k]]
           r1 == [k \in 0..n |-> r[k]]
<1> HIDE DEF n, front
<1>3. l1 \in [0..n -> Nat] /\ r1 \in [0..n -> Nat] /\ \A k \in 0..n : l1[k] = l[k] /\ r1[k] = r[k]
  BY <1>1, <1>2
<1>4. \A k \in 1..n + 1 : Moves(us[k], a, b, l[k - 1], r[k - 1], l[k], r[k])
  BY <1>1, <1>2 DEF Along, Steps
<1>5. l[0] = p /\ r[0] = q /\ l[n + 1] = x /\ r[n + 1] = y
  BY <1>1, <1>2 DEF Along
<1> HIDE DEF l1, r1
<1>6. ASSUME NEW k \in 1..n PROVE Moves(front[k], a, b, l1[k - 1], r1[k - 1], l1[k], r1[k])
  <2>1. k - 1 \in 0..n /\ k \in 0..n /\ k \in 1..n + 1
    BY <1>1
  <2>2. /\ l1[k - 1] = l[k - 1] /\ r1[k - 1] = r[k - 1] /\ l1[k] = l[k] /\ r1[k] = r[k]
        /\ front[k] = us[k]
    BY <1>1, <1>3, <2>1
  <2>3. QED
    BY <1>4, <2>1, <2>2
<1>7. 0 \in 0..n /\ n \in 0..n
  BY <1>1
<1>8. Along(front, a, b, l1, r1, p, q, l[n], r[n])
  BY <1>1, <1>3, <1>5, <1>6, <1>7 DEF Along, Steps
<1>9. Leads(front, a, b, p, q, l[n], r[n])
  BY <1>1, <1>3, <1>8 DEF Leads
<1>10. Moves(us[n + 1], a, b, l[n], r[n], x, y)
  <2> DEFINE j == n + 1
  <2>1. j \in 1..n + 1 /\ j - 1 = n /\ l[j] = x /\ r[j] = y
    BY <1>1, <1>5
  <2> HIDE DEF j
  <2>2. Moves(us[j], a, b, l[j - 1], r[j - 1], l[j], r[j])
    BY <1>4, <2>1
  <2>3. Moves(us[j], a, b, l[n], r[n], x, y)
    BY <2>1, <2>2
  <2>4. QED
    BY <2>3 DEF j
<1>11. l[n] \in Nat /\ r[n] \in Nat
  BY <1>2, <1>7, <1>1
<1>12. QED
  BY <1>1, <1>9, <1>10, <1>11 DEF front

(* No unit leads nowhere.                                                  *)
LEMMA LeadsNowhere ==
  ASSUME NEW a, NEW b, NEW x \in Nat, NEW y \in Nat
  PROVE  Leads(<<>>, a, b, x, y, x, y)
<1> DEFINE l == [k \in 0..0 |-> x]
           r == [k \in 0..0 |-> y]
<1>1. l \in [0..0 -> Nat] /\ r \in [0..0 -> Nat] /\ l[0] = x /\ r[0] = y
  OBVIOUS
<1>2. Len(<<>>) = 0 /\ 1..0 = {}
  OBVIOUS
<1> HIDE DEF l, r
<1>3. Along(<<>>, a, b, l, r, x, y, x, y)
  BY <1>1, <1>2 DEF Along, Steps
<1>4. QED
  BY <1>1, <1>2, <1>3 DEF Leads

(* Every step of an edit script moves over the line it is about.           *)
LEMMA ItemMoves ==
  ASSUME NEW S, NEW a \in Seq(S), NEW b \in Seq(S), NEW p \in Grid(a, b), p \notin GridEnd(a, b)
  PROVE  Moves(Items(a, b)[p], a, b, p[1] - 1, p[2] - 1,
               After1(a, b)[p][1] - 1, After1(a, b)[p][2] - 1)
<1> DEFINE M == Len(a)
           N == Len(b)
           i == p[1]
           j == p[2]
           lcs == LcsTable(a, b)
<1>1. M \in Nat /\ N \in Nat /\ i \in 1..M + 1 /\ j \in 1..N + 1
      /\ ~ (i = M + 1 /\ j = N + 1)
  BY DEF Grid, GridEnd
<1>2. After1(a, b)[p] = PlaceAfter(a, b, lcs, p) /\ Items(a, b)[p] = ItemAt(a, b, lcs, p)
  BY DEF After1, Items
<1>3. /\ \A l : Op("equal", l).kind = "equal" /\ Op("equal", l).line = l
      /\ \A l : Op("delete", l).kind = "delete" /\ Op("delete", l).line = l
      /\ \A l : Op("insert", l).kind = "insert" /\ Op("insert", l).line = l
  BY DEF Op
<1>4. i - 1 \in Nat /\ j - 1 \in Nat /\ i + 1 - 1 = i /\ j + 1 - 1 = j
      /\ i - 1 + 1 = i /\ j - 1 + 1 = j
  BY <1>1
<1> HIDE DEF lcs
<1>5. CASE EqualAt(a, b, p)
  <2>1. i \in 1..M /\ j \in 1..N /\ a[i] = b[j]
    BY <1>1, <1>5 DEF EqualAt
  <2>2. PlaceAfter(a, b, lcs, p) = <<i + 1, j + 1>> /\ ItemAt(a, b, lcs, p) = Op("equal", a[i])
    BY <1>5 DEF PlaceAfter, ItemAt
  <2>3. Moves(Op("equal", a[i]), a, b, i - 1, j - 1, i, j)
    BY <1>3, <1>4, <2>1 DEF Moves
  <2>4. QED
    BY <1>2, <1>4, <2>2, <2>3
<1>6. CASE ~ EqualAt(a, b, p) /\ DeleteAt(a, b, lcs, p)
  <2>1. i \in 1..M
    BY <1>1, <1>6 DEF DeleteAt
  <2>2. PlaceAfter(a, b, lcs, p) = <<i + 1, j>> /\ ItemAt(a, b, lcs, p) = Op("delete", a[i])
    BY <1>6 DEF PlaceAfter, ItemAt
  <2>3. Moves(Op("delete", a[i]), a, b, i - 1, j - 1, i, j - 1)
    BY <1>1, <1>3, <1>4, <2>1, SMTT(60) DEF Moves
  <2>4. QED
    BY <1>2, <1>4, <2>2, <2>3
<1>7. CASE ~ EqualAt(a, b, p) /\ ~ DeleteAt(a, b, lcs, p)
  <2>1. j \in 1..N
    BY <1>1, <1>7 DEF DeleteAt
  <2>2. PlaceAfter(a, b, lcs, p) = <<i, j + 1>> /\ ItemAt(a, b, lcs, p) = Op("insert", b[j])
    BY <1>7 DEF PlaceAfter, ItemAt
  <2>3. Moves(Op("insert", b[j]), a, b, i - 1, j - 1, i - 1, j)
    BY <1>1, <1>3, <1>4, <2>1 DEF Moves
  <2>4. QED
    BY <1>2, <1>4, <2>2, <2>3
<1>8. QED
  BY <1>5, <1>6, <1>7

(* So an edit script leads from the beginning of both texts to their ends. *)
LEMMA DiffLeads ==
  ASSUME NEW S, NEW a \in Seq(S), NEW b \in Seq(S)
  PROVE  /\ DiffOps(a, b) \in Seq(OpsOf(S))
         /\ Leads(DiffOps(a, b), a, b, 0, 0, Len(a), Len(b))
<1> DEFINE M == Len(a)
           N == Len(b)
           G == Grid(a, b)
           End == GridEnd(a, b)
           item == Items(a, b)
           next == After1(a, b)
           U == OpsOf(S)
<1>1. M \in Nat /\ N \in Nat
  OBVIOUS
<1>2. PICK f : Walks(f, G, End, item, next) /\ DiffOps(a, b) = f[<<1, 1>>]
  BY DiffWalk
<1> DEFINE T == {p \in G : f[p] \in Seq(U) /\ Leads(f[p], a, b, p[1] - 1, p[2] - 1, M, N)}
<1>3. M + N \in Nat /\ Left(a, b) \in [G -> 0..M + N] /\ Descends(G, End, next, Left(a, b))
      /\ \A p \in G : p \notin End => item[p] \in U
  BY <1>1, GridDescends
<1>4. \A p \in G : p \in End \/ next[p] \in T => p \in T
  <2> TAKE p \in G
  <2>1. CASE p \in End
    <3>1. p[1] - 1 = M /\ p[2] - 1 = N
      BY <1>1, <2>1 DEF GridEnd
    <3>2. f[p] = <<>>
      BY <1>2, <2>1 DEF Walks
    <3>3. Leads(<<>>, a, b, M, N, M, N)
      BY <1>1, LeadsNowhere
    <3>4. f[p] \in Seq(U)
      <4> HIDE DEF U
      <4>1. QED
        BY <3>2
    <3>5. QED
      BY <3>1, <3>2, <3>3, <3>4
  <2>2. CASE p \notin End /\ next[p] \in T
    <3> DEFINE x == next[p][1] - 1
               y == next[p][2] - 1
               rest == f[next[p]]
               u == item[p]
    <3>1. f[p] = <<u>> \o rest
      BY <1>2, <2>2 DEF Walks
    <3>2. u \in U /\ rest \in Seq(U)
      BY <1>3, <2>2
    <3>3. Leads(rest, a, b, x, y, M, N)
      BY <2>2
    <3>4. Moves(u, a, b, p[1] - 1, p[2] - 1, x, y)
      BY <2>2, ItemMoves
    <3> HIDE DEF x, y, rest, u, U, M, N, item, next, End, G
    <3>5. Leads(<<u>> \o rest, a, b, p[1] - 1, p[2] - 1, M, N)
      BY <3>2, <3>3, <3>4, LeadsAfter
    <3>6. <<u>> \o rest \in Seq(U)
      BY <3>2
    <3>7. QED
      BY <3>1, <3>5, <3>6
  <2>3. QED
    BY <2>1, <2>2
<1>5. G \subseteq T
  <2> HIDE DEF M, N, G, End, item, next, U, T
  <2>1. QED
    BY <1>3, <1>4, WalkInduction
<1>6. <<1, 1>> \in G /\ <<1, 1>>[1] = 1 /\ <<1, 1>>[2] = 1
  BY <1>1 DEF Grid
<1> DEFINE one == <<1, 1>>
<1>7. one \in T /\ one[1] - 1 = 0 /\ one[2] - 1 = 0
  BY <1>5, <1>6
<1>8. f[one] \in Seq(U) /\ Leads(f[one], a, b, 0, 0, M, N)
  <2> HIDE DEF one, M, N, U, G
  <2>1. QED
    BY <1>7
<1>9. QED
  BY <1>2, <1>8

-----------------------------------------------------------------------------
(* unifiedDiff goes through the edit script once, and leaves lines out.    *)
Emitted(ops, out, i) ==
  IF Kept(ops, i) THEN Append(out, ops[i])
  ELSE IF out # <<>> /\ Last(out).kind = "skip"
       THEN Append(Front(out), Skip(Last(out).n + 1))
       ELSE Append(out, Skip(1))

Emits(run, ops) ==
  run[0] = <<>> /\ \A k \in 1..Len(ops) : run[k] = Emitted(ops, run[k - 1], k)

(* What is emitted is a diff again.                                        *)
LEMMA EmittedIs ==
  ASSUME NEW S, NEW ops \in Seq(OpsOf(S)), NEW out \in Seq(Units(S)), NEW i \in 1..Len(ops)
  PROVE  Emitted(ops, out, i) \in Seq(Units(S))
<1> DEFINE U == Units(S)
           u == ops[i]
<1>1. u \in U
  BY DEF Units
<1>2. \A n \in Nat \ {0} : Skip(n) \in U
  BY DEF Skip, Units
<1>3. \A s \in Seq(U), v \in U : Append(s, v) \in Seq(U)
  OBVIOUS
<1>4. 1 \in Nat \ {0}
  OBVIOUS
<1>5. ASSUME out # <<>>, Last(out).kind = "skip"
      PROVE  Front(out) \in Seq(U) /\ Last(out).n + 1 \in Nat \ {0}
  <2> DEFINE n == Len(out)
             e == out[n]
  <2>1. n = Len(out) /\ n \in Nat \ {0} /\ Front(out) = SubSeq(out, 1, n - 1) /\ Last(out) = e /\ e \in Units(S)
    BY <1>5 DEF Front, Last
  <2>2. \A v \in OpsOf(S) : v.kind # "skip"
    BY DEF OpsOf
  <2>3. e.n \in Nat \ {0}
    BY <1>5, <2>1, <2>2 DEF Units
  <2> HIDE DEF n, e, U
  <2>4. out \in Seq(U)
    BY DEF U
  <2>5. SubSeq(out, 1, n - 1) \in Seq(U)
    BY <2>1, <2>4
  <2>6. QED
    BY <2>1, <2>3, <2>5
<1> HIDE DEF U, u
<1>6. out \in Seq(U)
  BY DEF U
<1>7. Emitted(ops, out, i) \in Seq(U)
  <2>1. CASE Kept(ops, i)
    BY <1>1, <1>3, <1>6, <2>1 DEF Emitted, u
  <2>2. CASE ~ Kept(ops, i) /\ out # <<>> /\ Last(out).kind = "skip"
    <3>1. Emitted(ops, out, i) = Append(Front(out), Skip(Last(out).n + 1))
      BY <2>2 DEF Emitted
    <3>2. Skip(Last(out).n + 1) \in U /\ Front(out) \in Seq(U)
      BY <1>2, <1>5, <2>2
    <3>3. QED
      BY <1>3, <3>1, <3>2
  <2>3. CASE ~ Kept(ops, i) /\ ~ (out # <<>> /\ Last(out).kind = "skip")
    <3>1. Emitted(ops, out, i) = Append(out, Skip(1))
      BY <2>3 DEF Emitted
    <3>2. Skip(1) \in U
      BY <1>2, <1>4
    <3>3. QED
      BY <1>3, <1>6, <3>1, <3>2
  <2>4. QED
    BY <2>1, <2>2, <2>3
<1>8. QED
  BY <1>7 DEF U

(* unifiedDiff passes such diffs.                                          *)
LEMMA UnifiedRun ==
  ASSUME NEW S, NEW a \in Seq(S), NEW b \in Seq(S)
  PROVE  \E run \in [0..Len(DiffOps(a, b)) -> Seq(Units(S))] :
           Emits(run, DiffOps(a, b)) /\ UnifiedDiff(a, b) = run[Len(DiffOps(a, b))]
<1> DEFINE V == Seq(Units(S))
           ops == DiffOps(a, b)
           N == Len(ops)
           idx == [i \in DOMAIN ops |-> i]
           Body(x, k) == Emitted(ops, x, k)
           step == [p \in V \X (1..N) |-> Body(p[1], p[2])]
           Iter(it) == it = [w \in SUBSET (1..N) |->
                               IF w = {} THEN <<>> ELSE Body(it[w \ {Max(w)}], idx[Max(w)])]
           it == CHOOSE it : Iter(it)
<1>1. ops \in Seq(OpsOf(S))
  BY DiffLeads
<1> HIDE DEF ops
<1>2. N \in Nat /\ <<>> \in V /\ DOMAIN ops = 1..N
  BY <1>1
<1>3. DOMAIN idx = 1..N /\ \A k \in 1..N : idx[k] = k
  BY <1>2
<1>4. \A x \in V, k \in 1..N : Body(x, k) \in V
  BY <1>1, EmittedIs
<1>5. /\ step \in [V \X (1..N) -> V]
      /\ \A x \in V, k \in 1..N : step[<<x, k>>] = Body(x, k)
  <2>1. \A p \in V \X (1..N) : p[1] \in V /\ p[2] \in 1..N
    OBVIOUS
  <2>2. \A x \in V, k \in 1..N : <<x, k>> \in V \X (1..N) /\ <<x, k>>[1] = x /\ <<x, k>>[2] = k
    OBVIOUS
  <2> HIDE DEF V, N, Body
  <2>3. QED
    BY <1>4, <2>1, <2>2
<1>6. UnifiedDiff(a, b) = it[1..N]
  BY <1>3 DEF UnifiedDiff, FoldLeftDomain, FoldLeft, MapThenFoldSet, Emitted, ops
<1>7. Iter(it)
  <2> HIDE DEF V, N, step, Body, idx
  <2>0. N \in Nat /\ <<>> \in V /\ step \in [V \X (1..N) -> V]
    BY <1>2, <1>5
  <2>1. PICK f \in [SUBSET (1..N) -> V] : Solves(f, N, <<>>, step)
    BY <2>0, FoldSolved
  <2>2. ASSUME NEW w \in SUBSET (1..N), w # {} PROVE f[w] = Body(f[w \ {Max(w)}], idx[Max(w)])
    <3>1. Max(w) \in 1..N /\ w \ {Max(w)} \in SUBSET (1..N)
      BY <1>2, <2>2, PickGreatest
    <3>2. f[w] = step[<<f[w \ {Max(w)}], Max(w)>>]
      BY <2>1, <2>2 DEF Solves
    <3>3. QED
      BY <1>3, <1>5, <3>1, <3>2
  <2>3. f = [w \in SUBSET (1..N) |-> IF w = {} THEN <<>> ELSE Body(f[w \ {Max(w)}], idx[Max(w)])]
    BY <2>1, <2>2 DEF Solves
  <2>4. QED
    BY <2>3
<1>8. PICK run \in [0..N -> V] : RunOf(run, it, N, <<>>, step)
  <2>1. it[{}] = <<>>
    <3>1. {} \in SUBSET (1..N)
      OBVIOUS
    <3> HIDE DEF it, N, Body, idx
    <3>2. QED
      BY <1>7, <3>1
  <2> HIDE DEF it, N, Body, step, V, Iter, idx
  <2>2. \A w \in SUBSET (1..N) :
          w # {} /\ it[w \ {Max(w)}] \in V => it[w] = step[<<it[w \ {Max(w)}], Max(w)>>]
    <3> TAKE w \in SUBSET (1..N)
    <3> HAVE w # {} /\ it[w \ {Max(w)}] \in V
    <3>1. Max(w) \in 1..N
      BY <1>2, PickGreatest
    <3>2. it[w] = Body(it[w \ {Max(w)}], idx[Max(w)])
      BY <1>7 DEF Iter
    <3>3. QED
      BY <1>3, <1>5, <3>1, <3>2
  <2>3. Unrolls(it, V, N, <<>>, step)
    BY <2>1, <2>2 DEF Unrolls
  <2>4. N \in Nat /\ <<>> \in V /\ step \in [V \X (1..N) -> V]
    BY <1>2, <1>5
  <2>5. QED
    BY <2>3, <2>4, FoldRun
<1> HIDE DEF it, V, Body, step
<1>9. Emits(run, ops)
  <2>1. run[0] = <<>> /\ \A k \in 1..N : run[k] = step[<<run[k - 1], k>>]
    BY <1>8 DEF RunOf, Runs
  <2>2. \A k \in 1..N : run[k - 1] \in V
    BY <1>2, <1>8, SMTT(60)
  <2>3. \A k \in 1..N : run[k] = Emitted(ops, run[k - 1], k)
    BY <1>5, <2>1, <2>2 DEF Body
  <2>4. QED
    BY <2>1, <2>3 DEF Emits
<1>10. UnifiedDiff(a, b) = run[N]
  BY <1>6, <1>8 DEF RunOf
<1>11. QED
  BY <1>9, <1>10 DEF ops, V

(* The changes of a diff are those of the edit script.                     *)
Changed(u) == u.kind \in {"delete", "insert"}
ChangesFrom(us, ops) ==
  \A i \in 1..Len(us) : Changed(us[i]) => \E c \in 1..Len(ops) : us[i] = ops[c]

(* An edit that is left out moves over an unchanged line.                  *)
LEMMA SkippedOne ==
  ASSUME NEW S, NEW ops \in Seq(OpsOf(S)), NEW i \in 1..Len(ops), ~ Kept(ops, i),
         NEW a, NEW b, NEW p, NEW q, NEW x, NEW y, Moves(ops[i], a, b, p, q, x, y)
  PROVE  /\ x = p + 1 /\ y = q + 1 /\ a[x] = b[y]
         /\ Moves(Skip(1), a, b, p, q, x, y)
<1> DEFINE u == ops[i]
<1>1. i - Context <= i /\ i <= i + Context /\ i \in DOMAIN ops
  BY TextAssumption
<1>2. u.kind = "equal"
  BY <1>1 DEF Kept
<1>3. Moves(u, a, b, p, q, x, y)
  OBVIOUS
<1> HIDE DEF u
<1>4. /\ p \in Nat /\ q \in Nat /\ x \in 0..Len(a) /\ y \in 0..Len(b)
      /\ x = p + 1 /\ y = q + 1 /\ a[x] = b[y]
  BY <1>2, <1>3 DEF Moves
<1>5. Skip(1).kind = "skip" /\ Skip(1).n = 1
  BY DEF Skip
<1>6. \A k \in 1..1 : a[p + k] = b[q + k]
  BY <1>4
<1>7. Moves(Skip(1), a, b, p, q, x, y)
  <2> DEFINE v == Skip(1)
  <2>1. v.kind = "skip" /\ v.n = 1 /\ v.n \in Nat \ {0}
    BY <1>5
  <2> HIDE DEF v
  <2>2. Moves(v, a, b, p, q, x, y)
    BY <1>4, <1>6, <2>1 DEF Moves
  <2>3. QED
    BY <2>2 DEF v
<1>8. QED
  BY <1>4, <1>7

(* One line more is left out.                                              *)
LEMMA SkippedMore ==
  ASSUME NEW u, u.kind = "skip", NEW a, NEW b, NEW v, NEW w, NEW p, NEW q, NEW x, NEW y,
         Moves(u, a, b, v, w, p, q), Moves(Skip(1), a, b, p, q, x, y)
  PROVE  Moves(Skip(u.n + 1), a, b, v, w, x, y)
<1> DEFINE n == u.n
           s == Skip(n + 1)
           one == Skip(1)
<1>1. /\ v \in Nat /\ w \in Nat /\ n \in Nat \ {0} /\ p = v + n /\ q = w + n
      /\ \A k \in 1..n : a[v + k] = b[w + k]
  BY DEF Moves
<1>2. one.kind = "skip" /\ one.n = 1 /\ s.kind = "skip" /\ s.n = n + 1
  BY DEF Skip
<1>3. Moves(one, a, b, p, q, x, y)
  OBVIOUS
<1> HIDE DEF n, s, one
<1>4. /\ x \in 0..Len(a) /\ y \in 0..Len(b) /\ x = p + 1 /\ y = q + 1
      /\ \A k \in 1..1 : a[p + k] = b[q + k]
  BY <1>2, <1>3 DEF Moves
<1>5. a[x] = b[y]
  <2>1. 1 \in 1..1
    OBVIOUS
  <2>2. QED
    BY <1>4, <2>1
<1>6. \A k \in 1..n + 1 : a[v + k] = b[w + k]
  <2> TAKE k \in 1..n + 1
  <2>1. CASE k \in 1..n
    BY <1>1, <2>1
  <2>2. CASE k \notin 1..n
    <3>1. v + k = x /\ w + k = y
      BY <1>1, <1>4, <2>2
    <3>2. QED
      BY <1>5, <3>1
  <2>3. QED
    BY <2>1, <2>2
<1>7. n + 1 \in Nat \ {0} /\ x = v + (n + 1) /\ y = w + (n + 1)
  BY <1>1, <1>4
<1>8. Moves(s, a, b, v, w, x, y)
  BY <1>1, <1>2, <1>4, <1>6, <1>7 DEF Moves
<1>9. QED
  BY <1>8 DEF s, n

(* What unifiedDiff emits leads as far as the edits it has gone through.   *)
LEMMA EmittedLeads ==
  ASSUME NEW S, NEW ops \in Seq(OpsOf(S)), NEW out \in Seq(Units(S)), NEW i \in 1..Len(ops),
         NEW a, NEW b, NEW p, NEW q, NEW x, NEW y,
         Leads(out, a, b, 0, 0, p, q), Moves(ops[i], a, b, p, q, x, y), ChangesFrom(out, ops)
  PROVE  /\ Leads(Emitted(ops, out, i), a, b, 0, 0, x, y)
         /\ ChangesFrom(Emitted(ops, out, i), ops)
<1> DEFINE U == Units(S)
           e == Emitted(ops, out, i)
<1>1. out \in Seq(U) /\ ops[i] \in U
  BY DEF Units
<1>2. \A n \in Nat \ {0} : Skip(n) \in U /\ ~ Changed(Skip(n))
  BY DEF Skip, Units, Changed
<1>3. ASSUME NEW s \in Seq(U), NEW u \in U, ChangesFrom(s, ops),
             Changed(u) => \E c \in 1..Len(ops) : u = ops[c]
      PROVE  ChangesFrom(Append(s, u), ops)
  <2> DEFINE t == Append(s, u)
  <2>1. Len(t) = Len(s) + 1 /\ t[Len(s) + 1] = u /\ \A j \in 1..Len(s) : t[j] = s[j]
    OBVIOUS
  <2>2. Len(s) \in Nat
    OBVIOUS
  <2> HIDE DEF t
  <2>3. \A j \in 1..Len(t) : j \in 1..Len(s) \/ j = Len(s) + 1
    BY <2>1, <2>2
  <2>4. ChangesFrom(t, ops)
    BY <1>3, <2>1, <2>3 DEF ChangesFrom
  <2>5. QED
    BY <2>4 DEF t
<1> HIDE DEF U
<1>4. CASE Kept(ops, i)
  <2> DEFINE u == ops[i]
  <2>1. e = Append(out, u)
    BY <1>4 DEF Emitted
  <2>2. u \in U /\ Moves(u, a, b, p, q, x, y) /\ \E c \in 1..Len(ops) : u = ops[c]
    BY <1>1
  <2> HIDE DEF u, e
  <2>3. Leads(Append(out, u), a, b, 0, 0, x, y)
    BY <1>1, <2>2, LeadsOn
  <2>4. ChangesFrom(Append(out, u), ops)
    BY <1>1, <1>3, <2>2
  <2>5. QED
    BY <2>1, <2>3, <2>4 DEF e
<1>5. CASE ~ Kept(ops, i) /\ ~ (out # <<>> /\ Last(out).kind = "skip")
  <2> DEFINE u == Skip(1)
  <2>1. e = Append(out, u)
    BY <1>5 DEF Emitted
  <2>2. Moves(u, a, b, p, q, x, y)
    BY <1>5, SkippedOne
  <2>3. u \in U /\ ~ Changed(u)
    BY <1>2
  <2> HIDE DEF u, e
  <2>4. Leads(Append(out, u), a, b, 0, 0, x, y)
    BY <1>1, <2>2, <2>3, LeadsOn
  <2>5. ChangesFrom(Append(out, u), ops)
    BY <1>1, <1>3, <2>3
  <2>6. QED
    BY <2>1, <2>4, <2>5 DEF e
<1>6. CASE ~ Kept(ops, i) /\ out # <<>> /\ Last(out).kind = "skip"
  <2> DEFINE n == Len(out) - 1
             last == Last(out)
             front == Front(out)
             u == Skip(last.n + 1)
  <2>1. e = Append(front, u)
    BY <1>6 DEF Emitted
  <2>2. Moves(Skip(1), a, b, p, q, x, y)
    BY <1>6, SkippedOne
  <2>3. out # <<>> /\ last.kind = "skip"
    BY <1>6
  <2>4. /\ n \in Nat /\ Len(out) = n + 1 /\ front = SubSeq(out, 1, n)
    BY <1>1, <2>3 DEF Front
  <2> HIDE DEF u, e, last, n, front
  <2>5. front \in Seq(U) /\ Len(front) = n /\ \A j \in 1..n : front[j] = out[j] /\ j \in 1..Len(out)
    BY <1>1, <2>4
  <2>6. PICK v \in Nat, w \in Nat : Leads(front, a, b, 0, 0, v, w) /\ Moves(last, a, b, v, w, p, q)
    BY <1>1, <2>3, LeadsBack DEF front, last
  <2>7. Moves(u, a, b, v, w, x, y)
    BY <2>2, <2>3, <2>6, SkippedMore DEF u
  <2>8. last.n \in Nat \ {0}
    BY <2>3, <2>6 DEF Moves
  <2>9. last.n + 1 \in Nat \ {0}
    BY <2>8
  <2>10. u \in U /\ ~ Changed(u)
    BY <1>2, <2>9 DEF u
  <2>11. Leads(Append(front, u), a, b, 0, 0, x, y)
    BY <2>5, <2>6, <2>7, <2>10, LeadsOn
  <2>12. ChangesFrom(front, ops)
    BY <2>5 DEF ChangesFrom
  <2>13. ChangesFrom(Append(front, u), ops)
    BY <1>3, <2>5, <2>10, <2>12
  <2>14. QED
    BY <2>1, <2>11, <2>13 DEF e
<1>7. QED
  BY <1>4, <1>5, <1>6

(* So the diff leads from the beginning of both texts to their ends.       *)
LEMMA UnifiedLeads ==
  ASSUME NEW S, NEW a \in Seq(S), NEW b \in Seq(S)
  PROVE  /\ UnifiedDiff(a, b) \in Seq(Units(S))
         /\ Leads(UnifiedDiff(a, b), a, b, 0, 0, Len(a), Len(b))
         /\ ChangesFrom(UnifiedDiff(a, b), DiffOps(a, b))
<1> DEFINE ops == DiffOps(a, b)
           N == Len(ops)
           V == Seq(Units(S))
<1>1. ops \in Seq(OpsOf(S)) /\ Leads(ops, a, b, 0, 0, Len(a), Len(b))
  BY DiffLeads
<1>2. PICK run \in [0..N -> V] : Emits(run, ops) /\ UnifiedDiff(a, b) = run[N]
  BY UnifiedRun
<1> HIDE DEF ops
<1>3. N \in Nat
  BY <1>1
<1>4. PICK l \in [0..N -> Nat], r \in [0..N -> Nat] :
        Along(ops, a, b, l, r, 0, 0, Len(a), Len(b))
  BY <1>1 DEF Leads
<1>5. /\ l[0] = 0 /\ r[0] = 0 /\ l[N] = Len(a) /\ r[N] = Len(b)
      /\ \A k \in 1..N : Moves(ops[k], a, b, l[k - 1], r[k - 1], l[k], r[k])
  BY <1>4 DEF Along, Steps
<1> DEFINE T == {k \in 0..N : Leads(run[k], a, b, 0, 0, l[k], r[k]) /\ ChangesFrom(run[k], ops)}
<1>6. 0 \in T
  <2>1. run[0] = <<>> /\ 0 \in 0..N
    BY <1>2, <1>3 DEF Emits
  <2>2. Leads(<<>>, a, b, 0, 0, 0, 0)
    BY LeadsNowhere
  <2>3. ChangesFrom(<<>>, ops)
    BY DEF ChangesFrom
  <2>4. QED
    BY <1>5, <2>1, <2>2, <2>3
<1>7. \A k \in 0..N : k < N /\ k \in T => k + 1 \in T
  <2> TAKE k \in 0..N
  <2> HAVE k < N /\ k \in T
  <2> DEFINE j == k + 1
             out == run[k]
  <2>1. j \in 1..N /\ j \in 0..N /\ j - 1 = k
    BY <1>3
  <2>2. out \in V /\ Leads(out, a, b, 0, 0, l[k], r[k]) /\ ChangesFrom(out, ops)
    BY <1>2
  <2> HIDE DEF j, out
  <2>3. Moves(ops[j], a, b, l[k], r[k], l[j], r[j])
    BY <1>5, <2>1
  <2>4. run[j] = Emitted(ops, out, j)
    BY <1>2, <2>1 DEF Emits, out
  <2>5. Leads(Emitted(ops, out, j), a, b, 0, 0, l[j], r[j])
        /\ ChangesFrom(Emitted(ops, out, j), ops)
    BY <1>1, <2>1, <2>2, <2>3, EmittedLeads
  <2>6. j \in T
    BY <2>1, <2>4, <2>5
  <2>7. QED
    BY <2>6 DEF j
<1>8. N \in T
  <2> HIDE DEF T, N
  <2>1. N \in 0..N
    BY <1>3
  <2>2. 0..N \subseteq T
    BY <1>3, <1>6, <1>7, BoundedInduction
  <2>3. QED
    BY <2>1, <2>2
<1>9. run[N] \in V
  BY <1>2, <1>3, SMTT(60)
<1>10. QED
  BY <1>2, <1>5, <1>8, <1>9 DEF ops

-----------------------------------------------------------------------------
(* The state of SideBySideDiff: where it is in both texts, the changed     *)
(* lines it has not placed yet, and the rows of the page so far.           *)
RowsOf(S) ==
  [kind : {"equal", "skip", "remove", "add", "replace"}, leftNo : Nat, rightNo : Nat,
   left : S \cup {None} \cup Nat, right : S \cup {None} \cup Nat]
Pages(S) ==
  [leftNo : Nat, rightNo : Nat, dels : Seq(S), adds : Seq(S), rows : Seq(RowsOf(S))]

Taken(p, u) ==
  CASE u.kind = "skip" -> SkipLines(p, u.n)
    [] u.kind = "delete" -> [p EXCEPT !.dels = Append(@, u.line)]
    [] u.kind = "insert" -> [p EXCEPT !.adds = Append(@, u.line)]
    [] u.kind = "equal" -> SameLine(p, u.line)
EmptyPage == [leftNo |-> 0, rightNo |-> 0, dels |-> <<>>, adds |-> <<>>, rows |-> <<>>]

(* The rows that a flush adds.                                             *)
FlushAdds(p, more, m) ==
  /\ m >= Len(p.dels) /\ m >= Len(p.adds)
  /\ \A i \in 1..m :
       /\ more[i].leftNo = IF i > Len(p.dels) THEN 0 ELSE p.leftNo + i
       /\ more[i].rightNo = IF i > Len(p.adds) THEN 0 ELSE p.rightNo + i
       /\ more[i].left = IF i > Len(p.dels) THEN None ELSE p.dels[i]
       /\ more[i].right = IF i > Len(p.adds) THEN None ELSE p.adds[i]
Flushes(p, q, more) ==
  /\ q.leftNo = p.leftNo + Len(p.dels) /\ q.rightNo = p.rightNo + Len(p.adds)
  /\ q.dels = <<>> /\ q.adds = <<>> /\ q.rows = p.rows \o more

(* A flush places the changed lines, the old beside the more.               *)
LEMMA FlushIs ==
  ASSUME NEW S, NEW p \in Pages(S)
  PROVE  \E m \in Nat : \E more \in [1..m -> RowsOf(S)] :
           FlushAdds(p, more, m) /\ Flush(p) \in Pages(S) /\ Flushes(p, Flush(p), more)
<1> DEFINE dels == Len(p.dels)
           adds == Len(p.adds)
           m == IF dels > adds THEN dels ELSE adds
           Pair(i) ==
             Row(IF i > adds THEN "remove" ELSE IF i > dels THEN "add" ELSE "replace",
                 IF i > dels THEN 0 ELSE p.leftNo + i,
                 IF i > adds THEN 0 ELSE p.rightNo + i,
                 IF i > dels THEN None ELSE p.dels[i],
                 IF i > adds THEN None ELSE p.adds[i])
           more == [i \in 1..m |-> Pair(i)]
           q == [leftNo |-> p.leftNo + dels, rightNo |-> p.rightNo + adds,
                 dels |-> <<>>, adds |-> <<>>, rows |-> p.rows \o more]
<1>1. Flush(p) = q
  BY DEF Flush
<1>2. /\ p.leftNo \in Nat /\ p.rightNo \in Nat /\ p.dels \in Seq(S) /\ p.adds \in Seq(S)
      /\ p.rows \in Seq(RowsOf(S))
  BY DEF Pages
<1>3. dels \in Nat /\ adds \in Nat /\ \A i \in 1..dels : p.dels[i] \in S
  BY <1>2
<1>4. \A i \in 1..adds : p.adds[i] \in S
  BY <1>2
<1>5. m \in Nat /\ m >= dels /\ m >= adds
  BY <1>3
<1> HIDE DEF dels, adds, m
<1>6. \A i \in 1..m :
        /\ Pair(i).leftNo = IF i > dels THEN 0 ELSE p.leftNo + i
        /\ Pair(i).rightNo = IF i > adds THEN 0 ELSE p.rightNo + i
        /\ Pair(i).left = IF i > dels THEN None ELSE p.dels[i]
        /\ Pair(i).right = IF i > adds THEN None ELSE p.adds[i]
  BY DEF Row
<1>7. \A i \in 1..m : Pair(i) \in RowsOf(S)
  <2> TAKE i \in 1..m
  <2>1. i > dels \/ (i \in 1..dels /\ ~ (i > dels))
    BY <1>3, <1>5
  <2>2. i > adds \/ (i \in 1..adds /\ ~ (i > adds))
    BY <1>3, <1>5
  <2>3. /\ (IF i > dels THEN 0 ELSE p.leftNo + i) \in Nat
        /\ (IF i > adds THEN 0 ELSE p.rightNo + i) \in Nat
    BY <1>2
  <2>4. (IF i > dels THEN None ELSE p.dels[i]) \in S \cup {None} \cup Nat
    BY <1>3, <2>1
  <2>5. (IF i > adds THEN None ELSE p.adds[i]) \in S \cup {None} \cup Nat
    BY <1>4, <2>2
  <2>6. (IF i > adds THEN "remove" ELSE IF i > dels THEN "add" ELSE "replace")
          \in {"equal", "skip", "remove", "add", "replace"}
    OBVIOUS
  <2>7. QED
    BY <2>3, <2>4, <2>5, <2>6 DEF Row, RowsOf
<1> HIDE DEF Pair
<1>8. more \in [1..m -> RowsOf(S)] /\ \A i \in 1..m : more[i] = Pair(i)
  BY <1>7
<1>9. more \in Seq(RowsOf(S))
  BY <1>5, <1>8
<1> HIDE DEF more
<1>10. p.rows \o more \in Seq(RowsOf(S))
  BY <1>2, <1>9
<1>11. q \in Pages(S) /\ Flushes(p, q, more)
  <2>1. p.leftNo + dels \in Nat /\ p.rightNo + adds \in Nat
    BY <1>2, <1>3
  <2>2. <<>> \in Seq(S)
    OBVIOUS
  <2>3. q \in Pages(S)
    BY <1>10, <2>1, <2>2 DEF Pages
  <2>4. Flushes(p, q, more)
    BY DEF Flushes, dels, adds
  <2>5. QED
    BY <2>3, <2>4
<1>12. FlushAdds(p, more, m)
  BY <1>5, <1>6, <1>8 DEF FlushAdds, dels, adds
<1> HIDE DEF q
<1>13. QED
  BY <1>1, <1>5, <1>8, <1>11, <1>12

(* One side of the page: n lines of its text are placed, pend waits, and   *)
(* the rows number and show the lines of that text and no others.          *)
Numbered(page, no) == {page[i][no] : i \in 1..Len(page)} \ {0}
OneSide(n, pend, page, no, line, a, pos, seen) ==
  /\ n + Len(pend) = pos
  /\ \A i \in 1..Len(pend) : pend[i] = a[n + i]
  /\ \A i \in 1..Len(page) : page[i][no] \in Nat /\ (page[i][no] # 0 => page[i][line] = a[page[i][no]])
  /\ Numbered(page, no) \cup (n + 1..pos) = seen

(* The lines of two texts, one after the other.                            *)
Joined(x, y, z) ==
  /\ Len(z) = Len(x) + Len(y)
  /\ \A i \in 1..Len(x) : z[i] = x[i]
  /\ \A i \in 1..Len(y) : z[Len(x) + i] = y[i]

(* They are all there, in their order.                                     *)
LEMMA JoinedIs ==
  ASSUME NEW R, NEW x \in Seq(R), NEW y \in Seq(R)
  PROVE  Joined(x, y, x \o y)
BY DEF Joined

(* A flush places the waiting lines of a side.                             *)
LEMMA SideFlushed ==
  ASSUME NEW S, NEW R, NEW n \in Nat, NEW pend \in Seq(S), NEW page \in Seq(R), NEW m \in Nat,
         NEW more \in [1..m -> R], NEW no, NEW line, NEW a, NEW pos, NEW seen,
         OneSide(n, pend, page, no, line, a, pos, seen),
         m >= Len(pend),
         \A i \in 1..m : /\ more[i][no] = IF i > Len(pend) THEN 0 ELSE n + i
                         /\ i <= Len(pend) => more[i][line] = pend[i]
  PROVE  OneSide(pos, <<>>, page \o more, no, line, a, pos, seen)
<1> DEFINE N == Len(pend)
           L == Len(page)
           all == page \o more
<1>1. N \in Nat /\ L \in Nat /\ m \in Nat /\ pos = n + N /\ pos \in Nat
  BY DEF OneSide
<1>2. /\ \A i \in 1..N : pend[i] = a[n + i]
      /\ \A i \in 1..L : page[i][no] \in Nat /\ (page[i][no] # 0 => page[i][line] = a[page[i][no]])
      /\ Numbered(page, no) \cup (n + 1..pos) = seen
  BY DEF OneSide
<1>3. /\ Len(all) = L + m
      /\ \A i \in 1..L : all[i] = page[i]
      /\ \A i \in 1..m : all[L + i] = more[i]
  <2>1. more \in Seq(R) /\ Len(more) = m
    OBVIOUS
  <2>2. Joined(page, more, all)
    BY <2>1, JoinedIs
  <2> HIDE DEF all
  <2>3. QED
    BY <2>1, <2>2 DEF Joined
<1>4. \A i \in 1..m : /\ i <= N => more[i][no] = n + i /\ more[i][line] = pend[i]
                      /\ ~ (i <= N) => more[i][no] = 0
  BY <1>1
<1>5. m >= N
  OBVIOUS
<1> HIDE DEF N, L, all
<1>6. \A i \in 1..L + m : i \in 1..L \/ (i - L \in 1..m /\ all[i] = more[i - L])
  <2> TAKE i \in 1..L + m
  <2>1. i \in 1..L \/ (i - L \in 1..m /\ L + (i - L) = i)
    BY <1>1
  <2>2. QED
    BY <1>3, <2>1
<1>7. \A i \in 1..m : more[i][no] \in Nat /\ (more[i][no] # 0 => more[i][line] = a[more[i][no]])
  <2> TAKE i \in 1..m
  <2>1. CASE i <= N
    <3>1. i \in 1..N /\ n + i \in Nat
      BY <1>1, <2>1
    <3>2. more[i][no] = n + i /\ more[i][line] = a[n + i]
      BY <1>2, <1>4, <2>1, <3>1
    <3>3. QED
      BY <3>1, <3>2
  <2>2. CASE ~ (i <= N)
    <3>1. more[i][no] = 0
      BY <1>4, <2>2
    <3>2. QED
      BY <3>1
  <2>3. QED
    BY <2>1, <2>2
<1>8. \A i \in 1..L + m : all[i][no] \in Nat /\ (all[i][no] # 0 => all[i][line] = a[all[i][no]])
  <2> TAKE i \in 1..L + m
  <2>1. CASE i \in 1..L
    <3>1. all[i] = page[i] /\ page[i][no] \in Nat
          /\ (page[i][no] # 0 => page[i][line] = a[page[i][no]])
      BY <1>2, <1>3, <2>1
    <3>2. QED
      BY <3>1
  <2>2. CASE i - L \in 1..m /\ all[i] = more[i - L]
    <3> DEFINE j == i - L
    <3>1. j \in 1..m /\ all[i] = more[j]
      BY <2>2
    <3> HIDE DEF j
    <3>2. more[j][no] \in Nat /\ (more[j][no] # 0 => more[j][line] = a[more[j][no]])
      BY <1>7, <3>1
    <3>3. QED
      BY <3>1, <3>2
  <2>3. QED
    BY <1>6, <2>1, <2>2
<1>9. Numbered(all, no) = Numbered(page, no) \cup (n + 1..pos)
  <2>1. ASSUME NEW i \in 1..Len(all), all[i][no] # 0
        PROVE  all[i][no] \in Numbered(page, no) \cup (n + 1..pos)
    <3>1. i \in 1..L \/ (i - L \in 1..m /\ all[i] = more[i - L])
      BY <1>3, <1>6, <2>1
    <3>2. CASE i \in 1..L
      BY <1>3, <2>1, <3>2 DEF Numbered, L
    <3>3. CASE i - L \in 1..m /\ all[i] = more[i - L]
      <4> DEFINE j == i - L
      <4>1. j \in 1..m /\ all[i][no] = more[j][no]
        BY <3>3
      <4> HIDE DEF j
      <4>2. j <= N /\ more[j][no] = n + j
        BY <1>4, <2>1, <4>1
      <4>3. n + j \in n + 1..pos
        BY <1>1, <4>1, <4>2
      <4>4. QED
        BY <4>1, <4>2, <4>3
    <3>4. QED
      BY <3>1, <3>2, <3>3
  <2>2. ASSUME NEW v \in Numbered(page, no) PROVE v \in Numbered(all, no)
    <3>1. PICK i \in 1..L : v = page[i][no]
      BY DEF Numbered, L
    <3>2. i \in 1..Len(all) /\ all[i][no] = v /\ v # 0
      BY <1>1, <1>3, <3>1 DEF Numbered
    <3>3. QED
      BY <3>2 DEF Numbered
  <2>3. ASSUME NEW v \in n + 1..pos PROVE v \in Numbered(all, no)
    <3> DEFINE j == v - n
               i == L + j
    <3>1. j \in 1..m /\ j <= N /\ n + j = v /\ v # 0 /\ i \in 1..L + m
      BY <1>1, <1>5, <2>3
    <3>2. all[i] = more[j] /\ more[j][no] = n + j
      BY <1>3, <1>4, <3>1
    <3> HIDE DEF i, j
    <3>3. i \in 1..Len(all) /\ all[i][no] = v /\ v # 0
      BY <1>3, <3>1, <3>2
    <3>4. QED
      BY <3>3 DEF Numbered
  <2>4. ASSUME NEW v \in Numbered(all, no) PROVE v \in Numbered(page, no) \cup (n + 1..pos)
    <3>1. PICK i \in 1..Len(all) : v = all[i][no] /\ v # 0
      BY <2>4 DEF Numbered
    <3>2. QED
      BY <2>1, <3>1
  <2>5. QED
    BY <2>2, <2>3, <2>4
<1>10. pos + 1..pos = {} /\ Len(<<>>) = 0 /\ pos + 0 = pos
  BY <1>1
<1>11. OneSide(pos, <<>>, all, no, line, a, pos, seen)
  BY <1>2, <1>3, <1>8, <1>9, <1>10 DEF OneSide
<1>12. QED
  BY <1>11 DEF all

(* A row is added to a side on which nothing waits.                        *)
LEMMA SideRow ==
  ASSUME NEW R, NEW n \in Nat, NEW page \in Seq(R), NEW row \in R, NEW no, NEW line, NEW a,
         NEW pos, NEW seen, NEW c \in Nat, OneSide(n, <<>>, page, no, line, a, pos, seen),
         row[no] \in Nat, row[no] # 0 => row[line] = a[row[no]]
  PROVE  OneSide(n + c, <<>>, Append(page, row), no, line, a, pos + c, seen \cup ({row[no]} \ {0}))
<1> DEFINE L == Len(page)
           all == Append(page, row)
<1>1. L \in Nat /\ n = pos
  BY DEF OneSide
<1>2. /\ \A i \in 1..L : page[i][no] \in Nat /\ (page[i][no] # 0 => page[i][line] = a[page[i][no]])
      /\ Numbered(page, no) \cup (n + 1..pos) = seen
  BY DEF OneSide
<1>3. /\ Len(all) = L + 1
      /\ \A i \in 1..L : all[i] = page[i]
      /\ all[L + 1] = row
  OBVIOUS
<1> HIDE DEF all, L
<1>4. \A i \in 1..L + 1 : i \in 1..L \/ i = L + 1
  BY <1>1
<1>5. \A i \in 1..Len(all) : all[i][no] \in Nat /\ (all[i][no] # 0 => all[i][line] = a[all[i][no]])
  BY <1>2, <1>3, <1>4
<1>6. Numbered(all, no) = Numbered(page, no) \cup ({row[no]} \ {0})
  <2>1. ASSUME NEW v \in Numbered(all, no) PROVE v \in Numbered(page, no) \cup ({row[no]} \ {0})
    <3>1. PICK i \in 1..Len(all) : v = all[i][no] /\ v # 0
      BY <2>1 DEF Numbered
    <3>2. CASE i \in 1..L
      BY <1>3, <3>1, <3>2 DEF Numbered, L
    <3>3. CASE i = L + 1
      BY <1>3, <3>1, <3>3
    <3>4. QED
      BY <1>3, <1>4, <3>1, <3>2, <3>3
  <2>2. ASSUME NEW v \in Numbered(page, no) PROVE v \in Numbered(all, no)
    <3>1. PICK i \in 1..L : v = page[i][no] /\ v # 0
      BY DEF Numbered, L
    <3>2. i \in 1..Len(all) /\ all[i][no] = v
      BY <1>1, <1>3, <3>1
    <3>3. QED
      BY <3>1, <3>2 DEF Numbered
  <2>3. ASSUME row[no] # 0 PROVE row[no] \in Numbered(all, no)
    <3>1. L + 1 \in 1..Len(all)
      BY <1>1, <1>3
    <3>2. QED
      BY <1>3, <2>3, <3>1 DEF Numbered
  <2>4. QED
    BY <2>1, <2>2, <2>3
<1>7. n + 1..pos = {} /\ (n + c) + 1..pos + c = {} /\ Len(<<>>) = 0 /\ n + c + 0 = pos + c
  BY <1>1
<1>8. Numbered(all, no) \cup ((n + c) + 1..pos + c) = seen \cup ({row[no]} \ {0})
  BY <1>2, <1>6, <1>7
<1>9. OneSide(n + c, <<>>, all, no, line, a, pos + c, seen \cup ({row[no]} \ {0}))
  BY <1>5, <1>7, <1>8 DEF OneSide
<1>10. QED
  BY <1>9 DEF all

(* The next line of a side joins those that wait.                          *)
LEMMA SideWaits ==
  ASSUME NEW S, NEW n \in Nat, NEW pend \in Seq(S), NEW x \in S, NEW page, NEW no, NEW line,
         NEW a, NEW pos, NEW seen, OneSide(n, pend, page, no, line, a, pos, seen), x = a[pos + 1]
  PROVE  OneSide(n, Append(pend, x), page, no, line, a, pos + 1, seen \cup {pos + 1})
<1> DEFINE N == Len(pend)
           all == Append(pend, x)
<1>1. N \in Nat /\ n + N = pos /\ \A i \in 1..N : pend[i] = a[n + i]
  BY DEF OneSide
<1>2. Len(all) = N + 1 /\ all[N + 1] = x /\ \A i \in 1..N : all[i] = pend[i]
  OBVIOUS
<1> HIDE DEF N, all
<1>3. \A i \in 1..Len(all) : all[i] = a[n + i]
  <2> TAKE i \in 1..Len(all)
  <2>1. i \in 1..N \/ (i = N + 1 /\ n + i = pos + 1)
    BY <1>1, <1>2
  <2>2. QED
    BY <1>1, <1>2, <2>1
<1>4. n + 1..pos + 1 = (n + 1..pos) \cup {pos + 1} /\ n + Len(all) = pos + 1
  BY <1>1, <1>2
<1>5. OneSide(n, all, page, no, line, a, pos + 1, seen \cup {pos + 1})
  BY <1>3, <1>4 DEF OneSide
<1>6. QED
  BY <1>5 DEF all

(* Both sides of the page, and the lines that are marked as changed.       *)
PageAt(p, a, b, x, y, seenL, seenR) ==
  /\ OneSide(p.leftNo, p.dels, p.rows, "leftNo", "left", a, x, seenL)
  /\ OneSide(p.rightNo, p.adds, p.rows, "rightNo", "right", b, y, seenR)

RowMarks(row, C) ==
  row.kind \notin {"equal", "skip"} => row.left \in C \cup {None} /\ row.right \in C \cup {None}
MarksOnly(p, C) ==
  /\ \A i \in 1..Len(p.rows) : RowMarks(p.rows[i], C)
  /\ \A i \in 1..Len(p.dels) : p.dels[i] \in C
  /\ \A i \in 1..Len(p.adds) : p.adds[i] \in C

Settled(p, x, y) == p.leftNo = x /\ p.rightNo = y /\ p.dels = <<>> /\ p.adds = <<>>

(* Rows that keep to the marked lines, with more of them.                  *)
LEMMA MarksJoin ==
  ASSUME NEW R, NEW s \in Seq(R), NEW t \in Seq(R), NEW C,
         \A i \in 1..Len(s) : RowMarks(s[i], C), \A i \in 1..Len(t) : RowMarks(t[i], C)
  PROVE  \A i \in 1..Len(s \o t) : RowMarks((s \o t)[i], C)
<1> DEFINE all == s \o t
<1>1. Joined(s, t, all)
  BY JoinedIs
<1>2. Len(s) \in Nat /\ Len(t) \in Nat
  OBVIOUS
<1> HIDE DEF all
<1>3. ASSUME NEW i \in 1..Len(all) PROVE RowMarks(all[i], C)
  <2>1. CASE i \in 1..Len(s)
    BY <1>1, <2>1 DEF Joined
  <2>2. CASE i \notin 1..Len(s)
    <3> DEFINE j == i - Len(s)
    <3>1. j \in 1..Len(t) /\ i = Len(s) + j
      BY <1>1, <1>2, <2>2 DEF Joined
    <3>2. all[i] = t[j]
      BY <1>1, <3>1 DEF Joined
    <3>3. QED
      BY <3>1, <3>2
  <2>3. QED
    BY <2>1, <2>2
<1>4. QED
  BY <1>3 DEF all

(* A flush changes nothing of what the page says.                          *)
LEMMA FlushedPage ==
  ASSUME NEW S, NEW p \in Pages(S), NEW a, NEW b, NEW x, NEW y, NEW sl, NEW sr, NEW C,
         PageAt(p, a, b, x, y, sl, sr), MarksOnly(p, C)
  PROVE  /\ Flush(p) \in Pages(S) /\ Settled(Flush(p), x, y)
         /\ PageAt(Flush(p), a, b, x, y, sl, sr) /\ MarksOnly(Flush(p), C)
<1> DEFINE q == Flush(p)
           R == RowsOf(S)
<1>1. PICK m \in Nat : \E more \in [1..m -> R] :
        FlushAdds(p, more, m) /\ q \in Pages(S) /\ Flushes(p, q, more)
  BY FlushIs
<1>2. PICK more \in [1..m -> R] : FlushAdds(p, more, m) /\ q \in Pages(S) /\ Flushes(p, q, more)
  BY <1>1
<1> HIDE DEF q, R
<1>3. /\ p.leftNo \in Nat /\ p.rightNo \in Nat /\ p.dels \in Seq(S) /\ p.adds \in Seq(S)
      /\ p.rows \in Seq(R)
  BY DEF Pages, R
<1>4. /\ q.leftNo = p.leftNo + Len(p.dels) /\ q.rightNo = p.rightNo + Len(p.adds)
      /\ q.dels = <<>> /\ q.adds = <<>> /\ q.rows = p.rows \o more
  BY <1>2 DEF Flushes
<1>5. x = p.leftNo + Len(p.dels) /\ y = p.rightNo + Len(p.adds)
  BY DEF PageAt, OneSide
<1>6. /\ m >= Len(p.dels) /\ m >= Len(p.adds)
      /\ \A i \in 1..m :
           /\ more[i]["leftNo"] = IF i > Len(p.dels) THEN 0 ELSE p.leftNo + i
           /\ more[i]["rightNo"] = IF i > Len(p.adds) THEN 0 ELSE p.rightNo + i
           /\ more[i]["left"] = IF i > Len(p.dels) THEN None ELSE p.dels[i]
           /\ more[i]["right"] = IF i > Len(p.adds) THEN None ELSE p.adds[i]
  BY <1>2 DEF FlushAdds
<1>7. Len(p.dels) \in Nat /\ Len(p.adds) \in Nat
  BY <1>3
<1> DEFINE page == p.rows
           n == p.leftNo
           pend == p.dels
           n2 == p.rightNo
           pend2 == p.adds
<1>8. OneSide(n, pend, page, "leftNo", "left", a, x, sl)
      /\ OneSide(n2, pend2, page, "rightNo", "right", b, y, sr)
  BY DEF PageAt
<1>9. n \in Nat /\ pend \in Seq(S) /\ page \in Seq(R) /\ n2 \in Nat /\ pend2 \in Seq(S)
  BY <1>3
<1>10. /\ m >= Len(pend)
       /\ \A i \in 1..m : /\ more[i]["leftNo"] = IF i > Len(pend) THEN 0 ELSE n + i
                          /\ i <= Len(pend) => more[i]["left"] = pend[i]
  BY <1>6, <1>7
<1>11. /\ m >= Len(pend2)
       /\ \A i \in 1..m : /\ more[i]["rightNo"] = IF i > Len(pend2) THEN 0 ELSE n2 + i
                          /\ i <= Len(pend2) => more[i]["right"] = pend2[i]
  BY <1>6, <1>7
<1> HIDE DEF page, n, pend, n2, pend2
<1>12. OneSide(x, <<>>, page \o more, "leftNo", "left", a, x, sl)
  BY <1>8, <1>9, <1>10, SideFlushed, ZenonT(60)
<1>13. OneSide(y, <<>>, page \o more, "rightNo", "right", b, y, sr)
  BY <1>8, <1>9, <1>11, SideFlushed, ZenonT(60)
<1>14. PageAt(q, a, b, x, y, sl, sr)
  BY <1>4, <1>5, <1>12, <1>13 DEF PageAt, page
<1>15. MarksOnly(q, C)
  <2>1. more \in Seq(R) /\ Len(more) = m
    OBVIOUS
  <2>2. ASSUME NEW i \in 1..m PROVE RowMarks(more[i], C)
    <3>1. more[i].left \in C \cup {None}
      <4>1. CASE i > Len(p.dels)
        BY <1>6, <4>1
      <4>2. CASE ~ (i > Len(p.dels))
        <5>1. i \in 1..Len(p.dels)
          BY <1>7, <4>2
        <5>2. p.dels[i] \in C
          BY <5>1 DEF MarksOnly
        <5>3. QED
          BY <1>6, <4>2, <5>2
      <4>3. QED
        BY <4>1, <4>2
    <3>2. more[i].right \in C \cup {None}
      <4>1. CASE i > Len(p.adds)
        BY <1>6, <4>1
      <4>2. CASE ~ (i > Len(p.adds))
        <5>1. i \in 1..Len(p.adds)
          BY <1>7, <4>2
        <5>2. p.adds[i] \in C
          BY <5>1 DEF MarksOnly
        <5>3. QED
          BY <1>6, <4>2, <5>2
      <4>3. QED
        BY <4>1, <4>2
    <3>3. QED
      BY <3>1, <3>2 DEF RowMarks
  <2>3. \A i \in 1..Len(page) : RowMarks(page[i], C)
    BY DEF MarksOnly, page
  <2>4. \A i \in 1..Len(page \o more) : RowMarks((page \o more)[i], C)
    BY <1>9, <2>1, <2>2, <2>3, MarksJoin
  <2>5. q.rows = page \o more
    BY <1>4 DEF page
  <2>6. Len(<<>>) = 0 /\ 1..0 = {}
    OBVIOUS
  <2> HIDE DEF page
  <2>7. \A i \in 1..Len(q.rows) : RowMarks(q.rows[i], C)
    BY <2>4, <2>5
  <2>8. QED
    BY <1>4, <2>6, <2>7 DEF MarksOnly
<1>16. Settled(q, x, y)
  BY <1>4, <1>5 DEF Settled
<1>17. QED
  BY <1>2, <1>14, <1>15, <1>16 DEF q

LeftKinds == {"equal", "delete"}
RightKinds == {"equal", "insert"}
Adds(seen, u, kinds, x) == IF u.kind \in kinds THEN seen \cup {x} ELSE seen

AddsRow(q, p, c, row) ==
  /\ c \in Nat
  /\ q = [p EXCEPT !.leftNo = @ + c, !.rightNo = @ + c, !.rows = Append(@, row)]
MovesBy(c, x, y, v, w) == v = x + c /\ w = y + c
Numbers2(row, sl, sr, sl1, sr1) ==
  sl1 = sl \cup ({row.leftNo} \ {0}) /\ sr1 = sr \cup ({row.rightNo} \ {0})
RowIsTrue(row, a, b) ==
  /\ row.kind \in {"equal", "skip"}
  /\ row.leftNo # 0 => row.left = a[row.leftNo]
  /\ row.rightNo # 0 => row.right = b[row.rightNo]

(* A row after a flush: nothing waits, and both sides move on.             *)
LEMMA RowAdded ==
  ASSUME NEW S, NEW p \in Pages(S), NEW a, NEW b, NEW x, NEW y, NEW sl, NEW sr, NEW C,
         PageAt(p, a, b, x, y, sl, sr), MarksOnly(p, C), Settled(p, x, y),
         NEW row \in RowsOf(S), RowIsTrue(row, a, b), NEW c, NEW q, AddsRow(q, p, c, row),
         NEW v, NEW w, MovesBy(c, x, y, v, w),
         NEW sl1, NEW sr1, Numbers2(row, sl, sr, sl1, sr1)
  PROVE  q \in Pages(S) /\ MarksOnly(q, C) /\ PageAt(q, a, b, v, w, sl1, sr1)
<1> DEFINE R == RowsOf(S)
           page == p.rows
<1>1. /\ p.leftNo \in Nat /\ p.rightNo \in Nat /\ p.dels \in Seq(S) /\ p.adds \in Seq(S)
      /\ page \in Seq(R)
      /\ p.leftNo = x /\ p.rightNo = y /\ p.dels = <<>> /\ p.adds = <<>>
      /\ x \in Nat /\ y \in Nat /\ c \in Nat
  BY DEF Pages, Settled, AddsRow
<1>2. /\ q.leftNo = x + c /\ q.rightNo = y + c /\ q.dels = <<>> /\ q.adds = <<>>
      /\ q.rows = Append(page, row)
  BY <1>1 DEF Pages, AddsRow
<1>3. /\ row["leftNo"] \in Nat /\ row["rightNo"] \in Nat
      /\ row["leftNo"] # 0 => row["left"] = a[row["leftNo"]]
      /\ row["rightNo"] # 0 => row["right"] = b[row["rightNo"]]
  BY DEF RowsOf, RowIsTrue
<1>4. q \in Pages(S)
  <2>1. Append(page, row) \in Seq(R)
    <3> HIDE DEF page
    <3>1. QED
      BY <1>1
  <2>2. q = [leftNo |-> q.leftNo, rightNo |-> q.rightNo, dels |-> q.dels, adds |-> q.adds,
             rows |-> q.rows]
    BY DEF Pages, AddsRow
  <2> HIDE DEF page
  <2>3. q.leftNo \in Nat /\ q.rightNo \in Nat /\ q.dels \in Seq(S) /\ q.adds \in Seq(S)
        /\ q.rows \in Seq(R)
    BY <1>1, <1>2, <2>1
  <2> HIDE DEF R
  <2>4. QED
    BY <2>2, <2>3 DEF Pages, R
<1>5. OneSide(x, <<>>, page, "leftNo", "left", a, x, sl)
      /\ OneSide(y, <<>>, page, "rightNo", "right", b, y, sr)
  BY <1>1 DEF PageAt
<1>6. row \in R /\ page \in Seq(R) /\ x \in Nat /\ y \in Nat /\ c \in Nat
  BY <1>1
<1> HIDE DEF page, R
<1>7. OneSide(x + c, <<>>, Append(page, row), "leftNo", "left", a, x + c,
              sl \cup ({row["leftNo"]} \ {0}))
  BY <1>3, <1>5, <1>6, SideRow
<1>8. OneSide(y + c, <<>>, Append(page, row), "rightNo", "right", b, y + c,
              sr \cup ({row["rightNo"]} \ {0}))
  BY <1>3, <1>5, <1>6, SideRow
<1>9. PageAt(q, a, b, v, w, sl1, sr1)
  BY <1>2, <1>7, <1>8 DEF PageAt, MovesBy, Numbers2
<1>10. MarksOnly(q, C)
  <2>1. RowMarks(row, C)
    BY DEF RowMarks, RowIsTrue
  <2>2. \A i \in 1..Len(page) : RowMarks(page[i], C)
    BY DEF MarksOnly, page
  <2> DEFINE all == Append(page, row)
  <2>3. Len(all) = Len(page) + 1 /\ all[Len(page) + 1] = row /\ Len(page) \in Nat
        /\ \A i \in 1..Len(page) : all[i] = page[i]
    BY <1>6
  <2>4. q.rows = all
    BY <1>2
  <2> HIDE DEF all
  <2>5. ASSUME NEW i \in 1..Len(all) PROVE RowMarks(all[i], C)
    <3>1. CASE i = Len(page) + 1
      BY <2>1, <2>3, <3>1
    <3>2. CASE i # Len(page) + 1
      <4>1. i \in 1..Len(page)
        BY <2>3, <3>2
      <4>2. QED
        BY <2>2, <2>3, <4>1
    <3>3. QED
      BY <3>1, <3>2
  <2>6. Len(<<>>) = 0 /\ 1..0 = {}
    OBVIOUS
  <2>7. QED
    BY <1>2, <2>4, <2>5, <2>6 DEF MarksOnly
<1>11. QED
  BY <1>4, <1>9, <1>10

(* A unit of the diff is placed on the page, or joins the lines that wait. *)
LEMMA TakenIs ==
  ASSUME NEW S, NEW p \in Pages(S), NEW u \in Units(S), NEW a, NEW b,
         NEW x, NEW y, NEW v, NEW w, NEW sl, NEW sr, NEW C,
         PageAt(p, a, b, x, y, sl, sr), MarksOnly(p, C), Moves(u, a, b, x, y, v, w),
         Changed(u) => u.line \in C
  PROVE  /\ Taken(p, u) \in Pages(S) /\ MarksOnly(Taken(p, u), C)
         /\ PageAt(Taken(p, u), a, b, v, w, Adds(sl, u, LeftKinds, v), Adds(sr, u, RightKinds, w))
<1> DEFINE t == Taken(p, u)
           f == Flush(p)
<1>1. /\ x \in Nat /\ y \in Nat /\ v \in Nat /\ w \in Nat
      /\ u.kind \in {"skip", "equal", "delete", "insert"}
      /\ u.kind = "skip" => /\ u.n \in Nat \ {0} /\ v = x + u.n /\ w = y + u.n
      /\ u.kind = "equal" => v = x + 1 /\ w = y + 1 /\ u.line = a[v] /\ u.line = b[w]
      /\ u.kind = "delete" => v = x + 1 /\ w = y /\ u.line = a[v]
      /\ u.kind = "insert" => v = x /\ w = y + 1 /\ u.line = b[w]
  BY DEF Moves
<1>2. u.kind # "skip" => u.line \in S
  BY DEF Units, OpsOf
<1>3. /\ f \in Pages(S) /\ Settled(f, x, y) /\ PageAt(f, a, b, x, y, sl, sr) /\ MarksOnly(f, C)
  BY FlushedPage
<1>4. /\ p.leftNo \in Nat /\ p.rightNo \in Nat /\ p.dels \in Seq(S) /\ p.adds \in Seq(S)
      /\ p.rows \in Seq(RowsOf(S))
      /\ p = [leftNo |-> p.leftNo, rightNo |-> p.rightNo, dels |-> p.dels, adds |-> p.adds,
              rows |-> p.rows]
  BY DEF Pages
<1>6. CASE u.kind = "skip"
  <2> DEFINE row == Row("skip", 0, 0, u.n, u.n)
             q == [f EXCEPT !.leftNo = @ + u.n, !.rightNo = @ + u.n, !.rows = Append(@, row)]
  <2>1. t = q
    BY <1>6 DEF Taken, SkipLines
  <2>2. /\ row.kind \in {"equal", "skip"} /\ row.leftNo = 0 /\ row.rightNo = 0
        /\ row \in RowsOf(S)
    BY <1>1, <1>6 DEF Row, RowsOf
  <2>3. u.n \in Nat
    BY <1>1, <1>6
  <2> HIDE DEF row, t, f
  <2> DEFINE c == u.n
  <2>4. c \in Nat /\ v = x + c /\ w = y + c /\ AddsRow(q, f, c, row)
    BY <1>1, <1>6, <2>3 DEF AddsRow
  <2> HIDE DEF c, q
  <2>5. RowIsTrue(row, a, b) /\ sl = sl \cup ({row.leftNo} \ {0}) /\ sr = sr \cup ({row.rightNo} \ {0})
    BY <2>2 DEF RowIsTrue
  <2>6. q \in Pages(S) /\ MarksOnly(q, C) /\ PageAt(q, a, b, v, w, sl, sr)
    <3>1. /\ f \in Pages(S) /\ row \in RowsOf(S)
          /\ PageAt(f, a, b, x, y, sl, sr) /\ MarksOnly(f, C) /\ Settled(f, x, y)
          /\ RowIsTrue(row, a, b) /\ AddsRow(q, f, c, row)
          /\ MovesBy(c, x, y, v, w) /\ Numbers2(row, sl, sr, sl, sr)
      BY <1>3, <2>2, <2>4, <2>5 DEF MovesBy, Numbers2
    <3>2. QED
      BY ONLY <3>1, RowAdded
  <2>7. Adds(sl, u, LeftKinds, v) = sl /\ Adds(sr, u, RightKinds, w) = sr
    BY <1>6 DEF Adds, LeftKinds, RightKinds
  <2>8. QED
    BY <2>1, <2>4, <2>6, <2>7 DEF t
<1>7. CASE u.kind = "equal"
  <2> DEFINE row == Row("equal", f.leftNo + 1, f.rightNo + 1, u.line, u.line)
             q == [f EXCEPT !.leftNo = @ + 1, !.rightNo = @ + 1, !.rows = Append(@, row)]
  <2>1. t = q
    BY <1>7 DEF Taken, SameLine
  <2>2. f.leftNo = x /\ f.rightNo = y /\ v = x + 1 /\ w = y + 1 /\ u.line = a[v] /\ u.line = b[w]
    BY <1>1, <1>3, <1>7 DEF Settled
  <2>3. /\ row.kind \in {"equal", "skip"} /\ row.leftNo = v /\ row.rightNo = w
        /\ row.left = u.line /\ row.right = u.line
        /\ row \in RowsOf(S)
    BY <1>1, <1>2, <1>7, <2>2 DEF Row, RowsOf
  <2>4. AddsRow(q, f, 1, row) /\ RowIsTrue(row, a, b)
    BY <2>2, <2>3 DEF AddsRow, RowIsTrue
  <2>5. v # 0 /\ w # 0 /\ 1 \in Nat
    BY <1>1, <2>2
  <2> HIDE DEF row, t, f, q
  <2>6. sl \cup {v} = sl \cup ({row.leftNo} \ {0}) /\ sr \cup {w} = sr \cup ({row.rightNo} \ {0})
    BY <2>3, <2>5
  <2> DEFINE sl1 == sl \cup {v}
             sr1 == sr \cup {w}
  <2> HIDE DEF sl1, sr1
  <2>7. q \in Pages(S) /\ MarksOnly(q, C) /\ PageAt(q, a, b, v, w, sl1, sr1)
    <3> DEFINE c == 1
    <3>1. /\ f \in Pages(S) /\ row \in RowsOf(S)
          /\ PageAt(f, a, b, x, y, sl, sr) /\ MarksOnly(f, C) /\ Settled(f, x, y)
          /\ RowIsTrue(row, a, b) /\ AddsRow(q, f, c, row)
          /\ MovesBy(c, x, y, v, w) /\ Numbers2(row, sl, sr, sl1, sr1)
      BY <1>3, <2>2, <2>3, <2>4, <2>6 DEF sl1, sr1, MovesBy, Numbers2
    <3> HIDE DEF c
    <3>2. QED
      BY ONLY <3>1, RowAdded
  <2>8. Adds(sl, u, LeftKinds, v) = sl \cup {v} /\ Adds(sr, u, RightKinds, w) = sr \cup {w}
    BY <1>7 DEF Adds, LeftKinds, RightKinds
  <2>9. QED
    BY <2>1, <2>2, <2>7, <2>8 DEF t, sl1, sr1
<1>8. CASE u.kind = "delete"
  <2> DEFINE n == p.leftNo
             pend == p.dels
             page == p.rows
             l == u.line
             more == Append(pend, l)
  <2>1. t = [p EXCEPT !.dels = more]
    BY <1>8 DEF Taken
  <2>2. /\ t.leftNo = n /\ t.rightNo = p.rightNo /\ t.dels = more /\ t.adds = p.adds
        /\ t.rows = page
        /\ t = [leftNo |-> n, rightNo |-> p.rightNo, dels |-> more, adds |-> p.adds, rows |-> page]
    BY <1>4, <2>1
  <2>3. l \in S /\ l \in C /\ v = x + 1 /\ w = y /\ l = a[x + 1]
    BY <1>1, <1>2, <1>8 DEF Changed
  <2>4. n \in Nat /\ pend \in Seq(S) /\ OneSide(n, pend, page, "leftNo", "left", a, x, sl)
    BY <1>4 DEF PageAt
  <2> HIDE DEF t, n, pend, page, l
  <2>5. OneSide(n, more, page, "leftNo", "left", a, x + 1, sl \cup {x + 1})
    BY <2>3, <2>4, SideWaits
  <2>6. more \in Seq(S) /\ Len(more) = Len(pend) + 1 /\ more[Len(pend) + 1] = l
        /\ Len(pend) \in Nat /\ \A i \in 1..Len(pend) : more[i] = pend[i]
    BY <2>3, <2>4
  <2> HIDE DEF more
  <2>7. t \in Pages(S)
    BY <1>4, <2>2, <2>4, <2>6 DEF Pages, page
  <2>8. Adds(sl, u, LeftKinds, v) = sl \cup {v} /\ Adds(sr, u, RightKinds, w) = sr
    BY <1>8 DEF Adds, LeftKinds, RightKinds
  <2>9. OneSide(p.rightNo, p.adds, page, "rightNo", "right", b, y, sr)
    BY DEF PageAt, page
  <2>10. PageAt(t, a, b, v, w, sl \cup {v}, sr)
    BY <2>2, <2>3, <2>5, <2>9 DEF PageAt
  <2>11. \A i \in 1..Len(more) : i \in 1..Len(pend) \/ i = Len(pend) + 1
    BY <2>6
  <2>12. \A i \in 1..Len(pend) : pend[i] \in C
    BY DEF MarksOnly, pend
  <2>13. \A i \in 1..Len(more) : more[i] \in C
    BY <2>3, <2>6, <2>11, <2>12
  <2>14. MarksOnly(t, C)
    BY <2>2, <2>13 DEF MarksOnly, page
  <2>15. QED
    BY <2>7, <2>8, <2>10, <2>14 DEF t
<1>9. CASE u.kind = "insert"
  <2> DEFINE n == p.rightNo
             pend == p.adds
             page == p.rows
             l == u.line
             more == Append(pend, l)
  <2>1. t = [p EXCEPT !.adds = more]
    BY <1>9 DEF Taken
  <2>2. /\ t.leftNo = p.leftNo /\ t.rightNo = n /\ t.dels = p.dels /\ t.adds = more
        /\ t.rows = page
        /\ t = [leftNo |-> p.leftNo, rightNo |-> n, dels |-> p.dels, adds |-> more, rows |-> page]
    BY <1>4, <2>1
  <2>3. l \in S /\ l \in C /\ v = x /\ w = y + 1 /\ l = b[y + 1]
    BY <1>1, <1>2, <1>9 DEF Changed
  <2>4. n \in Nat /\ pend \in Seq(S) /\ OneSide(n, pend, page, "rightNo", "right", b, y, sr)
    BY <1>4 DEF PageAt
  <2> HIDE DEF t, n, pend, page, l
  <2>5. OneSide(n, more, page, "rightNo", "right", b, y + 1, sr \cup {y + 1})
    BY <2>3, <2>4, SideWaits
  <2>6. more \in Seq(S) /\ Len(more) = Len(pend) + 1 /\ more[Len(pend) + 1] = l
        /\ Len(pend) \in Nat /\ \A i \in 1..Len(pend) : more[i] = pend[i]
    BY <2>3, <2>4
  <2> HIDE DEF more
  <2>7. t \in Pages(S)
    BY <1>4, <2>2, <2>4, <2>6 DEF Pages, page
  <2>8. Adds(sl, u, LeftKinds, v) = sl /\ Adds(sr, u, RightKinds, w) = sr \cup {w}
    BY <1>9 DEF Adds, LeftKinds, RightKinds
  <2>9. OneSide(p.leftNo, p.dels, page, "leftNo", "left", a, x, sl)
    BY DEF PageAt, page
  <2>10. PageAt(t, a, b, v, w, sl, sr \cup {w})
    BY <2>2, <2>3, <2>5, <2>9 DEF PageAt
  <2>11. \A i \in 1..Len(more) : i \in 1..Len(pend) \/ i = Len(pend) + 1
    BY <2>6
  <2>12. \A i \in 1..Len(pend) : pend[i] \in C
    BY DEF MarksOnly, pend
  <2>13. \A i \in 1..Len(more) : more[i] \in C
    BY <2>3, <2>6, <2>11, <2>12
  <2>14. MarksOnly(t, C)
    BY <2>2, <2>13 DEF MarksOnly, page
  <2>15. QED
    BY <2>7, <2>8, <2>10, <2>14 DEF t
<1>10. QED
  BY <1>1, <1>6, <1>7, <1>8, <1>9

(* Every unit makes a page of a page.                                      *)
LEMMA TakenType ==
  ASSUME NEW S, NEW p \in Pages(S), NEW u \in Units(S)
  PROVE  Taken(p, u) \in Pages(S)
<1> DEFINE t == Taken(p, u)
           f == Flush(p)
<1>1. u.kind \in {"skip", "equal", "delete", "insert"}
      /\ (u.kind = "skip" => u.n \in Nat) /\ (u.kind # "skip" => u.line \in S)
  BY DEF Units, OpsOf
<1>2. f \in Pages(S)
  BY FlushIs
<1>3. \A q \in Pages(S) :
        /\ q.leftNo \in Nat /\ q.rightNo \in Nat /\ q.dels \in Seq(S) /\ q.adds \in Seq(S)
        /\ q.rows \in Seq(RowsOf(S))
        /\ q = [leftNo |-> q.leftNo, rightNo |-> q.rightNo, dels |-> q.dels, adds |-> q.adds,
                rows |-> q.rows]
  BY DEF Pages
<1>4. \A s \in Seq(S), l \in S : Append(s, l) \in Seq(S)
  OBVIOUS
<1>5. ASSUME NEW g \in Pages(S), NEW row \in RowsOf(S), NEW c, NEW q, AddsRow(q, g, c, row)
      PROVE  q \in Pages(S)
  <2> DEFINE R == RowsOf(S)
             page == g.rows
  <2>1. page \in Seq(R) /\ row \in R /\ c \in Nat
    BY <1>3, <1>5 DEF AddsRow
  <2>2. /\ q.leftNo = g.leftNo + c /\ q.rightNo = g.rightNo + c /\ q.dels = g.dels
        /\ q.adds = g.adds /\ q.rows = Append(page, row)
    BY <1>5 DEF Pages, AddsRow
  <2>3. q = [leftNo |-> q.leftNo, rightNo |-> q.rightNo, dels |-> q.dels,
             adds |-> q.adds, rows |-> q.rows]
    BY <1>5 DEF Pages, AddsRow
  <2> HIDE DEF page, R
  <2>4. Append(page, row) \in Seq(R)
    BY <2>1
  <2>5. g.leftNo + c \in Nat /\ g.rightNo + c \in Nat /\ g.dels \in Seq(S) /\ g.adds \in Seq(S)
    BY <1>3, <2>1
  <2>6. q.leftNo \in Nat /\ q.rightNo \in Nat /\ q.dels \in Seq(S) /\ q.adds \in Seq(S)
        /\ q.rows \in Seq(RowsOf(S))
    BY <2>2, <2>4, <2>5 DEF R
  <2>7. QED
    BY <2>3, <2>6 DEF Pages
<1>6. CASE u.kind = "skip"
  <2>1. Row("skip", 0, 0, u.n, u.n) \in RowsOf(S)
    BY <1>1, <1>6 DEF Row, RowsOf
  <2>2. AddsRow(t, f, u.n, Row("skip", 0, 0, u.n, u.n))
    BY <1>1, <1>6 DEF Taken, SkipLines, AddsRow
  <2> HIDE DEF t, f
  <2>3. QED
    BY <1>2, <1>5, <2>1, <2>2 DEF t
<1>7. CASE u.kind = "equal"
  <2>1. f.leftNo \in Nat /\ f.rightNo \in Nat
    BY <1>2, <1>3
  <2> HIDE DEF f
  <2>2. Row("equal", f.leftNo + 1, f.rightNo + 1, u.line, u.line) \in RowsOf(S)
    BY <1>1, <1>7, <2>1 DEF Row, RowsOf
  <2>3. AddsRow(t, f, 1, Row("equal", f.leftNo + 1, f.rightNo + 1, u.line, u.line))
    BY <1>7 DEF Taken, SameLine, AddsRow, f
  <2> HIDE DEF t
  <2>4. QED
    BY <1>2, <1>5, <2>2, <2>3 DEF t
<1>8. CASE u.kind = "delete"
  <2>1. t = [leftNo |-> p.leftNo, rightNo |-> p.rightNo, dels |-> Append(p.dels, u.line),
             adds |-> p.adds, rows |-> p.rows]
    <3>1. t = [p EXCEPT !.dels = Append(@, u.line)]
      BY <1>8 DEF Taken
    <3> HIDE DEF t
    <3>2. QED
      BY <3>1 DEF Pages
  <2>2. Append(p.dels, u.line) \in Seq(S)
    BY <1>1, <1>3, <1>4, <1>8
  <2> HIDE DEF t
  <2>3. t \in Pages(S)
    BY <1>3, <2>1, <2>2 DEF Pages
  <2>4. QED
    BY <2>3 DEF t
<1>9. CASE u.kind = "insert"
  <2>1. t = [leftNo |-> p.leftNo, rightNo |-> p.rightNo, dels |-> p.dels,
             adds |-> Append(p.adds, u.line), rows |-> p.rows]
    <3>1. t = [p EXCEPT !.adds = Append(@, u.line)]
      BY <1>9 DEF Taken
    <3> HIDE DEF t
    <3>2. QED
      BY <3>1 DEF Pages
  <2>2. Append(p.adds, u.line) \in Seq(S)
    BY <1>1, <1>3, <1>4, <1>9
  <2> HIDE DEF t
  <2>3. t \in Pages(S)
    BY <1>3, <2>1, <2>2 DEF Pages
  <2>4. QED
    BY <2>3 DEF t
<1>10. QED
  BY <1>1, <1>6, <1>7, <1>8, <1>9

(* The page is made unit by unit.                                          *)
Takes(run, us) == run[0] = EmptyPage /\ \A k \in 1..Len(us) : run[k] = Taken(run[k - 1], us[k])

(* SideBySide passes such pages.                                           *)
LEMMA SideRun ==
  ASSUME NEW S, NEW us \in Seq(Units(S))
  PROVE  \E run \in [0..Len(us) -> Pages(S)] :
           Takes(run, us) /\ SideBySide(us) = Flush(run[Len(us)]).rows
<1> DEFINE V == Pages(S)
           N == Len(us)
           base == EmptyPage
           Body(x, k) == Taken(x, us[k])
           step == [p \in V \X (1..N) |-> Body(p[1], p[2])]
           Iter(it) == it = [w \in SUBSET (1..N) |->
                               IF w = {} THEN base ELSE Body(it[w \ {Max(w)}], Max(w))]
           it == CHOOSE it : Iter(it)
<1>1. N \in Nat /\ DOMAIN us = 1..N /\ \A k \in 1..N : us[k] \in Units(S)
  OBVIOUS
<1>2. base \in V
  <2>1. <<>> \in Seq(S) /\ <<>> \in Seq(RowsOf(S)) /\ 0 \in Nat
    OBVIOUS
  <2>2. QED
    BY <2>1 DEF EmptyPage, Pages
<1>3. \A x \in V, k \in 1..N : Body(x, k) \in V
  BY <1>1, TakenType
<1>4. /\ step \in [V \X (1..N) -> V]
      /\ \A x \in V, k \in 1..N : step[<<x, k>>] = Body(x, k)
  <2>1. \A p \in V \X (1..N) : p[1] \in V /\ p[2] \in 1..N
    OBVIOUS
  <2>2. \A x \in V, k \in 1..N : <<x, k>> \in V \X (1..N) /\ <<x, k>>[1] = x /\ <<x, k>>[2] = k
    OBVIOUS
  <2> HIDE DEF V, N, Body
  <2>3. QED
    BY <1>3, <2>1, <2>2
<1>5. SideBySide(us) = Flush(it[1..N]).rows
  BY <1>1 DEF SideBySide, FoldLeft, MapThenFoldSet, Taken, EmptyPage
<1>6. Iter(it)
  <2> HIDE DEF V, N, step, Body, base
  <2>0. N \in Nat /\ base \in V /\ step \in [V \X (1..N) -> V]
    BY <1>1, <1>2, <1>4
  <2>1. PICK f \in [SUBSET (1..N) -> V] : Solves(f, N, base, step)
    BY <2>0, FoldSolved
  <2>2. ASSUME NEW w \in SUBSET (1..N), w # {} PROVE f[w] = Body(f[w \ {Max(w)}], Max(w))
    <3>1. Max(w) \in 1..N /\ w \ {Max(w)} \in SUBSET (1..N)
      BY <1>1, <2>2, PickGreatest
    <3>2. f[w] = step[<<f[w \ {Max(w)}], Max(w)>>]
      BY <2>1, <2>2 DEF Solves
    <3>3. QED
      BY <1>4, <3>1, <3>2
  <2>3. f = [w \in SUBSET (1..N) |-> IF w = {} THEN base ELSE Body(f[w \ {Max(w)}], Max(w))]
    BY <2>1, <2>2 DEF Solves
  <2>4. QED
    BY <2>3
<1>7. PICK run \in [0..N -> V] : RunOf(run, it, N, base, step)
  <2>1. it[{}] = base
    <3>1. {} \in SUBSET (1..N)
      OBVIOUS
    <3> HIDE DEF it, N, Body, base
    <3>2. QED
      BY <1>6, <3>1
  <2> HIDE DEF it, N, Body, step, V, Iter, base
  <2>2. \A w \in SUBSET (1..N) :
          w # {} /\ it[w \ {Max(w)}] \in V => it[w] = step[<<it[w \ {Max(w)}], Max(w)>>]
    <3> TAKE w \in SUBSET (1..N)
    <3> HAVE w # {} /\ it[w \ {Max(w)}] \in V
    <3>1. Max(w) \in 1..N
      BY <1>1, PickGreatest
    <3>2. it[w] = Body(it[w \ {Max(w)}], Max(w))
      BY <1>6 DEF Iter
    <3>3. QED
      BY <1>4, <3>1, <3>2
  <2>3. Unrolls(it, V, N, base, step)
    BY <2>1, <2>2 DEF Unrolls
  <2>4. N \in Nat /\ base \in V /\ step \in [V \X (1..N) -> V]
    BY <1>1, <1>2, <1>4
  <2>5. QED
    BY <2>3, <2>4, FoldRun
<1> HIDE DEF it, V, Body, step, base, N
<1>8. Takes(run, us)
  <2>1. run[0] = base /\ \A k \in 1..N : run[k] = step[<<run[k - 1], k>>]
    BY <1>7 DEF RunOf, Runs
  <2>2. \A k \in 1..N : run[k - 1] \in V
    BY <1>1, <1>7
  <2>3. \A k \in 1..N : run[k] = Taken(run[k - 1], us[k])
    BY <1>4, <2>1, <2>2 DEF Body
  <2>4. QED
    BY <2>1, <2>3 DEF Takes, N, base
<1>9. SideBySide(us) = Flush(run[N]).rows
  BY <1>5, <1>7 DEF RunOf
<1>10. QED
  BY <1>8, <1>9 DEF N, V

(* The lines of one text that some units of a diff place.                  *)
SeenTo(us, l, k, kinds) == {l[x] : x \in {x \in 1..k : us[x].kind \in kinds}}

(* One unit more.                                                          *)
LEMMA SeenNext ==
  ASSUME NEW us, NEW l, NEW kinds, NEW k \in Nat
  PROVE  SeenTo(us, l, k + 1, kinds) = Adds(SeenTo(us, l, k, kinds), us[k + 1], kinds, l[k + 1])
<1> DEFINE j == k + 1
<1>1. 1..j = (1..k) \cup {j}
  BY OneMore
<1> HIDE DEF j
<1>2. SeenTo(us, l, j, kinds) = Adds(SeenTo(us, l, k, kinds), us[j], kinds, l[j])
  <2>1. CASE us[j].kind \in kinds
    BY <1>1, <2>1 DEF SeenTo, Adds
  <2>2. CASE us[j].kind \notin kinds
    BY <1>1, <2>2 DEF SeenTo, Adds
  <2>3. QED
    BY <2>1, <2>2
<1>3. QED
  BY <1>2 DEF j

(* The page of a diff.                                                     *)
Shows(p, us, a, b, l, r, C) ==
  /\ PageAt(p, a, b, Len(a), Len(b), SeenTo(us, l, Len(us), LeftKinds),
            SeenTo(us, r, Len(us), RightKinds))
  /\ MarksOnly(p, C)
  /\ Settled(p, Len(a), Len(b))

(* All of the diff is placed on the page.                                  *)
LEMMA PagePlaced ==
  ASSUME NEW S, NEW us \in Seq(Units(S)), NEW a, NEW b, NEW l, NEW r, NEW C,
         Along(us, a, b, l, r, 0, 0, Len(a), Len(b)),
         \A i \in 1..Len(us) : Changed(us[i]) => us[i].line \in C
  PROVE  \E p \in Pages(S) : SideBySide(us) = p.rows /\ Shows(p, us, a, b, l, r, C)
<1> DEFINE N == Len(us)
           V == Pages(S)
<1>1. PICK run \in [0..N -> V] : Takes(run, us) /\ SideBySide(us) = Flush(run[N]).rows
  BY SideRun
<1>2. N \in Nat /\ \A k \in 1..N : us[k] \in Units(S)
  OBVIOUS
<1>3. /\ l[0] = 0 /\ r[0] = 0 /\ l[N] = Len(a) /\ r[N] = Len(b)
      /\ \A k \in 1..N : Moves(us[k], a, b, l[k - 1], r[k - 1], l[k], r[k])
  BY DEF Along, Steps
<1>4. run[0] = EmptyPage /\ \A k \in 1..N : run[k] = Taken(run[k - 1], us[k])
  BY <1>1 DEF Takes
<1>5. \A k \in 1..N : Changed(us[k]) => us[k].line \in C
  OBVIOUS
<1> DEFINE SL(k) == SeenTo(us, l, k, LeftKinds)
           SR(k) == SeenTo(us, r, k, RightKinds)
           T == {k \in 0..N : PageAt(run[k], a, b, l[k], r[k], SL(k), SR(k)) /\ MarksOnly(run[k], C)}
<1> HIDE DEF N, V
<1>6. 0 \in T
  <2>1. 1..0 = {} /\ Len(<<>>) = 0 /\ 0 + 1..0 = {} /\ 0 \in 0..N /\ 0 + 0 = 0
    BY <1>2
  <2>2. SL(0) = {} /\ SR(0) = {}
    BY <2>1 DEF SeenTo
  <2>3. Numbered(<<>>, "leftNo") = {} /\ Numbered(<<>>, "rightNo") = {}
    BY <2>1 DEF Numbered
  <2>4. OneSide(0, <<>>, <<>>, "leftNo", "left", a, 0, {})
        /\ OneSide(0, <<>>, <<>>, "rightNo", "right", b, 0, {})
    BY <2>1, <2>3 DEF OneSide
  <2>5. PageAt(EmptyPage, a, b, 0, 0, {}, {})
    BY <2>4 DEF PageAt, EmptyPage
  <2>6. MarksOnly(EmptyPage, C)
    BY <2>1 DEF MarksOnly, EmptyPage
  <2>7. QED
    BY <1>3, <1>4, <2>1, <2>2, <2>5, <2>6
<1>7. \A k \in 0..N : k < N /\ k \in T => k + 1 \in T
  <2> TAKE k \in 0..N
  <2> HAVE k < N /\ k \in T
  <2> DEFINE j == k + 1
             p == run[k]
             u == us[j]
  <2>1. j \in 1..N /\ j \in 0..N /\ j - 1 = k /\ k \in Nat
    BY <1>2
  <2>2. p \in V /\ PageAt(p, a, b, l[k], r[k], SL(k), SR(k)) /\ MarksOnly(p, C)
    BY <1>1
  <2>3. SL(j) = Adds(SL(k), u, LeftKinds, l[j]) /\ SR(j) = Adds(SR(k), u, RightKinds, r[j])
    BY <2>1, SeenNext
  <2> HIDE DEF j, SL, SR
  <2>4. Moves(u, a, b, l[k], r[k], l[j], r[j])
    BY <1>3, <2>1
  <2>5. u \in Units(S) /\ (Changed(u) => u.line \in C)
    BY <1>2, <1>5, <2>1
  <2>6. run[j] = Taken(p, u)
    BY <1>4, <2>1
  <2> HIDE DEF p, u
  <2>7. /\ MarksOnly(Taken(p, u), C)
        /\ PageAt(Taken(p, u), a, b, l[j], r[j], Adds(SL(k), u, LeftKinds, l[j]),
                  Adds(SR(k), u, RightKinds, r[j]))
    BY <2>2, <2>4, <2>5, TakenIs DEF V
  <2>8. j \in T
    BY <2>1, <2>3, <2>6, <2>7
  <2>9. QED
    BY <2>8 DEF j
<1>8. N \in T
  <2> HIDE DEF T
  <2>1. N \in 0..N
    BY <1>2
  <2>2. 0..N \subseteq T
    BY <1>2, <1>6, <1>7, BoundedInduction
  <2>3. QED
    BY <2>1, <2>2
<1> DEFINE p == run[N]
           x == Len(a)
           y == Len(b)
           sl == SL(N)
           sr == SR(N)
<1>9. p \in Pages(S) /\ PageAt(p, a, b, x, y, sl, sr) /\ MarksOnly(p, C)
  BY <1>1, <1>2, <1>3, <1>8 DEF V
<1> HIDE DEF p, x, y, sl, sr
<1>10. /\ Flush(p) \in Pages(S) /\ Settled(Flush(p), x, y)
       /\ PageAt(Flush(p), a, b, x, y, sl, sr) /\ MarksOnly(Flush(p), C)
  BY <1>9, FlushedPage
<1>11. Shows(Flush(p), us, a, b, l, r, C)
  BY <1>10 DEF Shows, x, y, sl, sr, N
<1>12. SideBySide(us) = Flush(p).rows
  BY <1>1 DEF p
<1>13. QED
  BY <1>10, <1>11, <1>12

(* The lines of a text that a page does not show, line by line.            *)
Omits(run, text, nos) ==
  /\ run[0] = <<>>
  /\ \A k \in 1..Len(text) :
       run[k] = IF k \in nos THEN run[k - 1] ELSE Append(run[k - 1], text[k])

(* Unshown passes such texts.                                              *)
LEMMA OmitRun ==
  ASSUME NEW S, NEW s \in Seq(S), NEW nos
  PROVE  \E run \in [0..Len(s) -> Seq(S)] : Omits(run, s, nos) /\ Unshown(s, nos) = run[Len(s)]
<1> DEFINE V == Seq(S)
           N == Len(s)
           idx == [i \in DOMAIN s |-> i]
           Body(x, k) == IF k \in nos THEN x ELSE Append(x, s[k])
           step == [p \in V \X (1..N) |-> Body(p[1], p[2])]
           Iter(it) == it = [w \in SUBSET (1..N) |->
                               IF w = {} THEN <<>> ELSE Body(it[w \ {Max(w)}], idx[Max(w)])]
           it == CHOOSE it : Iter(it)
<1>1. N \in Nat /\ <<>> \in V /\ DOMAIN s = 1..N
  OBVIOUS
<1>2. DOMAIN idx = 1..N /\ \A k \in 1..N : idx[k] = k
  BY <1>1
<1>3. \A x \in V, k \in 1..N : Body(x, k) \in V
  OBVIOUS
<1>4. /\ step \in [V \X (1..N) -> V]
      /\ \A x \in V, k \in 1..N : step[<<x, k>>] = Body(x, k)
  <2>1. \A p \in V \X (1..N) : p[1] \in V /\ p[2] \in 1..N
    OBVIOUS
  <2>2. \A x \in V, k \in 1..N : <<x, k>> \in V \X (1..N) /\ <<x, k>>[1] = x /\ <<x, k>>[2] = k
    OBVIOUS
  <2> HIDE DEF V, N, Body
  <2>3. QED
    BY <1>3, <2>1, <2>2
<1>5. Unshown(s, nos) = it[1..N]
  BY <1>2 DEF Unshown, FoldLeftDomain, FoldLeft, MapThenFoldSet
<1>6. Iter(it)
  <2> HIDE DEF V, N, step, Body, idx
  <2>0. N \in Nat /\ <<>> \in V /\ step \in [V \X (1..N) -> V]
    BY <1>1, <1>4
  <2>1. PICK f \in [SUBSET (1..N) -> V] : Solves(f, N, <<>>, step)
    BY <2>0, FoldSolved
  <2>2. ASSUME NEW w \in SUBSET (1..N), w # {} PROVE f[w] = Body(f[w \ {Max(w)}], idx[Max(w)])
    <3>1. Max(w) \in 1..N /\ w \ {Max(w)} \in SUBSET (1..N)
      BY <1>1, <2>2, PickGreatest
    <3>2. f[w] = step[<<f[w \ {Max(w)}], Max(w)>>]
      BY <2>1, <2>2 DEF Solves
    <3>3. QED
      BY <1>2, <1>4, <3>1, <3>2
  <2>3. f = [w \in SUBSET (1..N) |-> IF w = {} THEN <<>> ELSE Body(f[w \ {Max(w)}], idx[Max(w)])]
    BY <2>1, <2>2 DEF Solves
  <2>4. QED
    BY <2>3
<1>7. PICK run \in [0..N -> V] : RunOf(run, it, N, <<>>, step)
  <2>1. it[{}] = <<>>
    <3>1. {} \in SUBSET (1..N)
      OBVIOUS
    <3> HIDE DEF it, N, Body, idx
    <3>2. QED
      BY <1>6, <3>1
  <2> HIDE DEF it, N, Body, step, V, Iter, idx
  <2>2. \A w \in SUBSET (1..N) :
          w # {} /\ it[w \ {Max(w)}] \in V => it[w] = step[<<it[w \ {Max(w)}], Max(w)>>]
    <3> TAKE w \in SUBSET (1..N)
    <3> HAVE w # {} /\ it[w \ {Max(w)}] \in V
    <3>1. Max(w) \in 1..N
      BY <1>1, PickGreatest
    <3>2. it[w] = Body(it[w \ {Max(w)}], idx[Max(w)])
      BY <1>6 DEF Iter
    <3>3. QED
      BY <1>2, <1>4, <3>1, <3>2
  <2>3. Unrolls(it, V, N, <<>>, step)
    BY <2>1, <2>2 DEF Unrolls
  <2>4. N \in Nat /\ <<>> \in V /\ step \in [V \X (1..N) -> V]
    BY <1>1, <1>4
  <2>5. QED
    BY <2>3, <2>4, FoldRun
<1> HIDE DEF it, V, step, N
<1>8. Omits(run, s, nos)
  <2>1. run[0] = <<>> /\ \A k \in 1..N : run[k] = step[<<run[k - 1], k>>]
    BY <1>7 DEF RunOf, Runs
  <2>2. \A k \in 1..N : run[k - 1] \in V
    BY <1>1, <1>7
  <2>3. \A k \in 1..N : run[k] = Body(run[k - 1], k)
    <3> HIDE DEF Body
    <3>1. QED
      BY <1>4, <2>1, <2>2
  <2>4. QED
    BY <2>1, <2>3 DEF Omits, N
<1>9. Unshown(s, nos) = run[N]
  BY <1>5, <1>7 DEF RunOf
<1>10. QED
  BY <1>8, <1>9 DEF N, V

-----------------------------------------------------------------------------
(* One side of a diff: unit k goes over the lines from l[k - 1] to l[k],   *)
(* and over one line alone unless it leaves lines out.                     *)
Climbs(us, l, kinds) ==
  \A k \in 1..Len(us) :
    /\ l[k - 1] <= l[k]
    /\ us[k].kind \in kinds => l[k] = l[k - 1] + 1
    /\ us[k].kind \notin kinds /\ us[k].kind # "skip" => l[k] = l[k - 1]

(* No later unit is behind an earlier one.                                 *)
LEMMA ClimbsUp ==
  ASSUME NEW us, NEW N \in Nat, Len(us) = N, NEW l \in [0..N -> Nat], NEW kinds,
         Climbs(us, l, kinds), NEW i \in 0..N, NEW j \in 0..N, i <= j
  PROVE  l[i] <= l[j]
<1> DEFINE T == {k \in 0..N : k < i \/ l[i] <= l[k]}
<1>1. \A k \in 0..N : l[k] \in Nat
  OBVIOUS
<1>2. 0 \in T
  <2>1. 0 < i \/ (i = 0 /\ l[i] <= l[0])
    BY <1>1
  <2>2. QED
    BY <2>1
<1>3. \A k \in 0..N : k < N /\ k \in T => k + 1 \in T
  <2> TAKE k \in 0..N
  <2> HAVE k < N /\ k \in T
  <2> DEFINE m == k + 1
  <2>1. m \in 1..N /\ m \in 0..N /\ m - 1 = k
    OBVIOUS
  <2> HIDE DEF m
  <2>2. l[k] <= l[m]
    BY <2>1 DEF Climbs
  <2>3. l[k] \in Nat /\ l[m] \in Nat /\ l[i] \in Nat
    BY <1>1, <2>1
  <2>4. m < i \/ l[i] <= l[m]
    <3>1. CASE k < i
      <4>1. m < i \/ m = i
        BY <2>1, <3>1
      <4>2. QED
        BY <2>1, <2>3, <4>1
    <3>2. CASE ~ (k < i)
      <4>1. l[i] <= l[k]
        BY <3>2
      <4>2. QED
        BY <2>2, <2>3, <4>1
    <3>3. QED
      BY <3>1, <3>2
  <2>6. m \in T
    BY <2>1, <2>4
  <2>7. QED
    BY <2>6 DEF m
<1>4. 0..N \subseteq T
  <2> HIDE DEF T
  <2>1. QED
    BY <1>2, <1>3, BoundedInduction
<1>5. j \in T
  BY <1>4
<1>6. QED
  BY <1>5

(* A line that unit k leaves out is placed by no unit.                     *)
LEMMA SkippedUnseen ==
  ASSUME NEW us, NEW N \in Nat, Len(us) = N, NEW l \in [0..N -> Nat], NEW kinds,
         Climbs(us, l, kinds), "skip" \notin kinds,
         NEW k \in 1..N, us[k].kind = "skip", NEW v \in Nat, l[k - 1] < v, v <= l[k]
  PROVE  v \notin SeenTo(us, l, N, kinds)
<1> SUFFICES ASSUME v \in SeenTo(us, l, N, kinds) PROVE FALSE
  OBVIOUS
<1>1. PICK x \in 1..N : us[x].kind \in kinds /\ v = l[x]
  BY DEF SeenTo
<1> DEFINE j == k - 1
           y == x - 1
<1>2. j \in 0..N /\ k \in 0..N /\ x \in 0..N /\ y \in 0..N
  OBVIOUS
<1>3. l[j] < v /\ v <= l[k]
  OBVIOUS
<1>4. l[x] = l[y] + 1
  BY <1>1 DEF Climbs
<1>5. x # k
  BY <1>1
<1>6. x <= j \/ k <= y
  BY <1>5
<1> HIDE DEF j, y
<1>7. l[j] \in Nat /\ l[k] \in Nat /\ l[x] \in Nat /\ l[y] \in Nat
  BY <1>2
<1>8. CASE x <= j
  <2>1. l[x] <= l[j]
    BY <1>2, <1>8, ClimbsUp
  <2>2. QED
    BY <1>1, <1>3, <1>7, <2>1
<1>9. CASE k <= y
  <2>1. l[k] <= l[y]
    BY <1>2, <1>9, ClimbsUp
  <2>2. QED
    BY <1>1, <1>3, <1>4, <1>7, <2>1
<1>10. QED
  BY <1>6, <1>8, <1>9

-----------------------------------------------------------------------------
(* A stretch of two texts that is the same in both, and that no unit       *)
(* places.                                                                 *)
Stretch(a, b, na, nb, p, q, n) ==
  \A i \in 1..n : /\ p + i \in 1..Len(a) /\ q + i \in 1..Len(b)
                  /\ a[p + i] = b[q + i] /\ p + i \notin na /\ q + i \notin nb

(* It adds the same lines to what the page leaves out of each.             *)
LEMMA StretchOmitted ==
  ASSUME NEW a, NEW b, NEW ra, NEW rb, NEW na, NEW nb, Omits(ra, a, na), Omits(rb, b, nb),
         NEW p \in Nat, NEW q \in Nat, NEW n \in Nat, Stretch(a, b, na, nb, p, q, n),
         ra[p] = rb[q]
  PROVE  ra[p + n] = rb[q + n]
<1> DEFINE T == {i \in 0..n : ra[p + i] = rb[q + i]}
<1>1. 0 \in T
  <2>1. p + 0 = p /\ q + 0 = q /\ 0 \in 0..n
    OBVIOUS
  <2>2. QED
    BY <2>1
<1>2. \A i \in 0..n : i < n /\ i \in T => i + 1 \in T
  <2> TAKE i \in 0..n
  <2> HAVE i < n /\ i \in T
  <2> DEFINE j == i + 1
             v == p + j
             w == q + j
  <2>1. j \in 1..n /\ j \in 0..n /\ v - 1 = p + i /\ w - 1 = q + i
    OBVIOUS
  <2>2. v \in 1..Len(a) /\ w \in 1..Len(b) /\ a[v] = b[w] /\ v \notin na /\ w \notin nb
    <3> HIDE DEF j
    <3>1. QED
      BY <2>1 DEF Stretch
  <2>3. ra[p + i] = rb[q + i]
    OBVIOUS
  <2> HIDE DEF v, w
  <2>4. ra[v] = Append(ra[v - 1], a[v]) /\ rb[w] = Append(rb[w - 1], b[w])
    BY <2>2 DEF Omits
  <2>5. ra[v] = rb[w]
    BY <2>1, <2>2, <2>3, <2>4
  <2> HIDE DEF j
  <2>6. j \in T
    BY <2>1, <2>5 DEF v, w
  <2>7. QED
    BY <2>6 DEF j
<1>3. 0..n \subseteq T
  <2> HIDE DEF T
  <2>1. QED
    BY <1>1, <1>2, BoundedInduction
<1>4. n \in 0..n
  OBVIOUS
<1>5. n \in T
  <2> HIDE DEF T
  <2>1. QED
    BY <1>3, <1>4
<1>6. QED
  BY <1>5

(* A unit moves on by one line in a text it has a line of.                 *)
LEMMA MovesOne ==
  ASSUME NEW u, NEW a, NEW b, NEW p, NEW q, NEW x, NEW y, Moves(u, a, b, p, q, x, y)
  PROVE  /\ p <= x /\ q <= y
         /\ u.kind \in LeftKinds => x = p + 1
         /\ u.kind \notin LeftKinds /\ u.kind # "skip" => x = p
         /\ u.kind \in RightKinds => y = q + 1
         /\ u.kind \notin RightKinds /\ u.kind # "skip" => y = q
BY DEF Moves, LeftKinds, RightKinds

(* A diff goes over the lines of both texts, one side at a time.           *)
LEMMA StepsClimb ==
  ASSUME NEW us, NEW a, NEW b, NEW N \in Nat, Len(us) = N, NEW l \in [0..N -> Nat],
         NEW r \in [0..N -> Nat], Steps(us, a, b, l, r)
  PROVE  Climbs(us, l, LeftKinds) /\ Climbs(us, r, RightKinds)
<1>1. \A k \in 1..N : Moves(us[k], a, b, l[k - 1], r[k - 1], l[k], r[k])
  BY DEF Steps
<1>2. ASSUME NEW k \in 1..N
      PROVE  /\ l[k - 1] <= l[k] /\ r[k - 1] <= r[k]
             /\ us[k].kind \in LeftKinds => l[k] = l[k - 1] + 1
             /\ us[k].kind \notin LeftKinds /\ us[k].kind # "skip" => l[k] = l[k - 1]
             /\ us[k].kind \in RightKinds => r[k] = r[k - 1] + 1
             /\ us[k].kind \notin RightKinds /\ us[k].kind # "skip" => r[k] = r[k - 1]
  <2> DEFINE j == k - 1
  <2>1. j \in 0..N /\ k \in 0..N
    OBVIOUS
  <2>2. Moves(us[k], a, b, l[j], r[j], l[k], r[k])
    BY <1>1
  <2> HIDE DEF j
  <2>3. l[j] \in Nat /\ r[j] \in Nat /\ l[k] \in Nat /\ r[k] \in Nat
    BY <2>1
  <2>4. /\ l[j] <= l[k] /\ r[j] <= r[k]
        /\ us[k].kind \in LeftKinds => l[k] = l[j] + 1
        /\ us[k].kind \notin LeftKinds /\ us[k].kind # "skip" => l[k] = l[j]
        /\ us[k].kind \in RightKinds => r[k] = r[j] + 1
        /\ us[k].kind \notin RightKinds /\ us[k].kind # "skip" => r[k] = r[j]
    BY ONLY <2>2, MovesOne
  <2>5. QED
    BY <2>4 DEF j
<1>3. QED
  BY <1>2 DEF Climbs

(* What of two texts the units of a diff place, and what they leave out.   *)
LeavesOut(us, a, b, N, l, r, na, nb, ra, rb) ==
  /\ N \in Nat /\ Len(us) = N /\ l \in [0..N -> Nat] /\ r \in [0..N -> Nat]
  /\ Steps(us, a, b, l, r) /\ l[0] = 0 /\ r[0] = 0
  /\ na = SeenTo(us, l, N, LeftKinds) /\ nb = SeenTo(us, r, N, RightKinds)
  /\ Omits(ra, a, na) /\ Omits(rb, b, nb)

EndAlike(N, l, r, ra, rb) == ra[l[N]] = rb[r[N]]

(* What the page leaves out is the same on both sides.                     *)
LEMMA LeftOutAlike ==
  ASSUME NEW us, NEW a, NEW b, NEW N, NEW l, NEW r, NEW na, NEW nb, NEW ra, NEW rb,
         LeavesOut(us, a, b, N, l, r, na, nb, ra, rb)
  PROVE  EndAlike(N, l, r, ra, rb)
<1> USE DEF LeavesOut, EndAlike
<1> DEFINE T == {k \in 0..N : ra[l[k]] = rb[r[k]]}
<1>1. Climbs(us, l, LeftKinds) /\ Climbs(us, r, RightKinds)
  BY StepsClimb
<1>2. 0 \in T
  BY DEF Omits
<1>3. \A k \in 0..N : k < N /\ k \in T => k + 1 \in T
  <2> TAKE k \in 0..N
  <2> HAVE k < N /\ k \in T
  <2> DEFINE j == k + 1
             p == l[k]
             q == r[k]
             x == l[j]
             y == r[j]
             u == us[j]
  <2>1. j \in 1..N /\ j \in 0..N /\ j - 1 = k
    OBVIOUS
  <2> HIDE DEF j
  <2>2. Moves(u, a, b, p, q, x, y)
    BY <2>1 DEF Steps
  <2>3. p \in Nat /\ q \in Nat /\ x \in Nat /\ y \in Nat /\ ra[p] = rb[q]
    BY <2>1
  <2>4. /\ u.kind \in LeftKinds => x \in na
        /\ u.kind \in RightKinds => y \in nb
    BY <2>1 DEF SeenTo
  <2>5. ASSUME u.kind = "skip"
        PROVE  \A v \in Nat : (p < v /\ v <= x => v \notin na) /\ (q < v /\ v <= y => v \notin nb)
    <3> TAKE v \in Nat
    <3>1. "skip" \notin LeftKinds /\ "skip" \notin RightKinds
      BY DEF LeftKinds, RightKinds
    <3>2. us[j].kind = "skip" /\ l[j - 1] = p /\ r[j - 1] = q
      BY <2>1, <2>5
    <3>3. p < v /\ v <= x => v \notin na
      BY <1>1, <2>1, <3>1, <3>2, SkippedUnseen
    <3>4. q < v /\ v <= y => v \notin nb
      BY <1>1, <2>1, <3>1, <3>2, SkippedUnseen
    <3>5. QED
      BY <3>3, <3>4
  <2> HIDE DEF p, q, x, y, u
  <2>6. ra[x] = rb[y]
    <3>1. CASE u.kind = "skip"
      <4>1. /\ u.n \in Nat /\ x = p + u.n /\ y = q + u.n /\ x <= Len(a) /\ y <= Len(b)
            /\ \A i \in 1..u.n : a[p + i] = b[q + i]
        BY <2>2, <2>3, <3>1, SMTT(60) DEF Moves
      <4> DEFINE n == u.n
      <4>3. n \in Nat /\ x = p + n /\ y = q + n
        BY <4>1
      <4> HIDE DEF n
      <4>2. \A i \in 1..n : /\ p + i \in Nat /\ p < p + i /\ p + i <= x
                            /\ q + i \in Nat /\ q < q + i /\ q + i <= y
        BY <2>3, <4>3
      <4>4. ASSUME NEW i \in 1..n
            PROVE  /\ p + i \in 1..Len(a) /\ q + i \in 1..Len(b)
                   /\ a[p + i] = b[q + i] /\ p + i \notin na /\ q + i \notin nb
        <5>1. /\ p + i \in Nat /\ p < p + i /\ p + i <= x /\ q + i \in Nat /\ q < q + i /\ q + i <= y
              /\ x <= Len(a) /\ y <= Len(b) /\ a[p + i] = b[q + i]
          BY <4>1, <4>2 DEF n
        <5>2. p + i \notin na /\ q + i \notin nb
          BY <2>5, <3>1, <5>1
        <5>3. p + i \in 1..Len(a) /\ q + i \in 1..Len(b)
          <6>1. x \in 0..Len(a) /\ y \in 0..Len(b)
            BY <2>2 DEF Moves
          <6> DEFINE v == p + i
                     w == q + i
          <6>2. v \in Nat /\ p < v /\ v <= x /\ w \in Nat /\ q < w /\ w <= y
            BY <5>1
          <6> HIDE DEF v, w
          <6>3. v \in 1..Len(a) /\ w \in 1..Len(b)
            BY <2>3, <6>1, <6>2
          <6>4. QED
            BY <6>3 DEF v, w
        <5>4. QED
          BY <5>1, <5>2, <5>3
      <4>5. Stretch(a, b, na, nb, p, q, n)
        BY <4>4 DEF Stretch
      <4>6. n \in Nat
        BY <4>1 DEF n
      <4>7. ra[p + n] = rb[q + n]
        BY <2>3, <4>5, <4>6, StretchOmitted
      <4>8. QED
        BY <4>1, <4>7 DEF n
    <3>2. CASE u.kind # "skip"
      <4>1. /\ x \in 0..Len(a) /\ y \in 0..Len(b)
            /\ x # p => x \in 1..Len(a) /\ x - 1 = p /\ u.kind \in LeftKinds
            /\ y # q => y \in 1..Len(b) /\ y - 1 = q /\ u.kind \in RightKinds
        BY <2>2, <2>3, <3>2, SMTT(60) DEF Moves, LeftKinds, RightKinds
      <4>2. ra[x] = ra[p]
        BY <2>4, <4>1 DEF Omits
      <4>3. rb[y] = rb[q]
        BY <2>4, <4>1 DEF Omits
      <4>4. QED
        BY <2>3, <4>2, <4>3
    <3>3. QED
      BY <3>1, <3>2
  <2>7. j \in T
    BY <2>1, <2>6 DEF x, y
  <2>8. QED
    BY <2>7 DEF j
<1>4. 0..N \subseteq T
  <2> HIDE DEF T
  <2>1. QED
    BY <1>2, <1>3, BoundedInduction
<1>5. N \in 0..N
  OBVIOUS
<1>6. N \in T
  <2> HIDE DEF T
  <2>1. QED
    BY <1>4, <1>5
<1>7. QED
  BY <1>6

-----------------------------------------------------------------------------
(* b is a with its counts bumped and the lines r put in after the first m. *)
Inserted(a, b, r, m) ==
  /\ m \in 0..Len(a) /\ Len(b) = Len(a) + Len(r)
  /\ \A i \in 1..m : b[i] = BumpRuleCount(a[i])
  /\ \A i \in 1..Len(r) : b[m + i] = r[i]
  /\ \A i \in 1..Len(a) - m : b[m + Len(r) + i] = BumpRuleCount(a[m + i])

(* A line with its count bumped is a line.                                 *)
LEMMA BumpedIs ==
  ASSUME NEW X, None \in X, NEW l \in Lines(X)
  PROVE  BumpRuleCount(l) \in Lines(X)
<1>1. CASE l.tag = "header"
  <2> DEFINE c == l.n + 1
  <2>0. l.n \in Nat
    BY DEF Lines
  <2>1. c \in Nat /\ "header" \in Tags
    BY <2>0 DEF Tags
  <2> HIDE DEF c
  <2>2. Counted(c) \in Lines(X)
    BY <2>1, LineIs DEF Counted
  <2>3. QED
    BY <1>1, <2>2 DEF BumpRuleCount, c
<1>2. CASE l.tag # "header"
  BY <1>2 DEF BumpRuleCount
<1>3. QED
  BY <1>1, <1>2

(* The prediction of a new rule, whatever the text it is made on.          *)
LEMMA ExpectedIs ==
  ASSUME NEW X, None \in X, NEW a \in Seq(Lines(X)), NEW n, NEW e,
         RuleLines(n, e) \in Seq(Lines(X))
  PROVE  /\ ExpectedConfig(a, n, e) \in Seq(Lines(X))
         /\ \E m \in 0..Len(a) : Inserted(a, ExpectedConfig(a, n, e), RuleLines(n, e), m)
<1> DEFINE S == Lines(X)
           K == Len(a)
           r == RuleLines(n, e)
           bb == [i \in DOMAIN a |-> BumpRuleCount(a[i])]
           higher == {i \in DOMAIN a : OfRule(a[i]) /\ a[i].n > n}
           at == IF higher = {} THEN Len(a) + 1 ELSE Min(higher)
           m == at - 1
           p == SubSeq(bb, 1, m)
           q == SubSeq(bb, m + 1, K)
           out == p \o r \o q
<1>1. K \in Nat /\ DOMAIN a = 1..K /\ \A i \in 1..K : a[i] \in S
  OBVIOUS
<1>2. at \in 1..K + 1
  <2>1. CASE higher = {}
    BY <1>1, <2>1
  <2>2. CASE higher # {}
    <3>1. higher \subseteq Nat /\ \A i \in higher : i \in 1..K
      BY <1>1
    <3>2. at = Min(higher)
      BY <2>2
    <3> HIDE DEF higher, at
    <3>3. Min(higher) \in higher
      BY <2>2, <3>1, LeastIs
    <3>4. Min(higher) \in 1..K
      BY <3>1, <3>3
    <3>5. QED
      BY <1>1, <3>2, <3>4
  <2>3. QED
    BY <2>1, <2>2
<1> HIDE DEF at, higher
<1>3. m \in 0..K /\ at = m + 1
  BY <1>1, <1>2
<1>4. ExpectedConfig(a, n, e) = out
  BY <1>3 DEF ExpectedConfig, at, higher
<1>5. bb \in Seq(S) /\ Len(bb) = K /\ \A i \in 1..K : bb[i] = BumpRuleCount(a[i])
  <2>1. \A i \in 1..K : BumpRuleCount(a[i]) \in S
    BY <1>1, BumpedIs
  <2>2. bb = [i \in 1..K |-> BumpRuleCount(a[i])]
    BY <1>1
  <2> HIDE DEF S, K
  <2>3. QED
    BY <1>1, <2>1, <2>2
<1> HIDE DEF m, bb, S, K
<1>6. p \in Seq(S) /\ Len(p) = m /\ \A i \in 1..m : p[i] = bb[i]
  BY <1>1, <1>3, <1>5
<1>7. q \in Seq(S) /\ Len(q) = K - m /\ \A i \in 1..K - m : q[i] = bb[m + i]
  BY <1>1, <1>3, <1>5
<1>8. r \in Seq(S) /\ Len(r) \in Nat
  BY DEF S
<1> HIDE DEF p, q, r
<1>9. out \in Seq(S) /\ Joined(p, r, p \o r) /\ Joined(p \o r, q, out)
  <2>1. Joined(p, r, p \o r) /\ p \o r \in Seq(S)
    BY <1>6, <1>8, JoinedIs
  <2> DEFINE pr == p \o r
  <2> HIDE DEF pr
  <2>2. Joined(pr, q, pr \o q) /\ pr \o q \in Seq(S)
    <3>1. pr \in Seq(S) /\ q \in Seq(S)
      BY <1>7, <2>1 DEF pr
    <3>2. Joined(pr, q, pr \o q)
      BY <3>1, JoinedIs
    <3>3. QED
      BY <3>1, <3>2
  <2>3. QED
    BY <2>1, <2>2 DEF pr
<1>10. /\ Len(out) = m + Len(r) + (K - m)
       /\ \A i \in 1..m : out[i] = bb[i]
       /\ \A i \in 1..Len(r) : out[m + i] = r[i]
       /\ \A i \in 1..K - m : out[m + Len(r) + i] = bb[m + i]
  <2> DEFINE pr == p \o r
             o == out
  <2>1. /\ Len(pr) = m + Len(r) /\ \A i \in 1..m : pr[i] = bb[i]
        /\ \A i \in 1..Len(r) : pr[m + i] = r[i]
    BY <1>6, <1>9 DEF Joined
  <2>2. /\ Len(o) = Len(pr) + (K - m)
        /\ \A i \in 1..Len(pr) : o[i] = pr[i]
        /\ \A i \in 1..K - m : o[Len(pr) + i] = bb[m + i]
    BY <1>7, <1>9 DEF Joined
  <2> HIDE DEF pr, o
  <2>3. m \in Nat /\ Len(r) \in Nat /\ K - m \in Nat
    BY <1>1, <1>3, <1>8
  <2>4. \A i \in 1..m : i \in 1..Len(pr)
    BY <2>1, <2>3
  <2>5. \A i \in 1..Len(r) : m + i \in 1..Len(pr)
    BY <2>1, <2>3
  <2>6. /\ Len(o) = m + Len(r) + (K - m)
        /\ \A i \in 1..m : o[i] = bb[i]
        /\ \A i \in 1..Len(r) : o[m + i] = r[i]
        /\ \A i \in 1..K - m : o[m + Len(r) + i] = bb[m + i]
    BY <2>1, <2>2, <2>4, <2>5
  <2>7. QED
    BY <2>6 DEF o
<1> HIDE DEF out
<1>11. Inserted(a, out, r, m)
  <2>1. m + Len(r) + (K - m) = K + Len(r) /\ m \in 0..K
    BY <1>1, <1>3, <1>8
  <2>2. \A i \in 1..m : i \in 1..K
    BY <1>1, <1>3
  <2>3. \A i \in 1..K - m : m + i \in 1..K
    BY <1>1, <1>3
  <2>4. QED
    BY <1>5, <1>10, <2>1, <2>2, <2>3 DEF Inserted, K
<1>12. QED
  BY <1>3, <1>4, <1>9, <1>11 DEF S, K, r

(* The texts a request's lines may carry.                                  *)
Stored == TextsOf(Entries \cup {request.entry})

(* How the two stored texts of a request differ.                           *)
LEMMA StoredTexts ==
  ASSUME History, request # None
  PROVE  /\ None \in Stored /\ old \in Seq(Lines(Stored)) /\ new \in Seq(Lines(Stored))
         /\ AddDrawn =>
              /\ RuleLines(request.plan.number, request.entry) \in Seq(Lines(Stored))
              /\ \E m \in 0..Len(old) :
                   Inserted(old, new, RuleLines(request.plan.number, request.entry), m)
         /\ ~ AddDrawn => new = LinesWithout(old, request.plan.number)
<1> DEFINE n == request.plan.number
           e == request.entry
           E == Entries \cup {e}
           X == TextsOf(E)
<1>1. n \in RuleIds /\ n \in Nat /\ table \in TablesOf(Entries)
  BY NumberIs, TableAssumption DEF History
<1>2. Texts(E, X) /\ table \in TablesOf(E) /\ None \in X
  BY <1>1, TextsAre DEF TablesOf, Texts
<1>3. old \in Seq(Lines(X))
  <2>1. Beginning(old, DisplayACL(table, omit))
    BY DEF History
  <2> HIDE DEF X, E
  <2>2. DisplayACL(table, omit) \in Seq(Lines(X))
    BY <1>2, DisplayLines
  <2>3. QED
    BY <2>1, <2>2, BeginningIs
<1>4. RuleLines(n, e) \in Seq(Lines(X))
  <2>1. e \in E \cup {Absent}
    OBVIOUS
  <2> HIDE DEF X, E, n, e
  <2>2. QED
    BY <1>1, <1>2, <2>1, RuleLinesOf DEF OfOneRule
<1>5. CASE AddDrawn
  <2>1. new = ExpectedConfig(old, n, e)
    BY <1>5, NumberIs
  <2> HIDE DEF X, E, n, e
  <2>2. new \in Seq(Lines(X)) /\ \E m \in 0..Len(old) : Inserted(old, new, RuleLines(n, e), m)
    BY <1>2, <1>3, <1>4, <2>1, ExpectedIs
  <2>3. QED
    BY <1>2, <1>3, <1>4, <1>5, <2>2 DEF X, E, n, e, Stored
<1>6. CASE ~ AddDrawn
  <2>1. new = LinesWithout(old, n)
    BY <1>6, NumberIs DEF RemoveRuleFromConfig
  <2> HIDE DEF X, E, n, e
  <2>2. new \in Seq(Lines(X))
    <3> DEFINE S == Lines(X)
    <3> HIDE DEF S
    <3>1. old \in Seq(S)
      BY <1>3 DEF S
    <3>2. PICK run \in [0..Len(old) -> Seq(S)] : LinesWithout(old, n) = run[Len(old)]
      BY <3>1, CopyRun
    <3>3. Len(old) \in 0..Len(old)
      BY <3>1
    <3>4. QED
      BY <2>1, <3>2, <3>3 DEF S
  <2>3. QED
    BY <1>2, <1>3, <1>6, <2>1, <2>2 DEF X, E, n, e, Stored
<1>7. QED
  BY <1>5, <1>6

-----------------------------------------------------------------------------
(* The rows of the page of two texts, and what they say.                   *)
PageOf(page, us, a, b, l, r, C, S) ==
  /\ page \in Seq(RowsOf(S))
  /\ Along(us, a, b, l, r, 0, 0, Len(a), Len(b))
  /\ \A i \in 1..Len(page) :
       /\ page[i].leftNo \in Nat /\ (page[i].leftNo # 0 => page[i].left = a[page[i].leftNo])
       /\ page[i].rightNo \in Nat /\ (page[i].rightNo # 0 => page[i].right = b[page[i].rightNo])
       /\ RowMarks(page[i], C)
  /\ Numbered(page, "leftNo") = SeenTo(us, l, Len(us), LeftKinds)
  /\ Numbered(page, "rightNo") = SeenTo(us, r, Len(us), RightKinds)

(* Such a page is made of the diff of two texts.                           *)
LEMMA PageMade ==
  ASSUME NEW S, NEW a \in Seq(S), NEW b \in Seq(S), NEW C,
         \A c \in 1..Len(DiffOps(a, b)) : Changed(DiffOps(a, b)[c]) => DiffOps(a, b)[c].line \in C
  PROVE  \E l, r \in [0..Len(UnifiedDiff(a, b)) -> Nat] :
           PageOf(SideBySide(UnifiedDiff(a, b)), UnifiedDiff(a, b), a, b, l, r, C, S)
<1> DEFINE us == UnifiedDiff(a, b)
           ops == DiffOps(a, b)
           page == SideBySide(us)
           N == Len(us)
<1>1. us \in Seq(Units(S)) /\ Leads(us, a, b, 0, 0, Len(a), Len(b)) /\ ChangesFrom(us, ops)
  BY UnifiedLeads
<1> HIDE DEF us, ops
<1>2. PICK l \in [0..N -> Nat], r \in [0..N -> Nat] : Along(us, a, b, l, r, 0, 0, Len(a), Len(b))
  BY <1>1 DEF Leads
<1>3. \A i \in 1..Len(us) : Changed(us[i]) => us[i].line \in C
  <2>1. \A c \in 1..Len(ops) : Changed(ops[c]) => ops[c].line \in C
    BY DEF ops
  <2>2. QED
    BY <1>1, <2>1 DEF ChangesFrom
<1>4. PICK p \in Pages(S) : SideBySide(us) = p.rows /\ Shows(p, us, a, b, l, r, C)
  BY <1>1, <1>2, <1>3, PagePlaced
<1> DEFINE x == Len(a)
           y == Len(b)
           sl == SeenTo(us, l, N, LeftKinds)
           sr == SeenTo(us, r, N, RightKinds)
<1>5. /\ page = p.rows /\ p.rows \in Seq(RowsOf(S))
      /\ PageAt(p, a, b, x, y, sl, sr) /\ MarksOnly(p, C) /\ Settled(p, x, y)
  BY <1>4 DEF Shows, Pages
<1>6. x \in Nat /\ y \in Nat
  OBVIOUS
<1> HIDE DEF page, sl, sr, x, y, N
<1>7. /\ OneSide(x, <<>>, page, "leftNo", "left", a, x, sl)
      /\ OneSide(y, <<>>, page, "rightNo", "right", b, y, sr)
  BY <1>5 DEF PageAt, Settled
<1>8. x + 1..x = {} /\ y + 1..y = {}
  BY <1>6
<1>9. Numbered(page, "leftNo") = sl /\ Numbered(page, "rightNo") = sr
  <2>1. Numbered(page, "leftNo") \cup (x + 1..x) = sl
        /\ Numbered(page, "rightNo") \cup (y + 1..y) = sr
    BY <1>7 DEF OneSide
  <2>2. QED
    BY <1>8, <2>1
<1>10. \A i \in 1..Len(page) :
         /\ page[i].leftNo \in Nat /\ (page[i].leftNo # 0 => page[i].left = a[page[i].leftNo])
         /\ page[i].rightNo \in Nat /\ (page[i].rightNo # 0 => page[i].right = b[page[i].rightNo])
  <2>1. \A i \in 1..Len(page) :
          page[i]["leftNo"] \in Nat /\ (page[i]["leftNo"] # 0 => page[i]["left"] = a[page[i]["leftNo"]])
    BY <1>7 DEF OneSide
  <2>2. \A i \in 1..Len(page) :
          page[i]["rightNo"] \in Nat
          /\ (page[i]["rightNo"] # 0 => page[i]["right"] = b[page[i]["rightNo"]])
    BY <1>7 DEF OneSide
  <2>3. QED
    BY <2>1, <2>2
<1>11. \A i \in 1..Len(page) : RowMarks(page[i], C)
  BY <1>5 DEF MarksOnly
<1>12. PageOf(page, us, a, b, l, r, C, S)
  BY <1>2, <1>5, <1>9, <1>10, <1>11 DEF PageOf, sl, sr, N
<1>13. QED
  BY <1>2, <1>12 DEF us, page, N

(* A numbered line of the page is that line of the configuration, and the  *)
(* lines the page leaves out are the same on both sides.                   *)
LEMMA PageTrue == History => PageIsTrue
<1> SUFFICES ASSUME History, rows # <<>>
             PROVE  /\ \A i \in DOMAIN rows :
                         /\ rows[i].leftNo # 0 => rows[i].left = old[rows[i].leftNo]
                         /\ rows[i].rightNo # 0 => rows[i].right = new[rows[i].rightNo]
                    /\ Unshown(old, Shown("leftNo")) = Unshown(new, Shown("rightNo"))
  BY DEF PageIsTrue
<1> DEFINE S == Lines(Stored)
           us == UnifiedDiff(old, new)
           N == Len(us)
           ops == DiffOps(old, new)
           C == {ops[c].line : c \in 1..Len(ops)}
<1>1. rows = SideBySide(us) /\ request # None
  BY DEF History
<1>2. old \in Seq(S) /\ new \in Seq(S)
  BY <1>1, StoredTexts
<1>3. \A c \in 1..Len(ops) : Changed(ops[c]) => ops[c].line \in C
  OBVIOUS
<1> HIDE DEF S, C
<1>4. PICK l \in [0..N -> Nat], r \in [0..N -> Nat] : PageOf(rows, us, old, new, l, r, C, S)
  BY <1>1, <1>2, <1>3, PageMade
<1> HIDE DEF us
<1>5. DOMAIN rows = 1..Len(rows)
  BY <1>4 DEF PageOf
<1>6. \A i \in DOMAIN rows :
        /\ rows[i].leftNo # 0 => rows[i].left = old[rows[i].leftNo]
        /\ rows[i].rightNo # 0 => rows[i].right = new[rows[i].rightNo]
  BY <1>4, <1>5 DEF PageOf
<1> DEFINE na == SeenTo(us, l, N, LeftKinds)
           nb == SeenTo(us, r, N, RightKinds)
           aa == old
           bb == new
<1>7. Shown("leftNo") = na /\ Shown("rightNo") = nb
  <2>1. Shown("leftNo") = Numbered(rows, "leftNo") /\ Shown("rightNo") = Numbered(rows, "rightNo")
    BY <1>5 DEF Shown, Numbered
  <2>2. QED
    BY <1>4, <2>1 DEF PageOf
<1> HIDE DEF aa, bb
<1>8. /\ Along(us, aa, bb, l, r, 0, 0, Len(aa), Len(bb))
      /\ aa \in Seq(S) /\ bb \in Seq(S)
  BY <1>2, <1>4 DEF PageOf, aa, bb
<1>9. N \in Nat
  <2>1. us \in Seq(Units(S))
    BY <1>2, UnifiedLeads DEF us
  <2>2. QED
    BY <2>1
<1>10. PICK ra \in [0..Len(aa) -> Seq(S)] : Omits(ra, aa, na) /\ Unshown(aa, na) = ra[Len(aa)]
  BY <1>8, OmitRun
<1>11. PICK rb \in [0..Len(bb) -> Seq(S)] : Omits(rb, bb, nb) /\ Unshown(bb, nb) = rb[Len(bb)]
  BY <1>8, OmitRun
<1>12. Steps(us, aa, bb, l, r) /\ l[0] = 0 /\ r[0] = 0 /\ l[N] = Len(aa) /\ r[N] = Len(bb)
  BY <1>8 DEF Along
<1>13. EndAlike(N, l, r, ra, rb)
  <2>1. Len(us) = N /\ na = SeenTo(us, l, N, LeftKinds) /\ nb = SeenTo(us, r, N, RightKinds)
    OBVIOUS
  <2> HIDE DEF na, nb, N
  <2>2. QED
    <3>1. l \in [0..N -> Nat] /\ r \in [0..N -> Nat] /\ Omits(ra, aa, na) /\ Omits(rb, bb, nb)
      BY <1>4, <1>10, <1>11
    <3>2. QED
      <4>1. LeavesOut(us, aa, bb, N, l, r, na, nb, ra, rb)
        BY <1>9, <1>12, <2>1, <3>1 DEF LeavesOut
      <4>2. QED
        BY ONLY <4>1, LeftOutAlike
<1>14. Unshown(aa, na) = Unshown(bb, nb)
  BY <1>10, <1>11, <1>12, <1>13 DEF EndAlike
<1>15. QED
  BY <1>6, <1>7, <1>14 DEF aa, bb

(* The same in every state of the system (sidebyside.go:34-40).            *)
THEOREM PageIsTrueHolds == Spec => []PageIsTrue
BY HistoryHolds, PageTrue, PTL

-----------------------------------------------------------------------------
(* A line of the second text that is not in the first, and its row.        *)
NewLine(a, b, j) == Len(b) \in Nat /\ j \in 1..Len(b) /\ \A i \in 1..Len(a) : a[i] # b[j]
HasRow(page, b, j) == \E i \in 1..Len(page) : page[i].rightNo = j /\ page[i].right = b[j]

(* A line of the second text that is nowhere in the first has a row.       *)
LEMMA NewLineShown ==
  ASSUME NEW page, NEW us, NEW a, NEW b, NEW l, NEW r, NEW C, NEW S,
         NEW N \in Nat, Len(us) = N, l \in [0..N -> Nat], r \in [0..N -> Nat],
         PageOf(page, us, a, b, l, r, C, S),
         NEW j, NewLine(a, b, j)
  PROVE  HasRow(page, b, j)
<1> USE DEF NewLine, HasRow
<1> DEFINE T == {k \in 0..N : j <= r[k]}
<1>1. /\ r[0] = 0 /\ r[N] = Len(b)
      /\ \A k \in 1..N : Moves(us[k], a, b, l[k - 1], r[k - 1], l[k], r[k])
  BY DEF PageOf, Along, Steps
<1>2. T \subseteq Nat /\ T # {}
  <2>1. N \in T
    BY <1>1
  <2>2. QED
    BY <2>1, SMTT(60)
<1> DEFINE k == Min(T)
<1>3. k \in T /\ \A x \in T : k <= x
  <2> HIDE DEF T
  <2>1. QED
    BY <1>2, LeastIs
<1> HIDE DEF k
<1>4. k \in 1..N /\ k - 1 \in 0..N /\ k \in 0..N /\ k - 1 \in Nat
  <2>1. k # 0
    BY <1>1, <1>3
  <2>2. QED
    BY <1>3, <2>1
<1> DEFINE u == us[k]
           m == k - 1
           p == l[m]
           q == r[m]
           x == l[k]
           y == r[k]
<1>5. p \in Nat /\ q \in Nat /\ x \in Nat /\ y \in Nat
  BY <1>4
<1>6. q < j /\ j <= y
  <2>1. j <= y
    BY <1>3
  <2>2. m \notin T
    <3>1. ~ (k <= m)
      BY <1>4
    <3> HIDE DEF m, T
    <3>2. QED
      BY <1>3, <3>1
  <2>3. ~ (j <= q)
    BY <1>4, <2>2
  <2> HIDE DEF q, y
  <2>4. QED
    BY <1>5, <2>1, <2>3
<1>7. Moves(u, a, b, p, q, x, y)
  BY <1>1, <1>4
<1>8. u.kind \in RightKinds => y \in Numbered(page, "rightNo")
  <2>1. u.kind \in RightKinds => y \in SeenTo(us, r, N, RightKinds)
    BY <1>4 DEF SeenTo
  <2> HIDE DEF u, y
  <2>2. QED
    BY <2>1 DEF PageOf
<1> HIDE DEF u, p, q, x, y, m, T
<1>9. y = j /\ u.kind \in RightKinds
  <2>1. CASE u.kind = "skip"
    <3> DEFINE i == j - q
    <3>1. u.n \in Nat /\ x = p + u.n /\ y = q + u.n /\ x <= Len(a)
          /\ \A v \in 1..u.n : a[p + v] = b[q + v]
      BY <1>7, <2>1 DEF Moves
    <3>2. i \in 1..u.n /\ q + i = j
      BY <1>5, <1>6, <3>1, SMTT(60)
    <3> HIDE DEF i
    <3>3. a[p + i] = b[j]
      BY <3>1, <3>2
    <3>4. x \in 0..Len(a)
      BY <1>7 DEF Moves
    <3> DEFINE n == u.n
               v == p + i
    <3>5. v \in 1..Len(a)
      <4>1. n \in Nat /\ x = p + n /\ i \in 1..n
        BY <3>1, <3>2
      <4> HIDE DEF n
      <4>2. v \in Nat /\ 1 <= v /\ v <= x
        BY <1>5, <4>1
      <4> HIDE DEF v
      <4>3. QED
        BY <3>4, <4>2
    <3>6. QED
      BY <3>3, <3>5
  <2>2. CASE u.kind # "skip"
    BY <1>5, <1>6, <1>7, <2>2 DEF Moves, RightKinds
  <2>3. QED
    BY <2>1, <2>2
<1>10. PICK i \in 1..Len(page) : page[i]["rightNo"] = j
  BY <1>8, <1>9 DEF Numbered
<1>11. page[i].rightNo = j /\ j # 0
  BY <1>10
<1>12. page[i].right = b[j]
  BY <1>11 DEF PageOf
<1>13. QED
  BY <1>11, <1>12

(* What was sent for a new rule.                                           *)
LEMMA WrittenAs ==
  ASSUME History, Written, form # Blank
  PROVE  /\ request # None /\ rows # <<>> /\ AddDrawn
         /\ form \in PageForms \cup OtherForms
         /\ sent = BuildRuleCmd(AddPlan) /\ ValidRuleFields(AddPlan)
         /\ request.entry # Absent /\ request.entry.body = sent
<1>1. /\ sent # None /\ sent # Refusal /\ rows # <<>> /\ request # None
      /\ sent = Command(request.plan) /\ form \in PageForms \cup OtherForms
  BY DEF History, Written
<1>2. AddDrawn
  BY <1>1 DEF History, DeleteDrawn
<1>3. /\ request.plan = AddPlan /\ ValidateForAgent(AddPlan) /\ AddPlan.op = "add"
      /\ request.entry = [body |-> BuildRuleCmd(AddPlan), comment |-> request.entry.comment]
      /\ request.entry.comment \in Marks
  BY <1>1, <1>2, NumberIs, PlanIs DEF AddDrawn, AddPlan
<1>4. sent = BuildRuleCmd(AddPlan)
  BY <1>1, <1>3 DEF Command
<1>5. ValidRuleFields(AddPlan)
  BY <1>3 DEF ValidateForAgent
<1>6. request.entry.body = sent
  BY <1>3, <1>4
<1>8. request.entry # Absent
  BY <1>1, <1>2, EntryIsThere
<1>9. QED
  BY <1>1, <1>2, <1>4, <1>5, <1>6, <1>8

(* The line of the new rule in the new configuration.                      *)
LEMMA NewLineIs ==
  ASSUME History, Written, form # Blank
  PROVE  \E j \in 1..Len(new) : /\ new[j] = Line("rule", request.plan.number, sent)
                               /\ \A i \in 1..Len(old) : old[i] # new[j]
<1> DEFINE n == request.plan.number
           e == request.entry
           r == RuleLines(n, e)
           line == Line("rule", n, sent)
<1>1. request # None /\ AddDrawn /\ e # Absent /\ e.body = sent /\ n \in RuleIds
  BY WrittenAs, NumberIs
<1>2. n \in Nat
  BY <1>1, TableAssumption
<1>3. PICK m \in 0..Len(old) : Inserted(old, new, r, m)
  BY <1>1, StoredTexts
<1>4. old \in Seq(Lines(Stored)) /\ r \in Seq(Lines(Stored)) /\ new \in Seq(Lines(Stored))
  BY <1>1, StoredTexts
<1>5. Len(r) \in Nat /\ Len(r) >= 1 /\ r[1] = line
  <2>1. e \in {e} \cup {Absent} /\ Texts({e}, TextsOf({e}))
    BY TextsAre
  <2> DEFINE E == {e}
             X == TextsOf({e})
  <2> HIDE DEF E, X, e, n
  <2>2. /\ e # Absent => /\ Len(RuleLines(n, e)) >= 1
                          /\ RuleLines(n, e)[1] = Line("rule", n, e.body)
    BY <1>2, <2>1, RuleLinesAre DEF E, X
  <2>3. QED
    BY <1>1, <1>4, <2>2
<1> DEFINE j == m + 1
<1> HIDE DEF r, e
<1>6. j \in 1..Len(new) /\ new[j] = line
  <2>1. Len(old) \in Nat /\ Len(new) = Len(old) + Len(r) /\ \A i \in 1..Len(r) : new[m + i] = r[i]
    BY <1>3, <1>4 DEF Inserted
  <2>2. 1 \in 1..Len(r)
    BY <1>5
  <2>3. QED
    BY <1>3, <1>5, <2>1, <2>2
<1>7. \A i \in 1..Len(old) : old[i] # line
  <2> SUFFICES ASSUME NEW i \in 1..Len(old), old[i] = line PROVE FALSE
    OBVIOUS
  <2>1. line.tag = "rule" /\ line.n = n
    BY DEF Line
  <2> HIDE DEF line, n
  <2>2. i \in DOMAIN old
    BY <1>4
  <2>3. line \in ToSet(old)
    BY <2>2 DEF ToSet
  <2>4. n \in RuleIDs(old)
    BY <2>1, <2>3 DEF RuleIDs, OfRule
  <2>5. n \in Occupied(table)
    BY <1>1, <2>4, DrawnOnAll
  <2>6. table[n] = Absent
    BY <1>1, AllocatedIsFree DEF n
  <2>7. QED
    BY <2>5, <2>6 DEF Occupied
<1>8. QED
  BY <1>6, <1>7

(* What the agent sends is the line the approver saw, and lets through     *)
(* what the form asked for.                                                *)
LEMMA Asked == History => WrittenIsAsked
<1> SUFFICES ASSUME History, Written, form # Blank, form \in PageForms \/ FitsThePlan(form)
             PROVE  /\ sent = AskedRule(form)
                    /\ \E i \in DOMAIN rows :
                         /\ rows[i].rightNo # 0
                         /\ rows[i].right = Line("rule", request.plan.number, sent)
  BY DEF WrittenIsAsked
<1>1. /\ request # None /\ rows # <<>> /\ form \in PageForms \cup OtherForms
      /\ sent = BuildRuleCmd(AddPlan) /\ ValidRuleFields(AddPlan)
  BY WrittenAs
<1>2. sent = AskedRule(form)
  BY <1>1, CommandIsAsked DEF AddPlan
<1>3. PICK j \in 1..Len(new) : /\ new[j] = Line("rule", request.plan.number, sent)
                               /\ \A i \in 1..Len(old) : old[i] # new[j]
  BY NewLineIs
<1> DEFINE S == Lines(Stored)
           us == UnifiedDiff(old, new)
           N == Len(us)
           ops == DiffOps(old, new)
           C == {ops[c].line : c \in 1..Len(ops)}
<1>4. rows = SideBySide(us)
  BY <1>1 DEF History
<1>5. old \in Seq(S) /\ new \in Seq(S)
  BY <1>1, StoredTexts
<1>6. \A c \in 1..Len(ops) : Changed(ops[c]) => ops[c].line \in C
  OBVIOUS
<1> HIDE DEF S, C
<1>7. PICK l \in [0..N -> Nat], r \in [0..N -> Nat] : PageOf(rows, us, old, new, l, r, C, S)
  BY <1>4, <1>5, <1>6, PageMade
<1> HIDE DEF us
<1>8. N \in Nat /\ Len(new) \in Nat
  <2>1. us \in Seq(Units(S))
    BY <1>5, UnifiedLeads DEF us
  <2>2. QED
    BY <1>5, <2>1
<1>9. HasRow(rows, new, j)
  <2>1. Len(us) = N /\ l \in [0..N -> Nat] /\ r \in [0..N -> Nat]
    BY <1>7
  <2>2. N \in Nat /\ NewLine(old, new, j) /\ PageOf(rows, us, old, new, l, r, C, S)
    BY <1>3, <1>7, <1>8 DEF NewLine
  <2> HIDE DEF N
  <2>3. QED
    BY ONLY <2>1, <2>2, NewLineShown
<1>10. DOMAIN rows = 1..Len(rows) /\ j # 0
  BY <1>7 DEF PageOf
<1>11. QED
  BY <1>2, <1>3, <1>9, <1>10 DEF HasRow

(* The same in every state of the system (render.go:13-35).                *)
THEOREM WrittenIsAskedHolds == Spec => []WrittenIsAsked
BY HistoryHolds, Asked, PTL

-----------------------------------------------------------------------------
(* A fold from the right that is defined everywhere.                       *)
SolvesDown(f, n, base, step) ==
  /\ f[{}] = base
  /\ \A s \in SUBSET (1..n) : s # {} => f[s] = step[<<f[s \ {Min(s)}], Min(s)>>]

(* Such a fold exists.                                                     *)
LEMMA FoldSolvedDown ==
  ASSUME NEW V, NEW base \in V, NEW n \in Nat, NEW step \in [V \X (1..n) -> V]
  PROVE  \E f \in [SUBSET (1..n) -> V] : SolvesDown(f, n, base, step)
<1> DEFINE pick == [s \in SUBSET (1..n) |-> Min(s)]
<1>1. \A s \in SUBSET (1..n) : pick[s] = Min(s)
  OBVIOUS
<1>2. \A s \in SUBSET (1..n) : s # {} => pick[s] \in s
  <2> TAKE s \in SUBSET (1..n)
  <2> HAVE s # {}
  <2>1. s \subseteq Nat
    OBVIOUS
  <2> HIDE DEF pick
  <2>2. QED
    BY <1>1, <2>1, LeastIs
<1> HIDE DEF pick
<1>3. PICK f \in [SUBSET (1..n) -> V] : Folds(f, n, base, step, pick)
  BY <1>2, FoldExists
<1>4. f[{}] = base
  <2>1. {} \in SUBSET (1..n)
    OBVIOUS
  <2>2. QED
    BY <1>3, <2>1 DEF Folds
<1>5. \A s \in SUBSET (1..n) : s # {} => f[s] = step[<<f[s \ {Min(s)}], Min(s)>>]
  BY <1>1, <1>3 DEF Folds
<1>6. SolvesDown(f, n, base, step)
  BY <1>4, <1>5 DEF SolvesDown
<1>7. QED
  BY <1>6

(* A fold from the right that puts one item on a stack at every index.     *)
Stacks(V) == Seq(V) \ {<<>>}
Pile(V, n, cell) == [p \in Stacks(V) \X (1..n) |-> <<cell[<<Head(p[1]), p[2]>>]>> \o p[1]]
Scans(row, n, z, cell) == row[n + 1] = z /\ \A k \in 1..n : row[k] = cell[<<row[k + 1], k>>]

(* An item on a stack.                                                     *)
LEMMA OnTop ==
  ASSUME NEW V, NEW v \in V, NEW s \in Stacks(V)
  PROVE  /\ <<v>> \o s \in Stacks(V) /\ Head(<<v>> \o s) = v
         /\ Len(<<v>> \o s) = Len(s) + 1 /\ Len(s) \in Nat
         /\ \A i \in 1..Len(s) : (<<v>> \o s)[i + 1] = s[i]
<1>1. s \in Seq(V)
  BY DEF Stacks
<1>2. <<v>> \o s \in Seq(V) /\ Len(<<v>> \o s) = Len(s) + 1 /\ (<<v>> \o s)[1] = v
  BY <1>1
<1>3. \A i \in 1..Len(s) : (<<v>> \o s)[i + 1] = s[i]
  BY <1>1
<1>4. <<v>> \o s # <<>>
  BY <1>1, <1>2
<1>5. QED
  BY <1>1, <1>2, <1>3, <1>4 DEF Stacks

(* The step of such a fold.                                                *)
LEMMA PileIs ==
  ASSUME NEW V, NEW n \in Nat, NEW cell \in [V \X (1..n) -> V]
  PROVE  /\ Pile(V, n, cell) \in [Stacks(V) \X (1..n) -> Stacks(V)]
         /\ \A s \in Stacks(V), k \in 1..n :
              /\ Head(s) \in V /\ cell[<<Head(s), k>>] \in V
              /\ Pile(V, n, cell)[<<s, k>>] = <<cell[<<Head(s), k>>]>> \o s
<1>1. \A s \in Stacks(V) : Head(s) \in V
  BY DEF Stacks
<1>2. \A s \in Stacks(V), k \in 1..n : cell[<<Head(s), k>>] \in V
  BY <1>1
<1>3. \A s \in Stacks(V), k \in 1..n : <<cell[<<Head(s), k>>]>> \o s \in Stacks(V)
  BY <1>2, OnTop
<1>4. \A p \in Stacks(V) \X (1..n) : p[1] \in Stacks(V) /\ p[2] \in 1..n
  OBVIOUS
<1>5. \A s \in Stacks(V), k \in 1..n :
        <<s, k>> \in Stacks(V) \X (1..n) /\ <<s, k>>[1] = s /\ <<s, k>>[2] = k
  OBVIOUS
<1>6. \A p \in Stacks(V) \X (1..n) : <<cell[<<Head(p[1]), p[2]>>]>> \o p[1] \in Stacks(V)
  BY <1>3, <1>4
<1>7. Pile(V, n, cell) \in [Stacks(V) \X (1..n) -> Stacks(V)]
  BY <1>6 DEF Pile
<1>8. \A s \in Stacks(V), k \in 1..n : Pile(V, n, cell)[<<s, k>>] = <<cell[<<Head(s), k>>]>> \o s
  BY <1>5 DEF Pile
<1>9. QED
  BY <1>1, <1>2, <1>7, <1>8

PutOn(V, n, cell, s, k) ==
  cell[<<Head(s), k>>] \in V /\ Pile(V, n, cell)[<<s, k>>] = <<cell[<<Head(s), k>>]>> \o s

(* What it puts on one stack.                                              *)
LEMMA PileAt ==
  ASSUME NEW V, NEW n \in Nat, NEW cell \in [V \X (1..n) -> V], NEW s \in Stacks(V), NEW k \in 1..n
  PROVE  PutOn(V, n, cell, s, k)
BY PileIs, ZenonT(60) DEF PutOn

(* The stack that is left is the row of all its items.                     *)
LEMMA StackIsRow ==
  ASSUME NEW V, NEW z \in V, NEW n \in Nat, NEW cell \in [V \X (1..n) -> V], NEW iter,
         UnrollsDown(iter, Stacks(V), n, <<z>>, Pile(V, n, cell))
  PROVE  iter[1..n] \in [1..n + 1 -> V] /\ Scans(iter[1..n], n, z, cell)
<1>1. <<z>> \in Stacks(V) /\ Head(<<z>>) = z /\ Len(<<z>>) = 1 /\ <<z>>[1] = z
  BY DEF Stacks
<1>2. Pile(V, n, cell) \in [Stacks(V) \X (1..n) -> Stacks(V)]
  BY PileIs
<1>3. PICK run \in [1..n + 1 -> Stacks(V)] : RunDownOf(run, iter, n, <<z>>, Pile(V, n, cell))
  BY <1>1, <1>2, FoldRunDown
<1>4. /\ run[n + 1] = <<z>> /\ iter[1..n] = run[1]
      /\ \A k \in 1..n : run[k] = Pile(V, n, cell)[<<run[k + 1], k>>]
  BY <1>3 DEF RunDownOf, RunsDown
<1>5. \A k \in 1..n + 1 : run[k] \in Stacks(V)
  BY <1>3
<1> DEFINE head == [k \in 1..n + 1 |-> Head(run[k])]
<1>6. head \in [1..n + 1 -> V] /\ \A k \in 1..n + 1 : head[k] = Head(run[k]) /\ head[k] \in V
  <2>1. \A s \in Stacks(V) : Head(s) \in V
    BY DEF Stacks
  <2>2. QED
    BY <1>5, <2>1
<1> HIDE DEF head
<1>7. head[n + 1] = z
  <2>1. n + 1 \in 1..n + 1
    OBVIOUS
  <2>2. QED
    BY <1>1, <1>4, <1>6, <2>1
<1>8. ASSUME NEW k \in 1..n
      PROVE  /\ head[k] = cell[<<head[k + 1], k>>]
             /\ Len(run[k]) = Len(run[k + 1]) + 1 /\ Len(run[k + 1]) \in Nat
             /\ run[k][1] = head[k]
             /\ \A i \in 1..Len(run[k + 1]) : run[k][i + 1] = run[k + 1][i]
  <2> DEFINE j == k + 1
             s == run[j]
             v == cell[<<Head(s), k>>]
  <2>1. j \in 1..n + 1 /\ k \in 1..n + 1
    OBVIOUS
  <2> HIDE DEF j
  <2>2. s \in Stacks(V) /\ head[j] = Head(s) /\ head[k] = Head(run[k])
    BY <1>5, <1>6, <2>1
  <2>3. run[k] = Pile(V, n, cell)[<<s, k>>]
    BY <1>4 DEF j
  <2> HIDE DEF s
  <2>4. Pile(V, n, cell)[<<s, k>>] = <<v>> \o s /\ v \in V
    <3>1. PutOn(V, n, cell, s, k)
      BY <2>2, PileAt
    <3>2. QED
      BY <3>1 DEF PutOn, v
  <2> HIDE DEF v
  <2>5. /\ Head(<<v>> \o s) = v /\ Len(<<v>> \o s) = Len(s) + 1 /\ Len(s) \in Nat
        /\ \A i \in 1..Len(s) : (<<v>> \o s)[i + 1] = s[i]
    BY <2>2, <2>4, OnTop
  <2>6. (<<v>> \o s)[1] = v
    BY <2>2, <2>4 DEF Stacks
  <2>7. head[k] = v /\ run[k][1] = head[k] /\ Len(run[k]) = Len(s) + 1 /\ Len(s) \in Nat
        /\ \A i \in 1..Len(s) : run[k][i + 1] = s[i]
    BY <2>2, <2>3, <2>4, <2>5, <2>6
  <2>8. v = cell[<<head[j], k>>]
    BY <2>2 DEF v
  <2>9. QED
    BY <2>7, <2>8 DEF s, j
<1> DEFINE Good(k) == Len(run[k]) = n + 2 - k /\ \A i \in 1..n + 2 - k : run[k][i] = head[k + i - 1]
           T == {d \in 0..n : Good(n + 1 - d)}
<1>9. 0 \in T
  <2>1. n + 1 - 0 = n + 1 /\ n + 2 - (n + 1) = 1 /\ \A i \in 1..1 : i = 1 /\ n + 1 + i - 1 = n + 1
    OBVIOUS
  <2>2. Good(n + 1)
    BY <1>1, <1>4, <1>7, <2>1
  <2> HIDE DEF Good
  <2>3. QED
    BY <2>1, <2>2
<1>10. \A d \in 0..n : d < n /\ d \in T => d + 1 \in T
  <2> TAKE d \in 0..n
  <2> HAVE d < n /\ d \in T
  <2> DEFINE k == n + 1 - (d + 1)
             j == k + 1
  <2>1. k \in 1..n /\ j = n + 1 - d /\ d + 1 \in 0..n /\ j \in Nat /\ k \in Nat
    BY SMTT(60)
  <2>2. Good(j)
    <3> HIDE DEF Good, j
    <3>1. QED
      BY <2>1
  <2> HIDE DEF k
  <2>3. /\ Len(run[k]) = Len(run[j]) + 1 /\ run[k][1] = head[k]
        /\ \A i \in 1..Len(run[j]) : run[k][i + 1] = run[j][i]
    BY <1>8, <2>1
  <2>4. Len(run[k]) = n + 2 - k
    BY <2>1, <2>2, <2>3
  <2>5. ASSUME NEW i \in 1..n + 2 - k PROVE run[k][i] = head[k + i - 1]
    <3>1. CASE i = 1
      <4>1. k + i - 1 = k
        BY <2>1, <3>1
      <4>2. QED
        BY <2>3, <3>1, <4>1
    <3>2. CASE i # 1
      <4> DEFINE m == i - 1
      <4>1. m \in 1..n + 2 - j /\ i = m + 1 /\ j + m - 1 = k + i - 1
        BY <2>1, <3>2
      <4>2. Len(run[j]) = n + 2 - j /\ \A x \in 1..n + 2 - j : run[j][x] = head[j + x - 1]
        BY <2>2
      <4> HIDE DEF m, j
      <4>3. run[k][m + 1] = run[j][m]
        BY <2>3, <4>1, <4>2
      <4>4. run[j][m] = head[j + m - 1]
        BY <4>1, <4>2
      <4>5. QED
        BY <4>1, <4>3, <4>4
    <3>3. QED
      BY <3>1, <3>2
  <2>6. Good(k)
    BY <2>4, <2>5
  <2> HIDE DEF Good
  <2>7. QED
    BY <2>1, <2>6 DEF k
<1>11. 0..n \subseteq T
  <2> HIDE DEF T
  <2>1. QED
    BY <1>9, <1>10, BoundedInduction
<1>12. Good(1)
  <2>1. n \in 0..n /\ n + 1 - n = 1
    OBVIOUS
  <2>2. n \in T
    <3> HIDE DEF T
    <3>1. QED
      BY <1>11, <2>1
  <2> HIDE DEF Good
  <2>3. QED
    BY <2>1, <2>2
<1>13. iter[1..n] = head
  <2> DEFINE s == run[1]
  <2>1. n + 2 - 1 = n + 1 /\ \A i \in 1..n + 1 : 1 + i - 1 = i
    OBVIOUS
  <2>2. Len(s) = n + 1 /\ \A i \in 1..n + 1 : s[i] = head[i]
    BY <1>12, <2>1
  <2>3. s \in Seq(V)
    <3>1. 1 \in 1..n + 1
      OBVIOUS
    <3>2. QED
      BY <1>5, <3>1 DEF Stacks
  <2> HIDE DEF s
  <2>4. s = [i \in 1..n + 1 |-> s[i]]
    BY <2>2, <2>3
  <2>5. head = [i \in 1..n + 1 |-> head[i]]
    BY <1>6
  <2>6. s = head
    BY <2>2, <2>4, <2>5
  <2>7. QED
    BY <1>4, <2>6 DEF s
<1>14. Scans(head, n, z, cell)
  BY <1>7, <1>8 DEF Scans
<1>15. QED
  BY <1>6, <1>13, <1>14

-----------------------------------------------------------------------------
(* A row of the table of common subsequences.                              *)
CellOf(x, below, b, h, j) ==
  IF x = b[j] THEN below[j + 1] + 1 ELSE IF below[j] >= h THEN below[j] ELSE h
IsRow(row, x, below, b) ==
  row[Len(b) + 1] = 0 /\ \A j \in 1..Len(b) : row[j] = CellOf(x, below, b, row[j + 1], j)
RowsFor(b) == [1..Len(b) + 1 -> Nat]

(* LcsRow fills it from the right.                                         *)
LEMMA LcsRowIs ==
  ASSUME NEW S, NEW b \in Seq(S), NEW x, NEW below \in RowsFor(b)
  PROVE  LcsRow(x, below, b) \in RowsFor(b) /\ IsRow(LcsRow(x, below, b), x, below, b)
<1> DEFINE N == Len(b)
           V == Stacks(Nat)
           cell == [p \in Nat \X (1..N) |-> CellOf(x, below, b, p[1], p[2])]
           step == Pile(Nat, N, cell)
           idx == [i \in DOMAIN b |-> i]
           Body(j, row) == <<CellOf(x, below, b, Head(row), j)>> \o row
           Iter(it) == it = [w \in SUBSET (1..N) |->
                               IF w = {} THEN <<0>> ELSE Body(idx[Min(w)], it[w \ {Min(w)}])]
           it == CHOOSE it : Iter(it)
<1>1. N \in Nat /\ <<0>> \in V /\ DOMAIN b = 1..N
  BY DEF Stacks
<1>2. DOMAIN idx = 1..N /\ \A k \in 1..N : idx[k] = k
  BY <1>1
<1>3. cell \in [Nat \X (1..N) -> Nat] /\ \A h \in Nat, j \in 1..N : cell[<<h, j>>] = CellOf(x, below, b, h, j)
  <2>1. \A j \in 1..N : below[j] \in Nat /\ below[j + 1] \in Nat
    BY <1>1 DEF RowsFor
  <2>2. ASSUME NEW h \in Nat, NEW j \in 1..N PROVE CellOf(x, below, b, h, j) \in Nat
    BY <2>1 DEF CellOf
  <2>3. \A p \in Nat \X (1..N) : p[1] \in Nat /\ p[2] \in 1..N
    OBVIOUS
  <2>4. \A h \in Nat, j \in 1..N : <<h, j>> \in Nat \X (1..N) /\ <<h, j>>[1] = h /\ <<h, j>>[2] = j
    OBVIOUS
  <2> HIDE DEF N
  <2>5. QED
    BY <2>2, <2>3, <2>4
<1>4. \A s \in V, k \in 1..N : step[<<s, k>>] = Body(k, s)
  <2> TAKE s \in V, k \in 1..N
  <2>1. Head(s) \in Nat
    BY DEF Stacks
  <2>2. PutOn(Nat, N, cell, s, k)
    <3> HIDE DEF cell, N
    <3>1. QED
      BY <1>1, <1>3, PileAt
  <2> HIDE DEF cell, N
  <2>3. QED
    BY <1>3, <2>1, <2>2 DEF PutOn
<1>5. LcsRow(x, below, b) = it[1..N]
  BY <1>2 DEF LcsRow, FoldRightDomain, FoldRight, MapThenFoldSet, CellOf
<1>6. step \in [V \X (1..N) -> V]
  <2> HIDE DEF cell, N
  <2>1. QED
    BY <1>1, <1>3, PileIs
<1> HIDE DEF V, N, cell, step, Body, idx
<1>7. Iter(it)
  <2>1. PICK f \in [SUBSET (1..N) -> V] : SolvesDown(f, N, <<0>>, step)
    BY <1>1, <1>6, FoldSolvedDown
  <2>2. ASSUME NEW w \in SUBSET (1..N), w # {} PROVE f[w] = Body(idx[Min(w)], f[w \ {Min(w)}])
    <3>1. Min(w) \in 1..N /\ w \ {Min(w)} \in SUBSET (1..N)
      <4>1. w \subseteq Nat
        OBVIOUS
      <4>2. Min(w) \in w
        BY <2>2, <4>1, LeastIs
      <4>3. QED
        BY <4>2
    <3>2. f[w] = step[<<f[w \ {Min(w)}], Min(w)>>]
      BY <2>1, <2>2 DEF SolvesDown
    <3>3. QED
      BY <1>2, <1>4, <3>1, <3>2
  <2>3. f = [w \in SUBSET (1..N) |-> IF w = {} THEN <<0>> ELSE Body(idx[Min(w)], f[w \ {Min(w)}])]
    BY <2>1, <2>2 DEF SolvesDown
  <2>4. QED
    BY <2>3
<1>8. UnrollsDown(it, V, N, <<0>>, step)
  <2>1. it[{}] = <<0>>
    <3>1. {} \in SUBSET (1..N)
      OBVIOUS
    <3> HIDE DEF it
    <3>2. QED
      BY <1>7, <3>1
  <2> HIDE DEF it, Iter
  <2>2. \A w \in SUBSET (1..N) :
          w # {} /\ it[w \ {Min(w)}] \in V => it[w] = step[<<it[w \ {Min(w)}], Min(w)>>]
    <3> TAKE w \in SUBSET (1..N)
    <3> HAVE w # {} /\ it[w \ {Min(w)}] \in V
    <3>1. Min(w) \in 1..N
      <4>1. w \subseteq Nat
        OBVIOUS
      <4>2. Min(w) \in w
        BY <4>1, LeastIs
      <4>3. QED
        BY <4>2
    <3>2. it[w] = Body(idx[Min(w)], it[w \ {Min(w)}])
      BY <1>7 DEF Iter
    <3>3. QED
      BY <1>2, <1>4, <3>1, <3>2
  <2>3. QED
    BY <2>1, <2>2 DEF UnrollsDown
<1> HIDE DEF it
<1>9. it[1..N] \in [1..N + 1 -> Nat] /\ Scans(it[1..N], N, 0, cell)
  <2>1. UnrollsDown(it, Stacks(Nat), N, <<0>>, Pile(Nat, N, cell)) /\ 0 \in Nat
    BY <1>8 DEF V, step
  <2>2. QED
    BY <1>1, <1>3, <2>1, StackIsRow
<1> DEFINE row == it[1..N]
<1>10. row[N + 1] = 0 /\ \A j \in 1..N : row[j] = CellOf(x, below, b, row[j + 1], j)
  <2>1. \A j \in 1..N : row[j + 1] \in Nat
    BY <1>1, <1>9
  <2> HIDE DEF row
  <2>2. row[N + 1] = 0 /\ \A j \in 1..N : row[j] = cell[<<row[j + 1], j>>]
    BY <1>9 DEF Scans, row
  <2>3. QED
    BY <1>3, <2>1, <2>2
<1> HIDE DEF row
<1>11. row \in RowsFor(b) /\ IsRow(row, x, below, b)
  BY <1>9, <1>10 DEF RowsFor, IsRow, row, N
<1>12. QED
  BY <1>5, <1>11 DEF row

(* The table of common subsequences.                                       *)
IsTable(t, a, b) ==
  /\ \A i \in 1..Len(a) + 1 : t[i] \in RowsFor(b)
  /\ \A j \in 1..Len(b) + 1 : t[Len(a) + 1][j] = 0
  /\ \A i \in 1..Len(a) : IsRow(t[i], a[i], t[i + 1], b)

(* LcsTable fills it from below.                                           *)
LEMMA LcsTableIs ==
  ASSUME NEW S, NEW a \in Seq(S), NEW b \in Seq(S)
  PROVE  IsTable(LcsTable(a, b), a, b)
<1> DEFINE M == Len(a)
           R == RowsFor(b)
           V == Stacks(R)
           zero == [j \in 1..Len(b) + 1 |-> 0]
           cell == [p \in R \X (1..M) |-> LcsRow(a[p[2]], p[1], b)]
           step == Pile(R, M, cell)
           Body(x, rows1) == <<LcsRow(x, Head(rows1), b)>> \o rows1
           Iter(it) == it = [w \in SUBSET (1..M) |->
                               IF w = {} THEN <<zero>> ELSE Body(a[Min(w)], it[w \ {Min(w)}])]
           it == CHOOSE it : Iter(it)
<1>1. M \in Nat /\ DOMAIN a = 1..M
  OBVIOUS
<1>2. zero \in R /\ <<zero>> \in V /\ \A j \in 1..Len(b) + 1 : zero[j] = 0
  <2>1. zero \in R /\ \A j \in 1..Len(b) + 1 : zero[j] = 0
    BY DEF RowsFor
  <2> HIDE DEF zero, R
  <2>2. QED
    BY <2>1 DEF Stacks
<1>3. cell \in [R \X (1..M) -> R] /\ \A h \in R, i \in 1..M : cell[<<h, i>>] = LcsRow(a[i], h, b)
  <2>1. \A h \in R : \A x : LcsRow(x, h, b) \in R
    BY LcsRowIs
  <2>2. \A p \in R \X (1..M) : p[1] \in R /\ p[2] \in 1..M
    OBVIOUS
  <2>3. \A h \in R, i \in 1..M : <<h, i>> \in R \X (1..M) /\ <<h, i>>[1] = h /\ <<h, i>>[2] = i
    OBVIOUS
  <2> HIDE DEF R, M
  <2>4. QED
    BY <2>1, <2>2, <2>3
<1>4. \A s \in V, k \in 1..M : step[<<s, k>>] = Body(a[k], s)
  <2> TAKE s \in V, k \in 1..M
  <2>1. Head(s) \in R
    <3> HIDE DEF R
    <3>1. QED
      BY DEF Stacks
  <2>2. PutOn(R, M, cell, s, k)
    <3> HIDE DEF cell, M, R
    <3>1. QED
      BY <1>1, <1>3, PileAt
  <2> HIDE DEF cell, M, R
  <2>3. QED
    BY <1>3, <2>1, <2>2 DEF PutOn
<1>5. LcsTable(a, b) = it[1..M]
  BY <1>1 DEF LcsTable, FoldRight, MapThenFoldSet
<1>6. step \in [V \X (1..M) -> V]
  <2> HIDE DEF cell, M, R
  <2>1. QED
    BY <1>1, <1>3, PileIs
<1> HIDE DEF V, M, R, cell, step, Body, zero
<1>7. Iter(it)
  <2>1. PICK f \in [SUBSET (1..M) -> V] : SolvesDown(f, M, <<zero>>, step)
    BY <1>1, <1>2, <1>6, FoldSolvedDown
  <2>2. ASSUME NEW w \in SUBSET (1..M), w # {} PROVE f[w] = Body(a[Min(w)], f[w \ {Min(w)}])
    <3>1. Min(w) \in 1..M /\ w \ {Min(w)} \in SUBSET (1..M)
      <4>1. w \subseteq Nat
        OBVIOUS
      <4>2. Min(w) \in w
        BY <2>2, <4>1, LeastIs
      <4>3. QED
        BY <4>2
    <3>2. f[w] = step[<<f[w \ {Min(w)}], Min(w)>>]
      BY <2>1, <2>2 DEF SolvesDown
    <3>3. QED
      BY <1>4, <3>1, <3>2
  <2>3. f = [w \in SUBSET (1..M) |-> IF w = {} THEN <<zero>> ELSE Body(a[Min(w)], f[w \ {Min(w)}])]
    BY <2>1, <2>2 DEF SolvesDown
  <2>4. QED
    BY <2>3
<1>8. UnrollsDown(it, V, M, <<zero>>, step)
  <2>1. it[{}] = <<zero>>
    <3>1. {} \in SUBSET (1..M)
      OBVIOUS
    <3> HIDE DEF it
    <3>2. QED
      BY <1>7, <3>1
  <2> HIDE DEF it, Iter
  <2>2. \A w \in SUBSET (1..M) :
          w # {} /\ it[w \ {Min(w)}] \in V => it[w] = step[<<it[w \ {Min(w)}], Min(w)>>]
    <3> TAKE w \in SUBSET (1..M)
    <3> HAVE w # {} /\ it[w \ {Min(w)}] \in V
    <3>1. Min(w) \in 1..M
      <4>1. w \subseteq Nat
        OBVIOUS
      <4>2. Min(w) \in w
        BY <4>1, LeastIs
      <4>3. QED
        BY <4>2
    <3>2. it[w] = Body(a[Min(w)], it[w \ {Min(w)}])
      BY <1>7 DEF Iter
    <3>3. QED
      BY <1>4, <3>1, <3>2
  <2>3. QED
    BY <2>1, <2>2 DEF UnrollsDown
<1> HIDE DEF it
<1>9. it[1..M] \in [1..M + 1 -> R] /\ Scans(it[1..M], M, zero, cell)
  <2>1. UnrollsDown(it, Stacks(R), M, <<zero>>, Pile(R, M, cell))
    BY <1>8 DEF V, step
  <2>2. QED
    BY <1>1, <1>2, <1>3, <2>1, StackIsRow
<1> DEFINE t == it[1..M]
<1>10. ASSUME NEW i \in 1..M PROVE IsRow(t[i], a[i], t[i + 1], b)
  <2> DEFINE j == i + 1
  <2>1. j \in 1..M + 1
    BY <1>1
  <2>2. t[j] \in R
    BY <1>9, <2>1
  <2>3. t[i] = cell[<<t[j], i>>]
    BY <1>9 DEF Scans
  <2> DEFINE h == t[j]
  <2> HIDE DEF t, j
  <2>4. t[i] = LcsRow(a[i], t[j], b)
    BY <1>3, <2>2, <2>3
  <2> HIDE DEF h
  <2>5. h \in RowsFor(b)
    BY <2>2 DEF h, R
  <2>6. IsRow(LcsRow(a[i], h, b), a[i], h, b)
    BY <2>5, LcsRowIs
  <2>7. QED
    BY <2>4, <2>6 DEF h, j
<1>11. t[M + 1] = zero /\ \A i \in 1..M + 1 : t[i] \in R
  BY <1>9 DEF Scans
<1> HIDE DEF t
<1>12. IsTable(t, a, b)
  BY <1>2, <1>10, <1>11 DEF IsTable, M, R
<1>13. QED
  BY <1>5, <1>12 DEF t

-----------------------------------------------------------------------------
(* c counts the lines of s, from a place on, that are not in G.            *)
Counts(c, s, G) ==
  /\ c \in [1..Len(s) + 1 -> Nat] /\ c[Len(s) + 1] = 0
  /\ \A i \in 1..Len(s) : c[i] = IF s[i] \in G THEN c[i + 1] ELSE c[i + 1] + 1

(* Two texts that are the same but for their lines in G, and share none of *)
(* those.                                                                  *)
Aligned(a, b, ca, cb, G) ==
  /\ Counts(ca, a, G) /\ Counts(cb, b, G) /\ ca[1] = cb[1]
  /\ \A i \in 1..Len(a), j \in 1..Len(b) :
       /\ a[i] = b[j] => a[i] \notin G
       /\ a[i] \notin G /\ b[j] \notin G /\ ca[i] = cb[j] => a[i] = b[j]

(* A cell of the table, against the lines that are left of either text.    *)
Fits(v, x, y) == v <= x /\ v <= y /\ (x = y => v = x)

(* A cell, what it is made from, and what is left of either text there.    *)
Cell(v, d, r, g, x, x1, y, y1, k, l, G) ==
  /\ v \in Nat /\ d \in Nat /\ r \in Nat /\ g \in Nat
  /\ x \in Nat /\ x1 \in Nat /\ y \in Nat /\ y1 \in Nat
  /\ v = IF k = l THEN g + 1 ELSE IF d >= r THEN d ELSE r
  /\ x = IF k \in G THEN x1 ELSE x1 + 1
  /\ y = IF l \in G THEN y1 ELSE y1 + 1
  /\ k = l => k \notin G
  /\ k \notin G /\ l \notin G /\ x = y => k = l
  /\ Fits(d, x1, y) /\ Fits(r, x, y1) /\ Fits(g, x1, y1)

(* One cell fits when the three it is made from do.                        *)
LEMMA CellFits ==
  ASSUME NEW v, NEW d, NEW r, NEW g, NEW x, NEW x1, NEW y, NEW y1,
         NEW k, NEW l, NEW G, Cell(v, d, r, g, x, x1, y, y1, k, l, G)
  PROVE  Fits(v, x, y)
<1> USE DEF Cell
<1>1. CASE k = l
  BY <1>1 DEF Fits
<1>2. CASE k # l
  <2>1. v <= x /\ v <= y
    BY <1>2 DEF Fits
  <2>2. ASSUME x = y PROVE v = x
    <3>1. k \in G \/ l \in G
      BY <1>2, <2>2
    <3>2. CASE k \in G
      <4>1. d = x
        BY <2>2, <3>2 DEF Fits
      <4>2. QED
        BY <1>2, <2>1, <4>1
    <3>3. CASE l \in G
      <4>1. r = x
        BY <2>2, <3>3 DEF Fits
      <4>2. QED
        BY <1>2, <2>1, <4>1
    <3>4. QED
      BY <3>1, <3>2, <3>3
  <2>3. QED
    BY <2>1, <2>2 DEF Fits
<1>3. QED
  BY <1>1, <1>2

(* The whole table fits.                                                   *)
LEMMA TableFits ==
  ASSUME NEW S, NEW a \in Seq(S), NEW b \in Seq(S), NEW t, IsTable(t, a, b),
         NEW ca, NEW cb, NEW G, Aligned(a, b, ca, cb, G)
  PROVE  \A i \in 1..Len(a) + 1, j \in 1..Len(b) + 1 : Fits(t[i][j], ca[i], cb[j])
<1> DEFINE M == Len(a)
           N == Len(b)
           At(i, j) == Fits(t[i][j], ca[i], cb[j])
           T == {k \in 0..M : \A j \in 1..N + 1 : At(M + 1 - k, j)}
<1>1. M \in Nat /\ N \in Nat
  OBVIOUS
<1>2. /\ \A i \in 1..M + 1 : ca[i] \in Nat
      /\ \A j \in 1..N + 1 : cb[j] \in Nat
      /\ \A i \in 1..M + 1, j \in 1..N + 1 : t[i][j] \in Nat
  <2>1. \A i \in 1..M + 1, j \in 1..N + 1 : t[i][j] \in Nat
    BY DEF IsTable, RowsFor
  <2>2. QED
    BY <2>1 DEF Aligned, Counts
<1>3. /\ ca[M + 1] = 0 /\ cb[N + 1] = 0
      /\ \A i \in 1..M : ca[i] = IF a[i] \in G THEN ca[i + 1] ELSE ca[i + 1] + 1
      /\ \A j \in 1..N : cb[j] = IF b[j] \in G THEN cb[j + 1] ELSE cb[j + 1] + 1
      /\ \A i \in 1..M, j \in 1..N :
           /\ a[i] = b[j] => a[i] \notin G
           /\ a[i] \notin G /\ b[j] \notin G /\ ca[i] = cb[j] => a[i] = b[j]
  BY DEF Aligned, Counts
<1>4. /\ \A j \in 1..N + 1 : t[M + 1][j] = 0
      /\ \A i \in 1..M : t[i][N + 1] = 0
      /\ \A i \in 1..M, j \in 1..N :
           t[i][j] = IF a[i] = b[j] THEN t[i + 1][j + 1] + 1
                     ELSE IF t[i + 1][j] >= t[i][j + 1] THEN t[i + 1][j] ELSE t[i][j + 1]
  BY DEF IsTable, IsRow, CellOf
<1> HIDE DEF M, N
<1>5. 0 \in T
  <2>1. M + 1 - 0 = M + 1 /\ M + 1 \in 1..M + 1
    BY <1>1
  <2>2. \A j \in 1..N + 1 : Fits(t[M + 1][j], ca[M + 1], cb[j])
    <3> TAKE j \in 1..N + 1
    <3>1. t[M + 1][j] = 0 /\ ca[M + 1] = 0 /\ cb[j] \in Nat
      BY <1>2, <1>3, <1>4
    <3>2. QED
      BY <3>1 DEF Fits
  <2>3. \A j \in 1..N + 1 : At(M + 1 - 0, j)
    BY <2>1, <2>2
  <2> HIDE DEF At
  <2>4. QED
    BY <1>1, <2>3
<1>6. \A k \in 0..M : k < M /\ k \in T => k + 1 \in T
  <2> TAKE k \in 0..M
  <2> HAVE k < M /\ k \in T
  <2> DEFINE i == M + 1 - (k + 1)
             i1 == M + 1 - k
             U == {e \in 0..N : At(i, N + 1 - e)}
  <2>1. i \in 1..M /\ i + 1 = i1 /\ i \in 1..M + 1 /\ i1 \in 1..M + 1 /\ k + 1 \in 0..M
    BY <1>1
  <2>2. \A j \in 1..N + 1 : At(i1, j)
    <3> HIDE DEF At
    <3>1. QED
      OBVIOUS
  <2> HIDE DEF i, i1
  <2>3. 0 \in U
    <3>1. N + 1 - 0 = N + 1 /\ N + 1 \in 1..N + 1 /\ 0 \in 0..N
      BY <1>1
    <3>2. t[i][N + 1] = 0 /\ cb[N + 1] = 0 /\ ca[i] \in Nat
      BY <1>2, <1>3, <1>4, <2>1
    <3>3. At(i, N + 1)
      BY <3>2 DEF Fits
    <3> HIDE DEF At
    <3>4. QED
      BY <3>1, <3>3
  <2>4. \A e \in 0..N : e < N /\ e \in U => e + 1 \in U
    <3> TAKE e \in 0..N
    <3> HAVE e < N /\ e \in U
    <3> DEFINE j == N + 1 - (e + 1)
               j1 == N + 1 - e
    <3>1. j \in 1..N /\ j + 1 = j1 /\ j \in 1..N + 1 /\ j1 \in 1..N + 1 /\ e + 1 \in 0..N
      BY <1>1
    <3>2. At(i, j1)
      <4> HIDE DEF At
      <4>1. QED
        OBVIOUS
    <3> HIDE DEF j, j1
    <3>3. At(i1, j) /\ At(i1, j1)
      BY <2>2, <3>1
    <3> DEFINE v == t[i][j]
               d == t[i1][j]
               r == t[i][j1]
               g == t[i1][j1]
               x == ca[i]
               x1 == ca[i1]
               y == cb[j]
               y1 == cb[j1]
               p == a[i]
               q == b[j]
    <3>4. /\ v \in Nat /\ d \in Nat /\ r \in Nat /\ g \in Nat
          /\ x \in Nat /\ x1 \in Nat /\ y \in Nat /\ y1 \in Nat
      BY <1>2, <2>1, <3>1
    <3>5. v = IF p = q THEN g + 1 ELSE IF d >= r THEN d ELSE r
      BY <1>4, <2>1, <3>1
    <3>6. /\ x = IF p \in G THEN x1 ELSE x1 + 1
          /\ y = IF q \in G THEN y1 ELSE y1 + 1
          /\ p = q => p \notin G
          /\ p \notin G /\ q \notin G /\ x = y => p = q
      BY <1>3, <2>1, <3>1
    <3>7. Fits(d, x1, y) /\ Fits(r, x, y1) /\ Fits(g, x1, y1)
      BY <3>2, <3>3
    <3> HIDE DEF v, d, r, g, x, x1, y, y1, p, q
    <3>c. Cell(v, d, r, g, x, x1, y, y1, p, q, G)
      BY ONLY <3>4, <3>5, <3>6, <3>7 DEF Cell
    <3>8. Fits(v, x, y)
      BY ONLY <3>c, CellFits
    <3>9. At(i, j)
      BY <3>8 DEF v, x, y
    <3> HIDE DEF At
    <3>10. QED
      BY <3>1, <3>9 DEF j
  <2>5. 0..N \subseteq U
    <3> HIDE DEF U
    <3>1. QED
      BY <1>1, <2>3, <2>4, BoundedInduction
  <2>6. \A j \in 1..N + 1 : At(i, j)
    <3> TAKE j \in 1..N + 1
    <3> DEFINE e == N + 1 - j
    <3>1. e \in 0..N /\ N + 1 - e = j
      BY <1>1
    <3> HIDE DEF e
    <3>2. e \in U
      <4> HIDE DEF U
      <4>1. QED
        BY <2>5, <3>1
    <3> HIDE DEF At
    <3>3. At(i, N + 1 - e)
      BY <3>2
    <3>4. QED
      BY <3>1, <3>3
  <2> HIDE DEF At
  <2>7. QED
    BY <2>1, <2>6 DEF i
<1>7. 0..M \subseteq T
  <2> HIDE DEF T
  <2>1. QED
    BY <1>1, <1>5, <1>6, BoundedInduction
<1>8. \A i \in 1..M + 1, j \in 1..N + 1 : At(i, j)
  <2> TAKE i \in 1..M + 1, j \in 1..N + 1
  <2> DEFINE k == M + 1 - i
  <2>1. k \in 0..M /\ M + 1 - k = i
    BY <1>1
  <2> HIDE DEF k
  <2>2. k \in T
    <3> HIDE DEF T
    <3>1. QED
      BY <1>7, <2>1
  <2> HIDE DEF At
  <2>3. At(M + 1 - k, j)
    BY <2>2
  <2>4. QED
    BY <2>1, <2>3
<1>9. QED
  BY <1>8 DEF M, N

-----------------------------------------------------------------------------
(* Where as many lines outside G are left of either text, an edit is of a  *)
(* line in G, and leaves as many of them again.                            *)
LEMMA ItemMarked ==
  ASSUME NEW S, NEW a \in Seq(S), NEW b \in Seq(S), NEW ca, NEW cb, NEW G,
         Aligned(a, b, ca, cb, G), NEW p \in Grid(a, b), p \notin GridEnd(a, b),
         ca[p[1]] = cb[p[2]]
  PROVE  /\ Changed(Items(a, b)[p]) => Items(a, b)[p].line \in G
         /\ ca[After1(a, b)[p][1]] = cb[After1(a, b)[p][2]]
<1> DEFINE M == Len(a)
           N == Len(b)
           i == p[1]
           j == p[2]
           t == LcsTable(a, b)
<1>1. M \in Nat /\ N \in Nat /\ i \in 1..M + 1 /\ j \in 1..N + 1
      /\ ~ (i = M + 1 /\ j = N + 1)
  BY DEF Grid, GridEnd
<1>2. After1(a, b)[p] = PlaceAfter(a, b, t, p) /\ Items(a, b)[p] = ItemAt(a, b, t, p)
  BY DEF After1, Items
<1>3. /\ \A l : ~ Changed(Op("equal", l))
      /\ \A l : Op("delete", l).line = l
      /\ \A l : Op("insert", l).line = l
  BY DEF Op, Changed
<1>4. /\ ca[M + 1] = 0 /\ cb[N + 1] = 0 /\ ca[i] = cb[j]
      /\ \A k \in 1..M + 1 : ca[k] \in Nat
      /\ \A k \in 1..N + 1 : cb[k] \in Nat
      /\ \A k \in 1..M : ca[k] = IF a[k] \in G THEN ca[k + 1] ELSE ca[k + 1] + 1
      /\ \A k \in 1..N : cb[k] = IF b[k] \in G THEN cb[k + 1] ELSE cb[k + 1] + 1
      /\ \A k \in 1..M, l \in 1..N :
           /\ a[k] = b[l] => a[k] \notin G
           /\ a[k] \notin G /\ b[l] \notin G /\ ca[k] = cb[l] => a[k] = b[l]
  BY DEF Aligned, Counts
<1>5. \A k \in 1..M + 1, l \in 1..N + 1 : Fits(t[k][l], ca[k], cb[l]) /\ t[k][l] \in Nat
  <2>1. IsTable(t, a, b)
    BY LcsTableIs
  <2> HIDE DEF t
  <2>2. \A k \in 1..M + 1, l \in 1..N + 1 : t[k][l] \in Nat
    BY <2>1 DEF IsTable, RowsFor
  <2>3. \A k \in 1..M + 1, l \in 1..N + 1 : Fits(t[k][l], ca[k], cb[l])
    BY <2>1, TableFits
  <2>4. QED
    BY <2>2, <2>3
<1> DEFINE i1 == i + 1
           j1 == j + 1
<1> HIDE DEF t
<1>6. CASE EqualAt(a, b, p)
  <2>1. i \in 1..M /\ j \in 1..N /\ a[i] = b[j] /\ i1 \in 1..M + 1 /\ j1 \in 1..N + 1
    BY <1>1, <1>6 DEF EqualAt
  <2>2. PlaceAfter(a, b, t, p) = <<i1, j1>> /\ ItemAt(a, b, t, p) = Op("equal", a[i])
    BY <1>6 DEF PlaceAfter, ItemAt
  <2>3. a[i] \notin G /\ ca[i] = ca[i1] + 1 /\ cb[j] = cb[j1] + 1
    BY <1>4, <2>1
  <2> HIDE DEF i1, j1
  <2>4. ca[i1] = cb[j1]
    <3>1. ca[i] = cb[j] /\ ca[i1] \in Nat /\ cb[j1] \in Nat
      BY <1>4, <2>1
    <3>2. ca[i1] + 1 = cb[j1] + 1
      BY <2>3, <3>1
    <3>3. QED
      BY ONLY <3>1, <3>2
  <2>5. QED
    BY <1>2, <1>3, <2>2, <2>4
<1>7. CASE ~ EqualAt(a, b, p) /\ DeleteAt(a, b, t, p)
  <2>1. i \in 1..M /\ i1 \in 1..M + 1
    BY <1>1, <1>7 DEF DeleteAt
  <2>2. PlaceAfter(a, b, t, p) = <<i1, j>> /\ ItemAt(a, b, t, p) = Op("delete", a[i])
    BY <1>7 DEF PlaceAfter, ItemAt
  <2>3. ca[i] = IF a[i] \in G THEN ca[i1] ELSE ca[i1] + 1
    BY <1>4, <2>1
  <2>4. a[i] \in G
    <3>1. CASE j = N + 1
      <4>1. ca[i] = 0
        BY <1>4, <3>1
      <4> HIDE DEF i, i1, j
      <4>2. QED
        BY <1>4, <2>1, <2>3, <4>1
    <3>2. CASE j # N + 1
      <4>1. j \in 1..N /\ j1 \in 1..N + 1 /\ j \in 1..N + 1
        BY <1>1, <3>2
      <4>2. a[i] # b[j] /\ t[i1][j] >= t[i][j1]
        BY <1>1, <1>7, <2>1, <4>1 DEF EqualAt, DeleteAt
      <4>3. cb[j] = IF b[j] \in G THEN cb[j1] ELSE cb[j1] + 1
        BY <1>4, <4>1
      <4>4. /\ Fits(t[i1][j], ca[i1], cb[j]) /\ Fits(t[i][j1], ca[i], cb[j1])
            /\ t[i1][j] \in Nat /\ t[i][j1] \in Nat /\ ca[i] \in Nat /\ ca[i1] \in Nat
        BY <1>1, <1>4, <1>5, <2>1, <4>1
      <4>5. a[i] \notin G => b[j] \in G
        BY <1>4, <2>1, <4>1, <4>2
      <4> HIDE DEF i, i1, j, j1
      <4>6. QED
        <5> SUFFICES ASSUME a[i] \notin G PROVE FALSE
          OBVIOUS
        <5>1. ca[i] = cb[j1] /\ ca[i] = ca[i1] + 1
          BY <1>4, <2>3, <4>3, <4>5
        <5>2. t[i][j1] = ca[i] /\ t[i1][j] <= ca[i1]
          BY <4>4, <5>1 DEF Fits
        <5>3. QED
          BY <4>2, <4>4, <5>1, <5>2
    <3>3. QED
      BY <3>1, <3>2
  <2> HIDE DEF i, j, i1, j1
  <2>5. ca[i1] = cb[j]
    BY <1>4, <2>3, <2>4
  <2>6. QED
    BY <1>2, <1>3, <2>2, <2>4, <2>5
<1>8. CASE ~ EqualAt(a, b, p) /\ ~ DeleteAt(a, b, t, p)
  <2>1. j \in 1..N /\ j1 \in 1..N + 1
    BY <1>1, <1>8 DEF DeleteAt
  <2>2. PlaceAfter(a, b, t, p) = <<i, j1>> /\ ItemAt(a, b, t, p) = Op("insert", b[j])
    BY <1>8 DEF PlaceAfter, ItemAt
  <2>3. cb[j] = IF b[j] \in G THEN cb[j1] ELSE cb[j1] + 1
    BY <1>4, <2>1
  <2>4. b[j] \in G
    <3>1. CASE i = M + 1
      <4>1. cb[j] = 0
        BY <1>4, <3>1
      <4> HIDE DEF i, j, j1
      <4>2. QED
        BY <1>4, <2>1, <2>3, <4>1
    <3>2. CASE i # M + 1
      <4>1. i \in 1..M /\ i1 \in 1..M + 1 /\ i \in 1..M + 1
        BY <1>1, <3>2
      <4>2. a[i] # b[j] /\ ~ (t[i1][j] >= t[i][j1])
        BY <1>1, <1>8, <2>1, <4>1 DEF EqualAt, DeleteAt
      <4>3. ca[i] = IF a[i] \in G THEN ca[i1] ELSE ca[i1] + 1
        BY <1>4, <4>1
      <4>4. /\ Fits(t[i1][j], ca[i1], cb[j]) /\ Fits(t[i][j1], ca[i], cb[j1])
            /\ t[i1][j] \in Nat /\ t[i][j1] \in Nat /\ cb[j] \in Nat /\ cb[j1] \in Nat
        BY <1>1, <1>4, <1>5, <2>1, <4>1
      <4>5. b[j] \notin G => a[i] \in G
        BY <1>4, <2>1, <4>1, <4>2
      <4> HIDE DEF i, i1, j, j1
      <4>6. QED
        <5> SUFFICES ASSUME b[j] \notin G PROVE FALSE
          OBVIOUS
        <5>1. cb[j] = ca[i1] /\ cb[j] = cb[j1] + 1
          BY <1>4, <2>3, <4>3, <4>5
        <5>2. t[i1][j] = cb[j] /\ t[i][j1] <= cb[j1]
          BY <4>4, <5>1 DEF Fits
        <5>3. QED
          BY <4>2, <4>4, <5>1, <5>2
    <3>3. QED
      BY <3>1, <3>2
  <2> HIDE DEF i, j, i1, j1
  <2>5. ca[i] = cb[j1]
    BY <1>4, <2>3, <2>4
  <2>6. QED
    BY <1>2, <1>3, <2>2, <2>4, <2>5
<1>9. QED
  BY <1>6, <1>7, <1>8

(* So an edit script only edits lines in G.                                *)
LEMMA DiffMarked ==
  ASSUME NEW S, NEW a \in Seq(S), NEW b \in Seq(S), NEW ca, NEW cb, NEW G,
         Aligned(a, b, ca, cb, G)
  PROVE  \A c \in 1..Len(DiffOps(a, b)) : Changed(DiffOps(a, b)[c]) => DiffOps(a, b)[c].line \in G
<1> DEFINE M == Len(a)
           N == Len(b)
           R == Grid(a, b)
           End == GridEnd(a, b)
           item == Items(a, b)
           next == After1(a, b)
           U == OpsOf(S)
           Good(s) == \A c \in 1..Len(s) : Changed(s[c]) => s[c].line \in G
<1>1. M \in Nat /\ N \in Nat
  OBVIOUS
<1>2. PICK f : Walks(f, R, End, item, next) /\ DiffOps(a, b) = f[<<1, 1>>]
  BY DiffWalk
<1> DEFINE T == {p \in R : f[p] \in Seq(U) /\ (ca[p[1]] = cb[p[2]] => Good(f[p]))}
<1>3. M + N \in Nat /\ Left(a, b) \in [R -> 0..M + N] /\ Descends(R, End, next, Left(a, b))
      /\ \A p \in R : p \notin End => item[p] \in U
  BY <1>1, GridDescends
<1>4. \A p \in R : p \in End \/ next[p] \in T => p \in T
  <2> TAKE p \in R
  <2>1. CASE p \in End
    <3>1. f[p] = <<>>
      BY <1>2, <2>1 DEF Walks
    <3>2. f[p] \in Seq(U)
      <4> HIDE DEF U
      <4>1. QED
        BY <3>1
    <3>3. Good(<<>>)
      <4>1. Len(<<>>) = 0 /\ 1..0 = {}
        OBVIOUS
      <4>2. QED
        BY <4>1
    <3> HIDE DEF Good, R, U
    <3>4. QED
      BY <3>1, <3>2, <3>3
  <2>2. CASE p \notin End /\ next[p] \in T
    <3> DEFINE q == next[p]
               rest == f[q]
               u == item[p]
               all == <<u>> \o rest
    <3>1. f[p] = all
      BY <1>2, <2>2 DEF Walks
    <3>2. u \in U /\ rest \in Seq(U) /\ (ca[q[1]] = cb[q[2]] => Good(rest))
      <4> HIDE DEF U, Good
      <4>1. QED
        BY <1>3, <2>2
    <3>3. ca[p[1]] = cb[p[2]] => (Changed(u) => u.line \in G) /\ ca[q[1]] = cb[q[2]]
      BY <2>2, ItemMarked
    <3> HIDE DEF rest, u, U
    <3>4. /\ all \in Seq(U) /\ Len(rest) \in Nat /\ Len(all) = Len(rest) + 1 /\ all[1] = u
          /\ \A k \in 2..Len(rest) + 1 : all[k] = rest[k - 1]
      BY <3>2
    <3> HIDE DEF q, M, N, item, next, End, R, all
    <3>5. ASSUME ca[p[1]] = cb[p[2]] PROVE Good(all)
      <4>1. (Changed(u) => u.line \in G) /\ Good(rest)
        <5> HIDE DEF Good
        <5>1. QED
          BY <3>2, <3>3, <3>5
      <4> SUFFICES ASSUME NEW c \in 1..Len(all) PROVE Changed(all[c]) => all[c].line \in G
        OBVIOUS
      <4>2. CASE c = 1
        BY <3>4, <4>1, <4>2
      <4>3. CASE c # 1
        <5> DEFINE k == c - 1
        <5>1. k \in 1..Len(rest) /\ c \in 2..Len(rest) + 1
          BY <3>4, <4>3
        <5>2. all[c] = rest[k]
          BY <3>4, <5>1
        <5> HIDE DEF k
        <5>3. QED
          BY <4>1, <5>1, <5>2
      <4>4. QED
        BY <4>2, <4>3
    <3>6. f[p] \in Seq(U)
      BY <3>1, <3>4
    <3> HIDE DEF Good
    <3>7. ca[p[1]] = cb[p[2]] => Good(f[p])
      BY <3>1, <3>5
    <3>8. QED
      BY <3>6, <3>7
  <2>3. QED
    BY <2>1, <2>2
<1>5. R \subseteq T
  <2> HIDE DEF M, N, R, End, item, next, U, T
  <2>1. QED
    BY <1>3, <1>4, WalkInduction
<1>6. <<1, 1>> \in R /\ <<1, 1>>[1] = 1 /\ <<1, 1>>[2] = 1
  BY <1>1 DEF Grid
<1>7. ca[1] = cb[1]
  BY DEF Aligned
<1> DEFINE one == <<1, 1>>
<1>8. Good(f[one])
  <2>1. one \in T /\ one[1] = 1 /\ one[2] = 1
    BY <1>5, <1>6
  <2> HIDE DEF one, M, N, U, R, Good
  <2>2. QED
    BY <1>7, <2>1
<1>9. QED
  BY <1>2, <1>8

-----------------------------------------------------------------------------
(* A text that another one begins with.                                    *)
Opens(s, u) == Len(s) <= Len(u) /\ \A x \in 1..Len(s) : u[x] = s[x]

(* Every text the copying loop passes is how the copy begins, and has no   *)
(* line of the rule.                                                       *)
LEMMA CopyOpens ==
  ASSUME NEW S, NEW s \in Seq(S), NEW n, NEW run \in [0..Len(s) -> Seq(S)], Copies(run, s, n)
  PROVE  \A k \in 0..Len(s) :
           /\ Opens(run[k], run[Len(s)])
           /\ \A x \in 1..Len(run[k]) : ~ (OfRule(run[k][x]) /\ run[k][x].n = n)
<1> DEFINE M == Len(s)
           Of(l) == OfRule(l) /\ l.n = n
           T == {e \in 0..M : Opens(run[M - e], run[M])}
           U == {k \in 0..M : \A x \in 1..Len(run[k]) : ~ Of(run[k][x])}
<1>1. M \in Nat /\ \A k \in 0..M : run[k] \in Seq(S)
  OBVIOUS
<1>2. run[0] = <<>>
  BY DEF Copies
<1>3. ASSUME NEW i \in 1..M, NEW j, j = i - 1
      PROVE  /\ j \in 0..M /\ i \in 0..M
             /\ run[i] = IF Of(s[i]) THEN run[j] ELSE Append(run[j], s[i])
             /\ Opens(run[j], run[i])
  <2>1. j \in 0..M /\ i \in 0..M /\ s[i] \in S
    BY <1>1, <1>3
  <2>2. run[i] = IF Of(s[i]) THEN run[j] ELSE Append(run[j], s[i])
    BY <1>3 DEF Copies
  <2>3. run[j] \in Seq(S)
    BY <1>1, <2>1
  <2> DEFINE p == run[j]
             q == run[i]
  <2> HIDE DEF p, q, Of
  <2>4. Opens(p, q)
    <3>1. p \in Seq(S) /\ q = IF Of(s[i]) THEN p ELSE Append(p, s[i])
      BY <2>2, <2>3 DEF p, q
    <3>2. QED
      BY <2>1, <3>1 DEF Opens
  <2>5. QED
    BY <2>1, <2>2, <2>4 DEF p, q
<1> HIDE DEF M, Of
<1>4. 0 \in T
  <2>1. M - 0 = M /\ 0 \in 0..M /\ M \in 0..M
    BY <1>1
  <2>2. Opens(run[M], run[M])
    <3>1. run[M] \in Seq(S)
      BY <1>1, <2>1
    <3>2. QED
      BY <3>1 DEF Opens
  <2>3. QED
    BY <2>1, <2>2
<1>5. \A e \in 0..M : e < M /\ e \in T => e + 1 \in T
  <2> TAKE e \in 0..M
  <2> HAVE e < M /\ e \in T
  <2> DEFINE i == M - e
             j == M - (e + 1)
             p == run[j]
             q == run[i]
             z == run[M]
  <2>1. i \in 1..M /\ j = i - 1 /\ e + 1 \in 0..M /\ i \in 0..M /\ M \in 0..M
    BY <1>1
  <2>2. Opens(q, z)
    OBVIOUS
  <2> HIDE DEF i, j
  <2>3. Opens(p, q) /\ j \in 0..M
    BY <1>3, <2>1
  <2>4. p \in Seq(S) /\ q \in Seq(S) /\ z \in Seq(S)
    BY <1>1, <2>1, <2>3
  <2> HIDE DEF p, q, z
  <2>5. Opens(p, z)
    BY <2>2, <2>3, <2>4 DEF Opens
  <2>6. QED
    BY <2>1, <2>5 DEF p, z, j
<1>6. 0..M \subseteq T
  <2> HIDE DEF T
  <2>1. QED
    BY <1>1, <1>4, <1>5, BoundedInduction
<1>7. 0 \in U
  <2>1. Len(<<>>) = 0 /\ 1..0 = {} /\ 0 \in 0..M
    BY <1>1
  <2>2. QED
    BY <1>2, <2>1
<1>8. \A k \in 0..M : k < M /\ k \in U => k + 1 \in U
  <2> TAKE k \in 0..M
  <2> HAVE k < M /\ k \in U
  <2> DEFINE i == k + 1
             p == run[k]
             q == run[i]
  <2>1. i \in 1..M /\ k = i - 1 /\ i \in 0..M
    BY <1>1
  <2>2. \A x \in 1..Len(p) : ~ Of(p[x])
    OBVIOUS
  <2> HIDE DEF i
  <2>3. p \in Seq(S) /\ q = (IF Of(s[i]) THEN p ELSE Append(p, s[i])) /\ s[i] \in S
    <3>1. p \in Seq(S) /\ s[i] \in S
      BY <1>1, <2>1 DEF M
    <3>2. q = IF Of(s[i]) THEN p ELSE Append(p, s[i])
      BY <1>3, <2>1
    <3>3. QED
      BY <3>1, <3>2
  <2> HIDE DEF p, q
  <2>4. \A x \in 1..Len(q) : ~ Of(q[x])
    BY <2>2, <2>3
  <2>5. i \in U
    BY <2>1, <2>4 DEF q
  <2>6. QED
    BY <2>5 DEF i
<1>9. 0..M \subseteq U
  <2> HIDE DEF U
  <2>1. QED
    BY <1>1, <1>7, <1>8, BoundedInduction
<1>10. ASSUME NEW k \in 0..M
       PROVE  Opens(run[k], run[M]) /\ \A x \in 1..Len(run[k]) : ~ Of(run[k][x])
  <2> DEFINE e == M - k
  <2>1. e \in 0..M /\ M - e = k
    BY <1>1
  <2> HIDE DEF e
  <2>2. e \in T /\ k \in U
    <3> HIDE DEF T, U
    <3>1. QED
      BY <1>6, <1>9, <2>1
  <2>3. QED
    BY <2>1, <2>2
<1>11. QED
  BY <1>10 DEF M, Of

(* A text without the lines of a rule is the same but for those lines.     *)
LEMMA WithoutAligned ==
  ASSUME NEW S, NEW s \in Seq(S), NEW n, NEW G,
         \A i \in 1..Len(s) : s[i] \in G <=> OfRule(s[i]) /\ s[i].n = n,
         \A l \in G : OfRule(l) /\ l.n = n
  PROVE  \E ca, cb : Aligned(s, LinesWithout(s, n), ca, cb, G)
<1> DEFINE M == Len(s)
           b == LinesWithout(s, n)
           N == Len(b)
<1>1. PICK run \in [0..M -> Seq(S)] : Copies(run, s, n) /\ b = run[M]
  BY CopyRun
<1>2. M \in Nat /\ M \in 0..M /\ \A k \in 0..M : run[k] \in Seq(S)
  BY <1>1
<1>3. b \in Seq(S) /\ N \in Nat
  BY <1>1, <1>2
<1>4. \A k \in 0..M : Opens(run[k], b)
  BY <1>1, CopyOpens, SMTT(60)
<1>5. \A x \in 1..N : b[x] \notin G
  <2>1. \A x \in 1..Len(run[M]) : ~ (OfRule(run[M][x]) /\ run[M][x].n = n)
    BY <1>1, <1>2, CopyOpens, SMTT(60)
  <2>2. QED
    BY <1>1, <2>1
<1> DEFINE ca == [i \in 1..M + 1 |-> N - Len(run[i - 1])]
           cb == [j \in 1..N + 1 |-> N + 1 - j]
<1> HIDE DEF b, N, M
<1>6. \A k \in 0..M : Len(run[k]) \in 0..N
  <2> TAKE k \in 0..M
  <2>1. Len(run[k]) \in Nat /\ Len(run[k]) <= N
    BY <1>2, <1>4 DEF Opens, N
  <2>2. QED
    BY <1>3, <2>1
<1>7. /\ ca \in [1..M + 1 -> Nat]
      /\ \A i \in 1..M + 1 : i - 1 \in 0..M /\ ca[i] = N - Len(run[i - 1])
  <2>1. \A i \in 1..M + 1 : i - 1 \in 0..M
    BY <1>2
  <2>2. \A k \in 0..M : N - Len(run[k]) \in Nat
    BY <1>3, <1>6
  <2>3. QED
    BY <2>1, <2>2
<1>8. cb \in [1..N + 1 -> Nat] /\ \A j \in 1..N + 1 : cb[j] = N + 1 - j
  BY <1>3
<1> HIDE DEF ca, cb
<1>9. ASSUME NEW i \in 1..M
      PROVE  /\ ca[i] = IF s[i] \in G THEN ca[i + 1] ELSE ca[i + 1] + 1
             /\ s[i] \notin G => /\ Len(run[i]) = N - ca[i] + 1
                                 /\ Len(run[i]) \in 1..N /\ b[Len(run[i])] = s[i]
  <2> DEFINE j == i - 1
             d == i + 1
             p == run[j]
             q == run[i]
  <2>1. j \in 0..M /\ i \in 0..M /\ i \in 1..M + 1 /\ d \in 1..M + 1 /\ d - 1 = i
    BY <1>2
  <2>2. ca[i] = N - Len(p) /\ ca[d] = N - Len(q)
    <3> HIDE DEF d
    <3>1. QED
      BY <1>7, <2>1
  <2>3. q = IF OfRule(s[i]) /\ s[i].n = n THEN p ELSE Append(p, s[i])
    BY <1>1 DEF Copies, M
  <2>4. s[i] \in G <=> OfRule(s[i]) /\ s[i].n = n
    BY DEF M
  <2>5. q = IF s[i] \in G THEN p ELSE Append(p, s[i])
    BY <2>3, <2>4
  <2> HIDE DEF j
  <2>6. p \in Seq(S) /\ q \in Seq(S) /\ Len(p) \in 0..N /\ Len(q) \in 0..N /\ Opens(q, b) /\ s[i] \in S
    BY <1>2, <1>4, <1>6, <2>1 DEF M
  <2> HIDE DEF p, q, d
  <2>7. s[i] \notin G => Len(q) = Len(p) + 1 /\ q[Len(q)] = s[i]
    BY <2>5, <2>6
  <2>8. ca[i] = IF s[i] \in G THEN ca[d] ELSE ca[d] + 1
    BY <1>3, <2>2, <2>5, <2>6, <2>7
  <2>9. s[i] \notin G => Len(q) = N - ca[i] + 1 /\ Len(q) \in 1..N
    BY <1>3, <2>2, <2>6, <2>7
  <2>10. s[i] \notin G => b[Len(q)] = s[i]
    <3>1. s[i] \notin G => Len(q) \in 1..Len(q)
      BY <2>9
    <3>2. QED
      BY <2>6, <2>7, <3>1 DEF Opens
  <2>11. QED
    BY <2>8, <2>9, <2>10 DEF q, d
<1>10. Counts(ca, s, G)
  <2>1. ca[M + 1] = 0
    <3> DEFINE d == M + 1
               z == Len(run[M])
    <3>1. d \in 1..M + 1 /\ d - 1 = M /\ z = N
      BY <1>1, <1>2 DEF N
    <3> HIDE DEF d
    <3>2. ca[d] = N - z
      BY <1>7, <3>1
    <3>3. ca[d] = 0
      BY <1>3, <3>1, <3>2
    <3>4. QED
      BY <3>3 DEF d
  <2>2. QED
    BY <1>7, <1>9, <2>1 DEF Counts, M
<1>11. Counts(cb, b, G)
  <2>1. cb[N + 1] = 0
    BY <1>3, <1>8
  <2>2. ASSUME NEW j \in 1..N PROVE cb[j] = cb[j + 1] + 1
    <3> DEFINE d == j + 1
    <3>1. d \in 1..N + 1 /\ j \in 1..N + 1
      BY <1>3
    <3>2. cb[d] = N + 1 - d /\ cb[j] = N + 1 - j
      BY <1>8, <3>1
    <3>3. QED
      BY <1>3, <3>2
  <2>3. QED
    BY <1>5, <1>8, <2>1, <2>2 DEF Counts, N
<1>12. ca[1] = cb[1]
  <2>1. 1 \in 1..M + 1 /\ 1 \in 1..N + 1 /\ 1 - 1 = 0
    BY <1>2, <1>3
  <2> DEFINE z == Len(run[0])
             v == ca[1]
             w == cb[1]
  <2>2. z = 0
    BY <1>1 DEF Copies
  <2>3. v = N - z
    BY <1>7, <2>1
  <2>4. w = N + 1 - 1
    BY <1>8, <2>1
  <2> HIDE DEF v, w, z
  <2>5. v = w
    BY <1>3, <2>2, <2>3, <2>4
  <2>6. QED
    BY <2>5 DEF v, w
<1>13. \A i \in 1..M, j \in 1..N :
         /\ s[i] = b[j] => s[i] \notin G
         /\ s[i] \notin G /\ b[j] \notin G /\ ca[i] = cb[j] => s[i] = b[j]
  <2> TAKE i \in 1..M, j \in 1..N
  <2>1. s[i] = b[j] => s[i] \notin G
    BY <1>5
  <2>2. ASSUME s[i] \notin G, ca[i] = cb[j] PROVE s[i] = b[j]
    <3>1. cb[j] = N + 1 - j
      BY <1>3, <1>8
    <3>2. Len(run[i]) = N - ca[i] + 1 /\ b[Len(run[i])] = s[i]
      BY <1>9, <2>2
    <3>3. Len(run[i]) = j
      BY <1>3, <2>2, <3>1, <3>2
    <3>4. QED
      BY <3>2, <3>3
  <2>3. QED
    BY <2>1, <2>2
<1>14. Aligned(s, b, ca, cb, G)
  BY <1>10, <1>11, <1>12, <1>13 DEF Aligned, M, N
<1>15. QED
  BY <1>14 DEF b

-----------------------------------------------------------------------------
(* There is such a count.                                                  *)
LEMMA CountsExist ==
  ASSUME NEW S, NEW s \in Seq(S), NEW G
  PROVE  \E c : Counts(c, s, G)
<1> DEFINE M == Len(s)
           W(i) == {k \in i..M : s[k] \notin G}
           c == [i \in 1..M + 1 |-> Cardinality(W(i))]
<1>1. M \in Nat
  OBVIOUS
<1> HIDE DEF M
<1>2. \A i \in 1..M + 1 : IsFiniteSet(W(i)) /\ Cardinality(W(i)) \in Nat
  <2> TAKE i \in 1..M + 1
  <2>1. W(i) \subseteq i..M /\ IsFiniteSet(i..M)
    BY <1>1, FS_Interval
  <2> HIDE DEF W
  <2>2. QED
    BY <2>1, FS_Subset, FS_CardinalityType
<1>3. ASSUME NEW i \in 1..M
      PROVE  Cardinality(W(i)) = IF s[i] \in G THEN Cardinality(W(i + 1)) ELSE Cardinality(W(i + 1)) + 1
  <2> DEFINE j == i + 1
             A == W(i)
             B == W(j)
  <2>1. j \in 1..M + 1
    BY <1>1
  <2>2. IsFiniteSet(B)
    <3> HIDE DEF W, j
    <3>1. QED
      BY <1>2, <2>1
  <2>3. A = IF s[i] \in G THEN B ELSE B \cup {i}
    BY <1>1
  <2>4. i \notin B
    BY <1>1
  <2> HIDE DEF A, B
  <2>5. Cardinality(A) = IF s[i] \in G THEN Cardinality(B) ELSE Cardinality(B) + 1
    BY <2>2, <2>3, <2>4, FS_AddElement
  <2>6. QED
    BY <2>5 DEF A, B
<1>4. Cardinality(W(M + 1)) = 0
  <2>1. W(M + 1) = {}
    BY <1>1
  <2> HIDE DEF W
  <2>2. QED
    BY <2>1, FS_EmptySet
<1> HIDE DEF W
<1>5. c \in [1..M + 1 -> Nat] /\ \A i \in 1..M + 1 : c[i] = Cardinality(W(i))
  BY <1>2
<1> HIDE DEF c
<1>6. \A i \in 1..M : c[i] = IF s[i] \in G THEN c[i + 1] ELSE c[i + 1] + 1
  <2> TAKE i \in 1..M
  <2>1. i \in 1..M + 1 /\ i + 1 \in 1..M + 1
    BY <1>1
  <2>2. c[i] = Cardinality(W(i)) /\ c[i + 1] = Cardinality(W(i + 1))
    BY <1>5, <2>1
  <2>3. QED
    BY <1>3, <2>2
<1>7. c[M + 1] = 0
  BY <1>1, <1>4, <1>5
<1>8. Counts(c, s, G)
  BY <1>5, <1>6, <1>7 DEF Counts, M
<1>9. QED
  BY <1>8

(* It never grows, so it tells the lines outside G from each other.        *)
LEMMA CountsTell ==
  ASSUME NEW S, NEW s \in Seq(S), NEW G, NEW c, Counts(c, s, G),
         NEW i \in 1..Len(s), NEW k \in 1..Len(s), s[i] \notin G, i < k
  PROVE  c[k] < c[i]
<1> DEFINE M == Len(s)
           T == {d \in 0..M - i - 1 : c[i + 1 + d] <= c[i + 1]}
<1>1. M \in Nat /\ i \in 1..M /\ k \in 1..M /\ M - i - 1 \in Nat
  OBVIOUS
<1>2. \A x \in 1..M + 1 : c[x] \in Nat
  BY DEF Counts
<1>3. \A x \in 1..M : c[x] = IF s[x] \in G THEN c[x + 1] ELSE c[x + 1] + 1
  BY DEF Counts
<1> HIDE DEF M
<1>4. 0 \in T
  <2>1. i + 1 + 0 = i + 1 /\ i + 1 \in 1..M + 1 /\ 0 \in 0..M - i - 1
    BY <1>1
  <2> DEFINE v == c[i + 1]
  <2>2. v \in Nat /\ c[i + 1 + 0] = v
    BY <1>2, <2>1
  <2> HIDE DEF v
  <2>3. v <= v
    BY <2>2
  <2>4. QED
    BY <2>1, <2>2, <2>3 DEF v
<1>5. \A d \in 0..M - i - 1 : d < M - i - 1 /\ d \in T => d + 1 \in T
  <2> TAKE d \in 0..M - i - 1
  <2> HAVE d < M - i - 1 /\ d \in T
  <2> DEFINE x == i + 1 + d
             y == i + 1 + (d + 1)
             z == i + 1
  <2>1. x \in 1..M /\ x \in 1..M + 1 /\ y \in 1..M + 1 /\ x + 1 = y /\ z \in 1..M + 1
        /\ d + 1 \in 0..M - i - 1
    BY <1>1
  <2>2. c[x] <= c[z]
    OBVIOUS
  <2> HIDE DEF x, y, z
  <2>3. c[x] \in Nat /\ c[y] \in Nat /\ c[z] \in Nat
    BY <1>2, <2>1
  <2>4. c[x] = IF s[x] \in G THEN c[y] ELSE c[y] + 1
    BY <1>3, <2>1
  <2>5. c[y] <= c[z]
    BY <2>2, <2>3, <2>4
  <2>6. QED
    BY <2>1, <2>5 DEF y, z
<1>6. 0..M - i - 1 \subseteq T
  <2> DEFINE K == M - i - 1
  <2> HIDE DEF T, K
  <2>1. K \in Nat /\ \A d \in 0..K : d < K /\ d \in T => d + 1 \in T
    BY <1>1, <1>5 DEF K
  <2>2. 0..K \subseteq T
    BY <1>4, <2>1, BoundedInduction
  <2>3. QED
    BY <2>2 DEF K
<1> DEFINE d == k - i - 1
<1>7. d \in 0..M - i - 1 /\ i + 1 + d = k
  BY <1>1
<1> HIDE DEF d
<1>8. d \in T
  <2> HIDE DEF T
  <2>1. QED
    BY <1>6, <1>7
<1>9. c[k] <= c[i + 1]
  BY <1>7, <1>8
<1>10. c[i] = c[i + 1] + 1
  BY <1>1, <1>3
<1>11. k \in 1..M + 1 /\ i + 1 \in 1..M + 1
  BY <1>1
<1>12. c[k] \in Nat /\ c[i + 1] \in Nat
  BY <1>2, <1>11
<1>13. QED
  BY <1>9, <1>10, <1>12

-----------------------------------------------------------------------------
(* A text with lines of G put in, and its counts, all in G too, bumped.    *)
PutInto(a, b, r, m, G) ==
  /\ Inserted(a, b, r, m)
  /\ \A i \in 1..Len(r) : r[i] \in G
  /\ \A i \in 1..Len(a) : /\ BumpRuleCount(a[i]) \in G <=> a[i] \in G
                          /\ a[i] \notin G => BumpRuleCount(a[i]) = a[i]
  /\ \A i \in 1..Len(a), j \in 1..Len(b) : a[i] = b[j] => a[i] \notin G

(* It is the same but for those lines.                                     *)
LEMMA InsertedAligned ==
  ASSUME NEW S, NEW a \in Seq(S), NEW b \in Seq(S), NEW r \in Seq(S), NEW m, NEW G,
         PutInto(a, b, r, m, G)
  PROVE  \E ca, cb : Aligned(a, b, ca, cb, G)
<1> DEFINE K == Len(a)
           R == Len(r)
           N == Len(b)
           pi == [j \in 1..N + 1 |-> IF j <= m THEN j ELSE IF j <= m + R THEN m + 1 ELSE j - R]
<1>1. PICK ca : Counts(ca, a, G)
  BY CountsExist
<1>2. K \in Nat /\ R \in Nat /\ N \in Nat /\ m \in 0..K /\ N = K + R
  BY DEF PutInto, Inserted
<1>3. /\ \A i \in 1..m : b[i] = BumpRuleCount(a[i])
      /\ \A i \in 1..R : b[m + i] = r[i]
      /\ \A i \in 1..K - m : b[m + R + i] = BumpRuleCount(a[m + i])
  BY DEF PutInto, Inserted
<1>4. /\ \A i \in 1..R : r[i] \in G
      /\ \A i \in 1..K : /\ BumpRuleCount(a[i]) \in G <=> a[i] \in G
                         /\ a[i] \notin G => BumpRuleCount(a[i]) = a[i]
      /\ \A i \in 1..K, j \in 1..N : a[i] = b[j] => a[i] \notin G
  BY DEF PutInto
<1>5. /\ ca \in [1..K + 1 -> Nat] /\ ca[K + 1] = 0
      /\ \A i \in 1..K : ca[i] = IF a[i] \in G THEN ca[i + 1] ELSE ca[i + 1] + 1
  BY <1>1 DEF Counts
<1> HIDE DEF K, R, N
<1>6. \A j \in 1..N + 1 :
        /\ pi[j] = IF j <= m THEN j ELSE IF j <= m + R THEN m + 1 ELSE j - R
        /\ pi[j] \in 1..K + 1
  BY <1>2
<1> DEFINE cb == [j \in 1..N + 1 |-> ca[pi[j]]]
<1> HIDE DEF pi
<1>7. cb \in [1..N + 1 -> Nat] /\ \A j \in 1..N + 1 : cb[j] = ca[pi[j]]
  BY <1>5, <1>6
<1> HIDE DEF cb
<1>8. ASSUME NEW j \in 1..N
      PROVE  /\ cb[j] = IF b[j] \in G THEN cb[j + 1] ELSE cb[j + 1] + 1
             /\ b[j] \notin G => pi[j] \in 1..K /\ a[pi[j]] \notin G /\ b[j] = a[pi[j]]
  <2> DEFINE d == j + 1
             x == pi[j]
             y == pi[d]
  <2>1. j \in 1..N + 1 /\ d \in 1..N + 1
    BY <1>2
  <2>2. /\ x = IF j <= m THEN j ELSE IF j <= m + R THEN m + 1 ELSE j - R
        /\ y = IF d <= m THEN d ELSE IF d <= m + R THEN m + 1 ELSE d - R
        /\ x \in 1..K + 1 /\ y \in 1..K + 1 /\ cb[j] = ca[x] /\ cb[d] = ca[y]
    <3> HIDE DEF d
    <3>1. QED
      BY <1>6, <1>7, <2>1
  <2> HIDE DEF x, y
  <2>3. CASE m < j /\ j <= m + R
    <3> DEFINE i == j - m
    <3>1. i \in 1..R /\ m + i = j
      BY <1>2, <2>3
    <3> HIDE DEF i
    <3>2. b[j] \in G
      <4>1. b[j] = r[i] /\ r[i] \in G
        BY <1>3, <1>4, <3>1
      <4>2. QED
        BY <4>1
    <3>3. x = m + 1 /\ y = m + 1
      BY <1>2, <2>2, <2>3
    <3>4. cb[j] = cb[d]
      BY <2>2, <3>3
    <3>5. QED
      BY <3>2, <3>4 DEF d
  <2>4. CASE ~ (m < j /\ j <= m + R)
    <3>1. x \in 1..K /\ y = x + 1
      <4>1. d = j + 1 /\ j \in Nat /\ j >= 1 /\ j <= K + R
        BY <1>2
      <4>2. m \in Nat /\ m <= K
        BY <1>2
      <4> HIDE DEF d
      <4>3. CASE j <= m
        <5>1. x = j /\ y = d
          BY <1>2, <2>2, <4>1, <4>2, <4>3
        <5>2. QED
          BY <1>2, <4>1, <4>2, <4>3, <5>1
      <4>4. CASE j > m + R
        <5>1. x = j - R /\ y = d - R
          BY <1>2, <2>2, <4>1, <4>2, <4>4
        <5>2. QED
          BY <1>2, <4>1, <4>2, <4>4, <5>1
      <4>5. QED
        BY <1>2, <2>4, <4>1, <4>2, <4>3, <4>4
    <3>2. b[j] = BumpRuleCount(a[x])
      <4>1. CASE j <= m
        <5>1. x = j /\ j \in 1..m
          BY <1>2, <2>2, <4>1
        <5>2. QED
          BY <1>3, <5>1
      <4>2. CASE j > m + R
        <5> DEFINE i == j - m - R
        <5>1. i \in 1..K - m /\ m + R + i = j /\ m + i = x
          BY <1>2, <2>2, <4>2
        <5> HIDE DEF i
        <5>2. b[m + R + i] = BumpRuleCount(a[m + i])
          BY <1>3, <5>1
        <5>3. QED
          BY <5>1, <5>2
      <4>3. QED
        BY <1>2, <2>4, <4>1, <4>2
    <3>3. /\ b[j] \in G <=> a[x] \in G
          /\ b[j] \notin G => b[j] = a[x]
      BY <1>4, <3>1, <3>2
    <3>4. ca[x] = IF a[x] \in G THEN ca[y] ELSE ca[y] + 1
      BY <1>5, <3>1
    <3>5. cb[j] = IF b[j] \in G THEN cb[d] ELSE cb[d] + 1
      BY <2>2, <3>3, <3>4
    <3>6. QED
      BY <3>1, <3>3, <3>5 DEF d, x
  <2>5. QED
    BY <2>3, <2>4
<1>9. Counts(cb, b, G)
  <2>1. cb[N + 1] = 0
    <3>1. N + 1 \in 1..N + 1
      BY <1>2
    <3> DEFINE d == N + 1
    <3>2. pi[d] = K + 1
      <4>1. pi[d] = IF d <= m THEN d ELSE IF d <= m + R THEN m + 1 ELSE d - R
        BY <1>6, <3>1
      <4>2. QED
        BY <1>2, <4>1
    <3> HIDE DEF d
    <3>3. cb[d] = ca[K + 1]
      BY <1>7, <3>1, <3>2 DEF d
    <3>4. QED
      BY <1>5, <3>3 DEF d
  <2>2. QED
    BY <1>7, <1>8, <2>1 DEF Counts, N
<1>10. ca[1] = cb[1]
  <2>1. 1 \in 1..N + 1
    BY <1>2
  <2>2. pi[1] = IF 1 <= m THEN 1 ELSE IF 1 <= m + R THEN m + 1 ELSE 1 - R
    BY <1>6, <2>1
  <2>3. pi[1] = 1
    BY <1>2, <2>2
  <2>4. QED
    BY <1>7, <2>1, <2>3
<1>11. ASSUME NEW i \in 1..K, NEW j \in 1..N, a[i] \notin G, b[j] \notin G, ca[i] = cb[j]
       PROVE  a[i] = b[j]
  <2> DEFINE x == pi[j]
  <2>1. x \in 1..K /\ a[x] \notin G /\ b[j] = a[x]
    BY <1>8, <1>11
  <2>2. ca[i] = ca[x] /\ ca[x] \in Nat
    <3>1. j \in 1..N + 1 /\ x \in 1..K + 1
      BY <1>2, <2>1
    <3>2. QED
      BY <1>5, <1>7, <1>11, <3>1
  <2> HIDE DEF x
  <2>3. i = x
    <3>1. i < x => ca[x] < ca[i]
      BY <1>1, <1>11, <2>1, CountsTell DEF K
    <3>2. x < i => ca[i] < ca[x]
      BY <1>1, <1>11, <2>1, CountsTell DEF K
    <3> DEFINE v == ca[x]
    <3>3. v \in Nat /\ ca[i] = v
      BY <2>2
    <3> HIDE DEF v
    <3>4. ~ (i < x) /\ ~ (x < i)
      BY <3>1, <3>2, <3>3 DEF v
    <3>5. QED
      BY <1>2, <2>1, <3>4
  <2>4. QED
    BY <2>1, <2>3
<1>12. \A i \in 1..K, j \in 1..N : a[i] = b[j] => a[i] \notin G
  BY <1>4
<1>13. Aligned(a, b, ca, cb, G)
  BY <1>1, <1>9, <1>10, <1>11, <1>12 DEF Aligned, K, N
<1>14. QED
  BY <1>13

-----------------------------------------------------------------------------
(* The lines a request's page may mark: a header, and the rule's own.      *)
MayMark(l, n) == l.tag = "header" \/ (OfRule(l) /\ l.n = n)

(* Every line comes from either text.                                      *)
LEMMA InsertedFrom ==
  ASSUME NEW S, NEW a \in Seq(S), NEW b \in Seq(S), NEW r \in Seq(S), NEW m, Inserted(a, b, r, m),
         NEW j \in 1..Len(b)
  PROVE  \/ \E i \in 1..Len(r) : b[j] = r[i]
         \/ \E i \in 1..Len(a) : b[j] = BumpRuleCount(a[i])
<1> DEFINE K == Len(a)
           R == Len(r)
           N == Len(b)
<1>1. K \in Nat /\ R \in Nat /\ m \in 0..K /\ N = K + R /\ j \in 1..N
  BY DEF Inserted
<1>2. /\ \A i \in 1..m : b[i] = BumpRuleCount(a[i])
      /\ \A i \in 1..R : b[m + i] = r[i]
      /\ \A i \in 1..K - m : b[m + R + i] = BumpRuleCount(a[m + i])
  BY DEF Inserted
<1> HIDE DEF K, R, N
<1>3. CASE j <= m
  <2>1. j \in 1..m /\ j \in 1..K
    BY <1>1, <1>3
  <2>2. QED
    BY <1>2, <2>1 DEF K
<1>4. CASE m < j /\ j <= m + R
  <2> DEFINE i == j - m
  <2>1. i \in 1..R /\ m + i = j
    BY <1>1, <1>4
  <2> HIDE DEF i
  <2>2. b[m + i] = r[i]
    BY <1>2, <2>1
  <2>3. QED
    BY <2>1, <2>2 DEF R
<1>5. CASE j > m + R
  <2> DEFINE i == j - m - R
             x == m + i
  <2>1. i \in 1..K - m /\ m + R + i = j /\ x \in 1..K
    BY <1>1, <1>5
  <2>2. b[m + R + i] = BumpRuleCount(a[x])
    <3> HIDE DEF i
    <3>1. QED
      BY <1>2, <2>1
  <2> HIDE DEF i, x
  <2>3. b[j] = BumpRuleCount(a[x]) /\ x \in 1..Len(a)
    BY <2>1, <2>2 DEF K
  <2>4. QED
    BY <2>3
<1>6. QED
  BY <1>1, <1>3, <1>4, <1>5

(* A header's count goes up, and nothing else changes.                     *)
LEMMA BumpedLine ==
  ASSUME NEW l
  PROVE  /\ BumpRuleCount(l).tag = "header" <=> l.tag = "header"
         /\ l.tag = "header" => BumpRuleCount(l).n = l.n + 1
         /\ l.tag # "header" => BumpRuleCount(l) = l
BY DEF BumpRuleCount, Counted, Line

(* The first line of a snapshot is its only header, and no line is of a    *)
(* rule that the snapshot has not.                                         *)
LEMMA SnapshotLines ==
  ASSUME History, request # None
  PROVE  /\ \A i \in 1..Len(old) : old[i].tag = "header" => i = 1
         /\ \A i \in 1..Len(old) : OfRule(old[i]) => old[i].n \in RuleIDs(old)
<1> DEFINE X == TextsOf(Entries)
           all == DisplayACL(table, omit)
<1>1. Texts(Entries, X) /\ table \in TablesOf(Entries) /\ Beginning(old, all)
  BY TextsAre DEF History
<1> HIDE DEF X
<1>2. /\ all \in Seq(Lines(X)) /\ all[2] = Step
      /\ \A i \in 3..Len(all) : OfRule(all[i]) \/ all[i] = Prompt
  BY <1>1, DisplayLines
<1> HIDE DEF all
<1>3. /\ Len(old) \in 1..Len(all) /\ DOMAIN old = 1..Len(old) /\ Len(all) \in Nat
      /\ \A i \in 1..Len(old) : old[i] = all[i]
  <2>1. Len(all) \in Nat
    BY <1>2, LenProperties
  <2>2. QED
    BY <1>1, <1>2, <2>1, BeginningIs
<1>4. /\ Step.tag # "header" /\ Prompt.tag # "header"
      /\ \A l : OfRule(l) => l.tag # "header"
  BY DEF Step, Prompt, Line, OfRule
<1>5. ASSUME NEW i \in 1..Len(old), old[i].tag = "header" PROVE i = 1
  <2>1. i # 2
    BY <1>2, <1>3, <1>4, <1>5
  <2>2. i \notin 3..Len(all)
    BY <1>2, <1>3, <1>4, <1>5
  <2>3. QED
    BY <1>3, <2>1, <2>2
<1>6. \A i \in 1..Len(old) : OfRule(old[i]) => old[i].n \in RuleIDs(old)
  BY <1>3 DEF RuleIDs, ToSet
<1>7. QED
  BY <1>5, <1>6

(* The two configurations of a request are the same but for the lines its  *)
(* page may mark.                                                          *)
LEMMA DrawnAligned ==
  ASSUME History, request # None
  PROVE  \E G : /\ \A l \in G : MayMark(l, request.plan.number)
                /\ \E ca, cb : Aligned(old, new, ca, cb, G)
<1> DEFINE S == Lines(Stored)
           n == request.plan.number
           r == RuleLines(n, request.entry)
<1>1. /\ old \in Seq(S) /\ new \in Seq(S) /\ None \in Stored
      /\ AddDrawn => r \in Seq(S) /\ \E m \in 0..Len(old) : Inserted(old, new, r, m)
      /\ ~ AddDrawn => new = LinesWithout(old, n)
  BY StoredTexts
<1>2. \A i \in 1..Len(old) : old[i] \in S
  BY <1>1
<1>3. CASE AddDrawn
  <2> DEFINE G == {l \in S : MayMark(l, n)}
  <2>1. PICK m \in 0..Len(old) : Inserted(old, new, r, m)
    BY <1>1, <1>3
  <2>2. r \in Seq(S)
    BY <1>1, <1>3
  <2>3. \A i \in 1..Len(r) : OfRule(r[i]) /\ r[i].n = n
    <3>1. n \in Nat /\ request.entry \in (Entries \cup {request.entry}) \cup {Absent}
      BY NumberIs, TableAssumption
    <3>2. Texts(Entries \cup {request.entry}, Stored)
      BY TextsAre DEF Stored
    <3>3. QED
      BY <3>1, <3>2, RuleLinesAre
  <2>4. n \notin RuleIDs(old)
    <3>1. table[n] = Absent
      BY <1>3, AllocatedIsFree
    <3>2. QED
      BY <3>1, DrawnOnAll DEF Occupied
  <2> HIDE DEF S, r, n
  <2>5. \A i \in 1..Len(r) : r[i] \in S /\ r[i] \in G
    <3>1. \A i \in 1..Len(r) : r[i] \in S
      BY <2>2
    <3>2. QED
      BY <2>3, <3>1 DEF MayMark
  <2>6. ASSUME NEW i \in 1..Len(old)
        PROVE  /\ BumpRuleCount(old[i]) \in G <=> old[i] \in G
               /\ old[i] \notin G => BumpRuleCount(old[i]) = old[i]
    <3>1. old[i] \in S /\ BumpRuleCount(old[i]) \in S
      BY <1>1, <1>2, BumpedIs DEF S
    <3>2. QED
      BY <3>1, BumpedLine DEF MayMark
  <2>7. ASSUME NEW i \in 1..Len(old), NEW j \in 1..Len(new), old[i] = new[j] PROVE old[i] \notin G
    <3>1. ~ (OfRule(old[i]) /\ old[i].n = n)
      BY <2>4, SnapshotLines
    <3>2. old[i].tag # "header"
      <4> SUFFICES ASSUME old[i].tag = "header" PROVE FALSE
        OBVIOUS
      <4>1. CASE \E k \in 1..Len(r) : new[j] = r[k]
        <5>1. OfRule(old[i])
          BY <2>3, <2>7, <4>1
        <5>2. QED
          BY <5>1 DEF OfRule
      <4>2. CASE \E k \in 1..Len(old) : new[j] = BumpRuleCount(old[k])
        <5>1. PICK k \in 1..Len(old) : old[i] = BumpRuleCount(old[k])
          BY <2>7, <4>2
        <5>2. old[k].tag = "header" /\ old[i].n = old[k].n + 1
          BY <5>1, BumpedLine
        <5>3. i = 1 /\ k = 1
          BY <5>2, SnapshotLines
        <5> DEFINE c == old[1].n
        <5>4. c \in Nat /\ c = c + 1
          <6>1. old[1] \in S
            BY <1>2, <5>3
          <6>2. QED
            BY <5>2, <5>3, <6>1 DEF S, Lines
        <5> HIDE DEF c
        <5>5. QED
          BY <5>4
      <4>3. QED
        BY <1>1, <2>1, <2>2, <4>1, <4>2, InsertedFrom
    <3>3. QED
      BY <3>1, <3>2 DEF MayMark
  <2>8. PutInto(old, new, r, m, G)
    <3> HIDE DEF G
    <3>1. QED
      BY <2>1, <2>5, <2>6, <2>7 DEF PutInto
  <2>9. \A l \in G : MayMark(l, n)
    OBVIOUS
  <2> DEFINE aa == old
             bb == new
  <2>10. aa \in Seq(S) /\ bb \in Seq(S) /\ r \in Seq(S) /\ PutInto(aa, bb, r, m, G)
    BY <1>1, <2>2, <2>8
  <2> HIDE DEF G, aa, bb
  <2>11. \E ca, cb : Aligned(aa, bb, ca, cb, G)
    BY ONLY <2>10, InsertedAligned
  <2>12. QED
    BY <2>9, <2>11 DEF aa, bb, n
<1>4. CASE ~ AddDrawn
  <2> DEFINE G == {l \in S : OfRule(l) /\ l.n = n}
  <2>1. new = LinesWithout(old, n)
    BY <1>1, <1>4
  <2> HIDE DEF S, n
  <2>2. /\ \A i \in 1..Len(old) : old[i] \in G <=> OfRule(old[i]) /\ old[i].n = n
        /\ \A l \in G : OfRule(l) /\ l.n = n
    BY <1>2
  <2>3. \A l \in G : MayMark(l, n)
    BY DEF MayMark
  <2> HIDE DEF G
  <2>4. \E ca, cb : Aligned(old, LinesWithout(old, n), ca, cb, G)
    BY <1>1, <2>2, WithoutAligned
  <2>5. QED
    BY <2>1, <2>3, <2>4 DEF n
<1>5. QED
  BY <1>3, <1>4

(* The page marks nothing but the request's own rule and the count in the  *)
(* header as changed.                                                      *)
LEMMA MarksTheRequest == History => PageMarksOnlyTheRequest
<1> SUFFICES ASSUME History, NEW i \in DOMAIN rows, rows[i].kind \notin {"equal", "skip"},
                    NEW l \in {rows[i].left, rows[i].right} \ {None}
             PROVE  MayMark(l, request.plan.number)
  BY DEF PageMarksOnlyTheRequest, MayMark
<1>1. CASE rows = <<>>
  BY <1>1
<1>2. CASE rows # <<>>
  <2> DEFINE S == Lines(Stored)
             us == UnifiedDiff(old, new)
             N == Len(us)
  <2>1. rows = SideBySide(us) /\ request # None
    BY <1>2 DEF History
  <2>2. old \in Seq(S) /\ new \in Seq(S)
    BY <2>1, StoredTexts
  <2>3. PICK G : /\ \A g \in G : MayMark(g, request.plan.number)
                 /\ \E ca, cb : Aligned(old, new, ca, cb, G)
    BY <2>1, DrawnAligned
  <2> HIDE DEF S
  <2>4. \A c \in 1..Len(DiffOps(old, new)) :
          Changed(DiffOps(old, new)[c]) => DiffOps(old, new)[c].line \in G
    <3> DEFINE aa == old
               bb == new
    <3>1. aa \in Seq(S) /\ bb \in Seq(S) /\ \E ca, cb : Aligned(aa, bb, ca, cb, G)
      BY <2>2, <2>3
    <3> HIDE DEF aa, bb
    <3>2. \A c \in 1..Len(DiffOps(aa, bb)) : Changed(DiffOps(aa, bb)[c]) => DiffOps(aa, bb)[c].line \in G
      BY ONLY <3>1, DiffMarked
    <3>3. QED
      BY <3>2 DEF aa, bb
  <2>5. PICK x \in [0..N -> Nat], y \in [0..N -> Nat] : PageOf(rows, us, old, new, x, y, G, S)
    BY <2>1, <2>2, <2>4, PageMade
  <2> HIDE DEF us
  <2>6. DOMAIN rows = 1..Len(rows) /\ RowMarks(rows[i], G)
    BY <2>5 DEF PageOf
  <2>7. l \in G
    BY <2>6 DEF RowMarks
  <2>8. QED
    BY <2>3, <2>7
<1>3. QED
  BY <1>1, <1>2

(* The same in every state of the system (artifacts_test.go:115).          *)
THEOREM PageMarksOnlyTheRequestHolds == Spec => []PageMarksOnlyTheRequest
BY HistoryHolds, MarksTheRequest, PTL
=============================================================================
