--------------------------- MODULE AclTable_proofs ---------------------------
(***************************************************************************)
(* What the decisions of AclTable mean, for every table.                   *)
(***************************************************************************)
EXTENDS AclTable, FiniteSetTheorems, TLAPS

(* The rule number given to a request lies in the allocation window and    *)
(* names no rule of the snapshot it was allocated from.                    *)
THEOREM AllocatesFresh ==
  ASSUME NEW table, NEW n, Allocates(table, n)
  PROVE  n \in Window /\ ~ Holds(table, n)
<1>1. n \in Window
  BY DEF Allocates
<1>2. CASE Occupied(table) \cap Window = {}
  BY <1>1, <1>2 DEF Holds
<1>3. CASE \A m \in Occupied(table) \cap Window : m < n
  <2>1. n \in Int
    BY <1>1, TableAssumption DEF Window
  <2>2. QED
    BY <1>1, <1>3, <2>1 DEF Holds
<1>4. QED
  BY <1>1, <1>2, <1>3 DEF Allocates

(* Allocation is a function of the snapshot: two handlers reading the same *)
(* ACL get the same number, which is why they need the drift check.        *)
THEOREM AllocatesUnique ==
  ASSUME NEW table, NEW m, NEW n, Allocates(table, m), Allocates(table, n)
  PROVE  m = n
<1> DEFINE used == Occupied(table) \cap Window
<1>1. m \in Int /\ n \in Int /\ used \subseteq Int
  BY TableAssumption DEF Allocates, Window
<1>2. CASE used = {}
  BY <1>2 DEF Allocates
<1>3. CASE used # {}
  <2>1. m - 1 \in used /\ n - 1 \in used
    BY <1>3 DEF Allocates
  <2>2. m - 1 < n /\ n - 1 < m
    BY <1>3, <2>1 DEF Allocates
  <2>3. QED
    BY <1>1, <2>2
<1>4. QED
  BY <1>2, <1>3

(* A snapshot occupies finitely many numbers.                              *)
LEMMA OccupiedFinite ==
  ASSUME NEW table
  PROVE  IsFiniteSet(Occupied(table)) /\ Count(table) \in Nat
<1>1. Occupied(table) \subseteq RuleIds
  BY DEF Occupied
<1>2. IsFiniteSet(Occupied(table))
  BY <1>1, FS_Subset, TableAssumption
<1>3. QED
  BY <1>2, FS_CardinalityType DEF Count

(* Two tables that agree except on rule n hold the same rules but n.       *)
LEMMA OccupiedSame ==
  ASSUME NEW pre, NEW post, NEW n \in RuleIds, SameExcept(pre, post, n)
  PROVE  Occupied(pre) \ {n} = Occupied(post) \ {n}
BY DEF SameExcept, Occupied

(* The count of a table is that of its other rules, and one more if it     *)
(* holds n.                                                                *)
LEMMA CountSplit ==
  ASSUME NEW table, NEW n \in RuleIds
  PROVE  /\ Cardinality(Occupied(table) \ {n}) \in Nat
         /\ Count(table) = Cardinality(Occupied(table) \ {n})
                           + (IF Holds(table, n) THEN 1 ELSE 0)
<1> DEFINE Rest == Occupied(table) \ {n}
<1>1. IsFiniteSet(Occupied(table)) /\ IsFiniteSet(Rest)
  BY OccupiedFinite, FS_Subset
<1>2. Cardinality(Rest) \in Nat
  BY <1>1, FS_CardinalityType
<1>3. CASE Holds(table, n)
  <2>1. Occupied(table) = Rest \cup {n} /\ n \notin Rest
    BY <1>3 DEF Holds
  <2>2. Cardinality(Rest \cup {n}) = Cardinality(Rest) + 1
    BY <1>1, <2>1, FS_AddElement
  <2>3. QED
    BY <1>2, <1>3, <2>1, <2>2 DEF Count
<1>4. CASE ~ Holds(table, n)
  <2>1. Occupied(table) = Rest
    BY <1>4 DEF Holds
  <2>2. QED
    BY <1>2, <1>4, <2>1 DEF Count
<1>5. QED
  BY <1>2, <1>3, <1>4

(* verifyChange accepts exactly the pairs of snapshots between which rule  *)
(* n, and only rule n, has come into being.  It does not look at what the  *)
(* rule says.                                                              *)
THEOREM VerifyChangeExact ==
  ASSUME NEW pre, NEW post, NEW n \in RuleIds
  PROVE  VerifyChange(pre, post, n)
           <=> ~ Holds(pre, n) /\ Holds(post, n) /\ SameExcept(pre, post, n)
<1> SUFFICES ASSUME SameExcept(pre, post, n), Holds(post, n)
             PROVE  Count(post) = Count(pre) + 1 <=> ~ Holds(pre, n)
  BY DEF VerifyChange
<1>1. Cardinality(Occupied(pre) \ {n}) = Cardinality(Occupied(post) \ {n})
  BY OccupiedSame
<1>2. Count(post) = Cardinality(Occupied(post) \ {n}) + 1
  BY CountSplit
<1>3. Count(pre) = Cardinality(Occupied(pre) \ {n}) + (IF Holds(pre, n) THEN 1 ELSE 0)
  BY CountSplit
<1>4. Cardinality(Occupied(pre) \ {n}) \in Nat
  BY CountSplit
<1>5. QED
  BY <1>1, <1>2, <1>3, <1>4

(* verifyDeletion accepts exactly the pairs between which rule n, and only *)
(* rule n, has gone.                                                       *)
THEOREM VerifyDeletionExact ==
  ASSUME NEW pre, NEW post, NEW n \in RuleIds
  PROVE  VerifyDeletion(pre, post, n)
           <=> Holds(pre, n) /\ ~ Holds(post, n) /\ SameExcept(pre, post, n)
<1> SUFFICES ASSUME SameExcept(pre, post, n), ~ Holds(post, n)
             PROVE  Count(post) + 1 = Count(pre) <=> Holds(pre, n)
  BY DEF VerifyDeletion
<1>1. Cardinality(Occupied(pre) \ {n}) = Cardinality(Occupied(post) \ {n})
  BY OccupiedSame
<1>2. Count(post) = Cardinality(Occupied(post) \ {n}) + 0
  BY CountSplit
<1>3. Count(pre) = Cardinality(Occupied(pre) \ {n}) + (IF Holds(pre, n) THEN 1 ELSE 0)
  BY CountSplit
<1>4. Cardinality(Occupied(pre) \ {n}) \in Nat
  BY CountSplit
<1>5. QED
  BY <1>1, <1>2, <1>3, <1>4
=============================================================================
