------------------------------ MODULE AclTable ------------------------------
(***************************************************************************)
(* The rules of one advanced ACL, and everything the system decides by     *)
(* reading them: the rule number of a new request, the guards the agent    *)
(* evaluates inside its telnet session, and the two verifications aclweb   *)
(* performs on a pair of snapshots.                                        *)
(*                                                                         *)
(* A table gives every rule number an entry or Absent.  What a table holds *)
(* under a number is left open here: the switch stores rules, a snapshot   *)
(* stores their text.                                                      *)
(***************************************************************************)
EXTENDS Integers, FiniteSets

CONSTANTS
  RuleIds,    \* the rule numbers the switch is asked to hold
  RangeMin,   \* first rule number aclweb may allocate
  AllocMax,   \* last rule number aclweb may allocate
  Absent      \* no rule under this number

ASSUME TableAssumption ==
  /\ RuleIds \subseteq Nat
  /\ IsFiniteSet(RuleIds)
  /\ RangeMin \in Nat
  /\ AllocMax \in Nat
  /\ RangeMin <= AllocMax
  /\ RangeMin..AllocMax \subseteq RuleIds

Window == RangeMin..AllocMax

Occupied(table) == {n \in RuleIds : table[n] # Absent}
Count(table) == Cardinality(Occupied(table))
Holds(table, n) == n \in Occupied(table)

SameExcept(pre, post, n) == \A m \in RuleIds \ {n} : pre[m] = post[m]

-----------------------------------------------------------------------------
(* What the switch makes of "rule N permit ..." and of "undo rule N".      *)

WithRule(table, n, entry) == [table EXCEPT ![n] = entry]
WithoutRule(table, n) == [table EXCEPT ![n] = Absent]

-----------------------------------------------------------------------------
(* allocateRuleID: one more than the highest number in use inside the      *)
(* window, the window's first number when none is, and no number at all    *)
(* when that would leave the window.  Gaps below the highest number are    *)
(* never reused.                                                           *)
Allocates(table, n) ==
  LET used == Occupied(table) \cap Window
  IN /\ n \in Window
     /\ \/ used = {} /\ n = RangeMin
        \/ n - 1 \in used /\ \A m \in used : m < n

Exhausted(table) == ~ \E n \in Window : Allocates(table, n)

(* GuardCheck and GuardCheckExisting, against the table displayed in the   *)
(* write session and the count the plan was issued with.                   *)
GuardCheck(table, n, expect) == ~ Holds(table, n) /\ Count(table) = expect
GuardCheckExisting(table, n, expect) == Holds(table, n) /\ Count(table) = expect

(* verifyChange and verifyDeletion: assertions A (count), C (presence) and *)
(* B (nothing else moved).                                                 *)
VerifyChange(pre, post, n) ==
  /\ Count(post) = Count(pre) + 1
  /\ Holds(post, n)
  /\ SameExcept(pre, post, n)

VerifyDeletion(pre, post, n) ==
  /\ Count(post) + 1 = Count(pre)
  /\ ~ Holds(post, n)
  /\ SameExcept(pre, post, n)
=============================================================================
