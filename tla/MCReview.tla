------------------------------ MODULE MCReview -------------------------------
(***************************************************************************)
(* Instances of AclReview for TLC: rules of one body, with and without an  *)
(* ownership comment.  One form is tried on every table.                   *)
(***************************************************************************)
EXTENDS AclReview

CONSTANTS body, mark

MCEntries == {[body |-> body, comment |-> None], [body |-> body, comment |-> mark]}

MCSamples ==
  {[protocol |-> "tcp", src |-> 1, srcWildcard |-> Blank, srcOp |-> Blank, srcPort |-> 0,
    dst |-> 2, dstWildcard |-> 0, dstOp |-> "eq", dstPort |-> 1]}

MCPlain ==
  [n \in RuleIds |-> IF n \in {1, 2} THEN [body |-> body, comment |-> mark] ELSE Absent]
=============================================================================
