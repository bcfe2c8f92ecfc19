----------------------------- MODULE MCWorkflow -----------------------------
(***************************************************************************)
(* Instances of the approval workflow for TLC.                             *)
(***************************************************************************)
EXTENDS AclSafety, TLC

(* Requests and handlers are interchangeable: no definition orders or      *)
(* names them.  Used by the runs that check safety only.                   *)
Interchangeable == Permutations(Requests) \cup Permutations(Workers)
=============================================================================
