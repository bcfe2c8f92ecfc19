--------------------------- MODULE RequestLifecycle ---------------------------
(***************************************************************************)
(* What the approval workflow promises about each request, with switches,  *)
(* agents and handlers left out: a request is proposed, decided, and its   *)
(* change is put to the switch at most once, between a claim and a         *)
(* settlement, and only if it was never turned down.                       *)
(***************************************************************************)
EXTENDS Naturals

CONSTANTS Requests

VARIABLES
  phase,   \* absent (drafts too), open, closed, executing or settled
  tried    \* requests whose change has been put to the switch

vars == <<phase, tried>>

Init ==
  /\ phase = [r \in Requests |-> "absent"]
  /\ tried = {}

Becomes(r, from, to) ==
  /\ phase[r] \in from
  /\ phase' = [phase EXCEPT ![r] = to]

Propose(r) == Becomes(r, {"absent"}, "open") /\ UNCHANGED tried

(* Rejected by an approver, or found to be about an ACL that has changed.  *)
Close(r) == Becomes(r, {"open"}, "closed") /\ UNCHANGED tried

Claim(r) == Becomes(r, {"open"}, "executing") /\ UNCHANGED tried

(* The change is put to the switch.                                        *)
Try(r) ==
  /\ phase[r] = "executing"
  /\ r \notin tried
  /\ tried' = tried \cup {r}
  /\ UNCHANGED phase

Finish(r) == Becomes(r, {"executing"}, "settled") /\ UNCHANGED tried

Next == \E r \in Requests : Propose(r) \/ Close(r) \/ Claim(r) \/ Try(r) \/ Finish(r)

Spec == Init /\ [][Next]_vars
=============================================================================
