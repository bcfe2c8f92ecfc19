------------------------------ MODULE Reconcile ------------------------------
(***************************************************************************)
(* Reconciliation, beside everything else that goes on.  A ticker or a     *)
(* click starts it; it takes a snapshot through an agent of its own and    *)
(* then reads the active rows, both without dispatchMu.  It changes        *)
(* nothing: what it finds missing it reports.                              *)
(***************************************************************************)
EXTENDS AclSafety

VARIABLE rec   \* the reconciliation under way

recVars == <<vars, rec>>

(* `was` and `quiet` are history: the rows that were active when the       *)
(* snapshot was taken, and whether no dispatch has been under way since.   *)
NoRun == [pc |-> "idle", shown |-> {}, missing |-> {}, was |-> {}, quiet |-> TRUE]

ActiveRows == {r \in Requests : req[r].state = "active"}
Now(pc) == rec.pc = pc

InitReconcile == Init /\ rec = NoRun

(* runSnapshot, or its error return.                                       *)
TakeSnapshot ==
  /\ Now("idle")
  /\ \/ /\ rec' = [NoRun EXCEPT !.pc = "compare", !.shown = Occupied(running),
                                !.was = ActiveRows, !.quiet = mutex = None]
        /\ UNCHANGED vars
     \/ /\ Spend("fault")
        /\ UNCHANGED <<webVars, switchVars, mutex, disp, agent, rec>>

(* The active rows whose rule number the snapshot does not show.           *)
Missing_AnyRow(shown) == {r \in Rows : req[r].rule \notin shown}
Missing_Revoked(shown) == {r \in Rows : req[r].state = "revoked" /\ req[r].rule \notin shown}
Missing(shown) == {r \in ActiveRows : req[r].rule \notin shown}

(* The SELECT of the active rows, and the comparison with the snapshot by  *)
(* rule number; or its error return.                                       *)
Compare ==
  /\ Now("compare")
  /\ \/ /\ rec' = IF Missing(rec.shown) = {} THEN NoRun
                  ELSE [rec EXCEPT !.pc = "report", !.missing = Missing(rec.shown)]
        /\ UNCHANGED vars
     \/ /\ Spend("fault")
        /\ rec' = NoRun
        /\ UNCHANGED <<webVars, switchVars, mutex, disp, agent>>

(* The audit entry "reconcile_mismatch".                                   *)
Report ==
  /\ Now("report")
  /\ rec' = NoRun
  /\ UNCHANGED vars

ReconcileStep == TakeSnapshot \/ Compare \/ Report

(* A step of the rest of the system.  When aclweb dies, so does this.      *)
Meanwhile ==
  rec' = IF spent'.crash # spent.crash THEN NoRun
         ELSE [rec EXCEPT !.quiet = @ /\ (Now("idle") \/ mutex' = None)]

NextReconcile == (Next /\ Meanwhile) \/ ReconcileStep

(* The ticker starts reconciliations for as long as aclweb runs.           *)
FairReconcileSpec ==
  /\ InitReconcile /\ [][NextReconcile]_recVars
  /\ \A w \in Workers : WF_recVars(HandlerStep(w) /\ Meanwhile)
                        /\ WF_recVars(AgentStep(w) /\ Meanwhile)
  /\ WF_recVars(ReconcileStep)

-----------------------------------------------------------------------------
(* An alarm is about rows that were active, and rules that were missing,   *)
(* at one and the same moment, unless a dispatch was under way while the   *)
(* two were read (core.go:434-458).                                        *)
AlarmsAreTrue == Now("report") /\ rec.quiet => rec.missing \subseteq rec.was

(* An alarm has a cause: an engineer, a late command, a killed agent, a    *)
(* drift check that did not look, a dispatch under way, or a deletion      *)
(* reported as inconsistent.  Refused commands, failed saves and reboots   *)
(* do not make the table and the switch part (core.go:452-456).            *)
AlarmsHaveACause ==
  Now("report") /\ rec.quiet /\ Calm(Interference)
    => \A r \in rec.missing : BeingDeleted(req[r].rule)

(* A rule that is missing from the switch and stays missing, of a row that *)
(* stays active, is reported, and reported again (core.go:445-456).        *)
Lost(r) == req[r].state = "active" /\ ~ Holds(running, req[r].rule)
LostRuleReported ==
  \A r \in Requests : <>[]Lost(r) => []<>(Now("report") /\ r \in rec.missing)
=============================================================================
