------------------------------ MODULE AclSafety ------------------------------
(***************************************************************************)
(* What the approval workflow guarantees, and under which disturbances.    *)
(***************************************************************************)
EXTENDS AclWorkflow

RowType ==
  [state: RowStates \cup DraftStates, action: {"add_rule", "delete_rule"},
   rule: RuleIds \cup {None}, body: Bodies \cup {None}, snap: Snapshots \cup {Unreadable}]
Results == {"none", "ok", "failed", "save_failed", "killed"}
HandlerType ==
  [pc: {"idle", "snapshot", "compare", "launch", "apply", "inspect", "decide",
        "retire", "rollback", "undoing", "confirm", "settle"},
   req: Requests \cup {None}, pre: Snapshots \cup {Unreadable},
   post: Snapshots \cup {Unreadable}, result: Results, expired: BOOLEAN]
AgentType ==
  [pc: {"none", "done"} \cup Stages, job: {"none", "apply", "rollback"},
   req: Requests \cup {None}, expect: Nat, result: Results]
CommandType ==
  {c \in [op: Sending, rule: RuleIds, body: Bodies \cup {None}, by: Requests] :
     c.op = "rule" => c.body \in Bodies}

(* A row names a rule once one is allocated, and says what to permit if it *)
(* is to add one.                                                          *)
Complete(r) ==
  /\ req[r].state # "unsent" /\ IsAdd(r) => req[r].body \in Bodies
  /\ req[r].state \in RowStates \cup {"drafted"} \/ ~ IsAdd(r) => req[r].rule \in RuleIds

RowsOK == req \in [Requests -> RowType] /\ \A r \in Requests : Complete(r)
SwitchOK == running \in Configs /\ saved \in Configs /\ late \subseteq CommandType
HandlersOK ==
  /\ mutex \in Workers \cup {None}
  /\ disp \in [Workers -> HandlerType]
  /\ \A w \in Workers : ~ At(w, "idle") => disp[w].req \in Rows
AgentsOK ==
  /\ agent \in [Workers -> AgentType]
  /\ \A w \in Workers :
       /\ agent[w].pc # "none" => agent[w].req \in Rows
       /\ agent[w].pc \in {"rule", "comment"} => IsAdd(agent[w].req)
HistoryOK ==
  /\ launched \in [Requests -> Nat]
  /\ refused \subseteq Requests
  /\ spent \in [DOMAIN Limit -> Nat]

(* The type invariant of the workflow.  RowStates are the states the code  *)
(* writes, handlers and agents work on rows of the table only, and every   *)
(* command names a rule.                                                   *)
TypeOK == RowsOK /\ SwitchOK /\ HandlersOK /\ AgentsOK /\ HistoryOK

Calm(kinds) == \A kind \in kinds : spent[kind] = 0

(* What may part the request table and the switch: hands, commands nobody  *)
(* waits for, a dispatch cut short, and a drift check that did not look.   *)
Interference == {"edit", "lost", "kill", "expiry", "crash", "unchecked"}

-----------------------------------------------------------------------------
(* Execution of a request, however aclweb, agents and engineers interleave *)

(* A change is put to the switch at most once: neither a second click, nor *)
(* a restart of aclweb, nor a failure makes "aclagent apply" run twice.    *)
OneApply == \A r \in Requests : launched[r] <= 1

(* A change that was rejected is never put to the switch, also when the    *)
(* rejection arrives while a dispatch of it is under way.                  *)
RefusedNotApplied == \A r \in refused : launched[r] = 0

(* As long as aclweb has not died under a dispatch, at most one agent is   *)
(* in a write session with the switch: dispatchMu is held for a dispatch's *)
(* whole length.                                                           *)
OneWriter ==
  Calm({"crash"}) => \A v, w \in Workers : Running(v) /\ Running(w) => v = w

(* The switch still shows exactly the ACL the approved diff was drawn on   *)
(* when an agent is about to change it, provided nobody else touches it,   *)
(* all agents are heard out, aclweb stays up, and no statement behind the  *)
(* drift check fails: the check lets the request pass then (core.go:368,   *)
(* 1045, 1052).  A reboot that brings back an unsaved state is stopped by  *)
(* the guard's count, unless an add that failed and could not be undone is *)
(* on record as inconsistent: its rule may be lost where another one,      *)
(* deleted but not saved, comes back.                                      *)
AboutToChange(w) ==
  /\ agent[w].job = "apply"
  /\ agent[w].pc = (IF IsAdd(agent[w].req) THEN "rule" ELSE "undo")
Masked ==
  ~ Calm({"reboot"}) /\ \E a \in Requests : IsAdd(a) /\ req[a].state = "inconsistent"
AppliedToApproved ==
  Calm(Interference) =>
    \A w \in Workers :
      AboutToChange(w) => Display(running) = req[agent[w].req].snap \/ Masked

(* The inductive invariant behind OneApply, RefusedNotApplied and          *)
(* OneWriter.  Only the holder of dispatchMu dispatches; what it may       *)
(* assume of its row at each point, although approvals and rejections take *)
(* no lock, is exactly this: undecided or rejected before the claim,       *)
(* 'dispatching' after it.                                                 *)
BeforeClaim == {"snapshot", "compare"}
AfterClaim == {"launch", "apply", "inspect", "decide", "rollback", "undoing", "confirm",
               "settle"}

HandlerOwnsRow(w) ==
  LET r == disp[w].req IN
  ~ At(w, "idle") =>
    /\ mutex = w
    /\ r \in Requests
    /\ disp[w].pc \in BeforeClaim => req[r].state \in {"pending", "approved", "rejected"}
    /\ disp[w].pc \in AfterClaim => req[r].state = "dispatching"
    /\ At(w, "retire") => req[r].state \in {"dispatching", "revoked"} /\ ~ IsAdd(r)
    /\ At(w, "launch") => launched[r] = 0

LaunchedOnlyAfterClaim(r) ==
  /\ launched[r] <= 1
  /\ req[r].state \in DraftStates \cup {"pending", "approved", "rejected", "drift"}
       => launched[r] = 0
  /\ r \in refused => req[r].state \in {"rejected", "drift"}

AgentHasHandler(w) ==
  Calm({"crash"}) /\ agent[w].pc # "none" => At(w, "apply") \/ At(w, "undoing")

WorkflowInv ==
  /\ \A w \in Workers : HandlerOwnsRow(w)
  /\ \A r \in Requests : LaunchedOnlyAfterClaim(r)
  /\ \A w \in Workers : AgentHasHandler(w)

-----------------------------------------------------------------------------
(* What the request table says of the switch                               *)

(* A deletion of rule n whose fate the table leaves open, or that has not  *)
(* come round to the rows of the rule.                                     *)
BeingDeleted(n) ==
  \E d \in Requests :
    /\ ~ IsAdd(d)
    /\ req[d].rule = n
    /\ \/ req[d].state \in {"dispatching", "inconsistent"}
       \/ \E w \in Workers : At(w, "retire") /\ disp[w].req = d

InForce(config, r) ==
  LET n == req[r].rule IN config[n] # Absent /\ config[n].by = r

(* An active request's own rule is on the switch, and would be after a     *)
(* reboot, unless a deletion of it is unsettled.  Reboots and failing      *)
(* commands do not break this; an add that passes a drift check that did   *)
(* not look does, by the rollback of its refusal (core.go:318).            *)
ActiveInForce ==
  Calm(Interference) =>
    \A r \in Requests :
      IsAdd(r) /\ req[r].state = "active" /\ ~ BeingDeleted(req[r].rule)
        => InForce(running, r) /\ InForce(saved, r)

(* "dispatch_failed" of an add means that nothing it wrote is on the       *)
(* switch, however the switch was edited meanwhile, as long as no command  *)
(* is executed after its session was given up, the switch stays up, and    *)
(* the drift check looks.                                                  *)
FailedLeftNothing ==
  Calm({"lost", "reboot", "unchecked"}) =>
    \A r \in Requests :
      req[r].state = "dispatch_failed" /\ IsAdd(r)
        => \A n \in RuleIds : running[n] # Absent => running[n].by # r

(* The rows a deletion has retired describe rules that are off the switch, *)
(* and stay off over a reboot.                                             *)
RevokedIsGone ==
  \A r \in Requests :
    IsAdd(r) /\ req[r].state = "revoked" => ~ InForce(running, r) /\ ~ InForce(saved, r)

-----------------------------------------------------------------------------
(* The promise of RequestLifecycle, kept by the whole system: rows that do *)
(* not exist yet are absent, and a request is tried when its apply starts. *)
PhaseOf(state) ==
  CASE state \in DraftStates -> "absent"
    [] state \in {"pending", "approved"} -> "open"
    [] state \in {"rejected", "drift"} -> "closed"
    [] state = "dispatching" -> "executing"
    [] state \in {"active", "dispatch_failed", "inconsistent", "revoked"} -> "settled"

Lifecycle == INSTANCE RequestLifecycle WITH
  phase <- [r \in Requests |-> PhaseOf(req[r].state)],
  tried <- {r \in Requests : launched[r] > 0}

(* Whatever happens to aclweb, agents and switch, every request follows    *)
(* the abstract life cycle.                                                *)
KeepsLifecycle == Lifecycle!Spec

-----------------------------------------------------------------------------
(* Progress, under FairSpec                                                *)

(* A claimed request leaves 'dispatching' when neither the dispatch's      *)
(* context ends early nor aclweb dies: commands may be refused or lost,    *)
(* agents killed.                                                          *)
DispatchSettles ==
  \A r \in Requests :
    req[r].state = "dispatching" ~> req[r].state # "dispatching"

-----------------------------------------------------------------------------
(* Statements of the repository that the code does not keep                *)

(* README.md:167: when the number of a new rule is taken by the time the   *)
(* agent writes, the dispatch fails and nothing in force is lost.  Rules   *)
(* written by engineers leave the switch by their hand, by a reboot, or by *)
(* a deletion that was approved for that number.                           *)
EngineersRulesSurvive ==
  [][\A n \in RuleIds :
       /\ running[n] # Absent
       /\ running[n].by = Human
       /\ running'[n] = Absent
       => \/ spent' # spent
          \/ \E d \in Requests : ~ IsAdd(d) /\ req[d].rule = n]_vars

(* README.md:178 and session_test.go:263: a failed save is never rolled    *)
(* back; it is reported, and a person decides.                             *)
SaveFailureNotRolledBack ==
  \A w \in Workers : disp[w].result = "save_failed" => ~ At(w, "undoing")
=============================================================================
