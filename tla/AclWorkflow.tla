----------------------------- MODULE AclWorkflow -----------------------------
(***************************************************************************)
(* The life of change requests: submission, decision and execution, as     *)
(* carried out by three kinds of process that share nothing but the        *)
(* request table and the switch.                                           *)
(*                                                                         *)
(*   aclweb    HTTP handlers.  Submit, SubmitDelete, Approve and Reject    *)
(*             run freely; a dispatch runs under dispatchMu.  `disp[w]` is *)
(*             the handler goroutine w that is dispatching.                *)
(*   aclagent  a subprocess per device operation.  `agent[w]` is the one   *)
(*             started by handler w; it survives a crash of aclweb.        *)
(*   switch    `running` and `saved` configuration, edited by engineers at *)
(*             any time, and commands it received but has not executed     *)
(*             when their sender went away (`late`).                       *)
(*                                                                         *)
(* An entry on the switch carries `by`, its author, which no code reads:   *)
(* it exists for the properties.  `launched` and `refused` are history.    *)
(*                                                                         *)
(* A definition X_Y just before X is X with a plausible mistake, kept to   *)
(* show that some property notices it; nothing else refers to it.          *)
(***************************************************************************)
EXTENDS AclTable

CONSTANTS
  Requests,      \* rows the request table may come to hold
  Bodies,        \* what a rule permits, as far as two rules can differ
  Workers,       \* dispatch handlers
  Human,         \* author of a rule typed in by an engineer
  None,          \* no value
  Unreadable,    \* no snapshot: none could be taken, or none is on record
  Preloaded,     \* rules engineers had configured and saved beforehand
  RuleComment,   \* the rule_comment option
  MaxEdits, MaxFaults, MaxLosses, MaxKills, MaxExpiries, MaxCrashes, MaxReboots,
  MaxUnchecked,    \* failures behind the drift check that nobody notices
  MaxDisturbances  \* bound on all of these together

VARIABLES
  req,       \* change_requests and change_artifacts
  running,   \* the switch's running configuration
  saved,     \* its startup configuration
  late,      \* commands received from agents that are gone
  mutex,     \* holder of dispatchMu
  disp,      \* dispatch handlers
  agent,     \* acl-agent subprocesses of dispatches
  launched,  \* history: how often an apply was started for a request
  refused,   \* history: requests whose row was once in state 'rejected'
  spent      \* how many disturbances of each kind have occurred

webVars    == <<req, launched, refused>>
switchVars == <<running, saved, late>>
vars == <<req, running, saved, late, mutex, disp, agent, launched, refused, spent>>

-----------------------------------------------------------------------------
(* Data                                                                    *)

RowStates == {"pending", "approved", "rejected", "dispatching", "active",
              "dispatch_failed", "drift", "inconsistent", "revoked"}
DraftStates == {"unsent", "reading", "drafted"}

Awaiting_Retries == {"pending", "approved", "dispatch_failed"}
Awaiting == {"pending", "approved"}

Entries == [body: Bodies, note: Requests \cup {None}, by: Requests \cup {Human}]
Texts   == [body: Bodies, note: Requests \cup {None}]
Configs   == [RuleIds -> Entries \cup {Absent}]
Snapshots == [RuleIds -> Texts \cup {Absent}]

ASSUME WorkflowAssumption ==
  /\ Human \notin Requests
  /\ None \notin Requests
  /\ None \notin Workers
  /\ None \notin RuleIds
  /\ None \notin Bodies
  /\ Unreadable \notin Snapshots
  /\ Absent \notin Entries
  /\ Absent \notin Texts
  /\ Preloaded \subseteq RuleIds
  /\ RuleComment \in BOOLEAN
  /\ {MaxEdits, MaxFaults, MaxLosses, MaxKills, MaxExpiries, MaxCrashes, MaxReboots,
      MaxUnchecked} \subseteq Nat
  /\ MaxDisturbances \in Nat

(* "display acl N", after aclweb has normalised it.  Two snapshots have    *)
(* the same fingerprint exactly when they show the same rules.             *)
Display(config) ==
  [n \in RuleIds |->
     IF config[n] = Absent THEN Absent
     ELSE [body |-> config[n].body, note |-> config[n].note]]

Blank == [state |-> "unsent", action |-> "add_rule", rule |-> None, body |-> None,
          snap |-> Unreadable]
Idle == [pc |-> "idle", req |-> None, pre |-> Unreadable, post |-> Unreadable,
         result |-> "none", expired |-> FALSE]
NoAgent == [pc |-> "none", job |-> "none", req |-> None, expect |-> 0, result |-> "none"]

Rows == {r \in Requests : req[r].state \in RowStates}
IsAdd(r) == req[r].action = "add_rule"
Move(r, state) == [req EXCEPT ![r].state = state]

EngineersRules == [body: Bodies, note: {None}, by: {Human}]

Limit == [edit |-> MaxEdits, fault |-> MaxFaults, lost |-> MaxLosses, kill |-> MaxKills,
          expiry |-> MaxExpiries, crash |-> MaxCrashes, reboot |-> MaxReboots,
          unchecked |-> MaxUnchecked]
Disturbances == spent.edit + spent.fault + spent.lost + spent.kill + spent.expiry
                + spent.crash + spent.reboot + spent.unchecked
Spend(kind) == /\ spent[kind] < Limit[kind]
               /\ Disturbances < MaxDisturbances
               /\ spent' = [spent EXCEPT ![kind] = @ + 1]

Init ==
  /\ req = [r \in Requests |-> Blank]
  /\ running \in {c \in [RuleIds -> EngineersRules \cup {Absent}] :
                    \A n \in RuleIds : c[n] # Absent <=> n \in Preloaded}
  /\ saved = running
  /\ late = {}
  /\ mutex = None
  /\ disp = [w \in Workers |-> Idle]
  /\ agent = [w \in Workers |-> NoAgent]
  /\ launched = [r \in Requests |-> 0]
  /\ refused = {}
  /\ spent = [kind \in DOMAIN Limit |-> 0]

-----------------------------------------------------------------------------
(* Submission.  The snapshot is taken by an agent started without          *)
(* dispatchMu; the row, its artifacts and its plan appear together when    *)
(* the transaction commits.  A row that is not there yet is a draft held   *)
(* by one handler.                                                         *)

Draft(r, state, row) ==
  /\ req[r].state = state
  /\ req' = [req EXCEPT ![r] = row]
  /\ UNCHANGED <<switchVars, mutex, disp, agent, launched, refused, spent>>

(* Submit(): starts "aclagent snapshot".                                   *)
Submit(r, b) ==
  Draft(r, "unsent", [Blank EXCEPT !.state = "reading", !.body = b])

(* Submit(): the snapshot is read and a rule number allocated from it.     *)
Allocate(r) ==
  /\ IsAdd(r)
  /\ \E n \in Window :
       /\ Allocates(Display(running), n)
       /\ Draft(r, "reading", [req[r] EXCEPT !.state = "drafted", !.rule = n,
                                             !.snap = Display(running)])

(* SubmitDelete(): the row of the rule to delete is found active, and      *)
(* "aclagent snapshot" started.                                            *)
SubmitDelete(r, target) ==
  /\ req[target].state = "active"
  /\ Draft(r, "unsent", [Blank EXCEPT !.state = "reading", !.action = "delete_rule",
                                      !.rule = req[target].rule])

(* SubmitDelete(): the rule is still on the device.  That its snapshot     *)
(* could not be stored goes unnoticed; the row then names none.            *)
ConfirmRule(r) ==
  /\ req[r].action = "delete_rule"
  /\ req[r].state = "reading"
  /\ Holds(running, req[r].rule)
  /\ \/ /\ req' = [req EXCEPT ![r] = [@ EXCEPT !.state = "drafted",
                                              !.snap = Display(running)]]
        /\ UNCHANGED spent
     \/ /\ req' = Move(r, "drafted")
        /\ Spend("unchecked")
  /\ UNCHANGED <<switchVars, mutex, disp, agent, launched, refused>>

(* Both: the transaction commits.                                          *)
CommitRow(r) == Draft(r, "drafted", [req[r] EXCEPT !.state = "pending"])

(* Both: an error return, with nothing inserted.                           *)
SubmitFails(r) ==
  /\ \/ /\ req[r].state = "reading"
        /\ IF IsAdd(r) THEN Exhausted(Display(running)) ELSE ~ Holds(running, req[r].rule)
        /\ UNCHANGED spent
     \/ /\ req[r].state \in {"reading", "drafted"}
        /\ Spend("fault")
  /\ req' = [req EXCEPT ![r] = Blank]
  /\ UNCHANGED <<switchVars, mutex, disp, agent, launched, refused>>

-----------------------------------------------------------------------------
(* Decision.  Each is one UPDATE guarded by state='pending'.               *)

Decidable_Late(r) == req[r].state \in {"pending", "approved", "dispatching"}
Decidable(r) == req[r].state = "pending"

Approve(r) ==
  /\ Decidable(r)
  /\ req' = Move(r, "approved")
  /\ UNCHANGED <<switchVars, mutex, disp, agent, launched, refused, spent>>

Reject(r) ==
  /\ Decidable(r)
  /\ req' = Move(r, "rejected")
  /\ refused' = refused \cup {r}
  /\ UNCHANGED <<switchVars, mutex, disp, agent, launched, spent>>

-----------------------------------------------------------------------------
(* DispatchStream, handler w holding dispatchMu.  Its context ends after   *)
(* 90 s or, for the plain POST, when the client goes away (`expired`):     *)
(* from then on every agent run and every statement fails, and a failing   *)
(* statement is only logged (mustExec).                                    *)

At(w, pc) == disp[w].pc = pc
Go(w, next) == disp' = [disp EXCEPT ![w] = next]
Record(w, r, state) == req' = IF disp[w].expired THEN req ELSE Move(r, state)
Release(w) == mutex' = None /\ Go(w, Idle)

MutexFree_PerHandler(w) == mutex # w
MutexFree(w) == mutex = None

(* Take dispatchMu and read the row.                                       *)
BeginDispatch(w, r) ==
  /\ MutexFree(w)
  /\ At(w, "idle")
  /\ agent[w] = NoAgent
  /\ req[r].state \in Awaiting
  /\ mutex' = w
  /\ Go(w, [Idle EXCEPT !.pc = "snapshot", !.req = r])
  /\ UNCHANGED <<webVars, switchVars, agent, spent>>

(* The pre-dispatch snapshot, and the error return when there is none.     *)
PreSnapshot(w) ==
  /\ At(w, "snapshot")
  /\ \/ /\ ~ disp[w].expired
        /\ Go(w, [disp[w] EXCEPT !.pc = "compare", !.pre = Display(running)])
        /\ UNCHANGED <<mutex, spent>>
     \/ /\ IF disp[w].expired THEN UNCHANGED spent ELSE Spend("fault")
        /\ Release(w)
  /\ UNCHANGED <<webVars, switchVars, agent>>

(* The row names a snapshot, and the ACL is not the one it shows.  The     *)
(* UPDATE names the row only by its id.                                    *)
Drifted_Never(w) == FALSE
Drifted(w) ==
  LET approved == req[disp[w].req].snap IN
  approved # Unreadable /\ disp[w].pre # approved

Drift(w) ==
  /\ At(w, "compare")
  /\ Drifted(w)
  /\ Record(w, disp[w].req, "drift")
  /\ Release(w)
  /\ UNCHANGED <<switchVars, agent, launched, refused, spent>>

(* The claim: UPDATE ... WHERE state IN ('pending','approved').  A handler *)
(* whose UPDATE changes no row returns.  The check before it lets a        *)
(* changed ACL pass when its own SELECT fails: the error is dropped.       *)
Claimable_Always(r) == TRUE
Claimable(r) == req[r].state \in Awaiting

Claim(w) ==
  /\ At(w, "compare")
  /\ IF Drifted(w) THEN Spend("unchecked") ELSE UNCHANGED spent
  /\ IF Claimable(disp[w].req) /\ ~ disp[w].expired
     THEN /\ req' = Move(disp[w].req, "dispatching")
          /\ Go(w, [disp[w] EXCEPT !.pc = "launch"])
          /\ UNCHANGED mutex
     ELSE /\ Release(w)
          /\ UNCHANGED req
  /\ UNCHANGED <<switchVars, agent, launched, refused>>

(* Start "aclagent apply".  It carries the rule count of the pre-dispatch  *)
(* snapshot, which updatePlanExpectCount has put into the plan.            *)
Launch(w) ==
  /\ At(w, "launch")
  /\ IF disp[w].expired
     THEN /\ Go(w, [disp[w] EXCEPT !.pc = "inspect", !.result = "killed"])
          /\ UNCHANGED <<agent, launched>>
     ELSE /\ Go(w, [disp[w] EXCEPT !.pc = "apply"])
          /\ agent' = [agent EXCEPT ![w] =
                         [pc |-> "guard", job |-> "apply", req |-> disp[w].req,
                          expect |-> Count(disp[w].pre), result |-> "none"]]
          /\ launched' = [launched EXCEPT ![disp[w].req] = @ + 1]
  /\ UNCHANGED <<req, refused, switchVars, mutex, spent>>

Returned_IfOk(w) == agent[w].pc = "done" /\ agent[w].result = "ok"
Returned(w) == agent[w].pc = "done"

ApplyReturns(w) ==
  /\ At(w, "apply")
  /\ Returned(w)
  /\ Go(w, [disp[w] EXCEPT !.pc = "inspect", !.result = agent[w].result])
  /\ agent' = [agent EXCEPT ![w] = NoAgent]
  /\ UNCHANGED <<webVars, switchVars, mutex, spent>>

(* A snapshot whose failure is ignored: its text is empty then.            *)
Look(w, next) ==
  /\ \/ /\ ~ disp[w].expired
        /\ Go(w, [disp[w] EXCEPT !.pc = next, !.post = Display(running)])
        /\ UNCHANGED spent
     \/ /\ Go(w, [disp[w] EXCEPT !.pc = next, !.post = Unreadable])
        /\ IF disp[w].expired THEN UNCHANGED spent ELSE Spend("fault")
  /\ UNCHANGED <<webVars, switchVars, mutex, agent>>

PostSnapshot(w) == At(w, "inspect") /\ Look(w, "decide")

(* An agent that was killed reports no binding, and a report without the   *)
(* right binding settles the request at once.                              *)
BindingMismatch(w) ==
  /\ At(w, "decide")
  /\ disp[w].result = "killed"
  /\ Record(w, disp[w].req, "inconsistent")
  /\ Release(w)
  /\ UNCHANGED <<switchVars, agent, launched, refused, spent>>

(* The agent reported success and the snapshots bear it out.               *)
Succeeded(w) ==
  LET d == disp[w] IN
  /\ d.result = "ok"
  /\ d.post # Unreadable
  /\ IF IsAdd(d.req) THEN VerifyChange(d.pre, d.post, req[d.req].rule)
                     ELSE VerifyDeletion(d.pre, d.post, req[d.req].rule)

Activate(w) ==
  /\ At(w, "decide")
  /\ IsAdd(disp[w].req)
  /\ Succeeded(w)
  /\ Record(w, disp[w].req, "active")
  /\ Release(w)
  /\ UNCHANGED <<switchVars, agent, launched, refused, spent>>

(* A finished deletion settles two things, in two statements: its own row, *)
(* and the rows of the rule that is gone.                                  *)
Revoke(w) ==
  /\ At(w, "decide")
  /\ ~ IsAdd(disp[w].req)
  /\ Succeeded(w)
  /\ Record(w, disp[w].req, "revoked")
  /\ Go(w, [disp[w] EXCEPT !.pc = "retire"])
  /\ UNCHANGED <<switchVars, mutex, agent, launched, refused, spent>>

Retired_Nothing(n) == {}
Retired_AllRules(n) == {q \in Requests : IsAdd(q) /\ req[q].state = "active"}
Retired(n) == {q \in Requests : IsAdd(q) /\ req[q].rule = n /\ req[q].state = "active"}

Retire(w) ==
  /\ At(w, "retire")
  /\ LET gone == IF disp[w].expired THEN {} ELSE Retired(req[disp[w].req].rule)
     IN req' = [r \in Requests |->
                  IF r \in gone THEN [req[r] EXCEPT !.state = "revoked"] ELSE req[r]]
  /\ Release(w)
  /\ UNCHANGED <<switchVars, agent, launched, refused, spent>>

(* handleDispatchFailure: an add is undone first, a deletion is not.       *)
AfterFailure(r) == IF IsAdd(r) THEN "rollback" ELSE "confirm"

Fail(w) ==
  /\ At(w, "decide")
  /\ disp[w].result # "killed"
  /\ ~ Succeeded(w)
  /\ Go(w, [disp[w] EXCEPT !.pc = AfterFailure(disp[w].req)])
  /\ UNCHANGED <<webVars, switchVars, mutex, agent, spent>>

(* Start "aclagent rollback"; what it reports is ignored.                  *)
LaunchRollback(w) ==
  /\ At(w, "rollback")
  /\ IF disp[w].expired
     THEN /\ Go(w, [disp[w] EXCEPT !.pc = "confirm"])
          /\ UNCHANGED agent
     ELSE /\ Go(w, [disp[w] EXCEPT !.pc = "undoing"])
          /\ agent' = [agent EXCEPT ![w] =
                         [pc |-> "undo", job |-> "rollback", req |-> disp[w].req,
                          expect |-> 0, result |-> "none"]]
  /\ UNCHANGED <<webVars, switchVars, mutex, spent>>

RollbackReturns(w) ==
  /\ At(w, "undoing")
  /\ Returned(w)
  /\ Go(w, [disp[w] EXCEPT !.pc = "confirm"])
  /\ agent' = [agent EXCEPT ![w] = NoAgent]
  /\ UNCHANGED <<webVars, switchVars, mutex, spent>>

FinalSnapshot(w) == At(w, "confirm") /\ Look(w, "settle")

FailureState_Clean(pre, post) == "dispatch_failed"
FailureState_Unlisted(pre, post) == IF post = pre THEN "failed" ELSE "inconsistent"
FailureState(pre, post) == IF post = pre THEN "dispatch_failed" ELSE "inconsistent"

Settle(w) ==
  /\ At(w, "settle")
  /\ Record(w, disp[w].req, FailureState(disp[w].pre, disp[w].post))
  /\ Release(w)
  /\ UNCHANGED <<switchVars, agent, launched, refused, spent>>

-----------------------------------------------------------------------------
(* aclagent.  `pc` is the stage the agent has reached in its telnet        *)
(* session: at "guard" it displays the ACL, at every later stage it sends  *)
(* one command and waits for the prompt.                                   *)

Sending == {"rule", "comment", "undo", "save"}
Stages == {"guard"} \cup Sending
Running(w) == agent[w].pc \in Stages
RuleOf(w) == req[agent[w].req].rule

Exit(w, result) ==
  agent' = [agent EXCEPT ![w].pc = "done", ![w].result = result]
Stage(w, pc) == agent' = [agent EXCEPT ![w].pc = pc]

(* The guard of doApply: a new rule must be absent, a rule to delete must  *)
(* be present, and the count must be the plan's.                           *)
GuardHolds(w) ==
  IF IsAdd(agent[w].req) THEN GuardCheck(running, RuleOf(w), agent[w].expect)
                         ELSE GuardCheckExisting(running, RuleOf(w), agent[w].expect)

Guard(w) ==
  /\ agent[w].pc = "guard"
  /\ IF ~ GuardHolds(w) THEN Exit(w, "failed")
     ELSE Stage(w, IF IsAdd(agent[w].req) THEN "rule" ELSE "undo")
  /\ UNCHANGED <<webVars, switchVars, mutex, disp, spent>>

(* What a command does to the switch.  A rule command merges into a rule   *)
(* that is already there; a comment needs one.                             *)
Command(w) == [op |-> agent[w].pc, rule |-> RuleOf(w), body |-> req[agent[w].req].body,
               by |-> agent[w].req]

Accepted(c) == c.op = "comment" => Holds(running, c.rule)

Execute(c) ==
  LET old == running[c.rule] IN
  /\ running' =
       CASE c.op = "rule"    -> WithRule(running, c.rule,
                                  [body |-> c.body, by |-> c.by,
                                   note |-> IF old = Absent THEN None ELSE old.note])
         [] c.op = "comment" -> WithRule(running, c.rule, [old EXCEPT !.note = c.by])
         [] c.op = "undo"    -> WithoutRule(running, c.rule)
         [] c.op = "save"    -> running
  /\ saved' = IF c.op = "save" THEN running ELSE saved

(* The next stage after a command that went through: Apply, Remove and     *)
(* Rollback.  Undoing an add inside its own apply ends in failure.         *)
Proceed(w) ==
  LET a == agent[w] IN
  CASE a.pc = "rule"    -> Stage(w, IF RuleComment THEN "comment" ELSE "save")
    [] a.pc = "comment" -> Stage(w, "save")
    [] a.pc = "save"    -> Exit(w, "ok")
    [] a.pc = "undo"    -> IF a.job = "rollback" THEN Exit(w, "ok")
                           ELSE IF IsAdd(a.req) THEN Exit(w, "failed")
                           ELSE Stage(w, "save")

Perform(w) ==
  /\ agent[w].pc \in Sending
  /\ Accepted(Command(w))
  /\ Execute(Command(w))
  /\ Proceed(w)
  /\ UNCHANGED <<webVars, late, mutex, disp, spent>>

(* The next stage after a command that did not: only a failed comment is   *)
(* followed by another command, the undo of the rule it belongs to.        *)
GiveUp(w) ==
  CASE agent[w].pc = "comment" -> Stage(w, "undo")
    [] agent[w].pc = "save"    -> Exit(w, "failed") \/ Exit(w, "save_failed")
    [] OTHER                   -> Exit(w, "failed")

(* The switch refuses a command, or the session breaks before one.         *)
Refuse(w) ==
  /\ Running(w)
  /\ IF agent[w].pc = "comment" /\ ~ Accepted(Command(w))
     THEN UNCHANGED spent ELSE Spend("fault")
  /\ GiveUp(w)
  /\ UNCHANGED <<webVars, switchVars, mutex, disp>>

(* A command whose answer the agent does not live or wait to see is lost,  *)
(* or stays with the switch to be executed some time later.                *)
Abandon(w) ==
  \/ UNCHANGED late
  \/ /\ agent[w].pc \in Sending
     /\ late' = late \cup {Command(w)}

Timeout(w) ==
  /\ agent[w].pc \in Sending
  /\ Spend("lost")
  /\ late' = late \cup {Command(w)}
  /\ GiveUp(w)
  /\ UNCHANGED <<webVars, running, saved, mutex, disp>>

(* SIGKILL, by AgentTimeout while its handler waits, or by the operating   *)
(* system once it has none.                                                *)
Kill(w) ==
  /\ Running(w)
  /\ Spend("kill")
  /\ Abandon(w)
  /\ Exit(w, "killed")
  /\ UNCHANGED <<webVars, running, saved, mutex, disp>>

(* An agent that outlived aclweb ends with nobody to read its report.      *)
OrphanExit(w) ==
  /\ agent[w].pc = "done"
  /\ At(w, "idle")
  /\ agent' = [agent EXCEPT ![w] = NoAgent]
  /\ UNCHANGED <<webVars, switchVars, mutex, disp, spent>>

-----------------------------------------------------------------------------
(* The switch, the engineers and the machine.                              *)

LateCommand(c) ==
  /\ late' = late \ {c}
  /\ Accepted(c)
  /\ Execute(c)
  /\ UNCHANGED <<webVars, mutex, disp, agent, spent>>

LateDrop(c) ==
  /\ late' = late \ {c}
  /\ UNCHANGED <<webVars, running, saved, mutex, disp, agent, spent>>

EngineerEdits(n) ==
  /\ Spend("edit")
  /\ \E entry \in EngineersRules \cup {Absent} :
       /\ entry # running[n]
       /\ running' = WithRule(running, n, entry)
  /\ UNCHANGED <<webVars, saved, late, mutex, disp, agent>>

EngineerSaves ==
  /\ Spend("edit")
  /\ saved' = running
  /\ UNCHANGED <<webVars, running, late, mutex, disp, agent>>

(* A reboot ends every session; what was not saved is gone.                *)
Reboot ==
  /\ Spend("reboot")
  /\ running' = saved
  /\ late' = {}
  /\ agent' = [w \in Workers |->
                 IF Running(w) THEN [agent[w] EXCEPT !.pc = "done", !.result = "failed"]
                 ELSE agent[w]]
  /\ UNCHANGED <<webVars, saved, mutex, disp>>

(* The context of a dispatch ends, and takes the running agent with it.    *)
Expire(w) ==
  /\ ~ At(w, "idle")
  /\ ~ disp[w].expired
  /\ Spend("expiry")
  /\ Go(w, [disp[w] EXCEPT !.expired = TRUE])
  /\ IF Running(w) THEN Abandon(w) /\ Exit(w, "killed")
                   ELSE UNCHANGED <<late, agent>>
  /\ UNCHANGED <<webVars, running, saved, mutex>>

(* aclweb dies and is started again.  Handlers, drafts and dispatchMu are  *)
(* gone; rows and agents are not.                                          *)
Crash ==
  /\ Spend("crash")
  /\ mutex' = None
  /\ disp' = [w \in Workers |-> Idle]
  /\ req' = [r \in Requests |-> IF r \in Rows THEN req[r] ELSE Blank]
  /\ UNCHANGED <<launched, refused, switchVars, agent>>

-----------------------------------------------------------------------------
Desk(r) ==
  \/ \E b \in Bodies : Submit(r, b)
  \/ \E target \in Requests : SubmitDelete(r, target)
  \/ Allocate(r)
  \/ ConfirmRule(r)
  \/ CommitRow(r)
  \/ SubmitFails(r)
  \/ Approve(r)
  \/ Reject(r)

HandlerStep(w) ==
  \/ PreSnapshot(w)
  \/ Drift(w)
  \/ Claim(w)
  \/ Launch(w)
  \/ ApplyReturns(w)
  \/ PostSnapshot(w)
  \/ BindingMismatch(w)
  \/ Activate(w)
  \/ Revoke(w)
  \/ Retire(w)
  \/ Fail(w)
  \/ LaunchRollback(w)
  \/ RollbackReturns(w)
  \/ FinalSnapshot(w)
  \/ Settle(w)

AgentStep(w) ==
  \/ Guard(w)
  \/ Perform(w)
  \/ Refuse(w)
  \/ Timeout(w)
  \/ OrphanExit(w)

Switch ==
  \/ \E c \in late : LateCommand(c) \/ LateDrop(c)
  \/ \E n \in RuleIds : EngineerEdits(n)
  \/ EngineerSaves
  \/ Reboot

Machine ==
  \/ \E w \in Workers : Kill(w) \/ Expire(w)
  \/ Crash

Next ==
  \/ \E r \in Requests : Desk(r)
  \/ \E w \in Workers, r \in Requests : BeginDispatch(w, r)
  \/ \E w \in Workers : HandlerStep(w) \/ AgentStep(w)
  \/ Switch
  \/ Machine

Spec == Init /\ [][Next]_vars

(* A started dispatch goes on: every wait of a handler or of an agent has  *)
(* a time limit, and the scheduler runs both.  Nothing makes people click, *)
(* and nothing makes disturbances happen.                                  *)
Fairness == \A w \in Workers : WF_vars(HandlerStep(w)) /\ WF_vars(AgentStep(w))
FairSpec == Spec /\ Fairness
=============================================================================
