--------------------------- MODULE AclSafety_proofs ---------------------------
(***************************************************************************)
(* What the request table says of the switch, for any number of requests,  *)
(* rules and handlers.  Three layers: who is at work on which row and who  *)
(* wrote which rule, true under every disturbance; what a rollback leaves, *)
(* as long as no command is executed late and the switch stays up; and the *)
(* two configurations of a switch nobody else touches, over any number of  *)
(* refused commands and reboots.  Last, what an alarm of the               *)
(* reconciliation, which looks at both without a lock, is worth.           *)
(***************************************************************************)
EXTENDS Reconcile, AclWorkflow_proofs, AclTable_proofs

-----------------------------------------------------------------------------
(* Staff.  A handler waits for the agent it started, and nobody else works *)
(* on its row: an agent that outlived its handler sits on a row that stays *)
(* 'dispatching' for ever.                                                 *)

Busy(w) == ~ At(w, "idle")
Works(w) == agent[w].pc # "none"
Committed(r) == req[r].state \in RowStates \cup {"drafted"}
InHand == AfterClaim \cup {"retire"}

OwnAgent(w) ==
  /\ At(w, "apply") => Works(w) /\ agent[w].job = "apply" /\ agent[w].req = disp[w].req
  /\ At(w, "undoing") => Works(w) /\ agent[w].job = "rollback" /\ agent[w].req = disp[w].req
  /\ Busy(w) /\ disp[w].pc \notin {"apply", "undoing"} => ~ Works(w)

AgentOnRow(w) ==
  /\ Works(w) => req[agent[w].req].state = "dispatching"
  /\ Works(w) => agent[w].job \in {"apply", "rollback"}
  /\ agent[w].job = "rollback" => agent[w].pc \in {"undo", "done"}
  /\ Works(w) /\ agent[w].job = "rollback" => IsAdd(agent[w].req)
  /\ disp[w].pc \in {"rollback", "undoing"} => IsAdd(disp[w].req)
  /\ disp[w].pc \in InHand =>
       \A v \in Workers \ {w} : Works(v) => agent[v].req # disp[w].req

StaffInv == \A w \in Workers : OwnAgent(w) /\ AgentOnRow(w)

-----------------------------------------------------------------------------
(* Authors.  A request's entry stands under the request's number; commands *)
(* given up were of rows and for their numbers.                            *)

Writes(c) == c.op = "rule"
Authored(config) ==
  \A n \in RuleIds : config[n] # Absent /\ config[n].by \in Requests =>
    LET r == config[n].by IN r \in Rows /\ IsAdd(r) /\ req[r].rule = n

LateRule(r) == \E c \in late : Writes(c) /\ c.by = r

(* A rule command still to be executed is one of a request that did not    *)
(* make it: it has not been reported, and will not be reported, as done.   *)
NoSuccess(w) ==
  /\ disp[w].pc \notin BeforeClaim \cup {"launch", "retire"}
  /\ At(w, "apply") => agent[w].pc = "done"
  /\ At(w, "apply") => agent[w].result # "ok"
  /\ disp[w].pc \in {"inspect", "decide"} => disp[w].result # "ok"

LateOnRow(r) ==
  LateRule(r) =>
    /\ r \in Rows /\ IsAdd(r)
    /\ req[r].state \in {"dispatching", "dispatch_failed", "inconsistent"}
    /\ \A w \in Workers : Busy(w) /\ disp[w].req = r => NoSuccess(w)

AuthorInv ==
  /\ Authored(running)
  /\ Authored(saved)
  /\ \A c \in late : c.by \in Rows /\ c.rule = req[c.by].rule
  /\ \A r \in Requests : LateOnRow(r)

-----------------------------------------------------------------------------
(* Deletions.  Once its agent has undone the rule, no entry of an active   *)
(* request is left under the number, and none after the save in the        *)
(* startup configuration.                                                  *)

Deletes(w, n) == Busy(w) /\ ~ IsAdd(disp[w].req) /\ req[disp[w].req].rule = n

ReportedOk(w) ==
  \/ At(w, "apply") /\ agent[w].pc = "done" /\ agent[w].result = "ok"
  \/ disp[w].pc \in {"inspect", "decide"} /\ disp[w].result = "ok"

Gone(r) == ~ InForce(running, r) /\ ~ InForce(saved, r)
Adds(state) == {r \in Requests : IsAdd(r) /\ req[r].state = state}

GoneInv ==
  /\ \A r \in Adds("revoked") : Gone(r)
  /\ \A w \in Workers, r \in Adds("active") : Deletes(w, req[r].rule) =>
       /\ At(w, "apply") /\ agent[w].pc = "save" => ~ InForce(running, r)
       /\ ReportedOk(w) \/ At(w, "retire") => Gone(r)

-----------------------------------------------------------------------------
(* Snapshots.  An add is drawn where its number is free, a deletion where  *)
(* it is taken, and after the claim the switch showed the same ACL, as     *)
(* long as no statement behind the drift check has failed.                 *)

DrawnOn(r) ==
  Committed(r) =>
    /\ req[r].snap \in Snapshots
    /\ req[r].snap[req[r].rule] = Absent <=> IsAdd(r)

Watched == Calm({"unchecked"})

SnapInv ==
  /\ Watched => \A r \in Requests : DrawnOn(r)
  /\ \A w \in Workers : disp[w].pc \in InHand \cup {"compare"} => disp[w].pre \in Snapshots
  /\ Watched => \A w \in Workers :
       disp[w].pc \in InHand => disp[w].pre = req[disp[w].req].snap

-----------------------------------------------------------------------------
(* Rollback.  Without late commands and reboots, a number that the last    *)
(* snapshot of a dispatch shows as free has nothing of the request.        *)

Uneventful == Calm({"lost", "reboot", "unchecked"})
Undoing == {"rollback", "undoing", "confirm", "settle"}

(* What a handler may assume of its row's commands, and what it makes of   *)
(* its last snapshot.                                                      *)
NothingLate(w) ==
  LET d == disp[w] IN
  /\ d.pc \in Undoing /\ ~ d.expired => ~ LateRule(d.req)
  /\ d.pc \in {"apply", "inspect", "decide"} /\ LateRule(d.req) /\ ~ d.expired =>
       "killed" = IF d.pc = "apply" THEN agent[w].result ELSE d.result
FinallyClean(w) ==
  LET d == disp[w] IN
  /\ d.pc = "settle" /\ ~ d.expired
  /\ IsAdd(d.req) /\ d.post # Unreadable /\ d.post[req[d.req].rule] = Absent
  => ~ InForce(running, d.req)

CleanInv ==
  Uneventful =>
    /\ \A r \in Adds("dispatch_failed") : ~ InForce(running, r) /\ ~ LateRule(r)
    /\ \A w \in Workers : NothingLate(w) /\ FinallyClean(w)

-----------------------------------------------------------------------------
(* A switch nobody else touches, heard out, by an aclweb that stays up.    *)

Undisturbed == Calm(Interference)

InForceTwice(r) == InForce(running, r) /\ InForce(saved, r)

HeardOut ==
  /\ late = {}
  /\ \A w \in Workers :
       /\ ~ disp[w].expired
       /\ disp[w].pc \in {"inspect", "decide"} => disp[w].result # "killed"
       /\ agent[w].result # "killed"

(* Adds: nothing under the number before the rule command, the request's   *)
(* own rule after it.                                                      *)
AddStages(w) ==
  LET r == agent[w].req IN
  Works(w) /\ agent[w].job = "apply" /\ IsAdd(r) =>
    /\ agent[w].pc = "rule" => running[req[r].rule] = Absent
    /\ agent[w].pc \in {"comment", "save"} => InForce(running, r)

AddReported(w) ==
  LET r == disp[w].req IN
  /\ ReportedOk(w) /\ IsAdd(r) => InForceTwice(r) /\ running[req[r].rule] = saved[req[r].rule]
  /\ At(w, "settle") /\ IsAdd(r) /\ disp[w].post # Unreadable
       /\ disp[w].post[req[r].rule] = Absent
       => running[req[r].rule] \in {Absent, saved[req[r].rule]}

(* Active rows: in force, except while they are deleted; then at least     *)
(* never in the running configuration only.                                *)
Unsettled(n) ==
  \E d \in Requests : ~ IsAdd(d) /\ req[d].rule = n /\ req[d].state = "inconsistent"
Deleting(w, n) == Deletes(w, n) /\ disp[w].pc \in InHand
BeforeUndo(w) ==
  \/ At(w, "launch")
  \/ At(w, "apply") /\ agent[w].pc \in {"guard", "undo"}

Untouched(r, n) == (\A w \in Workers : ~ Deleting(w, n)) => InForceTwice(r)
UnderDeletion(w, r, n) ==
  Deleting(w, n) =>
    /\ running[n] = Absent \/ InForceTwice(r)
    /\ saved[n] = Absent \/ InForce(saved, r)
    /\ BeforeUndo(w) => InForceTwice(r)
    /\ At(w, "settle") /\ disp[w].post # Unreadable /\ disp[w].post[n] # Absent
         => InForceTwice(r)
InTheWay(w, n) ==
  Busy(w) /\ IsAdd(disp[w].req) /\ req[disp[w].req].rule = n =>
    /\ disp[w].pc \notin InHand
    /\ At(w, "compare") => disp[w].pre[n] # Absent
ActiveRow(r, n) ==
  /\ Untouched(r, n)
  /\ \A w \in Workers : UnderDeletion(w, r, n) /\ InTheWay(w, n)

ActiveRowsStand ==
  \A r \in Adds("active"), n \in RuleIds :
    n = req[r].rule /\ ~ Unsettled(n) => ActiveRow(r, n)

(* What is only in the running configuration is an add's that is being     *)
(* carried out, or was reported as inconsistent.                           *)
Writing(w) ==
  \/ disp[w].pc \in AfterClaim \ {"launch", "apply"}
  \/ At(w, "apply") /\ agent[w].pc # "guard"
Loose(n) ==
  \E a \in Requests :
    /\ IsAdd(a) /\ req[a].rule = n
    /\ \/ req[a].state = "inconsistent"
       \/ \E w \in Workers : Writing(w) /\ disp[w].req = a
Unsaved == \A n \in RuleIds : running[n] \notin {Absent, saved[n]} => Loose(n)

(* The ACL before the first write: the one seen before the claim, with, at *)
(* most, rules that a reboot brought back.                                 *)
BeforeWrite(w) ==
  \/ disp[w].pc \in {"compare", "launch"}
  \/ At(w, "apply") /\ agent[w].pc = "guard"
Unmoved(w) ==
  /\ BeforeWrite(w) =>
       \A n \in RuleIds : disp[w].pre[n] \in {Absent, Display(running)[n]}
  /\ At(w, "apply") /\ agent[w].pc = "guard" => agent[w].expect = Count(disp[w].pre)
  /\ At(w, "apply") /\ AboutToChange(w) => Display(running) = disp[w].pre

TableInv ==
  Undisturbed =>
    /\ HeardOut
    /\ \A w \in Workers : AddStages(w) /\ AddReported(w)
    /\ ActiveRowsStand
    /\ Unsaved
    /\ \A w \in Workers : Unmoved(w) \/ Masked

SafetyInv ==
  TypeOK /\ WorkflowInv /\ StaffInv /\ AuthorInv /\ GoneInv /\ SnapInv /\ CleanInv /\ TableInv

-----------------------------------------------------------------------------
(* What the steps do, field by field                                       *)

Turns(w, pc) ==
  disp'[w].pc = pc /\ disp'[w].req = disp[w].req /\ disp'[w].expired = disp[w].expired
Ends(w) == disp'[w] = Idle
Recalls(w) == disp'[w].pre = disp[w].pre
Records(w, state) ==
  LET r == disp[w].req IN
  /\ req'[r].state = IF disp[w].expired THEN req[r].state ELSE state
  /\ \A q \in Requests \ {r} : req'[q] = req[q]
Sees(w) ==
  \/ disp'[w].post = Unreadable
  \/ ~ disp[w].expired /\ disp'[w].post = Display(running)

(* Before the claim.                                                       *)
Prepares(w) ==
  \/ At(w, "snapshot") /\ Turns(w, "compare") /\ disp'[w].pre = Display(running) /\ UNCHANGED req
  \/ disp[w].pc \in BeforeClaim /\ Ends(w) /\ UNCHANGED req
  \/ At(w, "compare") /\ Ends(w) /\ Records(w, "drift")
  \/ /\ At(w, "compare") /\ Turns(w, "launch") /\ Recalls(w)
     /\ ~ disp[w].expired
     /\ \/ req[disp[w].req].snap \in {Unreadable, disp[w].pre}
        \/ Spend("unchecked")
     /\ req[disp[w].req].state \in Awaiting /\ Records(w, "dispatching")

(* The two agents a dispatch starts.                                       *)
Starts(w) ==
  \/ /\ At(w, "launch") /\ Turns(w, "apply") /\ ~ disp[w].expired
     /\ agent'[w] = [pc |-> "guard", job |-> "apply", req |-> disp[w].req,
                     expect |-> Count(disp[w].pre), result |-> "none"]
  \/ /\ At(w, "rollback") /\ Turns(w, "undoing") /\ ~ disp[w].expired
     /\ agent'[w] = [pc |-> "undo", job |-> "rollback", req |-> disp[w].req,
                     expect |-> 0, result |-> "none"]
Hears(w) ==
  /\ agent[w].pc = "done" /\ agent'[w] = NoAgent
  /\ \/ At(w, "apply") /\ Turns(w, "inspect") /\ disp'[w].result = agent[w].result
     \/ At(w, "undoing") /\ Turns(w, "confirm")

(* After the claim, without an agent.                                      *)
Carries(w) ==
  LET r == disp[w].req IN
  \/ At(w, "launch") /\ disp[w].expired /\ Turns(w, "inspect") /\ disp'[w].result = "killed"
  \/ /\ At(w, "inspect") /\ Turns(w, "decide") /\ disp'[w].result = disp[w].result /\ Sees(w)
  \/ /\ At(w, "decide") /\ ~ Succeeded(w) /\ disp[w].result # "killed"
     /\ Turns(w, AfterFailure(r))
  \/ At(w, "rollback") /\ disp[w].expired /\ Turns(w, "confirm")
  \/ At(w, "confirm") /\ Turns(w, "settle") /\ Sees(w)

Concludes(w) ==
  LET r == disp[w].req IN
  \/ At(w, "decide") /\ disp[w].result = "killed" /\ Ends(w) /\ Records(w, "inconsistent")
  \/ At(w, "decide") /\ Succeeded(w) /\ IsAdd(r) /\ Ends(w) /\ Records(w, "active")
  \/ /\ At(w, "decide") /\ Succeeded(w) /\ ~ IsAdd(r)
     /\ Turns(w, "retire") /\ Recalls(w) /\ Records(w, "revoked")
  \/ /\ At(w, "retire") /\ Ends(w)
     /\ \A q \in Requests :
          IF disp[w].expired \/ q \notin Retired(req[r].rule) THEN req'[q] = req[q]
          ELSE req'[q].state = "revoked"
  \/ /\ At(w, "settle") /\ Ends(w)
     /\ Records(w, FailureState(disp[w].pre, disp[w].post))

HandlerMove(w) ==
  /\ Busy(w) /\ UNCHANGED switchVars
  /\ \A v \in Workers \ {w} : disp'[v] = disp[v] /\ agent'[v] = agent[v]
  /\ \/ Prepares(w) /\ UNCHANGED agent
     \/ Starts(w) /\ Recalls(w) /\ UNCHANGED req
     \/ Hears(w) /\ Recalls(w) /\ UNCHANGED req
     \/ Carries(w) /\ Recalls(w) /\ UNCHANGED <<req, agent>>
     \/ Concludes(w) /\ UNCHANGED agent

(* Every step of a handler is one of these.                                *)
LEMMA HandlerMoves ==
  ASSUME TypeOK, NEW w \in Workers, HandlerStep(w)
  PROVE  HandlerMove(w)
<1>1. /\ Busy(w) /\ \A v \in Workers \ {w} : disp'[v] = disp[v] /\ agent'[v] = agent[v]
  BY HandlerGoes DEF Busy
<1>2. /\ disp \in [Workers -> HandlerType] /\ agent \in [Workers -> AgentType]
      /\ req \in [Requests -> RowType]
      /\ disp[w] \in HandlerType
      /\ disp[w].req \in Requests
  BY <1>1 DEF TypeOK, HandlersOK, AgentsOK, RowsOK, Rows, Busy
<1>3. UNCHANGED switchVars
  BY DEF HandlerStep, PreSnapshot, Drift, Claim, Launch, ApplyReturns, PostSnapshot, Look,
         BindingMismatch, Activate, Revoke, Retire, Fail, LaunchRollback, RollbackReturns,
         FinalSnapshot, Settle
<1>4. ASSUME NEW state, Record(w, disp[w].req, state) PROVE Records(w, state)
  BY <1>2, <1>4 DEF Record, Records, Move, RowType
<1>5. ASSUME NEW state, req' = Move(disp[w].req, state), ~ disp[w].expired
      PROVE  Records(w, state)
  BY <1>2, <1>5 DEF Records, Move, RowType
<1>6. ASSUME Release(w) PROVE Ends(w)
  BY <1>2, <1>6 DEF Release, Go, Ends
<1>7. ASSUME NEW pc, Go(w, [disp[w] EXCEPT !.pc = pc])
      PROVE  /\ Turns(w, pc) /\ Recalls(w)
             /\ disp'[w].result = disp[w].result /\ disp'[w].post = disp[w].post
  BY <1>2, <1>7 DEF Go, Turns, Recalls, HandlerType
<1>8. CASE PreSnapshot(w)
  <2>1. ASSUME Go(w, [disp[w] EXCEPT !.pc = "compare", !.pre = Display(running)])
        PROVE  Turns(w, "compare") /\ disp'[w].pre = Display(running)
    BY <1>2, <2>1 DEF Go, Turns, HandlerType
  <2> QED BY <1>1, <1>3, <1>6, <1>8, <2>1
      DEF PreSnapshot, HandlerMove, Prepares, BeforeClaim, At, webVars
<1>9. CASE Drift(w)
  BY <1>1, <1>3, <1>4, <1>6, <1>9 DEF Drift, HandlerMove, Prepares
<1>10. CASE Claim(w)
  <2>1. /\ req[disp[w].req].snap \in {Unreadable, disp[w].pre} \/ Spend("unchecked")
        /\ UNCHANGED agent /\ At(w, "compare")
    BY <1>10 DEF Claim, Drifted
  <2>2. CASE Claimable(disp[w].req) /\ ~ disp[w].expired
    <3>1. Records(w, "dispatching") /\ Turns(w, "launch") /\ Recalls(w)
      BY <1>5, <1>7, <1>10, <2>2 DEF Claim
    <3> QED BY <1>1, <1>3, <2>1, <2>2, <3>1 DEF HandlerMove, Prepares, Claimable
  <2>3. CASE ~ (Claimable(disp[w].req) /\ ~ disp[w].expired)
    BY <1>1, <1>3, <1>6, <1>10, <2>1, <2>3 DEF Claim, HandlerMove, Prepares, BeforeClaim, At
  <2> QED BY <2>2, <2>3
<1>11. CASE Launch(w)
  <2>1. ASSUME Go(w, [disp[w] EXCEPT !.pc = "inspect", !.result = "killed"])
        PROVE  Turns(w, "inspect") /\ Recalls(w) /\ disp'[w].result = "killed"
    BY <1>2, <2>1 DEF Go, Turns, Recalls, HandlerType
  <2>2. CASE disp[w].expired
    BY <1>1, <1>3, <1>11, <2>1, <2>2 DEF Launch, HandlerMove, Carries
  <2>3. CASE ~ disp[w].expired
    BY <1>1, <1>2, <1>3, <1>7, <1>11, <2>3 DEF Launch, HandlerMove, Starts
  <2> QED BY <2>2, <2>3
<1>12. CASE ApplyReturns(w)
  <2>1. Turns(w, "inspect") /\ Recalls(w) /\ disp'[w].result = agent[w].result
    BY <1>2, <1>12 DEF ApplyReturns, Go, Turns, Recalls, HandlerType
  <2> QED BY <1>1, <1>2, <1>3, <1>12, <2>1
      DEF ApplyReturns, Returned, HandlerMove, Hears, webVars
<1>13. ASSUME NEW pc, Look(w, pc)
       PROVE  /\ Turns(w, pc) /\ Recalls(w) /\ Sees(w)
              /\ disp'[w].result = disp[w].result /\ UNCHANGED <<req, agent>>
  <2>1. \/ ~ disp[w].expired /\ Go(w, [disp[w] EXCEPT !.pc = pc, !.post = Display(running)])
        \/ Go(w, [disp[w] EXCEPT !.pc = pc, !.post = Unreadable])
    BY <1>13 DEF Look
  <2>2. CASE ~ disp[w].expired /\ Go(w, [disp[w] EXCEPT !.pc = pc, !.post = Display(running)])
    BY <1>2, <1>13, <2>2 DEF Go, Turns, Recalls, Sees, HandlerType, Look, webVars
  <2>3. CASE Go(w, [disp[w] EXCEPT !.pc = pc, !.post = Unreadable])
    BY <1>2, <1>13, <2>3 DEF Go, Turns, Recalls, Sees, HandlerType, Look, webVars
  <2> QED BY <2>1, <2>2, <2>3
<1>14. CASE PostSnapshot(w) \/ FinalSnapshot(w)
  BY <1>1, <1>3, <1>13, <1>14 DEF PostSnapshot, FinalSnapshot, HandlerMove, Carries
<1>15. CASE BindingMismatch(w) \/ Activate(w)
  BY <1>1, <1>3, <1>4, <1>6, <1>15 DEF BindingMismatch, Activate, HandlerMove, Concludes
<1>16. CASE Revoke(w)
  BY <1>1, <1>3, <1>4, <1>7, <1>16 DEF Revoke, HandlerMove, Concludes
<1>17. CASE Retire(w)
  <2>1. ASSUME NEW q \in Requests
        PROVE  IF disp[w].expired \/ q \notin Retired(req[disp[w].req].rule)
               THEN req'[q] = req[q] ELSE req'[q].state = "revoked"
    BY <1>2, <1>17 DEF Retire, RowType
  <2> QED BY <1>1, <1>3, <1>6, <1>17, <2>1 DEF Retire, HandlerMove, Concludes
<1>18. CASE Fail(w)
  BY <1>1, <1>3, <1>7, <1>18 DEF Fail, HandlerMove, Carries, webVars
<1>19. CASE LaunchRollback(w)
  <2>1. CASE disp[w].expired
    BY <1>1, <1>3, <1>7, <1>19, <2>1 DEF LaunchRollback, HandlerMove, Carries, webVars
  <2>2. CASE ~ disp[w].expired
    BY <1>1, <1>2, <1>3, <1>7, <1>19, <2>2 DEF LaunchRollback, HandlerMove, Starts, webVars
  <2> QED BY <2>1, <2>2
<1>20. CASE RollbackReturns(w)
  BY <1>1, <1>2, <1>3, <1>7, <1>20 DEF RollbackReturns, Returned, HandlerMove, Hears, webVars
<1>21. CASE Settle(w)
  BY <1>1, <1>3, <1>4, <1>6, <1>21 DEF Settle, HandlerMove, Concludes
<1> QED
  BY <1>8, <1>9, <1>10, <1>11, <1>12, <1>14, <1>15, <1>16, <1>17, <1>18, <1>19, <1>20, <1>21
  DEF HandlerStep

(* An agent's steps: it passes its guard, has a command carried out, gives *)
(* one up, or is gone.                                                     *)
Changes(w, pc, result) ==
  /\ agent'[w].pc = pc /\ agent'[w].result = result
  /\ agent'[w].job = agent[w].job
  /\ agent'[w].req = agent[w].req
  /\ agent'[w].expect = agent[w].expect
Advances(w, pc) == Changes(w, pc, agent[w].result)
Finishes(w, result) == Changes(w, "done", result)

Guards(w) ==
  /\ agent[w].pc = "guard" /\ UNCHANGED switchVars
  /\ \/ Finishes(w, "failed")
     \/ GuardHolds(w) /\ Advances(w, IF IsAdd(agent[w].req) THEN "rule" ELSE "undo")

Performs(w) ==
  /\ agent[w].pc \in Sending
  /\ Accepted(Command(w)) /\ Execute(Command(w)) /\ UNCHANGED late
  /\ \/ agent[w].pc = "rule" /\ (Advances(w, "comment") \/ Advances(w, "save"))
     \/ agent[w].pc = "comment" /\ Advances(w, "save")
     \/ agent[w].pc = "save" /\ Finishes(w, "ok")
     \/ /\ agent[w].pc = "undo"
        /\ \/ agent[w].job = "rollback" /\ Finishes(w, "ok")
           \/ agent[w].job # "rollback" /\ IsAdd(agent[w].req) /\ Finishes(w, "failed")
           \/ agent[w].job # "rollback" /\ ~ IsAdd(agent[w].req) /\ Advances(w, "save")

GivesUp(w) ==
  /\ Running(w) /\ UNCHANGED <<running, saved>>
  /\ \/ UNCHANGED late
     \/ agent[w].pc \in Sending /\ late' = late \cup {Command(w)} /\ Spend("lost")
  /\ \/ agent[w].pc = "comment" /\ Advances(w, "undo")
     \/ agent[w].pc = "save" /\ (Finishes(w, "failed") \/ Finishes(w, "save_failed"))
     \/ agent[w].pc \notin {"comment", "save"} /\ Finishes(w, "failed")

Vanishes(w) ==
  agent[w].pc = "done" /\ At(w, "idle") /\ agent'[w] = NoAgent /\ UNCHANGED switchVars

AgentMove(w) ==
  /\ Works(w) /\ UNCHANGED <<req, mutex, disp>>
  /\ \A v \in Workers \ {w} : agent'[v] = agent[v]
  /\ Guards(w) \/ Performs(w) \/ GivesUp(w) \/ Vanishes(w)

(* Exit and Stage, field by field.                                         *)
LEMMA ExitStage ==
  ASSUME TypeOK, NEW w \in Workers, NEW pc, NEW result
  PROVE  /\ Exit(w, result) => Finishes(w, result) /\ \A v \in Workers \ {w} : agent'[v] = agent[v]
         /\ Stage(w, pc) => Advances(w, pc) /\ \A v \in Workers \ {w} : agent'[v] = agent[v]
<1>1. agent \in [Workers -> AgentType] /\ agent[w] \in AgentType
  BY DEF TypeOK, AgentsOK
<1>2. ASSUME Exit(w, result)
      PROVE  Finishes(w, result) /\ \A v \in Workers \ {w} : agent'[v] = agent[v]
  BY <1>1, <1>2 DEF Exit, Finishes, Changes, AgentType
<1>3. ASSUME Stage(w, pc)
      PROVE  Advances(w, pc) /\ \A v \in Workers \ {w} : agent'[v] = agent[v]
  BY <1>1, <1>3 DEF Stage, Advances, Changes, AgentType
<1> QED BY <1>2, <1>3

(* Every step of an agent is one of these.                                 *)
LEMMA AgentMoves ==
  ASSUME TypeOK, NEW w \in Workers, AgentStep(w)
  PROVE  AgentMove(w)
<1> DEFINE OthersSame == \A v \in Workers \ {w} : agent'[v] = agent[v]
<1>1. Works(w) /\ UNCHANGED <<req, mutex, disp>>
  BY DEF AgentStep, Guard, Perform, Refuse, Timeout, OrphanExit, webVars, Works, Running,
         Stages, Sending
<1>2. CASE Guard(w)
  <2>1. UNCHANGED switchVars /\ agent[w].pc = "guard"
    BY <1>2 DEF Guard
  <2>2. CASE GuardHolds(w)
    BY <1>1, <1>2, <2>1, <2>2, ExitStage DEF Guard, AgentMove, Guards
  <2>3. CASE ~ GuardHolds(w)
    BY <1>1, <1>2, <2>1, <2>3, ExitStage DEF Guard, AgentMove, Guards
  <2> QED BY <2>2, <2>3
<1>3. CASE Perform(w)
  <2>1. /\ agent[w].pc \in Sending /\ Proceed(w)
        /\ Accepted(Command(w)) /\ Execute(Command(w)) /\ UNCHANGED late
    BY <1>3 DEF Perform
  <2>2. CASE agent[w].pc = "rule"
    <3>1. Stage(w, "comment") \/ Stage(w, "save")
      BY <2>1, <2>2 DEF Proceed
    <3> QED BY <1>1, <2>1, <2>2, <3>1, ExitStage DEF AgentMove, Performs
  <2>3. CASE agent[w].pc = "comment"
    BY <1>1, <2>1, <2>3, ExitStage DEF AgentMove, Performs, Proceed
  <2>4. CASE agent[w].pc = "save"
    BY <1>1, <2>1, <2>4, ExitStage DEF AgentMove, Performs, Proceed
  <2>5. CASE agent[w].pc = "undo"
    <3>1. \/ agent[w].job = "rollback" /\ Exit(w, "ok")
          \/ agent[w].job # "rollback" /\ IsAdd(agent[w].req) /\ Exit(w, "failed")
          \/ agent[w].job # "rollback" /\ ~ IsAdd(agent[w].req) /\ Stage(w, "save")
      BY <2>1, <2>5 DEF Proceed
    <3> QED BY <1>1, <2>1, <2>5, <3>1, ExitStage DEF AgentMove, Performs
  <2> QED BY <2>1, <2>2, <2>3, <2>4, <2>5 DEF Sending
<1>4. ASSUME GiveUp(w)
      PROVE  /\ OthersSame
             /\ \/ agent[w].pc = "comment" /\ Advances(w, "undo")
                \/ agent[w].pc = "save" /\ (Finishes(w, "failed") \/ Finishes(w, "save_failed"))
                \/ agent[w].pc \notin {"comment", "save"} /\ Finishes(w, "failed")
  <2>1. \/ agent[w].pc = "comment" /\ Stage(w, "undo")
        \/ agent[w].pc = "save" /\ (Exit(w, "failed") \/ Exit(w, "save_failed"))
        \/ agent[w].pc \notin {"comment", "save"} /\ Exit(w, "failed")
    BY <1>4 DEF GiveUp
  <2> QED BY <2>1, ExitStage
<1>5. CASE Refuse(w)
  BY <1>1, <1>4, <1>5 DEF Refuse, AgentMove, GivesUp, switchVars
<1>6. CASE Timeout(w)
  BY <1>1, <1>4, <1>6 DEF Timeout, AgentMove, GivesUp, Running, Stages
<1>7. CASE OrphanExit(w)
  BY <1>1, <1>7 DEF OrphanExit, AgentMove, Vanishes, TypeOK, AgentsOK
<1> QED BY <1>2, <1>3, <1>5, <1>6, <1>7 DEF AgentStep

(* The desk: a draft is begun or dropped, drawn on the ACL, committed, and *)
(* the row decided.                                                        *)
SameFields(r) ==
  /\ req'[r].action = req[r].action /\ req'[r].rule = req[r].rule
  /\ req'[r].snap = req[r].snap
Draws(r) ==
  /\ req[r].state = "reading" /\ req'[r].state = "drafted"
  /\ req'[r].action = req[r].action
  /\ req'[r].snap = Display(running) \/ Spend("unchecked")
  /\ IF IsAdd(r) THEN Allocates(Display(running), req'[r].rule)
     ELSE req'[r].rule = req[r].rule /\ Holds(running, req[r].rule)
DeskMove(r) ==
  /\ UNCHANGED <<switchVars, mutex, disp, agent>>
  /\ \A q \in Requests \ {r} : req'[q] = req[q]
  /\ \/ req[r].state \in DraftStates /\ req'[r].state \in {"unsent", "reading"}
     \/ Draws(r)
     \/ req[r].state = "drafted" /\ req'[r].state = "pending" /\ SameFields(r)
     \/ /\ req[r].state = "pending" /\ req'[r].state \in {"approved", "rejected"}
        /\ SameFields(r)

(* Everything done at the desk is one of these.                            *)
LEMMA DeskMoveOf ==
  ASSUME TypeOK, NEW r \in Requests, Desk(r)
  PROVE  DeskMove(r)
<1>1. UNCHANGED <<switchVars, mutex, disp, agent>>
  BY DEF Desk, Submit, SubmitDelete, Allocate, ConfirmRule, CommitRow, Draft, SubmitFails,
         Approve, Reject
<1>2. \A q \in Requests \ {r} : req'[q] = req[q]
  BY DeskMoves
<1>3. req \in [Requests -> RowType] /\ req[r] \in RowType
  BY DEF TypeOK, RowsOK
<1>4. ASSUME NEW row, req' = [req EXCEPT ![r] = row] PROVE req'[r] = row
  BY <1>3, <1>4
<1>5. CASE \E b \in Bodies : Submit(r, b)
  <2>1. PICK b \in Bodies : Submit(r, b)
    BY <1>5
  <2>2. req'[r] = [Blank EXCEPT !.state = "reading", !.body = b] /\ req[r].state = "unsent"
    BY <1>3, <2>1 DEF Submit, Draft
  <2>3. req'[r].state = "reading"
    BY <2>2 DEF Blank
  <2> QED BY <1>1, <1>2, <2>2, <2>3 DEF DeskMove, DraftStates
<1>6. CASE \E target \in Requests : SubmitDelete(r, target)
  <2>1. PICK target \in Requests : SubmitDelete(r, target)
    BY <1>6
  <2>2. /\ req'[r] = [Blank EXCEPT !.state = "reading", !.action = "delete_rule",
                                   !.rule = req[target].rule]
        /\ req[r].state = "unsent"
    BY <1>3, <2>1 DEF SubmitDelete, Draft
  <2>3. req'[r].state = "reading"
    BY <2>2 DEF Blank
  <2> QED BY <1>1, <1>2, <2>2, <2>3 DEF DeskMove, DraftStates
<1>7. CASE Allocate(r)
  <2>1. PICK n \in Window :
          /\ Allocates(Display(running), n)
          /\ Draft(r, "reading", [req[r] EXCEPT !.state = "drafted", !.rule = n,
                                                !.snap = Display(running)])
    BY <1>7 DEF Allocate
  <2>2. /\ req'[r] = [req[r] EXCEPT !.state = "drafted", !.rule = n, !.snap = Display(running)]
        /\ req[r].state = "reading"
    BY <1>3, <2>1 DEF Draft
  <2>3. /\ req'[r].state = "drafted" /\ req'[r].rule = n /\ req'[r].snap = Display(running)
        /\ req'[r].action = req[r].action
    BY <1>3, <2>2 DEF RowType
  <2>4. IsAdd(r)
    BY <1>7 DEF Allocate
  <2> QED BY <1>1, <1>2, <2>1, <2>2, <2>3, <2>4 DEF DeskMove, Draws
<1>8. CASE ConfirmRule(r)
  <2>1. /\ \/ req'[r] = [req[r] EXCEPT !.state = "drafted", !.snap = Display(running)]
           \/ req'[r] = [req[r] EXCEPT !.state = "drafted"] /\ Spend("unchecked")
        /\ req[r].state = "reading" /\ Holds(running, req[r].rule) /\ ~ IsAdd(r)
    BY <1>3, <1>8 DEF ConfirmRule, Move, IsAdd
  <2>2. /\ req'[r].state = "drafted" /\ req'[r].rule = req[r].rule
        /\ req'[r].snap = Display(running) \/ Spend("unchecked")
        /\ req'[r].action = req[r].action
    BY <1>3, <2>1 DEF RowType
  <2> QED BY <1>1, <1>2, <2>1, <2>2 DEF DeskMove, Draws
<1>9. CASE CommitRow(r)
  <2>1. req'[r] = [req[r] EXCEPT !.state = "pending"] /\ req[r].state = "drafted"
    BY <1>3, <1>9 DEF CommitRow, Draft
  <2>2. req'[r].state = "pending" /\ SameFields(r)
    BY <1>3, <2>1 DEF RowType, SameFields
  <2> QED BY <1>1, <1>2, <2>1, <2>2 DEF DeskMove
<1>10. CASE SubmitFails(r)
  <2>1. req'[r] = Blank /\ req[r].state \in DraftStates
    BY <1>3, <1>10 DEF SubmitFails, DraftStates
  <2> QED BY <1>1, <1>2, <2>1 DEF DeskMove, Blank
<1>11. CASE Approve(r) \/ Reject(r)
  <2>1. PICK state \in {"approved", "rejected"} : req' = Move(r, state)
    BY <1>11 DEF Approve, Reject
  <2>2. req'[r].state = state /\ SameFields(r) /\ req[r].state = "pending"
    BY <1>3, <1>11, <2>1 DEF RowType, SameFields, Move, Approve, Reject, Decidable
  <2> QED BY <1>1, <1>2, <2>2 DEF DeskMove
<1> QED BY <1>5, <1>6, <1>7, <1>8, <1>9, <1>10, <1>11 DEF Desk

(* The rest: a dispatch begins, an agent or a context is brought to its    *)
(* end, the switch changes by itself or by hand, aclweb dies.              *)
BeginMove(w, r) ==
  /\ UNCHANGED <<req, switchVars, agent>>
  /\ \A v \in Workers : At(v, "idle")
  /\ \A v \in Workers \ {w} : disp'[v] = disp[v]
  /\ ~ Works(w)
  /\ req[r].state \in Awaiting
  /\ disp'[w] = [Idle EXCEPT !.pc = "snapshot", !.req = r]

Abandons(w) ==
  /\ Running(w) /\ Finishes(w, "killed")
  /\ \/ UNCHANGED late
     \/ agent[w].pc \in Sending /\ late' = late \cup {Command(w)}

KillMove(w) ==
  /\ UNCHANGED <<req, running, saved, mutex, disp>>
  /\ Spend("kill") /\ Abandons(w)
  /\ \A v \in Workers \ {w} : agent'[v] = agent[v]
ExpireMove(w) ==
  /\ UNCHANGED <<req, running, saved, mutex>>
  /\ Spend("expiry") /\ Busy(w)
  /\ disp' = [disp EXCEPT ![w].expired = TRUE]
  /\ \/ Abandons(w)
     \/ ~ Running(w) /\ agent'[w] = agent[w] /\ UNCHANGED late
  /\ \A v \in Workers \ {w} : agent'[v] = agent[v]

LateMove(c) ==
  /\ UNCHANGED <<req, mutex, disp, agent>>
  /\ late' = late \ {c}
  /\ \/ UNCHANGED <<running, saved>>
     \/ Accepted(c) /\ Execute(c)
EditMove ==
  /\ UNCHANGED <<req, late, mutex, disp, agent>> /\ Spend("edit")
  /\ \/ /\ UNCHANGED saved
        /\ \A n \in RuleIds : \/ running'[n] \in {running[n], Absent}
                              \/ running'[n].by = Human
     \/ UNCHANGED running /\ saved' = running
RebootMove ==
  /\ UNCHANGED <<req, saved, mutex, disp>> /\ Spend("reboot")
  /\ running' = saved /\ late' = {}
  /\ \A w \in Workers : IF Running(w) THEN Finishes(w, "failed") ELSE agent'[w] = agent[w]
CrashMove ==
  /\ UNCHANGED <<switchVars, agent>> /\ Spend("crash")
  /\ \A w \in Workers : disp'[w] = Idle
  /\ \A r \in Requests : IF r \in Rows THEN req'[r] = req[r] ELSE req'[r].state = "unsent"

(* Every step of the system is one of these.                               *)
Moves ==
  \/ UNCHANGED <<req, switchVars, mutex, disp, agent>>
  \/ \E r \in Requests : DeskMove(r)
  \/ \E w \in Workers, r \in Requests : BeginMove(w, r)
  \/ \E w \in Workers : HandlerMove(w) \/ AgentMove(w) \/ KillMove(w) \/ ExpireMove(w)
  \/ \E c \in late : LateMove(c)
  \/ EditMove \/ RebootMove \/ CrashMove

(* Next, field by field.                                                   *)
LEMMA StepMoves ==
  ASSUME TypeOK, WorkflowInv, [Next]_vars
  PROVE  Moves
<1>1. /\ disp \in [Workers -> HandlerType] /\ agent \in [Workers -> AgentType]
      /\ running \in Configs
  BY DEF TypeOK, HandlersOK, AgentsOK, SwitchOK
<1>2. ASSUME NEW w \in Workers, NEW r \in Requests, BeginDispatch(w, r)
      PROVE  BeginMove(w, r)
  <2>1. \A v \in Workers : At(v, "idle")
    <3>1. mutex \notin Workers
      BY <1>2, WorkflowAssumption DEF BeginDispatch, MutexFree
    <3> QED BY <3>1 DEF WorkflowInv, HandlerOwnsRow
  <2>2. UNCHANGED <<req, switchVars, agent>> /\ ~ Works(w) /\ req[r].state \in Awaiting
    BY <1>2 DEF BeginDispatch, webVars, Works, NoAgent
  <2> QED BY <1>1, <1>2, <2>1, <2>2 DEF BeginDispatch, BeginMove, Go
<1>3. ASSUME NEW w \in Workers, Running(w), Abandon(w), Exit(w, "killed")
      PROVE  Abandons(w) /\ \A v \in Workers \ {w} : agent'[v] = agent[v]
  BY <1>3, ExitStage DEF Abandon, Abandons
<1>4. ASSUME NEW w \in Workers, Kill(w) PROVE KillMove(w)
  BY <1>3, <1>4 DEF Kill, KillMove, webVars
<1>5. ASSUME NEW w \in Workers, Expire(w) PROVE ExpireMove(w)
  <2>1. disp' = [disp EXCEPT ![w].expired = TRUE]
    BY <1>1, <1>5 DEF Expire, Go
  <2>2. CASE Running(w)
    BY <1>3, <1>5, <2>1, <2>2 DEF Expire, ExpireMove, webVars, Busy
  <2>3. CASE ~ Running(w)
    BY <1>5, <2>1, <2>3 DEF Expire, ExpireMove, webVars, Busy
  <2> QED BY <2>2, <2>3
<1>6. ASSUME NEW c \in late, LateCommand(c) \/ LateDrop(c) PROVE LateMove(c)
  BY <1>6 DEF LateCommand, LateDrop, LateMove, webVars
<1>7. CASE \E n \in RuleIds : EngineerEdits(n)
  <2>1. PICK n \in RuleIds : EngineerEdits(n)
    BY <1>7
  <2>2. PICK entry \in EngineersRules \cup {Absent} : running' = WithRule(running, n, entry)
    BY <2>1 DEF EngineerEdits
  <2>3. ASSUME NEW m \in RuleIds
        PROVE  running'[m] \in {running[m], Absent} \/ running'[m].by = Human
    BY <1>1, <2>2 DEF WithRule, EngineersRules, Configs
  <2> QED BY <2>1, <2>3 DEF EngineerEdits, EditMove, webVars, Moves
<1>8. CASE EngineerSaves
  BY <1>8 DEF EngineerSaves, EditMove, webVars, Moves
<1>9. CASE Reboot
  <2>1. ASSUME NEW w \in Workers
        PROVE  IF Running(w) THEN Finishes(w, "failed") ELSE agent'[w] = agent[w]
    BY <1>1, <1>9 DEF Reboot, Finishes, Changes, AgentType
  <2> QED BY <1>9, <2>1 DEF Reboot, RebootMove, webVars, Moves
<1>10. CASE Crash
  BY <1>10 DEF Crash, CrashMove, Blank, Moves
<1>11. CASE UNCHANGED vars
  BY <1>11 DEF vars, switchVars, Moves
<1> QED
  BY <1>2, <1>4, <1>5, <1>6, <1>7, <1>8, <1>9, <1>10, <1>11, DeskMoveOf, HandlerMoves,
     AgentMoves
  DEF Next, Moves, Switch, Machine

(* What is known of a step, whatever else it does: no row and no           *)
(* disturbance is forgotten.                                               *)
Grows == \A kind \in DOMAIN Limit : spent'[kind] >= spent[kind]
Steps ==
  /\ TypeOK /\ TypeOK' /\ WorkflowInv /\ WorkflowInv'
  /\ RowsKept /\ Grows /\ Moves

(* A step of the workflow keeps types, the workflow invariant and the rows. *)
LEMMA NextSteps ==
  ASSUME TypeOK, WorkflowInv, [Next]_vars
  PROVE  Steps
<1>1. TypeOK' /\ WorkflowInv'
  BY TypeStep, InvStep
<1> QED BY <1>1, StepKeeps, SpentGrows, StepMoves DEF Steps, Grows, TypeOK

Kinds == {"edit", "fault", "lost", "kill", "expiry", "crash", "reboot", "unchecked"}

(* A kind of disturbance that has not occurred had not occurred before,    *)
(* and is not the one that occurs.                                         *)
LEMMA CalmBefore ==
  ASSUME HistoryOK, NEW kinds \in SUBSET Kinds, Calm(kinds)'
  PROVE  /\ Grows => Calm(kinds)
         /\ \A kind \in kinds : ~ Spend(kind)
<1>1. Kinds = DOMAIN Limit
  BY DEF Limit, Kinds
<1>2. spent \in [Kinds -> Nat]
  BY <1>1 DEF HistoryOK
<1>3. ASSUME NEW kind \in kinds PROVE (Grows => spent[kind] = 0) /\ ~ Spend(kind)
  <2>1. spent'[kind] = 0 /\ spent[kind] \in Nat
    BY <1>2, <1>3 DEF Calm
  <2>2. Grows => spent'[kind] >= spent[kind]
    BY <1>1, <1>3 DEF Grows
  <2>3. Spend(kind) => spent'[kind] = spent[kind] + 1
    BY <1>2, <1>3 DEF Spend
  <2> QED BY <2>1, <2>2, <2>3
<1> QED BY <1>3 DEF Calm

(* A command changes nothing but the entry under its number, a save        *)
(* nothing but the startup configuration.                                  *)
LEMMA ExecuteDoes ==
  ASSUME SwitchOK, NEW c \in CommandType, Accepted(c), Execute(c)
  PROVE  /\ \A n \in RuleIds \ {c.rule} : running'[n] = running[n]
         /\ c.op = "rule" => /\ running'[c.rule] # Absent
                             /\ running'[c.rule].by = c.by
         /\ c.op = "comment" => /\ running[c.rule] # Absent
                                /\ running'[c.rule] # Absent
                                /\ running'[c.rule].by = running[c.rule].by
         /\ c.op = "undo" => running'[c.rule] = Absent
         /\ c.op = "save" => running' = running /\ saved' = running
         /\ c.op # "save" => saved' = saved
<1>1. /\ running \in Configs /\ c.rule \in RuleIds /\ c.op \in Sending
      /\ c.op = "rule" => c.body \in Bodies /\ c.by \in Requests
      /\ c.by \in Requests
  BY DEF SwitchOK, CommandType
<1>2. CASE c.op = "rule"
  <2> DEFINE entry == [body |-> c.body, by |-> c.by,
                       note |-> IF running[c.rule] = Absent THEN None ELSE running[c.rule].note]
  <2>1. running' = [running EXCEPT ![c.rule] = entry] /\ saved' = saved
    BY <1>2 DEF Execute, WithRule
  <2>2. entry.by = c.by /\ entry \in Entries
    BY <1>1, <1>2 DEF Entries, Configs
  <2>3. entry # Absent
    BY <2>2, WorkflowAssumption
  <2> HIDE DEF entry
  <2> QED BY <1>1, <1>2, <2>1, <2>2, <2>3 DEF Configs
<1>3. CASE c.op = "comment"
  <2> DEFINE entry == [running[c.rule] EXCEPT !.note = c.by]
  <2>1. running' = [running EXCEPT ![c.rule] = entry] /\ saved' = saved
    BY <1>3 DEF Execute, WithRule
  <2>2. running[c.rule] # Absent
    BY <1>3 DEF Accepted, Holds, Occupied
  <2>3. running[c.rule] \in Entries
    BY <1>1, <2>2 DEF Configs
  <2>4. entry \in Entries /\ entry.by = running[c.rule].by
    BY <1>1, <2>3 DEF Entries
  <2>5. entry # Absent
    BY <2>4, WorkflowAssumption
  <2> HIDE DEF entry
  <2> QED BY <1>1, <1>3, <2>1, <2>2, <2>4, <2>5 DEF Configs
<1>4. CASE c.op = "undo"
  BY <1>1, <1>4 DEF Execute, WithoutRule, Configs
<1>5. CASE c.op = "save"
  BY <1>1, <1>5 DEF Execute
<1> QED BY <1>1, <1>2, <1>3, <1>4, <1>5 DEF Sending

-----------------------------------------------------------------------------
(* Staff                                                                   *)

(* Handlers and agents that are at work name rows of the table.            *)
LEMMA Named ==
  ASSUME TypeOK, NEW w \in Workers
  PROVE  /\ Busy(w) => disp[w].req \in Rows
         /\ Works(w) => agent[w].req \in Rows
         /\ Rows \subseteq Requests
BY DEF TypeOK, HandlersOK, AgentsOK, Rows, Busy, Works

(* A handler's step takes no row but its own out of 'dispatching', and its *)
(* own only when it is through with the agents.                            *)
LEMMA DispatchingStays ==
  ASSUME TypeOK, WorkflowInv, NEW w \in Workers, HandlerMove(w), NEW q \in Requests,
         req[q].state = "dispatching"
  PROVE  \/ req'[q].state = "dispatching"
         \/ q = disp[w].req /\ disp[w].pc \in {"decide", "settle"}
<1>1. disp[w].req \in Requests /\ HandlerOwnsRow(w)
  BY Named DEF HandlerMove, WorkflowInv
<1>2. CASE Prepares(w)
  BY <1>1, <1>2 DEF Prepares, Records, HandlerOwnsRow, HandlerMove, Busy, At, BeforeClaim
<1>3. CASE UNCHANGED req
  BY <1>3
<1>4. CASE Concludes(w)
  BY <1>1, <1>4 DEF Concludes, Records, Retired, At
<1> QED BY <1>2, <1>3, <1>4 DEF HandlerMove

(* A row in hand after the step was in hand before, or has just been       *)
(* claimed.                                                                *)
LEMMA StaffHandler ==
  ASSUME Steps, StaffInv, NEW w \in Workers, HandlerMove(w)
  PROVE  StaffInv'
<1>1. /\ TypeOK /\ WorkflowInv /\ RowsKept /\ Busy(w)
      /\ \A v \in Workers \ {w} : disp'[v] = disp[v] /\ agent'[v] = agent[v] /\ At(v, "idle")
  BY OthersIdle DEF Steps, HandlerMove, Busy
<1>2. /\ disp[w].req \in Rows
      /\ \A v \in Workers : Works(v) => agent[v].req \in Rows
      /\ Rows \subseteq Requests
  BY <1>1, Named
<1>3. \A q \in Rows : req'[q].action = req[q].action
  BY <1>1 DEF RowsKept, Kept
<1>4. OwnAgent(w) /\ AgentOnRow(w)
  BY DEF StaffInv
<1>5. ASSUME NEW v \in Workers \ {w} PROVE OwnAgent(v)' /\ AgentOnRow(v)'
  <2>1. OwnAgent(v)'
    BY <1>1, <1>5 DEF OwnAgent, Busy, At
  <2>2. Works(v) => req'[agent[v].req].state = "dispatching"
    BY <1>1, <1>2, <1>4, <1>5, DispatchingStays DEF AgentOnRow, StaffInv, InHand, AfterClaim
  <2>3. AgentOnRow(v)'
    BY <1>1, <1>2, <1>3, <1>5, <2>2 DEF AgentOnRow, StaffInv, At, Works, IsAdd, InHand, AfterClaim
  <2> QED BY <2>1, <2>3
<1>6. ASSUME NEW v \in Workers \ {w}, Works(v) PROVE req[agent[v].req].state = "dispatching"
  BY <1>6 DEF StaffInv, AgentOnRow
<1>7. OwnAgent(w)' /\ AgentOnRow(w)'
  <2>1. CASE Prepares(w) /\ UNCHANGED agent
    <3>1. ~ Works(w)
      BY <1>1, <1>4, <2>1 DEF OwnAgent, Prepares, BeforeClaim, At, Busy
    <3>2. disp'[w].pc \in {"idle", "compare", "launch"}
      BY <2>1 DEF Prepares, Turns, Ends, Idle
    <3>3. ASSUME disp'[w].pc = "launch", NEW v \in Workers \ {w}, Works(v)
          PROVE  agent[v].req # disp'[w].req
      BY <1>6, <2>1, <3>3 DEF Prepares, Turns, Ends, Idle, Awaiting
    <3>4. agent'[w].pc = "none" /\ agent'[w].job \in {"none", "apply", "rollback"}
      BY <2>1, <3>1, <1>1 DEF Works, TypeOK, AgentsOK, AgentType
    <3> QED BY <1>1, <1>4, <2>1, <3>1, <3>2, <3>3, <3>4
        DEF OwnAgent, AgentOnRow, Works, Busy, At, InHand, AfterClaim
  <2>2. CASE Starts(w) /\ Recalls(w) /\ UNCHANGED req
    <3>1. req[disp[w].req].state = "dispatching"
      BY <1>1, <2>2 DEF WorkflowInv, HandlerOwnsRow, Starts, AfterClaim, At
    <3> QED BY <1>1, <1>2, <1>4, <2>2, <3>1
        DEF Starts, Turns, OwnAgent, AgentOnRow, Works, Busy, At, InHand, AfterClaim, IsAdd
  <2>3. CASE Hears(w) /\ Recalls(w) /\ UNCHANGED req
    BY <1>1, <1>2, <1>4, <2>3
    DEF Hears, Turns, NoAgent, OwnAgent, AgentOnRow, Works, Busy, At, InHand, AfterClaim, IsAdd
  <2>4. CASE Carries(w) /\ Recalls(w) /\ UNCHANGED <<req, agent>>
    BY <1>1, <1>2, <1>4, <2>4
    DEF Carries, Turns, OwnAgent, AgentOnRow, Works, Busy, At, InHand, AfterClaim, IsAdd,
        AfterFailure
  <2>5. CASE Concludes(w) /\ UNCHANGED agent
    <3>1. ~ Works(w) /\ disp'[w].pc \in {"idle", "retire"}
      BY <1>1, <1>4, <2>5 DEF OwnAgent, Concludes, At, Busy, Turns, Ends, Idle
    <3>2. disp'[w].pc = "retire" => disp'[w].req = disp[w].req /\ At(w, "decide")
      BY <2>5 DEF Concludes, Turns, Ends, Idle
    <3> QED BY <1>1, <1>2, <1>4, <2>5, <3>1, <3>2
        DEF OwnAgent, AgentOnRow, Works, Busy, At, InHand, AfterClaim
  <2> QED BY <2>1, <2>2, <2>3, <2>4, <2>5 DEF HandlerMove
<1> QED BY <1>5, <1>7 DEF StaffInv

(* Agents go on with the job and the row they were given.                  *)
LEMMA StaffAgent ==
  ASSUME Steps, StaffInv, NEW w \in Workers,
         AgentMove(w) \/ KillMove(w) \/ ExpireMove(w)
  PROVE  StaffInv'
<1>1. /\ TypeOK /\ UNCHANGED req
      /\ \A v \in Workers \ {w} : agent'[v] = agent[v]
  BY DEF Steps, AgentMove, KillMove, ExpireMove
<1>2. disp \in [Workers -> HandlerType] /\ agent \in [Workers -> AgentType]
  BY <1>1 DEF TypeOK, HandlersOK, AgentsOK
<1>3. ASSUME NEW v \in Workers
      PROVE  disp'[v].pc = disp[v].pc /\ disp'[v].req = disp[v].req
  BY <1>2 DEF AgentMove, KillMove, ExpireMove, HandlerType
<1>4. OwnAgent(w) /\ AgentOnRow(w)
  BY DEF StaffInv
<1>5. \/ /\ agent'[w].job = agent[w].job /\ agent'[w].req = agent[w].req
         /\ Works(w) /\ Works(w)'
         /\ agent[w].job = "rollback" => agent'[w].pc = "done"
      \/ agent'[w] = NoAgent /\ At(w, "idle")
      \/ agent'[w] = agent[w]
  <2>1. ASSUME Abandons(w)
        PROVE /\ agent'[w].job = agent[w].job /\ agent'[w].req = agent[w].req
              /\ Works(w) /\ agent'[w].pc = "done"
    BY <2>1 DEF Abandons, Finishes, Changes, Works, Running, Stages, Sending
  <2>2. CASE KillMove(w) \/ ExpireMove(w)
    BY <2>1, <2>2 DEF KillMove, ExpireMove, Works
  <2>3. CASE AgentMove(w)
    <3>1. CASE Guards(w) \/ Performs(w) \/ GivesUp(w)
      BY <1>4, <2>3, <3>1 DEF AgentMove, Guards, Performs, GivesUp, Advances, Finishes, Changes,
                    Works, AgentOnRow
    <3>2. CASE Vanishes(w)
      BY <3>2 DEF Vanishes
    <3> QED BY <2>3, <3>1, <3>2 DEF AgentMove
  <2> QED BY <2>2, <2>3
<1>6. OwnAgent(w)' /\ AgentOnRow(w)'
  <2>1. NoAgent.pc = "none" /\ NoAgent.job = "none"
    BY DEF NoAgent
  <2>2. ASSUME NEW v \in Workers \ {w} PROVE Works(v)' <=> Works(v)
    BY <1>1 DEF Works
  <2>3. OwnAgent(w)'
    BY <1>1, <1>3, <1>4, <1>5, <2>1 DEF OwnAgent, Works, Busy, At
  <2>4. AgentOnRow(w)'
    BY <1>1, <1>3, <1>4, <1>5, <2>1, <2>2 DEF AgentOnRow, Works, At, IsAdd
  <2> QED BY <2>3, <2>4
<1>7. ASSUME NEW v \in Workers \ {w} PROVE OwnAgent(v)' /\ AgentOnRow(v)'
  <2>1. OwnAgent(v) /\ AgentOnRow(v)
    BY DEF StaffInv
  <2>2. OwnAgent(v)'
    BY <1>1, <1>3, <2>1 DEF OwnAgent, Works, Busy, At
  <2>3. ASSUME disp[v].pc \in InHand, NEW u \in Workers \ {v}, Works(u)'
        PROVE  agent'[u].req # disp[v].req
    <3>1. Works(u) => agent[u].req # disp[v].req
      BY <2>1, <2>3 DEF AgentOnRow
    <3>2. CASE u = w
      BY <1>5, <2>3, <3>1, <3>2 DEF Works, NoAgent
    <3>3. CASE u # w
      BY <1>1, <2>3, <3>1, <3>3 DEF Works
    <3> QED BY <3>2, <3>3
  <2>4. AgentOnRow(v)'
    BY <1>1, <1>3, <2>1, <2>3 DEF AgentOnRow, Works, At, IsAdd
  <2> QED BY <2>2, <2>4
<1> QED BY <1>6, <1>7 DEF StaffInv

(* Neither the desk nor the switch nor a crash gives anybody a new row.    *)
LEMMA StaffStep ==
  ASSUME Steps, StaffInv
  PROVE  StaffInv'
<1>1. /\ TypeOK /\ RowsKept
      /\ disp \in [Workers -> HandlerType] /\ agent \in [Workers -> AgentType]
  BY DEF Steps, TypeOK, HandlersOK, AgentsOK
<1>2. \A q \in Rows : req'[q].action = req[q].action
  BY <1>1 DEF RowsKept, Kept
<1>3. ASSUME NEW v \in Workers
      PROVE  /\ OwnAgent(v) /\ AgentOnRow(v)
             /\ Busy(v) => disp[v].req \in Rows
             /\ Works(v) => agent[v].req \in Rows
             /\ Rows \subseteq Requests
  BY <1>1, Named DEF StaffInv
<1>4. ASSUME UNCHANGED agent,
             \A q \in Requests : req[q].state = "dispatching" => req'[q].state = "dispatching",
             \A v \in Workers : \/ disp'[v] = disp[v]
                                \/ disp'[v].pc = "idle"
                                \/ disp'[v].pc = "snapshot" /\ ~ Works(v)
      PROVE  StaffInv'
  <2> SUFFICES ASSUME NEW v \in Workers PROVE OwnAgent(v)' /\ AgentOnRow(v)'
    BY DEF StaffInv
  <2>1. OwnAgent(v)'
    BY <1>3, <1>4 DEF OwnAgent, Works, Busy, At
  <2>2. disp'[v].pc \in InHand \cup {"rollback", "undoing"} => disp'[v] = disp[v]
    BY <1>4 DEF InHand, AfterClaim
  <2>3. AgentOnRow(v)'
    BY <1>2, <1>3, <1>4, <2>2 DEF AgentOnRow, Works, Busy, At, IsAdd
  <2> QED BY <2>1, <2>3
<1>5. CASE UNCHANGED <<req, switchVars, mutex, disp, agent>>
  BY <1>4, <1>5
<1>6. ASSUME NEW r \in Requests, DeskMove(r) PROVE StaffInv'
  <2>1. req[r].state # "dispatching"
    BY <1>6 DEF DeskMove, Draws, DraftStates
  <2> QED BY <1>4, <1>6, <2>1 DEF DeskMove
<1>7. ASSUME NEW w \in Workers, NEW r \in Requests, BeginMove(w, r) PROVE StaffInv'
  BY <1>4, <1>7 DEF BeginMove, Idle
<1>8. ASSUME NEW c \in late, LateMove(c) PROVE StaffInv'
  BY <1>4, <1>8 DEF LateMove
<1>9. CASE EditMove
  BY <1>4, <1>9 DEF EditMove
<1>10. CASE RebootMove
  <2>1. \A v \in Workers : /\ agent'[v].job = agent[v].job /\ agent'[v].req = agent[v].req
                           /\ Works(v)' <=> Works(v)
                           /\ agent'[v].pc \in {agent[v].pc, "done"}
    BY <1>10 DEF RebootMove, Finishes, Changes, Running, Works, Stages, Sending
  <2>2. UNCHANGED <<req, disp>>
    BY <1>10 DEF RebootMove
  <2> SUFFICES ASSUME NEW v \in Workers PROVE OwnAgent(v)' /\ AgentOnRow(v)'
    BY DEF StaffInv
  <2> QED BY <1>3, <2>1, <2>2 DEF OwnAgent, AgentOnRow, Busy, At, IsAdd
<1>11. CASE CrashMove
  <2>1. \A q \in Requests : req[q].state = "dispatching" => req'[q].state = "dispatching"
    BY <1>11 DEF CrashMove, Rows, RowStates
  <2> QED BY <1>4, <1>11, <2>1 DEF CrashMove, Idle
<1> QED
  BY <1>5, <1>6, <1>7, <1>8, <1>9, <1>10, <1>11, StaffHandler, StaffAgent DEF Steps, Moves

-----------------------------------------------------------------------------
(* Authors                                                                 *)

(* Entries stay in order under their authors' numbers when every new entry *)
(* is an engineer's or one of the request whose number it stands under.    *)
LEMMA AuthoredStays ==
  ASSUME Steps, NEW config, NEW next, Authored(config),
         \A n \in RuleIds :
           \/ next[n] = config[n]
           \/ next[n] = Absent
           \/ next[n].by \notin Requests
           \/ config[n] # Absent /\ next[n].by = config[n].by
           \/ next[n].by \in Rows /\ IsAdd(next[n].by) /\ req[next[n].by].rule = n
  PROVE  \A n \in RuleIds : next[n] # Absent /\ next[n].by \in Requests =>
           LET r == next[n].by IN r \in Rows' /\ req'[r].action = "add_rule" /\ req'[r].rule = n
<1>1. Rows \subseteq Rows'
  BY StillThere DEF Steps
<1>2. \A r \in Rows : req'[r].action = req[r].action /\ req'[r].rule = req[r].rule
  BY DEF Steps, RowsKept, Kept
<1> QED BY <1>1, <1>2 DEF Authored, IsAdd

(* The command an agent is about to send.                                  *)
LEMMA CommandIs ==
  ASSUME TypeOK, NEW w \in Workers, agent[w].pc \in Sending
  PROVE  /\ Command(w) \in CommandType
         /\ Command(w).op = agent[w].pc /\ Command(w).by = agent[w].req
         /\ Command(w).rule = req[agent[w].req].rule
         /\ agent[w].req \in Rows
         /\ agent[w].pc = "rule" => IsAdd(agent[w].req)
BY CommandOK DEF Command, RuleOf, TypeOK, AgentsOK, Sending

(* What a command writes is in order, and so is what a save copies.        *)
LEMMA ExecuteAuthors ==
  ASSUME Steps, Authored(running), Authored(saved), NEW c \in CommandType,
         c.by \in Rows, c.rule = req[c.by].rule, Writes(c) => IsAdd(c.by),
         Accepted(c), Execute(c)
  PROVE  Authored(running)' /\ Authored(saved)'
<1>1. SwitchOK /\ c.op \in Sending
  BY DEF Steps, TypeOK, CommandType
<1>2. \A n \in RuleIds :
           \/ running'[n] = running[n]
           \/ running'[n] = Absent
           \/ running[n] # Absent /\ running'[n].by = running[n].by
           \/ running'[n].by \in Rows /\ IsAdd(running'[n].by) /\ req[running'[n].by].rule = n
  BY <1>1, ExecuteDoes DEF Sending, Writes
<1>3. Authored(running)'
  BY <1>2, AuthoredStays DEF Authored, IsAdd
<1>4. saved' = saved \/ saved' = running
  BY <1>1, ExecuteDoes
<1>5. \A config : Authored(config) =>
        \A n \in RuleIds : config[n] # Absent /\ config[n].by \in Requests =>
           LET r == config[n].by IN r \in Rows' /\ req'[r].action = "add_rule" /\ req'[r].rule = n
  BY AuthoredStays
<1>6. Authored(saved)'
  BY <1>4, <1>5 DEF Authored, IsAdd
<1> QED BY <1>3, <1>6

(* Both configurations stay in order.                                      *)
LEMMA AuthoredStep ==
  ASSUME Steps, AuthorInv
  PROVE  Authored(running)' /\ Authored(saved)'
<1>1. TypeOK /\ Authored(running) /\ Authored(saved)
  BY DEF Steps, AuthorInv
<1>2. \A config : Authored(config) =>
        \A n \in RuleIds : config[n] # Absent /\ config[n].by \in Requests =>
           LET r == config[n].by IN r \in Rows' /\ req'[r].action = "add_rule" /\ req'[r].rule = n
  BY AuthoredStays
<1>3. ASSUME running' \in {running, saved}, saved' \in {running, saved}
      PROVE  Authored(running)' /\ Authored(saved)'
  BY <1>1, <1>2, <1>3 DEF Authored, IsAdd
<1>4. ASSUME NEW w \in Workers, AgentMove(w) PROVE Authored(running)' /\ Authored(saved)'
  <2>1. CASE Performs(w)
    BY <1>1, <2>1, CommandIs, ExecuteAuthors DEF Performs, Writes
  <2>2. CASE UNCHANGED <<running, saved>>
    BY <1>3, <2>2
  <2> QED BY <1>4, <2>1, <2>2 DEF AgentMove, Guards, GivesUp, Vanishes, switchVars
<1>5. ASSUME NEW c \in late, LateMove(c) PROVE Authored(running)' /\ Authored(saved)'
  <2>1. /\ c \in CommandType /\ c.by \in Rows /\ c.rule = req[c.by].rule
        /\ c.by \in Requests
    BY <1>1 DEF AuthorInv, TypeOK, SwitchOK, Rows
  <2>2. Writes(c) => IsAdd(c.by)
    BY <2>1 DEF AuthorInv, LateOnRow, LateRule
  <2>3. CASE UNCHANGED <<running, saved>>
    BY <1>3, <2>3
  <2>4. CASE Accepted(c) /\ Execute(c)
    BY <1>1, <2>1, <2>2, <2>4, ExecuteAuthors
  <2> QED BY <1>5, <2>3, <2>4 DEF LateMove
<1>6. CASE EditMove
  <2>1. CASE UNCHANGED running /\ saved' = running
    BY <1>3, <2>1
  <2>2. CASE UNCHANGED saved
    <3>1. Authored(saved)'
      BY <1>1, <1>2, <2>2 DEF Authored, IsAdd
    <3>2. \A n \in RuleIds : \/ running'[n] = running[n]
                             \/ running'[n] = Absent
                             \/ running'[n].by \notin Requests
      BY <1>3, <1>6, WorkflowAssumption DEF EditMove
    <3>3. Authored(running)'
      BY <1>1, <3>2, AuthoredStays DEF Authored, IsAdd
    <3> QED BY <3>1, <3>3
  <2> QED BY <1>6, <2>1, <2>2 DEF EditMove
<1>7. CASE UNCHANGED switchVars
  BY <1>3, <1>7 DEF switchVars
<1>8. CASE RebootMove
  BY <1>3, <1>8 DEF RebootMove
<1>9. ASSUME NEW w \in Workers, KillMove(w) \/ ExpireMove(w)
      PROVE  Authored(running)' /\ Authored(saved)'
  BY <1>3, <1>9 DEF KillMove, ExpireMove
<1> QED
  BY <1>4, <1>5, <1>6, <1>7, <1>8, <1>9
  DEF Steps, Moves, DeskMove, BeginMove, HandlerMove, CrashMove, switchVars

(* Only agents that give up, or are killed, leave commands behind.         *)
Leaves(w) ==
  /\ agent[w].pc \in Sending /\ late' = late \cup {Command(w)}
  /\ UNCHANGED <<req, running, saved>>
  /\ agent[w].pc = "rule" => (Finishes(w, "failed") \/ Finishes(w, "killed"))
  /\ \A v \in Workers : disp'[v].pc = disp[v].pc /\ disp'[v].req = disp[v].req
                        /\ disp'[v].result = disp[v].result
  /\ \A v \in Workers \ {w} : agent'[v] = agent[v]

(* Nothing else adds to the commands left behind.                          *)
LEMMA LateGrows ==
  ASSUME Steps
  PROVE  \/ late' \subseteq late
         \/ \E w \in Workers : Leaves(w)
<1>1. disp \in [Workers -> HandlerType]
  BY DEF Steps, TypeOK, HandlersOK
<1>2. ASSUME NEW w \in Workers, AgentMove(w) PROVE late' \subseteq late \/ Leaves(w)
  <2>1. CASE UNCHANGED late
    BY <2>1
  <2>2. CASE GivesUp(w)
    BY <1>2, <2>2 DEF AgentMove, GivesUp, Leaves
  <2> QED BY <1>2, <2>1, <2>2 DEF AgentMove, Guards, Performs, Vanishes, switchVars
<1>3. ASSUME NEW w \in Workers, KillMove(w) \/ ExpireMove(w) PROVE late' \subseteq late \/ Leaves(w)
  <2>1. /\ UNCHANGED <<req, running, saved>>
        /\ \A v \in Workers : disp'[v].pc = disp[v].pc /\ disp'[v].req = disp[v].req
                              /\ disp'[v].result = disp[v].result
        /\ \A v \in Workers \ {w} : agent'[v] = agent[v]
    BY <1>1, <1>3 DEF KillMove, ExpireMove, HandlerType
  <2> QED BY <1>3, <2>1 DEF KillMove, ExpireMove, Abandons, Leaves
<1>4. ASSUME NEW c \in late, LateMove(c) PROVE late' \subseteq late
  BY <1>4 DEF LateMove
<1> QED
  BY <1>2, <1>3, <1>4 DEF Steps, Moves, DeskMove, BeginMove, HandlerMove, CrashMove, RebootMove,
                          EditMove, switchVars

(* Where a command of a row is left behind, the row is 'dispatching', and  *)
(* its handler will not hear of a success.                                 *)
LEMMA LateBegins ==
  ASSUME Steps, StaffInv, NEW w \in Workers, Leaves(w), agent[w].pc = "rule",
         NEW r \in Requests, agent[w].req = r
  PROVE  /\ r \in Rows' /\ IsAdd(r)' /\ req'[r].state = "dispatching"
         /\ \A v \in Workers : (Busy(v) /\ disp[v].req = r => NoSuccess(v))'
<1>1. /\ TypeOK /\ WorkflowInv /\ RowsKept /\ UNCHANGED req
      /\ r \in Rows /\ IsAdd(r) /\ req[r].state = "dispatching"
      /\ OwnAgent(w)
  BY CommandIs DEF Steps, Leaves, StaffInv, AgentOnRow, Works, Sending
<1>2. r \in Rows' /\ IsAdd(r)' /\ req'[r].state = "dispatching"
  BY <1>1 DEF Rows, IsAdd
<1>3. agent'[w].pc = "done" /\ agent'[w].result # "ok"
  BY DEF Leaves, Finishes, Changes
<1>4. ASSUME NEW v \in Workers, Busy(v)', disp'[v].req = r PROVE NoSuccess(v)'
  <2>1. Busy(v) /\ disp[v].req = r /\ disp'[v].pc = disp[v].pc /\ HandlerOwnsRow(v)
    BY <1>1, <1>4 DEF Leaves, Busy, At, WorkflowInv
  <2>2. disp[v].pc \in AfterClaim
    BY <1>1, <2>1 DEF HandlerOwnsRow, Busy, At, BeforeClaim, TypeOK, HandlersOK, HandlerType,
                      AfterClaim
  <2>3. v = w
    BY <1>1, <2>1, <2>2 DEF StaffInv, AgentOnRow, InHand, Works, Sending
  <2>4. disp[w].pc \in {"apply", "undoing"}
    BY <1>1, <2>1, <2>3 DEF OwnAgent, Works, Busy
  <2>5. disp'[w].pc \in {"apply", "undoing"}
    BY <2>1, <2>3, <2>4
  <2> QED BY <1>3, <2>3, <2>5 DEF NoSuccess, At, BeforeClaim
<1> QED BY <1>2, <1>4

(* A handler that has heard of no success, or will hear of none, records   *)
(* none.                                                                   *)
LEMMA LateStaysHandler ==
  ASSUME Steps, AuthorInv, NEW r \in Requests, LateRule(r),
         NEW w \in Workers, HandlerMove(w), disp[w].req = r
  PROVE  /\ req'[r].state \in {"dispatching", "dispatch_failed", "inconsistent"}
         /\ (Busy(w) /\ disp[w].req = r => NoSuccess(w))'
<1>1. /\ IsAdd(r) /\ req[r].state \in {"dispatching", "dispatch_failed", "inconsistent"}
      /\ NoSuccess(w)
  BY DEF AuthorInv, LateOnRow, HandlerMove
<1>2. CASE Prepares(w)
  BY <1>1, <1>2 DEF Prepares, NoSuccess, At, BeforeClaim
<1>3. CASE Starts(w) /\ UNCHANGED req
  BY <1>1, <1>3 DEF Starts, Turns, NoSuccess, At, BeforeClaim
<1>4. CASE Hears(w) /\ UNCHANGED req
  BY <1>1, <1>4 DEF Hears, Turns, NoSuccess, At, BeforeClaim
<1>5. CASE Carries(w) /\ UNCHANGED <<req, agent>>
  BY <1>1, <1>5 DEF Carries, Turns, NoSuccess, At, BeforeClaim, AfterFailure
<1>6. CASE Concludes(w)
  <2>1. At(w, "decide") => ~ Succeeded(w)
    BY <1>1 DEF NoSuccess, Succeeded, At
  <2>2. Ends(w) /\ (Records(w, "inconsistent") \/ Records(w, FailureState(disp[w].pre, disp[w].post)))
    BY <1>1, <1>6, <2>1 DEF Concludes, NoSuccess, At
  <2>3. disp'[w].pc = "idle"
    BY <2>2 DEF Ends, Idle
  <2> QED BY <1>1, <2>2, <2>3 DEF Records, FailureState, Busy, At
<1> QED BY <1>2, <1>3, <1>4, <1>5, <1>6 DEF HandlerMove

(* A row with a late rule command keeps its promise: it is dispatching, or *)
(* settled as anything but done.                                           *)
LEMMA LateStays ==
  ASSUME Steps, AuthorInv, NEW r \in Requests, LateRule(r), late' \subseteq late, LateRule(r)'
  PROVE  LateOnRow(r)'
<1>1. /\ TypeOK /\ RowsKept /\ WorkflowInv
      /\ r \in Rows /\ IsAdd(r)
      /\ req[r].state \in {"dispatching", "dispatch_failed", "inconsistent"}
      /\ \A w \in Workers : Busy(w) /\ disp[w].req = r => NoSuccess(w)
  BY DEF Steps, AuthorInv, LateOnRow
<1>2. r \in Rows' /\ IsAdd(r)'
  BY <1>1, StillThere DEF RowsKept, Kept, IsAdd
<1>3. disp \in [Workers -> HandlerType] /\ agent \in [Workers -> AgentType]
  BY <1>1 DEF TypeOK, HandlersOK, AgentsOK
<1> SUFFICES /\ req'[r].state \in {"dispatching", "dispatch_failed", "inconsistent"}
             /\ \A v \in Workers : (Busy(v) /\ disp[v].req = r => NoSuccess(v))'
  BY <1>2 DEF LateOnRow
<1> DEFINE Stays(v) == (Busy(v) /\ disp[v].req = r => NoSuccess(v))'
<1>4. ASSUME NEW v \in Workers,
             \/ disp'[v].pc = "idle"
             \/ /\ disp'[v].pc = disp[v].pc /\ disp'[v].req = disp[v].req
                /\ disp'[v].result = disp[v].result
                /\ \/ agent'[v] = agent[v]
                   \/ agent'[v].pc = "done" /\ agent'[v].result # "ok"
                   \/ agent[v].pc # "done"
      PROVE  Stays(v)
  BY <1>1, <1>4 DEF NoSuccess, Busy, At
<1>5. ASSUME NEW w \in Workers, HandlerMove(w)
      PROVE  /\ req'[r].state \in {"dispatching", "dispatch_failed", "inconsistent"}
             /\ \A v \in Workers : Stays(v)
  <2>1. \A v \in Workers \ {w} : Stays(v)
    BY <1>4, <1>5 DEF HandlerMove
  <2>2. CASE disp[w].req = r
    BY <1>5, <2>1, <2>2, LateStaysHandler
  <2>3. CASE disp[w].req # r
    <3>1. disp'[w].req # r \/ disp'[w].pc = "idle"
      BY <1>5, <2>3
      DEF HandlerMove, Prepares, Starts, Hears, Carries, Concludes, Turns, Ends, Idle
    <3>2. req'[r].state = req[r].state
      BY <1>1, <1>5, <2>3
      DEF HandlerMove, Prepares, Concludes, Records, Retired
    <3> QED BY <1>1, <2>1, <3>1, <3>2 DEF Busy, At
  <2> QED BY <2>2, <2>3
<1>6. ASSUME NEW w \in Workers, AgentMove(w) PROVE \A v \in Workers : Stays(v)
  <2>1. disp'[w].pc = "idle" \/ agent[w].pc # "done" \/ agent'[w] = agent[w]
    BY <1>6 DEF AgentMove, Guards, Performs, GivesUp, Vanishes, Running, Stages, Sending, At
  <2> QED BY <1>4, <1>6, <2>1 DEF AgentMove
<1>7. ASSUME NEW w \in Workers, KillMove(w) \/ ExpireMove(w) PROVE \A v \in Workers : Stays(v)
  <2>1. \A v \in Workers : /\ disp'[v].pc = disp[v].pc /\ disp'[v].req = disp[v].req
                           /\ disp'[v].result = disp[v].result
    BY <1>3, <1>7 DEF KillMove, ExpireMove, HandlerType
  <2>2. agent[w].pc # "done" \/ agent'[w] = agent[w]
    BY <1>7 DEF KillMove, ExpireMove, Abandons, Running, Stages, Sending
  <2> QED BY <1>4, <1>7, <2>1, <2>2 DEF KillMove, ExpireMove
<1>8. ASSUME NEW w \in Workers, NEW q \in Requests, BeginMove(w, q)
      PROVE  \A v \in Workers : Stays(v)
  <2>1. q # r /\ disp'[w].req = q
    BY <1>1, <1>8 DEF BeginMove, Awaiting, Idle
  <2> QED BY <1>4, <1>8, <2>1 DEF BeginMove, Busy, At
<1>9. ASSUME NEW q \in Requests, DeskMove(q)
      PROVE  req'[r] = req[r] /\ \A v \in Workers : Stays(v)
  BY <1>1, <1>4, <1>9 DEF DeskMove, Draws, DraftStates
<1>10. CASE RebootMove
  BY <1>1, <1>4, <1>10 DEF RebootMove, Running, Stages, Sending
<1>11. CASE CrashMove
  BY <1>1, <1>4, <1>11 DEF CrashMove, Idle
<1>12. CASE UNCHANGED <<req, disp, agent>>
  BY <1>1, <1>4, <1>12
<1> QED
  BY <1>1, <1>5, <1>6, <1>7, <1>8, <1>9, <1>10, <1>11, <1>12
  DEF Steps, Moves, AgentMove, KillMove, ExpireMove, BeginMove, LateMove, EditMove

(* Every step keeps the authors in order.                                  *)
LEMMA AuthorStep ==
  ASSUME Steps, StaffInv, AuthorInv
  PROVE  AuthorInv'
<1>1. /\ TypeOK /\ TypeOK' /\ RowsKept /\ Rows \subseteq Rows' /\ Rows \subseteq Requests
      /\ \A q \in Rows : req'[q].rule = req[q].rule
  BY StillThere DEF Steps, RowsKept, Kept, Rows
<1>2. \A c \in late' \cap late : c.by \in Rows' /\ c.rule = req'[c.by].rule
  BY <1>1 DEF AuthorInv
<1>3. CASE late' \subseteq late
  <2>1. \A r \in Requests : LateOnRow(r)'
    <3> SUFFICES ASSUME NEW r \in Requests, LateRule(r)' PROVE LateOnRow(r)'
      BY DEF LateOnRow
    <3>1. LateRule(r)
      BY <1>3 DEF LateRule
    <3> QED BY <1>3, <3>1, LateStays
  <2> QED BY <1>2, <1>3, <2>1, AuthoredStep DEF AuthorInv
<1>4. ASSUME NEW w \in Workers, Leaves(w) PROVE AuthorInv'
  <2>1. /\ Command(w).op = agent[w].pc /\ Command(w).by = agent[w].req
        /\ Command(w).rule = req[agent[w].req].rule
        /\ agent[w].req \in Rows
    BY <1>1, <1>4, CommandIs DEF Leaves
  <2>2. \A c \in late' : c.by \in Rows' /\ c.rule = req'[c.by].rule
    BY <1>1, <1>2, <1>4, <2>1 DEF Leaves
  <2>3. ASSUME NEW r \in Requests, LateRule(r)' PROVE LateOnRow(r)'
    <3>1. CASE agent[w].pc = "rule" /\ agent[w].req = r
      BY <1>4, <3>1, LateBegins DEF LateOnRow
    <3>2. CASE LateRule(r)
      <4>1. /\ r \in Rows /\ IsAdd(r)
            /\ req[r].state \in {"dispatching", "dispatch_failed", "inconsistent"}
            /\ \A v \in Workers : Busy(v) /\ disp[v].req = r => NoSuccess(v)
            /\ UNCHANGED req
        BY <1>4, <3>2 DEF AuthorInv, LateOnRow, Leaves
      <4>2. \A v \in Workers : /\ Busy(v)' <=> Busy(v)
                               /\ disp'[v].req = disp[v].req
        BY <1>4 DEF Leaves, Busy, At
      <4>3. ASSUME NEW v \in Workers, NoSuccess(v) PROVE NoSuccess(v)'
        BY <1>4, <4>3 DEF Leaves, NoSuccess, At, Sending
      <4> QED BY <1>1, <4>1, <4>2, <4>3 DEF LateOnRow, IsAdd
    <3> QED BY <1>4, <2>1, <2>3, <3>1, <3>2 DEF LateRule, Leaves, Writes
  <2> QED BY <2>2, <2>3, AuthoredStep DEF AuthorInv, LateOnRow
<1> QED BY <1>3, <1>4, LateGrows

-----------------------------------------------------------------------------
(* Deletions                                                               *)

(* A rule comes into force by its rule command, or by a reboot or a save   *)
(* that copies it.                                                         *)
LEMMA ComesIntoForce ==
  ASSUME Steps, NEW r \in Rows
  PROVE  /\ InForce(running, r)' /\ ~ InForce(running, r) =>
              \/ \E w \in Workers : agent[w].pc = "rule" /\ agent[w].req = r
              \/ LateRule(r)
              \/ running' = saved /\ InForce(saved, r) /\ RebootMove
         /\ InForce(saved, r)' => InForce(saved, r) \/ InForce(running, r)
<1> DEFINE n == req[r].rule
<1>1. /\ TypeOK /\ SwitchOK /\ r \in Requests /\ n \in RuleIds /\ req'[r].rule = n
  BY DEF Steps, TypeOK, RowsOK, Complete, RowsKept, Kept, Rows
<1>2. ASSUME NEW c \in CommandType, Accepted(c), Execute(c)
      PROVE  /\ InForce(running, r)' /\ ~ InForce(running, r) => Writes(c) /\ c.by = r
             /\ InForce(saved, r)' => InForce(saved, r) \/ InForce(running, r)
  <2>1. c.op \in Sending
    BY DEF CommandType
  <2> QED BY <1>1, <1>2, <2>1, ExecuteDoes DEF InForce, Writes, Sending
<1>3. ASSUME NEW w \in Workers, AgentMove(w)
      PROVE  /\ InForce(running, r)' /\ ~ InForce(running, r) =>
                  agent[w].pc = "rule" /\ agent[w].req = r
             /\ InForce(saved, r)' => InForce(saved, r) \/ InForce(running, r)
  <2>1. CASE Performs(w)
    BY <1>1, <1>2, <2>1, CommandIs DEF Performs, Writes
  <2>2. CASE UNCHANGED <<running, saved>>
    BY <1>1, <2>2 DEF InForce
  <2> QED BY <1>3, <2>1, <2>2 DEF AgentMove, Guards, GivesUp, Vanishes, switchVars
<1>4. ASSUME NEW c \in late, LateMove(c)
      PROVE  /\ InForce(running, r)' /\ ~ InForce(running, r) => LateRule(r)
             /\ InForce(saved, r)' => InForce(saved, r) \/ InForce(running, r)
  <2>1. c \in CommandType
    BY <1>1 DEF SwitchOK
  <2>2. CASE UNCHANGED <<running, saved>>
    BY <1>1, <2>2 DEF InForce
  <2>3. CASE Accepted(c) /\ Execute(c)
    BY <1>2, <2>1, <2>3 DEF LateRule
  <2> QED BY <1>4, <2>2, <2>3 DEF LateMove
<1>5. CASE EditMove
  BY <1>1, <1>5, WorkflowAssumption DEF EditMove, InForce
<1>6. CASE RebootMove
  BY <1>1, <1>6 DEF RebootMove, InForce
<1>7. CASE UNCHANGED <<running, saved>>
  BY <1>1, <1>7 DEF InForce
<1> QED
  BY <1>3, <1>4, <1>5, <1>6, <1>7
  DEF Steps, Moves, DeskMove, BeginMove, HandlerMove, CrashMove, KillMove, ExpireMove, switchVars

(* Once gone, the rule of a settled add stays gone.                        *)
LEMMA StaysGone ==
  ASSUME Steps, StaffInv, AuthorInv, NEW r \in Requests, IsAdd(r),
         req[r].state \in {"active", "revoked"}
  PROVE  /\ Gone(r) => Gone(r)'
         /\ ~ InForce(running, r) => ~ InForce(running, r)' \/ RebootMove
<1>1. r \in Rows
  BY DEF Rows, RowStates
<1>2. ~ LateRule(r)
  BY DEF AuthorInv, LateOnRow
<1>3. ASSUME NEW w \in Workers, agent[w].pc = "rule", agent[w].req = r PROVE FALSE
  BY <1>3 DEF StaffInv, AgentOnRow, Works
<1> QED BY <1>1, <1>2, <1>3, ComesIntoForce DEF Gone

(* A row becomes 'active' or 'revoked' by the handler that has it in hand, *)
(* or, retired, together with the rule.                                    *)
LEMMA Settles ==
  ASSUME Steps, NEW r \in Requests, req'[r].state \in {"active", "revoked"}
  PROVE  /\ r \in Rows /\ (IsAdd(r)' <=> IsAdd(r)) /\ req'[r].rule = req[r].rule
         /\ \/ req'[r].state = req[r].state
            \/ \E w \in Workers :
                 /\ HandlerMove(w) /\ Busy(w)
                 /\ \/ /\ At(w, "decide") /\ Succeeded(w) /\ r = disp[w].req
                       /\ \/ IsAdd(r) /\ req'[r].state = "active" /\ Ends(w)
                          \/ ~ IsAdd(r) /\ req'[r].state = "revoked"
                    \/ /\ At(w, "retire") /\ r \in Retired(req[disp[w].req].rule)
                       /\ req'[r].state = "revoked"
<1>1. TypeOK /\ RowsKept /\ RowsOK
  BY DEF Steps, TypeOK
<1>2. ASSUME r \in Rows PROVE (IsAdd(r)' <=> IsAdd(r)) /\ req'[r].rule = req[r].rule
  BY <1>1, <1>2 DEF RowsKept, Kept, IsAdd
<1>3. CASE req'[r].state = req[r].state
  <2>1. r \in Rows
    BY <1>3 DEF Rows, RowStates
  <2> QED BY <1>2, <1>3, <2>1
<1>4. ASSUME NEW w \in Workers, HandlerMove(w), req'[r].state # req[r].state
      PROVE  /\ r \in Rows
             /\ \/ /\ At(w, "decide") /\ Succeeded(w) /\ r = disp[w].req
                   /\ \/ IsAdd(r) /\ req'[r].state = "active" /\ Ends(w)
                      \/ ~ IsAdd(r) /\ req'[r].state = "revoked"
                \/ /\ At(w, "retire") /\ r \in Retired(req[disp[w].req].rule)
                   /\ req'[r].state = "revoked"
  <2>1. disp[w].req \in Rows
    BY <1>1, <1>4, Named DEF HandlerMove
  <2>2. CASE Prepares(w)
    BY <1>4, <2>2 DEF Prepares, Records
  <2>3. CASE Concludes(w)
    BY <1>4, <2>1, <2>3 DEF Concludes, Records, FailureState, Retired, Rows, RowStates
  <2> QED BY <1>4, <2>2, <2>3 DEF HandlerMove
<1>5. ASSUME req'[r].state # req[r].state PROVE \E w \in Workers : HandlerMove(w)
  BY <1>5
  DEF Steps, Moves, DeskMove, Draws, BeginMove, AgentMove, KillMove, ExpireMove, LateMove,
      EditMove, RebootMove, CrashMove
<1>6. CASE req'[r].state # req[r].state
  <2>1. PICK w \in Workers : HandlerMove(w)
    BY <1>5, <1>6
  <2>2. Busy(w)
    BY <2>1 DEF HandlerMove
  <2> QED BY <1>2, <1>4, <1>6, <2>1, <2>2
<1> QED BY <1>3, <1>6

(* The progress of a deletion towards its report.                          *)
LEMMA GoneProgress ==
  ASSUME Steps, StaffInv, AuthorInv, GoneInv, NEW r \in Adds("active"),
         req'[r].state = "active", NEW w \in Workers, Deletes(w, req[r].rule)'
  PROVE  /\ (At(w, "apply") /\ agent[w].pc = "save" => ~ InForce(running, r))'
         /\ (ReportedOk(w) \/ At(w, "retire") => Gone(r))'
<1> DEFINE n == req[r].rule
<1>1. /\ TypeOK /\ WorkflowInv /\ RowsKept /\ r \in Rows /\ IsAdd(r) /\ r \in Requests
      /\ req[r].state = "active" /\ req'[r].rule = n /\ n \in RuleIds
      /\ disp \in [Workers -> HandlerType]
  BY DEF Steps, Adds, Rows, RowStates, RowsKept, Kept, TypeOK, RowsOK, Complete, HandlersOK
<1>2. /\ Gone(r) => Gone(r)'
      /\ ~ InForce(running, r) => ~ InForce(running, r)' \/ RebootMove
  BY <1>1, StaysGone
<1>3. /\ Busy(w) => disp[w].req \in Rows
      /\ \A q \in Rows : req'[q].action = req[q].action /\ req'[q].rule = req[q].rule
  BY <1>1, Named DEF RowsKept, Kept
<1>4. Busy(w)' /\ req'[disp'[w].req].rule = n /\ req'[disp'[w].req].action # "add_rule"
  BY <1>1 DEF Deletes, IsAdd
<1>5. ASSUME Busy(w), disp'[w].req = disp[w].req
      PROVE  /\ Deletes(w, n) /\ OwnAgent(w)
             /\ At(w, "apply") /\ agent[w].pc = "save" => ~ InForce(running, r)
             /\ ReportedOk(w) \/ At(w, "retire") => Gone(r)
  <2>1. Deletes(w, n)
    BY <1>3, <1>4, <1>5 DEF Deletes, IsAdd
  <2> QED BY <2>1 DEF GoneInv, StaffInv
<1>6. ASSUME disp'[w].pc = disp[w].pc, disp'[w].req = disp[w].req,
             disp'[w].result = disp[w].result,
             agent'[w] = agent[w], ~ RebootMove \/ ~ Running(w)
      PROVE  /\ (At(w, "apply") /\ agent[w].pc = "save" => ~ InForce(running, r))'
             /\ (ReportedOk(w) \/ At(w, "retire") => Gone(r))'
  BY <1>2, <1>4, <1>5, <1>6 DEF Busy, At, ReportedOk, Running, Stages, Sending
<1>7. CASE disp'[w].pc = "snapshot"
  BY <1>7 DEF ReportedOk, At
<1>8. CASE HandlerMove(w)
  <2>1. Busy(w) /\ (disp'[w].req = disp[w].req \/ Ends(w))
    BY <1>8
    DEF HandlerMove, Prepares, Starts, Hears, Carries, Concludes, Turns
  <2>2. disp'[w].req = disp[w].req /\ ~ Ends(w)
    BY <1>4, <2>1 DEF Ends, Idle, Busy, At
  <2>3. CASE Prepares(w)
    BY <2>2, <2>3 DEF Prepares, Turns, ReportedOk, At
  <2>4. CASE Starts(w)
    BY <2>4 DEF Starts, Turns, ReportedOk, At
  <2>5. CASE Hears(w)
    BY <1>2, <1>5, <2>1, <2>2, <2>5 DEF Hears, Turns, ReportedOk, At
  <2>6. CASE Carries(w)
    BY <1>2, <1>5, <2>1, <2>2, <2>6 DEF Carries, Turns, ReportedOk, At, AfterFailure
  <2>7. CASE Concludes(w)
    BY <1>2, <1>5, <2>1, <2>2, <2>7 DEF Concludes, Turns, ReportedOk, At, Succeeded
  <2> QED BY <1>8, <2>3, <2>4, <2>5, <2>6, <2>7 DEF HandlerMove
<1>9. CASE AgentMove(w)
  <2>1. disp' = disp /\ Works(w)
    BY <1>9 DEF AgentMove
  <2>2. CASE ~ At(w, "apply")
    BY <1>2, <1>4, <1>5, <2>1, <2>2 DEF ReportedOk, At, Busy
  <2>3. CASE At(w, "apply")
    <3>1. agent[w].req = disp[w].req /\ agent[w].job = "apply" /\ ~ IsAdd(agent[w].req)
      BY <1>4, <1>5, <2>1, <2>3, <1>3 DEF OwnAgent, At, Busy, Deletes
    <3>2. CASE Guards(w) \/ GivesUp(w) \/ Vanishes(w)
      BY <2>1, <2>3, <3>2
      DEF Guards, GivesUp, Vanishes, Advances, Finishes, Changes, ReportedOk, At, IsAdd
    <3>3. CASE Performs(w)
      <4>1. /\ Command(w) \in CommandType
            /\ Command(w).op = agent[w].pc /\ Command(w).by = agent[w].req
            /\ Command(w).rule = req[agent[w].req].rule
            /\ agent[w].pc \notin {"rule", "comment"}
        BY <1>1, <3>1, <3>3, CommandIs DEF Performs, TypeOK, AgentsOK
      <4>2. req[agent[w].req].rule = n
        BY <1>3, <1>4, <1>5, <2>1, <2>3, <3>1 DEF At, Busy
      <4>3. CASE agent[w].pc = "undo"
        <5>1. running'[n] = Absent
          BY <1>1, <3>3, <4>1, <4>2, <4>3, ExecuteDoes DEF Performs, TypeOK
        <5>2. agent'[w].pc # "done"
          BY <3>1, <3>3, <4>3 DEF Performs, Advances, Finishes, Changes
        <5> QED BY <1>1, <2>1, <2>3, <5>1, <5>2 DEF InForce, ReportedOk, At
      <4>4. CASE agent[w].pc = "save"
        <5>1. running' = running /\ saved' = running /\ agent'[w].pc = "done"
          BY <1>1, <3>3, <4>1, <4>4, ExecuteDoes
          DEF Performs, TypeOK, Advances, Finishes, Changes
        <5>2. ~ InForce(running, r)
          BY <1>4, <1>5, <2>1, <2>3, <4>4 DEF At, Busy
        <5> QED BY <1>1, <2>1, <2>3, <5>1, <5>2 DEF InForce, Gone, ReportedOk, At
      <4> QED BY <3>3, <4>1, <4>3, <4>4 DEF Performs, Sending
    <3> QED BY <1>9, <3>2, <3>3 DEF AgentMove
  <2> QED BY <2>2, <2>3
<1>10. CASE KillMove(w) \/ ExpireMove(w)
  <2>1. /\ disp'[w].pc = disp[w].pc /\ disp'[w].req = disp[w].req
        /\ disp'[w].result = disp[w].result
        /\ ~ RebootMove \/ ~ Running(w)
    BY <1>1, <1>10 DEF KillMove, ExpireMove, HandlerType, RebootMove, Abandons, Finishes, Changes
  <2>2. agent'[w] = agent[w] \/ (agent'[w].pc = "done" /\ agent'[w].result = "killed")
    BY <1>10 DEF KillMove, ExpireMove, Abandons, Finishes, Changes
  <2> QED BY <1>2, <1>4, <1>5, <1>6, <2>1, <2>2 DEF ReportedOk, At, Busy
<1>11. CASE RebootMove
  <2>1. /\ disp' = disp
        /\ agent'[w] = agent[w] \/ (agent'[w].pc = "done" /\ agent'[w].result = "failed")
        /\ Running(w) => agent'[w].pc = "done"
    BY <1>11 DEF RebootMove, Finishes, Changes
  <2> QED BY <1>2, <1>4, <1>5, <2>1 DEF ReportedOk, At, Busy, Running, Stages, Sending
<1>12. ASSUME disp'[w] = disp[w], agent'[w] = agent[w], ~ RebootMove \/ ~ Running(w)
       PROVE  /\ (At(w, "apply") /\ agent[w].pc = "save" => ~ InForce(running, r))'
              /\ (ReportedOk(w) \/ At(w, "retire") => Gone(r))'
  BY <1>6, <1>12
<1>13. ASSUME NEW v \in Workers \ {w},
              HandlerMove(v) \/ AgentMove(v) \/ KillMove(v) \/ ExpireMove(v)
       PROVE  disp'[w] = disp[w] /\ agent'[w] = agent[w]
  BY <1>1, <1>13 DEF HandlerMove, AgentMove, KillMove, ExpireMove
<1>14. CASE CrashMove
  BY <1>4, <1>14 DEF CrashMove, Idle, Busy, At
<1>15. ASSUME NEW v \in Workers, NEW q \in Requests, BeginMove(v, q)
       PROVE  disp'[w].pc = "snapshot" \/ (disp'[w] = disp[w] /\ agent'[w] = agent[w])
  BY <1>15 DEF BeginMove, Idle
<1> QED
  BY <1>7, <1>8, <1>9, <1>10, <1>11, <1>12, <1>13, <1>14, <1>15
  DEF Steps, Moves, DeskMove, LateMove, EditMove

(* What a deletion has removed is not reported as in force, and what is    *)
(* reported as revoked is removed.                                         *)
LEMMA GoneStep ==
  ASSUME Steps, StaffInv, AuthorInv, GoneInv
  PROVE  GoneInv'
<1>1. ASSUME NEW r \in Requests, IsAdd(r)', req'[r].state = "revoked"
      PROVE  Gone(r)'
  <2>1. r \in Rows /\ IsAdd(r)
    BY <1>1, Settles
  <2>2. CASE req[r].state = "revoked"
    BY <1>1, <2>1, <2>2, StaysGone DEF GoneInv, Adds
  <2>3. CASE req[r].state # "revoked"
    <3>1. PICK w \in Workers : /\ Busy(w) /\ At(w, "retire")
                               /\ r \in Retired(req[disp[w].req].rule)
      BY <1>1, <2>1, <2>3, Settles
    <3>2. req[r].state = "active" /\ r \in Adds("active") /\ Deletes(w, req[r].rule)
      BY <2>1, <3>1 DEF Retired, Adds, Deletes, Steps, WorkflowInv, HandlerOwnsRow, Busy
    <3> QED BY <1>1, <2>1, <3>1, <3>2, StaysGone DEF GoneInv
  <2> QED BY <2>2, <2>3
<1>2. ASSUME NEW w \in Workers, NEW r \in Requests, IsAdd(r)', req'[r].state = "active",
             Deletes(w, req[r].rule)'
      PROVE  /\ (At(w, "apply") /\ agent[w].pc = "save" => ~ InForce(running, r))'
             /\ (ReportedOk(w) \/ At(w, "retire") => Gone(r))'
  <2>1. r \in Rows /\ IsAdd(r)
    BY <1>2, Settles
  <2>2. CASE req[r].state = "active"
    BY <1>2, <2>1, <2>2, GoneProgress DEF Adds
  <2>3. CASE req[r].state # "active"
    <3>1. PICK v \in Workers : HandlerMove(v) /\ Busy(v) /\ Ends(v)
      BY <1>2, <2>1, <2>3, Settles
    <3>2. ~ Busy(w)'
      BY <3>1, OthersIdle DEF HandlerMove, Ends, Idle, Busy, At, Steps
    <3> QED BY <1>2, <3>2 DEF Deletes
  <2> QED BY <2>2, <2>3
<1> QED BY <1>1, <1>2 DEF GoneInv, Adds, IsAdd

-----------------------------------------------------------------------------
(* Snapshots                                                               *)

(* A snapshot shows a rule where the switch holds one.                     *)
LEMMA DisplayShows ==
  ASSUME NEW config \in Configs, NEW n \in RuleIds
  PROVE  Display(config)[n] = Absent <=> config[n] = Absent
<1>1. CASE config[n] # Absent
  <2>1. Display(config)[n] = [body |-> config[n].body, note |-> config[n].note]
    BY <1>1 DEF Display
  <2>2. config[n] \in Entries
    BY <1>1 DEF Configs
  <2>3. Display(config)[n] \in Texts
    BY <2>1, <2>2 DEF Entries, Texts
  <2> QED BY <1>1, <2>3, WorkflowAssumption
<1>2. CASE config[n] = Absent
  BY <1>2 DEF Display
<1> QED BY <1>1, <1>2

(* A drift check that has looked so far, and does so in this step.         *)
LEMMA WatchedBefore ==
  ASSUME Steps, Watched'
  PROVE  Watched /\ ~ Spend("unchecked")
<1>1. {"unchecked"} \in SUBSET Kinds
  BY DEF Kinds
<1> QED BY <1>1, CalmBefore DEF Steps, TypeOK, Watched

(* So it is with rows and handlers in uneventful and undisturbed times.    *)
LEMMA SeenBefore ==
  ASSUME SnapInv, Uneventful \/ Undisturbed
  PROVE  /\ \A r \in Requests : DrawnOn(r)
         /\ \A w \in Workers : disp[w].pc \in InHand => disp[w].pre = req[disp[w].req].snap
BY DEF SnapInv, Uneventful, Undisturbed, Watched, Calm, Interference

(* Requests are drawn on the ACL displayed when they were submitted.       *)
LEMMA DrawnStep ==
  ASSUME Steps, SnapInv, Watched', NEW r \in Requests
  PROVE  DrawnOn(r)'
<1>1. TypeOK /\ TypeOK' /\ RowsKept /\ running \in Configs /\ DrawnOn(r)
  BY WatchedBefore DEF Steps, TypeOK, SwitchOK, SnapInv
<1>2. CASE r \in Rows
  BY <1>1, <1>2 DEF RowsKept, Kept, Rows, DrawnOn, Committed, IsAdd
<1>3. CASE r \notin Rows
  <2>1. ASSUME req'[r] = req[r] PROVE DrawnOn(r)'
    BY <1>1, <2>1 DEF DrawnOn, Committed, IsAdd
  <2>2. ASSUME DeskMove(r) PROVE DrawnOn(r)'
    <3>1. CASE req'[r].state \in {"unsent", "reading"}
      BY <3>1 DEF DrawnOn, Committed, RowStates
    <3>2. CASE Draws(r)
      <4>1. IsAdd(r)' <=> IsAdd(r)
        BY <3>2 DEF Draws, IsAdd
      <4>2. Display(running) \in Snapshots
        BY <1>1, DisplayType
      <4>3. CASE IsAdd(r)
        <5>1. req'[r].rule \in Window /\ ~ Holds(Display(running), req'[r].rule)
          BY <3>2, <4>3, AllocatesFresh DEF Draws
        <5>2. Display(running)[req'[r].rule] = Absent
          BY <5>1, TableAssumption DEF Holds, Occupied, Window
        <5> QED BY <3>2, <4>1, <4>2, <4>3, <5>2, WatchedBefore DEF Draws, DrawnOn
      <4>4. CASE ~ IsAdd(r)
        <5>1. req'[r].rule \in RuleIds /\ running[req'[r].rule] # Absent
          BY <3>2, <4>4 DEF Draws, Holds, Occupied
        <5>2. Display(running)[req'[r].rule] # Absent
          BY <1>1, <5>1, DisplayShows
        <5> QED BY <3>2, <4>1, <4>2, <4>4, <5>2, WatchedBefore DEF Draws, DrawnOn
      <4> QED BY <4>3, <4>4
    <3>3. CASE req[r].state = "drafted" /\ SameFields(r)
      BY <1>1, <3>3 DEF SameFields, DrawnOn, Committed, IsAdd
    <3> QED BY <1>3, <2>2, <3>1, <3>2, <3>3 DEF DeskMove, Rows, RowStates
  <2>3. ASSUME NEW w \in Workers, HandlerMove(w) PROVE req'[r] = req[r]
    <3>1. disp[w].req # r
      BY <1>1, <1>3, <2>3, Named DEF HandlerMove
    <3> QED BY <1>3, <2>3, <3>1
        DEF HandlerMove, Prepares, Concludes, Records, Retired, Rows, RowStates
  <2>4. CASE CrashMove
    BY <1>3, <2>4 DEF CrashMove, DrawnOn, Committed, RowStates
  <2> QED BY <2>1, <2>2, <2>3, <2>4
      DEF Steps, Moves, DeskMove, BeginMove, AgentMove, KillMove, ExpireMove, LateMove,
          EditMove, RebootMove
<1> QED BY <1>2, <1>3

(* Handlers keep the snapshot they took.                                   *)
LEMMA SnapStep ==
  ASSUME Steps, SnapInv
  PROVE  SnapInv'
<1>1. /\ TypeOK /\ RowsKept /\ running \in Configs
      /\ disp \in [Workers -> HandlerType]
  BY DEF Steps, TypeOK, SwitchOK, HandlersOK
<1>2. \A q \in Rows : req'[q].snap = req[q].snap
  BY <1>1 DEF RowsKept, Kept
<1>0. Watched' => Watched /\ ~ Spend("unchecked") /\ \A r \in Requests : DrawnOn(r)
  BY WatchedBefore DEF SnapInv
<1> DEFINE Same(w) == /\ disp'[w].pc \in InHand \cup {"compare"} => disp'[w].pre \in Snapshots
                      /\ Watched' /\ disp'[w].pc \in InHand
                           => disp'[w].pre = req'[disp'[w].req].snap
<1>3. ASSUME NEW w \in Workers,
             \/ disp'[w].pc \in {"idle", "snapshot"}
             \/ /\ disp'[w].pc = disp[w].pc /\ disp'[w].req = disp[w].req
                /\ disp'[w].pre = disp[w].pre
      PROVE  Same(w)
  <2>1. disp[w].pc \in InHand => disp[w].req \in Rows
    BY <1>1, Named DEF InHand, AfterClaim, Busy, At
  <2> QED BY <1>2, <1>0, <1>3, <2>1 DEF SnapInv, InHand, AfterClaim
<1>4. ASSUME NEW w \in Workers, HandlerMove(w) PROVE Same(w)
  <2>1. /\ disp[w].req \in Rows
        /\ Watched' => req[disp[w].req].snap # Unreadable
    BY <1>1, <1>0, <1>4, Named, WorkflowAssumption DEF HandlerMove, DrawnOn, Committed, Rows
  <2>2. Ends(w) => Same(w)
    BY <1>3 DEF Ends, Idle
  <2>3. CASE Prepares(w)
    BY <1>1, <1>2, <1>0, <2>1, <2>2, <2>3, DisplayType
    DEF Prepares, Turns, Recalls, SnapInv, InHand, AfterClaim, At
  <2>4. CASE Starts(w) /\ Recalls(w)
    BY <1>2, <1>0, <2>1, <2>4 DEF Starts, Turns, Recalls, SnapInv, InHand, AfterClaim, At
  <2>5. CASE Hears(w) /\ Recalls(w)
    BY <1>2, <1>0, <2>1, <2>5 DEF Hears, Turns, Recalls, SnapInv, InHand, AfterClaim, At
  <2>6. CASE Carries(w) /\ Recalls(w)
    BY <1>2, <1>0, <2>1, <2>6
    DEF Carries, Turns, Recalls, SnapInv, InHand, AfterClaim, At, AfterFailure
  <2>7. CASE Concludes(w)
    BY <1>2, <1>0, <2>1, <2>2, <2>7 DEF Concludes, Turns, Recalls, SnapInv, InHand, AfterClaim, At
  <2> QED BY <1>4, <2>3, <2>4, <2>5, <2>6, <2>7 DEF HandlerMove
<1>5. ASSUME NEW w \in Workers PROVE Same(w)
  <2>1. ASSUME NEW v \in Workers, KillMove(v) \/ ExpireMove(v)
        PROVE  /\ disp'[w].pc = disp[w].pc /\ disp'[w].req = disp[w].req
               /\ disp'[w].pre = disp[w].pre
    BY <1>1, <2>1 DEF KillMove, ExpireMove, HandlerType
  <2>2. ASSUME NEW v \in Workers, NEW q \in Requests, BeginMove(v, q)
        PROVE  disp'[w].pc = "snapshot" \/ disp'[w] = disp[w]
    BY <2>2 DEF BeginMove, Idle
  <2>3. CASE CrashMove
    BY <1>3, <2>3 DEF CrashMove, Idle
  <2>4. ASSUME NEW v \in Workers, HandlerMove(v) PROVE v = w \/ disp'[w] = disp[w]
    BY <2>4 DEF HandlerMove
  <2> QED BY <1>3, <1>4, <2>1, <2>2, <2>3, <2>4
      DEF Steps, Moves, DeskMove, AgentMove, LateMove, EditMove, RebootMove
<1> QED BY <1>5, DrawnStep DEF SnapInv

-----------------------------------------------------------------------------
(* Rollback                                                                *)

(* Where no command is lost, only an agent that is killed leaves one.      *)
LEMMA KilledLate ==
  ASSUME Steps, ~ Spend("lost"), NEW r \in Requests, LateRule(r)', ~ LateRule(r)
  PROVE  \E w \in Workers :
           /\ KillMove(w) \/ ExpireMove(w)
           /\ Finishes(w, "killed") /\ agent[w].pc = "rule" /\ agent[w].req = r
<1>1. TypeOK
  BY DEF Steps
<1>2. ASSUME late' \subseteq late PROVE FALSE
  BY <1>2 DEF LateRule
<1>3. ASSUME NEW w \in Workers, AgentMove(w) PROVE FALSE
  BY <1>2, <1>3 DEF AgentMove, Guards, Performs, GivesUp, Vanishes, switchVars
<1>4. ASSUME NEW w \in Workers, KillMove(w) \/ ExpireMove(w)
      PROVE  Finishes(w, "killed") /\ agent[w].pc = "rule" /\ agent[w].req = r
  <2>1. /\ Finishes(w, "killed") /\ agent[w].pc \in Sending
        /\ late' = late \cup {Command(w)}
    BY <1>2, <1>4 DEF KillMove, ExpireMove, Abandons
  <2>2. Writes(Command(w)) /\ Command(w).by = r
    BY <2>1 DEF LateRule
  <2> QED BY <1>1, <2>1, <2>2, CommandIs DEF Writes
<1>5. ASSUME NEW c \in late, LateMove(c) PROVE FALSE
  BY <1>2, <1>5 DEF LateMove
<1> QED
  BY <1>2, <1>3, <1>4, <1>5
  DEF Steps, Moves, DeskMove, BeginMove, HandlerMove, CrashMove, RebootMove, EditMove, switchVars

(* A failed add comes back no more: its row has no agent, and nothing late.*)
LEMMA CleanRow ==
  ASSUME Steps, StaffInv, ~ Spend("lost"), ~ Spend("reboot"),
         NEW r \in Rows, ~ LateRule(r),
         \A w \in Workers : ~ (agent[w].pc = "rule" /\ agent[w].req = r)
  PROVE  /\ ~ InForce(running, r) => ~ InForce(running, r)'
         /\ ~ LateRule(r)'
<1>1. r \in Requests
  BY DEF Rows
<1>2. ~ RebootMove
  BY DEF RebootMove
<1> QED BY <1>1, <1>2, ComesIntoForce, KilledLate

(* A handler's step keeps both, up to its end.                              *)
LEMMA CleanHandler ==
  ASSUME Steps, StaffInv, AuthorInv, SnapInv, NEW w \in Workers, HandlerMove(w),
         NothingLate(w), FinallyClean(w)
  PROVE  NothingLate(w)' /\ FinallyClean(w)'
<1>1. /\ TypeOK /\ WorkflowInv /\ RowsKept /\ running \in Configs
      /\ disp[w].req \in Rows /\ Busy(w) /\ disp[w].req \in Requests
      /\ req[disp[w].req].rule \in RuleIds
  BY Named DEF Steps, TypeOK, SwitchOK, HandlerMove, RowsOK, Complete, Rows
<1>2. /\ req'[disp[w].req].rule = req[disp[w].req].rule
      /\ IsAdd(disp[w].req) <=> req'[disp[w].req].action = "add_rule"
  BY <1>1 DEF RowsKept, Kept, IsAdd
<1>3. UNCHANGED <<late, running>>
  BY DEF HandlerMove, switchVars
<1>4. Ends(w) => NothingLate(w)' /\ FinallyClean(w)'
  BY DEF Ends, Idle, NothingLate, FinallyClean, Undoing
<1>5. LateRule(disp[w].req) => NoSuccess(w) /\ IsAdd(disp[w].req)
  BY <1>1 DEF AuthorInv, LateOnRow
<1>6. \A r \in Requests : LateRule(r)' <=> LateRule(r)
  BY <1>3 DEF LateRule
<1>7. CASE Prepares(w)
  BY <1>4, <1>7 DEF Prepares, Turns, NothingLate, FinallyClean, Undoing
<1>8. CASE Starts(w)
  BY <1>1, <1>5, <1>6, <1>8
  DEF Starts, Turns, NothingLate, FinallyClean, Undoing, NoSuccess, At
<1>9. CASE Hears(w)
  BY <1>1, <1>6, <1>9 DEF Hears, Turns, NothingLate, FinallyClean, Undoing, At
<1>10. CASE Carries(w) /\ UNCHANGED <<req, agent>>
  <2>1. NothingLate(w)'
    BY <1>1, <1>5, <1>6, <1>10
    DEF Carries, Turns, NothingLate, Undoing, NoSuccess, At, AfterFailure
  <2>2. FinallyClean(w)'
    <3>1. disp'[w].pc = "settle" => At(w, "confirm") /\ Turns(w, "settle") /\ Sees(w)
      BY <1>10 DEF Carries, Turns, AfterFailure
    <3>2. CASE disp'[w].pc = "settle" /\ disp'[w].post = Display(running)
      <4>1. disp'[w].post[req[disp[w].req].rule] = Absent => ~ InForce(running, disp[w].req)
        BY <1>1, <3>2, DisplayShows DEF InForce
      <4> QED BY <1>2, <1>3, <3>1, <3>2, <4>1 DEF FinallyClean, Turns, InForce
    <3>3. CASE disp'[w].pc # "settle" \/ disp'[w].post = Unreadable
      BY <3>3 DEF FinallyClean
    <3> QED BY <3>1, <3>2, <3>3 DEF Sees
  <2> QED BY <2>1, <2>2
<1>11. CASE Concludes(w)
  BY <1>4, <1>11 DEF Concludes, Turns, NothingLate, FinallyClean, Undoing
<1> QED BY <1>7, <1>8, <1>9, <1>10, <1>11 DEF HandlerMove

(* A row fails when its handler finds the ACL as it was before.            *)
LEMMA Fails ==
  ASSUME Steps, NEW r \in Requests, req'[r].state = "dispatch_failed"
  PROVE  /\ r \in Rows /\ (IsAdd(r)' <=> IsAdd(r)) /\ req'[r].rule = req[r].rule
         /\ \/ req[r].state = "dispatch_failed"
            \/ \E w \in Workers :
                 /\ HandlerMove(w) /\ At(w, "settle") /\ r = disp[w].req
                 /\ ~ disp[w].expired /\ disp[w].post = disp[w].pre
<1>1. TypeOK /\ RowsKept /\ RowsOK
  BY DEF Steps, TypeOK
<1>2. ASSUME r \in Rows PROVE (IsAdd(r)' <=> IsAdd(r)) /\ req'[r].rule = req[r].rule
  BY <1>1, <1>2 DEF RowsKept, Kept, IsAdd
<1>3. CASE req[r].state = "dispatch_failed"
  <2>1. r \in Rows
    BY <1>3 DEF Rows, RowStates
  <2> QED BY <1>2, <1>3, <2>1
<1>4. CASE req[r].state # "dispatch_failed"
  <2>1. PICK w \in Workers : HandlerMove(w)
    BY <1>4
    DEF Steps, Moves, DeskMove, Draws, BeginMove, AgentMove, KillMove, ExpireMove, LateMove,
        EditMove, RebootMove, CrashMove
  <2>2. disp[w].req \in Rows
    BY <1>1, <2>1, Named DEF HandlerMove
  <2>3. ~ Prepares(w)
    BY <1>4, <2>2 DEF Prepares, Records
  <2>4. Concludes(w)
    BY <1>4, <2>1, <2>3 DEF HandlerMove
  <2>5. At(w, "settle") /\ r = disp[w].req /\ ~ disp[w].expired /\ disp[w].post = disp[w].pre
    BY <1>4, <2>2, <2>4 DEF Concludes, Records, FailureState, Retired
  <2> QED BY <1>2, <2>1, <2>2, <2>5
<1> QED BY <1>3, <1>4

(* Every step keeps the table of failures clean.                           *)
LEMMA CleanStep ==
  ASSUME Steps, StaffInv, AuthorInv, SnapInv, CleanInv
  PROVE  CleanInv'
<1>1. /\ TypeOK /\ WorkflowInv /\ RowsKept /\ HistoryOK /\ Grows
      /\ disp \in [Workers -> HandlerType] /\ agent \in [Workers -> AgentType]
      /\ Rows \subseteq Requests
  BY DEF Steps, TypeOK, HandlersOK, AgentsOK, Rows
<1> SUFFICES ASSUME Uneventful'
             PROVE  /\ (\A r \in Adds("dispatch_failed") : ~ InForce(running, r) /\ ~ LateRule(r))'
                    /\ (\A w \in Workers : NothingLate(w) /\ FinallyClean(w))'
  BY DEF CleanInv
<1>2. Uneventful /\ ~ Spend("lost") /\ ~ Spend("reboot")
  BY <1>1, CalmBefore DEF Uneventful, Kinds
<1>3. /\ \A r \in Adds("dispatch_failed") : ~ InForce(running, r) /\ ~ LateRule(r)
      /\ \A w \in Workers : NothingLate(w) /\ FinallyClean(w)
  BY <1>2 DEF CleanInv
<1>4. ASSUME NEW v \in Workers, disp[v].pc \in InHand, NEW w \in Workers,
             agent[w].pc = "rule", agent[w].req = disp[v].req
      PROVE  w = v /\ At(v, "apply")
  <2>1. Works(w)
    BY <1>4 DEF Works
  <2>2. w = v
    BY <1>4, <2>1 DEF StaffInv, AgentOnRow
  <2>3. Busy(v) /\ OwnAgent(v) /\ AgentOnRow(v)
    BY <1>4 DEF StaffInv, Busy, At, InHand, AfterClaim
  <2> QED BY <1>4, <2>1, <2>2, <2>3 DEF OwnAgent, AgentOnRow, At
<1>5. ASSUME NEW r \in Requests, IsAdd(r)', req'[r].state = "dispatch_failed"
      PROVE  ~ InForce(running, r)' /\ ~ LateRule(r)'
  <2>1. r \in Rows /\ IsAdd(r) /\ req'[r].rule = req[r].rule
    BY <1>5, Fails
  <2>2. CASE req[r].state = "dispatch_failed"
    <3>1. ~ InForce(running, r) /\ ~ LateRule(r)
      BY <1>3, <2>1, <2>2 DEF Adds
    <3>2. \A w \in Workers : ~ (agent[w].pc = "rule" /\ agent[w].req = r)
      BY <2>2 DEF StaffInv, AgentOnRow, Works
    <3> QED BY <1>2, <2>1, <3>1, <3>2, CleanRow
  <2>3. CASE req[r].state # "dispatch_failed"
    <3>1. PICK w \in Workers : /\ HandlerMove(w) /\ At(w, "settle") /\ r = disp[w].req
                               /\ ~ disp[w].expired /\ disp[w].post = disp[w].pre
      BY <1>5, <2>3, Fails
    <3>2. ~ LateRule(r)
      BY <1>3, <3>1 DEF NothingLate, Undoing, At
    <3>3. disp[w].pre = req[r].snap /\ disp[w].pre \in Snapshots
      BY <1>2, <3>1, SeenBefore DEF SnapInv, InHand, AfterClaim, At
    <3>4. req[r].snap[req[r].rule] = Absent
      BY <1>2, <2>1, SeenBefore DEF DrawnOn, Committed, Rows
    <3>5. ~ InForce(running, r)
      BY <1>3, <2>1, <3>1, <3>3, <3>4, WorkflowAssumption DEF FinallyClean, At
    <3>6. UNCHANGED <<running, late>>
      BY <3>1 DEF HandlerMove, switchVars
    <3> QED BY <2>1, <3>2, <3>5, <3>6 DEF InForce, LateRule
  <2> QED BY <2>2, <2>3
<1>6. ASSUME NEW v \in Workers PROVE NothingLate(v)' /\ FinallyClean(v)'
  <2>1. ASSUME NEW w \in Workers, HandlerMove(w) PROVE NothingLate(v)' /\ FinallyClean(v)'
    <3>1. CASE v = w
      BY <1>3, <2>1, <3>1, CleanHandler
    <3>2. CASE v # w
      <4>1. disp'[v].pc = "idle"
        BY <1>1, <2>1, <3>2, OthersIdle DEF HandlerMove, Busy, At
      <4> QED BY <4>1 DEF NothingLate, FinallyClean, Undoing
    <3> QED BY <3>1, <3>2
  <2>2. CASE disp'[v].pc \in {"idle", "snapshot"}
    BY <2>2 DEF NothingLate, FinallyClean, Undoing
  <2>3. ASSUME disp[v].pc \in Undoing \cup {"apply", "inspect", "decide"},
               disp'[v].pc = disp[v].pc, disp'[v].req = disp[v].req,
               disp'[v].post = disp[v].post, disp'[v].result = disp[v].result,
               ~ disp'[v].expired, ~ disp[v].expired,
               agent[v].pc = "done" => agent'[v].result = agent[v].result
        PROVE  NothingLate(v)' /\ FinallyClean(v)'
    <3>1. PICK r \in Rows : /\ r = disp[v].req /\ disp[v].pc \in InHand /\ Busy(v)
                            /\ r \in Requests
      BY <1>1, <2>3, Named DEF Undoing, InHand, AfterClaim, Busy, At
    <3>2. req'[r].rule = req[r].rule /\ (IsAdd(r) <=> req'[r].action = "add_rule")
      BY <1>1, <3>1 DEF RowsKept, Kept, IsAdd
    <3>3. LateRule(r) => NoSuccess(v)
      BY <3>1 DEF AuthorInv, LateOnRow
    <3>4. ASSUME LateRule(r)', ~ LateRule(r)
          PROVE  At(v, "apply") /\ agent'[v].result = "killed"
      <4>1. PICK w \in Workers : Finishes(w, "killed") /\ agent[w].pc = "rule" /\ agent[w].req = r
        BY <1>2, <3>1, <3>4, KilledLate
      <4> QED BY <1>4, <3>1, <4>1 DEF Finishes, Changes
    <3>5. NothingLate(v)'
      BY <1>3, <2>3, <3>1, <3>3, <3>4 DEF NothingLate, NoSuccess, Undoing, At
    <3>6. FinallyClean(v)'
      <4>1. ASSUME disp[v].pc = "settle" PROVE ~ InForce(running, r) => ~ InForce(running, r)'
        <5>1. ~ LateRule(r)
          BY <1>3, <2>3, <3>1, <4>1 DEF NothingLate, Undoing
        <5>2. \A w \in Workers : ~ (agent[w].pc = "rule" /\ agent[w].req = r)
          BY <1>4, <3>1, <4>1 DEF At
        <5> QED BY <1>2, <3>1, <5>1, <5>2, CleanRow
      <4>2. disp[v].pc = "settle" => ~ (disp[v].post # Unreadable /\ IsAdd(r)
                                        /\ disp[v].post[req[r].rule] = Absent
                                        /\ InForce(running, r))
        BY <1>3, <2>3, <3>1 DEF FinallyClean
      <4> QED BY <2>3, <3>1, <3>2, <4>1, <4>2 DEF FinallyClean, IsAdd, InForce
    <3> QED BY <3>5, <3>6
  <2>4. CASE disp'[v].expired
    BY <2>4 DEF NothingLate, FinallyClean
  <2>5. CASE disp'[v].pc \notin Undoing \cup {"apply", "inspect", "decide"}
    BY <2>5 DEF NothingLate, FinallyClean, Undoing
  <2>6. ASSUME NEW w \in Workers, KillMove(w) \/ ExpireMove(w)
        PROVE  /\ disp'[v].pc = disp[v].pc /\ disp'[v].req = disp[v].req
               /\ disp'[v].post = disp[v].post /\ disp'[v].result = disp[v].result
               /\ ~ disp'[v].expired => ~ disp[v].expired
               /\ agent[v].pc = "done" => agent'[v].result = agent[v].result
    BY <1>1, <2>6
    DEF KillMove, ExpireMove, HandlerType, Abandons, Running, Stages, Sending
  <2>7. ASSUME NEW w \in Workers, AgentMove(w)
        PROVE  agent[v].pc = "done" => disp[v].pc = "idle" \/ agent'[v].result = agent[v].result
    BY <2>7
    DEF AgentMove, Guards, Performs, GivesUp, Vanishes, Running, Stages, Sending, At
  <2>8. CASE RebootMove
    BY <1>2, <2>8 DEF RebootMove
  <2>9. ASSUME NEW w \in Workers, NEW q \in Requests, BeginMove(w, q)
        PROVE  disp'[v].pc = "snapshot" \/ disp'[v].pc = "idle"
    BY <2>9 DEF BeginMove, Idle, At
  <2>10. CASE CrashMove
    BY <2>2, <2>10 DEF CrashMove, Idle
  <2> QED BY <2>1, <2>2, <2>3, <2>4, <2>5, <2>6, <2>7, <2>8, <2>9, <2>10
      DEF Steps, Moves, DeskMove, AgentMove, LateMove, EditMove
<1> QED BY <1>5, <1>6 DEF Adds, IsAdd

-----------------------------------------------------------------------------
(* The table of an undisturbed switch                                      *)

(* Without crashes, the agent at work is the one of the handler that holds *)
(* dispatchMu.                                                             *)
LEMMA Alone ==
  ASSUME TypeOK, WorkflowInv, StaffInv, Undisturbed, NEW w \in Workers, Works(w)
  PROVE  /\ Busy(w) /\ agent[w].req = disp[w].req /\ disp[w].req \in Rows
         /\ disp[w].pc \in InHand
         /\ \/ At(w, "apply") /\ agent[w].job = "apply"
            \/ /\ At(w, "undoing") /\ agent[w].job = "rollback" /\ IsAdd(disp[w].req)
               /\ agent[w].pc \in {"undo", "done"}
         /\ \A v \in Workers \ {w} : ~ Works(v) /\ At(v, "idle")
<1>1. \A v \in Workers : Works(v) => At(v, "apply") \/ At(v, "undoing")
  BY DEF WorkflowInv, AgentHasHandler, Undisturbed, Interference, Calm, Works
<1>2. Busy(w) /\ OwnAgent(w) /\ AgentOnRow(w)
  BY <1>1 DEF StaffInv, Busy, At
<1>3. \A v \in Workers \ {w} : At(v, "idle")
  BY <1>2, OthersIdle DEF Busy
<1> QED BY <1>1, <1>2, <1>3, Named DEF OwnAgent, AgentOnRow, At, InHand, AfterClaim

(* The steps of an undisturbed system.                                     *)
QuietMove ==
  \/ UNCHANGED <<req, switchVars, disp, agent>>
  \/ \E r \in Requests : DeskMove(r)
  \/ \E w \in Workers, r \in Requests : BeginMove(w, r)
  \/ \E w \in Workers : HandlerMove(w) \/ AgentMove(w)
  \/ RebootMove

(* Of a switch nobody else touches only those are seen.                    *)
LEMMA Quietly ==
  ASSUME Steps, TableInv, Undisturbed'
  PROVE  /\ Undisturbed /\ HeardOut /\ ActiveRowsStand /\ Unsaved
         /\ \A w \in Workers : AddStages(w) /\ AddReported(w) /\ (Unmoved(w) \/ Masked)
         /\ ~ Spend("lost") /\ QuietMove
<1>1. HistoryOK /\ Grows
  BY DEF Steps, TypeOK
<1>2. /\ Undisturbed /\ ~ Spend("lost") /\ ~ Spend("edit") /\ ~ Spend("kill")
      /\ ~ Spend("expiry") /\ ~ Spend("crash")
  BY <1>1, CalmBefore DEF Undisturbed, Interference, Kinds
<1>3. /\ HeardOut /\ ActiveRowsStand /\ Unsaved
      /\ \A w \in Workers : AddStages(w) /\ AddReported(w) /\ (Unmoved(w) \/ Masked)
  BY <1>2 DEF TableInv
<1>4. QuietMove
  BY <1>2, <1>3
  DEF Steps, Moves, QuietMove, KillMove, ExpireMove, LateMove, EditMove, CrashMove, HeardOut
<1> QED BY <1>2, <1>3, <1>4

(* Nobody is killed, nothing comes late.                                   *)
LEMMA HeardStep ==
  ASSUME Steps, TableInv, Undisturbed'
  PROVE  HeardOut'
<1>1. HeardOut /\ ~ Spend("lost") /\ QuietMove
  BY Quietly
<1>2. Idle.expired = FALSE /\ Idle.pc = "idle" /\ NoAgent.result = "none"
  BY DEF Idle, NoAgent
<1>3. ASSUME NEW w \in Workers, HandlerMove(w) PROVE HeardOut'
  <2>1. late' = {}
    BY <1>1, <1>3 DEF HeardOut, HandlerMove, switchVars
  <2>2. ~ disp'[w].expired
    BY <1>1, <1>2, <1>3
    DEF HeardOut, HandlerMove, Prepares, Starts, Hears, Carries, Concludes, Turns, Ends
  <2>3. disp'[w].pc \in {"inspect", "decide"} => disp'[w].result # "killed"
    BY <1>1, <1>2, <1>3
    DEF HeardOut, HandlerMove, Prepares, Starts, Hears, Carries, Concludes, Turns, Ends, At,
        AfterFailure
  <2>4. agent'[w].result # "killed"
    BY <1>1, <1>2, <1>3 DEF HeardOut, HandlerMove, Starts, Hears
  <2> QED BY <1>1, <1>3, <2>1, <2>2, <2>3, <2>4 DEF HeardOut, HandlerMove
<1>4. ASSUME NEW w \in Workers, AgentMove(w) PROVE HeardOut'
  <2>1. late' = {}
    BY <1>1, <1>4
    DEF HeardOut, AgentMove, Guards, Performs, GivesUp, Vanishes, switchVars
  <2>2. agent'[w].result # "killed"
    BY <1>1, <1>2, <1>4
    DEF HeardOut, AgentMove, Guards, Performs, GivesUp, Vanishes, Advances, Finishes, Changes
  <2> QED BY <1>1, <1>4, <2>1, <2>2 DEF HeardOut, AgentMove
<1>5. ASSUME NEW w \in Workers, NEW r \in Requests, BeginMove(w, r) PROVE HeardOut'
  BY <1>1, <1>5 DEF HeardOut, BeginMove, Idle, switchVars
<1>6. CASE RebootMove
  BY <1>1, <1>6 DEF HeardOut, RebootMove, Finishes, Changes
<1>7. CASE UNCHANGED <<switchVars, disp, agent>>
  BY <1>1, <1>7 DEF HeardOut, switchVars
<1> QED BY <1>1, <1>3, <1>4, <1>5, <1>6, <1>7 DEF QuietMove, DeskMove

(* What a command that goes through does under its request's number n.     *)
LEMMA Effects ==
  ASSUME Steps, NEW w \in Workers, Performs(w), NEW r \in Requests, agent[w].req = r,
         NEW n, n = req[r].rule
  PROVE  /\ n \in RuleIds /\ r \in Rows /\ req'[r].rule = n
         /\ IsAdd(r) <=> req'[r].action = "add_rule"
         /\ \A m \in RuleIds \ {n} : running'[m] = running[m]
         /\ agent[w].pc = "rule" => /\ running'[n] # Absent /\ running'[n].by = r
                                    /\ saved' = saved /\ IsAdd(r)
         /\ agent[w].pc = "comment" => /\ running[n] # Absent /\ running'[n] # Absent
                                       /\ running'[n].by = running[n].by
                                       /\ saved' = saved /\ IsAdd(r)
         /\ agent[w].pc = "undo" => running'[n] = Absent /\ saved' = saved
         /\ agent[w].pc = "save" => running' = running /\ saved' = running
<1>1. /\ TypeOK /\ SwitchOK /\ RowsKept
      /\ agent[w].pc \in {"rule", "comment"} => IsAdd(agent[w].req)
  BY DEF Steps, TypeOK, AgentsOK
<1>2. /\ Command(w) \in CommandType
      /\ Command(w).op = agent[w].pc /\ Command(w).by = r /\ Command(w).rule = n
      /\ r \in Rows
  BY <1>1, CommandIs DEF Performs
<1>3. n \in RuleIds /\ req'[r].rule = n /\ (IsAdd(r) <=> req'[r].action = "add_rule")
  BY <1>1, <1>2 DEF TypeOK, RowsOK, Complete, Rows, RowsKept, Kept, IsAdd
<1> QED BY <1>1, <1>2, <1>3, ExecuteDoes DEF Performs

(* Between its guard and its save, an add's number holds its own rule and  *)
(* nothing else.                                                           *)
LEMMA StagesStep ==
  ASSUME Steps, StaffInv, TableInv, Undisturbed', NEW v \in Workers
  PROVE  AddStages(v)'
<1>1. /\ TypeOK /\ WorkflowInv /\ RowsKept /\ Undisturbed /\ QuietMove
      /\ AddStages(v)
  BY Quietly DEF Steps
<1>2. ASSUME NEW w \in Workers, AgentMove(w) PROVE AddStages(v)'
  <2>1. Works(w)
    BY <1>2 DEF AgentMove
  <2>2. CASE v # w
    BY <1>1, <1>2, <2>1, <2>2, Alone DEF AgentMove, AddStages, Works
  <2>3. CASE v = w
    <3>1. PICK r \in Rows : /\ r = agent[w].req /\ r \in Requests /\ req[r].rule \in RuleIds
                            /\ req' = req
      BY <1>1, <1>2, <2>1, Alone DEF AgentMove, Rows, TypeOK, RowsOK, Complete
    <3>2. CASE Guards(w)
      BY <2>3, <3>1, <3>2
      DEF AddStages, Guards, GuardHolds, GuardCheck, RuleOf, Holds, Occupied, Advances,
          Finishes, Changes, switchVars, IsAdd
    <3>3. CASE Performs(w)
      BY <1>1, <2>3, <3>1, <3>3, Effects
      DEF Performs, Advances, Finishes, Changes, AddStages, InForce, Works, IsAdd
    <3>4. CASE GivesUp(w)
      BY <1>1, <2>3, <3>1, <3>4 DEF AddStages, GivesUp, Advances, Finishes, Changes
    <3>5. CASE Vanishes(w)
      BY <2>3, <3>5 DEF Vanishes, NoAgent, AddStages, Works
    <3> QED BY <1>2, <3>2, <3>3, <3>4, <3>5 DEF AgentMove
  <2> QED BY <2>2, <2>3
<1>3. ASSUME UNCHANGED running, agent'[v] = agent[v] PROVE AddStages(v)'
  <2>1. Works(v) => agent[v].req \in Rows
    BY <1>1, Named
  <2>2. Works(v) => /\ req'[agent[v].req].rule = req[agent[v].req].rule
                    /\ IsAdd(agent[v].req) <=> req'[agent[v].req].action = "add_rule"
    BY <1>1, <2>1 DEF RowsKept, Kept, IsAdd
  <2> QED BY <1>1, <1>3, <2>2 DEF AddStages, Works, InForce, IsAdd
<1>4. ASSUME NEW w \in Workers, HandlerMove(w) PROVE AddStages(v)'
  <2>1. running' = running
    BY <1>4 DEF HandlerMove, switchVars
  <2>2. CASE agent'[v] = agent[v]
    BY <1>3, <2>1, <2>2
  <2>3. CASE Starts(w) \/ Hears(w)
    BY <1>3, <1>4, <2>1, <2>3 DEF Starts, Hears, AddStages, NoAgent, Works, HandlerMove
  <2> QED BY <1>3, <1>4, <2>1, <2>2, <2>3 DEF HandlerMove
<1>5. CASE RebootMove
  BY <1>3, <1>5
  DEF RebootMove, Finishes, Changes, AddStages, Works, Running, Stages, Sending
<1> QED
  BY <1>1, <1>2, <1>3, <1>4, <1>5 DEF QuietMove, DeskMove, BeginMove, switchVars

(* An add reported as done is in force and saved; one whose number the     *)
(* last snapshot shows as free has left nothing but what is saved.         *)
LEMMA ReportedStep ==
  ASSUME Steps, StaffInv, TableInv, Undisturbed', NEW v \in Workers
  PROVE  AddReported(v)'
<1>1. /\ TypeOK /\ WorkflowInv /\ RowsKept /\ Undisturbed /\ QuietMove
      /\ AddReported(v) /\ running \in Configs
  BY Quietly DEF Steps, TypeOK, SwitchOK
<1>2. CASE disp'[v].pc \notin {"apply", "inspect", "decide", "settle"}
  BY <1>2 DEF AddReported, ReportedOk, At
<1>3. ASSUME NEW r \in Requests, disp[v].req = r, disp'[v].req = r, Busy(v),
             disp'[v].post = disp[v].post \/ disp'[v].pc # "settle",
             disp'[v].pc = "settle" => disp[v].pc = "settle",
             ReportedOk(v)' => ReportedOk(v),
             UNCHANGED <<running, saved>> \/ RebootMove
      PROVE  AddReported(v)'
  <2>1. /\ req'[r].rule = req[r].rule /\ (IsAdd(r) <=> req'[r].action = "add_rule")
        /\ req[r].rule \in RuleIds
    BY <1>1, <1>3, Named DEF RowsKept, Kept, IsAdd, TypeOK, RowsOK, Complete, Rows
  <2>2. ReportedOk(v)' /\ IsAdd(r) => InForceTwice(r)' /\ running'[req[r].rule] = saved'[req[r].rule]
    BY <1>1, <1>3, <2>1 DEF AddReported, InForceTwice, InForce, RebootMove
  <2>3. disp'[v].pc = "settle" /\ IsAdd(r) /\ disp'[v].post # Unreadable
          /\ disp'[v].post[req[r].rule] = Absent
          => running'[req[r].rule] \in {Absent, saved'[req[r].rule]}
    BY <1>1, <1>3, <2>1 DEF AddReported, RebootMove, At
  <2> QED BY <1>3, <2>1, <2>2, <2>3 DEF AddReported, IsAdd, At
<1>4. ASSUME NEW w \in Workers, HandlerMove(w) PROVE AddReported(v)'
  <2>1. UNCHANGED <<running, saved>>
    BY <1>4 DEF HandlerMove, switchVars
  <2>2. CASE v # w
    BY <1>1, <1>2, <1>4, <2>2, OthersIdle DEF HandlerMove, Busy, At
  <2>3. CASE v = w
    <3>1. PICK r \in Requests : r = disp[v].req /\ r \in Rows /\ Busy(v)
      BY <1>1, <1>4, <2>3, Named DEF HandlerMove
    <3>2. CASE Prepares(w)
      BY <1>2, <2>3, <3>2 DEF Prepares, Turns, Ends, Idle
    <3>3. CASE Starts(w)
      BY <2>3, <3>3 DEF Starts, Turns, AddReported, ReportedOk, At
    <3>4. CASE Hears(w)
      BY <1>3, <2>1, <2>3, <3>1, <3>4 DEF Hears, Turns, ReportedOk, At
    <3>5. CASE Carries(w)
      <4>1. CASE disp'[w].pc # "settle"
        BY <1>3, <2>1, <2>3, <3>1, <3>5, <4>1 DEF Carries, Turns, ReportedOk, At, AfterFailure
      <4>2. CASE disp'[w].pc = "settle"
        <5>1. Turns(w, "settle") /\ Sees(w)
          BY <3>5, <4>2 DEF Carries, Turns, AfterFailure
        <5>2. req[r].rule \in RuleIds /\ req'[r].rule = req[r].rule
          BY <1>1, <3>1 DEF TypeOK, RowsOK, Complete, Rows, RowsKept, Kept
        <5>3. disp'[w].post # Unreadable /\ disp'[w].post[req[r].rule] = Absent
                => running[req[r].rule] = Absent
          BY <1>1, <5>1, <5>2, DisplayShows DEF Sees
        <5> QED BY <2>1, <2>3, <3>1, <4>2, <5>1, <5>2, <5>3 DEF Turns, AddReported, ReportedOk, At
      <4> QED BY <4>1, <4>2
    <3>6. CASE Concludes(w)
      BY <1>2, <2>3, <3>6 DEF Concludes, Turns, Ends, Idle
    <3> QED BY <1>4, <3>2, <3>3, <3>4, <3>5, <3>6 DEF HandlerMove
  <2> QED BY <2>2, <2>3
<1>5. ASSUME NEW w \in Workers, AgentMove(w) PROVE AddReported(v)'
  <2>1. Works(w) /\ disp' = disp /\ req' = req
    BY <1>5 DEF AgentMove
  <2>2. CASE v # w
    BY <1>1, <1>2, <2>1, <2>2, Alone DEF At
  <2>3. CASE v = w
    <3>1. PICK r \in Requests : r = disp[v].req /\ r \in Rows /\ Busy(v) /\ agent[w].req = r
      BY <1>1, <2>1, <2>3, Alone DEF Rows
    <3>2. disp[v].pc \in {"apply", "undoing"}
      BY <1>1, <2>1, <2>3, Alone DEF At
    <3>3. CASE Performs(w) /\ At(v, "apply") /\ agent[w].pc = "save"
      <4>1. running' = running /\ saved' = running /\ req[r].rule \in RuleIds
        BY <3>1, <3>3, Effects
      <4>2. IsAdd(r) => InForce(running, r)
        <5>1. AddStages(w) /\ agent[w].job = "apply"
          BY <1>1, <2>1, <2>3, <3>3, Alone, Quietly DEF At
        <5> QED BY <2>1, <3>1, <3>3, <5>1 DEF AddStages
      <4> QED BY <2>1, <2>3, <3>1, <3>3, <4>1, <4>2
          DEF AddReported, ReportedOk, At, InForceTwice, InForce, IsAdd
    <3>4. CASE Performs(w) /\ agent[w].pc # "save"
      <4>1. ~ (ReportedOk(v) /\ IsAdd(r))'
        BY <1>1, <2>1, <2>3, <3>1, <3>2, <3>4, Alone
        DEF Performs, ReportedOk, Advances, Finishes, Changes, At, IsAdd
      <4> QED BY <2>1, <2>3, <3>1, <3>2, <4>1 DEF AddReported, At
    <3>5. CASE Guards(w) \/ GivesUp(w)
      BY <2>1, <2>3, <3>1, <3>2, <3>5
      DEF Guards, GivesUp, Advances, Finishes, Changes, AddReported, ReportedOk, At
    <3>6. CASE ~ At(v, "apply")
      BY <2>1, <2>3, <3>2, <3>6 DEF AddReported, ReportedOk, At
    <3>7. ~ Vanishes(w)
      BY <2>3, <3>2 DEF Vanishes, At
    <3> QED BY <1>5, <3>3, <3>4, <3>5, <3>6, <3>7 DEF AgentMove
  <2> QED BY <2>2, <2>3
<1>6. CASE RebootMove
  <2>1. disp' = disp
    BY <1>6 DEF RebootMove
  <2>2. CASE Busy(v)
    <3>1. PICK r \in Requests : r = disp[v].req /\ r \in Rows
      BY <1>1, <2>2, Named
    <3>2. ReportedOk(v)' => ReportedOk(v)
      BY <1>6, <2>1 DEF RebootMove, ReportedOk, At, Finishes, Changes
    <3> QED BY <1>3, <1>6, <2>1, <2>2, <3>1, <3>2
  <2> QED BY <1>2, <2>1, <2>2 DEF Busy, At
<1>7. ASSUME UNCHANGED <<switchVars, agent>>,
             disp'[v] = disp[v] \/ disp'[v].pc = "snapshot"
      PROVE  AddReported(v)'
  <2>1. CASE Busy(v) /\ disp'[v] = disp[v]
    <3>1. PICK r \in Requests : r = disp[v].req /\ r \in Rows
      BY <1>1, <2>1, Named
    <3> QED BY <1>3, <1>7, <2>1, <3>1 DEF switchVars, ReportedOk, At
  <2> QED BY <1>2, <1>7, <2>1 DEF Busy, At
<1>8. ASSUME NEW w \in Workers, NEW r \in Requests, BeginMove(w, r) PROVE AddReported(v)'
  BY <1>7, <1>8 DEF BeginMove, Idle
<1>9. ASSUME NEW r \in Requests, DeskMove(r) PROVE AddReported(v)'
  BY <1>7, <1>9 DEF DeskMove
<1> QED BY <1>1, <1>4, <1>5, <1>6, <1>7, <1>8, <1>9 DEF QuietMove

(* What was reported as inconsistent stays on record.                      *)
LEMMA StaysInconsistent ==
  ASSUME Steps, NEW a \in Requests, req[a].state = "inconsistent"
  PROVE  /\ req'[a].state = "inconsistent"
         /\ req'[a].rule = req[a].rule /\ (IsAdd(a) <=> req'[a].action = "add_rule")
<1>1. TypeOK /\ WorkflowInv /\ RowsKept /\ a \in Rows
  BY DEF Steps, Rows, RowStates
<1>2. req'[a].rule = req[a].rule /\ (IsAdd(a) <=> req'[a].action = "add_rule")
  BY <1>1 DEF RowsKept, Kept, IsAdd
<1>3. ASSUME NEW w \in Workers, HandlerMove(w) PROVE req'[a].state = "inconsistent"
  <2>1. HandlerOwnsRow(w) /\ disp[w].req \in Requests /\ Busy(w)
    BY <1>1, <1>3, Named DEF WorkflowInv, HandlerMove
  <2>2. disp[w].pc \in {"compare", "decide", "settle"} => disp[w].req # a
    BY <2>1 DEF HandlerOwnsRow, Busy, At, BeforeClaim, AfterClaim
  <2> QED BY <1>3, <2>1, <2>2 DEF HandlerMove, Prepares, Concludes, Records, Retired, At
<1>4. ASSUME NEW r \in Requests, DeskMove(r) PROVE req'[a].state = "inconsistent"
  BY <1>4 DEF DeskMove, Draws, DraftStates
<1>5. CASE CrashMove
  BY <1>1, <1>2, <1>5 DEF CrashMove
<1> QED BY <1>2, <1>3, <1>4, <1>5
        DEF Steps, Moves, BeginMove, AgentMove, KillMove, ExpireMove, LateMove, EditMove,
            RebootMove

(* The end of an add that wrote: its rule is saved, or gone, or on record. *)
LEMMA SettlesLoose ==
  ASSUME Steps, SnapInv, TableInv, Undisturbed', NEW w \in Workers, HandlerMove(w),
         Concludes(w), Writing(w), NEW a \in Requests, disp[w].req = a, IsAdd(a)
  PROVE  \/ req'[a].state = "inconsistent"
         \/ running[req[a].rule] \in {Absent, saved[req[a].rule]}
<1>1. /\ HeardOut /\ AddReported(w) /\ Busy(w) /\ TypeOK /\ a \in Rows /\ Undisturbed
  BY Quietly, Named DEF Steps, HandlerMove
<1>2. CASE At(w, "decide")
  <2>1. Succeeded(w)
    BY <1>1, <1>2 DEF Concludes, HeardOut, At
  <2> QED BY <1>1, <1>2, <2>1 DEF Succeeded, AddReported, ReportedOk, At
<1>3. CASE At(w, "settle")
  <2>1. Records(w, FailureState(disp[w].pre, disp[w].post)) /\ ~ disp[w].expired
    BY <1>1, <1>3 DEF Concludes, HeardOut, At
  <2>2. CASE disp[w].post # disp[w].pre
    BY <2>1, <2>2 DEF Records, FailureState
  <2>3. CASE disp[w].post = disp[w].pre
    <3>1. disp[w].pre = req[a].snap /\ disp[w].pre \in Snapshots
      BY <1>1, <1>3, SeenBefore DEF SnapInv, InHand, AfterClaim, At
    <3>2. req[a].snap[req[a].rule] = Absent
      BY <1>1, SeenBefore DEF DrawnOn, Committed, Rows
    <3> QED BY <1>1, <1>3, <2>3, <3>1, <3>2, WorkflowAssumption DEF AddReported, At
  <2> QED BY <2>2, <2>3
<1>4. ~ At(w, "retire")
  BY DEF Writing, At, AfterClaim
<1> QED BY <1>2, <1>3, <1>4 DEF Concludes

(* Whoever is responsible for an unsaved entry stays so until it is saved, *)
(* gone or on record.                                                      *)
LEMMA StaysLoose ==
  ASSUME Steps, StaffInv, SnapInv, TableInv, Undisturbed', NEW n \in RuleIds, Loose(n)
  PROVE  Loose(n)' \/ running'[n] \in {Absent, saved'[n]}
<1>1. /\ TypeOK /\ WorkflowInv /\ RowsKept /\ Undisturbed /\ QuietMove
  BY Quietly DEF Steps
<1>2. PICK a \in Requests : /\ IsAdd(a) /\ req[a].rule = n
                            /\ \/ req[a].state = "inconsistent"
                               \/ \E w \in Workers : Writing(w) /\ disp[w].req = a
  BY DEF Loose
<1>3. CASE req[a].state = "inconsistent"
  BY <1>2, <1>3, StaysInconsistent DEF Loose, IsAdd
<1>4. ASSUME NEW w \in Workers, Writing(w), disp[w].req = a
      PROVE  Loose(n)' \/ running'[n] \in {Absent, saved'[n]}
  <2>1. Busy(w) /\ a \in Rows
    BY <1>1, <1>4, Named DEF Writing, Busy, At, AfterClaim
  <2>2. req'[a].rule = n /\ req'[a].action = "add_rule"
    BY <1>1, <1>2, <2>1 DEF RowsKept, Kept, IsAdd
  <2>3. ASSUME disp'[w].req = a, Writing(w)' PROVE Loose(n)'
    BY <2>2, <2>3 DEF Loose, IsAdd
  <2>4. ASSUME NEW v \in Workers, HandlerMove(v)
        PROVE  Loose(n)' \/ running'[n] \in {Absent, saved'[n]}
    <3>1. v = w
      BY <1>1, <2>1, <2>4, OthersIdle DEF HandlerMove, Busy
    <3>2. CASE Prepares(w)
      BY <1>4, <3>2 DEF Prepares, Writing, At, AfterClaim, BeforeClaim
    <3>3. CASE Starts(w)
      BY <1>4, <2>3, <3>3 DEF Starts, Turns, Writing, At, AfterClaim
    <3>4. CASE Hears(w)
      BY <1>4, <2>3, <3>4 DEF Hears, Turns, Writing, At, AfterClaim
    <3>5. CASE Carries(w)
      BY <1>4, <2>3, <3>5 DEF Carries, Turns, Writing, At, AfterClaim, AfterFailure
    <3>6. CASE Concludes(w)
      <4>1. CASE req'[a].state = "inconsistent"
        BY <2>2, <4>1 DEF Loose, IsAdd
      <4>2. CASE running[n] \in {Absent, saved[n]}
        BY <2>4, <4>2 DEF HandlerMove, switchVars
      <4> QED BY <1>2, <1>4, <2>4, <3>1, <3>6, <4>1, <4>2, SettlesLoose
    <3> QED BY <2>4, <3>1, <3>2, <3>3, <3>4, <3>5, <3>6 DEF HandlerMove
  <2>5. ASSUME NEW v \in Workers, AgentMove(v) PROVE Loose(n)'
    <3>1. v = w /\ disp' = disp
      BY <1>1, <2>1, <2>5, Alone DEF AgentMove, Busy
    <3>2. ~ Vanishes(w)
      BY <2>1 DEF Vanishes, Busy
    <3>3. At(w, "apply") => agent'[w].pc # "guard"
      BY <1>4, <2>5, <3>1, <3>2
      DEF AgentMove, Guards, Performs, GivesUp, Advances, Finishes, Changes, Writing, At, AfterClaim
    <3> QED BY <1>4, <2>3, <3>1, <3>3 DEF Writing, At
  <2>6. CASE RebootMove
    BY <2>6 DEF RebootMove
  <2>7. CASE UNCHANGED <<disp, agent>>
    BY <1>4, <2>3, <2>7 DEF Writing, At
  <2>8. ASSUME NEW v \in Workers, NEW r \in Requests, BeginMove(v, r) PROVE FALSE
    BY <2>1, <2>8 DEF BeginMove, Busy
  <2> QED BY <1>1, <2>4, <2>5, <2>6, <2>7, <2>8 DEF QuietMove, DeskMove
<1> QED BY <1>2, <1>3, <1>4

(* Every unsaved entry has somebody responsible for it.                    *)
LEMMA UnsavedStep ==
  ASSUME Steps, StaffInv, SnapInv, TableInv, Undisturbed'
  PROVE  Unsaved'
<1>1. /\ TypeOK /\ WorkflowInv /\ RowsKept /\ Undisturbed /\ QuietMove /\ Unsaved
  BY Quietly DEF Steps
<1> SUFFICES ASSUME NEW n \in RuleIds, running'[n] \notin {Absent, saved'[n]}
             PROVE  Loose(n)'
  BY DEF Unsaved
<1>2. CASE Loose(n)
  BY <1>2, StaysLoose
<1>3. CASE ~ Loose(n)
  <2>1. running[n] \in {Absent, saved[n]}
    BY <1>1, <1>3 DEF Unsaved
  <2>2. ~ UNCHANGED <<running, saved>> /\ ~ RebootMove
    BY <2>1 DEF RebootMove
  <2>3. PICK w \in Workers : AgentMove(w)
    BY <1>1, <2>2 DEF QuietMove, DeskMove, BeginMove, HandlerMove, switchVars
  <2>4. Performs(w)
    BY <2>2, <2>3 DEF AgentMove, Guards, GivesUp, Vanishes, switchVars
  <2>5. /\ disp[w].req \in Rows /\ agent[w].req = disp[w].req /\ UNCHANGED <<req, disp>>
        /\ \/ At(w, "apply") /\ agent[w].job = "apply"
           \/ agent[w].pc \in {"undo", "done"}
        /\ disp[w].req \in Requests
    BY <1>1, <2>3, Alone DEF AgentMove, Rows
  <2>6. PICK a \in Requests : a = agent[w].req
    BY <2>5
  <2>7. req[a].rule = n /\ agent[w].pc \in {"rule", "comment"} /\ IsAdd(a)
    BY <2>1, <2>4, <2>6, Effects DEF Performs, Sending
  <2>8. At(w, "apply") /\ agent'[w].pc # "guard"
    BY <2>4, <2>5, <2>7 DEF Performs, Advances, Finishes, Changes
  <2> QED BY <2>5, <2>6, <2>7, <2>8 DEF Loose, Writing, At, IsAdd
<1> QED BY <1>2, <1>3

(* An active row r of number n before and after a step.                    *)
ActiveAcross(r, n) ==
  /\ r \in Requests /\ r \in Rows /\ IsAdd(r) /\ req[r].state = "active" /\ req[r].rule = n
  /\ req'[r].rule = n /\ n \in RuleIds /\ ActiveRow(r, n)

(* A handler that is not deleting the number leaves the row in force; one  *)
(* that is, and gives up, has found the rule where it was.                 *)
LEMMA ActiveHandler ==
  ASSUME Steps, SnapInv, TableInv, Undisturbed', NEW r, NEW n, ActiveAcross(r, n),
         req'[r].state = "active", ~ Unsettled(n)',
         NEW w \in Workers, HandlerMove(w)
  PROVE  ActiveRow(r, n)'
<1>1. /\ TypeOK /\ WorkflowInv /\ RowsKept /\ HeardOut /\ running \in Configs /\ Busy(w)
      /\ UNCHANGED <<running, saved>> /\ Undisturbed
      /\ \A v \in Workers \ {w} : disp'[v] = disp[v] /\ ~ Busy(v)
  BY Quietly, OthersIdle DEF Steps, TypeOK, SwitchOK, HandlerMove, switchVars, Busy
<1>2. PICK q \in Requests : q = disp[w].req /\ q \in Rows
  BY <1>1, Named
<1>3. req'[q].rule = req[q].rule /\ (IsAdd(q) <=> req'[q].action = "add_rule")
  BY <1>1, <1>2 DEF RowsKept, Kept, IsAdd
<1>4. InForceTwice(r)' <=> InForceTwice(r)
  BY <1>1 DEF InForceTwice, InForce, ActiveAcross
<1>5. Untouched(r, n) /\ UnderDeletion(w, r, n) /\ InTheWay(w, n) /\ n \in RuleIds
  BY DEF ActiveRow, ActiveAcross
<1>6. \A v \in Workers \ {w} : ~ Deleting(v, n) /\ ~ Busy(v)' /\ ~ Deleting(v, n)'
  BY <1>1 DEF Deleting, Deletes, Busy, At
<1>7. ASSUME NEW v \in Workers \ {w} PROVE UnderDeletion(v, r, n)' /\ InTheWay(v, n)'
  BY <1>6 DEF UnderDeletion, InTheWay
<1>8. ~ Deleting(w, n) => InForceTwice(r)
  BY <1>5, <1>6 DEF Untouched
<1>9. running[n] = Absent \/ InForceTwice(r) => (running[n] # Absent => InForceTwice(r))
  OBVIOUS
<1> SUFFICES Untouched(r, n)' /\ UnderDeletion(w, r, n)' /\ InTheWay(w, n)'
  BY <1>7 DEF ActiveRow
<1>10. ASSUME InForceTwice(r), InTheWay(w, n)'
       PROVE  Untouched(r, n)' /\ UnderDeletion(w, r, n)' /\ InTheWay(w, n)'
  BY <1>4, <1>10 DEF Untouched, UnderDeletion, InForceTwice
<1>11. Ends(w) => ~ Busy(w)' /\ InTheWay(w, n)'
  BY DEF Ends, Idle, Busy, At, InTheWay
<1>12. CASE Prepares(w)
  <2>1. InForceTwice(r)
    BY <1>8, <1>12 DEF Prepares, Deleting, InHand, AfterClaim, BeforeClaim, At
  <2>2. InTheWay(w, n)'
    <3>1. CASE disp'[w].pc = "compare" /\ disp'[w].pre = Display(running)
      <4>1. running[n] # Absent
        BY <2>1 DEF InForceTwice, InForce, ActiveAcross
      <4> QED BY <1>1, <1>5, <3>1, <4>1, DisplayShows DEF InTheWay, InHand, AfterClaim, At
    <3>2. CASE At(w, "compare") /\ Turns(w, "launch") /\ Recalls(w)
               /\ (req[q].snap \in {Unreadable, disp[w].pre} \/ Spend("unchecked"))
               /\ req[q].state \in Awaiting
      <4>0. ~ Spend("unchecked")
        BY CalmBefore DEF Undisturbed, Interference, Kinds, Steps, TypeOK
      <4>1. /\ IsAdd(q) /\ req[q].rule = n => req[q].snap[n] = Absent
            /\ disp[w].pre = req[q].snap
        BY <1>1, <1>2, <3>2, <4>0, SeenBefore, WorkflowAssumption
        DEF DrawnOn, Committed, Awaiting, RowStates
      <4>2. ~ (IsAdd(q) /\ req[q].rule = n)
        BY <1>1, <1>2, <1>5, <3>2, <4>1 DEF InTheWay
      <4> QED BY <1>2, <1>3, <3>2, <4>2 DEF InTheWay, Turns, IsAdd
    <3> QED BY <1>2, <1>11, <1>12, <3>1, <3>2 DEF Prepares, Turns
  <2> QED BY <1>10, <2>1, <2>2
<1>13. ASSUME disp[w].pc \in InHand, disp'[w].pc \in InHand, disp'[w].req = disp[w].req
       PROVE  /\ Deleting(w, n)' <=> Deleting(w, n)
              /\ InTheWay(w, n)'
              /\ Untouched(r, n)'
  <2>1. Busy(w)' /\ (Deleting(w, n)' <=> Deleting(w, n))
    BY <1>1, <1>2, <1>3, <1>13 DEF Deleting, Deletes, Busy, At, IsAdd, InHand, AfterClaim
  <2>2. ~ (IsAdd(q) /\ req[q].rule = n)
    BY <1>1, <1>2, <1>5, <1>13 DEF InTheWay
  <2> QED BY <1>2, <1>3, <1>4, <1>8, <1>13, <2>1, <2>2 DEF InTheWay, Untouched, IsAdd
<1>14. ASSUME disp[w].pc \in InHand, disp'[w].pc \in InHand, disp'[w].req = disp[w].req,
              BeforeUndo(w)' => BeforeUndo(w),
              disp'[w].pc = "settle" /\ disp'[w].post # Unreadable /\ disp'[w].post[n] # Absent
                => running[n] # Absent
       PROVE  Untouched(r, n)' /\ UnderDeletion(w, r, n)' /\ InTheWay(w, n)'
  <2>1. ASSUME Deleting(w, n)'
        PROVE  /\ running'[n] = Absent \/ InForceTwice(r)'
               /\ saved'[n] = Absent \/ InForce(saved, r)'
               /\ BeforeUndo(w)' => InForceTwice(r)'
               /\ disp'[w].pc = "settle" /\ disp'[w].post # Unreadable /\ disp'[w].post[n] # Absent
                    => InForceTwice(r)'
    <3>1. Deleting(w, n)
      BY <1>13, <1>14, <2>1
    <3>2. InForce(saved, r)' <=> InForce(saved, r)
      BY <1>1 DEF InForce, ActiveAcross
    <3> QED BY <1>1, <1>4, <1>5, <1>14, <3>1, <3>2 DEF UnderDeletion
  <2> QED BY <1>13, <1>14, <2>1 DEF UnderDeletion, At
<1>15. CASE Starts(w) /\ UNCHANGED req
  <2>1. BeforeUndo(w)' => BeforeUndo(w)
    BY <1>15 DEF Starts, Turns, BeforeUndo, At
  <2> QED BY <1>14, <1>15, <2>1 DEF Starts, Turns, InHand, AfterClaim, At
<1>16. CASE Hears(w) /\ UNCHANGED req
  BY <1>14, <1>16 DEF Hears, Turns, InHand, AfterClaim, BeforeUndo, At
<1>17. CASE Carries(w) /\ UNCHANGED <<req, agent>>
  <2>1. ~ BeforeUndo(w)'
    BY <1>17 DEF Carries, Turns, BeforeUndo, At, AfterFailure
  <2>2. disp[w].pc \in InHand /\ disp'[w].pc \in InHand /\ disp'[w].req = disp[w].req
    BY <1>17 DEF Carries, Turns, InHand, AfterClaim, At, AfterFailure
  <2>3. disp'[w].pc = "settle" /\ disp'[w].post # Unreadable => disp'[w].post = Display(running)
    BY <1>17 DEF Carries, Turns, Sees, AfterFailure
  <2>4. Display(running)[n] # Absent => running[n] # Absent
    BY <1>1, <1>5, DisplayShows
  <2> QED BY <1>14, <2>1, <2>2, <2>3, <2>4
<1>18. CASE Concludes(w)
  <2>1. CASE Turns(w, "retire") /\ At(w, "decide")
    BY <1>14, <2>1 DEF Turns, InHand, AfterClaim, BeforeUndo, At
  <2>2. CASE Ends(w)
    <3>1. CASE ~ Deleting(w, n)
      BY <1>8, <1>10, <1>11, <2>2, <3>1
    <3>2. CASE Deleting(w, n)
      <4>1. ~ IsAdd(q) /\ req[q].rule = n
        BY <1>2, <3>2 DEF Deleting, Deletes
      <4>2. ~ At(w, "retire")
        BY <1>1, <1>2, <1>18, <4>1
        DEF Concludes, HeardOut, Retired, ActiveAcross, At
      <4>3. At(w, "settle") /\ Records(w, FailureState(disp[w].pre, disp[w].post))
        BY <1>1, <1>2, <1>18, <2>2, <4>1, <4>2
        DEF Concludes, HeardOut, At, Turns, Ends, Idle
      <4>4. req'[q].state = FailureState(disp[w].pre, disp[w].post)
        BY <1>1, <1>2, <4>3 DEF Records, HeardOut
      <4>5. req'[q].state # "inconsistent"
        BY <1>3, <4>1 DEF Unsettled, IsAdd
      <4>6. disp[w].post = disp[w].pre
        BY <4>4, <4>5 DEF FailureState
      <4>7. disp[w].pre = req[q].snap /\ disp[w].pre \in Snapshots
        BY <1>1, <1>2, <4>3, SeenBefore DEF SnapInv, InHand, AfterClaim, At
      <4>8. req[q].snap[n] # Absent
        BY <1>1, <1>2, <4>1, SeenBefore DEF DrawnOn, Committed, Rows
      <4>9. InForceTwice(r)
        BY <1>5, <3>2, <4>3, <4>6, <4>7, <4>8, WorkflowAssumption DEF UnderDeletion
      <4> QED BY <1>10, <1>11, <2>2, <4>9
    <3> QED BY <3>1, <3>2
  <2> QED BY <1>18, <2>1, <2>2 DEF Concludes
<1> QED BY <1>12, <1>15, <1>16, <1>17, <1>18 DEF HandlerMove

(* Only the agent of a deletion of the number touches it.                  *)
LEMMA ActiveAgent ==
  ASSUME Steps, StaffInv, TableInv, Undisturbed', NEW r, NEW n, ActiveAcross(r, n),
         NEW w \in Workers, AgentMove(w)
  PROVE  ActiveRow(r, n)'
<1>1. /\ TypeOK /\ WorkflowInv /\ Undisturbed /\ Works(w) /\ UNCHANGED <<req, disp>>
  BY Quietly DEF Steps, AgentMove
<1>2. PICK q \in Requests :
        /\ q = disp[w].req /\ q \in Rows /\ q = agent[w].req /\ Busy(w)
        /\ disp[w].pc \in InHand
        /\ \/ At(w, "apply") /\ agent[w].job = "apply"
           \/ At(w, "undoing") /\ agent[w].job = "rollback" /\ IsAdd(q)
  BY <1>1, Alone DEF Rows
<1>3. \A v \in Workers \ {w} : ~ Busy(v)
  BY <1>1, Alone DEF Busy
<1>4. Untouched(r, n) /\ UnderDeletion(w, r, n) /\ InTheWay(w, n) /\ n \in RuleIds
  BY DEF ActiveRow, ActiveAcross
<1>5. ~ (IsAdd(q) /\ req[q].rule = n)
  BY <1>2, <1>4 DEF InTheWay
<1>7. ~ Deleting(w, n) => InForceTwice(r)
  BY <1>3, <1>4 DEF Untouched, Deleting, Deletes
<1>8. Deleting(w, n) <=> ~ IsAdd(q) /\ req[q].rule = n
  BY <1>2 DEF Deleting, Deletes
<1>9. /\ \A v \in Workers : Deleting(v, n)' <=> Deleting(v, n)
      /\ \A v \in Workers : InTheWay(v, n)'
      /\ \A v \in Workers \ {w} : ~ Deleting(v, n)
  BY <1>1, <1>2, <1>3, <1>5 DEF Deleting, Deletes, Busy, At, InTheWay, IsAdd
<1>10. agent[w].pc \in {"rule", "comment"} => IsAdd(q)
  BY <1>1, <1>2 DEF TypeOK, AgentsOK
<1>11. ASSUME InForceTwice(r)' PROVE ActiveRow(r, n)'
  BY <1>9, <1>11 DEF ActiveRow, Untouched, UnderDeletion, InForceTwice
<1>12. ASSUME Deleting(w, n),
              running'[n] = Absent \/ InForceTwice(r)',
              saved'[n] = Absent \/ InForce(saved, r)',
              ~ BeforeUndo(w)' \/ InForceTwice(r)'
       PROVE  ActiveRow(r, n)'
  <2>1. ~ At(w, "settle")'
    BY <1>1, <1>2 DEF At
  <2> QED BY <1>9, <1>12, <2>1 DEF ActiveRow, Untouched, UnderDeletion
<1>13. CASE UNCHANGED <<running, saved>> /\ (Guards(w) \/ GivesUp(w))
  <2>1. InForceTwice(r)' <=> InForceTwice(r)
    BY <1>13 DEF InForceTwice, InForce, ActiveAcross
  <2>2. CASE InForceTwice(r)
    BY <1>11, <2>1, <2>2
  <2>3. CASE ~ InForceTwice(r)
    <3>1. Deleting(w, n) /\ ~ BeforeUndo(w)
      BY <1>4, <1>7, <2>3 DEF UnderDeletion
    <3>2. agent[w].pc \notin {"guard", "undo", "comment"}
      BY <1>2, <1>8, <1>10, <3>1 DEF BeforeUndo
    <3>3. ~ BeforeUndo(w)'
      BY <1>1, <1>2, <1>8, <1>13, <3>1, <3>2
      DEF BeforeUndo, At, Guards, GivesUp, Advances, Finishes, Changes
    <3>4. /\ running[n] = Absent \/ InForceTwice(r)
          /\ saved[n] = Absent \/ InForce(saved, r)
      BY <1>4, <3>1 DEF UnderDeletion
    <3>5. InForce(saved, r)' <=> InForce(saved, r)
      BY <1>13 DEF InForce, ActiveAcross
    <3> QED BY <1>12, <1>13, <2>1, <3>1, <3>3, <3>4, <3>5
  <2> QED BY <2>2, <2>3
<1>14. CASE Performs(w)
  <2> DEFINE m == req[q].rule
  <2>1. /\ m \in RuleIds
        /\ \A k \in RuleIds \ {m} : running'[k] = running[k]
        /\ agent[w].pc = "undo" => running'[m] = Absent /\ saved' = saved
        /\ agent[w].pc = "save" => running' = running /\ saved' = running
        /\ saved' \in {saved, running}
        /\ agent[w].pc \in Sending
    BY <1>2, <1>14, Effects DEF Performs, Sending
  <2>2. CASE m # n
    <3>1. InForceTwice(r)
      BY <1>7, <1>8, <2>2
    <3> QED BY <1>4, <1>11, <2>1, <2>2, <3>1 DEF InForceTwice, InForce, ActiveAcross
  <2>3. CASE m = n
    <3>1. Deleting(w, n) /\ agent[w].pc \in {"undo", "save"} /\ ~ IsAdd(q)
      BY <1>5, <1>8, <1>10, <2>1, <2>3 DEF Sending
    <3>2. /\ running[n] = Absent \/ InForceTwice(r)
          /\ saved[n] = Absent \/ InForce(saved, r)
      BY <1>4, <3>1 DEF UnderDeletion
    <3>3. At(w, "apply") /\ agent[w].job = "apply"
      BY <1>2, <3>1
    <3>4. ~ BeforeUndo(w)'
      BY <1>1, <1>2, <1>14, <3>1, <3>3
      DEF Performs, BeforeUndo, At, Advances, Finishes, Changes
    <3>5. CASE agent[w].pc = "undo"
      <4>1. InForce(saved, r)' <=> InForce(saved, r)
        BY <2>1, <3>5 DEF InForce, ActiveAcross
      <4> QED BY <1>12, <2>1, <2>3, <3>1, <3>2, <3>4, <3>5, <4>1
    <3>6. CASE agent[w].pc = "save"
      <4>1. running[n] # Absent => InForceTwice(r)'
        BY <2>1, <3>2, <3>6 DEF InForceTwice, InForce, ActiveAcross
      <4>2. running[n] # Absent => InForce(saved, r)'
        BY <4>1 DEF InForceTwice
      <4> QED BY <1>12, <2>1, <3>1, <3>4, <3>6, <4>1, <4>2
    <3> QED BY <3>1, <3>5, <3>6
  <2> QED BY <2>2, <2>3
<1>15. ~ Vanishes(w)
  BY <1>2 DEF Vanishes, Busy
<1> QED BY <1>13, <1>14, <1>15 DEF AgentMove, Guards, GivesUp, switchVars

(* Reboots bring back what was saved, and leave nothing half done.         *)
LEMMA ActiveOthers ==
  ASSUME Steps, StaffInv, TableInv, Undisturbed', NEW r, NEW n, ActiveAcross(r, n),
         \A w \in Workers : ~ HandlerMove(w) /\ ~ AgentMove(w)
  PROVE  ActiveRow(r, n)'
<1>1. /\ TypeOK /\ WorkflowInv /\ RowsKept /\ QuietMove
  BY Quietly DEF Steps
<1>2. /\ Untouched(r, n)
      /\ \A w \in Workers : UnderDeletion(w, r, n) /\ InTheWay(w, n)
  BY DEF ActiveRow, ActiveAcross
<1>3. ASSUME NEW v \in Workers, Busy(v)
      PROVE  /\ req'[disp[v].req].rule = req[disp[v].req].rule
             /\ IsAdd(disp[v].req) <=> req'[disp[v].req].action = "add_rule"
  BY <1>1, <1>3, Named DEF RowsKept, Kept, IsAdd
<1>4. ASSUME disp' = disp
      PROVE  \A v \in Workers : (Deleting(v, n)' <=> Deleting(v, n)) /\ InTheWay(v, n)'
  BY <1>2, <1>3, <1>4 DEF Deleting, Deletes, Busy, At, InTheWay, IsAdd
<1>5. CASE RebootMove
  <2>1. disp' = disp /\ running' = saved /\ saved' = saved
    BY <1>5 DEF RebootMove
  <2>2. InForceTwice(r) \/ InForce(saved, r) => InForceTwice(r)' /\ InForce(saved, r)'
    BY <2>1 DEF InForceTwice, InForce, ActiveAcross
  <2>3. \A v \in Workers : BeforeUndo(v)' => BeforeUndo(v)
    BY <1>5, <2>1 DEF RebootMove, BeforeUndo, At, Finishes, Changes, Running, Stages, Sending
  <2>4. Untouched(r, n)'
    BY <1>2, <1>4, <2>1, <2>2 DEF Untouched
  <2>5. ASSUME NEW v \in Workers PROVE UnderDeletion(v, r, n)'
    BY <1>2, <1>4, <2>1, <2>2, <2>3 DEF UnderDeletion, At
  <2> QED BY <1>4, <2>1, <2>4, <2>5 DEF ActiveRow
<1>6. ASSUME UNCHANGED <<running, saved, agent>>
      PROVE  /\ InForceTwice(r)' <=> InForceTwice(r)
             /\ InForce(saved, r)' <=> InForce(saved, r)
  BY <1>6 DEF InForceTwice, InForce, ActiveAcross
<1>7. CASE UNCHANGED <<switchVars, disp, agent>>
  <2>1. \A v \in Workers : BeforeUndo(v)' <=> BeforeUndo(v)
    BY <1>7 DEF BeforeUndo, At
  <2>2. UNCHANGED <<running, saved, agent, disp>>
    BY <1>7 DEF switchVars
  <2> QED BY <1>2, <1>4, <1>6, <2>1, <2>2 DEF ActiveRow, Untouched, UnderDeletion, At
<1>8. ASSUME NEW w \in Workers, NEW q \in Requests, BeginMove(w, q) PROVE ActiveRow(r, n)'
  <2>1. /\ disp'[w].pc = "snapshot" /\ \A v \in Workers \ {w} : disp'[v] = disp[v]
        /\ \A v \in Workers : ~ Busy(v)
        /\ UNCHANGED <<running, saved, agent>>
    BY <1>8 DEF BeginMove, Idle, Busy, switchVars
  <2>2. InForceTwice(r)
    BY <1>2, <2>1 DEF Untouched, Deleting, Deletes
  <2>3. \A v \in Workers : InTheWay(v, n)'
    BY <2>1 DEF InTheWay, InHand, AfterClaim, Busy, At
  <2> QED BY <1>6, <2>1, <2>2, <2>3 DEF ActiveRow, Untouched, UnderDeletion, InForceTwice
<1> QED BY <1>1, <1>5, <1>7, <1>8 DEF QuietMove, DeskMove

(* Active rows stay in force until their deletion is settled.              *)
LEMMA ActiveStep ==
  ASSUME Steps, StaffInv, SnapInv, TableInv, Undisturbed'
  PROVE  ActiveRowsStand'
<1>1. /\ TypeOK /\ WorkflowInv /\ RowsKept /\ Undisturbed /\ ActiveRowsStand
      /\ \A w \in Workers : AddReported(w)
  BY Quietly DEF Steps
<1> SUFFICES ASSUME NEW r \in Requests, IsAdd(r)', req'[r].state = "active",
                    NEW n \in RuleIds, n = req'[r].rule, ~ Unsettled(n)'
             PROVE  ActiveRow(r, n)'
  BY DEF ActiveRowsStand, Adds, IsAdd
<1>2. ~ Unsettled(n)
  <2> SUFFICES ASSUME NEW d \in Requests, ~ IsAdd(d), req[d].rule = n,
                      req[d].state = "inconsistent"
               PROVE  FALSE
    BY DEF Unsettled
  <2> QED BY StaysInconsistent DEF Unsettled, IsAdd
<1>3. r \in Rows /\ IsAdd(r) /\ req[r].rule = n
  BY Settles
<1>4. CASE req[r].state = "active"
  <2>1. ActiveAcross(r, n)
    BY <1>1, <1>2, <1>3, <1>4 DEF ActiveAcross, ActiveRowsStand, Adds
  <2> QED BY <2>1, ActiveHandler, ActiveAgent, ActiveOthers
<1>5. CASE req[r].state # "active"
  <2>1. PICK w \in Workers : /\ HandlerMove(w) /\ Busy(w) /\ At(w, "decide") /\ Succeeded(w)
                             /\ r = disp[w].req /\ Ends(w)
    BY <1>3, <1>5, Settles
  <2>2. InForceTwice(r)
    BY <1>1, <1>3, <2>1 DEF AddReported, ReportedOk, Succeeded, At
  <2>3. InForceTwice(r)'
    BY <1>3, <2>1, <2>2 DEF HandlerMove, switchVars, InForceTwice, InForce
  <2>4. \A v \in Workers : ~ Busy(v)'
    BY <1>1, <2>1, OthersIdle DEF HandlerMove, Ends, Idle, Busy, At
  <2> QED BY <2>3, <2>4
      DEF ActiveRow, Untouched, UnderDeletion, InTheWay, Deleting, Deletes
<1> QED BY <1>4, <1>5

(* A table with as many rules as another and none of its own is the other. *)
LEMMA SameTable ==
  ASSUME NEW pre \in Snapshots, NEW post \in Snapshots, Count(pre) = Count(post),
         \A n \in RuleIds : pre[n] \in {Absent, post[n]}
  PROVE  pre = post
<1>1. Occupied(pre) \subseteq Occupied(post)
  BY DEF Occupied
<1>2. IsFiniteSet(Occupied(post))
  BY OccupiedFinite
<1>3. Occupied(pre) = Occupied(post)
  BY <1>1, <1>2, FS_Subset DEF Count
<1>4. \A n \in RuleIds : pre[n] = post[n]
  BY <1>3 DEF Occupied
<1> QED BY <1>4 DEF Snapshots

(* A snapshot shows as many rules as the switch holds.                     *)
LEMMA DisplayCount ==
  ASSUME NEW config \in Configs
  PROVE  Count(Display(config)) = Count(config)
<1>1. Occupied(Display(config)) = Occupied(config)
  BY DisplayShows DEF Occupied
<1> QED BY <1>1 DEF Count

(* The count the guard compares catches a reboot that brought rules back.  *)
LEMMA UnmovedAgent ==
  ASSUME Steps, StaffInv, SnapInv, TableInv, Undisturbed', NEW w \in Workers, AgentMove(w),
         Unmoved(w)
  PROVE  Unmoved(w)'
<1>1. /\ TypeOK /\ WorkflowInv /\ Undisturbed /\ Works(w) /\ UNCHANGED <<req, disp>>
      /\ running \in Configs /\ Busy(w) /\ agent[w].req = disp[w].req
      /\ agent[w].pc \in {"rule", "comment"} => IsAdd(agent[w].req)
      /\ disp[w].pc \in {"apply", "undoing"}
      /\ At(w, "apply") => agent[w].job = "apply" /\ disp[w].pre \in Snapshots
  BY Quietly, Alone
  DEF Steps, TypeOK, SwitchOK, AgentsOK, AgentMove, At, SnapInv, InHand, AfterClaim
<1>2. CASE ~ At(w, "apply")
  BY <1>1, <1>2 DEF Unmoved, BeforeWrite, At
<1>3. CASE At(w, "apply") /\ Guards(w)
  <2>1. /\ running' = running /\ agent[w].pc = "guard"
        /\ agent'[w].pc \in {"done", "rule", "undo"}
        /\ agent'[w].pc # "done" => GuardHolds(w)
    BY <1>3 DEF Guards, Finishes, Advances, Changes, switchVars
  <2>2. ASSUME GuardHolds(w) PROVE Display(running) = disp[w].pre
    <3>1. Count(Display(running)) = Count(disp[w].pre)
      BY <1>1, <1>3, <2>1, <2>2, DisplayCount
      DEF Unmoved, GuardHolds, GuardCheck, GuardCheckExisting
    <3>2. \A n \in RuleIds : disp[w].pre[n] \in {Absent, Display(running)[n]}
      BY <1>3, <2>1 DEF Unmoved, BeforeWrite
    <3> QED BY <1>1, <1>3, <3>1, <3>2, SameTable, DisplayType
  <2> QED BY <1>1, <1>3, <2>1, <2>2 DEF Unmoved, BeforeWrite, AboutToChange, At
<1>4. CASE At(w, "apply") /\ Performs(w)
  BY <1>1, <1>4
  DEF Performs, Advances, Finishes, Changes, Unmoved, BeforeWrite, AboutToChange, At, IsAdd, Sending
<1>5. CASE At(w, "apply") /\ GivesUp(w)
  BY <1>1, <1>5
  DEF GivesUp, Advances, Finishes, Changes, Unmoved, BeforeWrite, AboutToChange, At, IsAdd
<1>6. ~ Vanishes(w)
  BY <1>1 DEF Vanishes, Busy
<1> QED BY <1>2, <1>3, <1>4, <1>5, <1>6 DEF AgentMove

(* What a reboot takes from the ACL before a write, other than a rule that *)
(* comes back in its place, was an add's on record as inconsistent.        *)
LEMMA UnmovedReboot ==
  ASSUME Steps, TableInv, Undisturbed', RebootMove, NEW w \in Workers, Unmoved(w)
  PROVE  Unmoved(w)' \/ Masked'
<1>1. /\ TypeOK /\ WorkflowInv /\ Unsaved /\ HistoryOK /\ running \in Configs
      /\ UNCHANGED <<req, disp, saved>> /\ running' = saved /\ Spend("reboot")
  BY Quietly DEF Steps, TypeOK, SwitchOK, RebootMove
<1>2. agent'[w].pc \notin Stages
  BY DEF RebootMove, Finishes, Changes, Running, Stages, Sending
<1>3. At(w, "apply") => ~ (AboutToChange(w)' \/ agent'[w].pc = "guard")
  BY <1>2 DEF AboutToChange, Stages, Sending
<1>4. CASE ~ BeforeWrite(w)'
  BY <1>1, <1>3, <1>4 DEF Unmoved, At
<1>5. CASE BeforeWrite(w)'
  <2>1. disp[w].pc \in {"compare", "launch"} /\ Busy(w)
    BY <1>1, <1>2, <1>5 DEF BeforeWrite, At, Stages, Busy
  <2>2. \A n \in RuleIds : disp[w].pre[n] \in {Absent, Display(running)[n]}
    BY <2>1 DEF Unmoved, BeforeWrite
  <2>3. CASE \A n \in RuleIds : disp[w].pre[n] \in {Absent, Display(saved)[n]}
    BY <1>1, <2>1, <2>3 DEF Unmoved, BeforeWrite, At
  <2>4. CASE \E n \in RuleIds : disp[w].pre[n] \notin {Absent, Display(saved)[n]}
    <3>1. PICK n \in RuleIds : disp[w].pre[n] \notin {Absent, Display(saved)[n]}
      BY <2>4
    <3>2. disp[w].pre[n] = Display(running)[n] /\ running[n] # Absent
      BY <1>1, <2>2, <3>1, DisplayShows
    <3>3. running[n] # saved[n]
      BY <3>1, <3>2 DEF Display
    <3>4. \A v \in Workers : ~ Writing(v)
      <4>1. ASSUME NEW v \in Workers, Writing(v) PROVE FALSE
        <5>1. v = w
          BY <1>1, <2>1, <4>1, OthersIdle DEF Writing, At, AfterClaim, Busy
        <5> QED BY <2>1, <4>1, <5>1 DEF Writing, At, AfterClaim
      <4> QED BY <4>1
    <3>5. PICK a \in Requests : IsAdd(a) /\ req[a].state = "inconsistent"
      BY <1>1, <3>2, <3>3, <3>4 DEF Unsaved, Loose
    <3>6. ~ Calm({"reboot"})'
      BY <1>1, CalmBefore DEF Kinds
    <3> QED BY <1>1, <3>5, <3>6 DEF Masked, IsAdd
  <2> QED BY <2>3, <2>4
<1> QED BY <1>4, <1>5

(* Until it writes, a dispatch finds the ACL as it was before the claim,   *)
(* or something is on record as inconsistent.                              *)
LEMMA UnmovedStep ==
  ASSUME Steps, StaffInv, SnapInv, TableInv, Undisturbed', NEW v \in Workers
  PROVE  Unmoved(v)' \/ Masked'
<1>1. /\ TypeOK /\ WorkflowInv /\ RowsKept /\ Undisturbed /\ QuietMove /\ Grows /\ HistoryOK
      /\ running \in Configs /\ (Unmoved(v) \/ Masked)
  BY Quietly DEF Steps, TypeOK, SwitchOK
<1>2. CASE Masked
  <2>1. PICK a \in Requests : IsAdd(a) /\ req[a].state = "inconsistent"
    BY <1>2 DEF Masked
  <2>2. ~ Calm({"reboot"})'
    BY <1>1, <1>2, CalmBefore DEF Masked, Kinds
  <2> QED BY <2>1, <2>2, StaysInconsistent DEF Masked, IsAdd
<1> SUFFICES ASSUME Unmoved(v) PROVE Unmoved(v)' \/ Masked'
  BY <1>1, <1>2
<1>3. ASSUME disp'[v].pc \in {"idle", "snapshot"} PROVE Unmoved(v)'
  BY <1>3 DEF Unmoved, BeforeWrite, At
<1>4. ASSUME UNCHANGED <<running, agent>>, disp'[v] = disp[v]
      PROVE  Unmoved(v)'
  <2>1. Works(v) => agent[v].req \in Rows
    BY <1>1, Named
  <2>2. AboutToChange(v)' => AboutToChange(v)
    BY <1>1, <1>4, <2>1 DEF AboutToChange, Works, IsAdd, RowsKept, Kept
  <2> QED BY <1>4, <2>2 DEF Unmoved, BeforeWrite, At
<1>5. ASSUME NEW w \in Workers, HandlerMove(w) PROVE Unmoved(v)'
  <2>1. running' = running
    BY <1>5 DEF HandlerMove, switchVars
  <2>2. CASE v # w
    BY <1>1, <1>3, <1>5, <2>2, OthersIdle DEF HandlerMove, Busy, At
  <2>3. CASE v = w
    <3>1. CASE Prepares(w)
      BY <1>3, <1>5, <2>1, <2>3, <3>1
      DEF Prepares, Turns, Recalls, Ends, Idle, Unmoved, BeforeWrite, At
    <3>2. CASE Starts(w) /\ Recalls(w) /\ UNCHANGED req
      BY <2>1, <2>3, <3>2 DEF Starts, Turns, Recalls, Unmoved, BeforeWrite, AboutToChange, At
    <3>3. CASE Hears(w) \/ Carries(w) \/ Concludes(w)
      BY <1>3, <2>3, <3>3
      DEF Hears, Carries, Concludes, Turns, Ends, Idle, Unmoved, BeforeWrite, At, AfterFailure
    <3> QED BY <1>5, <3>1, <3>2, <3>3 DEF HandlerMove
  <2> QED BY <2>2, <2>3
<1>6. ASSUME NEW w \in Workers, AgentMove(w) PROVE Unmoved(v)'
  <2>1. Works(w) /\ disp' = disp
    BY <1>6 DEF AgentMove
  <2>2. CASE v # w
    BY <1>1, <1>3, <2>1, <2>2, Alone DEF At
  <2> QED BY <1>6, <2>2, UnmovedAgent
<1>7. CASE RebootMove
  BY <1>7, UnmovedReboot
<1>8. ASSUME NEW w \in Workers, NEW r \in Requests, BeginMove(w, r) PROVE Unmoved(v)'
  BY <1>3, <1>4, <1>8 DEF BeginMove, Idle, switchVars
<1> QED BY <1>1, <1>4, <1>5, <1>6, <1>7, <1>8 DEF QuietMove, DeskMove, switchVars

-----------------------------------------------------------------------------
(* The invariant and what follows from it                                  *)

(* The invariant holds of an empty table and a switch that engineers set   *)
(* up.                                                                     *)
LEMMA SafetyInit == Init => SafetyInv
<1> SUFFICES ASSUME Init PROVE SafetyInv
  OBVIOUS
<1>1. /\ TypeOK /\ WorkflowInv
      /\ late = {} /\ saved = running
      /\ \A r \in Requests : req[r] = Blank
      /\ \A w \in Workers : disp[w] = Idle /\ agent[w] = NoAgent
  BY TypeInit, InvInit DEF Init
<1>2. \A n \in RuleIds : running[n] # Absent => running[n].by \notin Requests
  BY WorkflowAssumption DEF Init, EngineersRules
<1>3. \A w \in Workers : At(w, "idle") /\ ~ Works(w) /\ ~ Busy(w) /\ ~ ReportedOk(w)
  BY <1>1 DEF Idle, NoAgent, At, Works, Busy, ReportedOk
<1>4. \A r \in Requests : req[r].state = "unsent"
  BY <1>1 DEF Blank
<1>5. StaffInv
  BY <1>1, <1>3 DEF StaffInv, OwnAgent, AgentOnRow, Idle, NoAgent, At, InHand, AfterClaim
<1>6. AuthorInv
  BY <1>1, <1>2 DEF AuthorInv, Authored, LateOnRow, LateRule
<1>7. GoneInv
  BY <1>4 DEF GoneInv, Adds
<1>8. SnapInv
  BY <1>1, <1>4 DEF SnapInv, DrawnOn, Committed, RowStates, Idle, InHand, AfterClaim
<1>9. CleanInv
  BY <1>1, <1>4
  DEF CleanInv, Adds, NothingLate, FinallyClean, LateRule, Undoing, Idle
<1>10. TableInv
  <2>1. HeardOut
    BY <1>1 DEF HeardOut, Idle, NoAgent
  <2>2. \A w \in Workers : AddStages(w) /\ AddReported(w)
    BY <1>3 DEF AddStages, AddReported, At
  <2>3. ActiveRowsStand
    BY <1>4 DEF ActiveRowsStand, Adds
  <2>4. Unsaved
    BY <1>1 DEF Unsaved
  <2>5. \A w \in Workers : Unmoved(w)
    BY <1>3 DEF Unmoved, BeforeWrite, At
  <2> QED BY <2>1, <2>2, <2>3, <2>4, <2>5 DEF TableInv
<1> QED BY <1>1, <1>5, <1>6, <1>7, <1>8, <1>9, <1>10 DEF SafetyInv

(* Every step that keeps types and workflow keeps it.                      *)
LEMMA SafetyStep ==
  ASSUME SafetyInv, Steps
  PROVE  SafetyInv'
<1>1. /\ StaffInv /\ AuthorInv /\ GoneInv /\ SnapInv /\ CleanInv /\ TableInv
      /\ TypeOK' /\ WorkflowInv'
  BY DEF SafetyInv, Steps
<1>2. StaffInv' /\ AuthorInv' /\ GoneInv' /\ SnapInv' /\ CleanInv'
  BY <1>1, StaffStep, AuthorStep, GoneStep, SnapStep, CleanStep
<1>3. ASSUME Undisturbed'
      PROVE  /\ HeardOut' /\ ActiveRowsStand' /\ Unsaved'
             /\ \A w \in Workers : AddStages(w)' /\ AddReported(w)' /\ (Unmoved(w)' \/ Masked')
  BY <1>1, <1>3, HeardStep, StagesStep, ReportedStep, ActiveStep, UnsavedStep, UnmovedStep
<1>4. TableInv'
  BY <1>3 DEF TableInv
<1> QED BY <1>1, <1>2, <1>4 DEF SafetyInv

(* The staff, authors, deletions, snapshots, rollbacks and configurations  *)
(* of the workflow are as described above in every reachable state.        *)
THEOREM SafetyCorrect == Spec => []SafetyInv
<1>1. Init => SafetyInv
  BY SafetyInit
<1>2. SafetyInv /\ [Next]_vars => SafetyInv'
  BY SafetyStep, NextSteps DEF SafetyInv
<1> QED BY <1>1, <1>2, PTL DEF Spec

(* The agent of an undisturbed dispatch that passed its guard works for    *)
(* the handler whose snapshot before the claim was the approved one.       *)
LEMMA SafeChange == SafetyInv => AppliedToApproved
<1> SUFFICES ASSUME SafetyInv, Undisturbed, NEW w \in Workers, AboutToChange(w), ~ Masked
             PROVE  Display(running) = req[agent[w].req].snap
  BY DEF AppliedToApproved, Undisturbed
<1>1. Works(w) /\ agent[w].job = "apply"
  BY DEF AboutToChange, Works
<1>2. At(w, "apply") /\ agent[w].req = disp[w].req
  BY <1>1, Alone DEF SafetyInv
<1>3. Display(running) = disp[w].pre
  BY <1>2 DEF SafetyInv, TableInv, Unmoved
<1>4. disp[w].pre = req[disp[w].req].snap
  BY <1>2, SeenBefore DEF SafetyInv, InHand, AfterClaim, At
<1> QED BY <1>2, <1>3, <1>4

(* Where no deletion of the number is under way or left open, nobody       *)
(* deletes it, and the active row stands untouched.                        *)
LEMMA SafeActive == SafetyInv => ActiveInForce
<1> SUFFICES ASSUME SafetyInv, Undisturbed, NEW r \in Requests, IsAdd(r),
                    req[r].state = "active", NEW n, n = req[r].rule, ~ BeingDeleted(n)
             PROVE  InForceTwice(r)
  BY DEF ActiveInForce, Undisturbed, InForceTwice
<1>1. n \in RuleIds /\ r \in Adds("active")
  BY DEF SafetyInv, TypeOK, RowsOK, Complete, RowStates, Adds
<1>2. ~ Unsettled(n)
  BY DEF Unsettled, BeingDeleted
<1>3. ASSUME NEW w \in Workers, Deleting(w, n) PROVE FALSE
  <2>1. /\ Busy(w) /\ disp[w].req \in Requests /\ ~ IsAdd(disp[w].req)
        /\ req[disp[w].req].rule = n /\ disp[w].pc \in InHand
    BY <1>3, Named DEF SafetyInv, Deleting, Deletes
  <2>2. disp[w].pc \in AfterClaim => req[disp[w].req].state = "dispatching"
    BY <2>1 DEF SafetyInv, WorkflowInv, HandlerOwnsRow, Busy
  <2> QED BY <2>1, <2>2 DEF BeingDeleted, InHand, At
<1>4. ActiveRow(r, n)
  BY <1>1, <1>2 DEF SafetyInv, TableInv, ActiveRowsStand
<1> QED BY <1>3, <1>4 DEF ActiveRow, Untouched

(* A rule under another number cannot be the request's, and under its own  *)
(* number a failed add left nothing.                                       *)
LEMMA SafeFailure == SafetyInv => FailedLeftNothing
<1> SUFFICES ASSUME SafetyInv, Uneventful, NEW r \in Requests, IsAdd(r),
                    req[r].state = "dispatch_failed",
                    NEW n \in RuleIds, running[n] # Absent, running[n].by = r
             PROVE  FALSE
  BY DEF FailedLeftNothing, Uneventful
<1>1. req[r].rule = n
  BY DEF SafetyInv, AuthorInv, Authored
<1>2. ~ InForce(running, r)
  BY DEF SafetyInv, CleanInv, Adds
<1> QED BY <1>1, <1>2 DEF InForce

(* A change is carried out on the ACL its approval was drawn on: the agent *)
(* that is about to write finds the snapshot of the request.               *)
THEOREM AppliedToApprovedHolds == Spec => []AppliedToApproved
BY SafetyCorrect, SafeChange, PTL

(* An active request's rule is in force, and would be after a reboot.      *)
THEOREM ActiveInForceHolds == Spec => []ActiveInForce
BY SafetyCorrect, SafeActive, PTL

(* A request reported as failed left no rule of its own on the switch.     *)
THEOREM FailedLeftNothingHolds == Spec => []FailedLeftNothing
BY SafetyCorrect, SafeFailure, PTL

(* A retired row's rule is gone from both configurations, under every      *)
(* disturbance.                                                            *)
THEOREM RevokedIsGoneHolds == Spec => []RevokedIsGone
<1>1. SafetyInv => RevokedIsGone
  BY DEF SafetyInv, GoneInv, Gone, Adds, RevokedIsGone
<1> QED BY <1>1, SafetyCorrect, PTL

-----------------------------------------------------------------------------
(* Reconciliation reads the switch and the table one after the other       *)
(* without dispatchMu; while no dispatch is under way, what was true at    *)
(* the snapshot is still true at the SELECT.                               *)

RecType ==
  [pc: {"idle", "compare", "report"}, shown: SUBSET RuleIds, missing: SUBSET Requests,
   was: SUBSET Requests, quiet: BOOLEAN]

-----------------------------------------------------------------------------
(* The invariant                                                           *)

(* Only rows that add a rule ever become active.                           *)
ActiveAdds == \A r \in ActiveRows : IsAdd(r)

(* A reconciliation that has seen no dispatch yet.                         *)
Watching == rec.pc \in {"compare", "report"} /\ rec.quiet
Unseen(r) == req[r].rule \notin rec.shown

Explained ==
  \A r \in rec.was : Unseen(r) => BeingDeleted(req[r].rule)

RecInv ==
  /\ rec \in RecType
  /\ rec.was \subseteq Rows
  /\ ActiveAdds
  /\ Watching => mutex = None
  /\ Watching /\ Now("compare") => ActiveRows \subseteq rec.was
  /\ Watching /\ Now("report") => \A r \in rec.missing : r \in rec.was /\ Unseen(r)
  /\ Watching /\ Undisturbed => Explained

-----------------------------------------------------------------------------
(* Steps                                                                   *)

(* A snapshot that fails, or a SELECT that fails, disturbs nothing else.   *)
LEMMA FaultStep ==
  ASSUME TypeOK, WorkflowInv, Spend("fault"),
         UNCHANGED <<webVars, switchVars, mutex, disp, agent>>
  PROVE  Steps
<1>1. UNCHANGED <<req, running, saved, late, mutex, disp, agent, launched, refused>>
  BY DEF webVars, switchVars
<1>2. DOMAIN Limit = Kinds /\ spent \in [Kinds -> Nat]
  BY DEF Limit, Kinds, TypeOK, HistoryOK
<1>3. spent' \in [Kinds -> Nat] /\ \A kind \in Kinds : spent'[kind] >= spent[kind]
  BY <1>2 DEF Spend, Kinds
<1>4. TypeOK'
  <2>1. RowsOK' /\ Rows' = Rows /\ \A r \in Requests : IsAdd(r)' <=> IsAdd(r)
    BY <1>1 DEF TypeOK, RowsOK, Complete, IsAdd, Rows
  <2>2. SwitchOK'
    BY <1>1 DEF TypeOK, SwitchOK
  <2>3. HandlersOK'
    BY <1>1, <2>1 DEF TypeOK, HandlersOK, At
  <2>4. AgentsOK'
    BY <1>1, <2>1 DEF TypeOK, AgentsOK, Rows
  <2>5. HistoryOK'
    BY <1>1, <1>2, <1>3 DEF TypeOK, HistoryOK
  <2> QED BY <2>1, <2>2, <2>3, <2>4, <2>5 DEF TypeOK
<1>5. spent'["crash"] = spent["crash"]
  BY <1>2 DEF Spend, Kinds
<1>6. WorkflowInv'
  BY <1>1, <1>5
  DEF WorkflowInv, HandlerOwnsRow, At, IsAdd, LaunchedOnlyAfterClaim, AgentHasHandler, Calm
<1>7. RowsKept
  BY <1>1, <1>4 DEF RowsKept, Kept, Rows, TypeOK
<1>8. Grows /\ Moves
  BY <1>1, <1>2, <1>3 DEF Grows, Moves, switchVars
<1> QED BY <1>4, <1>6, <1>7, <1>8 DEF Steps

(* Every step of the system with its reconciliation is one of the workflow.*)
LEMMA ReconcileSteps ==
  ASSUME TypeOK, WorkflowInv, [NextReconcile]_recVars
  PROVE  Steps
<1>1. CASE UNCHANGED vars \/ Next
  BY <1>1, NextSteps
<1>2. CASE Spend("fault") /\ UNCHANGED <<webVars, switchVars, mutex, disp, agent>>
  BY <1>2, FaultStep
<1> QED BY <1>1, <1>2
    DEF NextReconcile, ReconcileStep, TakeSnapshot, Compare, Report, recVars

(* A row becomes active in a dispatch of its own, and adds a rule.         *)
LEMMA ActiveRowsStep ==
  ASSUME Steps, ActiveAdds
  PROVE  ActiveAdds' /\ (mutex = None => ActiveRows' \subseteq ActiveRows)
<1> SUFFICES ASSUME NEW r \in Requests, req'[r].state = "active"
             PROVE  IsAdd(r)' /\ (mutex = None => req[r].state = "active")
  BY DEF ActiveAdds, ActiveRows
<1>1. CASE req[r].state = "active"
  BY <1>1, Settles DEF ActiveAdds, ActiveRows
<1>2. CASE req[r].state # "active"
  <2>1. PICK w \in Workers : Busy(w) /\ IsAdd(r)
    BY <1>2, Settles
  <2>2. mutex = w
    BY <2>1 DEF Steps, WorkflowInv, HandlerOwnsRow, Busy
  <2> QED BY <2>1, <2>2, Settles, WorkflowAssumption
<1> QED BY <1>1, <1>2

(* Without a dispatch, a deletion that is under way for good, or left      *)
(* open, stays so.                                                         *)
LEMMA DeletionStays ==
  ASSUME Steps, mutex = None, NEW n, BeingDeleted(n)
  PROVE  BeingDeleted(n)'
<1>1. \A w \in Workers : At(w, "idle")
  BY WorkflowAssumption DEF Steps, WorkflowInv, HandlerOwnsRow
<1>2. PICK d \in Requests : /\ ~ IsAdd(d) /\ req[d].rule = n
                            /\ req[d].state \in {"dispatching", "inconsistent"}
  BY <1>1 DEF BeingDeleted, At
<1>3. d \in Rows
  BY <1>2 DEF Rows, RowStates
<1>4. req'[d].rule = n /\ ~ (IsAdd(d)')
  BY <1>2, <1>3 DEF Steps, RowsKept, Kept, IsAdd
<1>5. req'[d].state = req[d].state
  <2>1. ASSUME NEW r \in Requests, DeskMove(r) PROVE req'[d].state = req[d].state
    BY <1>2, <2>1 DEF DeskMove, Draws, DraftStates
  <2>2. \A w \in Workers : ~ HandlerMove(w)
    BY <1>1 DEF HandlerMove, Busy
  <2>3. CASE CrashMove
    BY <1>3, <2>3 DEF CrashMove
  <2> QED BY <2>1, <2>2, <2>3
      DEF Steps, Moves, BeginMove, AgentMove, KillMove, ExpireMove, LateMove, EditMove, RebootMove
<1> QED BY <1>2, <1>4, <1>5 DEF BeingDeleted

(* A disturbance that has not occurred had not occurred before.            *)
LEMMA UndisturbedBefore == ASSUME Steps, Undisturbed' PROVE Undisturbed
BY CalmBefore DEF Steps, TypeOK, Undisturbed, Interference, Kinds

(* While no dispatch is under way, what the reconciliation has found out   *)
(* stays true.                                                             *)
LEMMA WatchStays ==
  ASSUME Steps, RecInv, mutex = None,
         rec' = rec \/ rec' = [rec EXCEPT !.quiet = rec'.quiet], rec'.quiet => rec.quiet,
         Watching', mutex' = None
  PROVE  /\ Now("compare")' => (ActiveRows \subseteq rec.was)'
         /\ Now("report")' => (\A r \in rec.missing : r \in rec.was /\ Unseen(r))'
         /\ Undisturbed' => Explained'
<1>1. /\ rec'.pc = rec.pc /\ rec'.shown = rec.shown /\ rec'.missing = rec.missing
      /\ rec'.was = rec.was
  BY DEF RecInv, RecType
<1>2. Watching
  BY <1>1 DEF Watching
<1>3. \A r \in rec.was : r \in Rows /\ req'[r].rule = req[r].rule
  BY DEF RecInv, Steps, RowsKept, Kept
<1>4. \A r \in rec.was : Unseen(r)' <=> Unseen(r)
  BY <1>1, <1>3 DEF Unseen
<1>5. Now("compare")' => (ActiveRows \subseteq rec.was)'
  BY <1>1, <1>2, ActiveRowsStep DEF RecInv, Now
<1>6. Now("report")' => (\A r \in rec.missing : r \in rec.was /\ Unseen(r))'
  BY <1>1, <1>2, <1>4 DEF RecInv, Now
<1>7. ASSUME Undisturbed', NEW r \in rec.was, Unseen(r) PROVE BeingDeleted(req[r].rule)'
  <2>1. BeingDeleted(req[r].rule)
    BY <1>2, <1>7, UndisturbedBefore DEF RecInv, Explained
  <2>2. PICK n : n = req[r].rule
    OBVIOUS
  <2>3. BeingDeleted(n)'
    BY <2>1, <2>2, DeletionStays
  <2>4. n = req'[r].rule
    BY <1>3, <2>2
  <2> QED BY <2>3, <2>4
<1>8. Undisturbed' => Explained'
  BY <1>1, <1>4, <1>7 DEF Explained
<1> QED BY <1>5, <1>6, <1>8

(* The reconciliation's own steps, and those of the rest beside it, keep   *)
(* its invariant.                                                          *)
LEMMA RecStep ==
  ASSUME SafetyInv, RecInv, Steps, [NextReconcile]_recVars
  PROVE  RecInv'
<1>1. ActiveAdds' /\ Rows \subseteq Rows' /\ rec \in RecType /\ rec.was \subseteq Rows
  BY ActiveRowsStep DEF RecInv, Steps, RowsKept, Kept, Rows, TypeOK, RowsOK
<1>2. CASE rec' = NoRun
  BY <1>1, <1>2 DEF RecInv, RecType, NoRun, Watching
<1>3. CASE TakeSnapshot /\ rec' # rec
  <2>1. /\ UNCHANGED vars
        /\ rec' = [NoRun EXCEPT !.pc = "compare", !.shown = Occupied(running),
                                !.was = ActiveRows, !.quiet = mutex = None]
    BY <1>3 DEF TakeSnapshot
  <2>2. UNCHANGED <<req, running, mutex, disp, spent>>
    BY <2>1 DEF vars
  <2>3. /\ rec'.pc = "compare" /\ rec'.shown = Occupied(running) /\ rec'.missing = {}
        /\ rec'.was = ActiveRows /\ rec'.quiet = (mutex = None)
    BY <2>1 DEF NoRun
  <2>4. rec' \in RecType
    BY <2>1 DEF RecType, NoRun, Occupied, ActiveRows
  <2>5. ActiveRows \subseteq Rows /\ Rows' = Rows /\ ActiveRows' = ActiveRows
    BY <2>2 DEF ActiveRows, Rows, RowStates
  <2>6. ASSUME Undisturbed', NEW r \in ActiveRows, req[r].rule \notin Occupied(running)
        PROVE  BeingDeleted(req[r].rule)'
    <3>1. Undisturbed
      BY <2>6, UndisturbedBefore
    <3>2. r \in Requests /\ IsAdd(r) /\ req[r].state = "active" /\ req[r].rule \in RuleIds
      BY <2>6 DEF RecInv, ActiveAdds, ActiveRows, SafetyInv, TypeOK, RowsOK, Complete, RowStates
    <3>3. ~ InForce(running, r)
      BY <2>6, <3>2 DEF InForce, Occupied
    <3>4. BeingDeleted(req[r].rule)
      BY <3>1, <3>2, <3>3, SafeActive DEF ActiveInForce, Undisturbed
    <3> QED BY <2>2, <3>4 DEF BeingDeleted, IsAdd, At
  <2>7. Undisturbed' => Explained'
    BY <2>2, <2>3, <2>6 DEF Explained, Unseen
  <2> QED BY <1>1, <2>2, <2>3, <2>4, <2>5, <2>7 DEF RecInv, Watching, Now
<1>4. CASE Compare /\ rec' # NoRun
  <2>1. /\ UNCHANGED vars /\ rec.pc = "compare"
        /\ rec' = [rec EXCEPT !.pc = "report", !.missing = Missing(rec.shown)]
    BY <1>4 DEF Compare, Now
  <2>2. UNCHANGED <<req, mutex, disp, spent>>
    BY <2>1 DEF vars
  <2>3. /\ rec'.pc = "report" /\ rec'.missing = Missing(rec.shown)
        /\ rec'.shown = rec.shown /\ rec'.was = rec.was /\ rec'.quiet = rec.quiet
        /\ rec' \in RecType
    BY <1>1, <2>1 DEF RecType, Missing, ActiveRows
  <2>4. Watching' => Watching
    BY <2>1, <2>3 DEF Watching
  <2>5. Watching' => \A r \in Missing(rec.shown) : r \in rec.was /\ Unseen(r)
    BY <2>1, <2>4 DEF RecInv, Missing, Unseen, Now
  <2>6. \A r \in rec.was : (Unseen(r)' <=> Unseen(r))
                           /\ (BeingDeleted(req[r].rule)' <=> BeingDeleted(req[r].rule))
    BY <2>2, <2>3 DEF Unseen, BeingDeleted, IsAdd, At
  <2>7. Watching' => \A r \in rec'.missing : r \in rec'.was /\ Unseen(r)'
    BY <2>3, <2>5 , <2>6
  <2>8. Watching' /\ Undisturbed' => Explained'
    BY <2>3, <2>4, <2>6, UndisturbedBefore DEF RecInv, Explained
  <2> QED BY <1>1, <2>2, <2>3, <2>4, <2>7, <2>8 DEF RecInv, Now
<1>5. CASE rec' = [rec EXCEPT !.quiet = rec'.quiet] /\ rec'.quiet \in BOOLEAN
           /\ (rec'.quiet => rec.quiet)
           /\ (Watching' => mutex = None /\ mutex' = None)
  <2>1. rec' \in RecType /\ rec'.was = rec.was
    BY <1>1, <1>5 DEF RecType
  <2> QED BY <1>1, <1>5, <2>1, WatchStays DEF RecInv
<1>6. CASE Meanwhile /\ rec' # NoRun
  <2>1. rec' = [rec EXCEPT !.quiet = @ /\ (Now("idle") \/ mutex' = None)]
    BY <1>6 DEF Meanwhile
  <2>2. /\ rec'.pc = rec.pc
        /\ rec'.quiet = (rec.quiet /\ (Now("idle") \/ mutex' = None))
    BY <1>1, <2>1 DEF RecType
  <2>3. rec' = [rec EXCEPT !.quiet = rec'.quiet]
    BY <1>1, <2>1, <2>2 DEF RecType
  <2>4. rec'.quiet \in BOOLEAN /\ (rec'.quiet => rec.quiet)
    BY <1>1, <2>2 DEF RecType
  <2>5. Watching' => Watching /\ mutex' = None
    BY <2>2 DEF Watching, Now
  <2> QED BY <1>5, <2>3, <2>4, <2>5 DEF RecInv
<1>7. CASE UNCHANGED <<mutex, rec>>
  <2>1. rec' = [rec EXCEPT !.quiet = rec'.quiet] /\ rec'.quiet \in BOOLEAN
    BY <1>1, <1>7 DEF RecType
  <2> QED BY <1>5, <1>7, <2>1 DEF RecInv, Watching
<1> QED
  BY <1>2, <1>3, <1>4, <1>6, <1>7
  DEF NextReconcile, ReconcileStep, TakeSnapshot, Report, Compare, recVars, vars

-----------------------------------------------------------------------------
(* Theorems                                                                *)

RecSpec == InitReconcile /\ [][NextReconcile]_recVars

(* The workflow beside its reconciliation keeps its own invariant, and the *)
(* reconciliation keeps its own.                                           *)
THEOREM ReconcileCorrect == FairReconcileSpec => [](SafetyInv /\ RecInv)
<1>1. InitReconcile => SafetyInv /\ RecInv
  <2> SUFFICES ASSUME InitReconcile PROVE SafetyInv /\ RecInv
    OBVIOUS
  <2>1. SafetyInv
    BY SafetyInit DEF InitReconcile
  <2>2. ActiveRows = {}
    BY DEF InitReconcile, Init, Blank, ActiveRows
  <2> QED BY <2>1, <2>2 DEF InitReconcile, NoRun, RecInv, RecType, ActiveAdds, Watching
<1>2. SafetyInv /\ RecInv /\ [NextReconcile]_recVars => (SafetyInv /\ RecInv)'
  BY ReconcileSteps, SafetyStep, RecStep DEF SafetyInv
<1>3. FairReconcileSpec => RecSpec
  BY PTL DEF FairReconcileSpec, RecSpec
<1> QED BY <1>1, <1>2, <1>3, PTL DEF RecSpec

(* An alarm is about rows that were active when their rules were seen to   *)
(* be missing, unless a dispatch was under way.                            *)
THEOREM AlarmsAreTrueHolds == FairReconcileSpec => []AlarmsAreTrue
<1>1. RecInv => AlarmsAreTrue
  BY DEF RecInv, AlarmsAreTrue, Watching, Now
<1> QED BY <1>1, ReconcileCorrect, PTL

(* An alarm about a switch nobody else touches is explained by a deletion  *)
(* of the rule in the table.                                               *)
THEOREM AlarmsHaveACauseHolds == FairReconcileSpec => []AlarmsHaveACause
<1>1. RecInv => AlarmsHaveACause
  BY DEF RecInv, AlarmsHaveACause, Watching, Now, Undisturbed, Explained
<1> QED BY <1>1, ReconcileCorrect, PTL
=============================================================================
