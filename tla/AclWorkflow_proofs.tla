------------------------- MODULE AclWorkflow_proofs -------------------------
(***************************************************************************)
(* Proofs about the approval workflow for any number of requests, rules    *)
(* and handlers and any amount of disturbance: its type invariant, the     *)
(* invariant about who may assume what of a row, and what follows from it. *)
(***************************************************************************)
EXTENDS AclSafety, FiniteSetTheorems, TLAPS

-----------------------------------------------------------------------------
(* Typing: the table of requests                                           *)

(* What the switch displays is a snapshot.                                 *)
LEMMA DisplayType ==
  ASSUME NEW config \in Configs
  PROVE  Display(config) \in Snapshots
BY WorkflowAssumption DEF Display, Configs, Snapshots, Entries, Texts

(* A rule count is a number.                                               *)
LEMMA CountType ==
  ASSUME NEW table
  PROVE  Count(table) \in Nat
BY TableAssumption, FS_Subset, FS_CardinalityType DEF Count, Occupied

(* What every step leaves of a row in the table: everything but its state, *)
(* which stays one of the table's.                                         *)
Kept(r) ==
  /\ req'[r].state \in RowStates
  /\ req'[r].action = req[r].action
  /\ req'[r].rule = req[r].rule
  /\ req'[r].body = req[r].body
  /\ req'[r].snap = req[r].snap
RowsKept == RowsOK' /\ \A r \in Rows : Kept(r)

(* Moving one row of the table to a state the code writes keeps the table. *)
LEMMA MoveKeeps ==
  ASSUME RowsOK, NEW r \in Rows, NEW state \in RowStates, req' = Move(r, state)
  PROVE  RowsKept
<1>1. req' \in [Requests -> RowType]
  BY DEF RowsOK, Move, RowType, Rows
<1>2. ASSUME NEW q \in Requests
      PROVE  /\ q # r => req'[q] = req[q]
             /\ req'[r].state = state
             /\ req'[q].action = req[q].action
             /\ req'[q].rule = req[q].rule
             /\ req'[q].body = req[q].body
             /\ req'[q].snap = req[q].snap
  BY DEF RowsOK, Move, RowType, Rows
<1>3. ASSUME NEW q \in Requests PROVE Complete(q)'
  BY <1>2 DEF Complete, RowsOK, Rows, IsAdd, RowStates
<1>4. ASSUME NEW q \in Rows PROVE Kept(q)
  BY <1>2 DEF Kept, Rows
<1> QED BY <1>1, <1>3, <1>4 DEF RowsKept, RowsOK

(* Filling in a draft keeps the table: the draft is no row yet.            *)
LEMMA DraftKeeps ==
  ASSUME RowsOK, NEW r \in Requests, req[r].state \notin RowStates, NEW row \in RowType,
         req' = [req EXCEPT ![r] = row],
         row.state # "unsent" /\ row.action = "add_rule" => row.body \in Bodies,
         row.state \in RowStates \cup {"drafted"} \/ row.action # "add_rule"
           => row.rule \in RuleIds
  PROVE  RowsKept
<1>1. req' \in [Requests -> RowType]
  BY DEF RowsOK
<1>2. req'[r] = row /\ \A q \in Requests \ {r} : req'[q] = req[q]
  BY DEF RowsOK
<1>3. ASSUME NEW q \in Requests PROVE Complete(q)'
  BY <1>2 DEF Complete, RowsOK, IsAdd
<1>4. ASSUME NEW q \in Rows PROVE Kept(q)
  BY <1>2 DEF Kept, Rows
<1> QED BY <1>1, <1>3, <1>4 DEF RowsKept, RowsOK

(* A row nothing was done to.                                              *)
LEMMA SameKeeps ==
  ASSUME RowsOK, UNCHANGED req
  PROVE  RowsKept
BY DEF RowsOK, RowsKept, Kept, Rows, Complete, IsAdd

(* What is done at the desk (submit, approve, reject) keeps the table.     *)
LEMMA DeskKeeps ==
  ASSUME TypeOK, NEW r \in Requests, Desk(r)
  PROVE  RowsKept
<1> USE DEF TypeOK, Draft, IsAdd, RowStates, DraftStates
<1>1. RowsOK BY DEF TypeOK
<1>2. Blank \in RowType /\ Blank.state = "unsent" /\ Blank.action = "add_rule"
  BY DEF Blank, RowType
<1>3. req[r] \in RowType /\ Complete(r)
  BY DEF RowsOK
<1>4. Display(running) \in Snapshots
  BY DisplayType DEF SwitchOK
<1>5. ASSUME NEW b \in Bodies, Submit(r, b) PROVE RowsKept
  <2> DEFINE row == [Blank EXCEPT !.state = "reading", !.body = b]
  <2>1. row \in RowType /\ row.state = "reading" /\ row.action = "add_rule" /\ row.body = b
    BY DEF Blank, RowType
  <2> QED BY <1>1, <1>5, <2>1, DraftKeeps DEF Submit
<1>6. ASSUME NEW target \in Requests, SubmitDelete(r, target) PROVE RowsKept
  <2> DEFINE row == [Blank EXCEPT !.state = "reading", !.action = "delete_rule",
                                  !.rule = req[target].rule]
  <2>1. req[target].rule \in RuleIds
    BY <1>6 DEF SubmitDelete, RowsOK, Complete
  <2>2. row \in RowType /\ row.state = "reading" /\ row.action = "delete_rule"
        /\ row.rule = req[target].rule
    BY <2>1 DEF Blank, RowType
  <2> QED BY <1>1, <1>6, <2>1, <2>2, DraftKeeps DEF SubmitDelete
<1>7. CASE Allocate(r)
  <2>1. PICK n \in Window : Draft(r, "reading", [req[r] EXCEPT !.state = "drafted", !.rule = n,
                                                       !.snap = Display(running)])
    BY <1>7 DEF Allocate
  <2>2. n \in RuleIds
    BY TableAssumption DEF Window
  <2> DEFINE row == [req[r] EXCEPT !.state = "drafted", !.rule = n, !.snap = Display(running)]
  <2>3. row \in RowType /\ row.state = "drafted" /\ row.rule = n /\ row.body = req[r].body
        /\ row.action = req[r].action
    BY <1>3, <1>4, <2>2 DEF RowType
  <2> QED BY <1>1, <1>3, <2>1, <2>2, <2>3, DraftKeeps DEF Complete
<1>8. CASE ConfirmRule(r)
  <2> DEFINE row(snap) == [req[r] EXCEPT !.state = "drafted", !.snap = snap]
  <2>1. PICK snap \in {Display(running), Unreadable, req[r].snap} :
          req' = [req EXCEPT ![r] = row(snap)]
    <3>1. [req[r] EXCEPT !.state = "drafted"] = row(req[r].snap)
      BY <1>3 DEF RowType
    <3> QED BY <1>8, <3>1 DEF ConfirmRule, Move
  <2>2. row(snap) \in RowType /\ row(snap).state = "drafted"
        /\ row(snap).rule = req[r].rule /\ row(snap).action = "delete_rule"
    BY <1>3, <1>4, <1>8 DEF RowType, ConfirmRule
  <2>3. row(snap).rule \in RuleIds /\ req[r].state \notin RowStates
    BY <1>3, <1>8, <2>2 DEF Complete, ConfirmRule
  <2> HIDE DEF row
  <2> QED BY <1>1, <2>1, <2>2, <2>3, DraftKeeps
<1>9. CASE CommitRow(r)
  <2> DEFINE row == [req[r] EXCEPT !.state = "pending"]
  <2>1. row \in RowType /\ row.state = "pending" /\ row.rule = req[r].rule
        /\ row.action = req[r].action /\ row.body = req[r].body
    BY <1>3 DEF RowType
  <2> QED BY <1>1, <1>3, <1>9, <2>1, DraftKeeps DEF CommitRow, Complete
<1>10. CASE SubmitFails(r)
  BY <1>1, <1>2, <1>10, DraftKeeps DEF SubmitFails
<1>11. CASE Approve(r) \/ Reject(r)
  BY <1>1, <1>11, MoveKeeps DEF Approve, Reject, Decidable, Rows
<1> QED BY <1>5, <1>6, <1>7, <1>8, <1>9, <1>10, <1>11 DEF Desk

(* A dispatch handler's step keeps the table.                              *)
LEMMA HandlerKeeps ==
  ASSUME TypeOK, NEW w \in Workers, HandlerStep(w)
  PROVE  RowsKept
<1>1. RowsOK BY DEF TypeOK
<1>2. ~ At(w, "idle") => disp[w].req \in Rows
  BY DEF TypeOK, HandlersOK
<1>3. CASE UNCHANGED req
  BY <1>1, <1>3, SameKeeps
<1>4. ASSUME NEW state \in RowStates, ~ At(w, "idle"), Record(w, disp[w].req, state)
      PROVE  RowsKept
  BY <1>1, <1>2, <1>4, MoveKeeps, SameKeeps DEF Record
<1>5. CASE Drift(w) \/ BindingMismatch(w) \/ Activate(w) \/ Revoke(w)
  BY <1>4, <1>5 DEF Drift, BindingMismatch, Activate, Revoke, At, RowStates
<1>6. CASE Settle(w)
  BY <1>4, <1>6 DEF Settle, FailureState, At, RowStates
<1>7. CASE Claim(w)
  BY <1>1, <1>2, <1>7, MoveKeeps, SameKeeps DEF Claim, At, RowStates
<1>8. CASE Retire(w)
  <2> DEFINE gone == IF disp[w].expired THEN {} ELSE Retired(req[disp[w].req].rule)
  <2>1. /\ \A q \in gone : req[q].state = "active"
        /\ req' = [r \in Requests |-> IF r \in gone THEN [req[r] EXCEPT !.state = "revoked"]
                                                    ELSE req[r]]
    BY <1>8 DEF Retire, Retired
  <2> HIDE DEF gone
  <2>2. req' \in [Requests -> RowType]
    BY <1>1, <2>1 DEF RowsOK, RowType, RowStates
  <2>3. ASSUME NEW q \in Requests
        PROVE  /\ q \notin gone => req'[q] = req[q]
               /\ q \in gone => req'[q].state = "revoked" /\ req[q].state = "active"
               /\ req'[q].action = req[q].action
               /\ req'[q].rule = req[q].rule
               /\ req'[q].body = req[q].body
               /\ req'[q].snap = req[q].snap
    BY <1>1, <2>1 DEF RowsOK, RowType
  <2>4. ASSUME NEW q \in Requests PROVE Complete(q)'
    BY <1>1, <2>3 DEF Complete, RowsOK, IsAdd, RowStates
  <2>5. ASSUME NEW q \in Rows PROVE Kept(q)
    BY <2>3 DEF Kept, Rows, RowStates
  <2> QED BY <2>2, <2>4, <2>5 DEF RowsKept, RowsOK
<1> QED
  BY <1>3, <1>5, <1>6, <1>7, <1>8
  DEF HandlerStep, PreSnapshot, Launch, ApplyReturns, PostSnapshot, Look, Fail,
      LaunchRollback, RollbackReturns, FinalSnapshot, webVars

(* So does every step, of whomever: rows stay well formed and stay rows.   *)
LEMMA StepKeeps ==
  ASSUME TypeOK, [Next]_vars
  PROVE  RowsKept
<1>1. RowsOK BY DEF TypeOK
<1>2. CASE UNCHANGED req
  BY <1>1, <1>2, SameKeeps
<1>3. CASE Crash
  <2>1. req' \in [Requests -> RowType]
    BY <1>1, <1>3 DEF Crash, RowsOK, Blank, RowType, DraftStates
  <2>2. ASSUME NEW q \in Requests
        PROVE  /\ q \in Rows => req'[q] = req[q]
               /\ q \notin Rows => req'[q].state = "unsent" /\ req'[q].action = "add_rule"
    BY <1>3 DEF Crash, Blank
  <2>3. ASSUME NEW q \in Requests PROVE Complete(q)'
    BY <1>1, <2>2 DEF Complete, RowsOK, IsAdd, RowStates
  <2>4. ASSUME NEW q \in Rows PROVE Kept(q)
    BY <2>2 DEF Kept, Rows
  <2> QED BY <2>1, <2>3, <2>4 DEF RowsKept, RowsOK
<1>4. CASE \E r \in Requests : Desk(r)
  BY <1>4, DeskKeeps
<1>5. CASE \E w \in Workers : HandlerStep(w)
  BY <1>5, HandlerKeeps
<1>6. ASSUME NEW w \in Workers, AgentStep(w) PROVE UNCHANGED req
  BY <1>6 DEF AgentStep, Guard, Perform, Refuse, Timeout, OrphanExit, webVars
<1> QED
  BY <1>2, <1>3, <1>4, <1>5, <1>6
  DEF Next, vars, webVars, BeginDispatch, Switch, LateCommand, LateDrop, EngineerEdits,
      EngineerSaves, Reboot, Machine, Kill, Expire

-----------------------------------------------------------------------------
(* Typing: the switch                                                      *)

(* The command an agent sends is one the switch can be sent.               *)
LEMMA CommandOK ==
  ASSUME TypeOK, NEW w \in Workers, agent[w].pc \in Sending
  PROVE  Command(w) \in CommandType
<1>1. /\ agent[w].req \in Rows
      /\ agent[w].pc = "rule" => IsAdd(agent[w].req)
  BY DEF TypeOK, AgentsOK, Sending
<1>2. /\ req[agent[w].req] \in RowType
      /\ Complete(agent[w].req)
      /\ agent[w].req \in Requests
      /\ req[agent[w].req].state \in RowStates
  BY <1>1 DEF TypeOK, RowsOK, Rows
<1>3. agent[w].pc = "rule" => req[agent[w].req].body \in Bodies
  BY <1>1, <1>2 DEF Complete, RowStates
<1>4. req[agent[w].req].rule \in RuleIds
  BY <1>2 DEF Complete
<1> QED BY <1>2, <1>3, <1>4 DEF Command, CommandType, RuleOf, RowType

(* Executing a command keeps the running configuration a configuration.    *)
LEMMA ExecuteType ==
  ASSUME SwitchOK, NEW c \in CommandType, Accepted(c), Execute(c)
  PROVE  running' \in Configs /\ saved' \in Configs
<1> DEFINE old == running[c.rule]
<1>1. /\ c.rule \in RuleIds
      /\ c.by \in Requests
      /\ c.op \in Sending
      /\ c.op = "rule" => c.body \in Bodies
  BY DEF CommandType
<1>2. old \in Entries \cup {Absent}
  BY <1>1 DEF SwitchOK, Configs
<1>3. CASE c.op = "rule"
  <2> DEFINE entry == [body |-> c.body, by |-> c.by,
                       note |-> IF old = Absent THEN None ELSE old.note]
  <2>1. entry \in Entries
    BY <1>1, <1>2, <1>3 DEF Entries
  <2>2. running' = [running EXCEPT ![c.rule] = entry]
    BY <1>3 DEF Execute, WithRule
  <2>3. saved' = saved
    BY <1>3 DEF Execute
  <2> QED BY <1>1, <2>1, <2>2, <2>3 DEF SwitchOK, Configs
<1>4. CASE c.op = "comment"
  <2>1. old # Absent
    BY <1>1, <1>4 DEF Accepted, Holds, Occupied
  <2>2. [old EXCEPT !.note = c.by] \in Entries
    BY <1>1, <1>2, <2>1 DEF Entries
  <2>3. running' = [running EXCEPT ![c.rule] = [old EXCEPT !.note = c.by]]
    BY <1>4 DEF Execute, WithRule
  <2>4. saved' = saved
    BY <1>4 DEF Execute
  <2> QED BY <1>1, <2>2, <2>3, <2>4 DEF SwitchOK, Configs
<1>5. CASE c.op = "undo"
  BY <1>1, <1>5 DEF Execute, WithoutRule, SwitchOK, Configs
<1>6. CASE c.op = "save"
  BY <1>6 DEF Execute, SwitchOK
<1> QED BY <1>1, <1>3, <1>4, <1>5, <1>6 DEF Sending

(* The switch and its late commands keep their types in every step.        *)
LEMMA SwitchTyped ==
  ASSUME TypeOK, [Next]_vars
  PROVE  SwitchOK'
<1>1. SwitchOK BY DEF TypeOK
<1>2. CASE UNCHANGED switchVars
  BY <1>1, <1>2 DEF SwitchOK, switchVars
<1>3. ASSUME NEW w \in Workers, AgentStep(w) PROVE SwitchOK'
  <2>1. CASE Perform(w)
    BY <1>1, <2>1, CommandOK, ExecuteType DEF Perform, SwitchOK
  <2>2. CASE Timeout(w)
    BY <1>1, <2>2, CommandOK DEF Timeout, SwitchOK
  <2> QED BY <1>2, <1>3, <2>1, <2>2 DEF AgentStep, Guard, Refuse, OrphanExit
<1>4. CASE Switch
  <2>1. ASSUME NEW c \in late, LateCommand(c) PROVE SwitchOK'
    BY <1>1, <2>1, ExecuteType DEF LateCommand, SwitchOK
  <2>2. ASSUME NEW c \in late, LateDrop(c) PROVE SwitchOK'
    BY <1>1, <2>2 DEF LateDrop, SwitchOK
  <2>3. ASSUME NEW n \in RuleIds, EngineerEdits(n) PROVE SwitchOK'
    <3>1. EngineersRules \subseteq Entries
      BY DEF EngineersRules, Entries
    <3> QED BY <1>1, <2>3, <3>1 DEF EngineerEdits, WithRule, SwitchOK, Configs
  <2>4. CASE EngineerSaves
    BY <1>1, <2>4 DEF EngineerSaves, SwitchOK
  <2>5. CASE Reboot
    BY <1>1, <2>5 DEF Reboot, SwitchOK
  <2> QED BY <1>4, <2>1, <2>2, <2>3, <2>4, <2>5 DEF Switch
<1>5. ASSUME NEW w \in Workers, Kill(w) \/ Expire(w) PROVE SwitchOK'
  BY <1>1, <1>5, CommandOK DEF Kill, Expire, Abandon, SwitchOK
<1>6. ASSUME NEW r \in Requests, Desk(r) PROVE UNCHANGED switchVars
  BY <1>6 DEF Desk, Submit, SubmitDelete, Allocate, ConfirmRule, CommitRow, Draft,
              SubmitFails, Approve, Reject
<1>7. ASSUME NEW w \in Workers, HandlerStep(w) PROVE UNCHANGED switchVars
  BY <1>7 DEF HandlerStep, PreSnapshot, Drift, Claim, Launch, ApplyReturns, PostSnapshot,
      Look, BindingMismatch, Activate, Revoke, Retire, Fail, LaunchRollback,
      RollbackReturns, FinalSnapshot, Settle
<1> QED
  BY <1>2, <1>3, <1>4, <1>5, <1>6, <1>7
  DEF Next, vars, switchVars, BeginDispatch, Machine, Crash

-----------------------------------------------------------------------------
(* Typing: handlers                                                        *)

(* A row of the table is one after the step, too.                          *)
LEMMA StillThere ==
  ASSUME RowsKept
  PROVE  Rows \subseteq Rows'
BY DEF RowsKept, Kept, Rows

(* A handler that moves on to a typed state leaves all handlers typed.     *)
LEMMA GoTyped ==
  ASSUME HandlersOK, RowsKept, NEW w \in Workers, NEW next \in HandlerType,
         next.pc # "idle" => next.req \in Rows, Go(w, next),
         mutex' \in Workers \cup {None}
  PROVE  HandlersOK'
BY StillThere DEF HandlersOK, Go, At

(* A step that touches neither mutex nor handlers keeps them typed.        *)
LEMMA SameHandlers ==
  ASSUME HandlersOK, RowsKept, UNCHANGED <<mutex, disp>>
  PROVE  HandlersOK'
BY StillThere DEF HandlersOK, At

(* The idle handler is a handler.                                          *)
LEMMA IdleTyped == Idle \in HandlerType /\ Idle.pc = "idle"
BY DEF Idle, HandlerType, Results

(* Giving dispatchMu back keeps the handlers typed.                        *)
LEMMA ReleaseTyped ==
  ASSUME HandlersOK, RowsKept, NEW w \in Workers, Release(w)
  PROVE  HandlersOK'
BY GoTyped, IdleTyped DEF Release

(* Each of a handler's own steps keeps the handlers typed.                 *)
LEMMA HandlerStepTyped ==
  ASSUME TypeOK, RowsKept, NEW w \in Workers, HandlerStep(w)
  PROVE  HandlersOK'
<1>1. HandlersOK /\ mutex \in Workers \cup {None}
  BY DEF TypeOK, HandlersOK
<1>2. disp[w] \in HandlerType /\ (disp[w].pc # "idle" => disp[w].req \in Rows)
  BY DEF TypeOK, HandlersOK, At
<1>3. Display(running) \in Snapshots
  BY DisplayType DEF TypeOK, SwitchOK
<1>4. CASE Release(w)
  BY <1>1, <1>4, ReleaseTyped
<1>5. CASE PreSnapshot(w)
  <2>1. CASE Go(w, [disp[w] EXCEPT !.pc = "compare", !.pre = Display(running)])
             /\ UNCHANGED mutex
    <3> DEFINE next == [disp[w] EXCEPT !.pc = "compare", !.pre = Display(running)]
    <3>1. next \in HandlerType /\ next.req = disp[w].req
      BY <1>2, <1>3 DEF HandlerType
    <3> QED BY <1>1, <1>2, <1>5, <2>1, <3>1, GoTyped DEF PreSnapshot, At
  <2> QED BY <1>4, <1>5, <2>1 DEF PreSnapshot
<1>6. CASE Claim(w)
  <2> DEFINE next == [disp[w] EXCEPT !.pc = "launch"]
  <2>1. next \in HandlerType /\ next.req = disp[w].req
    BY <1>2 DEF HandlerType
  <2> QED BY <1>1, <1>2, <1>4, <1>6, <2>1, GoTyped DEF Claim, At
<1>7. CASE Launch(w)
  <2> DEFINE dead == [disp[w] EXCEPT !.pc = "inspect", !.result = "killed"]
             next == [disp[w] EXCEPT !.pc = "apply"]
  <2>1. dead \in HandlerType /\ dead.req = disp[w].req
        /\ next \in HandlerType /\ next.req = disp[w].req
    BY <1>2 DEF HandlerType, Results
  <2>2. disp[w].req \in Rows
    BY <1>2, <1>7 DEF Launch, At
  <2>3. (Go(w, dead) \/ Go(w, next)) /\ UNCHANGED mutex
    BY <1>7 DEF Launch
  <2> HIDE DEF dead, next
  <2> QED BY <1>1, <2>1, <2>2, <2>3, GoTyped
<1>8. CASE ApplyReturns(w)
  <2> DEFINE next == [disp[w] EXCEPT !.pc = "inspect", !.result = agent[w].result]
  <2>1. agent[w].result \in Results
    BY DEF TypeOK, AgentsOK, AgentType
  <2>2. next \in HandlerType /\ next.req = disp[w].req
    BY <1>2, <2>1 DEF HandlerType
  <2> QED BY <1>1, <1>2, <1>8, <2>2, GoTyped DEF ApplyReturns, At
<1>9. ASSUME NEW pc \in {"decide", "settle"}, ~ At(w, "idle"), Look(w, pc) PROVE HandlersOK'
  <2> DEFINE seen == [disp[w] EXCEPT !.pc = pc, !.post = Display(running)]
             blind == [disp[w] EXCEPT !.pc = pc, !.post = Unreadable]
  <2>1. seen \in HandlerType /\ seen.req = disp[w].req
        /\ blind \in HandlerType /\ blind.req = disp[w].req
    BY <1>2, <1>3 DEF HandlerType
  <2>2. disp[w].req \in Rows
    BY <1>2, <1>9 DEF At
  <2>3. (Go(w, seen) \/ Go(w, blind)) /\ UNCHANGED mutex
    BY <1>9 DEF Look
  <2> HIDE DEF seen, blind
  <2> QED BY <1>1, <2>1, <2>2, <2>3, GoTyped
<1>10. CASE PostSnapshot(w) \/ FinalSnapshot(w)
  BY <1>9, <1>10 DEF PostSnapshot, FinalSnapshot, At
<1>11. ASSUME NEW pc \in {"retire", "rollback", "confirm", "undoing"}, ~ At(w, "idle"),
              Go(w, [disp[w] EXCEPT !.pc = pc]), UNCHANGED mutex
       PROVE  HandlersOK'
  <2> DEFINE next == [disp[w] EXCEPT !.pc = pc]
  <2>1. next \in HandlerType /\ next.req = disp[w].req
    BY <1>2 DEF HandlerType
  <2> QED BY <1>1, <1>2, <1>11, <2>1, GoTyped DEF At
<1>12. CASE Revoke(w) \/ LaunchRollback(w) \/ RollbackReturns(w)
  BY <1>11, <1>12 DEF Revoke, LaunchRollback, RollbackReturns, At
<1>13. CASE Fail(w)
  BY <1>11, <1>13 DEF Fail, AfterFailure, At
<1> QED
  BY <1>4, <1>5, <1>6, <1>7, <1>8, <1>10, <1>12, <1>13
  DEF HandlerStep, Drift, BindingMismatch, Activate, Retire, Settle

(* So does every step: expiry, crash and click included.                   *)
LEMMA HandlersTyped ==
  ASSUME TypeOK, RowsKept, [Next]_vars
  PROVE  HandlersOK'
<1>1. HandlersOK BY DEF TypeOK
<1>2. CASE UNCHANGED <<mutex, disp>>
  BY <1>1, <1>2, SameHandlers
<1>3. ASSUME NEW w \in Workers, NEW r \in Requests, BeginDispatch(w, r) PROVE HandlersOK'
  <2> DEFINE next == [Idle EXCEPT !.pc = "snapshot", !.req = r]
  <2>1. next \in HandlerType /\ next.req = r
    BY DEF Idle, HandlerType, Results
  <2>2. r \in Rows
    BY <1>3 DEF BeginDispatch, Rows, Awaiting, RowStates
  <2> QED BY <1>1, <1>3, <2>1, <2>2, GoTyped DEF BeginDispatch
<1>4. ASSUME NEW w \in Workers, Expire(w) PROVE HandlersOK'
  <2> DEFINE next == [disp[w] EXCEPT !.expired = TRUE]
  <2>1. next \in HandlerType /\ next.req = disp[w].req /\ next.pc = disp[w].pc
    BY <1>1 DEF HandlersOK, HandlerType
  <2> QED BY <1>1, <1>4, <2>1, GoTyped DEF Expire, At, HandlersOK
<1>5. CASE Crash
  BY <1>5, IdleTyped DEF Crash, HandlersOK, At
<1>6. ASSUME NEW w \in Workers, HandlerStep(w) PROVE HandlersOK'
  BY <1>6, HandlerStepTyped
<1>7. ASSUME NEW w \in Workers, AgentStep(w) PROVE UNCHANGED <<mutex, disp>>
  BY <1>7 DEF AgentStep, Guard, Perform, Refuse, Timeout, OrphanExit
<1>8. ASSUME NEW r \in Requests, Desk(r) PROVE UNCHANGED <<mutex, disp>>
  BY <1>8 DEF Desk, Submit, SubmitDelete, Allocate, ConfirmRule, CommitRow, Draft,
              SubmitFails, Approve, Reject
<1> QED
  BY <1>2, <1>3, <1>4, <1>5, <1>6, <1>7, <1>8
  DEF Next, vars, Switch, LateCommand, LateDrop, EngineerEdits, EngineerSaves, Reboot,
      Machine, Kill

-----------------------------------------------------------------------------
(* Typing: agents and history                                              *)

(* An agent in a state of its type, working on a row of the table.         *)
LEMMA AgentTyped ==
  ASSUME AgentsOK, RowsKept, NEW w \in Workers, NEW a \in AgentType,
         agent' = [agent EXCEPT ![w] = a],
         a.pc # "none" => a.req \in Rows,
         a.pc \in {"rule", "comment"} => IsAdd(a.req)
  PROVE  AgentsOK'
BY StillThere DEF AgentsOK, RowsKept, Kept, IsAdd, Rows

(* A step that leaves the agents alone keeps them typed.                   *)
LEMMA SameAgents ==
  ASSUME AgentsOK, RowsKept, UNCHANGED agent
  PROVE  AgentsOK'
BY StillThere DEF AgentsOK, RowsKept, Kept, IsAdd, Rows

(* An agent that ends with a result keeps the agents typed.                *)
LEMMA ExitTyped ==
  ASSUME AgentsOK, RowsKept, NEW w \in Workers, Running(w), NEW result \in Results,
         Exit(w, result)
  PROVE  AgentsOK'
<1> DEFINE a == [agent[w] EXCEPT !.pc = "done", !.result = result]
<1>1. agent' = [agent EXCEPT ![w] = a]
  BY DEF Exit, AgentsOK
<1>2. a \in AgentType /\ a.pc = "done" /\ a.req = agent[w].req
  BY DEF AgentsOK, AgentType
<1>3. a.req \in Rows
  BY <1>2 DEF AgentsOK, Running, Stages, Sending
<1> HIDE DEF a
<1> QED BY <1>1, <1>2, <1>3, AgentTyped

(* An agent that goes on to its next command keeps the agents typed.       *)
LEMMA StageTyped ==
  ASSUME AgentsOK, RowsKept, NEW w \in Workers, Running(w), NEW pc \in Stages,
         pc \in {"rule", "comment"} => IsAdd(agent[w].req),
         Stage(w, pc)
  PROVE  AgentsOK'
<1> DEFINE a == [agent[w] EXCEPT !.pc = pc]
<1>1. agent' = [agent EXCEPT ![w] = a]
  BY DEF Stage, AgentsOK
<1>2. a \in AgentType /\ a.pc = pc /\ a.req = agent[w].req
  BY DEF AgentsOK, AgentType
<1>3. a.req \in Rows
  BY <1>2 DEF AgentsOK, Running, Stages, Sending
<1> HIDE DEF a
<1> QED BY <1>1, <1>2, <1>3, AgentTyped

(* Each of an agent's own steps keeps the agents typed.                    *)
LEMMA AgentStepTyped ==
  ASSUME TypeOK, RowsKept, NEW w \in Workers, AgentStep(w)
  PROVE  AgentsOK'
<1>1. AgentsOK /\ agent[w] \in AgentType
  BY DEF TypeOK, AgentsOK
<1>2. CASE Guard(w)
  BY <1>1, <1>2, ExitTyped, StageTyped DEF Guard, Running, Stages, Sending, Results
<1>3. CASE Perform(w)
  <2>1. Running(w)
    BY <1>3 DEF Perform, Running, Stages
  <2>2. CASE agent[w].pc = "rule"
    <3>1. IsAdd(agent[w].req)
      BY <1>1, <2>2 DEF AgentsOK
    <3>2. Stage(w, "comment") \/ Stage(w, "save")
      BY <1>3, <2>2 DEF Perform, Proceed
    <3> QED BY <1>1, <2>1, <3>1, <3>2, StageTyped DEF Stages, Sending
  <2>3. CASE agent[w].pc = "comment"
    BY <1>1, <1>3, <2>1, <2>3, StageTyped DEF Perform, Proceed, Stages, Sending
  <2>4. CASE agent[w].pc = "save"
    BY <1>1, <1>3, <2>1, <2>4, ExitTyped DEF Perform, Proceed, Results
  <2>5. CASE agent[w].pc = "undo"
    <3>1. Exit(w, "ok") \/ Exit(w, "failed") \/ Stage(w, "save")
      BY <1>3, <2>5 DEF Perform, Proceed
    <3> QED BY <1>1, <2>1, <3>1, ExitTyped, StageTyped DEF Stages, Sending, Results
  <2> QED BY <1>3, <2>2, <2>3, <2>4, <2>5 DEF Perform, Sending
<1>4. ASSUME Running(w), GiveUp(w) PROVE AgentsOK'
  <2>1. Stage(w, "undo") \/ \E result \in Results : Exit(w, result)
    BY <1>4 DEF GiveUp, Results
  <2> QED BY <1>1, <1>4, <2>1, ExitTyped, StageTyped DEF Stages, Sending
<1>5. CASE Refuse(w) \/ Timeout(w)
  BY <1>4, <1>5 DEF Refuse, Timeout, Running, Stages
<1>6. CASE OrphanExit(w)
  <2>1. NoAgent \in AgentType /\ NoAgent.pc = "none"
    BY DEF NoAgent, AgentType, Results
  <2> QED BY <1>1, <1>6, <2>1, AgentTyped DEF OrphanExit
<1> QED BY <1>2, <1>3, <1>5, <1>6 DEF AgentStep

(* So does every step, those that start or kill an agent included.         *)
LEMMA AgentsTyped ==
  ASSUME TypeOK, RowsKept, [Next]_vars
  PROVE  AgentsOK'
<1>1. AgentsOK BY DEF TypeOK
<1>2. CASE UNCHANGED agent
  BY <1>1, <1>2, SameAgents
<1>3. NoAgent \in AgentType /\ NoAgent.pc = "none"
  BY DEF NoAgent, AgentType, Results
<1>4. ASSUME NEW w \in Workers, HandlerStep(w) PROVE AgentsOK'
  <2>1. CASE Launch(w)
    <3> DEFINE a == [pc |-> "guard", job |-> "apply", req |-> disp[w].req,
                     expect |-> Count(disp[w].pre), result |-> "none"]
    <3>1. disp[w].req \in Rows
      BY <2>1 DEF TypeOK, HandlersOK, Launch, At
    <3>2. a \in AgentType
      BY <3>1, CountType DEF AgentType, Stages, Results, Rows
    <3> QED BY <1>1, <1>2, <2>1, <3>1, <3>2, AgentTyped DEF Launch
  <2>2. CASE LaunchRollback(w)
    <3> DEFINE a == [pc |-> "undo", job |-> "rollback", req |-> disp[w].req,
                     expect |-> 0, result |-> "none"]
    <3>1. disp[w].req \in Rows
      BY <2>2 DEF TypeOK, HandlersOK, LaunchRollback, At
    <3>2. a \in AgentType
      BY <3>1 DEF AgentType, Stages, Sending, Results, Rows
    <3> QED BY <1>1, <1>2, <2>2, <3>1, <3>2, AgentTyped DEF LaunchRollback
  <2>3. CASE ApplyReturns(w) \/ RollbackReturns(w)
    BY <1>1, <1>3, <2>3, AgentTyped DEF ApplyReturns, RollbackReturns
  <2> QED BY <1>2, <1>4, <2>1, <2>2, <2>3
      DEF HandlerStep, PreSnapshot, Drift, Claim, PostSnapshot, Look, BindingMismatch,
          Activate, Revoke, Retire, Fail, FinalSnapshot, Settle
<1>5. ASSUME NEW w \in Workers, Kill(w) \/ Expire(w) PROVE AgentsOK'
  BY <1>1, <1>2, <1>5, ExitTyped DEF Kill, Expire, Results
<1>6. CASE Reboot
  <2>1. ASSUME NEW w \in Workers
        PROVE  /\ agent'[w] \in AgentType
               /\ agent'[w].req = agent[w].req
               /\ agent'[w].pc = agent[w].pc \/ (agent'[w].pc = "done" /\ Running(w))
    BY <1>1, <1>6 DEF Reboot, AgentsOK, AgentType, Results
  <2>2. agent' \in [Workers -> AgentType]
    BY <1>6, <2>1 DEF Reboot
  <2>3. UNCHANGED req
    BY <1>6 DEF Reboot, webVars
  <2> QED BY <1>1, <2>1, <2>2, <2>3 DEF AgentsOK, Running, Stages, Sending, IsAdd, Rows
<1>7. ASSUME NEW w \in Workers, AgentStep(w) PROVE AgentsOK'
  BY <1>7, AgentStepTyped
<1>8. ASSUME NEW r \in Requests, Desk(r) PROVE UNCHANGED agent
  BY <1>8 DEF Desk, Submit, SubmitDelete, Allocate, ConfirmRule, CommitRow, Draft,
              SubmitFails, Approve, Reject
<1> QED
  BY <1>2, <1>4, <1>5, <1>6, <1>7, <1>8
  DEF Next, vars, BeginDispatch, Switch, LateCommand, LateDrop, EngineerEdits,
      EngineerSaves, Machine, Crash

(* No disturbance is ever taken back.                                      *)
LEMMA SpentGrows ==
  ASSUME HistoryOK, [Next]_vars
  PROVE  /\ spent' \in [DOMAIN Limit -> Nat]
         /\ \A kind \in DOMAIN Limit : spent'[kind] >= spent[kind]
<1>1. CASE UNCHANGED spent
  BY <1>1 DEF HistoryOK
<1>2. ASSUME NEW kind \in DOMAIN Limit, Spend(kind)
      PROVE  /\ spent' \in [DOMAIN Limit -> Nat]
             /\ \A k \in DOMAIN Limit : spent'[k] >= spent[k]
  BY <1>2 DEF HistoryOK, Spend
<1>3. {"edit", "fault", "lost", "kill", "expiry", "crash", "reboot", "unchecked"}
        \subseteq DOMAIN Limit
  BY DEF Limit
<1> DEFINE Disturbs == \E kind \in DOMAIN Limit : Spend(kind)
<1>4. ASSUME NEW r \in Requests, Desk(r) PROVE UNCHANGED spent \/ Disturbs
  BY <1>3, <1>4 DEF Desk, Submit, SubmitDelete, Allocate, ConfirmRule, CommitRow, Draft,
                    SubmitFails, Approve, Reject
<1>5. ASSUME NEW w \in Workers, HandlerStep(w) PROVE UNCHANGED spent \/ Disturbs
  BY <1>3, <1>5 DEF HandlerStep, PreSnapshot, Drift, Claim, Launch, ApplyReturns,
      PostSnapshot, Look, BindingMismatch, Activate, Revoke, Retire, Fail, LaunchRollback,
      RollbackReturns, FinalSnapshot, Settle
<1>6. ASSUME NEW w \in Workers, AgentStep(w) PROVE UNCHANGED spent \/ Disturbs
  BY <1>3, <1>6 DEF AgentStep, Guard, Perform, Refuse, Timeout, OrphanExit
<1>7. CASE Switch \/ Machine
  <2>1. UNCHANGED spent \/ Disturbs
    BY <1>3, <1>7 DEF Switch, LateCommand, LateDrop, EngineerEdits, EngineerSaves, Reboot,
                      Machine, Kill, Expire, Crash
  <2> QED BY <1>1, <1>2, <2>1
<1>8. ASSUME NEW w \in Workers, NEW r \in Requests, BeginDispatch(w, r) PROVE UNCHANGED spent
  BY <1>8 DEF BeginDispatch
<1> QED BY <1>1, <1>2, <1>4, <1>5, <1>6, <1>7, <1>8 DEF Next, vars

(* The history of launches, refusals and disturbances keeps its type.      *)
LEMMA HistoryTyped ==
  ASSUME TypeOK, [Next]_vars
  PROVE  HistoryOK'
<1>1. HistoryOK BY DEF TypeOK
<1>2. spent' \in [DOMAIN Limit -> Nat]
  BY <1>1, SpentGrows
<1>3. CASE UNCHANGED <<launched, refused>>
  BY <1>1, <1>2, <1>3 DEF HistoryOK
<1>4. ASSUME NEW r \in Requests, Desk(r) PROVE HistoryOK'
  BY <1>1, <1>2, <1>3, <1>4 DEF Desk, Submit, SubmitDelete, Allocate, ConfirmRule,
      CommitRow, Draft, SubmitFails, Approve, Reject, HistoryOK
<1>5. ASSUME NEW w \in Workers, HandlerStep(w) PROVE HistoryOK'
  <2>1. CASE Launch(w)
    BY <1>1, <1>2, <2>1 DEF Launch, HistoryOK
  <2> QED BY <1>3, <1>5, <2>1
      DEF HandlerStep, PreSnapshot, Drift, Claim, ApplyReturns, PostSnapshot, Look,
          BindingMismatch, Activate, Revoke, Retire, Fail, LaunchRollback,
          RollbackReturns, FinalSnapshot, Settle, webVars
<1>6. ASSUME NEW w \in Workers, AgentStep(w) PROVE UNCHANGED <<launched, refused>>
  BY <1>6 DEF AgentStep, Guard, Perform, Refuse, Timeout, OrphanExit, webVars
<1> QED
  BY <1>3, <1>4, <1>5, <1>6
  DEF Next, vars, webVars, BeginDispatch, Switch, LateCommand, LateDrop, EngineerEdits,
      EngineerSaves, Reboot, Machine, Kill, Expire, Crash

(* The type invariant holds in the initial state,                          *)
LEMMA TypeInit == Init => TypeOK
<1> SUFFICES ASSUME Init PROVE TypeOK
  OBVIOUS
<1>1. RowsOK
  BY DEF Init, RowsOK, Blank, RowType, DraftStates, RowStates, Complete, IsAdd
<1>2. SwitchOK
  BY DEF Init, SwitchOK, Configs, EngineersRules, Entries
<1>3. HandlersOK
  BY DEF Init, HandlersOK, HandlerType, Idle, Results, At
<1>4. AgentsOK
  BY DEF Init, AgentsOK, AgentType, NoAgent, Results
<1>5. HistoryOK
  BY DEF Init, HistoryOK
<1> QED BY <1>1, <1>2, <1>3, <1>4, <1>5 DEF TypeOK

(* and no step breaks it.                                                  *)
LEMMA TypeStep == TypeOK /\ [Next]_vars => TypeOK'
<1> SUFFICES ASSUME TypeOK, [Next]_vars PROVE TypeOK'
  OBVIOUS
<1>1. RowsKept
  BY StepKeeps
<1> QED
  BY <1>1, SwitchTyped, HandlersTyped, AgentsTyped, HistoryTyped DEF TypeOK, RowsKept

(* Every reachable state is well typed: whatever people, agents, the       *)
(* switch and the machine do, rows keep the states the code writes, and    *)
(* no handler or agent works on a row that is not in the table.            *)
THEOREM TypeCorrect == Spec => []TypeOK
<1>1. Init => TypeOK
  BY TypeInit
<1>2. TypeOK /\ [Next]_vars => TypeOK'
  BY TypeStep
<1> QED BY <1>1, <1>2, PTL DEF Spec

-----------------------------------------------------------------------------
(* The workflow invariant                                                  *)

(* dispatchMu makes the handler that acts the only one there is.           *)
LEMMA OthersIdle ==
  ASSUME WorkflowInv, NEW v \in Workers, NEW w \in Workers,
         ~ At(v, "idle"), ~ At(w, "idle")
  PROVE  v = w
BY DEF WorkflowInv, HandlerOwnsRow

(* Only busy handlers step, and a step leaves the other handlers, their    *)
(* agents and the refusals alone.                                          *)
LEMMA HandlerGoes ==
  ASSUME TypeOK, NEW w \in Workers, HandlerStep(w)
  PROVE  /\ ~ At(w, "idle")
         /\ \A v \in Workers \ {w} : disp'[v] = disp[v] /\ agent'[v] = agent[v]
         /\ UNCHANGED refused
BY DEF HandlerStep, PreSnapshot, Drift, Claim, Launch, ApplyReturns, PostSnapshot, Look,
       BindingMismatch, Activate, Revoke, Retire, Fail, LaunchRollback, RollbackReturns,
       FinalSnapshot, Settle, Go, Release, At, webVars, TypeOK, HandlersOK, AgentsOK

(* The row of a step's handler, and what the step records in it.           *)
LEMMA RecordMoves ==
  ASSUME TypeOK, NEW w \in Workers, ~ At(w, "idle"), NEW state \in RowStates,
         Record(w, disp[w].req, state)
  PROVE  /\ disp[w].req \in Requests
         /\ req'[disp[w].req].state \in {req[disp[w].req].state, state}
         /\ \A r \in Requests \ {disp[w].req} : req'[r] = req[r]
BY DEF Record, Move, TypeOK, HandlersOK, RowsOK, Rows, RowType

(* After a handler's step every busy handler owns its row: the conjunct    *)
(* HandlerOwnsRow of the invariant.                                        *)
LEMMA HandlerStepOwns ==
  ASSUME TypeOK, RowsKept, WorkflowInv, NEW w \in Workers, HandlerStep(w)
  PROVE  \A v \in Workers : HandlerOwnsRow(v)'
<1> PICK r : r = disp[w].req
  OBVIOUS
<1>1. ~ At(w, "idle") /\ \A v \in Workers \ {w} : disp'[v] = disp[v]
  BY HandlerGoes
<1>2. ASSUME NEW v \in Workers \ {w} PROVE HandlerOwnsRow(v)'
  <2>1. At(v, "idle")
    BY <1>1, OthersIdle
  <2> QED BY <1>1, <2>1 DEF HandlerOwnsRow, At
<1> SUFFICES HandlerOwnsRow(w)'
  BY <1>2
<1>3. /\ HandlerOwnsRow(w)
      /\ r \in Requests /\ r \in Rows
      /\ LaunchedOnlyAfterClaim(r)
      /\ disp[w] \in HandlerType
      /\ disp \in [Workers -> HandlerType]
      /\ req \in [Requests -> RowType]
      /\ launched \in [Requests -> Nat]
  BY <1>1 DEF WorkflowInv, TypeOK, HandlersOK, RowsOK, HistoryOK, Rows
<1>4. IsAdd(r)' = IsAdd(r)
  BY <1>3 DEF RowsKept, Kept, IsAdd
<1>5. CASE Release(w)
  <2>1. disp'[w].pc = "idle"
    BY <1>3, <1>5, IdleTyped DEF Release, Go
  <2> QED BY <2>1 DEF HandlerOwnsRow, At
<1>6. ASSUME disp'[w].req = r, UNCHANGED <<mutex, req>>,
             \/ disp[w].pc \in BeforeClaim /\ disp'[w].pc \in BeforeClaim
             \/ disp[w].pc \in AfterClaim /\ disp'[w].pc \in AfterClaim \ {"launch"}
      PROVE  HandlerOwnsRow(w)'
  BY <1>1, <1>3, <1>6 DEF HandlerOwnsRow, At, BeforeClaim, AfterClaim
<1>7. CASE PreSnapshot(w)
  <2>1. CASE Go(w, [disp[w] EXCEPT !.pc = "compare", !.pre = Display(running)])
             /\ UNCHANGED <<mutex, req>>
    BY <1>3, <1>6, <1>7, <2>1 DEF PreSnapshot, Go, HandlerType, At, BeforeClaim, AfterClaim
  <2> QED BY <1>5, <1>7, <2>1 DEF PreSnapshot, webVars
<1>8. CASE Claim(w)
  <2>1. CASE /\ Claimable(r)
             /\ req' = Move(r, "dispatching")
             /\ Go(w, [disp[w] EXCEPT !.pc = "launch"])
             /\ UNCHANGED <<mutex, launched>>
    <3>1. launched[r] = 0
      BY <1>3, <2>1 DEF Claimable, Awaiting, LaunchedOnlyAfterClaim
    <3>2. req'[r].state = "dispatching"
      BY <1>3, <2>1 DEF Move, RowType
    <3>3. disp'[w].pc = "launch" /\ disp'[w].req = r
      BY <1>3, <2>1 DEF Go, HandlerType
    <3> QED BY <1>1, <1>3, <2>1, <3>1, <3>2, <3>3
        DEF HandlerOwnsRow, At, BeforeClaim, AfterClaim
  <2> QED BY <1>5, <1>8, <2>1 DEF Claim
<1>9. CASE Launch(w)
  <2> DEFINE dead == [disp[w] EXCEPT !.pc = "inspect", !.result = "killed"]
             next == [disp[w] EXCEPT !.pc = "apply"]
  <2>1. dead.pc = "inspect" /\ dead.req = r /\ next.pc = "apply" /\ next.req = r
    BY <1>3 DEF HandlerType
  <2>2. disp'[w] \in {dead, next}
    BY <1>3, <1>9 DEF Launch, Go
  <2> HIDE DEF dead, next
  <2> QED BY <1>6, <1>9, <2>1, <2>2 DEF Launch, At, AfterClaim
<1>10. CASE ApplyReturns(w) \/ RollbackReturns(w)
  <2> DEFINE told == [disp[w] EXCEPT !.pc = "inspect", !.result = agent[w].result]
             next == [disp[w] EXCEPT !.pc = "confirm"]
  <2>1. told.pc = "inspect" /\ told.req = r /\ next.pc = "confirm" /\ next.req = r
    BY <1>3 DEF HandlerType
  <2>2. disp'[w] \in {told, next}
    BY <1>3, <1>10 DEF ApplyReturns, RollbackReturns, Go
  <2> HIDE DEF told, next
  <2> QED BY <1>6, <1>10, <2>1, <2>2 DEF ApplyReturns, RollbackReturns, At, AfterClaim, webVars
<1>11. ASSUME NEW pc \in {"decide", "settle"}, Look(w, pc)
       PROVE  disp'[w].pc = pc /\ disp'[w].req = r /\ UNCHANGED <<mutex, req>>
  <2> DEFINE seen == [disp[w] EXCEPT !.pc = pc, !.post = Display(running)]
             blind == [disp[w] EXCEPT !.pc = pc, !.post = Unreadable]
  <2>1. seen.pc = pc /\ seen.req = r /\ blind.pc = pc /\ blind.req = r
    BY <1>3 DEF HandlerType
  <2>2. disp'[w] \in {seen, blind} /\ UNCHANGED <<mutex, req>>
    BY <1>3, <1>11 DEF Look, Go, webVars
  <2> HIDE DEF seen, blind
  <2> QED BY <2>1, <2>2
<1>16. CASE PostSnapshot(w) \/ FinalSnapshot(w)
  BY <1>6, <1>11, <1>16 DEF PostSnapshot, FinalSnapshot, At, AfterClaim
<1>12. CASE Fail(w)
  <2>1. disp'[w].pc \in {"rollback", "confirm"} /\ disp'[w].req = r
    BY <1>3, <1>12 DEF Fail, AfterFailure, Go, HandlerType
  <2> QED BY <1>6, <1>12, <2>1 DEF Fail, At, AfterClaim, webVars
<1>13. CASE LaunchRollback(w)
  <2>1. disp'[w].pc \in {"confirm", "undoing"} /\ disp'[w].req = r
    BY <1>3, <1>13 DEF LaunchRollback, Go, HandlerType
  <2> QED BY <1>6, <1>13, <2>1 DEF LaunchRollback, At, AfterClaim, webVars
<1>14. CASE Revoke(w)
  <2>1. disp'[w].pc = "retire" /\ disp'[w].req = r /\ mutex' = mutex
    BY <1>3, <1>14 DEF Revoke, Go, HandlerType
  <2>2. req[r].state = "dispatching"
    BY <1>3, <1>14 DEF Revoke, HandlerOwnsRow, At, AfterClaim
  <2>3. req'[r].state \in {"dispatching", "revoked"}
    BY <1>1, <1>14, <2>2, RecordMoves DEF Revoke, RowStates
  <2>4. ~ IsAdd(r)
    BY <1>14 DEF Revoke
  <2> QED BY <1>1, <1>3, <1>4, <2>1, <2>3, <2>4
      DEF HandlerOwnsRow, At, BeforeClaim, AfterClaim
<1> QED
  BY <1>5, <1>7, <1>8, <1>9, <1>10, <1>16, <1>12, <1>13, <1>14
  DEF HandlerStep, Drift, BindingMismatch, Activate, Retire, Settle

(* After a handler's step no row was launched twice or before its claim:   *)
(* LaunchedOnlyAfterClaim.                                                 *)
LEMMA HandlerStepLaunches ==
  ASSUME TypeOK, RowsKept, WorkflowInv, NEW w \in Workers, HandlerStep(w)
  PROVE  \A q \in Requests : LaunchedOnlyAfterClaim(q)'
<1> SUFFICES ASSUME NEW q \in Requests PROVE LaunchedOnlyAfterClaim(q)'
  OBVIOUS
<1> PICK r : r = disp[w].req
  OBVIOUS
<1>1. ~ At(w, "idle") /\ refused' = refused
  BY HandlerGoes
<1>2. /\ HandlerOwnsRow(w)
      /\ r \in Requests
      /\ LaunchedOnlyAfterClaim(q) /\ LaunchedOnlyAfterClaim(r)
      /\ req \in [Requests -> RowType]
      /\ launched \in [Requests -> Nat]
  BY <1>1 DEF WorkflowInv, TypeOK, HandlersOK, RowsOK, HistoryOK, Rows
<1>3. CASE UNCHANGED <<req, launched>>
  BY <1>1, <1>2, <1>3 DEF LaunchedOnlyAfterClaim
<1>4. ASSUME disp[w].pc \in AfterClaim, UNCHANGED launched,
             NEW state \in {"inconsistent", "active", "revoked", "dispatch_failed"},
             Record(w, r, state)
      PROVE  LaunchedOnlyAfterClaim(q)'
  <2>1. /\ req[r].state = "dispatching"
        /\ req'[r].state \in {"dispatching", state}
        /\ \A p \in Requests \ {r} : req'[p] = req[p]
    BY <1>1, <1>2, <1>4, RecordMoves DEF HandlerOwnsRow, RowStates
  <2>2. r \notin refused
    BY <1>2, <2>1 DEF LaunchedOnlyAfterClaim
  <2> QED BY <1>1, <1>2, <1>4, <2>1, <2>2 DEF LaunchedOnlyAfterClaim, DraftStates
<1>5. CASE Drift(w)
  <2>1. /\ req[r].state \in {"pending", "approved", "rejected"}
        /\ req'[r].state \in {req[r].state, "drift"}
        /\ \A p \in Requests \ {r} : req'[p] = req[p]
        /\ UNCHANGED launched
    BY <1>1, <1>2, <1>5, RecordMoves DEF Drift, HandlerOwnsRow, BeforeClaim, At, RowStates
  <2> QED BY <1>1, <1>2, <2>1 DEF LaunchedOnlyAfterClaim, DraftStates
<1>6. CASE Claim(w)
  <2>1. CASE UNCHANGED req
    BY <1>3, <1>6, <2>1 DEF Claim
  <2>2. CASE Claimable(r) /\ req' = Move(r, "dispatching")
    <3>1. /\ req[r].state \in {"pending", "approved"}
          /\ req'[r].state = "dispatching"
          /\ \A p \in Requests \ {r} : req'[p] = req[p]
      BY <1>2, <2>2 DEF Claimable, Awaiting, Move, RowType
    <3>2. r \notin refused /\ launched[r] = 0
      BY <1>2, <3>1 DEF LaunchedOnlyAfterClaim
    <3> QED BY <1>1, <1>2, <1>6, <3>1, <3>2 DEF Claim, LaunchedOnlyAfterClaim, DraftStates
  <2> QED BY <1>6, <2>1, <2>2 DEF Claim
<1>7. CASE Launch(w)
  <2>1. req[r].state = "dispatching" /\ launched[r] = 0 /\ UNCHANGED req
    BY <1>2, <1>7 DEF Launch, HandlerOwnsRow, At, AfterClaim
  <2>2. UNCHANGED launched \/ launched' = [launched EXCEPT ![r] = @ + 1]
    BY <1>7 DEF Launch
  <2> QED BY <1>1, <1>2, <2>1, <2>2 DEF LaunchedOnlyAfterClaim, DraftStates
<1>8. CASE Retire(w)
  <2> DEFINE gone == IF disp[w].expired THEN {} ELSE Retired(req[disp[w].req].rule)
  <2>1. /\ \A p \in gone : req[p].state = "active"
        /\ req' = [p \in Requests |-> IF p \in gone THEN [req[p] EXCEPT !.state = "revoked"]
                                                    ELSE req[p]]
        /\ UNCHANGED launched
    BY <1>8 DEF Retire, Retired
  <2> HIDE DEF gone
  <2>2. [req[q] EXCEPT !.state = "revoked"].state = "revoked"
    BY <1>2 DEF RowType
  <2>3. CASE q \in gone
    <3>1. req'[q] = [req[q] EXCEPT !.state = "revoked"] /\ req[q].state = "active"
      BY <2>1, <2>3
    <3> QED BY <1>1, <1>2, <2>1, <2>2, <3>1 DEF LaunchedOnlyAfterClaim, DraftStates
  <2>4. CASE q \notin gone
    <3>1. req'[q] = req[q]
      BY <2>1, <2>4
    <3> QED BY <1>1, <1>2, <2>1, <3>1 DEF LaunchedOnlyAfterClaim
  <2> QED BY <2>3, <2>4
<1>9. CASE Settle(w)
  BY <1>4, <1>9 DEF Settle, FailureState, At, AfterClaim
<1>10. CASE BindingMismatch(w) \/ Activate(w) \/ Revoke(w)
  BY <1>4, <1>10 DEF BindingMismatch, Activate, Revoke, At, AfterClaim
<1> QED
  BY <1>3, <1>5, <1>6, <1>7, <1>8, <1>9, <1>10
  DEF HandlerStep, PreSnapshot, ApplyReturns, PostSnapshot, Look, Fail, LaunchRollback,
      RollbackReturns, FinalSnapshot, webVars

(* After a handler's step every agent still has its handler waiting:       *)
(* AgentHasHandler.                                                        *)
LEMMA HandlerStepStaffs ==
  ASSUME TypeOK, WorkflowInv, NEW w \in Workers, HandlerStep(w), NEW v \in Workers,
         spent'["crash"] = 0 => spent["crash"] = 0
  PROVE  AgentHasHandler(v)'
<1> SUFFICES ASSUME spent["crash"] = 0, agent'[v].pc # "none"
             PROVE  disp'[v].pc \in {"apply", "undoing"}
  BY DEF AgentHasHandler, Calm, At
<1>1. AgentHasHandler(v) /\ AgentHasHandler(w)
  BY DEF WorkflowInv
<1>2. CASE v # w
  BY <1>1, <1>2, HandlerGoes DEF AgentHasHandler, Calm, At
<1>3. CASE v = w
  <2>1. /\ disp \in [Workers -> HandlerType] /\ agent \in [Workers -> AgentType]
        /\ agent[w].pc # "none" => disp[w].pc \in {"apply", "undoing"}
    BY <1>1 DEF TypeOK, HandlersOK, AgentsOK, AgentHasHandler, Calm, At
  <2>2. CASE Launch(w)
    <3>1. agent' # agent => disp' = [disp EXCEPT ![w] = [disp[w] EXCEPT !.pc = "apply"]]
      BY <2>2 DEF Launch, Go
    <3>2. agent' # agent
      BY <1>3, <2>1, <2>2 DEF Launch, At
    <3> QED BY <1>3, <2>1, <3>1, <3>2 DEF HandlerType
  <2>3. CASE LaunchRollback(w)
    <3>1. agent' # agent => disp' = [disp EXCEPT ![w] = [disp[w] EXCEPT !.pc = "undoing"]]
      BY <2>3 DEF LaunchRollback, Go
    <3>2. agent' # agent
      BY <1>3, <2>1, <2>3 DEF LaunchRollback, At
    <3> QED BY <1>3, <2>1, <3>1, <3>2 DEF HandlerType
  <2>4. CASE ApplyReturns(w) \/ RollbackReturns(w)
    BY <1>3, <2>1, <2>4 DEF ApplyReturns, RollbackReturns, NoAgent
  <2>5. CASE UNCHANGED agent /\ disp[w].pc \notin {"apply", "undoing"}
    BY <1>3, <2>1, <2>5
  <2> QED BY <2>2, <2>3, <2>4, <2>5
      DEF HandlerStep, PreSnapshot, Drift, Claim, PostSnapshot, Look, BindingMismatch,
          Activate, Revoke, Retire, Fail, FinalSnapshot, Settle, At
<1> QED BY <1>2, <1>3

(* What people do to a row: drafts become pending, pending rows decided.   *)
LEMMA DeskMoves ==
  ASSUME TypeOK, NEW r \in Requests, Desk(r)
  PROVE  /\ \A q \in Requests \ {r} : req'[q] = req[q]
         /\ \/ /\ req[r].state \in DraftStates
               /\ req'[r].state \in DraftStates \cup {"pending"}
               /\ refused' = refused
            \/ /\ req[r].state = "pending"
               /\ req'[r].state = "approved" /\ refused' = refused
            \/ /\ req[r].state = "pending"
               /\ req'[r].state = "rejected" /\ refused' = refused \cup {r}
<1>0. req \in [Requests -> RowType] /\ refused \subseteq Requests
  BY DEF TypeOK, RowsOK, HistoryOK
<1>1. CASE Approve(r) \/ Reject(r)
  BY <1>0, <1>1 DEF Approve, Reject, Decidable, Move, RowType
<1>2. CASE SubmitFails(r)
  BY <1>0, <1>2 DEF SubmitFails, DraftStates, Blank
<1>3. ASSUME NEW b \in Bodies, Submit(r, b)
      PROVE  /\ req[r].state = "unsent"
             /\ req' = [req EXCEPT ![r] = [Blank EXCEPT !.state = "reading", !.body = b]]
             /\ refused' = refused
  BY <1>3 DEF Submit, Draft
<1>4. ASSUME NEW b \in Bodies
      PROVE  [Blank EXCEPT !.state = "reading", !.body = b].state = "reading"
  BY DEF Blank
<1>5. ASSUME NEW t \in Requests, SubmitDelete(r, t)
      PROVE  /\ req[r].state = "unsent"
             /\ req' = [req EXCEPT ![r] = [Blank EXCEPT !.state = "reading",
                                   !.action = "delete_rule", !.rule = req[t].rule]]
             /\ refused' = refused
  BY <1>5 DEF SubmitDelete, Draft
<1>6. ASSUME NEW t \in Requests
      PROVE  [Blank EXCEPT !.state = "reading", !.action = "delete_rule",
                           !.rule = req[t].rule].state = "reading"
  BY DEF Blank
<1>7. CASE Allocate(r)
  <2>1. PICK n \in Window :
          Draft(r, "reading", [req[r] EXCEPT !.state = "drafted", !.rule = n,
                                             !.snap = Display(running)])
    BY <1>7 DEF Allocate
  <2>2. [req[r] EXCEPT !.state = "drafted", !.rule = n,
                       !.snap = Display(running)].state = "drafted"
    BY <1>0 DEF RowType
  <2> QED BY <1>0, <2>1, <2>2 DEF Draft, DraftStates
<1>8. CASE ConfirmRule(r)
  <2>1. [req[r] EXCEPT !.state = "drafted", !.snap = Display(running)].state = "drafted"
        /\ [req[r] EXCEPT !.state = "drafted"].state = "drafted"
    BY <1>0 DEF RowType
  <2> QED BY <1>0, <1>8, <2>1 DEF ConfirmRule, Move, DraftStates
<1>9. CASE CommitRow(r)
  <2>1. [req[r] EXCEPT !.state = "pending"].state = "pending"
    BY <1>0 DEF RowType
  <2> QED BY <1>0, <1>9, <2>1 DEF CommitRow, Draft, DraftStates
<1>10. CASE \E b \in Bodies : Submit(r, b)
  BY <1>0, <1>3, <1>4, <1>10 DEF DraftStates
<1>11. CASE \E t \in Requests : SubmitDelete(r, t)
  BY <1>0, <1>5, <1>6, <1>11 DEF DraftStates
<1> QED BY <1>1, <1>2, <1>7, <1>8, <1>9, <1>10, <1>11 DEF Desk

(* A row in no hurry: decisions move only pending rows, submissions only   *)
(* drafts, so neither disturbs a handler.                                  *)
LEMMA DeskStep ==
  ASSUME TypeOK, RowsKept, WorkflowInv, NEW r \in Requests, Desk(r)
  PROVE  WorkflowInv'
<1>1. UNCHANGED <<mutex, disp, agent, launched>>
  BY DEF Desk, Submit, SubmitDelete, Allocate, ConfirmRule, CommitRow, Draft, SubmitFails,
         Approve, Reject
<1>2. req \in [Requests -> RowType] /\ refused \subseteq Requests
  BY DEF TypeOK, RowsOK, HistoryOK
<1>3. /\ \A q \in Requests \ {r} : req'[q] = req[q]
      /\ \/ /\ req[r].state \in DraftStates
            /\ req'[r].state \in DraftStates \cup {"pending"}
            /\ refused' = refused
         \/ /\ req[r].state = "pending"
            /\ req'[r].state = "approved" /\ refused' = refused
         \/ /\ req[r].state = "pending"
            /\ req'[r].state = "rejected" /\ refused' = refused \cup {r}
  BY DeskMoves
<1>4. ASSUME NEW w \in Workers PROVE HandlerOwnsRow(w)'
  <2> PICK q : q = disp[w].req
    OBVIOUS
  <2>1. HandlerOwnsRow(w) /\ (~ At(w, "idle") => q \in Rows)
    BY DEF WorkflowInv, TypeOK, HandlersOK
  <2>2. ~ At(w, "idle") => req'[q].action = req[q].action /\ q \in Requests
    BY <2>1 DEF RowsKept, Kept, Rows
  <2> QED BY <1>1, <1>3, <2>1, <2>2
      DEF HandlerOwnsRow, At, IsAdd, DraftStates, BeforeClaim, AfterClaim, Rows, RowStates
<1>5. ASSUME NEW q \in Requests PROVE LaunchedOnlyAfterClaim(q)'
  <2>1. LaunchedOnlyAfterClaim(q)
    BY DEF WorkflowInv
  <2> QED BY <1>1, <1>3, <2>1 DEF LaunchedOnlyAfterClaim, DraftStates
<1>6. ASSUME NEW w \in Workers PROVE AgentHasHandler(w)'
  <2>1. spent'["crash"] = 0 => spent["crash"] = 0
    BY SpentGrows DEF TypeOK, HistoryOK, Next, Limit
  <2> QED BY <1>1, <2>1 DEF WorkflowInv, AgentHasHandler, Calm, At
<1> QED BY <1>4, <1>5, <1>6 DEF WorkflowInv

(* Steps that touch neither rows, nor handlers, nor dispatchMu, and start  *)
(* no agent.                                                               *)
LEMMA AsideStep ==
  ASSUME TypeOK, WorkflowInv, UNCHANGED <<req, mutex, disp, launched, refused>>,
         \A w \in Workers : agent'[w].pc # "none" => agent[w].pc # "none",
         spent'["crash"] = 0 => spent["crash"] = 0
  PROVE  WorkflowInv'
<1>1. ASSUME NEW w \in Workers PROVE HandlerOwnsRow(w)'
  BY DEF WorkflowInv, HandlerOwnsRow, At, IsAdd
<1>2. ASSUME NEW q \in Requests PROVE LaunchedOnlyAfterClaim(q)'
  BY DEF WorkflowInv, LaunchedOnlyAfterClaim
<1>3. ASSUME NEW w \in Workers PROVE AgentHasHandler(w)'
  BY DEF WorkflowInv, AgentHasHandler, Calm, At
<1> QED BY <1>1, <1>2, <1>3 DEF WorkflowInv

(* What an agent does, or what ends it, starts no agent.                   *)
LEMMA AgentsOnlyEnd ==
  ASSUME TypeOK, NEW w \in Workers,
         \/ AgentStep(w)
         \/ Kill(w)
         \/ Running(w) /\ Exit(w, "killed")
  PROVE  \A v \in Workers : agent'[v].pc # "none" => agent[v].pc # "none"
<1>1. agent \in [Workers -> AgentType]
  BY DEF TypeOK, AgentsOK
<1>2. \A v \in Workers \ {w} : agent'[v] = agent[v]
  <2>1. ASSUME NEW result, Exit(w, result)
        PROVE  \A v \in Workers \ {w} : agent'[v] = agent[v]
    BY <1>1, <2>1 DEF Exit
  <2>2. ASSUME NEW pc, Stage(w, pc)
        PROVE  \A v \in Workers \ {w} : agent'[v] = agent[v]
    BY <1>1, <2>2 DEF Stage
  <2>3. CASE Perform(w)
    <3>1. agent[w].pc \in Sending /\ Proceed(w)
      BY <2>3 DEF Perform
    <3>2. (\E result : Exit(w, result)) \/ (\E pc : Stage(w, pc))
      BY <3>1 DEF Proceed, Sending
    <3> QED BY <2>1, <2>2, <3>2
  <2>4. CASE GiveUp(w)
    <3>1. (\E result : Exit(w, result)) \/ (\E pc : Stage(w, pc))
      BY <2>4 DEF GiveUp
    <3> QED BY <2>1, <2>2, <3>1
  <2>5. CASE Guard(w)
    BY <2>1, <2>2, <2>5 DEF Guard
  <2>6. CASE OrphanExit(w)
    BY <1>1, <2>6 DEF OrphanExit
  <2> QED BY <2>1, <2>3, <2>4, <2>5, <2>6 DEF AgentStep, Refuse, Timeout, Kill
<1>3. agent[w].pc # "none"
  BY DEF AgentStep, Guard, Perform, Refuse, Timeout, OrphanExit, Kill, Running, Stages,
         Sending
<1> QED BY <1>2, <1>3

(* The inductive step: WorkflowInv is kept by every step of the system.    *)
LEMMA InvStep == TypeOK /\ WorkflowInv /\ [Next]_vars => WorkflowInv'
<1> SUFFICES ASSUME TypeOK, WorkflowInv, [Next]_vars PROVE WorkflowInv'
  OBVIOUS
<1>1. RowsKept
  BY StepKeeps
<1>2. spent'["crash"] = 0 => spent["crash"] = 0
  <2>1. "crash" \in DOMAIN Limit
    BY DEF Limit
  <2>2. spent["crash"] \in Nat /\ spent'["crash"] >= spent["crash"]
    BY <2>1, SpentGrows DEF TypeOK, HistoryOK
  <2> QED BY <2>2
<1>3. ASSUME NEW w \in Workers, NEW r \in Requests, BeginDispatch(w, r) PROVE WorkflowInv'
  <2>1. /\ \A v \in Workers : At(v, "idle")
        /\ disp \in [Workers -> HandlerType]
    BY <1>3, WorkflowAssumption
    DEF WorkflowInv, HandlerOwnsRow, BeginDispatch, MutexFree, TypeOK, HandlersOK
  <2>2. /\ disp'[w].pc = "snapshot" /\ disp'[w].req = r
        /\ \A v \in Workers \ {w} : disp'[v] = disp[v]
        /\ mutex' = w
        /\ UNCHANGED <<req, launched, refused, agent, spent>>
    BY <1>3, <2>1 DEF BeginDispatch, Go, Idle, webVars
  <2>3. ASSUME NEW v \in Workers PROVE HandlerOwnsRow(v)'
    BY <1>3, <2>1, <2>2 DEF HandlerOwnsRow, At, BeginDispatch, Awaiting, BeforeClaim,
                            AfterClaim
  <2>4. ASSUME NEW q \in Requests PROVE LaunchedOnlyAfterClaim(q)'
    BY <2>2 DEF WorkflowInv, LaunchedOnlyAfterClaim
  <2>5. ASSUME NEW v \in Workers PROVE AgentHasHandler(v)'
    BY <2>1, <2>2 DEF WorkflowInv, AgentHasHandler, Calm, At
  <2> QED BY <2>3, <2>4, <2>5 DEF WorkflowInv
<1>4. ASSUME NEW w \in Workers, HandlerStep(w) PROVE WorkflowInv'
  BY <1>1, <1>2, <1>4, HandlerStepOwns, HandlerStepLaunches, HandlerStepStaffs
  DEF WorkflowInv
<1>5. ASSUME NEW w \in Workers, AgentStep(w) \/ Kill(w) PROVE WorkflowInv'
  <2>1. UNCHANGED <<req, mutex, disp, launched, refused>>
    BY <1>5 DEF AgentStep, Guard, Perform, Refuse, Timeout, OrphanExit, Kill, webVars
  <2> QED BY <1>2, <1>5, <2>1, AgentsOnlyEnd, AsideStep
<1>6. ASSUME NEW w \in Workers, Expire(w) PROVE WorkflowInv'
  <2>1. /\ UNCHANGED <<req, mutex, launched, refused>>
        /\ \A v \in Workers : disp'[v].pc = disp[v].pc /\ disp'[v].req = disp[v].req
    BY <1>6 DEF Expire, Go, webVars, TypeOK, HandlersOK, HandlerType
  <2>2. \A v \in Workers : agent'[v].pc # "none" => agent[v].pc # "none"
    BY <1>6, AgentsOnlyEnd DEF Expire
  <2>3. ASSUME NEW v \in Workers PROVE HandlerOwnsRow(v)'
    BY <2>1 DEF WorkflowInv, HandlerOwnsRow, At, IsAdd
  <2>4. ASSUME NEW q \in Requests PROVE LaunchedOnlyAfterClaim(q)'
    BY <2>1 DEF WorkflowInv, LaunchedOnlyAfterClaim
  <2>5. ASSUME NEW v \in Workers PROVE AgentHasHandler(v)'
    BY <1>2, <2>1, <2>2 DEF WorkflowInv, AgentHasHandler, Calm, At
  <2> QED BY <2>3, <2>4, <2>5 DEF WorkflowInv
<1>7. CASE Crash
  <2>1. /\ UNCHANGED <<launched, refused>>
        /\ \A v \in Workers : disp'[v].pc = "idle"
        /\ \A q \in Requests : req'[q] = req[q] \/ (q \notin Rows /\ req'[q].state = "unsent")
    <3>1. Idle.pc = "idle" /\ Blank.state = "unsent"
      BY DEF Idle, Blank
    <3>2. /\ UNCHANGED <<launched, refused>>
          /\ disp' = [w \in Workers |-> Idle]
          /\ req' = [r \in Requests |-> IF r \in Rows THEN req[r] ELSE Blank]
      BY <1>7 DEF Crash
    <3>3. ASSUME NEW q \in Requests
          PROVE  req'[q] = req[q] \/ (q \notin Rows /\ req'[q].state = "unsent")
      BY <3>1, <3>2
    <3>4. ASSUME NEW v \in Workers PROVE disp'[v].pc = "idle"
      BY <3>1, <3>2
    <3> QED BY <3>2, <3>3, <3>4
  <2>2. spent'["crash"] # 0
    <3>1. "crash" \in DOMAIN Limit
      BY DEF Limit
    <3> QED BY <1>7, <3>1 DEF Crash, Spend, TypeOK, HistoryOK
  <2>3. ASSUME NEW q \in Requests PROVE LaunchedOnlyAfterClaim(q)'
    BY <2>1 DEF WorkflowInv, LaunchedOnlyAfterClaim, DraftStates, Rows, RowStates, TypeOK,
                RowsOK, RowType
  <2> QED BY <2>1, <2>2, <2>3 DEF WorkflowInv, HandlerOwnsRow, AgentHasHandler, At, Calm
<1>8. CASE Switch
  <2>1. UNCHANGED <<req, mutex, disp, launched, refused>>
    BY <1>8 DEF Switch, LateCommand, LateDrop, EngineerEdits, EngineerSaves, Reboot, webVars
  <2>2. \A w \in Workers : agent'[w].pc # "none" => agent[w].pc # "none"
    BY <1>8 DEF Switch, LateCommand, LateDrop, EngineerEdits, EngineerSaves, Reboot, Running,
                Stages, Sending
  <2> QED BY <1>2, <2>1, <2>2, AsideStep
<1>9. CASE UNCHANGED vars
  BY <1>2, <1>9, AsideStep DEF vars
<1>10. ASSUME NEW r \in Requests, Desk(r) PROVE WorkflowInv'
  BY <1>1, <1>10, DeskStep
<1> QED BY <1>3, <1>4, <1>5, <1>6, <1>7, <1>8, <1>9, <1>10 DEF Next, Machine

(* Nothing has happened yet in the initial state, so WorkflowInv holds.    *)
LEMMA InvInit == Init => WorkflowInv
BY DEF Init, WorkflowInv, HandlerOwnsRow, LaunchedOnlyAfterClaim, AgentHasHandler, At, Idle,
       NoAgent, Blank

(* The workflow invariant: a handler that is past the claim finds its row  *)
(* 'dispatching', one before it may still lose the row to a decision, and  *)
(* no agent works without its handler until aclweb has died once.          *)
THEOREM WorkflowCorrect == Spec => []WorkflowInv
<1>1. Init => WorkflowInv
  BY InvInit
<1>2. TypeOK /\ WorkflowInv /\ [Next]_vars => WorkflowInv'
  BY InvStep
<1> QED BY <1>1, <1>2, TypeCorrect, PTL DEF Spec

(* The three promises that follow: a change is put to the switch at most   *)
(* once, never after a rejection, and by one agent at a time.              *)
THEOREM OneApplyHolds == Spec => []OneApply
<1>1. WorkflowInv => OneApply
  BY DEF WorkflowInv, LaunchedOnlyAfterClaim, OneApply
<1> QED BY <1>1, WorkflowCorrect, PTL

(* A rejected change is never put to the switch.                           *)
THEOREM RefusedNotAppliedHolds == Spec => []RefusedNotApplied
<1>1. TypeOK /\ WorkflowInv => RefusedNotApplied
  BY DEF WorkflowInv, LaunchedOnlyAfterClaim, RefusedNotApplied, TypeOK, HistoryOK
<1> QED BY <1>1, TypeCorrect, WorkflowCorrect, PTL

(* Two agents are never in a write session, unless aclweb died under one.  *)
THEOREM OneWriterHolds == Spec => []OneWriter
<1>1. WorkflowInv => OneWriter
  <2> SUFFICES ASSUME WorkflowInv, Calm({"crash"}), NEW v \in Workers, NEW w \in Workers,
                      Running(v), Running(w)
               PROVE  v = w
    BY DEF OneWriter
  <2>1. ~ At(v, "idle") /\ ~ At(w, "idle")
    BY DEF WorkflowInv, AgentHasHandler, Running, Stages, Sending, At
  <2> QED BY <2>1, OthersIdle
<1> QED BY <1>1, WorkflowCorrect, PTL

-----------------------------------------------------------------------------
(* The workflow implements RequestLifecycle                                *)

(* The phase of every state the code writes.                               *)
LEMMA PhaseValues ==
  /\ \A state \in DraftStates : PhaseOf(state) = "absent"
  /\ PhaseOf("pending") = "open"
  /\ PhaseOf("approved") = "open"
  /\ PhaseOf("rejected") = "closed"
  /\ PhaseOf("drift") = "closed"
  /\ PhaseOf("dispatching") = "executing"
  /\ \A state \in {"active", "dispatch_failed", "inconsistent", "revoked"} :
       PhaseOf(state) = "settled"
BY DEF PhaseOf, DraftStates

LifecycleStep == [Lifecycle!Next]_(Lifecycle!vars)

(* A step that changes no phase and launches nothing stutters in           *)
(* RequestLifecycle.                                                       *)
LEMMA SamePhases ==
  ASSUME \A q \in Requests : PhaseOf(req'[q].state) = PhaseOf(req[q].state),
         UNCHANGED launched
  PROVE  LifecycleStep
BY DEF LifecycleStep, Lifecycle!vars

(* One row's change of phase is a step of RequestLifecycle when the life   *)
(* cycle allows it.                                                        *)
LEMMA PhaseChanges ==
  ASSUME NEW r \in Requests, NEW from, NEW to, UNCHANGED launched,
         \A q \in Requests \ {r} : req'[q] = req[q],
         PhaseOf(req[r].state) = from,
         PhaseOf(req'[r].state) = to,
         \/ from = to
         \/ from = "absent" /\ to = "open"
         \/ from = "open" /\ to = "closed"
         \/ from = "open" /\ to = "executing"
         \/ from = "executing" /\ to = "settled"
  PROVE  LifecycleStep
<1>1. CASE from = to
  BY <1>1, SamePhases
<1>2. ASSUME from # to PROVE Lifecycle!Becomes(r, {from}, to)
  <2> DEFINE old == [q \in Requests |-> PhaseOf(req[q].state)]
             new == [q \in Requests |-> PhaseOf(req'[q].state)]
  <2>1. \A q \in Requests : new[q] = IF q = r THEN to ELSE old[q]
    OBVIOUS
  <2>2. new = [old EXCEPT ![r] = to] /\ old[r] \in {from}
    BY <2>1
  <2> QED BY <2>2 DEF Lifecycle!Becomes
<1>3. UNCHANGED {q \in Requests : launched[q] > 0}
  OBVIOUS
<1>4. CASE from # to
  <2>1. \/ Lifecycle!Becomes(r, {"absent"}, "open")
        \/ Lifecycle!Becomes(r, {"open"}, "closed")
        \/ Lifecycle!Becomes(r, {"open"}, "executing")
        \/ Lifecycle!Becomes(r, {"executing"}, "settled")
    BY <1>2, <1>4
  <2> QED BY <1>3, <2>1 DEF LifecycleStep, Lifecycle!Next, Lifecycle!Propose,
             Lifecycle!Close, Lifecycle!Claim, Lifecycle!Finish
<1> QED BY <1>1, <1>4

(* A handler's record of an outcome, whether or not it gets through.       *)
LEMMA RecordRefines ==
  ASSUME TypeOK, WorkflowInv, NEW w \in Workers, UNCHANGED launched,
         NEW state \in RowStates, Record(w, disp[w].req, state),
         \/ /\ disp[w].pc \in BeforeClaim
            /\ state = "drift"
         \/ /\ disp[w].pc \in AfterClaim
            /\ state \in {"active", "dispatch_failed", "inconsistent", "revoked"}
  PROVE  LifecycleStep
<1> PICK r : r = disp[w].req
  OBVIOUS
<1>1. ~ At(w, "idle")
  BY DEF BeforeClaim, AfterClaim, At
<1>2. /\ r \in Requests
      /\ req'[r].state \in {req[r].state, state}
      /\ \A q \in Requests \ {r} : req'[q] = req[q]
  BY <1>1, RecordMoves
<1>3. /\ disp[w].pc \in BeforeClaim => req[r].state \in {"pending", "approved", "rejected"}
      /\ disp[w].pc \in AfterClaim => req[r].state = "dispatching"
  BY <1>1 DEF WorkflowInv, HandlerOwnsRow
<1>4. CASE disp[w].pc \in BeforeClaim /\ state = "drift"
  <2>1. PhaseOf(req[r].state) \in {"open", "closed"}
        /\ PhaseOf(req'[r].state) \in {PhaseOf(req[r].state), "closed"}
    BY <1>2, <1>3, <1>4, PhaseValues
  <2> QED BY <1>2, <2>1, PhaseChanges
<1>5. CASE disp[w].pc \in AfterClaim
           /\ state \in {"active", "dispatch_failed", "inconsistent", "revoked"}
  <2>1. PhaseOf(req[r].state) = "executing"
        /\ PhaseOf(req'[r].state) \in {"executing", "settled"}
    BY <1>2, <1>3, <1>5, PhaseValues
  <2> QED BY <1>2, <2>1, PhaseChanges
<1> QED BY <1>4, <1>5

(* A handler's step is a step of one request's life cycle, or a stutter.   *)
LEMMA HandlerRefines ==
  ASSUME TypeOK, WorkflowInv, NEW w \in Workers, HandlerStep(w)
  PROVE  LifecycleStep
<1> PICK r : r = disp[w].req
  OBVIOUS
<1>1. ~ At(w, "idle")
  BY HandlerGoes
<1>2. /\ r \in Requests
      /\ HandlerOwnsRow(w)
      /\ req \in [Requests -> RowType]
      /\ launched \in [Requests -> Nat]
  BY <1>1 DEF WorkflowInv, TypeOK, HandlersOK, RowsOK, HistoryOK, Rows
<1>3. CASE UNCHANGED <<req, launched>>
  BY <1>3, SamePhases
<1>4. CASE Drift(w)
  BY <1>4, RecordRefines DEF Drift, At, BeforeClaim, RowStates
<1>5. CASE BindingMismatch(w) \/ Activate(w) \/ Revoke(w)
  BY <1>5, RecordRefines DEF BindingMismatch, Activate, Revoke, At, AfterClaim, RowStates
<1>6. CASE Settle(w)
  BY <1>6, RecordRefines DEF Settle, FailureState, At, AfterClaim, RowStates
<1>7. CASE Claim(w)
  <2>1. CASE UNCHANGED req
    BY <1>3, <1>7, <2>1 DEF Claim
  <2>2. CASE Claimable(r) /\ req' = Move(r, "dispatching")
    <3>1. /\ req[r].state \in {"pending", "approved"}
          /\ req'[r].state = "dispatching"
          /\ \A q \in Requests \ {r} : req'[q] = req[q]
      BY <1>2, <2>2 DEF Claimable, Awaiting, Move, RowType
    <3>2. PhaseOf(req[r].state) = "open" /\ PhaseOf(req'[r].state) = "executing"
      BY <3>1, PhaseValues
    <3> QED BY <1>2, <1>7, <3>1, <3>2, PhaseChanges DEF Claim
  <2> QED BY <1>7, <2>1, <2>2 DEF Claim
<1>8. CASE Launch(w)
  <2>1. CASE UNCHANGED launched
    BY <1>3, <1>8, <2>1 DEF Launch
  <2>2. CASE launched' = [launched EXCEPT ![r] = @ + 1]
    <3>1. req[r].state = "dispatching" /\ launched[r] = 0 /\ UNCHANGED req
      BY <1>2, <1>8 DEF Launch, HandlerOwnsRow, At, AfterClaim
    <3>2. {q \in Requests : launched'[q] > 0} = {q \in Requests : launched[q] > 0} \cup {r}
      BY <1>2, <2>2, <3>1
    <3>3. PhaseOf(req[r].state) = "executing"
      BY <3>1, PhaseValues
    <3>4. r \notin {q \in Requests : launched[q] > 0}
      BY <3>1
    <3>5. Lifecycle!Try(r)
      BY <1>2, <3>1, <3>2, <3>3, <3>4 DEF Lifecycle!Try
    <3> QED BY <1>2, <3>5 DEF LifecycleStep, Lifecycle!Next
  <2> QED BY <1>8, <2>1, <2>2 DEF Launch
<1>9. CASE Retire(w)
  <2> DEFINE gone == IF disp[w].expired THEN {} ELSE Retired(req[disp[w].req].rule)
  <2>1. /\ \A p \in gone : req[p].state = "active"
        /\ req' = [p \in Requests |-> IF p \in gone THEN [req[p] EXCEPT !.state = "revoked"]
                                                    ELSE req[p]]
        /\ UNCHANGED launched
    BY <1>9 DEF Retire, Retired
  <2> HIDE DEF gone
  <2>2. ASSUME NEW q \in Requests PROVE PhaseOf(req'[q].state) = PhaseOf(req[q].state)
    <3>1. [req[q] EXCEPT !.state = "revoked"].state = "revoked"
      BY <1>2 DEF RowType
    <3>2. CASE q \in gone
      <4>1. req'[q].state = "revoked" /\ req[q].state = "active"
        BY <2>1, <3>1, <3>2
      <4> QED BY <4>1, PhaseValues
    <3>3. CASE q \notin gone
      BY <2>1, <3>3
    <3> QED BY <3>2, <3>3
  <2> QED BY <2>1, <2>2, SamePhases
<1> QED
  BY <1>3, <1>4, <1>5, <1>6, <1>7, <1>8, <1>9
  DEF HandlerStep, PreSnapshot, ApplyReturns, PostSnapshot, Look, Fail, LaunchRollback,
      RollbackReturns, FinalSnapshot, webVars

(* So is every step of the system.                                         *)
LEMMA StepRefines == TypeOK /\ WorkflowInv /\ [Next]_vars => LifecycleStep
<1> SUFFICES ASSUME TypeOK, WorkflowInv, [Next]_vars PROVE LifecycleStep
  OBVIOUS
<1>1. CASE UNCHANGED <<req, launched>>
  BY <1>1, SamePhases
<1>2. ASSUME NEW r \in Requests, Desk(r) PROVE LifecycleStep
  <2>1. UNCHANGED launched
    BY <1>2 DEF Desk, Submit, SubmitDelete, Allocate, ConfirmRule, CommitRow, Draft,
                SubmitFails, Approve, Reject
  <2>2. \A q \in Requests \ {r} : req'[q] = req[q]
    BY <1>2, DeskMoves
  <2>3. \/ PhaseOf(req[r].state) = "absent" /\ PhaseOf(req'[r].state) = "absent"
        \/ PhaseOf(req[r].state) = "absent" /\ PhaseOf(req'[r].state) = "open"
        \/ PhaseOf(req[r].state) = "open" /\ PhaseOf(req'[r].state) = "open"
        \/ PhaseOf(req[r].state) = "open" /\ PhaseOf(req'[r].state) = "closed"
    BY <1>2, DeskMoves, PhaseValues
  <2> QED BY <2>1, <2>2, <2>3, PhaseChanges
<1>3. ASSUME NEW w \in Workers, HandlerStep(w) PROVE LifecycleStep
  BY <1>3, HandlerRefines
<1>4. CASE Crash
  <2>1. /\ UNCHANGED launched
        /\ req' = [r \in Requests |-> IF r \in Rows THEN req[r] ELSE Blank]
    BY <1>4 DEF Crash
  <2>2. ASSUME NEW q \in Requests PROVE PhaseOf(req'[q].state) = PhaseOf(req[q].state)
    <3>1. CASE q \in Rows
      BY <2>1, <3>1
    <3>2. CASE q \notin Rows
      <4>1. req[q].state \in DraftStates
        BY <3>2 DEF TypeOK, RowsOK, RowType, Rows
      <4>2. req'[q].state \in DraftStates
        BY <2>1, <3>2 DEF Blank, DraftStates
      <4> QED BY <4>1, <4>2, PhaseValues
    <3> QED BY <3>1, <3>2
  <2> QED BY <2>1, <2>2, SamePhases
<1>5. ASSUME NEW w \in Workers, AgentStep(w) PROVE UNCHANGED <<req, launched>>
  BY <1>5 DEF AgentStep, Guard, Perform, Refuse, Timeout, OrphanExit, webVars
<1> QED
  BY <1>1, <1>2, <1>3, <1>4, <1>5
  DEF Next, vars, webVars, BeginDispatch, Switch, LateCommand, LateDrop, EngineerEdits,
      EngineerSaves, Reboot, Machine, Kill, Expire

(* The whole system - people, handlers, agents, the switch and their       *)
(* failures - keeps the abstract life cycle of every request.              *)
THEOREM WorkflowRefines == Spec => KeepsLifecycle
<1>1. Init => Lifecycle!Init
  BY PhaseValues DEF Init, Blank, DraftStates, Lifecycle!Init
<1>2. TypeOK /\ WorkflowInv /\ [Next]_vars => LifecycleStep
  BY StepRefines
<1> QED BY <1>1, <1>2, TypeCorrect, WorkflowCorrect, PTL
    DEF Spec, KeepsLifecycle, Lifecycle!Spec, LifecycleStep
=============================================================================
