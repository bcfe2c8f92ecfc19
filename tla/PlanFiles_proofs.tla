-------------------------- MODULE PlanFiles_proofs --------------------------
(***************************************************************************)
(* Proofs about the plan files, for any submissions, keys and disturbances *)
(* of any number: the type invariant, that the daily limit is kept, and,   *)
(* while nobody leaves, that every live request has its own plan and that  *)
(* agents carry out no other.                                              *)
(***************************************************************************)
EXTENDS PlanFiles, TLAPS

-----------------------------------------------------------------------------
(* Typing.  Whoever works on a file knows its key; the plan a dispatch     *)
(* writes is one; an agent that counts is under the limit.                 *)

SubType == [pc : SubPCs, key : Keys \cup {None}, count : Counts \cup {None},
            cancelled : BOOLEAN]
AgentType == [job : Jobs, key : Keys \cup {None}, sha : Plans \cup {None},
              expect : Counts \cup {None}, day : Days, count : 0..DailyLimit]
DispType == [pc : DispPCs, key : Keys \cup {None}, count : Counts \cup {None},
             plan : Plans \cup {None}]
Numbered == {"write", "rename", "artifact", "audit", "commit", "remove"}

GoodSub(r) == r \in SubType /\ (r.pc \in Numbered => r.key \in Keys /\ r.count \in Counts)
GoodAgent(r) ==
  /\ r \in AgentType
  /\ r.job # "none" => r.key \in Keys
  /\ r.job = "count up" => r.count < DailyLimit
GoodDisp(r) ==
  /\ r \in DispType
  /\ r.pc # "idle" => r.key \in Keys /\ r.count \in Counts
  /\ r.pc = "rewrite" => r.plan \in Plans

SubOK == sub \in [Submissions -> SubType] /\ \A s \in Submissions : GoodSub(sub[s])
AgentOK == agent \in [Lives -> AgentType] /\ \A e \in Lives : GoodAgent(agent[e])
FilesOK == tmp \in [Keys -> Plans \cup {None}] /\ file \in [Keys -> Plans \cup {None}]
SpentOK == /\ spent \in [DOMAIN Limit -> Nat]
           /\ \A kind \in DOMAIN Limit : spent[kind] <= Limit[kind]
(* The dispatch of this life of aclweb waits for its agent; lives to come  *)
(* have none.                                                              *)
Tied ==
  /\ agent[Life].job \in {"count", "count up", "apply"} => disp.pc = "apply"
  /\ agent[Life].job = "rollback" => disp.pc = "undo"
  /\ \A e \in Lives : e > Life => agent[e].job = "none"

Typed == TypeOK /\ SubOK /\ AgentOK /\ GoodDisp(disp) /\ Tied

(* There are five kinds of disturbance, each with its bound.                *)
LEMMA Bounds ==
  /\ DOMAIN Limit = {"cancel", "fault", "commit", "cut", "crash"}
  /\ \A kind \in DOMAIN Limit : Limit[kind] \in Nat
  /\ Limit["crash"] = MaxCrashes
  BY FilesAssumption DEF Limit

(* The initial states are well typed.                                      *)
LEMMA InitType == Init => Typed
<1> SUFFICES ASSUME Init PROVE Typed
  OBVIOUS
<1> USE FilesAssumption DEF Init
<1>1. SubOK
  BY DEF SubOK, GoodSub, SubType, SubPCs, Numbered
<1>2. GoodAgent(NoAgent)
  BY DEF NoAgent, GoodAgent, AgentType, Jobs, Days
<1>3. AgentOK
  BY <1>2 DEF AgentOK, GoodAgent
<1>4. GoodDisp(disp)
  BY DEF NoDispatch, GoodDisp, DispType, DispPCs
<1>10. Tied
  <2>1. Life = 0 /\ 0 \in Lives
    BY Bounds DEF Life, Lives
  <2>2. \A e \in Lives : agent[e].job = "none"
    BY DEF NoAgent
  <2> QED BY <2>1, <2>2 DEF Tied
<1>5. SpentOK
  BY DEF SpentOK, Limit
<1>6. row \in [Keys -> [state : {"none", "open", "dispatching", "closed"},
                        by : Submissions \cup {None}]]
  BY DEF NoRow
<1>7. seq \in Keys \cup {0} /\ tx \in Submissions \cup {None} /\ acted = {}
  OBVIOUS
<1>8. FilesOK
  BY DEF FilesOK
<1>9. day \in Days /\ quota \in [day : Days, count : 0..DailyLimit] /\ passed \in [Days -> Nat]
  BY DEF Days, NoQuota
<1> QED
  BY <1>1, <1>3, <1>4, <1>5, <1>6, <1>7, <1>8, <1>9, <1>10
  DEF Typed, TypeOK, SubOK, SubType, AgentOK, AgentType, GoodDisp, DispType, SpentOK, FilesOK

(* Spending leaves every count within its bound.                           *)
LEMMA SpentStays == SpentOK /\ [Next]_vars => SpentOK'
<1> SUFFICES ASSUME SpentOK, [Next]_vars PROVE SpentOK'
  OBVIOUS
<1>1. ASSUME NEW kind \in DOMAIN Limit, Spend(kind) PROVE SpentOK'
  BY <1>1, Bounds DEF Spend, SpentOK
<1>2. CASE UNCHANGED spent
  BY <1>2 DEF SpentOK
<1>3. "cancel" \in DOMAIN Limit /\ "fault" \in DOMAIN Limit /\ "commit" \in DOMAIN Limit
      /\ "cut" \in DOMAIN Limit /\ "crash" \in DOMAIN Limit
  BY Bounds
<1>4. ASSUME NEW s \in Submissions, SubmissionStep(s) \/ Cancel(s) PROVE SpentOK'
  BY <1>1, <1>2, <1>3, <1>4
  DEF SubmissionStep, Begin, Insert, WritePlan, RejectPlan, PublishPlan, InsertArtifacts, Audit,
      Commit, Remove, Leave, RollBack, Cancel
<1>5. ASSUME DispatchStep \/ KillAgent \/ Midnight \/ Crash PROVE SpentOK'
  BY <1>1, <1>2, <1>3, <1>5
  DEF DispatchStep, ReadPlan, RewritePlan, SwapPlan, HashPlan, Claim, StartRollback, Settle,
      KillAgent, Midnight, Crash
<1>6. ASSUME NEW e \in Lives, AgentStep(e) PROVE SpentOK'
  BY <1>1, <1>2, <1>3, <1>6 DEF AgentStep, ReadQuota, WriteQuota, Apply, Rollback
<1>7. ASSUME NEW k \in Keys, BeginDispatch(k) PROVE SpentOK'
  BY <1>2, <1>7 DEF BeginDispatch
<1> QED BY <1>2, <1>4, <1>5, <1>6, <1>7 DEF Next, vars

(* Every step of a submission is one of its program counter, its key or    *)
(* its being cancelled.                                                    *)
LEMMA SubStays == Typed /\ [Next]_vars => SubOK'
<1> SUFFICES ASSUME Typed, [Next]_vars PROVE SubOK'
  OBVIOUS
<1>1. ASSUME NEW s \in Submissions, NEW r, GoodSub(r), sub' = [sub EXCEPT ![s] = r]
      PROVE  SubOK'
  BY <1>1 DEF Typed, SubOK, GoodSub
<1>2. CASE UNCHANGED sub
  BY <1>2 DEF Typed, SubOK
<1>3. ASSUME NEW s \in Submissions, NEW pc \in SubPCs, Goto(s, pc), pc \in Numbered => sub[s].pc \in Numbered
      PROVE  SubOK'
  <2> DEFINE r == [sub[s] EXCEPT !.pc = pc]
  <2>1. GoodSub(sub[s])
    BY DEF Typed, SubOK
  <2>2. r \in SubType
    BY <2>1 DEF GoodSub, SubType
  <2>3. r.pc = pc /\ r.key = sub[s].key /\ r.count = sub[s].count
    BY <2>1 DEF GoodSub, SubType
  <2>4. sub' = [sub EXCEPT ![s] = r]
    BY <1>3 DEF Goto
  <2> HIDE DEF r
  <2>5. GoodSub(r)
    BY <1>3, <2>1, <2>2, <2>3 DEF GoodSub
  <2> QED BY <1>1, <2>4, <2>5
<1>4. ASSUME NEW s \in Submissions, Insert(s) PROVE SubOK'
  <2>1. ASSUME seq + 1 \in Keys, NEW c \in Counts,
               sub' = [sub EXCEPT ![s].pc = "write", ![s].key = seq + 1, ![s].count = c]
        PROVE  SubOK'
    <3> DEFINE r == [sub[s] EXCEPT !.pc = "write", !.key = seq + 1, !.count = c]
    <3>1. GoodSub(sub[s])
      BY DEF Typed, SubOK
    <3>2. r \in SubType /\ r.key \in Keys /\ r.count \in Counts
      BY <2>1, <3>1 DEF GoodSub, SubType, SubPCs
    <3>3. sub' = [sub EXCEPT ![s] = r]
      BY <2>1
    <3> HIDE DEF r
    <3> QED BY <1>1, <3>2, <3>3 DEF GoodSub
  <2> QED BY <1>3, <1>4, <2>1 DEF Insert, SubPCs, Numbered
<1>5. ASSUME NEW s \in Submissions, Cancel(s) PROVE SubOK'
  <2> DEFINE r == [sub[s] EXCEPT !.cancelled = TRUE]
  <2>1. GoodSub(sub[s])
    BY DEF Typed, SubOK
  <2>2. r \in SubType
    BY <2>1 DEF GoodSub, SubType
  <2>3. r.pc = sub[s].pc /\ r.key = sub[s].key /\ r.count = sub[s].count
    BY <2>1 DEF GoodSub, SubType
  <2>4. sub' = [sub EXCEPT ![s] = r]
    BY <1>5 DEF Cancel
  <2> HIDE DEF r
  <2>5. GoodSub(r)
    BY <2>1, <2>2, <2>3 DEF GoodSub
  <2> QED BY <1>1, <2>4, <2>5
<1>6. ASSUME NEW s \in Submissions, SubmissionStep(s) PROVE SubOK'
  BY <1>2, <1>3, <1>4, <1>6
  DEF SubmissionStep, Begin, WritePlan, RejectPlan, PublishPlan, InsertArtifacts, Audit,
      Commit, Remove, Leave, RollBack, AfterFailedWrite, At, SubPCs, Numbered
<1>7. CASE Crash
  <2>1. \A s \in Submissions : GoodSub(sub[s]) /\ GoodSub([sub[s] EXCEPT !.pc = "gone"])
    BY DEF Typed, SubOK, GoodSub, SubType, SubPCs, Numbered
  <2>2. \A s \in Submissions : GoodSub(sub'[s])
    BY <1>7, <2>1 DEF Crash
  <2>3. sub' \in [Submissions -> SubType]
    BY <1>7, <2>1 DEF Crash, GoodSub
  <2> QED BY <2>2, <2>3 DEF SubOK
<1>8. ASSUME NEW e \in Lives, AgentStep(e) PROVE SubOK'
  BY <1>2, <1>8 DEF AgentStep, ReadQuota, WriteQuota, Apply, Rollback
<1>9. ASSUME DispatchStep \/ KillAgent \/ Midnight \/ \E k \in Keys : BeginDispatch(k) PROVE SubOK'
  BY <1>2, <1>9
  DEF DispatchStep, BeginDispatch, ReadPlan, RewritePlan, SwapPlan, HashPlan, Claim, StartRollback,
      Settle, KillAgent, Midnight
<1> QED BY <1>2, <1>5, <1>6, <1>7, <1>8, <1>9 DEF Next, vars

(* The table of rows and the transaction.                                  *)
RowStates == {"none", "open", "dispatching", "closed"}
DbOK == /\ tx \in Submissions \cup {None}
        /\ seq \in Keys \cup {0}
        /\ row \in [Keys -> [state : RowStates, by : Submissions \cup {None}]]

(* A commit is of a submission that knows its key.                         *)
LEMMA DbStays == Typed /\ [Next]_vars => DbOK'
<1> SUFFICES ASSUME Typed, [Next]_vars PROVE DbOK'
  OBVIOUS
<1>1. DbOK
  BY DEF Typed, TypeOK, DbOK, RowStates
<1>2. CASE UNCHANGED dbVars
  BY <1>1, <1>2 DEF DbOK, dbVars
<1>3. ASSUME UNCHANGED <<seq, row>>, tx' \in Submissions \cup {None} PROVE DbOK'
  BY <1>1, <1>3 DEF DbOK
<1>4. ASSUME UNCHANGED <<seq, tx>>, NEW k, NEW state \in RowStates,
             row' = [row EXCEPT ![k].state = state]
      PROVE  DbOK'
  BY <1>1, <1>4 DEF DbOK
<1>5. ASSUME NEW s \in Submissions, Commit(s) PROVE DbOK'
  <2>1. sub[s].key \in Keys
    BY <1>5 DEF Typed, SubOK, GoodSub, Commit, At, Numbered
  <2>2. [state |-> "open", by |-> s] \in [state : RowStates, by : Submissions \cup {None}]
    BY DEF RowStates
  <2> QED BY <1>1, <1>3, <1>5, <2>1, <2>2 DEF Commit, DbOK
<1>6. ASSUME NEW s \in Submissions, SubmissionStep(s) \/ Cancel(s) PROVE DbOK'
  BY <1>1, <1>2, <1>3, <1>5, <1>6
  DEF DbOK, dbVars, SubmissionStep, Begin, Insert, WritePlan, RejectPlan, PublishPlan,
      InsertArtifacts, Audit, Remove, Leave, RollBack, Cancel
<1>7. ASSUME DispatchStep \/ KillAgent \/ Midnight \/ \E k \in Keys : BeginDispatch(k) PROVE DbOK'
  BY <1>2, <1>4, <1>7
  DEF dbVars, RowStates, DispatchStep, BeginDispatch, ReadPlan, RewritePlan, SwapPlan, HashPlan,
      Claim, StartRollback, Settle, KillAgent, Midnight
<1>8. ASSUME NEW e \in Lives, AgentStep(e) PROVE DbOK'
  BY <1>2, <1>8 DEF AgentStep, ReadQuota, WriteQuota, Apply, Rollback
<1>9. CASE Crash
  BY <1>3, <1>9 DEF Crash
<1> QED BY <1>2, <1>6, <1>7, <1>8, <1>9 DEF Next, vars, dbVars

(* What is written aside and renamed is a plan.                            *)
LEMMA FilesStay == Typed /\ [Next]_vars => FilesOK'
<1> SUFFICES ASSUME Typed, [Next]_vars PROVE FilesOK'
  OBVIOUS
<1>1. FilesOK
  BY DEF Typed, TypeOK, FilesOK
<1>2. CASE UNCHANGED fileVars
  BY <1>1, <1>2 DEF FilesOK, fileVars
<1>3. ASSUME NEW k, NEW plan \in Plans, WriteTmp(k, plan) PROVE FilesOK'
  BY <1>1, <1>3 DEF FilesOK, WriteTmp
<1>4. ASSUME NEW k \in Keys, Rename(k) PROVE FilesOK'
  BY <1>1, <1>4 DEF FilesOK, Rename
<1>5. ASSUME NEW s \in Submissions, SubmissionStep(s) \/ Cancel(s) PROVE FilesOK'
  <2>1. ASSUME WritePlan(s) PROVE FilesOK'
    <3>1. [by |-> s, count |-> sub[s].count] \in Plans
      BY <2>1 DEF WritePlan, At, Typed, SubOK, GoodSub, Numbered, Plans
    <3> QED BY <1>2, <1>3, <2>1, <3>1 DEF WritePlan
  <2>2. ASSUME PublishPlan(s) PROVE FilesOK'
    <3>1. sub[s].key \in Keys
      BY <2>2 DEF PublishPlan, At, Typed, SubOK, GoodSub, Numbered
    <3> QED BY <1>2, <1>4, <2>2, <3>1 DEF PublishPlan
  <2>3. ASSUME Remove(s) PROVE FilesOK'
    BY <1>1, <2>3 DEF Remove, FilesOK
  <2> QED BY <1>2, <1>5, <2>1, <2>2, <2>3
    DEF SubmissionStep, Begin, Insert, RejectPlan, InsertArtifacts, Audit, Commit, Leave, RollBack,
        Cancel
<1>6. ASSUME RewritePlan PROVE FilesOK'
  <2>1. disp.plan \in Plans
    BY <1>6 DEF RewritePlan, Dispatching, Typed, GoodDisp
  <2> QED BY <1>2, <1>3, <1>6, <2>1 DEF RewritePlan
<1>7. ASSUME SwapPlan PROVE FilesOK'
  <2>1. disp.key \in Keys
    BY <1>7 DEF SwapPlan, Dispatching, Typed, GoodDisp
  <2> QED BY <1>2, <1>4, <1>7, <2>1 DEF SwapPlan
<1>8. ASSUME DispatchStep \/ KillAgent \/ Midnight \/ Crash \/ \E k \in Keys : BeginDispatch(k)
      PROVE  FilesOK'
  BY <1>2, <1>6, <1>7, <1>8
  DEF DispatchStep, BeginDispatch, ReadPlan, HashPlan, Claim, StartRollback, Settle, KillAgent,
      Midnight, Crash
<1>9. ASSUME NEW e \in Lives, AgentStep(e) PROVE FilesOK'
  BY <1>2, <1>9 DEF AgentStep, ReadQuota, WriteQuota, Apply, Rollback
<1> QED BY <1>2, <1>5, <1>8, <1>9 DEF Next, vars, fileVars

(* A dispatch keeps the key and the count it began with.                   *)
LEMMA DispStays == Typed /\ [Next]_vars => GoodDisp(disp')
<1> SUFFICES ASSUME Typed, [Next]_vars PROVE GoodDisp(disp')
  OBVIOUS
<1>1. GoodDisp(disp) /\ FilesOK
  BY DEF Typed, TypeOK, FilesOK
<1>2. CASE UNCHANGED disp
  BY <1>1, <1>2
<1>3. GoodDisp(NoDispatch)
  BY FilesAssumption DEF NoDispatch, GoodDisp, DispType, DispPCs
<1>4. ASSUME NEW pc \in DispPCs, Now(pc), disp.pc # "idle", pc # "rewrite" PROVE GoodDisp(disp')
  <2>1. disp' \in DispType /\ disp'.pc = pc /\ disp'.key = disp.key /\ disp'.count = disp.count
    BY <1>1, <1>4 DEF Now, GoodDisp, DispType
  <2> QED BY <1>1, <1>4, <2>1 DEF GoodDisp
<1>5. ASSUME NEW k \in Keys, BeginDispatch(k) PROVE GoodDisp(disp')
  <2>1. PICK c \in Counts : disp' = [NoDispatch EXCEPT !.pc = "read", !.key = k, !.count = c]
    BY <1>5 DEF BeginDispatch
  <2>2. /\ disp'.pc = "read" /\ disp'.key = k /\ disp'.count = c
        /\ disp' \in DispType
    BY <2>1 DEF NoDispatch, DispType, DispPCs
  <2> QED BY <2>2 DEF GoodDisp
<1>6. ASSUME NEW pc \in DispPCs \ {"idle"}, NEW plan \in Plans, Dispatching("read") \/ Dispatching("hash"),
             disp' = [disp EXCEPT !.pc = pc, !.plan = plan]
      PROVE  GoodDisp(disp')
  <2>1. /\ disp' \in DispType
        /\ disp'.pc = pc /\ disp'.plan = plan /\ disp'.key = disp.key /\ disp'.count = disp.count
    BY <1>1, <1>6 DEF GoodDisp, DispType
  <2> QED BY <1>1, <1>6, <2>1 DEF GoodDisp, Dispatching
<1>7. ASSUME ReadPlan \/ HashPlan PROVE GoodDisp(disp')
  <2>1. disp.key \in Keys /\ disp.count \in Counts
    BY <1>1, <1>7 DEF ReadPlan, HashPlan, Dispatching, GoodDisp
  <2>2. file[disp.key] # None =>
          file[disp.key] \in Plans /\ Recounted(file[disp.key]) \in Plans
    BY <1>1, <2>1 DEF FilesOK, Plans, Recounted
  <2> QED BY <1>3, <1>6, <1>7, <2>2 DEF ReadPlan, HashPlan, PlanHash, GiveUp, DispPCs
<1>8. ASSUME RewritePlan \/ SwapPlan \/ Claim \/ StartRollback \/ Settle \/ Crash
      PROVE  GoodDisp(disp')
  BY <1>3, <1>4, <1>8
  DEF RewritePlan, SwapPlan, Claim, StartRollback, Settle, Crash, GiveUp, Dispatching, DispPCs
<1>9. ASSUME NEW e \in Lives, agent[e].job # "none", Ends(e) PROVE GoodDisp(disp')
  <2>1. e = Life => disp.pc # "idle"
    BY <1>9 DEF Typed, Tied, AgentOK, AgentType, Jobs
  <2> QED BY <1>2, <1>4, <1>9, <2>1 DEF Ends, DispPCs
<1>10. ASSUME NEW e \in Lives, AgentStep(e) PROVE GoodDisp(disp')
  BY <1>2, <1>9, <1>10 DEF AgentStep, ReadQuota, WriteQuota, Apply, Rollback
<1>11. Life \in Lives
  BY Bounds DEF Typed, TypeOK, Life, Lives
<1>12. ASSUME KillAgent PROVE GoodDisp(disp')
  BY <1>9, <1>11, <1>12 DEF KillAgent
<1>13. ASSUME NEW s \in Submissions, SubmissionStep(s) \/ Cancel(s) PROVE GoodDisp(disp')
  BY <1>2, <1>13
  DEF SubmissionStep, Begin, Insert, WritePlan, RejectPlan, PublishPlan, InsertArtifacts, Audit,
      Commit, Remove, Leave, RollBack, Cancel, execVars
<1> QED BY <1>2, <1>5, <1>7, <1>8, <1>10, <1>12, <1>13 DEF Next, vars, DispatchStep, Midnight

(* An agent keeps its key, and counts up only from below the limit.        *)
LEMMA AgentsStay == Typed /\ [Next]_vars => AgentOK'
<1> SUFFICES ASSUME Typed, [Next]_vars PROVE AgentOK'
  OBVIOUS
<1>1. \A e \in Lives : GoodAgent(agent[e])
  BY DEF Typed, AgentOK
<1>2. CASE UNCHANGED agent
  BY <1>2 DEF Typed, AgentOK
<1>3. ASSUME NEW e, NEW r, GoodAgent(r), agent' = [agent EXCEPT ![e] = r] PROVE AgentOK'
  BY <1>3 DEF Typed, AgentOK, GoodAgent
<1>4. GoodAgent(NoAgent)
  BY FilesAssumption DEF NoAgent, GoodAgent, AgentType, Jobs, Days
<1>5. ASSUME NEW e, Ends(e) PROVE AgentOK'
  BY <1>3, <1>4, <1>5 DEF Ends
<1>6. ASSUME Claim \/ StartRollback PROVE AgentOK'
  <2>1. disp.key \in Keys /\ disp.plan \in Plans \cup {None} /\ disp.count \in Counts
    BY <1>6 DEF Claim, StartRollback, Dispatching, Typed, GoodDisp, DispType
  <2>3. CASE Claim
    <3>1. GoodAgent([NoAgent EXCEPT !.job = "count", !.key = disp.key,
                                    !.sha = disp.plan, !.expect = disp.count])
      BY <1>4, <2>1 DEF NoAgent, GoodAgent, AgentType, Jobs
    <3> QED BY <1>3, <2>3, <3>1 DEF Claim
  <2>4. CASE StartRollback
    <3>1. GoodAgent([NoAgent EXCEPT !.job = "rollback", !.key = disp.key,
                                    !.expect = disp.count])
      BY <1>4, <2>1 DEF NoAgent, GoodAgent, AgentType, Jobs
    <3> QED BY <1>3, <2>4, <3>1 DEF StartRollback
  <2> QED BY <1>6, <2>3, <2>4
<1>7. ASSUME NEW e \in Lives, ReadQuota(e) PROVE AgentOK'
  <2>1. CountToday \in 0..DailyLimit /\ day \in Days
    BY FilesAssumption DEF CountToday, Typed, TypeOK
  <2>2. ASSUME UnderLimit(CountToday),
               agent' = [agent EXCEPT ![e].job = "count up", ![e].day = day, ![e].count = CountToday]
        PROVE  AgentOK'
    <3> DEFINE r == [agent[e] EXCEPT !.job = "count up", !.day = day, !.count = CountToday]
    <3>1. GoodAgent(agent[e])
      BY <1>1
    <3>2. r \in AgentType
      BY <2>1, <3>1 DEF GoodAgent, AgentType, Jobs
    <3>3. r.job = "count up" /\ r.count = CountToday /\ r.key = agent[e].key
      BY <3>1 DEF GoodAgent, AgentType
    <3>4. agent' = [agent EXCEPT ![e] = r]
      BY <2>2
    <3>5. agent[e].key \in Keys
      BY <1>7, <3>1 DEF ReadQuota, GoodAgent
    <3> HIDE DEF r
    <3>6. GoodAgent(r)
      BY <2>2, <3>2, <3>3, <3>5 DEF GoodAgent, UnderLimit
    <3> QED BY <1>3, <3>4, <3>6
  <2> QED BY <1>5, <1>7, <2>2 DEF ReadQuota
<1>8. ASSUME NEW e \in Lives, WriteQuota(e) PROVE AgentOK'
  <2>1. ASSUME agent' = [agent EXCEPT ![e].job = "apply"] PROVE AgentOK'
    <3>1. GoodAgent(agent[e]) /\ agent[e].key \in Keys
      BY <1>1, <1>8 DEF WriteQuota, GoodAgent
    <3>2. GoodAgent([agent[e] EXCEPT !.job = "apply"])
      BY <3>1 DEF GoodAgent, AgentType, Jobs
    <3> QED BY <1>3, <2>1, <3>2
  <2> QED BY <1>5, <1>8, <2>1 DEF WriteQuota
<1>9. ASSUME NEW e \in Lives, AgentStep(e) PROVE AgentOK'
  BY <1>5, <1>7, <1>8, <1>9 DEF AgentStep, Apply, Rollback
<1>10. ASSUME DispatchStep \/ KillAgent \/ Midnight \/ Crash \/ \E k \in Keys : BeginDispatch(k)
       PROVE  AgentOK'
  BY <1>2, <1>5, <1>6, <1>10
  DEF DispatchStep, BeginDispatch, ReadPlan, RewritePlan, SwapPlan, HashPlan, Settle, KillAgent,
      Midnight, Crash, agentVars
<1>11. ASSUME NEW s \in Submissions, SubmissionStep(s) \/ Cancel(s) PROVE AgentOK'
  BY <1>2, <1>11
  DEF SubmissionStep, Begin, Insert, WritePlan, RejectPlan, PublishPlan, InsertArtifacts, Audit,
      Commit, Remove, Leave, RollBack, Cancel, execVars, agentVars
<1> QED BY <1>2, <1>9, <1>10, <1>11 DEF Next, vars

(* The agent of this life is started by its dispatch and ends with it.     *)
LEMMA TiedStays == Typed /\ [Next]_vars => Tied'
<1> SUFFICES ASSUME Typed, [Next]_vars PROVE Tied'
  OBVIOUS
<1>1. Life \in Lives /\ agent \in [Lives -> AgentType] /\ Tied /\ disp \in DispType
  BY Bounds DEF Typed, TypeOK, Life, Lives, AgentOK, GoodDisp
<1>0. ~ (Life > Life) /\ Life + 1 > Life
  BY <1>1 DEF Lives
<1>2. ASSUME UNCHANGED <<agent, disp, Life>> PROVE Tied'
  BY <1>1, <1>2 DEF Tied
<1>3. ASSUME NEW kind \in {"cancel", "fault", "commit", "cut"}, UNCHANGED spent \/ Spend(kind)
      PROVE  UNCHANGED Life
  BY <1>3, Bounds DEF Spend, Life, Typed, TypeOK
<1>4. ASSUME UNCHANGED <<agent, Life>>, Dispatching("apply") => Dispatching("undo"),
             Dispatching("undo") => FALSE
      PROVE  Tied'
  BY <1>1, <1>4 DEF Tied, Dispatching
<1>5. ASSUME NEW e \in Lives, Ends(e), agent[e].job # "none", UNCHANGED Life PROVE Tied'
  <2>1. agent'[e].job = "none" /\ \A f \in Lives \ {e} : agent'[f] = agent[f]
    BY <1>1, <1>5 DEF Ends, NoAgent
  <2>2. e # Life => UNCHANGED disp
    BY <1>5 DEF Ends
  <2> QED BY <1>1, <1>5, <2>1, <2>2 DEF Tied
<1>6. ASSUME NEW e \in Lives, AgentStep(e) PROVE Tied'
  <2>1. CASE agent' = [agent EXCEPT ![e] = NoAgent] /\ Ends(e)
    <3>1. agent[e].job # "none"
      BY <1>6 DEF AgentStep, ReadQuota, WriteQuota, Apply, Rollback
    <3>2. UNCHANGED spent \/ Spend("cut")
      BY <1>6 DEF AgentStep, ReadQuota, WriteQuota, Apply, Rollback
    <3>3. UNCHANGED Life
      BY <1>3, <3>2
    <3> QED BY <1>5, <2>1, <3>1, <3>3
  <2>2. CASE ~ Ends(e)
    <3>0. \/ /\ agent[e].job = "count" /\ UNCHANGED <<disp, spent>>
             /\ agent' = [agent EXCEPT ![e].job = "count up", ![e].day = day,
                                       ![e].count = CountToday]
          \/ /\ agent[e].job = "count up" /\ UNCHANGED <<disp, spent>>
             /\ agent' = [agent EXCEPT ![e].job = "apply"]
      BY <1>6, <2>2, Zenon DEF AgentStep, ReadQuota, WriteQuota, Apply, Rollback
    <3>1. /\ UNCHANGED <<disp, spent>>
          /\ agent[e].job \in {"count", "count up"} /\ agent'[e].job \in {"count up", "apply"}
          /\ \A f \in Lives \ {e} : agent'[f] = agent[f]
      BY <1>1, <3>0 DEF AgentType
    <3>2. UNCHANGED Life
      BY <3>1 DEF Life
    <3> QED BY <1>1, <3>1, <3>2 DEF Tied
  <2> QED BY <2>1, <2>2 DEF Ends
<1>7. CASE KillAgent
  BY <1>1, <1>5, <1>7 DEF KillAgent, Life
<1>8. CASE Crash
  <2>1. Life' = Life + 1 /\ UNCHANGED agent
    BY <1>8, Bounds DEF Crash, Spend, Life, Typed, TypeOK, agentVars
  <2>2. Life + 1 \in Lives /\ Life \in Nat
    BY <1>8, Bounds DEF Crash, Spend, Life, Lives, Typed, TypeOK
  <2>3. agent[Life + 1].job = "none"
    BY <1>0, <1>1, <2>2 DEF Tied
  <2>4. \A e \in Lives : e > Life + 1 => e > Life
    BY <2>2 DEF Lives
  <2> QED BY <1>1, <2>1, <2>3, <2>4 DEF Tied
<1>9. CASE Claim
  <2>1. UNCHANGED Life /\ agent'[Life].job = "count" /\ disp'.pc = "apply"
    BY <1>1, <1>9 DEF Claim, Now, NoAgent, Life, DispType
  <2>2. \A e \in Lives \ {Life} : agent'[e] = agent[e]
    BY <1>1, <1>9 DEF Claim
  <2> QED BY <1>0, <1>1, <2>1, <2>2 DEF Tied
<1>10. CASE StartRollback
  <2>1. UNCHANGED Life /\ agent'[Life].job = "rollback" /\ disp'.pc = "undo"
    BY <1>1, <1>10 DEF StartRollback, Now, NoAgent, Life, DispType
  <2>2. \A e \in Lives \ {Life} : agent'[e] = agent[e]
    BY <1>1, <1>10 DEF StartRollback
  <2> QED BY <1>0, <1>1, <2>1, <2>2 DEF Tied
<1>11. ASSUME ReadPlan \/ RewritePlan \/ SwapPlan \/ HashPlan \/ Settle \/ \E k \in Keys : BeginDispatch(k)
       PROVE  Tied'
  <2>1. UNCHANGED <<agent, Life>>
    BY <1>3, <1>11
    DEF ReadPlan, RewritePlan, SwapPlan, HashPlan, Settle, BeginDispatch, agentVars
  <2>2. disp.pc \notin {"apply", "undo"}
    BY <1>11
    DEF ReadPlan, RewritePlan, SwapPlan, HashPlan, Settle, BeginDispatch, Dispatching
  <2> QED BY <1>4, <2>1, <2>2 DEF Dispatching
<1>12. ASSUME NEW s \in Submissions, SubmissionStep(s) \/ Cancel(s) PROVE Tied'
  BY <1>2, <1>3, <1>12
  DEF SubmissionStep, Begin, Insert, WritePlan, RejectPlan, PublishPlan, InsertArtifacts, Audit,
      Commit, Remove, Leave, RollBack, Cancel, execVars, agentVars
<1>13. CASE Midnight \/ UNCHANGED vars
  BY <1>2, <1>13 DEF Midnight, vars, Life
<1> QED
  BY <1>6, <1>7, <1>8, <1>9, <1>10, <1>11, <1>12, <1>13 DEF Next, DispatchStep

(* The counts and the date.                                                *)
QuotaOK == /\ day \in Days
           /\ quota \in [day : Days, count : 0..DailyLimit]
           /\ passed \in [Days -> Nat]

(* An agent writes at most the limit.                                      *)
LEMMA QuotaStays == Typed /\ [Next]_vars => QuotaOK'
<1> SUFFICES ASSUME Typed, [Next]_vars PROVE QuotaOK'
  OBVIOUS
<1>1. QuotaOK
  BY DEF Typed, TypeOK, QuotaOK
<1>2. CASE UNCHANGED <<day, quotaVars>>
  BY <1>1, <1>2 DEF QuotaOK, quotaVars
<1>3. ASSUME NEW e \in Lives, WriteQuota(e) PROVE QuotaOK'
  <2>1. GoodAgent(agent[e])
    BY DEF Typed, AgentOK
  <2>7. agent[e].day \in Days /\ agent[e].count \in 0..DailyLimit
    BY <2>1 DEF GoodAgent, AgentType
  <2>8. agent[e].count < DailyLimit
    BY <1>3, <2>1 DEF WriteQuota, GoodAgent
  <2>2. agent[e].day \in Days /\ agent[e].count + 1 \in 0..DailyLimit
    BY <2>7, <2>8, FilesAssumption
  <2>3. NoQuota \in [day : Days, count : 0..DailyLimit]
    BY FilesAssumption DEF NoQuota, Days
  <2>4. [day |-> agent[e].day, count |-> agent[e].count + 1] \in [day : Days, count : 0..DailyLimit]
    BY <2>2
  <2>5. quota' \in [day : Days, count : 0..DailyLimit]
    BY <1>1, <1>3, <2>3, <2>4 DEF WriteQuota, QuotaOK
  <2>9. passed[agent[e].day] + 1 \in Nat /\ passed \in [Days -> Nat]
    BY <1>1, <2>2 DEF QuotaOK
  <2>6. passed' \in [Days -> Nat] /\ day' = day
    BY <1>3, <2>9 DEF WriteQuota
  <2> QED BY <1>1, <2>5, <2>6 DEF QuotaOK
<1>4. ASSUME NEW e \in Lives, AgentStep(e) PROVE QuotaOK'
  BY <1>2, <1>3, <1>4 DEF AgentStep, ReadQuota, Apply, Rollback
<1>5. CASE Midnight
  BY <1>1, <1>5, FilesAssumption DEF Midnight, QuotaOK, Days, quotaVars
<1>6. ASSUME DispatchStep \/ KillAgent \/ Crash \/ \E k \in Keys : BeginDispatch(k) PROVE QuotaOK'
  BY <1>2, <1>6
  DEF DispatchStep, BeginDispatch, ReadPlan, RewritePlan, SwapPlan, HashPlan, Claim, StartRollback,
      Settle, KillAgent, Crash, agentVars
<1>7. ASSUME NEW s \in Submissions, SubmissionStep(s) \/ Cancel(s) PROVE QuotaOK'
  BY <1>2, <1>7
  DEF SubmissionStep, Begin, Insert, WritePlan, RejectPlan, PublishPlan, InsertArtifacts, Audit,
      Commit, Remove, Leave, RollBack, Cancel, execVars, agentVars
<1> QED BY <1>2, <1>4, <1>5, <1>6, <1>7 DEF Next, vars, quotaVars

(* What agents have acted on.                                              *)
ActedOK == acted \subseteq [key : Keys, plan : Plans, expect : Counts \cup {None}]

(* An agent acts on the file of its key, and nobody else acts.             *)
LEMMA ActedStays ==
  ASSUME Typed, [Next]_vars
  PROVE  /\ ActedOK'
         /\ \A a \in acted' \ acted : \E e \in Lives :
              /\ agent[e].job # "none" /\ agent[e].key \in Keys
              /\ file[agent[e].key] # None
              /\ a = [key |-> agent[e].key, plan |-> file[agent[e].key],
                      expect |-> agent[e].expect]
<1> DEFINE OK == /\ ActedOK'
                 /\ \A a \in acted' \ acted : \E e \in Lives :
                      /\ agent[e].job # "none" /\ agent[e].key \in Keys
                      /\ file[agent[e].key] # None
                      /\ a = [key |-> agent[e].key, plan |-> file[agent[e].key],
                              expect |-> agent[e].expect]
<1>1. ActedOK
  BY DEF Typed, TypeOK, ActedOK
<1>2. ASSUME UNCHANGED acted PROVE OK
  BY <1>1, <1>2 DEF ActedOK
<1>3. ASSUME NEW e \in Lives, Apply(e) \/ Rollback(e) PROVE OK
  <2> DEFINE a == [key |-> agent[e].key, plan |-> file[agent[e].key],
                   expect |-> agent[e].expect]
  <2>1. agent[e].key \in Keys /\ agent[e].expect \in Counts \cup {None}
    BY <1>3 DEF Apply, Rollback, Typed, AgentOK, GoodAgent, AgentType
  <2>2. file[agent[e].key] \in Plans \cup {None}
    BY <2>1 DEF Typed, TypeOK
  <2>3. /\ agent[e].job # "none"
        /\ acted' \subseteq acted \cup {a}
        /\ a \in acted' \ acted => file[agent[e].key] # None
    BY <1>3 DEF Apply, Rollback, ActsOn
  <2>4. a \in acted' \ acted => a \in [key : Keys, plan : Plans, expect : Counts \cup {None}]
    BY <2>1, <2>2, <2>3
  <2>5. \A b \in acted' \ acted : b = a
    BY <2>3
  <2>6. ActedOK'
    <3> HIDE DEF a
    <3> QED BY <1>1, <2>3, <2>4 DEF ActedOK
  <2> QED BY <2>1, <2>3, <2>5, <2>6
<1>4. ASSUME NEW e \in Lives, AgentStep(e) PROVE OK
  BY <1>2, <1>3, <1>4 DEF AgentStep, ReadQuota, WriteQuota
<1>5. ASSUME DispatchStep \/ KillAgent \/ Midnight \/ Crash \/ \E k \in Keys : BeginDispatch(k)
      PROVE  OK
  BY <1>2, <1>5
  DEF DispatchStep, BeginDispatch, ReadPlan, RewritePlan, SwapPlan, HashPlan, Claim, StartRollback,
      Settle, KillAgent, Midnight, Crash, agentVars
<1>6. ASSUME NEW s \in Submissions, SubmissionStep(s) \/ Cancel(s) PROVE OK
  BY <1>2, <1>6
  DEF SubmissionStep, Begin, Insert, WritePlan, RejectPlan, PublishPlan, InsertArtifacts, Audit,
      Commit, Remove, Leave, RollBack, Cancel, execVars, agentVars
<1> HIDE DEF OK
<1>7. OK
  BY <1>2, <1>4, <1>5, <1>6 DEF Next, vars
<1> QED BY <1>7 DEF OK

(* The state stays typed in every step.                                    *)
LEMMA NextType == Typed /\ [Next]_vars => Typed'
<1> SUFFICES ASSUME Typed, [Next]_vars PROVE Typed'
  OBVIOUS
<1>1. SubOK' /\ AgentOK' /\ GoodDisp(disp)' /\ Tied'
  BY SubStays, AgentsStay, DispStays, TiedStays DEF GoodDisp
<1>2. SpentOK' /\ DbOK' /\ FilesOK' /\ QuotaOK' /\ ActedOK'
  <2>1. SpentOK
    BY DEF Typed, TypeOK, SpentOK
  <2> QED BY <2>1, SpentStays, DbStays, FilesStay, QuotaStays, ActedStays
<1>3. TypeOK'
  BY <1>1, <1>2
  DEF TypeOK, SubOK, SubType, AgentOK, AgentType, GoodDisp, DispType, SpentOK, DbOK, RowStates,
      FilesOK, QuotaOK, ActedOK
<1> QED BY <1>1, <1>3 DEF Typed

(* TypeOK is an invariant: plan files hold plans, agents and dispatches    *)
(* work on keys of the table, and no count exceeds the daily limit.        *)
THEOREM TypeCorrect == Spec => []TypeOK
<1>1. Typed => TypeOK
  BY DEF Typed
<1> QED BY <1>1, InitType, NextType, PTL DEF Spec

-----------------------------------------------------------------------------
(* The daily limit.  Nothing counts ahead of the applies let through; and  *)
(* while there is one agent at a time and every write succeeds, the file   *)
(* knows exactly how many there were on its day, none came later, and an   *)
(* agent about to count up has read it.                                    *)

NeverAhead ==
  /\ quota.count <= passed[quota.day]
  /\ \A e \in Lives : agent[e].job = "count up" => agent[e].count <= passed[agent[e].day]
Undisturbed == spent.crash = 0 /\ spent.cut = 0
Exact ==
  /\ quota.day <= day
  /\ passed[quota.day] = quota.count
  /\ \A d \in Days : passed[d] <= DailyLimit /\ (d > quota.day => passed[d] = 0)
  /\ agent[0].job = "count up" =>
       /\ quota.day <= agent[0].day /\ agent[0].day <= day
       /\ agent[0].count = IF quota.day = agent[0].day THEN quota.count ELSE 0
QuotaInv == NeverAhead /\ (Undisturbed => Exact)

(* Days and counts are numbers.                                            *)
LEMMA Numbers ==
  ASSUME Typed
  PROVE  /\ 0 \in Lives /\ Life \in Lives /\ 0 \in Days /\ DailyLimit \in Nat
         /\ day \in Days /\ quota.day \in Days /\ quota.count \in Nat
         /\ \A x \in Days : x \in Nat /\ passed[x] \in Nat
         /\ \A f \in Lives : agent[f].day \in Days /\ agent[f].count \in Nat
         /\ passed \in [Days -> Nat] /\ agent \in [Lives -> AgentType]
<1>1. 0 \in Lives /\ Life \in Lives /\ 0 \in Days /\ DailyLimit \in Nat /\ Days \subseteq Nat
  BY Bounds, FilesAssumption DEF Typed, TypeOK, Life, Lives, Days
<1>2. day \in Days /\ quota \in [day : Days, count : 0..DailyLimit] /\ passed \in [Days -> Nat]
  BY DEF Typed, TypeOK
<1>3. agent \in [Lives -> AgentType]
  BY DEF Typed, AgentOK
<1>4. \A f \in Lives : agent[f].day \in Days /\ agent[f].count \in 0..DailyLimit
  BY <1>3 DEF AgentType
<1>5. quota.day \in Days /\ quota.count \in 0..DailyLimit
  BY <1>2
<1> QED BY <1>1, <1>2, <1>3, <1>4, <1>5

(* The steps that touch neither the counts nor an agent about to count up. *)
LEMMA QuotaAside ==
  ASSUME Typed, QuotaInv, UNCHANGED <<day, quotaVars>>, Undisturbed' => Undisturbed,
         \A e \in Lives : agent'[e] = agent[e] \/ agent'[e].job # "count up"
  PROVE  QuotaInv'
<1>1. UNCHANGED <<day, quota, passed>>
  BY DEF quotaVars
<1>2. NeverAhead'
  BY <1>1 DEF QuotaInv, NeverAhead
<1>3. ASSUME Undisturbed' PROVE Exact'
  <2>1. Exact
    BY <1>3 DEF QuotaInv
  <2>2. agent'[0] = agent[0] \/ agent'[0].job # "count up"
    BY Numbers
  <2>3. CASE agent'[0] = agent[0]
    BY <1>1, <2>1, <2>3 DEF Exact
  <2>4. CASE agent'[0].job # "count up"
    BY <1>1, <2>1, <2>4 DEF Exact
  <2> QED BY <2>2, <2>3, <2>4
<1> QED BY <1>2, <1>3 DEF QuotaInv

(* What is spent is not given back.                                        *)
LEMMA Spending ==
  ASSUME Typed
  PROVE  /\ UNCHANGED spent => UNCHANGED Undisturbed
         /\ \A kind \in {"cancel", "fault", "commit"} : Spend(kind) => UNCHANGED Undisturbed
         /\ Spend("cut") \/ Spend("crash") => ~ Undisturbed'
<1>1. /\ spent \in [DOMAIN Limit -> Nat]
      /\ DOMAIN Limit = {"cancel", "fault", "commit", "cut", "crash"}
  BY Bounds DEF Typed, TypeOK
<1>2. ASSUME Spend("cut") PROVE spent'["cut"] # 0
  BY <1>1, <1>2 DEF Spend
<1>3. ASSUME Spend("crash") PROVE spent'["crash"] # 0
  BY <1>1, <1>3 DEF Spend
<1>4. ASSUME NEW kind \in {"cancel", "fault", "commit"}, Spend(kind)
      PROVE  spent'["cut"] = spent["cut"] /\ spent'["crash"] = spent["crash"]
  BY <1>1, <1>4 DEF Spend
<1> QED BY <1>2, <1>3, <1>4 DEF Undisturbed

(* Reading the count and writing it, one more, keep it exact while there   *)
(* is one agent.                                                           *)
LEMMA QuotaCounts ==
  ASSUME Typed, QuotaInv, NEW e \in Lives, ReadQuota(e) \/ WriteQuota(e)
  PROVE  QuotaInv'
<1>1. GoodAgent(agent[e])
  BY DEF Typed, AgentOK
<1>2. /\ quota.day \in Nat /\ day \in Nat /\ agent[e].day \in Days /\ agent[e].day \in Nat
      /\ passed[quota.day] \in Nat /\ passed[day] \in Nat /\ passed[agent[e].day] \in Nat
      /\ agent[e].count \in Nat /\ DailyLimit \in Nat /\ quota.count \in Nat
      /\ agent \in [Lives -> AgentType] /\ passed \in [Days -> Nat]
  BY Numbers
<1>3. ASSUME Undisturbed PROVE e = 0
  <2>1. Life = 0 /\ agent[e].job # "none"
    BY <1>3 DEF Undisturbed, Life, ReadQuota, WriteQuota
  <2>2. ~ (e > 0)
    BY <2>1 DEF Typed, Tied
  <2> QED BY <2>2, FilesAssumption DEF Lives
<1>4. CASE Ends(e) /\ UNCHANGED <<day, quotaVars, spent>>
  <2>1. \A f \in Lives : agent'[f] = agent[f] \/ agent'[f].job # "count up"
    BY <1>2, <1>4 DEF Ends, NoAgent
  <2> QED BY <1>4, <2>1, QuotaAside, Spending
<1>5. ASSUME agent' = [agent EXCEPT ![e].job = "count up", ![e].day = day, ![e].count = CountToday],
             UNCHANGED <<day, quotaVars, spent>>
      PROVE  QuotaInv'
  <2>1. agent'[e].day = day /\ agent'[e].count = CountToday /\ \A f \in Lives \ {e} : agent'[f] = agent[f]
    BY <1>2, <1>5 DEF AgentType
  <2>2. CountToday <= passed[day]
    <3>1. quota.count <= passed[quota.day]
      BY DEF QuotaInv, NeverAhead
    <3> QED BY <1>2, <3>1 DEF CountToday
  <2>3. UNCHANGED <<day, quota, passed, Undisturbed>>
    BY <1>5, Spending DEF quotaVars
  <2>4. NeverAhead'
    <3>1. quota'.count <= passed'[quota'.day]
      BY <2>3 DEF QuotaInv, NeverAhead
    <3>2. ASSUME NEW f \in Lives, agent'[f].job = "count up"
          PROVE  agent'[f].count <= passed'[agent'[f].day]
      <4>1. CASE f = e
        BY <2>1, <2>2, <2>3, <4>1
      <4>2. CASE f # e
        BY <2>1, <2>3, <3>2, <4>2 DEF QuotaInv, NeverAhead
      <4> QED BY <4>1, <4>2
    <3> QED BY <3>1, <3>2 DEF NeverAhead
  <2>5. ASSUME Undisturbed PROVE Exact'
    <3>1. Exact /\ e = 0
      BY <1>3, <2>5 DEF QuotaInv
    <3>2. agent'[0].day = day /\ agent'[0].count = IF quota.day = day THEN quota.count ELSE 0
      BY <2>1, <3>1 DEF CountToday
    <3>3. quota.day <= day
      BY <3>1 DEF Exact
    <3>4. day <= day
      BY <1>2
    <3> QED BY <2>3, <3>1, <3>2, <3>3, <3>4 DEF Exact
  <2> QED BY <2>3, <2>4, <2>5 DEF QuotaInv
<1>6. ASSUME quota' = [day |-> agent[e].day, count |-> agent[e].count + 1],
             passed' = [passed EXCEPT ![agent[e].day] = @ + 1],
             agent' = [agent EXCEPT ![e].job = "apply"],
             agent[e].job = "count up", UNCHANGED <<day, spent>>
      PROVE  QuotaInv'
  <2> DEFINE d == agent[e].day
             c == agent[e].count
  <2>1. /\ quota'.day = d /\ quota'.count = c + 1
        /\ passed'[d] = passed[d] + 1
        /\ \A x \in Days \ {d} : passed'[x] = passed[x]
        /\ agent'[e].job = "apply"
        /\ \A f \in Lives \ {e} : agent'[f] = agent[f]
    BY <1>2, <1>6 DEF AgentType
  <2>2. c <= passed[d] /\ c < DailyLimit
    BY <1>1, <1>6 DEF QuotaInv, NeverAhead, GoodAgent
  <2>3. UNCHANGED Undisturbed /\ day' = day
    BY <1>6, Spending
  <2>4. \A x \in Days : passed[x] <= passed'[x] /\ passed'[x] \in Nat
    BY <2>1, Numbers
  <2>5. NeverAhead'
    <3>1. quota'.count <= passed'[quota'.day]
      BY <1>2, <2>1, <2>2
    <3>2. ASSUME NEW f \in Lives, agent'[f].job = "count up"
          PROVE  agent'[f].count <= passed'[agent'[f].day]
      <4>1. agent'[f] = agent[f] /\ agent[f].count <= passed[agent[f].day]
        BY <2>1, <3>2 DEF QuotaInv, NeverAhead
      <4>2. agent[f].day \in Days /\ agent[f].count \in Nat /\ passed[agent[f].day] \in Nat
        BY Numbers
      <4>3. passed[agent[f].day] <= passed'[agent[f].day] /\ passed'[agent[f].day] \in Nat
        BY <2>4, <4>2
      <4> QED BY <4>1, <4>2, <4>3
    <3> QED BY <3>1, <3>2 DEF NeverAhead
  <2>6. ASSUME Undisturbed PROVE Exact'
    <3>1. Exact /\ e = 0
      BY <1>3, <2>6 DEF QuotaInv
    <3>2. /\ quota.day <= d /\ d <= day
          /\ c = IF quota.day = d THEN quota.count ELSE 0
      BY <1>6, <3>1 DEF Exact
    <3>3. passed[d] = c
      <4>1. CASE quota.day = d
        BY <3>1, <3>2, <4>1 DEF Exact
      <4>2. CASE quota.day # d
        <5>1. d > quota.day
          BY <1>2, <3>2, <4>2
        <5>2. passed[d] = 0
          BY <1>2, <3>1, <5>1 DEF Exact
        <5> QED BY <3>2, <4>2, <5>2
      <4> QED BY <4>1, <4>2
    <3>4. quota'.day <= day' /\ passed'[quota'.day] = quota'.count
      BY <2>1, <2>3, <3>2, <3>3
    <3>5. ASSUME NEW x \in Days PROVE passed'[x] <= DailyLimit /\ (x > quota'.day => passed'[x] = 0)
      <4>1. CASE x = d
        <5>1. passed'[x] = c + 1 /\ quota'.day = x
          BY <2>1, <3>3, <4>1
        <5>2. c + 1 <= DailyLimit /\ ~ (x > x)
          BY <1>2, <2>2, Numbers
        <5> QED BY <5>1, <5>2
      <4>2. CASE x # d
        <5>1. passed'[x] = passed[x] /\ passed[x] <= DailyLimit
          BY <2>1, <3>1, <4>2 DEF Exact
        <5>2. x > d => x > quota.day
          BY <1>2, <3>2, Numbers
        <5>3. x > quota.day => passed[x] = 0
          BY <3>1 DEF Exact
        <5> QED BY <2>1, <5>1, <5>2, <5>3
      <4> QED BY <4>1, <4>2
    <3>6. agent'[0].job # "count up"
      BY <2>1, <3>1
    <3> QED BY <3>4, <3>5, <3>6 DEF Exact
  <2> QED BY <2>3, <2>5, <2>6 DEF QuotaInv
<1>7. ASSUME Spend("cut"), quota' \in {quota, NoQuota}, Ends(e), UNCHANGED <<day, passed>>
      PROVE  QuotaInv'
  <2>1. \A f \in Lives : agent'[f] = agent[f] \/ agent'[f].job # "count up"
    BY <1>2, <1>7 DEF Ends, NoAgent
  <2>2. quota'.count <= passed'[quota'.day]
    <3>1. CASE quota' = quota
      BY <1>7, <3>1 DEF QuotaInv, NeverAhead
    <3>2. CASE quota' = NoQuota
      <4>1. quota'.count = 0 /\ quota'.day = 0 /\ passed[0] \in Nat
        BY <3>2, Numbers DEF NoQuota
      <4>2. passed' = passed /\ 0 <= passed[0]
        BY <1>7, <4>1
      <4> QED BY <4>1, <4>2
    <3> QED BY <1>7, <3>1, <3>2
  <2>3. NeverAhead'
    BY <1>7, <2>1, <2>2 DEF QuotaInv, NeverAhead
  <2> QED BY <1>7, <2>3, Spending DEF QuotaInv
<1>8. CASE ReadQuota(e)
  BY <1>4, <1>5, <1>8 DEF ReadQuota
<1>9. CASE WriteQuota(e)
  BY <1>6, <1>7, <1>9 DEF WriteQuota
<1> QED BY <1>8, <1>9

(* The counts stay right in every step.                                    *)
LEMMA NextQuota == Typed /\ QuotaInv /\ [Next]_vars => QuotaInv'
<1> SUFFICES ASSUME Typed, QuotaInv, [Next]_vars PROVE QuotaInv'
  OBVIOUS
<1>1. agent \in [Lives -> AgentType] /\ Life \in Lives
  BY Numbers
<1>2. CASE UNCHANGED vars
  <2>1. UNCHANGED <<agent, day, quotaVars, spent>>
    BY <1>2 DEF vars, quotaVars
  <2>2. \A f \in Lives : agent'[f] = agent[f]
    BY <2>1
  <2> QED BY <2>1, <2>2, QuotaAside, Spending
<1>3. ASSUME NEW e \in Lives, Apply(e) \/ Rollback(e) PROVE QuotaInv'
  <2>1. \A f \in Lives : agent'[f] = agent[f] \/ agent'[f].job # "count up"
    <3>1. agent' = [agent EXCEPT ![e] = NoAgent]
      BY <1>3 DEF Apply, Rollback, Ends
    <3> QED BY <1>1, <3>1 DEF NoAgent
  <2>2. UNCHANGED <<day, quotaVars, spent>>
    BY <1>3 DEF Apply, Rollback
  <2> QED BY <2>1, <2>2, QuotaAside, Spending
<1>4. CASE KillAgent
  <2>1. \A f \in Lives : agent'[f] = agent[f] \/ agent'[f].job # "count up"
    BY <1>1, <1>4 DEF KillAgent, Ends, NoAgent
  <2> QED BY <1>4, <2>1, QuotaAside, Spending DEF KillAgent
<1>5. CASE Claim \/ StartRollback
  <2>1. \A f \in Lives : agent'[f] = agent[f] \/ agent'[f].job # "count up"
    BY <1>1, <1>5 DEF Claim, StartRollback, NoAgent
  <2> QED BY <1>5, <2>1, QuotaAside, Spending DEF Claim, StartRollback
<1>6. ASSUME ReadPlan \/ RewritePlan \/ SwapPlan \/ HashPlan \/ Settle \/ \E k \in Keys : BeginDispatch(k)
      PROVE  QuotaInv'
  BY <1>6, QuotaAside, Spending
  DEF ReadPlan, RewritePlan, SwapPlan, HashPlan, Settle, BeginDispatch, agentVars
<1>7. CASE Midnight
  <2>1. UNCHANGED <<agent, quota, passed, Undisturbed>> /\ day' = day + 1
    BY <1>7, Spending DEF Midnight, quotaVars
  <2>2. day \in Nat /\ quota.day \in Nat /\ agent[0].day \in Nat
    BY Numbers
  <2>3. quota.day <= day => quota.day <= day'
    BY <2>1, <2>2
  <2>4. agent[0].day <= day => agent[0].day <= day'
    BY <2>1, <2>2
  <2>5. NeverAhead'
    BY <2>1 DEF QuotaInv, NeverAhead
  <2>6. Undisturbed => Exact'
    BY <2>1, <2>3, <2>4 DEF QuotaInv, Exact
  <2> QED BY <2>1, <2>5, <2>6 DEF QuotaInv
<1>8. CASE Crash
  BY <1>8, QuotaAside, Spending DEF Crash, agentVars
<1>9. ASSUME NEW s \in Submissions, SubmissionStep(s) \/ Cancel(s) PROVE QuotaInv'
  <2>1. UNCHANGED <<agent, day, quotaVars>>
    BY <1>9
    DEF SubmissionStep, Begin, Insert, WritePlan, RejectPlan, PublishPlan, InsertArtifacts, Audit,
        Commit, Remove, Leave, RollBack, Cancel, execVars, agentVars
  <2>2. \/ UNCHANGED spent
        \/ \E kind \in {"cancel", "fault", "commit"} : Spend(kind)
    BY <1>9
    DEF SubmissionStep, Begin, Insert, WritePlan, RejectPlan, PublishPlan, InsertArtifacts, Audit,
        Commit, Remove, Leave, RollBack, Cancel
  <2> QED BY <2>1, <2>2, QuotaAside, Spending
<1> QED
  BY <1>2, <1>3, <1>4, <1>5, <1>6, <1>7, <1>8, <1>9, QuotaCounts DEF Next, DispatchStep, AgentStep

(* No apply is refused before the limit, and no more than the limit are    *)
(* let through on a day while one agent works at a time and every write of *)
(* the count succeeds, whatever the limit.                                 *)
THEOREM DailyLimitKept == Spec => []LimitKept
<1>1. Init => QuotaInv
  <2> SUFFICES ASSUME Init PROVE QuotaInv
    OBVIOUS
  <2>1. 0 \in Lives /\ 0 \in Days /\ 0 <= DailyLimit /\ 0 <= 0
    BY FilesAssumption DEF Lives, Days
  <2>2. /\ quota.day = 0 /\ quota.count = 0 /\ day = 0
        /\ \A d \in Days : passed[d] = 0
        /\ \A e \in Lives : agent[e].job = "none"
    BY DEF Init, NoQuota, NoAgent
  <2> QED BY <2>1, <2>2 DEF QuotaInv, NeverAhead, Exact
<1>2. QuotaInv => LimitKept
  BY DEF QuotaInv, NeverAhead, Exact, Undisturbed, LimitKept
<1> QED BY <1>1, <1>2, InitType, NextType, NextQuota, PTL DEF Spec

-----------------------------------------------------------------------------
(* Own plans.  While nobody leaves and every commit succeeds, whoever is   *)
(* between BeginTx and its end holds the connection and has the only key   *)
(* that is not committed, and a dispatch works on committed ones.          *)

Together == spent.cancel = 0 /\ spent.commit = 0
Holding == Numbered \cup {"insert", "leave"}
Wrote(plan, s) == plan # None /\ plan.by = s

HolderOK(s) ==
  /\ ~ sub[s].cancelled
  /\ sub[s].pc \in Holding => tx = s
  /\ sub[s].pc \in Numbered => sub[s].key = seq + 1
  /\ sub[s].pc = "rename" => Wrote(tmp[sub[s].key], s)
  /\ sub[s].pc \in {"artifact", "audit", "commit"} => Wrote(file[sub[s].key], s)
RowOK(k) ==
  /\ row[k].state # "none" => k <= seq
  /\ k \in Live => Wrote(file[k], row[k].by)
DispatchOK ==
  /\ disp.pc # "idle" => disp.key \in Live
  /\ disp.pc = "rewrite" => disp.plan.by = row[disp.key].by
  /\ disp.pc = "swap" => Wrote(tmp[disp.key], row[disp.key].by)
PlanInv ==
  Together =>
    /\ \A s \in Submissions : HolderOK(s)
    /\ \A k \in Keys : RowOK(k)
    /\ DispatchOK

(* While nobody leaves and no commit fails, that was so before.            *)
LEMMA StillTogether ==
  ASSUME Typed, [Next]_vars, Together'
  PROVE  Together /\ \A s \in Submissions : ~ Cancel(s) /\ ~ Spend("commit")
<1>1. /\ spent \in [DOMAIN Limit -> Nat]
      /\ DOMAIN Limit = {"cancel", "fault", "commit", "cut", "crash"}
  BY Bounds DEF Typed, TypeOK
<1>2. ASSUME NEW kind \in DOMAIN Limit, Spend(kind)
      PROVE  kind \notin {"cancel", "commit"} /\ Together
  <2>1. spent'[kind] = spent[kind] + 1 /\ spent[kind] \in Nat
    BY <1>1, <1>2 DEF Spend
  <2>2. \A other \in DOMAIN Limit \ {kind} : spent'[other] = spent[other]
    BY <1>1, <1>2 DEF Spend
  <2>3. spent'[kind] # 0
    BY <2>1
  <2>4. kind # "cancel" /\ kind # "commit"
    BY <2>3 DEF Together
  <2> QED BY <1>1, <2>2, <2>4 DEF Together
<1>3. \A kind \in {"cancel", "fault", "commit", "cut", "crash"} :
        Spend(kind) => kind \notin {"cancel", "commit"} /\ Together
  BY <1>1, <1>2
<1>4. ASSUME UNCHANGED spent PROVE Together
  BY <1>4 DEF Together
<1>5. ASSUME NEW s \in Submissions, SubmissionStep(s) \/ Cancel(s) PROVE Together
  BY <1>3, <1>4, <1>5
  DEF SubmissionStep, Begin, Insert, WritePlan, RejectPlan, PublishPlan, InsertArtifacts, Audit,
      Commit, Remove, Leave, RollBack, Cancel
<1>6. ASSUME DispatchStep \/ KillAgent \/ Midnight \/ Crash \/ \E k \in Keys : BeginDispatch(k)
      PROVE  Together
  BY <1>3, <1>4, <1>6
  DEF DispatchStep, BeginDispatch, ReadPlan, RewritePlan, SwapPlan, HashPlan, Claim, StartRollback,
      Settle, KillAgent, Midnight, Crash
<1>7. ASSUME NEW e \in Lives, AgentStep(e) PROVE Together
  BY <1>3, <1>4, <1>7 DEF AgentStep, ReadQuota, WriteQuota, Apply, Rollback
<1>8. Together
  BY <1>4, <1>5, <1>6, <1>7 DEF Next, vars
<1> QED BY <1>3, <1>8 DEF Cancel

(* Keys are numbers, and the next one is nobody's row.                     *)
LEMMA NextKeyFree ==
  ASSUME Typed, PlanInv, Together
  PROVE  /\ seq \in Nat /\ seq + 1 # seq
         /\ \A k \in Live : k # seq + 1
         /\ disp.pc # "idle" => disp.key \in Live /\ disp.key # seq + 1
<1>1. seq \in Nat /\ Keys \subseteq Nat
  BY FilesAssumption DEF Typed, TypeOK, Keys
<1>2. ASSUME NEW k \in Live PROVE k # seq + 1
  <2>1. k \in Keys /\ k <= seq
    BY <1>2 DEF PlanInv, RowOK, Live
  <2> QED BY <1>1, <2>1
<1> QED BY <1>1, <1>2 DEF PlanInv, DispatchOK

(* What happens under the next key, and nowhere else, disturbs no row and  *)
(* no dispatch.                                                            *)
LEMMA RowsAside ==
  ASSUME Typed, PlanInv, Together, UNCHANGED <<row, seq, disp>>,
         \A k \in Keys \ {seq + 1} : tmp'[k] = tmp[k] /\ file'[k] = file[k]
  PROVE  (\A k \in Keys : RowOK(k)') /\ DispatchOK'
<1>1. Live' = Live /\ Live \subseteq Keys
  BY DEF Live
<1>2. ASSUME NEW k \in Keys PROVE RowOK(k)'
  <2>1. RowOK(k)
    BY DEF PlanInv
  <2>2. k \in Live => file'[k] = file[k]
    BY NextKeyFree
  <2> QED BY <1>1, <2>1, <2>2 DEF RowOK, Wrote
<1>3. DispatchOK'
  <2>1. DispatchOK
    BY DEF PlanInv
  <2>2. disp.pc # "idle" => tmp'[disp.key] = tmp[disp.key]
    BY <1>1, NextKeyFree
  <2> QED BY <1>1, <2>1, <2>2 DEF DispatchOK, Wrote
<1> QED BY <1>2, <1>3

(* What happens elsewhere disturbs no submission.                          *)
LEMMA HoldersAside ==
  ASSUME Typed, PlanInv, Together, UNCHANGED <<sub, tx, seq>>,
         seq + 1 \in Keys => tmp'[seq + 1] = tmp[seq + 1] /\ file'[seq + 1] = file[seq + 1]
  PROVE  \A s \in Submissions : HolderOK(s)'
<1> SUFFICES ASSUME NEW s \in Submissions PROVE HolderOK(s)'
  OBVIOUS
<1>1. HolderOK(s) /\ (sub[s].pc \in Numbered => sub[s].key \in Keys)
  BY DEF PlanInv, Typed, SubOK, GoodSub
<1> QED BY <1>1 DEF HolderOK, Wrote, Numbered

(* A submission that is not at work asks for nothing.                      *)
LEMMA Idle ==
  ASSUME NEW s \in Submissions, ~ sub'[s].cancelled, sub'[s].pc \notin Holding
  PROVE  HolderOK(s)'
BY DEF HolderOK, Holding, Numbered

(* While one submission is at work, all others are not.                    *)
LEMMA OthersIdle ==
  ASSUME Typed, PlanInv, Together, NEW s \in Submissions, tx \in {None, s},
         \A t \in Submissions \ {s} : sub'[t] = sub[t]
  PROVE  \A t \in Submissions \ {s} : HolderOK(t)'
<1> SUFFICES ASSUME NEW t \in Submissions \ {s} PROVE HolderOK(t)'
  OBVIOUS
<1>1. ~ sub[t].cancelled /\ sub[t].pc \notin Holding
  BY FilesAssumption DEF PlanInv, HolderOK
<1> QED BY <1>1, Idle

(* A submission's own steps.                                               *)
LEMMA SubmissionKeeps ==
  ASSUME Typed, PlanInv, Together, Together', NEW s \in Submissions, SubmissionStep(s),
         ~ Spend("commit")
  PROVE  /\ \A t \in Submissions : HolderOK(t)'
         /\ \A k \in Keys : RowOK(k)'
         /\ DispatchOK'
<1> DEFINE k == sub[s].key
<1>1. /\ HolderOK(s) /\ GoodSub(sub[s]) /\ sub \in [Submissions -> SubType]
      /\ tmp \in [Keys -> Plans \cup {None}] /\ file \in [Keys -> Plans \cup {None}]
  BY DEF PlanInv, Typed, SubOK, TypeOK
<1>2. sub[s].pc \in Numbered => k = seq + 1 /\ k \in Keys
  BY <1>1 DEF HolderOK, GoodSub
<1>3. UNCHANGED disp
  BY DEF SubmissionStep, Begin, Insert, WritePlan, RejectPlan, PublishPlan, InsertArtifacts, Audit,
         Commit, Remove, Leave, RollBack, execVars
<1>4. ~ RollBack(s)
  BY <1>1 DEF HolderOK, RollBack
<1>5. tx \in {None, s}
  BY <1>1, <1>4
  DEF SubmissionStep, HolderOK, Begin, Insert, WritePlan, RejectPlan, PublishPlan,
      InsertArtifacts, Audit, Commit, Remove, Leave, At, Holding, Numbered
<1>6. ASSUME NEW pc, Goto(s, pc)
      PROVE  /\ sub'[s].pc = pc /\ sub'[s].key = k /\ sub'[s].cancelled = sub[s].cancelled
             /\ \A t \in Submissions \ {s} : sub'[t] = sub[t]
  BY <1>1, <1>6 DEF Goto, SubType
<1>7. \A t \in Submissions \ {s} : sub'[t] = sub[t]
  BY <1>1, <1>4, <1>6
  DEF SubmissionStep, Begin, Insert, WritePlan, RejectPlan, PublishPlan, InsertArtifacts, Audit,
      Commit, Remove, Leave, AfterFailedWrite
<1>8. \A t \in Submissions \ {s} : HolderOK(t)'
  BY <1>5, <1>7, OthersIdle
<1>9. ASSUME HolderOK(s)', UNCHANGED <<row, seq>>,
             \A q \in Keys \ {seq + 1} : tmp'[q] = tmp[q] /\ file'[q] = file[q]
      PROVE  /\ \A t \in Submissions : HolderOK(t)'
             /\ \A q \in Keys : RowOK(q)'
             /\ DispatchOK'
  BY <1>3, <1>8, <1>9, RowsAside
<1>10. CASE Begin(s)
  <2>1. tx' = s /\ sub'[s].pc = "insert" /\ ~ sub'[s].cancelled
    BY <1>1, <1>6, <1>10 DEF Begin, HolderOK
  <2>2. HolderOK(s)'
    BY <2>1 DEF HolderOK, Numbered
  <2> QED BY <1>9, <1>10, <2>2 DEF Begin, fileVars
<1>11. CASE Insert(s)
  <2>1. UNCHANGED <<tx, seq, row, tmp, file>> /\ tx = s
    BY <1>1, <1>11 DEF Insert, HolderOK, At, Holding, dbVars, fileVars
  <2>2. ASSUME NEW c \in Counts,
               sub' = [sub EXCEPT ![s].pc = "write", ![s].key = seq + 1, ![s].count = c]
        PROVE  HolderOK(s)'
    <3>1. sub'[s].pc = "write" /\ sub'[s].key = seq + 1 /\ ~ sub'[s].cancelled
      BY <1>1, <2>2 DEF HolderOK, SubType
    <3> QED BY <2>1, <3>1 DEF HolderOK
  <2>3. ASSUME Goto(s, "leave") PROVE HolderOK(s)'
    BY <1>1, <1>6, <2>1, <2>3 DEF HolderOK, Numbered
  <2>4. HolderOK(s)'
    BY <1>11, <2>2, <2>3 DEF Insert
  <2> QED BY <1>9, <2>1, <2>4
<1>12. CASE WritePlan(s)
  <2>1. /\ UNCHANGED <<tx, seq, row, file>> /\ tx = s /\ ~ sub[s].cancelled
        /\ k = seq + 1 /\ k \in Keys
    BY <1>1, <1>2, <1>12 DEF WritePlan, WriteTmp, HolderOK, At, Holding, Numbered, dbVars, fileVars
  <2>2. \/ tmp' = [tmp EXCEPT ![k] = [by |-> s, count |-> sub[s].count]]
        \/ tmp' = tmp /\ Goto(s, "leave")
    BY <1>12 DEF WritePlan, WriteTmp, AfterFailedWrite, fileVars
  <2>3. Goto(s, "leave") \/ Goto(s, "rename")
    BY <1>12 DEF WritePlan, AfterFailedWrite
  <2>4. HolderOK(s)'
    <3>1. CASE Goto(s, "leave")
      BY <1>6, <2>1, <3>1 DEF HolderOK, Numbered
    <3>2. CASE Goto(s, "rename")
      <4>1. sub'[s].pc = "rename" /\ sub'[s].key = k /\ ~ sub'[s].cancelled
        BY <1>6, <2>1, <3>2
      <4>2. tmp' = [tmp EXCEPT ![k] = [by |-> s, count |-> sub[s].count]]
        BY <1>6, <2>2, <3>2
      <4>3. tmp'[k] = [by |-> s, count |-> sub[s].count]
        BY <1>1, <2>1, <4>2
      <4>4. tmp'[k].by = s /\ tmp'[k] \in Plans
        BY <1>1, <1>12, <4>3 DEF Plans, WritePlan, At, GoodSub, Numbered
      <4>5. tmp'[k] # None
        BY <4>4, FilesAssumption
      <4> QED BY <2>1, <4>1, <4>4, <4>5 DEF HolderOK, Wrote
    <3> QED BY <2>3, <3>1, <3>2
  <2>5. \A q \in Keys \ {seq + 1} : tmp'[q] = tmp[q]
    BY <1>1, <2>1, <2>2
  <2> QED BY <1>9, <2>1, <2>4, <2>5
<1>13. CASE RejectPlan(s) \/ InsertArtifacts(s) \/ Audit(s)
  <2>1. /\ UNCHANGED <<tx, seq, row, tmp, file>> /\ tx = s /\ ~ sub[s].cancelled /\ Open(s)
        /\ k = seq + 1
    BY <1>1, <1>2, <1>13
    DEF RejectPlan, InsertArtifacts, Audit, HolderOK, At, Holding, Numbered, Open, dbVars, fileVars
  <2>2. CASE Goto(s, "leave") \/ Goto(s, "remove")
    <3>1. HolderOK(s)'
      BY <1>6, <2>1, <2>2 DEF HolderOK, Numbered
    <3> QED BY <1>9, <2>1, <3>1
  <2>3. CASE sub[s].pc \in {"artifact", "audit"} /\ (Goto(s, "audit") \/ Goto(s, "commit"))
    <3>1. Wrote(file[k], s)
      BY <1>1, <2>3 DEF HolderOK
    <3>2. HolderOK(s)'
      BY <1>6, <2>1, <2>3, <3>1 DEF HolderOK, Numbered, Wrote
    <3> QED BY <1>9, <2>1, <3>2
  <2> QED BY <1>13, <2>1, <2>2, <2>3 DEF RejectPlan, InsertArtifacts, Audit, At
<1>14. CASE PublishPlan(s)
  <2>1. /\ UNCHANGED <<tx, seq, row>> /\ tx = s /\ ~ sub[s].cancelled
        /\ k = seq + 1 /\ k \in Keys /\ Wrote(tmp[k], s)
    BY <1>1, <1>2, <1>14 DEF PublishPlan, HolderOK, At, Holding, Numbered, dbVars
  <2>2. Goto(s, "artifact") /\ file' = [file EXCEPT ![k] = tmp[k]] /\ tmp' = [tmp EXCEPT ![k] = None]
    BY <1>14, <2>1 DEF PublishPlan, Rename, Wrote
  <2>3. file'[k] = tmp[k] /\ \A q \in Keys \ {k} : tmp'[q] = tmp[q] /\ file'[q] = file[q]
    BY <1>1, <2>1, <2>2
  <2>4. sub'[s].pc = "artifact" /\ sub'[s].key = k /\ ~ sub'[s].cancelled
    BY <1>6, <2>1, <2>2
  <2>5. HolderOK(s)'
    BY <2>1, <2>3, <2>4 DEF HolderOK, Wrote
  <2> QED BY <1>9, <2>1, <2>3, <2>5
<1>15. CASE Remove(s)
  <2>1. /\ UNCHANGED <<tx, seq, row, tmp>> /\ tx = s /\ ~ sub[s].cancelled /\ k = seq + 1
        /\ file' = [file EXCEPT ![k] = None] /\ Goto(s, "leave")
    BY <1>1, <1>2, <1>15 DEF Remove, HolderOK, At, Holding, Numbered, dbVars
  <2>2. HolderOK(s)'
    BY <1>6, <2>1 DEF HolderOK, Numbered
  <2>3. \A q \in Keys \ {seq + 1} : file'[q] = file[q]
    BY <1>1, <2>1
  <2> QED BY <1>9, <2>1, <2>2, <2>3
<1>16. CASE Leave(s)
  <2>1. UNCHANGED <<seq, row, tmp, file>> /\ Goto(s, "gone") /\ ~ sub[s].cancelled
    BY <1>1, <1>16 DEF Leave, HolderOK, fileVars
  <2>2. HolderOK(s)'
    BY <1>6, <2>1, Idle DEF Holding, Numbered
  <2> QED BY <1>9, <2>1, <2>2
<1>17. CASE Commit(s)
  <2>1. /\ tx = s /\ ~ sub[s].cancelled /\ k = seq + 1 /\ k \in Keys /\ Wrote(file[k], s)
    BY <1>1, <1>2, <1>17 DEF Commit, HolderOK, At, Holding, Numbered
  <2>2. /\ row' = [row EXCEPT ![k] = [state |-> "open", by |-> s]]
        /\ seq' = k /\ Goto(s, "gone") /\ UNCHANGED <<tmp, file, disp>>
    BY <1>3, <1>17, <2>1 DEF Commit, Open, fileVars
  <2>3. HolderOK(s)'
    BY <1>6, <2>1, <2>2, Idle DEF Holding, Numbered
  <2>4. row \in [Keys -> [state : RowStates, by : Submissions \cup {None}]]
    BY DEF Typed, TypeOK, RowStates
  <2>5. /\ row'[k].state = "open" /\ row'[k].by = s
        /\ \A q \in Keys \ {k} : row'[q] = row[q]
    BY <2>1, <2>2, <2>4
  <2>6. ASSUME NEW q \in Keys PROVE RowOK(q)'
    <3>1. CASE q = k
      <4>1. k <= k
        BY <2>1, NextKeyFree
      <4> QED BY <2>1, <2>2, <2>5, <3>1, <4>1 DEF RowOK, Live, Wrote
    <3>2. CASE q # k
      <4>1. RowOK(q) /\ (q \in Live' <=> q \in Live)
        BY <2>5, <3>2 DEF PlanInv, Live
      <4>2. q <= seq => q <= seq + 1
        BY NextKeyFree DEF Keys
      <4> QED BY <2>1, <2>2, <2>5, <3>2, <4>1, <4>2 DEF RowOK, Wrote
    <3> QED BY <3>1, <3>2
  <2>7. DispatchOK'
    <3>1. DispatchOK /\ (disp.pc # "idle" => disp.key \in Live /\ disp.key # k)
      BY <2>1, NextKeyFree DEF PlanInv
    <3>2. disp.pc # "idle" => row'[disp.key] = row[disp.key] /\ disp.key \in Live'
      BY <2>5, <3>1 DEF Live
    <3> QED BY <2>2, <3>1, <3>2 DEF DispatchOK, Wrote
  <2> QED BY <1>8, <2>3, <2>6, <2>7
<1> QED
  BY <1>4, <1>10, <1>11, <1>12, <1>13, <1>14, <1>15, <1>16, <1>17 DEF SubmissionStep

(* The steps of a dispatch.                                                *)
LEMMA DispatchKeeps ==
  ASSUME Typed, PlanInv, Together, DispatchStep \/ \E k \in Keys : BeginDispatch(k)
  PROVE  /\ \A s \in Submissions : HolderOK(s)'
         /\ \A k \in Keys : RowOK(k)'
         /\ DispatchOK'
<1> DEFINE k == disp.key
           Kept == /\ \A s \in Submissions : HolderOK(s)'
                   /\ \A q \in Keys : RowOK(q)'
                   /\ DispatchOK'
<1>1. /\ GoodDisp(disp) /\ DispatchOK
      /\ tmp \in [Keys -> Plans \cup {None}] /\ file \in [Keys -> Plans \cup {None}]
      /\ row \in [Keys -> [state : RowStates, by : Submissions \cup {None}]]
  BY DEF PlanInv, Typed, TypeOK, RowStates
<1>2. disp.pc # "idle" => k \in Keys /\ k \in Live /\ k # seq + 1 /\ Wrote(file[k], row[k].by)
  BY <1>1, NextKeyFree DEF GoodDisp, PlanInv, RowOK
<1>3. UNCHANGED <<sub, tx, seq>>
  BY DEF DispatchStep, BeginDispatch, ReadPlan, RewritePlan, SwapPlan, HashPlan, Claim,
         StartRollback, Settle, dbVars
<1>4. ASSUME GiveUp PROVE DispatchOK'
  BY <1>4 DEF GiveUp, NoDispatch, DispatchOK
<1>5. ASSUME NEW pc \in DispPCs \ {"rewrite", "swap"}, Now(pc), disp.pc # "idle",
             row'[k].state \in {"open", "dispatching"}, row' \in [Keys -> [state : RowStates, by : Submissions \cup {None}]]
      PROVE  DispatchOK'
  <2>1. disp'.pc = pc /\ disp'.key = k
    BY <1>1, <1>5 DEF Now, GoodDisp, DispType
  <2> QED BY <1>2, <1>5, <2>1 DEF DispatchOK, Live
<1>6. ASSUME DispatchOK', UNCHANGED <<row, tmp, file>> PROVE Kept
  <2>1. \A q \in Keys : RowOK(q)'
    BY <1>3, <1>6 DEF PlanInv, RowOK, Live, Wrote
  <2> QED BY <1>3, <1>6, <2>1, HoldersAside
<1>7. ASSUME NEW q \in Keys, BeginDispatch(q) PROVE Kept
  <2>1. disp'.pc = "read" /\ disp'.key = q
    BY <1>7 DEF BeginDispatch, NoDispatch
  <2>2. UNCHANGED <<row, tmp, file>> /\ q \in Live'
    BY <1>7 DEF BeginDispatch, dbVars, fileVars, Live
  <2>3. DispatchOK'
    BY <2>1, <2>2 DEF DispatchOK
  <2> QED BY <1>6, <2>2, <2>3
<1>8. ASSUME ReadPlan PROVE Kept
  <2>1. UNCHANGED <<row, tmp, file>> /\ disp.pc # "idle"
    BY <1>8 DEF ReadPlan, Dispatching, dbVars, fileVars
  <2>2. ASSUME disp' = [disp EXCEPT !.pc = "rewrite", !.plan = Recounted(file[k])]
        PROVE  DispatchOK'
    <3>1. disp'.pc = "rewrite" /\ disp'.key = k /\ disp'.plan = [file[k] EXCEPT !.count = disp.count]
      BY <1>1, <2>2 DEF GoodDisp, DispType, Recounted
    <3>2. file[k] \in Plans /\ file[k].by = row[k].by
      BY <1>1, <1>2, <2>1 DEF Wrote
    <3>3. disp'.plan.by = row[k].by
      BY <3>1, <3>2 DEF Plans
    <3>4. k \in Live'
      BY <1>2, <2>1 DEF Live
    <3> QED BY <2>1, <3>1, <3>3, <3>4 DEF DispatchOK
  <2>3. DispatchOK'
    BY <1>4, <1>8, <2>2 DEF ReadPlan
  <2> QED BY <1>6, <2>1, <2>3
<1>9. ASSUME RewritePlan PROVE Kept
  <2>1. /\ UNCHANGED <<row, file>> /\ disp.pc = "rewrite" /\ disp.plan \in Plans /\ disp.plan.by = row[k].by
        /\ k \in Keys /\ k \in Live /\ k # seq + 1
    BY <1>1, <1>2, <1>9
    DEF RewritePlan, Dispatching, dbVars, fileVars, WriteTmp, GoodDisp, DispatchOK
  <2>2. tmp' = [tmp EXCEPT ![k] = disp.plan] \/ (tmp' = tmp /\ GiveUp)
    BY <1>9 DEF RewritePlan, WriteTmp, fileVars
  <2>3. Now("swap") \/ GiveUp
    BY <1>9 DEF RewritePlan
  <2>4. DispatchOK'
    <3>1. CASE GiveUp
      BY <1>4, <3>1
    <3>2. CASE Now("swap") /\ tmp' = [tmp EXCEPT ![k] = disp.plan]
      <4>1. disp'.pc = "swap" /\ disp'.key = k
        BY <1>1, <3>2 DEF Now, GoodDisp, DispType
      <4>2. tmp'[k] = disp.plan
        BY <1>1, <2>1, <3>2
      <4>3. Wrote(tmp'[k], row[k].by)
        BY <2>1, <4>2, FilesAssumption DEF Wrote
      <4>4. k \in Live'
        BY <2>1 DEF Live
      <4> QED BY <2>1, <4>1, <4>3, <4>4 DEF DispatchOK, Wrote
    <3> QED BY <2>2, <2>3, <3>1, <3>2
  <2>5. \A q \in Keys : RowOK(q)'
    BY <1>3, <2>1 DEF PlanInv, RowOK, Live, Wrote
  <2>6. seq + 1 \in Keys => tmp'[seq + 1] = tmp[seq + 1]
    BY <1>1, <2>1, <2>2
  <2> QED BY <1>3, <2>1, <2>4, <2>5, <2>6, HoldersAside
<1>10. ASSUME SwapPlan PROVE Kept
  <2>1. UNCHANGED row /\ disp.pc = "swap" /\ Wrote(tmp[k], row[k].by)
    BY <1>1, <1>10 DEF SwapPlan, Dispatching, dbVars, DispatchOK
  <2>2. /\ Now("hash") /\ file' = [file EXCEPT ![k] = tmp[k]] /\ tmp' = [tmp EXCEPT ![k] = None]
    BY <1>10, <2>1 DEF SwapPlan, Rename, Wrote
  <2>3. /\ file'[k] = tmp[k] /\ k # seq + 1
        /\ seq + 1 \in Keys => tmp'[seq + 1] = tmp[seq + 1] /\ file'[seq + 1] = file[seq + 1]
        /\ \A q \in Keys \ {k} : file'[q] = file[q]
    BY <1>1, <1>2, <2>1, <2>2
  <2>4. DispatchOK'
    BY <1>1, <1>2, <1>5, <2>1, <2>2 DEF Live, DispPCs
  <2>5. ASSUME NEW q \in Keys PROVE RowOK(q)'
    BY <1>3, <2>1, <2>3 DEF PlanInv, RowOK, Live, Wrote
  <2> QED BY <1>3, <2>3, <2>4, <2>5, HoldersAside
<1>11. ASSUME HashPlan PROVE Kept
  <2>1. UNCHANGED <<row, tmp, file>> /\ disp.pc # "idle"
    BY <1>11 DEF HashPlan, Dispatching, dbVars, fileVars
  <2>2. ASSUME disp' = [disp EXCEPT !.pc = "claim", !.plan = PlanHash(file[k])] PROVE DispatchOK'
    <3>1. disp'.pc = "claim" /\ disp'.key = k
      BY <1>1, <2>2 DEF GoodDisp, DispType
    <3> QED BY <1>2, <2>1, <3>1 DEF DispatchOK, Live
  <2>3. DispatchOK'
    BY <1>4, <1>11, <2>2 DEF HashPlan
  <2> QED BY <1>6, <2>1, <2>3
<1>12. ASSUME NEW state \in RowStates \ {"none"}, row' = [row EXCEPT ![k].state = state],
              disp.pc # "idle", DispatchOK', UNCHANGED <<tmp, file>>
       PROVE  Kept
  <2>1. /\ row'[k].state = state /\ row'[k].by = row[k].by
        /\ \A q \in Keys \ {k} : row'[q] = row[q]
    BY <1>1, <1>2, <1>12
  <2>2. ASSUME NEW q \in Keys PROVE RowOK(q)'
    <3>1. RowOK(q)
      BY DEF PlanInv
    <3>2. CASE q = k
      BY <1>2, <1>3, <1>12, <2>1, <3>1, <3>2 DEF RowOK, Live, Wrote
    <3>3. CASE q # k
      BY <1>3, <1>12, <2>1, <3>1, <3>3 DEF RowOK, Live, Wrote
    <3> QED BY <3>2, <3>3
  <2> QED BY <1>3, <1>12, <2>2, HoldersAside
<1>13. ASSUME Claim PROVE Kept
  <2>1. /\ row' = [row EXCEPT ![k].state = "dispatching"] /\ disp.pc # "idle" /\ Now("apply")
        /\ UNCHANGED <<tmp, file>>
    BY <1>13 DEF Claim, Dispatching, fileVars
  <2>2. row' \in [Keys -> [state : RowStates, by : Submissions \cup {None}]]
        /\ row'[k].state = "dispatching"
    BY <1>1, <1>2, <2>1 DEF RowStates
  <2>3. DispatchOK'
    BY <1>5, <2>1, <2>2 DEF DispPCs
  <2>4. "dispatching" \in RowStates \ {"none"}
    BY DEF RowStates
  <2> QED BY <1>12, <2>1, <2>3, <2>4
<1>14. ASSUME StartRollback PROVE Kept
  <2>1. Now("undo") /\ disp.pc # "idle" /\ UNCHANGED <<row, tmp, file>>
    BY <1>14 DEF StartRollback, Dispatching, dbVars, fileVars
  <2>2. DispatchOK'
    BY <1>1, <1>2, <1>5, <2>1 DEF Live, DispPCs
  <2> QED BY <1>6, <2>1, <2>2
<1>15. ASSUME Settle PROVE Kept
  <2>1. /\ row' = [row EXCEPT ![k].state = "closed"] /\ disp.pc # "idle" /\ GiveUp
        /\ UNCHANGED <<tmp, file>>
    BY <1>15 DEF Settle, Dispatching, fileVars
  <2>2. DispatchOK'
    BY <1>4, <2>1
  <2>3. "closed" \in RowStates \ {"none"}
    BY DEF RowStates
  <2> QED BY <1>12, <2>1, <2>2, <2>3
<1> HIDE DEF Kept
<1>16. Kept
  BY <1>7, <1>8, <1>9, <1>10, <1>11, <1>13, <1>14, <1>15 DEF DispatchStep
<1> QED BY <1>16 DEF Kept

(* Every step keeps plans with their rows.                                 *)
LEMMA NextPlan == Typed /\ PlanInv /\ [Next]_vars => PlanInv'
<1> SUFFICES ASSUME Typed, PlanInv, [Next]_vars, Together'
             PROVE  /\ \A s \in Submissions : HolderOK(s)'
                    /\ \A k \in Keys : RowOK(k)'
                    /\ DispatchOK'
  BY DEF PlanInv
<1> DEFINE Kept == /\ \A s \in Submissions : HolderOK(s)'
                   /\ \A k \in Keys : RowOK(k)'
                   /\ DispatchOK'
<1>1. Together /\ \A s \in Submissions : ~ Cancel(s) /\ ~ Spend("commit")
  BY StillTogether
<1>2. ASSUME UNCHANGED <<sub, tx, seq, row, tmp, file, disp>> PROVE Kept
  BY <1>1, <1>2, HoldersAside, RowsAside
<1>3. ASSUME NEW s \in Submissions, SubmissionStep(s) PROVE Kept
  BY <1>1, <1>3, SubmissionKeeps
<1>4. ASSUME DispatchStep \/ \E k \in Keys : BeginDispatch(k) PROVE Kept
  BY <1>1, <1>4, DispatchKeeps
<1>5. ASSUME UNCHANGED <<sub, tx, seq, row, tmp, file>>,
             UNCHANGED disp \/ \E pc \in {"settle", "settled"} : disp.pc # "idle" /\ Now(pc)
      PROVE  Kept
  <2>1. ASSUME NEW pc \in {"settle", "settled"}, disp.pc # "idle", Now(pc) PROVE DispatchOK'
    <3>1. disp'.pc = pc /\ disp'.key = disp.key
      BY <2>1 DEF Now, Typed, GoodDisp, DispType
    <3>2. disp'.key \in Live'
      BY <1>1, <1>5, <2>1, <3>1, NextKeyFree DEF Live
    <3> QED BY <3>1, <3>2 DEF DispatchOK
  <2>2. CASE UNCHANGED disp
    BY <1>2, <1>5, <2>2
  <2>3. CASE DispatchOK'
    <3>1. \A k \in Keys : RowOK(k)'
      BY <1>1, <1>5 DEF PlanInv, RowOK, Live, Wrote
    <3> QED BY <1>1, <1>5, <2>3, <3>1, HoldersAside
  <2> QED BY <1>5, <2>1, <2>2, <2>3
<1>6. ASSUME NEW e \in Lives, agent[e].job # "none", Ends(e), UNCHANGED <<sub, tx, seq, row, tmp, file>>
      PROVE  Kept
  <2>1. e = Life => disp.pc # "idle"
    BY <1>6 DEF Typed, Tied, AgentOK, AgentType, Jobs
  <2> QED BY <1>5, <1>6, <2>1 DEF Ends
<1>7. ASSUME NEW e \in Lives, AgentStep(e) PROVE Kept
  <2>1. UNCHANGED <<sub, tx, seq, row, tmp, file>> /\ agent[e].job # "none"
    BY <1>7 DEF AgentStep, ReadQuota, WriteQuota, Apply, Rollback, dbVars, fileVars
  <2>2. UNCHANGED disp \/ Ends(e)
    BY <1>7 DEF AgentStep, ReadQuota, WriteQuota, Apply, Rollback
  <2> QED BY <1>2, <1>6, <2>1, <2>2
<1>8. ASSUME KillAgent PROVE Kept
  BY <1>6, <1>8, Numbers DEF KillAgent, dbVars, fileVars
<1>9. ASSUME Midnight \/ UNCHANGED vars PROVE Kept
  BY <1>2, <1>9 DEF Midnight, vars, dbVars, fileVars
<1>10. ASSUME Crash PROVE Kept
  <2>1. UNCHANGED <<seq, row, tmp, file>> /\ disp' = NoDispatch
    BY <1>10 DEF Crash, fileVars
  <2>2. ASSUME NEW s \in Submissions PROVE HolderOK(s)'
    <3>1. sub[s] \in SubType /\ ~ sub[s].cancelled
      BY <1>1 DEF Typed, SubOK, PlanInv, HolderOK
    <3>2. sub'[s].pc \in {"idle", "gone"} /\ ~ sub'[s].cancelled
      BY <1>10, <3>1 DEF Crash, At, SubType
    <3> QED BY <3>2, Idle DEF Holding, Numbered
  <2>3. \A k \in Keys : RowOK(k)'
    BY <1>1, <2>1 DEF PlanInv, RowOK, Live, Wrote
  <2>4. DispatchOK'
    BY <2>1 DEF DispatchOK, NoDispatch
  <2> QED BY <2>2, <2>3, <2>4
<1> HIDE DEF Kept
<1>11. Kept
  BY <1>1, <1>3, <1>4, <1>7, <1>8, <1>9, <1>10 DEF Next
<1> QED BY <1>11 DEF Kept

(* At first there are neither rows nor submissions at work.                *)
LEMMA InitPlan == Init => PlanInv
<1> SUFFICES ASSUME Init PROVE PlanInv
  OBVIOUS
<1>1. \A s \in Submissions : HolderOK(s)
  BY DEF Init, HolderOK, Holding, Numbered
<1>2. (\A k \in Keys : RowOK(k)) /\ DispatchOK
  BY DEF Init, RowOK, Live, NoRow, DispatchOK, NoDispatch
<1> QED BY <1>1, <1>2 DEF PlanInv

(* While every client waits for its answer and every COMMIT succeeds, each *)
(* live request has the plan file its own submission wrote: through failed *)
(* writes, leftovers, reused keys, crashes and dispatches.                 *)
THEOREM OwnPlans == Spec => []OwnPlanIfNobodyLeaves
<1>1. PlanInv => OwnPlanIfNobodyLeaves
  BY DEF PlanInv, Together, RowOK, Wrote, Live, OwnPlanIfNobodyLeaves, OpenHasOwnPlan
<1> QED BY <1>1, InitPlan, InitType, NextType, NextPlan, PTL DEF Spec

-----------------------------------------------------------------------------
(* What agents execute.  From its rewrite on, the file of a dispatch has   *)
(* the count of its snapshot; and from the claim on its row is under       *)
(* execution, so that no later dispatch touches the file of an agent,      *)
(* whatever becomes of the aclweb that started it.                         *)

CountsOK ==
  /\ disp.pc = "rewrite" => disp.plan.count = disp.count
  /\ disp.pc = "swap" => tmp[disp.key].count = disp.count
  /\ disp.pc \in {"hash", "claim", "apply", "settle", "undo", "settled"} =>
       file[disp.key].count = disp.count
  /\ disp.pc \in {"apply", "settle", "undo", "settled"} =>
       row[disp.key].state = "dispatching"
Works(e) == agent[e].job # "none"
WorkerOK(e) ==
  Works(e) =>
    /\ row[agent[e].key].state = "dispatching"
    /\ file[agent[e].key].count = agent[e].expect
    /\ disp.pc # "idle" /\ disp.key = agent[e].key => e = Life
OwnPlan(a) == a.plan = [by |-> row[a.key].by, count |-> a.expect]
DeedOK(a) == row[a.key].state # "none" /\ OwnPlan(a)
WorkOK == /\ CountsOK
          /\ \A e \in Lives : WorkerOK(e)
          /\ \A a \in acted : DeedOK(a)
WorkInv == Together => WorkOK

(* The aclweb of one life has one dispatch, and it is a dispatch of a row. *)
LEMMA WorkFacts ==
  ASSUME Typed, PlanInv, Together
  PROVE  /\ GoodDisp(disp) /\ Tied /\ Life \in Lives
         /\ agent \in [Lives -> AgentType]
         /\ \A e \in Lives : Works(e) => agent[e].key \in Keys
         /\ disp.pc # "idle" => disp.key \in Live /\ disp.key \in Keys /\ disp.count \in Counts
         /\ tmp \in [Keys -> Plans \cup {None}] /\ file \in [Keys -> Plans \cup {None}]
         /\ row \in [Keys -> [state : RowStates, by : Submissions \cup {None}]]
         /\ \A a \in acted : a.key \in Keys
<1>1. GoodDisp(disp) /\ Tied /\ AgentOK /\ TypeOK
  BY DEF Typed
<1>2. disp.pc # "idle" => disp.key \in Live
  BY DEF PlanInv, DispatchOK
<1>3. \A e \in Lives : Works(e) => agent[e].key \in Keys
  BY <1>1 DEF AgentOK, GoodAgent, Works
<1> QED BY <1>1, <1>2, <1>3, Numbers DEF TypeOK, RowStates, GoodDisp, AgentOK

(* An action of a submission happens under the next key.                   *)
LEMMA SubmissionAside ==
  ASSUME Typed, PlanInv, Together, NEW s \in Submissions, SubmissionStep(s)
  PROVE  /\ UNCHANGED <<disp, agent, acted, Life>>
         /\ \A q \in Keys \ {seq + 1} :
              row'[q] = row[q] /\ tmp'[q] = tmp[q] /\ file'[q] = file[q]
<1>1. /\ HolderOK(s) /\ GoodSub(sub[s])
      /\ tmp \in [Keys -> Plans \cup {None}] /\ file \in [Keys -> Plans \cup {None}]
      /\ row \in [Keys -> [state : RowStates, by : Submissions \cup {None}]]
  BY DEF PlanInv, Typed, SubOK, TypeOK, RowStates
<1>2. sub[s].pc \in Numbered => sub[s].key = seq + 1
  BY <1>1 DEF HolderOK
<1>3. UNCHANGED <<disp, agent, acted>>
  BY DEF SubmissionStep, Begin, Insert, WritePlan, RejectPlan, PublishPlan, InsertArtifacts, Audit,
         Commit, Remove, Leave, RollBack, execVars, agentVars
<1>4. UNCHANGED Life
  <2>1. UNCHANGED spent \/ Spend("fault") \/ Spend("commit")
    BY DEF SubmissionStep, Begin, Insert, WritePlan, RejectPlan, PublishPlan, InsertArtifacts,
           Audit, Commit, Remove, Leave, RollBack
  <2> QED BY <2>1, Bounds DEF Spend, Life, Typed, TypeOK
<1>5. ASSUME NEW q \in Keys \ {seq + 1}
      PROVE  row'[q] = row[q] /\ tmp'[q] = tmp[q] /\ file'[q] = file[q]
  <2>1. CASE WritePlan(s)
    BY <1>1, <1>2, <2>1 DEF WritePlan, WriteTmp, At, Numbered, dbVars, fileVars
  <2>2. CASE PublishPlan(s)
    BY <1>1, <1>2, <2>2 DEF PublishPlan, Rename, At, Numbered, dbVars, fileVars
  <2>3. CASE Commit(s)
    BY <1>1, <1>2, <2>3 DEF Commit, At, Numbered, fileVars
  <2>4. CASE Remove(s)
    BY <1>1, <1>2, <2>4 DEF Remove, At, Numbered, dbVars
  <2> QED BY <2>1, <2>2, <2>3, <2>4
    DEF SubmissionStep, Begin, Insert, RejectPlan, InsertArtifacts, Audit, Leave, RollBack,
        dbVars, fileVars
<1> QED BY <1>3, <1>4, <1>5

(* Nothing at work looks at the next key.                                  *)
LEMMA WorkAside ==
  ASSUME Typed, PlanInv, Together, WorkOK, UNCHANGED <<disp, agent, acted, Life>>,
         \A q \in Keys \ {seq + 1} :
           row'[q] = row[q] /\ tmp'[q] = tmp[q] /\ file'[q] = file[q]
  PROVE  WorkOK'
<1>1. CountsOK'
  <2>1. disp.pc # "idle" => disp.key \in Keys \ {seq + 1}
    BY NextKeyFree, WorkFacts
  <2>2. CountsOK
    BY DEF WorkOK
  <2> QED BY <2>1, <2>2 DEF CountsOK
<1>2. ASSUME NEW e \in Lives PROVE WorkerOK(e)'
  <2>1. WorkerOK(e)
    BY DEF WorkOK
  <2>2. Works(e) => agent[e].key \in Keys \ {seq + 1}
    <3>1. Works(e) => agent[e].key \in Live
      BY <2>1, WorkFacts DEF WorkerOK, Live
    <3> QED BY <3>1, NextKeyFree, WorkFacts
  <2> QED BY <2>1, <2>2 DEF WorkerOK, Works
<1>3. ASSUME NEW a \in acted PROVE DeedOK(a)'
  <2>1. DeedOK(a) /\ a.key \in Keys
    BY WorkFacts DEF WorkOK
  <2>2. RowOK(a.key)
    BY <2>1 DEF PlanInv
  <2>3. a.key # seq + 1
    <3>1. a.key <= seq /\ seq \in Nat
      BY <2>1, <2>2, NextKeyFree DEF DeedOK, RowOK
    <3> QED BY <3>1
  <2> QED BY <2>1, <2>3 DEF DeedOK, OwnPlan
<1> QED BY <1>1, <1>2, <1>3 DEF WorkOK

(* A row that changes its state keeps its submitter, and what was carried  *)
(* out for it stays its own.                                               *)
LEMMA DeedsStay ==
  ASSUME Typed, PlanInv, Together, WorkOK, UNCHANGED acted,
         NEW k \in Keys, NEW state \in RowStates \ {"none"},
         row' = [row EXCEPT ![k].state = state]
  PROVE  /\ \A a \in acted' : DeedOK(a)'
         /\ row'[k].state = state
         /\ \A q \in Keys \ {k} : row'[q] = row[q]
<1>1. /\ row'[k].state = state
      /\ \A q \in Keys \ {k} : row'[q] = row[q]
      /\ \A q \in Keys : row'[q].by = row[q].by
  BY WorkFacts
<1>2. ASSUME NEW a \in acted PROVE DeedOK(a)'
  <2>1. DeedOK(a) /\ a.key \in Keys
    BY WorkFacts DEF WorkOK
  <2>2. row'[a.key].by = row[a.key].by /\ row'[a.key].state # "none"
    BY <1>1, <2>1 DEF DeedOK
  <2> QED BY <2>1, <2>2 DEF DeedOK, OwnPlan
<1> QED BY <1>1, <1>2

(* The steps of a dispatch, none of which is under the key of an agent     *)
(* before its claim, or after its agent has ended.                         *)
LEMMA DispatchWorks ==
  ASSUME Typed, PlanInv, Together, WorkOK, DispatchStep \/ \E k \in Keys : BeginDispatch(k)
  PROVE  WorkOK'
<1> DEFINE k == disp.key
<1>1. /\ disp \in DispType /\ GoodDisp(disp) /\ Tied /\ Life \in Lives
      /\ agent \in [Lives -> AgentType]
      /\ \A e \in Lives : Works(e) => agent[e].key \in Keys
      /\ disp.pc # "idle" => k \in Live /\ k \in Keys /\ disp.count \in Counts
      /\ tmp \in [Keys -> Plans \cup {None}] /\ file \in [Keys -> Plans \cup {None}]
      /\ row \in [Keys -> [state : RowStates, by : Submissions \cup {None}]]
  BY WorkFacts DEF GoodDisp
<1>2. CountsOK /\ (\A e \in Lives : WorkerOK(e)) /\ \A a \in acted : DeedOK(a)
  BY DEF WorkOK
<1>3. UNCHANGED acted /\ UNCHANGED Life
  <2>1. UNCHANGED acted /\ (UNCHANGED spent \/ Spend("fault"))
    BY DEF DispatchStep, BeginDispatch, ReadPlan, RewritePlan, SwapPlan, HashPlan, Claim,
           StartRollback, Settle, agentVars
  <2> QED BY <2>1, Bounds DEF Spend, Life, Typed, TypeOK
<1>4. ASSUME UNCHANGED row PROVE \A a \in acted' : DeedOK(a)'
  BY <1>2, <1>3, <1>4 DEF DeedOK, OwnPlan
<1>5. ASSUME NEW pc \in DispPCs, Now(pc)
      PROVE  disp'.pc = pc /\ disp'.key = k /\ disp'.count = disp.count /\ disp'.plan = disp.plan
  BY <1>1, <1>5 DEF Now, DispType
<1>6. ASSUME GiveUp PROVE CountsOK' /\ disp'.pc = "idle"
  BY <1>6 DEF GiveUp, NoDispatch, CountsOK
<1>7. ASSUME UNCHANGED <<row, file, agent>>, disp'.pc = "idle" \/ disp'.key = k, disp.pc # "idle"
      PROVE  \A e \in Lives : WorkerOK(e)'
  BY <1>2, <1>3, <1>7 DEF WorkerOK, Works
<1>8. disp.pc \in {"read", "rewrite", "swap", "hash", "claim"} =>
        \A e \in Lives : Works(e) => agent[e].key # k
  <2> SUFFICES ASSUME disp.pc \in {"read", "rewrite", "swap", "hash", "claim"},
                      NEW e \in Lives, Works(e), agent[e].key = k
               PROVE  FALSE
    OBVIOUS
  <2>1. e = Life
    BY <1>2 DEF WorkerOK
  <2> QED BY <1>1, <2>1 DEF Tied, Works, AgentType, Jobs
<1>9. disp.pc \in {"settle", "settled"} => \A e \in Lives : Works(e) => agent[e].key # k
  <2> SUFFICES ASSUME disp.pc \in {"settle", "settled"},
                      NEW e \in Lives, Works(e), agent[e].key = k
               PROVE  FALSE
    OBVIOUS
  <2>1. e = Life
    BY <1>2 DEF WorkerOK
  <2> QED BY <1>1, <2>1 DEF Tied, Works, AgentType, Jobs
<1>10. ASSUME NEW q \in Keys, BeginDispatch(q) PROVE WorkOK'
  <2>1. UNCHANGED <<row, tmp, file, agent>> /\ row[q].state = "open"
    BY <1>10 DEF BeginDispatch, dbVars, fileVars, agentVars
  <2>2. disp'.pc = "read" /\ disp'.key = q
    BY <1>10 DEF BeginDispatch, NoDispatch
  <2>3. CountsOK'
    BY <2>2 DEF CountsOK
  <2>4. ASSUME NEW e \in Lives PROVE WorkerOK(e)'
    BY <1>2, <2>1, <2>2 DEF WorkerOK, Works
  <2> QED BY <1>4, <2>1, <2>3, <2>4 DEF WorkOK
<1>11. ASSUME ReadPlan PROVE WorkOK'
  <2>1. UNCHANGED <<row, tmp, file, agent>> /\ disp.pc = "read"
    BY <1>11 DEF ReadPlan, Dispatching, dbVars, fileVars, agentVars
  <2>2. ASSUME file[k] # None, disp' = [disp EXCEPT !.pc = "rewrite", !.plan = Recounted(file[k])]
        PROVE  CountsOK' /\ disp'.key = k
    <3>1. /\ disp'.pc = "rewrite" /\ disp'.key = k /\ disp'.count = disp.count
          /\ disp'.plan = [file[k] EXCEPT !.count = disp.count]
      BY <1>1, <2>2 DEF DispType, Recounted
    <3>2. file[k] \in Plans
      BY <1>1, <2>1, <2>2
    <3>3. disp'.plan.count = disp.count
      BY <3>1, <3>2 DEF Plans
    <3> QED BY <3>1, <3>3 DEF CountsOK
  <2>3. CountsOK' /\ (disp'.pc = "idle" \/ disp'.key = k)
    BY <1>6, <1>11, <2>2 DEF ReadPlan
  <2> QED BY <1>4, <1>7, <2>1, <2>3 DEF WorkOK
<1>12. ASSUME RewritePlan PROVE WorkOK'
  <2>1. UNCHANGED <<row, file, agent>> /\ disp.pc = "rewrite" /\ disp.plan.count = disp.count
    BY <1>2, <1>12 DEF RewritePlan, WriteTmp, Dispatching, dbVars, fileVars, agentVars, CountsOK
  <2>2. ASSUME Now("swap"), tmp' = [tmp EXCEPT ![k] = disp.plan] PROVE CountsOK' /\ disp'.key = k
    <3>1. disp'.pc = "swap" /\ disp'.key = k /\ disp'.count = disp.count
      BY <1>5, <2>2 DEF DispPCs
    <3>2. tmp'[k] = disp.plan
      BY <1>1, <2>1, <2>2
    <3> QED BY <2>1, <3>1, <3>2 DEF CountsOK
  <2>3. CountsOK' /\ (disp'.pc = "idle" \/ disp'.key = k)
    BY <1>6, <1>12, <2>2 DEF RewritePlan, WriteTmp
  <2> QED BY <1>4, <1>7, <2>1, <2>3 DEF WorkOK
<1>13. ASSUME SwapPlan PROVE WorkOK'
  <2>1. UNCHANGED <<row, agent>> /\ disp.pc = "swap" /\ tmp[k].count = disp.count
    BY <1>2, <1>13 DEF SwapPlan, Dispatching, dbVars, agentVars, CountsOK
  <2>2. CASE GiveUp /\ UNCHANGED <<tmp, file>>
    BY <1>4, <1>6, <1>7, <2>1, <2>2 DEF WorkOK
  <2>3. CASE Now("hash") /\ file' = [file EXCEPT ![k] = tmp[k]]
    <3>1. disp'.pc = "hash" /\ disp'.key = k /\ disp'.count = disp.count
      BY <1>5, <2>3 DEF DispPCs
    <3>2. file'[k] = tmp[k] /\ \A q \in Keys \ {k} : file'[q] = file[q]
      BY <1>1, <2>1, <2>3
    <3>3. CountsOK'
      BY <2>1, <3>1, <3>2 DEF CountsOK
    <3>4. ASSUME NEW e \in Lives PROVE WorkerOK(e)'
      <4>1. Works(e) => agent[e].key \in Keys \ {k}
        BY <1>1, <1>8, <2>1
      <4> QED BY <1>2, <2>1, <3>1, <3>2, <4>1 DEF WorkerOK, Works
    <3> QED BY <1>4, <2>1, <3>3, <3>4 DEF WorkOK
  <2> QED BY <1>13, <2>2, <2>3 DEF SwapPlan, Rename, fileVars
<1>14. ASSUME HashPlan PROVE WorkOK'
  <2>1. UNCHANGED <<row, tmp, file, agent>> /\ disp.pc = "hash"
    BY <1>14 DEF HashPlan, Dispatching, dbVars, fileVars, agentVars
  <2>2. ASSUME disp' = [disp EXCEPT !.pc = "claim", !.plan = PlanHash(file[k])]
        PROVE  CountsOK' /\ disp'.key = k
    <3>1. disp'.pc = "claim" /\ disp'.key = k /\ disp'.count = disp.count
      BY <1>1, <2>2 DEF DispType
    <3> QED BY <1>2, <2>1, <3>1 DEF CountsOK
  <2>3. CountsOK' /\ (disp'.pc = "idle" \/ disp'.key = k)
    BY <1>6, <1>14, <2>2 DEF HashPlan
  <2> QED BY <1>4, <1>7, <2>1, <2>3 DEF WorkOK
<1>15. ASSUME NEW r, r.job # "none", r.key = k, r.expect = disp.count,
              agent' = [agent EXCEPT ![Life] = r], UNCHANGED file,
              disp.pc \in {"claim", "settle"}, disp'.key = k,
              row'[k].state = "dispatching", \A q \in Keys \ {k} : row'[q] = row[q]
       PROVE  \A e \in Lives : WorkerOK(e)'
  <2>1. agent'[Life] = r /\ \A e \in Lives \ {Life} : agent'[e] = agent[e]
    BY <1>1, <1>15
  <2>2. file[k].count = disp.count
    BY <1>2, <1>15 DEF CountsOK
  <2>3. WorkerOK(Life)'
    <3>1. agent'[Life'] = r /\ Life' = Life
      BY <1>3, <2>1
    <3>2. agent'[Life].key = k /\ agent'[Life].expect = disp.count
      BY <1>15, <2>1
    <3> QED BY <1>15, <2>2, <3>1, <3>2 DEF WorkerOK
  <2>4. ASSUME NEW e \in Lives \ {Life} PROVE WorkerOK(e)'
    <3>1. Works(e) => agent[e].key \in Keys \ {k}
      BY <1>1, <1>8, <1>9, <1>15
    <3>2. WorkerOK(e) /\ agent'[e] = agent[e]
      BY <1>2, <2>1
    <3> QED BY <1>15, <3>1, <3>2 DEF WorkerOK, Works
  <2> QED BY <1>3, <2>3, <2>4
<1>16. ASSUME Claim PROVE WorkOK'
  <2>1. /\ row' = [row EXCEPT ![k].state = "dispatching"] /\ disp.pc = "claim" /\ Now("apply")
        /\ UNCHANGED <<tmp, file>>
    BY <1>16 DEF Claim, Dispatching, fileVars
  <2> DEFINE r == [NoAgent EXCEPT !.job = "count", !.key = k, !.sha = disp.plan,
                                  !.expect = disp.count]
  <2>2. agent' = [agent EXCEPT ![Life] = r]
    BY <1>16 DEF Claim
  <2>3. r.job # "none" /\ r.key = k /\ r.expect = disp.count
    BY DEF NoAgent
  <2>4. disp'.pc = "apply" /\ disp'.key = k /\ disp'.count = disp.count
    BY <1>5, <2>1 DEF DispPCs
  <2> HIDE DEF r
  <2>5. "dispatching" \in RowStates \ {"none"} /\ k \in Keys
    BY <1>1, <2>1 DEF RowStates
  <2>6. /\ row'[k].state = "dispatching" /\ \A q \in Keys \ {k} : row'[q] = row[q]
        /\ \A a \in acted' : DeedOK(a)'
    BY <1>3, <2>1, <2>5, DeedsStay
  <2>7. CountsOK'
    BY <1>2, <2>1, <2>4, <2>6 DEF CountsOK
  <2>8. \A e \in Lives : WorkerOK(e)'
    BY <1>15, <2>1, <2>2, <2>3, <2>4, <2>6
  <2> QED BY <2>6, <2>7, <2>8 DEF WorkOK
<1>17. ASSUME StartRollback PROVE WorkOK'
  <2>1. UNCHANGED <<row, tmp, file>> /\ disp.pc = "settle" /\ Now("undo")
    BY <1>17 DEF StartRollback, Dispatching, dbVars, fileVars
  <2> DEFINE r == [NoAgent EXCEPT !.job = "rollback", !.key = k, !.expect = disp.count]
  <2>2. agent' = [agent EXCEPT ![Life] = r]
    BY <1>17 DEF StartRollback
  <2>3. r.job # "none" /\ r.key = k /\ r.expect = disp.count
    BY DEF NoAgent
  <2>4. disp'.pc = "undo" /\ disp'.key = k /\ disp'.count = disp.count
    BY <1>5, <2>1 DEF DispPCs
  <2> HIDE DEF r
  <2>5. row[k].state = "dispatching"
    BY <1>2, <2>1 DEF CountsOK
  <2>6. CountsOK'
    BY <1>2, <2>1, <2>4 DEF CountsOK
  <2>7. \A e \in Lives : WorkerOK(e)'
    BY <1>15, <2>1, <2>2, <2>3, <2>4, <2>5
  <2> QED BY <1>4, <2>1, <2>6, <2>7 DEF WorkOK
<1>18. ASSUME Settle PROVE WorkOK'
  <2>1. /\ row' = [row EXCEPT ![k].state = "closed"] /\ disp.pc \in {"settle", "settled"}
        /\ GiveUp /\ UNCHANGED <<tmp, file, agent>>
    BY <1>18 DEF Settle, Dispatching, fileVars, agentVars
  <2>2. "closed" \in RowStates \ {"none"} /\ k \in Keys
    BY <1>1, <2>1 DEF RowStates
  <2>3. /\ \A q \in Keys \ {k} : row'[q] = row[q]
        /\ \A a \in acted' : DeedOK(a)'
    BY <1>3, <2>1, <2>2, DeedsStay
  <2>4. CountsOK' /\ disp'.pc = "idle"
    BY <1>6, <2>1
  <2>5. ASSUME NEW e \in Lives PROVE WorkerOK(e)'
    <3>1. Works(e) => agent[e].key \in Keys \ {k}
      BY <1>1, <1>9, <2>1
    <3> QED BY <1>2, <2>1, <2>3, <2>4, <3>1 DEF WorkerOK, Works
  <2> QED BY <2>3, <2>4, <2>5 DEF WorkOK
<1> QED
  BY <1>10, <1>11, <1>12, <1>13, <1>14, <1>16, <1>17, <1>18 DEF DispatchStep

(* An agent that executes a plan finds its own one, and one that ends      *)
(* leaves its dispatch where the file and the row still are.               *)
LEMMA AgentWorks ==
  ASSUME Typed, PlanInv, Together, WorkOK, [Next]_vars, UNCHANGED <<row, tmp, file, Life>>,
         UNCHANGED disp \/ (disp.pc \in {"apply", "undo"} /\ \E pc \in {"settle", "settled"} : Now(pc)),
         \A e \in Lives : Works(e)' =>
           Works(e) /\ agent'[e].key = agent[e].key /\ agent'[e].expect = agent[e].expect
  PROVE  WorkOK'
<1>1. CountsOK /\ (\A e \in Lives : WorkerOK(e)) /\ \A a \in acted : DeedOK(a)
  BY DEF WorkOK
<1>2. /\ disp \in DispType /\ row \in [Keys -> [state : RowStates, by : Submissions \cup {None}]]
      /\ file \in [Keys -> Plans \cup {None}]
  BY WorkFacts DEF GoodDisp
<1>3. \/ UNCHANGED disp
      \/ /\ disp.pc \in {"apply", "undo"} /\ disp'.pc \in {"settle", "settled"}
         /\ disp'.key = disp.key /\ disp'.count = disp.count
  BY <1>2 DEF Now, DispType
<1>4. CountsOK'
  BY <1>1, <1>3 DEF CountsOK
<1>5. ASSUME NEW e \in Lives PROVE WorkerOK(e)'
  <2>1. disp'.pc # "idle" => disp.pc # "idle" /\ disp'.key = disp.key
    BY <1>3
  <2> QED BY <1>1, <2>1 DEF WorkerOK, Works
<1>6. ASSUME NEW a \in acted' PROVE DeedOK(a)'
  <2>1. CASE a \in acted
    BY <1>1, <2>1 DEF DeedOK, OwnPlan
  <2>2. CASE a \notin acted
    <3>1. PICK e \in Lives :
            /\ agent[e].job # "none" /\ agent[e].key \in Keys
            /\ file[agent[e].key] # None
            /\ a = [key |-> agent[e].key, plan |-> file[agent[e].key],
                    expect |-> agent[e].expect]
      BY <2>2, ActedStays
    <3> DEFINE q == agent[e].key
               plan == file[q]
    <3>2. /\ row[q].state = "dispatching" /\ plan.count = agent[e].expect
          /\ q \in Keys /\ plan \in Plans
      BY <1>1, <1>2, <3>1 DEF WorkerOK, Works
    <3>3. plan.by = row[q].by
      <4>1. q \in Live /\ RowOK(q)
        BY <3>2 DEF Live, PlanInv
      <4> QED BY <4>1 DEF RowOK, Wrote
    <3>4. plan = [by |-> row[q].by, count |-> agent[e].expect]
      <4>1. plan = [by |-> plan.by, count |-> plan.count]
        BY <3>2 DEF Plans
      <4> QED BY <3>2, <3>3, <4>1
    <3>5. a.key = q /\ a.plan = plan /\ a.expect = agent[e].expect
      BY <3>1
    <3> HIDE DEF q, plan
    <3> QED BY <3>2, <3>4, <3>5 DEF DeedOK, OwnPlan
  <2> QED BY <2>1, <2>2
<1> QED BY <1>4, <1>5, <1>6 DEF WorkOK

(* Every step keeps the work of agents to their own plans.                 *)
LEMMA NextWork == Typed /\ PlanInv /\ WorkInv /\ [Next]_vars => WorkInv'
<1> SUFFICES ASSUME Typed, PlanInv, WorkInv, [Next]_vars, Together'
             PROVE  WorkOK'
  BY DEF WorkInv
<1>1. Together /\ WorkOK /\ \A s \in Submissions : ~ Cancel(s)
  BY StillTogether DEF WorkInv
<1>2. /\ disp \in DispType /\ Tied /\ Life \in Lives
      /\ agent \in [Lives -> AgentType] /\ spent \in [DOMAIN Limit -> Nat]
  BY <1>1, WorkFacts DEF GoodDisp, Typed, TypeOK
<1>3. ASSUME NEW s \in Submissions, SubmissionStep(s) PROVE WorkOK'
  BY <1>1, <1>3, SubmissionAside, WorkAside
<1>4. ASSUME DispatchStep \/ \E k \in Keys : BeginDispatch(k) PROVE WorkOK'
  BY <1>1, <1>4, DispatchWorks
<1>5. ASSUME UNCHANGED <<row, tmp, file, disp, agent, Life>> PROVE WorkOK'
  BY <1>1, <1>5, AgentWorks DEF Works
<1>6. ASSUME NEW e \in Lives, Works(e), Ends(e), UNCHANGED <<row, tmp, file, Life>> PROVE WorkOK'
  <2>1. agent'[e].job = "none" /\ \A f \in Lives \ {e} : agent'[f] = agent[f]
    BY <1>2, <1>6 DEF Ends, NoAgent
  <2>2. \A f \in Lives : Works(f)' =>
          Works(f) /\ agent'[f].key = agent[f].key /\ agent'[f].expect = agent[f].expect
    BY <2>1 DEF Works
  <2>3. UNCHANGED disp \/ (disp.pc \in {"apply", "undo"} /\ \E pc \in {"settle", "settled"} : Now(pc))
    BY <1>2, <1>6 DEF Ends, Tied, Works, AgentType, Jobs
  <2> QED BY <1>1, <1>6, <2>2, <2>3, AgentWorks
<1>7. ASSUME NEW e \in Lives, AgentStep(e) PROVE WorkOK'
  <2>1. UNCHANGED <<row, tmp, file>> /\ Works(e)
    BY <1>7 DEF AgentStep, ReadQuota, WriteQuota, Apply, Rollback, dbVars, fileVars, Works
  <2>2. UNCHANGED Life
    <3>1. UNCHANGED spent \/ Spend("cut")
      BY <1>7 DEF AgentStep, ReadQuota, WriteQuota, Apply, Rollback
    <3> QED BY <1>2, <3>1, Bounds DEF Spend, Life
  <2>3. CASE ~ Ends(e)
    <3>1. \/ /\ UNCHANGED disp
             /\ agent' = [agent EXCEPT ![e].job = "count up", ![e].day = day,
                                       ![e].count = CountToday]
          \/ UNCHANGED disp /\ agent' = [agent EXCEPT ![e].job = "apply"]
      BY <1>7, <2>3, Zenon DEF AgentStep, ReadQuota, WriteQuota, Apply, Rollback
    <3>2. /\ UNCHANGED disp
          /\ agent'[e].key = agent[e].key /\ agent'[e].expect = agent[e].expect
          /\ \A f \in Lives \ {e} : agent'[f] = agent[f]
      BY <1>2, <3>1 DEF AgentType
    <3>3. \A f \in Lives : Works(f)' =>
            Works(f) /\ agent'[f].key = agent[f].key /\ agent'[f].expect = agent[f].expect
      BY <2>1, <3>2 DEF Works
    <3> QED BY <1>1, <2>1, <2>2, <3>2, <3>3, AgentWorks
  <2> QED BY <1>6, <2>1, <2>2, <2>3
<1>8. ASSUME KillAgent PROVE WorkOK'
  BY <1>2, <1>6, <1>8 DEF KillAgent, dbVars, fileVars, Works, Life
<1>9. ASSUME Midnight \/ UNCHANGED vars PROVE WorkOK'
  BY <1>5, <1>9 DEF Midnight, vars, dbVars, fileVars, Life
<1>10. ASSUME Crash PROVE WorkOK'
  <2>1. UNCHANGED <<row, tmp, file, agent, acted>> /\ disp'.pc = "idle"
    BY <1>10 DEF Crash, fileVars, agentVars, NoDispatch
  <2> QED BY <1>1, <2>1 DEF WorkOK, CountsOK, WorkerOK, Works, DeedOK, OwnPlan
<1> QED BY <1>1, <1>3, <1>4, <1>7, <1>8, <1>9, <1>10 DEF Next

(* What agents carry out and roll back is the plan written with their own  *)
(* request, with the rule count their dispatch saw, across reused keys,    *)
(* aborted rewrites and agents that outlive their aclweb, while every      *)
(* client waits for its answer and every COMMIT succeeds.                  *)
THEOREM OwnPlanExecuted == Spec => []ExecutesOwnPlan
<1>1. Init => WorkInv
  BY DEF Init, WorkInv, WorkOK, CountsOK, NoDispatch, NoAgent, WorkerOK, Works
<1>2. WorkInv => ExecutesOwnPlan
  BY DEF WorkInv, WorkOK, DeedOK, OwnPlan, Together, ExecutesOwnPlan
<1> QED BY <1>1, <1>2, InitPlan, InitType, NextType, NextPlan, NextWork, PTL DEF Spec
=============================================================================
