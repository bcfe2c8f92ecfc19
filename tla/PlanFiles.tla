------------------------------ MODULE PlanFiles ------------------------------
(***************************************************************************)
(* The plan files: how one comes into being beside its row, is rewritten   *)
(* before an execution, and is read by aclagent, which first counts the    *)
(* execution in a file of its own.                                         *)
(*                                                                         *)
(* A plan file is named after its row's primary key.  The row lives in a   *)
(* transaction until it is committed, the file does not; the transaction   *)
(* ends by itself when the client that submitted goes away.  An agent is   *)
(* a process: when aclweb dies, the one at work goes on, beside those of   *)
(* the next aclweb.                                                        *)
(***************************************************************************)
EXTENDS Naturals

CONSTANTS
  Submissions,   \* handlers running Submit or SubmitDelete
  MaxKey,        \* bound on the primary keys
  Counts,        \* rule counts a plan may carry
  None,          \* no value
  Privileged,    \* aclweb may open its own read-only files for writing
  DailyLimit,    \* applies aclagent lets through on one day
  MaxCancels, MaxFaults, MaxCommitFaults, MaxCuts, MaxDays, MaxCrashes

VARIABLES
  sub,     \* submissions
  tx,      \* holder of the only database connection, or None
  seq,     \* sqlite_sequence: the last key committed
  row,     \* committed rows
  tmp,     \* PlanDir/<code>.json.tmp
  file,    \* PlanDir/<code>.json
  disp,    \* the dispatch under dispatchMu
  agent,   \* the aclagent of each life of aclweb
  day,     \* the date
  quota,   \* StateFile: a day and how many applies it has seen
  passed,  \* history: applies let through, by day
  acted,   \* history: plans agents acted on
  spent    \* how many disturbances of each kind have occurred

dbVars    == <<tx, seq, row>>
fileVars  == <<tmp, file>>
quotaVars == <<quota, passed>>
agentVars == <<agent, acted, day, quotaVars>>
execVars  == <<disp, agentVars>>
vars == <<sub, tx, seq, row, tmp, file, disp, agent, day, quota, passed, acted, spent>>

-----------------------------------------------------------------------------
Keys == 1..MaxKey
Plans == [by: Submissions, count: Counts]
NoRow == [state |-> "none", by |-> None]
NoDispatch == [pc |-> "idle", key |-> None, count |-> None, plan |-> None]
NoAgent == [job |-> "none", key |-> None, sha |-> None, expect |-> None, day |-> 0, count |-> 0]
NoQuota == [day |-> 0, count |-> 0]
Lives == 0..MaxCrashes
Days == 0..MaxDays

ASSUME FilesAssumption ==
  /\ None \notin Submissions \cup Keys \cup Counts \cup Plans
  /\ MaxKey \in Nat \ {0}
  /\ Privileged \in BOOLEAN
  /\ DailyLimit \in Nat \ {0}
  /\ {MaxCancels, MaxFaults, MaxCommitFaults, MaxCuts, MaxDays, MaxCrashes} \subseteq Nat

Limit == [cancel |-> MaxCancels, fault |-> MaxFaults, commit |-> MaxCommitFaults,
          cut |-> MaxCuts, crash |-> MaxCrashes]
Life == spent.crash   \* of aclweb: how often it has been restarted
Spend(kind) == /\ spent[kind] < Limit[kind]
               /\ spent' = [spent EXCEPT ![kind] = @ + 1]

Init ==
  /\ sub = [s \in Submissions |-> [pc |-> "idle", key |-> None, count |-> None,
                                   cancelled |-> FALSE]]
  /\ tx = None
  /\ seq = 0
  /\ row = [k \in Keys |-> NoRow]
  /\ tmp = [k \in Keys |-> None]
  /\ file = [k \in Keys |-> None]
  /\ disp = NoDispatch
  /\ agent = [e \in Lives |-> NoAgent]
  /\ day = 0
  /\ quota = NoQuota
  /\ passed = [d \in Days |-> 0]
  /\ acted = {}
  /\ spent = [kind \in DOMAIN Limit |-> 0]

-----------------------------------------------------------------------------
(* Files.  os.WriteFile creates the file with mode 0440, so that only a    *)
(* privileged process can open one that is already there; os.Rename only   *)
(* needs the directory.                                                    *)

Writable(k) == tmp[k] = None \/ Privileged
WriteTmp(k, plan) == tmp' = [tmp EXCEPT ![k] = plan] /\ UNCHANGED file
Rename(k) == /\ file' = [file EXCEPT ![k] = tmp[k]]
             /\ tmp' = [tmp EXCEPT ![k] = None]

-----------------------------------------------------------------------------
(* Submit and SubmitDelete, from BeginTx on.                               *)

At(s, pc) == sub[s].pc = pc
Goto(s, pc) == sub' = [sub EXCEPT ![s].pc = pc]
Open(s) == tx = s /\ ~ sub[s].cancelled

(* The pool holds one connection.  Whoever wants it waits for it.          *)
ConnectionFor_Anyone(s) == tx = None
ConnectionFor(s) == tx = s

Begin(s) ==
  /\ At(s, "idle")
  /\ IF sub[s].cancelled
     THEN Goto(s, "gone") /\ UNCHANGED tx
     ELSE tx = None /\ tx' = s /\ Goto(s, "insert")
  /\ UNCHANGED <<seq, row, fileVars, execVars, spent>>

(* INSERT, and the UPDATE that derives the code from the key.  The key is  *)
(* taken from sqlite_sequence, whose new value is part of the transaction. *)
Insert(s) ==
  /\ At(s, "insert")
  /\ IF Open(s) /\ seq + 1 \in Keys
     THEN \E c \in Counts :
            sub' = [sub EXCEPT ![s].pc = "write", ![s].key = seq + 1, ![s].count = c]
     ELSE Goto(s, "leave")
  /\ UNCHANGED <<dbVars, fileVars, execVars, spent>>

AfterFailedWrite_Ignored(s) == Goto(s, "rename")
AfterFailedWrite(s) == Goto(s, "leave")

(* The plan is validated and marshalled, and written to <code>.json.tmp.   *)
(* An error leaves what was written.                                       *)
WritePlan(s) ==
  LET k == sub[s].key IN
  /\ At(s, "write")
  /\ \/ /\ Writable(k)
        /\ WriteTmp(k, [by |-> s, count |-> sub[s].count])
        /\ \/ Goto(s, "rename") /\ UNCHANGED spent
           \/ AfterFailedWrite(s) /\ Spend("fault")
     \/ /\ ~ Writable(k)
        /\ AfterFailedWrite(s)
        /\ UNCHANGED <<fileVars, spent>>
  /\ UNCHANGED <<dbVars, execVars>>

(* ValidateForAgent or json.Marshal returns an error.                      *)
RejectPlan(s) ==
  /\ At(s, "write")
  /\ Spend("fault")
  /\ Goto(s, "leave")
  /\ UNCHANGED <<dbVars, fileVars, execVars>>

PublishPlan(s) ==
  /\ At(s, "rename")
  /\ IF tmp[sub[s].key] = None
     THEN Goto(s, "leave") /\ UNCHANGED fileVars
     ELSE Goto(s, "artifact") /\ Rename(sub[s].key)
  /\ UNCHANGED <<dbVars, execVars, spent>>

InsertArtifacts(s) ==
  /\ At(s, "artifact")
  /\ \/ Open(s) /\ Goto(s, "audit") /\ UNCHANGED spent
     \/ ~ Open(s) /\ Goto(s, "remove") /\ UNCHANGED spent
     \/ Open(s) /\ Goto(s, "remove") /\ Spend("fault")
  /\ UNCHANGED <<dbVars, fileVars, execVars>>

(* audit(tx, ...) uses the transaction's connection and ignores its error. *)
Audit(s) ==
  /\ At(s, "audit")
  /\ ConnectionFor(s) \/ ~ Open(s)
  /\ Goto(s, "commit")
  /\ UNCHANGED <<dbVars, fileVars, execVars, spent>>

(* Whatever comes of it, Commit gives the connection back.                 *)
Commit(s) ==
  /\ At(s, "commit")
  /\ \/ /\ Open(s)
        /\ row' = [row EXCEPT ![sub[s].key] = [state |-> "open", by |-> s]]
        /\ seq' = sub[s].key
        /\ tx' = None
        /\ Goto(s, "gone")
        /\ UNCHANGED spent
     \/ /\ IF Open(s) THEN Spend("commit") ELSE UNCHANGED spent
        /\ tx' = IF tx = s THEN None ELSE tx
        /\ Goto(s, "remove")
        /\ UNCHANGED <<seq, row>>
  /\ UNCHANGED <<fileVars, execVars>>

(* removePlanFile, then the deferred rollback.                             *)
Remove(s) ==
  /\ At(s, "remove")
  /\ file' = [file EXCEPT ![sub[s].key] = None]
  /\ Goto(s, "leave")
  /\ UNCHANGED <<dbVars, tmp, execVars, spent>>

(* The deferred tx.Rollback().                                             *)
Leave(s) ==
  /\ At(s, "leave")
  /\ tx' = IF tx = s THEN None ELSE tx
  /\ Goto(s, "gone")
  /\ UNCHANGED <<seq, row, fileVars, execVars, spent>>

(* The client goes away: statements of this submission fail from now on,   *)
(* and database/sql rolls its transaction back, when it gets to it.        *)
Cancel(s) ==
  /\ ~ At(s, "gone")
  /\ ~ sub[s].cancelled
  /\ Spend("cancel")
  /\ sub' = [sub EXCEPT ![s].cancelled = TRUE]
  /\ UNCHANGED <<dbVars, fileVars, execVars>>

RollBack(s) ==
  /\ sub[s].cancelled
  /\ tx = s
  /\ tx' = None
  /\ UNCHANGED <<sub, seq, row, fileVars, execVars, spent>>

-----------------------------------------------------------------------------
(* DispatchStream, as far as it touches the plan: one at a time, from the  *)
(* rule count of the pre-dispatch snapshot to the settled row.             *)

Dispatching(pc) == disp.pc = pc
Now(pc) == disp' = [disp EXCEPT !.pc = pc]
GiveUp == disp' = NoDispatch

BeginDispatch(k) ==
  /\ Dispatching("idle")
  /\ tx = None
  /\ row[k].state = "open"
  /\ \E c \in Counts :
       disp' = [NoDispatch EXCEPT !.pc = "read", !.key = k, !.count = c]
  /\ UNCHANGED <<sub, dbVars, fileVars, agentVars, spent>>

(* updatePlanExpectCount: read, write aside, rename.                       *)
Recounted_Not(plan) == plan
Recounted(plan) == [plan EXCEPT !.count = disp.count]

ReadPlan ==
  /\ Dispatching("read")
  /\ IF file[disp.key] = None THEN GiveUp
     ELSE disp' = [disp EXCEPT !.pc = "rewrite", !.plan = Recounted(file[disp.key])]
  /\ UNCHANGED <<sub, dbVars, fileVars, agentVars, spent>>

RewritePlan ==
  /\ Dispatching("rewrite")
  /\ \/ /\ Writable(disp.key)
        /\ WriteTmp(disp.key, disp.plan)
        /\ \/ Now("swap") /\ UNCHANGED spent
           \/ GiveUp /\ Spend("fault")
     \/ /\ ~ Writable(disp.key)
        /\ GiveUp
        /\ UNCHANGED <<fileVars, spent>>
  /\ UNCHANGED <<sub, dbVars, agentVars>>

SwapPlan ==
  /\ Dispatching("swap")
  /\ IF tmp[disp.key] = None THEN GiveUp /\ UNCHANGED fileVars
     ELSE Now("hash") /\ Rename(disp.key)
  /\ UNCHANGED <<sub, dbVars, agentVars, spent>>

(* planFileSHA: the hash stands for the whole file.                        *)
PlanHash_Partial(plan) == [count |-> plan.count]
PlanHash(plan) == plan

HashPlan ==
  /\ Dispatching("hash")
  /\ IF file[disp.key] = None THEN GiveUp
     ELSE disp' = [disp EXCEPT !.pc = "claim", !.plan = PlanHash(file[disp.key])]
  /\ UNCHANGED <<sub, dbVars, fileVars, agentVars, spent>>

(* `expect` is history: the rule count of the pre-dispatch snapshot.       *)
Claim ==
  /\ Dispatching("claim")
  /\ tx = None
  /\ row' = [row EXCEPT ![disp.key].state = "dispatching"]
  /\ agent' = [agent EXCEPT ![Life] = [NoAgent EXCEPT !.job = "count", !.key = disp.key,
                                            !.sha = disp.plan, !.expect = disp.count]]
  /\ Now("apply")
  /\ UNCHANGED <<sub, tx, seq, fileVars, acted, day, quotaVars, spent>>

(* A failed add is rolled back: aclagent rollback, which counts nothing.   *)
StartRollback ==
  /\ Dispatching("settle")
  /\ agent' = [agent EXCEPT ![Life] = [NoAgent EXCEPT !.job = "rollback", !.key = disp.key,
                                                      !.expect = disp.count]]
  /\ Now("undo")
  /\ UNCHANGED <<sub, dbVars, fileVars, acted, day, quotaVars, spent>>

Settle ==
  /\ Dispatching("settle") \/ Dispatching("settled")
  /\ tx = None
  /\ row' = [row EXCEPT ![disp.key].state = "closed"]
  /\ GiveUp
  /\ UNCHANGED <<sub, tx, seq, fileVars, agentVars, spent>>

-----------------------------------------------------------------------------
(* aclagent: apply counts itself in StateFile, then reads its plan;        *)
(* rollback only reads it.  The dispatch goes on when its agent ends.      *)

Ends(e) ==
  /\ agent' = [agent EXCEPT ![e] = NoAgent]
  /\ IF e # Life THEN UNCHANGED disp
     ELSE Now(IF agent[e].job = "rollback" THEN "settled" ELSE "settle")

(* A file that is missing, damaged or of another day counts for nothing.   *)
CountToday == IF quota.day = day THEN quota.count ELSE 0

UnderLimit_OneMore(count) == count <= DailyLimit
UnderLimit(count) == count < DailyLimit

ReadQuota(e) ==
  /\ agent[e].job = "count"
  /\ \/ /\ UnderLimit(CountToday)
        /\ agent' = [agent EXCEPT ![e].job = "count up", ![e].day = day,
                                  ![e].count = CountToday]
        /\ UNCHANGED disp
     \/ ~ UnderLimit(CountToday) /\ Ends(e)
  /\ UNCHANGED <<sub, dbVars, fileVars, acted, day, quotaVars, spent>>

(* os.WriteFile empties the file before it writes: an error, or the kill   *)
(* of a timeout, leaves it as it was or empty, and nothing is applied.     *)
WriteQuota(e) ==
  /\ agent[e].job = "count up"
  /\ \/ /\ quota' = [day |-> agent[e].day, count |-> agent[e].count + 1]
        /\ passed' = [passed EXCEPT ![agent[e].day] = @ + 1]
        /\ agent' = [agent EXCEPT ![e].job = "apply"]
        /\ UNCHANGED <<disp, spent>>
     \/ /\ Spend("cut")
        /\ quota' \in {quota, NoQuota}
        /\ Ends(e)
        /\ UNCHANGED passed
  /\ UNCHANGED <<sub, dbVars, fileVars, acted, day>>

ActsOn(e, plan) ==
  acted' = acted \cup {[key |-> agent[e].key, plan |-> plan, expect |-> agent[e].expect]}

(* loadAndVerifyPlan: the bytes that are executed are those that hash to   *)
(* what the dispatch has hashed.                                           *)
Apply(e) ==
  LET plan == file[agent[e].key] IN
  /\ agent[e].job = "apply"
  /\ IF plan # None /\ plan = agent[e].sha THEN ActsOn(e, plan) ELSE UNCHANGED acted
  /\ Ends(e)
  /\ UNCHANGED <<sub, dbVars, fileVars, day, quotaVars, spent>>

(* loadPlanFile, without a hash.                                           *)
Rollback(e) ==
  LET plan == file[agent[e].key] IN
  /\ agent[e].job = "rollback"
  /\ IF plan # None THEN ActsOn(e, plan) ELSE UNCHANGED acted
  /\ Ends(e)
  /\ UNCHANGED <<sub, dbVars, fileVars, day, quotaVars, spent>>

(* AgentTimeout, or the context of the dispatch.                           *)
KillAgent ==
  /\ agent[Life].job # "none"
  /\ Ends(Life)
  /\ UNCHANGED <<sub, dbVars, fileVars, acted, day, quotaVars, spent>>

Midnight ==
  /\ day < MaxDays
  /\ day' = day + 1
  /\ UNCHANGED <<sub, dbVars, fileVars, disp, agent, acted, quotaVars, spent>>

(* aclweb dies and restarts; SQLite rolls back, files stay, agents go on.  *)
Crash ==
  /\ Spend("crash")
  /\ sub' = [s \in Submissions |->
               IF At(s, "idle") THEN sub[s] ELSE [sub[s] EXCEPT !.pc = "gone"]]
  /\ tx' = None
  /\ disp' = NoDispatch
  /\ UNCHANGED <<seq, row, fileVars, agentVars>>

-----------------------------------------------------------------------------
SubmissionStep(s) ==
  \/ Begin(s)
  \/ Insert(s)
  \/ WritePlan(s)
  \/ RejectPlan(s)
  \/ PublishPlan(s)
  \/ InsertArtifacts(s)
  \/ Audit(s)
  \/ Commit(s)
  \/ Remove(s)
  \/ Leave(s)
  \/ RollBack(s)

DispatchStep ==
  \/ ReadPlan
  \/ RewritePlan
  \/ SwapPlan
  \/ HashPlan
  \/ Claim
  \/ StartRollback
  \/ Settle

AgentStep(e) ==
  \/ ReadQuota(e)
  \/ WriteQuota(e)
  \/ Apply(e)
  \/ Rollback(e)

Next ==
  \/ \E s \in Submissions : SubmissionStep(s) \/ Cancel(s)
  \/ \E k \in Keys : BeginDispatch(k)
  \/ DispatchStep
  \/ \E e \in Lives : AgentStep(e)
  \/ KillAgent
  \/ Midnight
  \/ Crash

Spec == Init /\ [][Next]_vars

(* The goroutines of a submission, its rollback included, are scheduled.   *)
FairSpec == Spec /\ \A s \in Submissions : WF_vars(SubmissionStep(s))

-----------------------------------------------------------------------------
(* Properties.                                                             *)

SubPCs == {"idle", "insert", "write", "rename", "artifact", "audit", "commit",
           "remove", "leave", "gone"}
DispPCs == {"idle", "read", "rewrite", "swap", "hash", "claim", "apply",
            "settle", "undo", "settled"}
Jobs == {"none", "count", "count up", "apply", "rollback"}

(* Every variable keeps to its values: the shape of Submit, SubmitDelete,  *)
(* DispatchStream and of the agent's two readers.                          *)
TypeOK ==
  /\ sub \in [Submissions -> [pc : SubPCs, key : Keys \cup {None},
                              count : Counts \cup {None}, cancelled : BOOLEAN]]
  /\ tx \in Submissions \cup {None}
  /\ seq \in Keys \cup {0}
  /\ row \in [Keys -> [state : {"none", "open", "dispatching", "closed"},
                       by : Submissions \cup {None}]]
  /\ tmp \in [Keys -> Plans \cup {None}]
  /\ file \in [Keys -> Plans \cup {None}]
  /\ disp \in [pc : DispPCs, key : Keys \cup {None}, count : Counts \cup {None},
               plan : Plans \cup {None}]
  /\ agent \in [Lives -> [job : Jobs, key : Keys \cup {None}, sha : Plans \cup {None},
                          expect : Counts \cup {None}, day : Days,
                          count : 0..DailyLimit]]
  /\ day \in Days
  /\ quota \in [day : Days, count : 0..DailyLimit]
  /\ passed \in [Days -> Nat]
  /\ acted \subseteq [key : Keys, plan : Plans, expect : Counts \cup {None}]
  /\ spent \in [DOMAIN Limit -> Nat]
  /\ \A kind \in DOMAIN Limit : spent[kind] <= Limit[kind]

Live == {k \in Keys : row[k].state \in {"open", "dispatching"}}

(* The file named after a request that is awaiting or under execution is   *)
(* there and was written by the submission that inserted the request       *)
(* (core.go:152-156: "a collision meant one request silently overwrote     *)
(* another request's plan").                                               *)
OpenHasOwnPlan ==
  \A k \in Live : file[k] # None /\ file[k].by = row[k].by

(* It is, through failed writes, crashes, leftovers and reused keys, as    *)
(* long as every client waits for its answer and every COMMIT succeeds.    *)
OwnPlanIfNobodyLeaves ==
  spent.cancel = 0 /\ spent.commit = 0 => OpenHasOwnPlan

(* What an agent carries out, and what one rolls back, is the plan written *)
(* with its own request, brought up to the rule count that the dispatch    *)
(* saw before it.  Nothing compares the file with the hash stored beside   *)
(* the row: the dispatch hashes what it finds (core.go:1063-1066), and a   *)
(* rollback hashes nothing.  It holds across reused keys, aborted          *)
(* rewrites, and agents of an earlier aclweb, while every client waits for *)
(* its answer and every COMMIT succeeds.                                   *)
ExecutesOwnPlan ==
  spent.cancel = 0 /\ spent.commit = 0 =>
    \A a \in acted : a.plan = [by |-> row[a.key].by, count |-> a.expect]

(* Today's count never runs ahead of the applies let through, so that none *)
(* is refused early; and no more than the limit are let through on a day,  *)
(* unless aclweb was restarted beside a running agent or a write of the    *)
(* count failed (aclagent main.go:314-327).                                *)
LimitKept ==
  /\ quota.count <= passed[quota.day]
  /\ spent.crash = 0 /\ spent.cut = 0 => \A d \in Days : passed[d] <= DailyLimit

(* The only connection comes back: no submission keeps its transaction     *)
(* for ever, or aclweb as a whole would stand still.                       *)
TxReleased == \A s \in Submissions : tx = s ~> tx # s
=============================================================================
