# acl-edit-only: TLA+ models, model checking and proofs

This directory is a verification development of the ACL approval system in
`src/`: a web application (`aclweb`) in which operators request, approve and
execute changes of one advanced ACL of one H3C switch, and a subprocess
(`aclagent`) that carries an approved change out over telnet. All paths below
are relative to `src/`; `core.go` is `internal/aclweb/core/core.go`, `ops.go`
and `session.go` are in `internal/h3c/device/`.

## 1. The system

| part | state it keeps | operations | interacts with |
|---|---|---|---|
| **Approval workflow** `core.go` (`Service`) | rows of `change_requests` with their artifacts (`schema.go`) | Submit, SubmitDelete, Approve, Reject, DispatchStream, handleDispatchFailure, Reconcile | starts `aclagent`; writes plan files; called by the handlers |
| **HTTP handlers** `handler.go`, `dispatch_stream.go` | `dispatchMu`, a CSRF key | one per route; `handleDispatch` and `handleDispatchSSE` take the mutex and bound a dispatch to 90 s | call the workflow and the accounts |
| **Agent** `cmd/aclagent` | none between runs, but a daily quota file | snapshot, apply, rollback | reads a plan file, opens a telnet session, prints one JSON response |
| **Device session** `ops.go`, `session.go`, `telnet.go` | transcript, ACL prompt, telnet decoder | login, DisplayACL with paging, the in-session guards, rule/comment/undo, save | the switch |
| **Switch** (`fakedev` in the tests) | running and startup configuration, a view per session | `rule`, `rule comment`, `undo rule`, `save`, `display acl`; engineers edit it too | the agent |
| **Plan files** `core.go:954-985`, `cmd/aclagent/main.go:258-289` | one JSON file per request code | write, update the count, hash, remove; load and verify | workflow (writer), agent (reader) |
| **ACL text** `aclout.go`, `core.go:611-939`, `sidebyside.go` | none | counting, allocation, predicted configuration, diff, side-by-side view, verification, fingerprint | workflow |
| **Plan validation** `plan/validate.go`, `normalize`, `absoluteGuard`, `render.go` | none | field checks, command rendering | workflow and agent |
| **Accounts** `auth.go` | users, sessions, rate limits | login, sessions, passwords, creation, (de)activation, reset | handlers; `aclweb -reset-password`, a second process |
| **Live output** `device/stream.go`, `dispatch_stream.go` | a pipe, a line scanner | copy the agent's transcript to the browser | agent, browser |
| **Process frame** `cmd/aclweb/main.go`, `cmd/aclagent/config.go`, `cfgpath` | none | configuration, start, tickers, shutdown | everything |

Every request makes the same journey. An operator's form is normalised,
validated and turned into a plan; a snapshot of the ACL is taken by an agent
and a rule number allocated from it; the predicted configuration and the diff
are stored with the row, the plan in a file. An approver decides on the diff.
An operator executes: under `dispatchMu`, aclweb takes a second snapshot,
compares it with the first, claims the row, lets the agent apply the plan,
takes a third snapshot and settles the row by what the three show.

What makes this hard:

* **Three kinds of process share a table and a switch, and no lock covers
  both.** Only dispatches take `dispatchMu`; submissions, decisions and
  reconciliations do not, and engineers type on the switch at any time.
* **State is read before a wait and used after it**: the row before the
  pre-dispatch snapshot and claimed after it, the snapshot before the guard,
  the guard before the command, the plan file before it is hashed and before it is
  executed.
* **Partial failure**: a rule without its comment, a rule that is written and
  not saved, an undo that is refused, a plan file without its row, a deletion
  whose second UPDATE does not happen.
* **One output, many readers.** The agent's output reaches the browser through
  two pipes and a scanner, and who does not read at one end stops the other.
* **Late answers.** A command whose answer does not come in time has not
  failed: the switch may execute it later, and its answer may be read as that
  of the next command.
* **Ends of life**: a browser that goes away takes the context, the transaction
  and the statements with it, but not the files and not the agent's commands;
  a crash of aclweb leaves the agent at work; a reboot of the switch brings the
  startup configuration back.

What makes each part correct, in one line each: *workflow*, one execution per
request, of the diff that was approved, with an outcome that is true of the
switch, and alarms that are true; *handlers*, the mutex is given back, one agent
writes at a time and every request is answered;
*agent and session*, edits go into the right ACL in the state they were planned
for, success means success, and the agent ends; *plan files*, what is executed
is what was approved, and not more often than the daily limit; *ACL text*, what is read off a text is what the rules
are; *plan validation*, the rule written is the rule asked for; *accounts*,
revoked means revoked and one administrator remains; *live output*, the page
shows what happened, and watching changes nothing.

## 2. Plan

| order | module | what | status |
|---|---|---|---|
| 1 | `AclTable` | the rules of one ACL and the decisions taken by reading them | done, proved about in `AclTable_proofs` |
| 2 | `AclWorkflow` | workflow, handlers, agents and switch together (extends `AclTable`) | done |
| 3 | `RequestLifecycle` | the abstract promise of the workflow | done, refinement checked and proved |
| 4 | `AclSafety`, `MCWorkflow` | properties and instances of `AclWorkflow` | done, proved about in `AclSafety_proofs` |
| 5 | `AclWorkflow_proofs` | type correctness, inductive invariant, refinement | done |
| 6 | `PlanFiles`, `MCPlanFiles` | files, transaction, dispatch, agents and their quota around one plan | done, proved about in `PlanFiles_proofs` |
| 7 | `AclText`, `AclReview`, `MCReview` | the same decisions as 1 on text; prediction and page | done, proved about in `AclReview_proofs` |
| 8 | `RequestPlan` | from a form to the traffic a rule lets through; used by `AclReview` | done, proved about in `AclReview_proofs` |
| 9 | `TelnetSession`, `MCSession` | client and switch over a link that is late or breaks | done, proved about in `TelnetSession_proofs` |
| 10 | `Reconcile` | the comparison with the active rows, composed with `AclWorkflow` | done, proved about in `AclSafety_proofs` |
| 11 | `Accounts`, `MCAccounts` | sessions, password changes, the last administrator, attempt limits | done, proved about in `Accounts_proofs` |
| 12 | `LiveOutput` | pipes, scanner, browser and mutex of an execution that is watched | done, proved about in `LiveOutput_proofs` |
| 13 | `TelnetOptions` | the option decoder over all splits of its input | not written |
| 14 | `SwitchJob` | what a session promises, with prompts and pieces left out, implemented by `TelnetSession` | not written |

Every safety property a run checks is now also a theorem. Still worth proving: that
`TelnetSession` implements `SwitchJob`, once that is written.

A definition named `X_Y` just before `X` is `X` with a plausible mistake in it.
`PROJECT.json` says which property notices it; no other definition uses it.

## 3. The modules and the code

### AclTable

A table maps every rule number to an entry or `Absent`. `Allocates` is
`allocateRuleID`, `GuardCheck` and `GuardCheckExisting` are `ops.go:35-119`,
`VerifyChange` and `VerifyDeletion` are `core.go:842-915`. The operators are
predicates about tables. That the code, which works on text, computes the same
is the subject of `AclText`.

### AclWorkflow, AclSafety, RequestLifecycle

| state | code |
|---|---|
| `req[r]` | the row and its artifacts: state, kind, rule number, body, the snapshot it was drawn on; drafts are the locals of a Submit that has not committed |
| `running`, `saved` | the configurations of the switch; entries carry `by`, which no code reads and the properties need |
| `late` | commands sent and given up, which the switch may still execute |
| `mutex`, `disp[w]` | `dispatchMu` and the locals of DispatchStream in handler `w` |
| `agent[w]` | the subprocess that handler started: the stage of its session and what it will report |
| `launched`, `refused`, `spent` | history and the counters that bound disturbances |

Each wait, statement and command is a step of its own. `BeginDispatch` to
`Claim` are `core.go:1014-1087`; `Launch` and `ApplyReturns` the agent's run
under the context; `PostSnapshot` to `Retire` the verification and the two
UPDATEs of a deletion (`core.go:1107-1150`); `Fail` to `Settle`
handleDispatchFailure. `Guard`, `Perform` and `Refuse` take one step per command
of Apply, Remove and Rollback; `Timeout`, `Kill` and `Expire` are the three ways
a command is given up, and each may leave it in `late`. `Crash` clears what lives
in aclweb and nothing else. A snapshot that fails is `Unreadable`, and two failed
snapshots compare as equal, as two empty texts do. The drift check looks only when
the row names a snapshot and the SELECT finds it: `ConfirmRule` may lose the one,
`Claim` the other, and either is a disturbance (`unchecked`).

`RequestLifecycle` says the same of a single request with everything else left
out: absent, open, closed or executing, settled, and tried at most once while
executing. `AclSafety!Lifecycle` maps row states to phases and `launched` to
`tried`.

### Reconcile

`Reconcile` adds one variable to `AclWorkflow`: the reconciliation under way,
which is a ticker's or a click's (`core.go:433-459`). `TakeSnapshot`, `Compare`
and `Report` are its three waits; each of the first two has its error return.
`was` and `quiet` remember which rows were active at the snapshot, and whether a
dispatch has been under way since. Every step of `AclWorkflow` may come between.

### PlanFiles

From BeginTx to the deferred rollback of a submission, one step per statement
and per file operation; the dispatch as far as it touches the plan; and the
agent's two readers, `loadAndVerifyPlan` with the hash and `loadPlanFile`
without. Before the plan is applied, the agent reads, compares, increments and
rewrites the quota file (`ReadQuota`, `WriteQuota`; a write that is cut short
leaves a file that parses as zero). Every life of aclweb has an agent of its own:
`Crash` starts the next life and leaves the agent of the last one at work;
`KillAgent` is the agent's timeout, `Midnight` the change of the date. A plan is its author and its rule count, which is all that can differ
between two plans under one name. The hash stands for the whole file. It is the hash
of what `HashPlan` finds in the file; that of the approved plan, stored with the row,
is used by nothing (`core.go:1022`, `core.go:1066`), and so is not in the model. `tx` is
the only connection of the pool (`schema.go:19`), `seq` the committed value of
sqlite_sequence, so a key whose transaction is rolled back is given out again.
`Cancel` is the browser going away; `RollBack` is what database/sql does about
it, at some later time. `Privileged` tells whether aclweb can open its own
0440 leftovers.

### AclText and AclReview

Lines are headers (with a count or without), step lines, rule lines and comment
lines. `AclText` holds the code's functions on lists of lines: counting, reading
the numbers, allocation, the predicted configuration, the LCS diff with its
context, the side-by-side page and both verifications. `DisplayACL` ends with the
prompt at which the session stops reading: nothing strips it, so it is in every
snapshot, in the diff and in the prediction. The echo of the command, a line in
front that nothing reads, is left out. The fingerprint, which is of the rules, is
`AclWorkflow!Display`.
`AclReview` walks one request through them: a snapshot that may break off, the
request, the page, the command the agent makes of the plan, and an arbitrary
table afterwards. A deletion and a sample of forms are carried through
everything, any other form through once. Its properties compare each result with
`AclTable`, with the configurations themselves, or with what the form asked for.

### RequestPlan

Addresses are words of `AddrBits` bits and ports of `PortBits` bits; a rule is
read as the sets of addresses and ports it matches. The forms are all the page
can send and a set of forms it cannot, some with an IPv6 text; then come `Normalize`,
`PlanOf`, the two validations, the agent's own limits and `BuildRuleCmd`. `PlanOf` has
the one narrowing conversion, int to uint16. `AskedRule` reads a form without the code.

### TelnetSession

The switch (`Device`) is the fake switch of the tests with the variations its
comments and the client's code speak of, as traits of `style`: how it logs in,
whether its prompt names the ACL, whether it opens another ACL, keeps paging,
prints remarks with brackets in them, prints no count, refuses writes, refuses
comments, or asks before it saves. The client is `Session` and the four
operations of `ops.go`, one step per answer it waits for. `toClient` is text on
its way: `Receive` takes any prefix of it and `Timeout` may happen at any read,
with the text still to come. Which reads look at the end of the text and which
accept their pattern anywhere is as in the code (`Matched`). A piece of text is
a number of whole tokens, echoes are left out because no pattern matches one,
and the limit of 4000 pages is left out.

### Accounts

`account`, `session` and `tries` are the three tables; a password is the number of
times it was changed. `proc[p]` is the request a process serves and its next
statement: the pool has one connection, so a statement or a transaction is a step
and between two of them anyone may act. A login is two looks at counters, the
comparison, and then two increments, or two resets, an INSERT and the look of
`handleLogin` at its own session (`CheckUser` to `HandOut`, `auth.go:79-115`);
`SetActive` is `CountAdmins`, `Deactivate`, `Revoke`; `ChangePassword` a comparison
and a transaction. `StatementFails` goes where the code goes after an error it
returns or ignores. `ResetPassword` is the command line, a process of its own;
`Crash`, `SessionExpires` and `WindowEnds` the rest of the world. `overtaken`, `cut`
and `raced` are history: what a request looked at has changed since, a revocation
was cut short, a deactivation acted on an outdated count.

### LiveOutput

One variable for each place a line can be: the kernel's pipe, what os/exec's
goroutine is writing to the io.Pipe (`chunk`), the scanner's buffer (`lines`), the
connection (`socket`), the page. `handler` is `handleDispatchSSE`
(`dispatch_stream.go:45-80`), `dispatcher` the goroutine it starts and, for a plain
POST, `handleDispatch`; `Finish` is `cmd.Wait`, which waits for the copying goroutine
as well as the process (`core.go:480-556`). Line number `long[s]` is longer than the
scanner's 64 KiB. A browser reads, stalls, resumes or goes away.

## 4. What is checked

Runs that pass. The times are for two workers.

| run | states | what it shows |
|---|---|---|
| `workflow` | 1 785 183, 115 s | `TypeOK`. `AppliedToApproved`: when a command goes out the ACL is still the one the diff was drawn on, unless somebody edited it, the drift check did not look, or a reboot exchanged one unsaved change for another (section 6). `ActiveInForce`: an active rule is on the switch and in its startup configuration. `FailedLeftNothing`: `dispatch_failed` leaves nothing of the request behind, also when an engineer edits meanwhile. `OneApply`, `RefusedNotApplied`, `OneWriter`, `RevokedIsGone`, and the refinement `KeepsLifecycle`. With any two of an edit, a refused command, a late command, a killed agent, an expired context, a crash, a reboot and a drift check that does not look, in any order. |
| `reconcile` | 503 174, 110 s | `AlarmsAreTrue` and `AlarmsHaveACause`: what a reconciliation reports was missing while the row was active, and for a reason. `LostRuleReported`: a rule that stays lost is reported again and again. `DispatchSettles`: a claimed row is settled. With any two of an edit, a refused or late command, a killed agent, a reboot and a drift check that does not look. |
| `plans` | 429 420, 25 s | `TypeOK`; `OwnPlanIfNobodyLeaves`: a live request has the plan file it came with; `ExecutesOwnPlan`: an agent applies and rolls back that plan, with the rule count its own dispatch saw, whatever an aborted rewrite or an earlier life left behind; `LimitKept` and `TxReleased`; with a client that leaves, failing writes, a failing commit, a cut write of the quota, a change of the date and a crash that leaves an agent at work. |
| `review_page` | 665 866, 70 s | `DrawnOnWholeAcl`, `PageIsTrue`, `PageMarksOnlyTheRequest`, `VerifiesTheRules`; `PredictionComesTrue`: the stored configuration is the later one line for line, count included, wherever its prompt stands; `WrittenIsAsked`: an accepted form ends in a rule for exactly the traffic it names, if the page can send it or it names a source, ports that fit and no range; `AcceptedIsExecutable`: the agent refuses only what its own limits forbid. |
| `session` | 200 068, 8 s | `SnapshotIsWhole`, `WritesInOwnAcl`, `GuardHeld`, `OkMeansDone`, `SavesOnlyFinished`, and `SessionEnds` on a switch that may fall silent at any point. |
| `accounts` | 2 741 743, 71 s | `TypeOK`; `AdminRemains`, `OldPasswordIsOut`, `DeactivatedIsOut` and `TriesBounded`, each up to the one overlap of two requests it names, with failing statements, a crash, a reset, ends of sessions and of windows. |
| `live_output` | 302 454, 30 s | `NothingLost`: the page has the output from its beginning, in order, and in the end all of it. `AgentOutlivesBrowser`: only a line too long for the scanner brings the agent down. `ToldTheOutcome`: the last event is what the dispatch returned. `HandlerEnds`: both kinds of execution are answered, unless a browser stalls for ever. |

Runs that end in a counterexample, each a difference between the code and
something the repository says of it; `PROJECT.json` quotes both sides.

| run | what happens |
|---|---|
| `bug_engineers_rule` | An engineer takes the number between snapshot and guard. The guard refuses, and the rollback of the failed add removes the engineer's rule. |
| `bug_save_failure` | `save_failed`, promised to be left to a person, is rolled back like any other failure. |
| `bug_stuck` | The statement that would settle the row runs under the context that has just ended. The row stays `dispatching`, a state no operation leaves. |
| `bug_plan_overwritten` | A client leaves between INSERT and plan file. The key is given to the next submission, and the first one overwrites its plan. |
| `bug_late_undo` | The comment's late answer is read as the undo's. The rule is reported undone and stays. |

### Bounds, and why they are enough

* *Workflow.* Two requests are needed for two rows to compete for a number or
  for a rule and its deletion to meet; the third brings a rule in again under
  the number of a deleted one. Two handlers are two clicks at once. Two rule
  numbers give a number that is taken and one that is free, and a full window.
  `MaxEdits`, `MaxFaults`, `MaxLosses`, `MaxKills`, `MaxExpiries`, `MaxCrashes`,
  `MaxReboots` and `MaxUnchecked` bound the disturbances of a behaviour, not their place. Each
  property concerned with one was written against the shortest sequence that
  could break it, which needs at most two. The safety runs use the symmetry of
  requests and handlers, the liveness runs none.
* *Reconciliation.* Two requests and one disturbance of each kind, two in a
  behaviour: a row that becomes active or revoked between snapshot and comparison
  takes one dispatch, a rule that is lost one disturbance.
* *Plan files.* Two submissions, two keys, two counts: one submission whose key
  is given out again and one that gets it. Two failing writes are a failing
  submission and a failing rewrite. A limit of one and two days are an apply that
  is let through, one that is refused, and one on the next day; two lives of aclweb
  are an agent beside another one.
* *Review and plan.* Four numbers with a window of two: rules below, in and above
  it, and room for context lines to be elided between two changes. Three address
  bits are the least in which a wildcard can be contiguous at the low end, at the
  high end and not at all; two port bits are the least in which `lt`, `gt` and
  `neq` differ.
* *Session.* Three rules on pages of two lines are two page breaks; an ACL of
  any subset of them is tried. A session's commands are finitely many.
* *Accounts.* Two requests at a time on two accounts: every hazard is two
  operations that overlap, and the last administrator is one of two. `Budgets`
  bounds wrong passwords, sessions, failures, resets and ends of a behaviour, in
  five mixtures; deactivations, activations, logouts and creations are not bounded.
* *Live output.* Pipes of two lines and four lines of output fill every buffer and
  leave one line to write; the plain POST is who waits for the mutex.

Several properties speak only of calm conditions (`Calm`): `ActiveInForce` says
nothing of a rule an engineer removed. The guard names the disturbances the
property does not survive; `MaxDisturbances` bounds how many a behaviour of a run
has in all. More than two of them at once is beyond TLC; the theorems have no such
limit.

### Fairness

`AclWorkflow` and `Reconcile`: weak fairness of each handler's and each agent's
steps, and of the ticker's reconciliations. Every wait of
either has a limit (the agent's read deadlines, `AgentTimeout`, the 90 s context)
and otherwise they are goroutines and a process the scheduler runs. `PlanFiles`:
of each submission's steps, with the rollback of a cancelled transaction.
`TelnetSession`: of the client, whose reads return at their deadline.
`LiveOutput`: of the goroutines, of a browser that reads, and of the deadline that
kills an agent; not of the agent, and not of a browser that stalls: that none
stalls for ever is a premise of `HandlerEnds`. Nothing is assumed of the switch, of
people, or of disturbances. `Accounts` has no liveness: its requests are statements
that succeed or fail. `DispatchSettles` holds as
long as no context expires and aclweb stays up; `bug_stuck` shows that it fails
otherwise, with one expiry.

Deadlock is not checked in any run: requests, disturbances and commands are
finite in number, and a system with all of them settled rests. The liveness
properties say that it does not rest earlier.

## 5. What is proved

`AclTable_proofs`, from `TableAssumption` (the numbers are a finite set of
naturals that holds the window):

* `AllocatesFresh`: an allocated number is in the window and not in use.
* `VerifyChangeExact`, `VerifyDeletionExact`: the code's three assertions, a
  count, a presence and an equality elsewhere, together say exactly that one
  rule has come or gone. Given the other two, the count says that the number was
  free (or taken) before; this is where finiteness is needed.

`AclWorkflow_proofs`, from `TableAssumption` and `WorkflowAssumption` (the special
values differ from the ordinary ones and the bounds are naturals), for any
number of requests, handlers, rules and disturbances:

* `TypeCorrect`: `Spec => []TypeOK`. Rows and handlers depend on each other (a
  handler's row stays in the table, an agent that writes works on an add), so
  the rows come first: `RowsKept` says what every step leaves of every row, and
  the lemmas for switch, handlers, agents and history use it.
* `WorkflowCorrect`: `Spec => []WorkflowInv`, the inductive invariant. `OneApply`
  alone is not inductive: to see that `Launch` starts an agent at most once one
  must know that the row is `dispatching`, that nothing but the handler itself
  moves a `dispatching` row, and that no other handler is anywhere in a dispatch.
  The last is the mutex. So each handler that is not idle holds the mutex and
  knows its row's state up to what people may still do to it (`HandlerOwnsRow`);
  a row that can be claimed has never been launched, and a rejected one never is
  (`LaunchedOnlyAfterClaim`); and until the first crash an agent has a waiting
  handler (`AgentHasHandler`). `InvStep` has one case per kind of step.
* `OneApplyHolds`, `RefusedNotAppliedHolds`, `OneWriterHolds`: consequences.
* `WorkflowRefines`: `Spec => KeepsLifecycle`. Every step is a step of one
  request's life cycle or a stutter; the invariant gives the phase a handler's
  row is in before the step.

`AclSafety_proofs`, from the same assumptions. `SafetyCorrect` is
`Spec => []SafetyInv`, in three layers, each true under fewer disturbances:

* *Under every disturbance*: who is at work and who wrote what. A handler waits for
  the agent it started, and an agent that outlived its handler sits on a row that
  stays `dispatching` (`StaffInv`). A rule that carries a request stands under
  its number, and a rule command still to be executed late is of a request that was
  not, and will not be, reported as done (`AuthorInv`). An undone rule of an active row is off the
  running configuration before the save and off both after it (`GoneInv`). The ACL a
  dispatch saw before its claim is the one its diff was drawn on (`SnapInv`).
  `RevokedIsGoneHolds`: `Spec => []RevokedIsGone` follows, with no premise at all.
* *As long as no command is executed late and the switch stays up*: a number that the
  last snapshot of a failed dispatch shows as free has nothing of the request
  (`CleanInv`), whatever engineers do meanwhile; so `FailedLeftNothingHolds`.
* *On a switch nobody else touches, over any number of refused commands and reboots*
  (`TableInv`): what is only in the running configuration belongs to an add that is
  being carried out or on record as inconsistent (`Unsaved`); an active row is in both
  configurations except while a deletion of it is under way, and then a reboot can only
  bring it back whole (`ActiveRow`); so `ActiveInForceHolds`. Between the guard and
  the first write the ACL is the one seen before the claim (`Unmoved`), because the
  only thing that can change it is a reboot, a reboot can only add rules to it unless
  an inconsistent add is lost, and the guard compares counts; so
  `AppliedToApprovedHolds`. That last exception (`Masked`) was found by this proof.

The same module goes on with `Reconcile`: `ReconcileCorrect` is
`FairReconcileSpec => [](SafetyInv /\ RecInv)`. `AlarmsAreTrueHolds`: while a
reconciliation has seen no dispatch, dispatchMu is free and no row becomes active, so
every row it reports was active when the snapshot was taken. `AlarmsHaveACauseHolds`:
on a switch nobody else touches the active rows whose rules the snapshot does not show
are explained by a deletion in the table (`Explained`), because `ActiveInForce` holds
at the moment of the snapshot and deletions end only in a dispatch.

`PlanFiles_proofs`, from `FilesAssumption`, for any number of submissions, keys,
counts, days, lives and disturbances:

* `TypeCorrect`: `Spec => []TypeOK`. `Typed` adds what each program counter implies:
  who works on a file knows its key, an agent that counts up is under the limit,
  and the agent of the present life works for the dispatch that waits for it, while
  lives to come have none (`Tied`).
* `DailyLimitKept`: `Spec => []LimitKept`, by `QuotaInv`. The file never runs ahead of
  the applies let through. As long as no write was cut and aclweb has not crashed it
  is exact: the day of the file is not in the future, later days have seen nothing,
  and the one agent about to count up has read what is in the file.
* `OwnPlans`: `Spec => []OwnPlanIfNobodyLeaves`, by `PlanInv`. While no client leaves
  and no COMMIT fails, whoever is between BeginTx and its end holds the connection
  and has the only key that is not committed, so nobody else writes under its code;
  a dispatch works on a committed key and rewrites the plan it read.
* `OwnPlanExecuted`: `Spec => []ExecutesOwnPlan`, by `WorkInv` on top of that. The hash an
  agent compares is of the file its dispatch found, so it says nothing of whose plan
  that is. What does: from its rewrite on the file of a dispatch has its count
  (`CountsOK`), and from the claim on the row is `dispatching`, so that no later dispatch
  touches the file of an agent, whatever becomes of the aclweb that started it
  (`WorkerOK`).

`Accounts_proofs`, from `AccountsAssumption`, for any number of users, tokens,
addresses and requests under way:

* `TypeCorrect`: `Spec => []TypeOK`; accounts are never deleted, so a session or a
  statement that is on an account stays so.
* `AdminStays`: `Spec => []AdminRemains`. The invariant adds what a deactivation knows
  after its count: another administrator is active, or somebody was deactivated
  since, and then it is marked `overtaken`.
* `OldPasswordOut` and `DeactivatedOut`: `SessionInv` adds that a login between its
  comparison and its INSERT holds the account's password or was overtaken.
* `TriesAreBounded`: `Spec => []TriesBounded`, by `TriesInv`. Each wrong password is in
  the counter or is owed to it by a request between its comparison and its increment
  (`Counted`); and those compared, with those let in and not yet compared, are at most
  the limit less one and one for each process (`Within`). A statement that fails, and
  a crash, may cost one increment for each request under way (`Slack`).

`LiveOutput_proofs`, from `StreamAssumption`, for any number of browsers, executions,
lines and any size of the pipes:

* `AgentOutlives`: `Spec => []AgentOutlivesBrowser`. The agent breaks when the copying
  goroutine has failed, that fails when the reader is closed while it copies, and the
  reader is closed at the end of the output, when the copying is over
  (`CopierAwaited`), or at a line that is too long (`StopsForLong`). That a scanned line
  was said takes that every part of every buffer was (`WasSaid`).
* `OutcomeTold`: `Spec => []ToldTheOutcome`. The outcome is set when the dispatcher
  begins to give back what it holds and never again (`OutcomeSet`), and the handler
  sends its last event after the dispatcher has ended (`ToldAfter`).
* `ShowsEverything`: `Spec => []NothingLost`. Page, connection, scanner, `io.Pipe` and
  kernel pipe hold 1, 2, 3, ... without a gap, each from where the one before it ends
  (`InOrder`), up to what was said unless the copying failed. A handler ends only with
  all of them empty behind the connection, or after a line that was too long
  (`Emptied`).

`TelnetSession_proofs`, from `SessionAssumption` (the rules are a finite set of
numbers, a page has at least one line, a job is one of the four operations), for any
set of jobs and switches, any ACL, any page length and pieces of any size. Every step
is first reduced to one of five forms (`Steps`): the switch says something, the client
sends something, a piece is read, a page is set aside, or nothing of interest happens.
`SessionCorrect` is `Spec => []SessionInv`; its parts are

* `OrderInv`: what may stand behind what in the queue of commands, so that no command
  given up is followed by an edit it would disturb;
* `TextInv`, `EarlyInv`, `DisplayInv`: until an edit is sent every line under way is
  true of the ACL, no line of a display comes before it is asked for, and a display is
  asked for, stopped at a page, told to go on or complete, with every rule in what is
  read, on its way or left on the page. A prompt behind the header ends it
  (`PromptLast`), so that an output whose count is right is whole and the link empty;
* `TalkInv`, `EnterInv`: from login to the last edit there is one command at a time; its
  answer is at most one prompt with errors before it, which is read to its end before
  the next is sent. The one exception is a client that does not know the prompt of its
  view, because a remark ended "display this" early: it never sees an edit succeed
  (`Stuck`);
* `ViewInv`: what names the ACL is under way only from the ACL's view, and nothing but
  `quit` leaves it;
* `ReadInv`, `GuardInv`, `FinishInv`: what is concluded from a count, a guard and a
  "success".

`SnapshotIsWholeHolds` and `GuardHeldHolds` follow without a premise.
`WritesInOwnAclHolds`, `OkMeansDoneHolds` and the action property
`SavesOnlyFinishedHolds` assume `TellingNames`: no switch whose name ends in the
number of the ACL opens another ACL than it was told to. Without it they are false
(section 6).

`AclReview_proofs`, from `TableAssumption`, `TextAssumption` (an entry is a body and a
comment, and neither `None` nor `Absent` is one of the values it stands beside),
`PlanAssumption`, `RecordAssumption` and `ReviewAssumption` (the special values are none
of the records they stand beside, and the sample of forms and tables is taken from the
forms and tables there are). For any set of rule numbers, any entries, any context and
words and ports of any width:

* `HistoryHolds`: `Spec => []History`, the inductive invariant. It says of everything a
  request has become how the code made it of what was there before: the snapshot is
  a beginning of the printed table, the plan and the prediction are drawn on that
  snapshot, the page is made of its diff, the command of the plan, the verdict of the
  two texts. A step only adds to it; each property is then a consequence, and what
  is left is about functions of texts.
* `DrawnOnWholeAclHolds`: `Spec => []DrawnOnWholeAcl`. A beginning that lacks a rule
  shows fewer rules than its header claims, and one that has no header lacks
  nothing (`CountedIsWhole`).
* `PredictionComesTrueHolds`: the numbers are printed in ascending order, so the table
  splits at the request's number, and the first line of a rule with a higher one is
  where the new lines belong; with none, they come behind the prompt, and are the last
  once that is taken out (`PredictedRule`). A table with one rule more has the count
  the prediction made up (`OneRuleMore`).
* `VerifiesTheRulesHolds`: texts without the lines of a rule are alike exactly if the
  tables are, apart from it (`PrintedSame`); with the counts, that is the verdict of
  `AclTable`.
* `AcceptedIsExecutableHolds`, `WrittenIsAskedHolds`: every field of the command,
  through `Normalize`, `PlanOf` with its narrowing and `BuildRuleCmd`, is what the form
  asked for (`CommandIsAsked`); a line that the old configuration does not have is an
  insertion, and an insertion has a row of its own (`NewLineShown`).
* `PageIsTrueHolds`: an edit script is a walk over pairs of positions to the end of
  both texts (`DiffLeads`), a unified diff such a walk with strides (`UnifiedLeads`),
  and the page numbers the lines of either side as that walk passes them
  (`PagePlaced`). What is left out lies under a stride, where the texts are alike
  (`LeftOutAlike`).
* `PageMarksOnlyTheRequestHolds`: the two configurations are the same but for the lines
  that may be marked, and have none of those in common (`DrawnAligned`). Then a cell of
  the table is at most the number of other lines left on either side, and as many if
  they are left in equal number (`TableFits`); so the walk, which begins with equally
  many, drops only lines that may be marked and keeps them equally many
  (`ItemMarked`). The invariant of the walk is what an example cannot show: it is
  the comparison of two cells that keeps a line that occurs twice from being marked.

`AclText` computes with folds, least and greatest elements and one function defined by
itself. Induction over data is not available to the prover as such; these proofs do it
by the least element of a set of naturals (`WellOrdered`, `Induction`): a fold is shown
to have a run (`FoldRun`, `FlattenRun`, `StackIsRow`), a function defined by itself to
exist because each of its steps lowers a rank (`WalkExists`), and an invariant to hold
along such a walk because no first place violates it (`WalkInduction`).

Only model-checked: the liveness properties (`LostRuleReported`, `DispatchSettles`,
`TxReleased`, `SessionEnds`, `HandlerEnds`). Liveness under fairness, and anything with
ENABLED, is out of the prover's reach.

## 6. Differences read from the code that no run checks

Found while modelling; each can be seen in the lines named.

* `core.go:204-206` means to reject what the agent would refuse. Protocol `ip`,
  offered by the page, and a blank source with any destination pass it and are
  refused by `absoluteGuard` (`cmd/aclagent/main.go:298-307`) on every execution.
* `absoluteGuard` recognises "any" by its spelling (`main.go:302`). A blank source
  and another address with wildcard 255.255.255.255 are any to any and pass.
* `requireContiguousWildcard` (`validate.go:120`) tests the complement of the
  wildcard for a run of low ones. 0.0.0.255, which the page offers, is refused;
  0.0.0.0, 255.255.255.255 and, the other way round, 255.255.255.0 pass.
  (`RequestPlan` has the code's test, so
  `WrittenIsAsked` is about the forms that pass it.)
* The predicted configuration of a deletion keeps the old count in its header
  (`core.go:725-732`): `PredictionComesTrue` leaves the count of a deletion out, as it
  does that of an ACL which shows none while it is empty.
* `core.go:674-677`: the result predicts what "display acl N" will show "in rule-ID
  order". A snapshot ends with the switch's prompt (`session.go:152-183`,
  `core.go:471`). An allocated number is above all others in its range, so that where
  no rule stands above the range, the ordinary case, the new lines go behind the prompt
  (`core.go:701-703`), and the page shows them there. `PredictionComesTrue` takes the
  prompt out before it compares.
* The drift check (`core.go:1041-1059`) is to "refuse rather than apply it to a
  different config", and fails open: the error of its SELECT is dropped, and an empty
  fingerprint is not compared. A deletion whose snapshot could not be stored
  (`core.go:368` ignores the error) has none, and is never compared. Either way the guard
  is what is left, and it compares a count with one taken after the change. An add let
  through like this whose number was taken is refused by the guard, and its
  rollback removes the rule that took it, as in `bug_engineers_rule` but without a race.
  `AppliedToApproved`, `ActiveInForce`, `FailedLeftNothing` and `AlarmsHaveACause`
  except it.
* An IPv6 text is accepted as an address by aclweb and agent alike
  (`validate.go:95`); a switch refuses such a rule in an IPv4 ACL, and every
  execution of that request fails. (`RequestPlan` has it match nothing.)
* A port above 65535, which the page does not send, is stored modulo 65536
  (`core.go:199`); a source port without a source is dropped from the command
  (`render.go:16-25`); and a `range` of ports carries one number, which the plan puts
  where no range looks for it, so that it reads 0 to 0 (`core.go:199`, `render.go:68`). The diff shows the
  rule that results. `WrittenIsAsked` excepts the three (`FitsThePlan`).
* A rollback is not saved (`ops.go:133-142`). If the add had been saved before
  its verification failed, a request reported as "rollback confirmed"
  (`core.go:331`) is in force again after a reboot.
* The in-session guard compares a number and the count of rules with the approved
  plan (`ops.go:35-119`), not the rules. After a deletion whose save failed and an add
  that could neither be finished nor undone, a reboot brings the deleted rule back and
  loses the added one: the count is as approved and the ACL is not. `AppliedToApproved`
  excepts it (`Masked`): such an add is on record as inconsistent, for a person to
  settle.
* `dispatchMu` is said to let "only one acl-agent subprocess" run
  (`handler.go:54`). Submit, SubmitDelete and Reconcile start theirs without it.
* A host name ending in the ACL's number passes for the ACL's view
  (`session.go:65`, `session.go:235`). On a switch that then enters another ACL, edits
  would go there. The instances of `session` leave out that combination of
  `hostNumber` and `otherAcl`, and the theorems name it (`TellingNames`).
* A remark with a "]" ends the reading of "display this" early
  (`session.go:243`), after which the remembered prompt is empty.
* `handler.go:466` says that Reconcile "rewrites request state". It writes an
  audit entry only (`core.go:434-459`).
* `auth.go:203`: SetActive "refuses to deactivate the last active admin". Count and
  UPDATE are two statements (`auth.go:211-221`): two administrators who deactivate
  each other at the same time both pass the count, and none is left.
  (`AdminRemains` excepts exactly that.)
* A login that has compared the password before a change, and inserts its session
  after it, keeps a session the change should have ended (`auth.go:107-113`,
  `auth.go:163-172`). `OldPasswordIsOut` excepts it.
* Deactivation and revocation are two statements (`auth.go:221-223`): if the second
  fails, the sessions left are good again when the account is. `DeactivatedIsOut`
  excepts it.
* Reconcile reads the active rows some time after its snapshot and takes no mutex
  (`core.go:434-442`): a dispatch that settles in between is reported as a missing rule.
  `AlarmsAreTrue` and `AlarmsHaveACause` are about reconciliations no dispatch overlaps.
* `cmd/aclweb/main.go:163-172` does without a write timeout because "the work is
  bounded where it belongs, by the agent timeout". A browser that stops reading
  without closing its connection fills every buffer up to the agent's standard
  error. The timeout kills the agent, but `cmd.Wait` goes on waiting for the copying
  goroutine (no `WaitDelay` is set, `core.go:504`), under `dispatchMu`: no dispatch
  proceeds until that browser reads or leaves. `HandlerEnds` has the premise that it
  does.
* After a line of more than 64 KiB the stream's reader is closed and the copying
  fails (`dispatch_stream.go:66-72`). The agent dies of its next write in the middle
  of the session; or, if it had finished, `cmd.Wait` reports the failed copy and an
  apply that succeeded is treated as failed and rolled back.
* More applies than the daily limit are let through beside an agent that outlived
  its aclweb, and after a write of the quota file that was cut short, which then
  parses as zero (`cmd/aclagent/main.go:314-327`).

## 7. What is not modelled, and why

* *The telnet option decoder and carriage-return replay* (`telnet.go`,
  `session.go`): planned, see section 2.
* *The order of a shutdown*: one that does not wait for dispatches is a crash for
  the other parts and modelled as one.
* *Routing, roles, CSRF, pages, configuration, file permissions, credential
  decoding, JSON*: checks of one request or I/O, without steps that interleave.
* *Regular expressions and terminal normalisation*: stand as the classification
  of a line or a token. Patterns that would confuse two classes are outside the
  model.
* *Write errors of the telnet connection*: a write that fails is a read that
  times out.
* *Engineers during a session*: in `AclWorkflow`, where a session is one step per
  command, and not in `TelnetSession`, where the switch is the session's alone.
* *The table `dispatches`* (`schema.go`): no code reads or writes it.
