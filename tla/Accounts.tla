------------------------------ MODULE Accounts ------------------------------
(***************************************************************************)
(* The accounts of aclweb: users, sessions and the counters of failed      *)
(* logins, three tables of the database.  Requests are served side by      *)
(* side; the database has one connection, so a statement is a step, a      *)
(* transaction is a step, and between two of them everyone else may act.   *)
(*                                                                         *)
(* A password is the number of times it was changed.                       *)
(***************************************************************************)
EXTENDS Naturals, FiniteSets

CONSTANTS
  Users,        \* user names
  Tokens,       \* session tokens; a login draws one nobody has had
  Addresses,    \* where logins come from
  Procs,        \* requests being served
  None,         \* nothing
  Gone,         \* a session that was deleted
  MaxTries,     \* rateLimitMaxTries
  MaxPassword,  \* bound: changes of one user's password
  Budgets       \* bounds: how often a behaviour may do each of Bounded

Accounts == [role : {"admin", "other"}, active : BOOLEAN, password : 0..MaxPassword]

Bounded == {"wrong password", "session", "fault", "reset", "end"}

ASSUME AccountsAssumption ==
  /\ IsFiniteSet(Procs)
  /\ MaxTries \in Nat \ {0}
  /\ MaxPassword \in Nat
  /\ Budgets \subseteq [Bounded -> Nat]
  /\ None # Gone /\ None \notin Accounts
  /\ None \notin Users /\ None \notin Tokens /\ None \notin Addresses
  /\ Users \cap Addresses = {}

VARIABLES
  account,   \* the users table
  session,   \* the sessions table
  tries,     \* rate_limits: the count of a live window, else 0
  proc,      \* the request each process serves, and its next statement
  left,      \* what is left of the budget
  faults,    \* history: how many statements have failed
  guesses,   \* history: failed comparisons since a key's window began
  cut,       \* history: users whose revocation was cut short
  raced      \* history: an account was deactivated on an outdated count

vars == <<account, session, tries, proc, left, faults, guesses, cut, raced>>
budget == <<left, faults>>
limits == <<tries, guesses>>
history == <<cut, raced>>

Keys == Users \cup Addresses
Sessions == [user : Users, password : 0..MaxPassword, known : BOOLEAN, overtaken : BOOLEAN]

(* `overtaken`: the account's password was changed since the login looked  *)
(* at it; another account was deactivated since the administrators were    *)
(* counted.                                                                *)
Idle == [pc |-> "idle", user |-> None, address |-> None, token |-> None, password |-> 0,
         overtaken |-> FALSE]

Init ==
  /\ account \in [Users -> {None} \cup
                           [role : {"admin", "other"}, active : BOOLEAN, password : {0}]]
  /\ \/ \A u \in Users : account[u] = None
     \/ \E u \in Users : account[u] # None /\ account[u].role = "admin" /\ account[u].active
  /\ session = [t \in Tokens |-> None]
  /\ tries = [k \in Keys |-> 0]
  /\ proc = [p \in Procs |-> Idle]
  /\ left \in Budgets
  /\ faults = 0
  /\ guesses = [k \in Keys |-> 0]
  /\ cut = {}
  /\ raced = FALSE

-----------------------------------------------------------------------------
Active(u) == account[u] # None /\ account[u].active
ActiveAdmin(u) == Active(u) /\ account[u].role = "admin"
Exists(t) == session[t] \notin {None, Gone}

At(p, pc) == proc[p].pc = pc
Goto(p, pc) == proc' = [proc EXCEPT ![p].pc = pc]
Done(p) == proc' = [proc EXCEPT ![p] = Idle]

Spend(what) == left[what] > 0 /\ left' = [left EXCEPT ![what] = @ - 1]
Fault == Spend("fault") /\ faults' = faults + 1

SessionsOf(u) == {t \in Tokens : Exists(t) /\ session[t].user = u}
DeleteSessions(u) ==
  /\ session' = [t \in Tokens |-> IF t \in SessionsOf(u) THEN Gone ELSE session[t]]
  /\ cut' = cut \ {u}

(* ValidateSession.                                                        *)
Valid_AnyAccount(t) == Exists(t)
Valid(t) == Exists(t) /\ Active(session[t].user)

-----------------------------------------------------------------------------
(* Login: both counters, the account, and then one of two tails.           *)

Limited_OneMore(k) == tries[k] > MaxTries
Limited(k) == tries[k] >= MaxTries

CheckUser(p, u, a) ==
  /\ At(p, "idle")
  /\ ~ Limited(u)
  /\ proc' = [proc EXCEPT ![p] = [Idle EXCEPT !.pc = "check_address", !.user = u, !.address = a]]
  /\ UNCHANGED <<account, session, limits, budget, history>>

CheckAddress(p) ==
  /\ At(p, "check_address")
  /\ IF Limited(proc[p].address) THEN Done(p) ELSE Goto(p, "compare")
  /\ UNCHANGED <<account, session, limits, budget, history>>

RightPassword(p) ==
  /\ At(p, "compare")
  /\ Active(proc[p].user)
  /\ proc' = [proc EXCEPT ![p].pc = "forget_user",
                          ![p].password = account[proc[p].user].password]
  /\ UNCHANGED <<account, session, limits, budget, history>>

(* Or no such account, or one that is not active.                          *)
WrongPassword(p) ==
  /\ At(p, "compare")
  /\ Spend("wrong password")
  /\ guesses' = [k \in Keys |-> IF k \in {proc[p].user, proc[p].address} THEN guesses[k] + 1
                                ELSE guesses[k]]
  /\ Goto(p, "count_user")
  /\ UNCHANGED <<account, session, tries, faults, history>>

CountUser(p) ==
  /\ At(p, "count_user")
  /\ tries' = [tries EXCEPT ![proc[p].user] = @ + 1]
  /\ Goto(p, "count_address")
  /\ UNCHANGED <<account, session, budget, guesses, history>>

CountAddress(p) ==
  /\ At(p, "count_address")
  /\ tries' = [tries EXCEPT ![proc[p].address] = @ + 1]
  /\ Done(p)
  /\ UNCHANGED <<account, session, budget, guesses, history>>

Forget(k) == tries' = [tries EXCEPT ![k] = 0] /\ guesses' = [guesses EXCEPT ![k] = 0]

ForgetUser(p) ==
  /\ At(p, "forget_user")
  /\ Forget(proc[p].user)
  /\ Goto(p, "forget_address")
  /\ UNCHANGED <<account, session, budget, history>>

ForgetAddress(p) ==
  /\ At(p, "forget_address")
  /\ Forget(proc[p].address)
  /\ Goto(p, "insert")
  /\ UNCHANGED <<account, session, budget, history>>

InsertSession(p, t) ==
  /\ At(p, "insert")
  /\ session[t] = None
  /\ Spend("session")
  /\ session' = [session EXCEPT ![t] =
                   [user |-> proc[p].user, password |-> proc[p].password, known |-> FALSE,
                    overtaken |-> proc[p].overtaken]]
  /\ proc' = [proc EXCEPT ![p].pc = "validate", ![p].token = t]
  /\ UNCHANGED <<account, limits, faults, history>>

(* handleLogin looks the new session up before it hands out the cookie.    *)
HandOut(p) ==
  /\ At(p, "validate")
  /\ session' = IF Valid(proc[p].token) THEN [session EXCEPT ![proc[p].token].known = TRUE]
                ELSE session
  /\ Done(p)
  /\ UNCHANGED <<account, limits, budget, history>>

-----------------------------------------------------------------------------
(* Requests with a session.  Each begins with ValidateSession, and         *)
(* requireRole and SetActive then look at what that returned.              *)

Operations == {"count_admins", "activate", "create", "compare_old", "logout"}

Permitted(op, actor, u) ==
  CASE op = "count_admins" -> account[actor].role = "admin" /\ u # actor
    [] op \in {"activate", "create"} -> account[actor].role = "admin"
    [] op \in {"compare_old", "logout"} -> u = actor

Request(p, t, op, u) ==
  /\ At(p, "idle")
  /\ Valid(t) /\ session[t].known
  /\ Permitted(op, session[t].user, u)
  /\ proc' = [proc EXCEPT ![p] = [Idle EXCEPT !.pc = op, !.user = u,
                                              !.token = IF op = "logout" THEN t ELSE None]]
  /\ UNCHANGED <<account, session, limits, budget, history>>

SetActive(u, active) ==
  account' = IF account[u] = None THEN account ELSE [account EXCEPT ![u].active = active]

(* SetActive off: the other administrators are counted, the role is read   *)
(* (it never changes), the account is deactivated, its sessions deleted.   *)
OtherAdmins_All(u) == {v \in Users : ActiveAdmin(v)}
OtherAdmins(u) == {v \in Users \ {u} : ActiveAdmin(v)}

CountAdmins_AnyUser(p) ==
  /\ At(p, "count_admins")
  /\ LET u == proc[p].user
     IN IF ActiveAdmin(u) /\ OtherAdmins(u) = {} THEN Done(p) ELSE Goto(p, "deactivate")
  /\ UNCHANGED <<account, session, limits, budget, history>>
CountAdmins(p) ==
  /\ At(p, "count_admins")
  /\ LET u == proc[p].user
     IN IF account[u] = None \/ (account[u].role = "admin" /\ OtherAdmins(u) = {})
        THEN Done(p) ELSE Goto(p, "deactivate")
  /\ UNCHANGED <<account, session, limits, budget, history>>

Deactivate(p) ==
  /\ At(p, "deactivate")
  /\ SetActive(proc[p].user, FALSE)
  /\ proc' = [q \in Procs |->
                IF q = p THEN [proc[p] EXCEPT !.pc = "revoke"]
                ELSE IF At(q, "deactivate") THEN [proc[q] EXCEPT !.overtaken = TRUE]
                ELSE proc[q]]
  /\ raced' = (raced \/ proc[p].overtaken)
  /\ UNCHANGED <<session, limits, budget, cut>>

Revoke(p) ==
  /\ At(p, "revoke")
  /\ DeleteSessions(proc[p].user)
  /\ Done(p)
  /\ UNCHANGED <<account, limits, budget, raced>>

Activate(p) ==
  /\ At(p, "activate")
  /\ SetActive(proc[p].user, TRUE)
  /\ Done(p)
  /\ UNCHANGED <<session, limits, budget, history>>

(* CreateUser; a name that is taken is refused by the table.               *)
CreateUser(p, role) ==
  /\ At(p, "create")
  /\ account' = IF account[proc[p].user] # None THEN account
                ELSE [account EXCEPT ![proc[p].user] =
                        [role |-> role, active |-> TRUE, password |-> 0]]
  /\ Done(p)
  /\ UNCHANGED <<session, limits, budget, history>>

Logout(p) ==
  /\ At(p, "logout")
  /\ session' = [session EXCEPT ![proc[p].token] = Gone]
  /\ Done(p)
  /\ UNCHANGED <<account, limits, budget, history>>

(* ChangePassword: the old one is compared, then one transaction.          *)
CompareOld(p) ==
  /\ At(p, "compare_old")
  /\ Goto(p, "change") \/ Done(p)
  /\ UNCHANGED <<account, session, limits, budget, history>>

LookedAt(q, u) == proc[q].pc \in {"forget_user", "forget_address", "insert"} /\ proc[q].user = u

Overtake(u) == [q \in Procs |-> IF LookedAt(q, u) THEN [proc[q] EXCEPT !.overtaken = TRUE]
                                ELSE proc[q]]

ChangePassword_KeepsSessions(p) ==
  /\ At(p, "change")
  /\ account[proc[p].user].password < MaxPassword
  /\ account' = [account EXCEPT ![proc[p].user].password = @ + 1]
  /\ proc' = [Overtake(proc[p].user) EXCEPT ![p] = Idle]
  /\ UNCHANGED <<session, limits, budget, history>>
ChangePassword(p) ==
  /\ At(p, "change")
  /\ account[proc[p].user].password < MaxPassword
  /\ account' = [account EXCEPT ![proc[p].user].password = @ + 1]
  /\ DeleteSessions(proc[p].user)
  /\ proc' = [Overtake(proc[p].user) EXCEPT ![p] = Idle]
  /\ UNCHANGED <<limits, budget, raced>>

-----------------------------------------------------------------------------
(* The command line: aclweb -reset-password, another process.              *)
ResetPassword(u) ==
  /\ account[u] # None /\ account[u].password < MaxPassword
  /\ Spend("reset")
  /\ account' = [account EXCEPT ![u].password = @ + 1, ![u].active = TRUE]
  /\ DeleteSessions(u)
  /\ proc' = Overtake(u)
  /\ UNCHANGED <<limits, faults, raced>>

(* Start-up, with an empty users table.                                    *)
CreateInitialAdmin(u) ==
  /\ \A v \in Users : account[v] = None
  /\ \A p \in Procs : At(p, "idle")
  /\ account' = [account EXCEPT ![u] = [role |-> "admin", active |-> TRUE, password |-> 0]]
  /\ UNCHANGED <<session, limits, proc, budget, history>>

(* Time: a session ends, and whether the ticker has purged it makes no     *)
(* difference to anyone; the window of a counter ends.                     *)
SessionExpires(t) ==
  /\ Exists(t)
  /\ Spend("end")
  /\ session' = [session EXCEPT ![t] = Gone]
  /\ UNCHANGED <<account, limits, proc, faults, history>>

WindowEnds(k) ==
  /\ tries[k] > 0 \/ guesses[k] > 0
  /\ Spend("end")
  /\ Forget(k)
  /\ UNCHANGED <<account, session, proc, faults, history>>

(* A statement fails.  Where the code ignores that it goes on; a failed    *)
(* look at a counter lets the login pass, a failed look at the account is  *)
(* a wrong password.                                                       *)
AfterFault(pc) ==
  CASE pc = "check_address" -> "compare"
    [] pc = "count_user" -> "count_address"
    [] pc = "forget_user" -> "forget_address"
    [] pc = "forget_address" -> "insert"
    [] OTHER -> "idle"

StatementFails(p) ==
  /\ Fault
  /\ ~ At(p, "idle") /\ ~ At(p, "compare")
  /\ IF AfterFault(proc[p].pc) = "idle" THEN Done(p) ELSE Goto(p, AfterFault(proc[p].pc))
  /\ cut' = cut \cup (IF At(p, "revoke") THEN {proc[p].user} ELSE {})
  /\ UNCHANGED <<account, session, limits, raced>>

(* The first look at a counter fails: the login passes it.                 *)
CheckUserFails(p, u, a) ==
  /\ Fault
  /\ At(p, "idle")
  /\ proc' = [proc EXCEPT ![p] = [Idle EXCEPT !.pc = "check_address", !.user = u, !.address = a]]
  /\ UNCHANGED <<account, session, limits, history>>

(* aclweb dies; what the database holds stays.                             *)
Crash ==
  /\ Fault
  /\ cut' = cut \cup {proc[p].user : p \in {q \in Procs : At(q, "revoke")}}
  /\ proc' = [p \in Procs |-> Idle]
  /\ UNCHANGED <<account, session, limits, raced>>

-----------------------------------------------------------------------------
LoginStep(p) ==
  \/ \E u \in Users, a \in Addresses : CheckUser(p, u, a) \/ CheckUserFails(p, u, a)
  \/ CheckAddress(p)
  \/ RightPassword(p)
  \/ WrongPassword(p)
  \/ CountUser(p)
  \/ CountAddress(p)
  \/ ForgetUser(p)
  \/ ForgetAddress(p)
  \/ \E t \in Tokens : InsertSession(p, t)
  \/ HandOut(p)

RequestStep(p) ==
  \/ \E t \in Tokens, op \in Operations, u \in Users : Request(p, t, op, u)
  \/ CountAdmins(p)
  \/ Deactivate(p)
  \/ Revoke(p)
  \/ Activate(p)
  \/ \E role \in {"admin", "other"} : CreateUser(p, role)
  \/ Logout(p)
  \/ CompareOld(p)
  \/ ChangePassword(p)

Next ==
  \/ \E p \in Procs : LoginStep(p) \/ RequestStep(p) \/ StatementFails(p)
  \/ \E u \in Users : ResetPassword(u) \/ CreateInitialAdmin(u)
  \/ \E t \in Tokens : SessionExpires(t)
  \/ \E k \in Keys : WindowEnds(k)
  \/ Crash

Spec == Init /\ [][Next]_vars

-----------------------------------------------------------------------------
OnAnAccount == {"deactivate", "revoke", "compare_old", "change", "forget_user",
                "forget_address", "insert"}
PCs == Operations \cup OnAnAccount \cup
  {"idle", "check_address", "compare", "count_user", "count_address", "validate"}

Served == [pc : PCs, user : Users \cup {None}, address : Addresses \cup {None},
           token : Tokens \cup {None}, password : 0..MaxPassword, overtaken : BOOLEAN]

Sound(r) == /\ r.pc # "idle" => r.user # None
            /\ r.pc \in OnAnAccount => account[r.user] # None

(* Every variable keeps to its values: sessions, and the statements that   *)
(* change an account, are about accounts that exist (auth.go:214-217).     *)
TypeOK ==
  /\ account \in [Users -> Accounts \cup {None}]
  /\ session \in [Tokens -> Sessions \cup {None, Gone}]
  /\ \A t \in Tokens : Exists(t) => account[session[t].user] # None
  /\ tries \in [Keys -> Nat] /\ guesses \in [Keys -> Nat]
  /\ left \in [Bounded -> Nat] /\ faults \in Nat
  /\ proc \in [Procs -> Served]
  /\ \A p \in Procs : Sound(proc[p])
  /\ cut \subseteq Users
  /\ raced \in BOOLEAN

(* An administrator remains who can log in.  The check and the UPDATE are  *)
(* two statements: it takes a deactivation in between them to leave none   *)
(* (auth.go:208-221).                                                      *)
AdminRemains ==
  \/ \E u \in Users : ActiveAdmin(u)
  \/ \A u \in Users : account[u] = None
  \/ raced

(* After a change or a reset of the password no session lives that was     *)
(* opened with an older one, except that of a login which had compared the *)
(* old password and not yet inserted its session (auth.go:107, 163-172).   *)
OldPasswordIsOut ==
  \A t \in Tokens : Exists(t) =>
    session[t].password = account[session[t].user].password \/ session[t].overtaken

(* No cookie in anyone's hands waits for its account to be activated       *)
(* again: deactivation and revocation are two statements, and a login may  *)
(* overlap both, but then handleLogin finds its session invalid.  Only a   *)
(* revocation that failed or died leaves some (auth.go:221-223,            *)
(* handler.go:155).                                                        *)
DeactivatedIsOut ==
  \A t \in Tokens : Exists(t) /\ session[t].known /\ ~ Active(session[t].user) =>
    \/ \E p \in Procs : At(p, "revoke") /\ proc[p].user = session[t].user
    \/ session[t].user \in cut

(* The limit is checked before the comparison and counted after it: within *)
(* one window no more passwords are tried on one name, or from one         *)
(* address, than the limit and the logins under way; a failed statement or *)
(* a crash may lose what is under way (auth.go:80-103, 261-285).           *)
TriesBounded ==
  \A k \in Keys : guesses[k] <= MaxTries - 1 + Cardinality(Procs) * (1 + faults)
=============================================================================
