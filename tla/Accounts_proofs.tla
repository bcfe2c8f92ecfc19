--------------------------- MODULE Accounts_proofs ---------------------------
(***************************************************************************)
(* Proofs about the accounts, for any users, tokens and requests under     *)
(* way: the type invariant, that an administrator remains, that old        *)
(* passwords are out, that deactivated accounts are out, and how many      *)
(* wrong passwords are compared.                                           *)
(***************************************************************************)
EXTENDS Accounts, FiniteSetTheorems, TLAPS

-----------------------------------------------------------------------------
(* Typing.  Accounts are never deleted, so whatever is on an account that  *)
(* exists stays so.                                                        *)

Grows == \A u \in Users : account[u] # None => account'[u] # None

(* The initial states are well typed.                                      *)
LEMMA InitType == Init => TypeOK
<1> SUFFICES ASSUME Init PROVE TypeOK
  OBVIOUS
<1> USE DEF Init
<1>1. account \in [Users -> Accounts \cup {None}]
  BY AccountsAssumption DEF Accounts
<1>2. session \in [Tokens -> Sessions \cup {None, Gone}]
  OBVIOUS
<1>3. \A t \in Tokens : ~ Exists(t)
  BY DEF Exists
<1>4. tries \in [Keys -> Nat] /\ guesses \in [Keys -> Nat]
  OBVIOUS
<1>5. left \in [Bounded -> Nat] /\ faults \in Nat
  BY AccountsAssumption
<1>6. Idle \in Served
  BY AccountsAssumption DEF Idle, Served, PCs
<1>7. \A p \in Procs : Sound(proc[p])
  BY DEF Idle, Sound, OnAnAccount
<1> QED
  BY <1>1, <1>2, <1>3, <1>4, <1>5, <1>6, <1>7 DEF TypeOK

(* A request is about a user.                                              *)
LEMMA AtWork == ASSUME TypeOK, NEW p \in Procs, ~ At(p, "idle")
                PROVE  /\ proc[p] \in Served
                       /\ proc[p].user \in Users
                       /\ proc[p].pc \in OnAnAccount => account[proc[p].user] # None
  BY DEF TypeOK, Served, Sound, At

(* Steps that change the table of users keep it one, and delete nobody.    *)
LEMMA AccountsTyped ==
  ASSUME TypeOK, [Next]_vars
  PROVE  account' \in [Users -> Accounts \cup {None}] /\ Grows
<1> DEFINE OK == account' \in [Users -> Accounts \cup {None}] /\ Grows
<1> USE DEF Grows
<1>1. CASE UNCHANGED account
  BY <1>1 DEF TypeOK
<1>2. \A u \in Users, b \in BOOLEAN : account[u] # None =>
        [account[u] EXCEPT !.active = b] \in Accounts
  BY DEF TypeOK, Accounts
<1>3. ASSUME NEW u \in Users, account[u] # None, account[u].password < MaxPassword
      PROVE  /\ [account[u] EXCEPT !.password = @ + 1] \in Accounts
             /\ [account[u] EXCEPT !.password = @ + 1, !.active = TRUE] \in Accounts
  <2>1. account[u] \in Accounts
    BY <1>3 DEF TypeOK
  <2>2. account[u].password + 1 \in 0..MaxPassword
    BY <1>3, <2>1, AccountsAssumption DEF Accounts
  <2> QED BY <2>1, <2>2 DEF Accounts
<1>4. ASSUME NEW u \in Users, NEW b \in BOOLEAN, SetActive(u, b) PROVE OK
  <2>1. CASE account[u] = None
    BY <1>1, <1>4, <2>1 DEF SetActive
  <2>2. CASE account[u] # None
    <3> DEFINE a == [account[u] EXCEPT !.active = b]
    <3>1. a \in Accounts /\ a # None
      BY <1>2, <2>2, AccountsAssumption
    <3>2. account' = [account EXCEPT ![u] = a]
      BY <1>4, <2>2 DEF SetActive
    <3> HIDE DEF a
    <3> QED BY <3>1, <3>2 DEF TypeOK
  <2> QED BY <2>1, <2>2
<1>5. ASSUME NEW p \in Procs, NEW role \in {"admin", "other"}, CreateUser(p, role) PROVE OK
  <2>1. [role |-> role, active |-> TRUE, password |-> 0] \in Accounts
    BY AccountsAssumption DEF Accounts
  <2> QED BY <1>5, <2>1, AccountsAssumption DEF CreateUser, TypeOK
<1>6. ASSUME NEW p \in Procs, ChangePassword(p) PROVE OK
  <2>1. proc[p].user \in Users /\ account[proc[p].user] # None
    BY <1>6 DEF ChangePassword, At, TypeOK, Sound, OnAnAccount, Served
  <2> QED BY <1>3, <1>6, <2>1, AccountsAssumption DEF ChangePassword, TypeOK
<1>7. ASSUME NEW u \in Users, ResetPassword(u) PROVE OK
  BY <1>3, <1>7, AccountsAssumption DEF ResetPassword, TypeOK
<1>8. ASSUME NEW u \in Users, CreateInitialAdmin(u) PROVE OK
  <2>1. [role |-> "admin", active |-> TRUE, password |-> 0] \in Accounts
    BY AccountsAssumption DEF Accounts
  <2> QED BY <1>8, <2>1, AccountsAssumption DEF CreateInitialAdmin, TypeOK
<1>9. ASSUME NEW p \in Procs, LoginStep(p) PROVE UNCHANGED account
  BY <1>9 DEF LoginStep, CheckUser, CheckUserFails, CheckAddress, RightPassword, WrongPassword,
              CountUser, CountAddress, ForgetUser, ForgetAddress, InsertSession, HandOut
<1>10. ASSUME NEW p \in Procs, RequestStep(p) PROVE OK
  BY <1>1, <1>4, <1>5, <1>6, <1>10, AtWork
  DEF At, RequestStep, Request, CountAdmins, Deactivate, Revoke, Activate, Logout, CompareOld
<1> QED
  BY <1>1, <1>7, <1>8, <1>9, <1>10
  DEF Next, vars, StatementFails, SessionExpires, WindowEnds, Crash

(* Sessions are inserted for an account that exists, marked, and deleted.  *)
LEMMA SessionsTyped ==
  ASSUME TypeOK, [Next]_vars
  PROVE  /\ session' \in [Tokens -> Sessions \cup {None, Gone}]
         /\ \A t \in Tokens : Exists(t)' => account'[session'[t].user] # None
<1> DEFINE OK == /\ session' \in [Tokens -> Sessions \cup {None, Gone}]
                 /\ \A t \in Tokens : Exists(t)' => account'[session'[t].user] # None
<1>1. Grows
  BY AccountsTyped
<1>2. \A t \in Tokens : Exists(t) => session[t] \in Sessions /\ session[t].user \in Users
  BY DEF TypeOK, Exists, Sessions
<1>3. ASSUME session' \in [Tokens -> Sessions \cup {None, Gone}],
             \A t \in Tokens : Exists(t)' => Exists(t) /\ session'[t].user = session[t].user
      PROVE  OK
  BY <1>1, <1>2, <1>3 DEF TypeOK, Grows
<1>4. CASE UNCHANGED session
  BY <1>3, <1>4 DEF TypeOK, Exists
<1>5. ASSUME NEW u \in Users, DeleteSessions(u) PROVE OK
  BY <1>3, <1>5 DEF DeleteSessions, TypeOK, Exists
<1>6. ASSUME NEW t \in Tokens \cup {None}, session' = [session EXCEPT ![t] = Gone] PROVE OK
  BY <1>3, <1>6 DEF TypeOK, Exists
<1>7. ASSUME NEW p \in Procs, NEW t \in Tokens, InsertSession(p, t) PROVE OK
  <2> DEFINE s == [user |-> proc[p].user, password |-> proc[p].password, known |-> FALSE,
                   overtaken |-> proc[p].overtaken]
  <2>1. proc[p] \in Served /\ proc[p].user \in Users /\ account[proc[p].user] # None
    BY <1>7, AtWork DEF InsertSession, At, OnAnAccount
  <2>2. s \in Sessions /\ account'[s.user] # None
    BY <1>1, <2>1 DEF Sessions, Served, Grows
  <2>3. session' = [session EXCEPT ![t] = s]
    BY <1>7 DEF InsertSession
  <2> HIDE DEF s
  <2>4. session' \in [Tokens -> Sessions \cup {None, Gone}]
    BY <2>2, <2>3 DEF TypeOK
  <2>5. \A v \in Tokens : Exists(v)' => account'[session'[v].user] # None
    <3> SUFFICES ASSUME NEW v \in Tokens, Exists(v)' PROVE account'[session'[v].user] # None
      OBVIOUS
    <3>1. CASE v = t
      BY <2>2, <2>3, <3>1 DEF TypeOK
    <3>2. CASE v # t
      <4>1. session'[v] = session[v]
        BY <2>3, <3>2 DEF TypeOK
      <4> QED BY <1>1, <1>2, <4>1 DEF Exists, TypeOK, Grows
    <3> QED BY <3>1, <3>2
  <2> QED BY <2>4, <2>5
<1>8. ASSUME NEW p \in Procs, HandOut(p) PROVE OK
  <2> DEFINE t == proc[p].token
             s == [session[t] EXCEPT !.known = TRUE]
  <2>1. CASE ~ Valid(t)
    BY <1>4, <1>8, <2>1 DEF HandOut
  <2>2. CASE Valid(t)
    <3>1. t \in Tokens \cup {None}
      BY <1>8, AtWork DEF HandOut, At, Served
    <3>2. session' = [session EXCEPT ![t] = [@ EXCEPT !.known = TRUE]]
      BY <1>8, <2>2 DEF HandOut
    <3>3. CASE t \in Tokens
      <4>1. s \in Sessions /\ s.user = session[t].user
        BY <1>2, <2>2, <3>3 DEF Valid, Sessions
      <4>2. session' = [session EXCEPT ![t] = s]
        BY <3>2
      <4>3. Exists(t)
        BY <2>2 DEF Valid
      <4> HIDE DEF s, t
      <4>4. session' \in [Tokens -> Sessions \cup {None, Gone}]
        BY <3>3, <4>1, <4>2 DEF TypeOK
      <4>5. \A v \in Tokens : Exists(v)' => Exists(v) /\ session'[v].user = session[v].user
        BY <3>3, <4>1, <4>2, <4>3 DEF TypeOK, Exists
      <4> QED BY <1>3, <4>4, <4>5
    <3>4. CASE t = None
      <4>1. session' = session
        BY <3>2, <3>4, AccountsAssumption DEF TypeOK
      <4> QED BY <1>4, <4>1
    <3> QED BY <3>1, <3>3, <3>4
  <2> QED BY <2>1, <2>2
<1>9. ASSUME NEW p \in Procs, LoginStep(p) PROVE OK
  BY <1>4, <1>7, <1>8, <1>9
  DEF LoginStep, CheckUser, CheckUserFails, CheckAddress, RightPassword, WrongPassword,
      CountUser, CountAddress, ForgetUser, ForgetAddress
<1>10. ASSUME NEW p \in Procs, RequestStep(p) PROVE OK
  <2>1. ASSUME Revoke(p) \/ ChangePassword(p) PROVE OK
    BY <1>5, <2>1, AtWork DEF Revoke, ChangePassword, At
  <2>2. ASSUME Logout(p) PROVE OK
    BY <1>6, <2>2, AtWork DEF Logout, At, Served
  <2> QED
    BY <1>4, <1>10, <2>1, <2>2
    DEF RequestStep, Request, CountAdmins, Deactivate, Activate, CreateUser, CompareOld
<1> QED
  BY <1>4, <1>5, <1>6, <1>9, <1>10
  DEF Next, vars, StatementFails, SessionExpires, WindowEnds, Crash, ResetPassword,
      CreateInitialAdmin

(* The counters stay natural numbers, and `cut` a set of users.            *)
LEMMA CountersTyped ==
  ASSUME TypeOK, [Next]_vars
  PROVE  /\ tries' \in [Keys -> Nat] /\ guesses' \in [Keys -> Nat]
         /\ left' \in [Bounded -> Nat] /\ faults' \in Nat
         /\ cut' \subseteq Users
         /\ raced' \in BOOLEAN
<1>1. tries' \in [Keys -> Nat] /\ guesses' \in [Keys -> Nat]
  <2> DEFINE OK == tries' \in [Keys -> Nat] /\ guesses' \in [Keys -> Nat]
  <2>1. CASE UNCHANGED limits
    BY <2>1 DEF limits, TypeOK
  <2>2. ASSUME NEW k, Forget(k) PROVE OK
    <3>1. CASE k \in Keys
      BY <2>2, <3>1 DEF Forget, TypeOK
    <3>2. CASE k \notin Keys
      BY <2>2, <3>2 DEF Forget, TypeOK
    <3> QED BY <3>1, <3>2
  <2>3. ASSUME NEW k, tries' = [tries EXCEPT ![k] = @ + 1], UNCHANGED guesses PROVE OK
    <3>1. CASE k \in Keys
      BY <2>3, <3>1 DEF TypeOK
    <3>2. CASE k \notin Keys
      BY <2>3, <3>2 DEF TypeOK
    <3> QED BY <3>1, <3>2
  <2>4. ASSUME NEW p \in Procs, WrongPassword(p) PROVE OK
    <3>1. tries' = tries
      BY <2>4 DEF WrongPassword
    <3>2. \A k \in Keys : guesses[k] \in Nat /\ guesses[k] + 1 \in Nat
      BY DEF TypeOK
    <3>3. guesses' \in [Keys -> Nat]
      BY <2>4, <3>2 DEF WrongPassword
    <3> QED BY <3>1, <3>3 DEF TypeOK
  <2>5. ASSUME NEW p \in Procs, LoginStep(p) PROVE OK
    BY <2>1, <2>2, <2>3, <2>4, <2>5
    DEF LoginStep, CheckUser, CheckUserFails, CheckAddress, RightPassword, CountUser, CountAddress,
        ForgetUser, ForgetAddress, InsertSession, HandOut
  <2>6. ASSUME NEW p \in Procs, RequestStep(p) PROVE OK
    BY <2>1, <2>6
    DEF RequestStep, Request, CountAdmins, Deactivate, Revoke, Activate, CreateUser, Logout,
        CompareOld, ChangePassword
  <2> QED
    BY <2>1, <2>2, <2>5, <2>6
    DEF Next, vars, limits, StatementFails, SessionExpires, WindowEnds, Crash, ResetPassword,
        CreateInitialAdmin
<1>2. left' \in [Bounded -> Nat] /\ faults' \in Nat
  <2> DEFINE OK == left' \in [Bounded -> Nat] /\ faults' \in Nat
  <2>1. CASE UNCHANGED budget
    BY <2>1 DEF budget, TypeOK
  <2>2. ASSUME NEW what \in Bounded, Spend(what), faults' \in Nat PROVE OK
    BY <2>2 DEF Spend, TypeOK
  <2>3. ASSUME Fault PROVE OK
    <3>1. faults' \in Nat
      BY <2>3 DEF Fault, TypeOK
    <3> QED BY <2>2, <2>3, <3>1 DEF Fault, Bounded
  <2>4. ASSUME NEW p \in Procs, LoginStep(p) PROVE OK
    <3>1. CASE WrongPassword(p)
      BY <2>2, <3>1 DEF TypeOK, Bounded, WrongPassword
    <3>2. ASSUME NEW t \in Tokens, InsertSession(p, t) PROVE OK
      BY <2>2, <3>2 DEF TypeOK, Bounded, InsertSession
    <3> QED
      BY <2>1, <2>3, <2>4, <3>1, <3>2
      DEF LoginStep, CheckUser, CheckUserFails, CheckAddress, RightPassword, CountUser,
          CountAddress, ForgetUser, ForgetAddress, HandOut
  <2>5. ASSUME NEW p \in Procs, RequestStep(p) PROVE OK
    BY <2>1, <2>5
    DEF RequestStep, Request, CountAdmins, Deactivate, Revoke, Activate, CreateUser, Logout,
        CompareOld, ChangePassword
  <2> QED
    BY <2>1, <2>2, <2>3, <2>4, <2>5
    DEF TypeOK, Bounded, Next, vars, budget, StatementFails, SessionExpires, WindowEnds, Crash, ResetPassword,
        CreateInitialAdmin
<1>3. cut' \subseteq Users
  <2>1. ASSUME NEW u, DeleteSessions(u) PROVE cut' \subseteq Users
    BY <2>1 DEF DeleteSessions, TypeOK
  <2>2. \A q \in Procs : At(q, "revoke") => proc[q].user \in Users
    BY AtWork DEF At
  <2>3. ASSUME NEW p \in Procs, LoginStep(p) \/ RequestStep(p) \/ StatementFails(p)
        PROVE  cut' \subseteq Users
    BY <2>1, <2>2, <2>3
    DEF TypeOK, history, LoginStep, CheckUser, CheckUserFails, CheckAddress, RightPassword,
        WrongPassword, CountUser, CountAddress, ForgetUser, ForgetAddress, InsertSession, HandOut,
        RequestStep, Request, CountAdmins, Deactivate, Revoke, Activate, CreateUser, Logout,
        CompareOld, ChangePassword, StatementFails
  <2>4. CASE UNCHANGED cut
    BY <2>4 DEF TypeOK
  <2>5. CASE Crash
    BY <2>2, <2>5 DEF Crash, TypeOK
  <2> QED
    BY <2>1, <2>3, <2>4, <2>5
    DEF Next, vars, history, SessionExpires, WindowEnds, ResetPassword, CreateInitialAdmin
<1>4. raced' \in BOOLEAN
  <2>1. ASSUME NEW p \in Procs, Deactivate(p) PROVE raced' \in BOOLEAN
    BY <2>1 DEF Deactivate
  <2>2. CASE UNCHANGED raced
    BY <2>2 DEF TypeOK
  <2> QED
    BY <2>1, <2>2
    DEF Next, vars, history, LoginStep, CheckUser, CheckUserFails, CheckAddress, RightPassword,
        WrongPassword, CountUser, CountAddress, ForgetUser, ForgetAddress, InsertSession, HandOut,
        RequestStep, Request, CountAdmins, Revoke, Activate, CreateUser, Logout,
        CompareOld, ChangePassword, StatementFails, SessionExpires, WindowEnds, Crash,
        ResetPassword, CreateInitialAdmin
<1> QED BY <1>1, <1>2, <1>3, <1>4

(* What a process may hold after a step.                                   *)
Good(r) == /\ r \in Served
           /\ r.pc # "idle" => r.user # None
           /\ r.pc \in OnAnAccount => account'[r.user] # None

(* Without a step of its own a process holds what it may hold.             *)
LEMMA GoodStays == ASSUME TypeOK, Grows PROVE \A p \in Procs : Good(proc[p])
<1> SUFFICES ASSUME NEW p \in Procs PROVE Good(proc[p])
  OBVIOUS
<1>1. proc[p] \in Served /\ Sound(proc[p])
  BY DEF TypeOK
<1>2. CASE At(p, "idle")
  BY <1>1, <1>2 DEF Good, At, OnAnAccount
<1>3. CASE ~ At(p, "idle")
  BY <1>1, <1>3, AtWork DEF Good, Grows, Sound
<1> QED BY <1>2, <1>3

(* A process that is done may be idle.                                     *)
LEMMA GoodIdle == Idle \in Served /\ Good(Idle)
<1>1. Idle \in Served
  BY AccountsAssumption DEF Idle, Served, PCs
<1> QED BY <1>1 DEF Good, Idle, OnAnAccount

(* A request goes on to another statement, or its login is overtaken.      *)
LEMMA GoodEdit ==
  ASSUME TypeOK, Grows, NEW p \in Procs
  PROVE  /\ Good([proc[p] EXCEPT !.overtaken = TRUE])
         /\ \A pc \in PCs : /\ ~ At(p, "idle")
                            /\ pc \in OnAnAccount => account[proc[p].user] # None
                            => Good([proc[p] EXCEPT !.pc = pc])
<1>1. Good(proc[p])
  BY GoodStays
<1>2. Good([proc[p] EXCEPT !.overtaken = TRUE])
  <2> DEFINE r == [proc[p] EXCEPT !.overtaken = TRUE]
  <2>1. r \in Served
    BY <1>1 DEF Good, Served
  <2>2. r.pc = proc[p].pc /\ r.user = proc[p].user
    BY <1>1 DEF Good, Served
  <2> HIDE DEF r
  <2>3. Good(r)
    BY <1>1, <2>1, <2>2 DEF Good
  <2> QED BY <2>3 DEF r
<1>3. ASSUME NEW pc \in PCs, ~ At(p, "idle"), pc \in OnAnAccount => account[proc[p].user] # None
      PROVE  Good([proc[p] EXCEPT !.pc = pc])
  <2> DEFINE r == [proc[p] EXCEPT !.pc = pc]
  <2>1. r \in Served
    BY <1>1 DEF Good, Served
  <2>2. r.pc = pc /\ r.user = proc[p].user
    BY <1>1 DEF Good, Served
  <2>3. proc[p].user \in Users /\ proc[p].user # None
    BY <1>3, AtWork, AccountsAssumption
  <2> HIDE DEF r
  <2>4. Good(r)
    BY <1>3, <2>1, <2>2, <2>3 DEF Good, Grows
  <2> QED BY <2>4 DEF r
<1> QED BY <1>2, <1>3

(* Every step leaves each process with something it may hold.              *)
LEMMA ProcsTyped ==
  ASSUME TypeOK, [Next]_vars
  PROVE  proc' \in [Procs -> Served] /\ \A p \in Procs : Sound(proc[p])'
<1> DEFINE OK == proc' \in [Procs -> Served] /\ \A q \in Procs : Good(proc'[q])
<1> SUFFICES OK
  BY DEF Good, Sound
<1>1. Grows /\ \A q \in Procs : Good(proc[q])
  BY AccountsTyped, GoodStays
<1>2. CASE UNCHANGED proc
  <2>1. \A q \in Procs : Good(proc'[q])
    BY <1>1, <1>2
  <2>2. proc' \in [Procs -> Served]
    BY <1>2 DEF TypeOK
  <2> QED BY <2>1, <2>2
<1>3. ASSUME NEW p \in Procs, proc' = [proc EXCEPT ![p] = proc'[p]], Good(proc'[p]) PROVE OK
  <2>1. proc'[p] \in Served /\ \A q \in Procs \ {p} : proc'[q] = proc[q]
    BY <1>3 DEF TypeOK, Good
  <2>2. proc' \in [Procs -> Served]
    BY <1>3, <2>1 DEF TypeOK
  <2>3. ASSUME NEW q \in Procs PROVE Good(proc'[q])
    BY <1>1, <1>3, <2>1
  <2> QED BY <2>2, <2>3
<1>4. ASSUME NEW p \in Procs, Done(p) PROVE OK
  <2>1. proc'[p] = Idle
    BY <1>4 DEF Done, TypeOK
  <2> QED BY <1>3, <1>4, <2>1, GoodIdle DEF Done
<1>5. ASSUME NEW p \in Procs, NEW pc \in PCs, Goto(p, pc), ~ At(p, "idle"),
             pc \in OnAnAccount => account[proc[p].user] # None
      PROVE  OK
  <2>1. proc'[p] = [proc[p] EXCEPT !.pc = pc] /\ proc' = [proc EXCEPT ![p] = proc'[p]]
    BY <1>5 DEF Goto, TypeOK
  <2>2. Good([proc[p] EXCEPT !.pc = pc])
    BY <1>1, <1>5, GoodEdit
  <2>3. Good(proc'[p])
    BY <2>1, <2>2
  <2> QED BY <1>3, <2>1, <2>3
<1>6. ASSUME NEW p \in Procs, NEW r \in Served, proc' = [proc EXCEPT ![p] = r],
             r.user # None, r.pc \in OnAnAccount => account'[r.user] # None
      PROVE  OK
  <2>1. proc'[p] = r /\ Good(r)
    BY <1>6 DEF TypeOK, Good
  <2> QED BY <1>3, <1>6, <2>1
<1>7. ASSUME NEW p \in Procs, LoginStep(p) PROVE OK
  <2>1. ASSUME NEW u \in Users, NEW a \in Addresses,
               CheckUser(p, u, a) \/ CheckUserFails(p, u, a)
        PROVE  OK
    <3> DEFINE r == [Idle EXCEPT !.pc = "check_address", !.user = u, !.address = a]
    <3>1. proc' = [proc EXCEPT ![p] = r]
      BY <2>1 DEF CheckUser, CheckUserFails
    <3>2. r \in Served
      BY GoodIdle DEF Served, PCs
    <3>3. r.user # None /\ r.pc \notin OnAnAccount
      BY AccountsAssumption DEF Idle, OnAnAccount
    <3> HIDE DEF r
    <3> QED BY <1>6, <3>1, <3>2, <3>3
  <2>2. ASSUME CheckAddress(p) \/ WrongPassword(p) \/ CountUser(p) \/ CountAddress(p) \/ HandOut(p)
        PROVE  OK
    BY <1>4, <1>5, <2>2
    DEF CheckAddress, WrongPassword, CountUser, CountAddress, HandOut, At, PCs, OnAnAccount
  <2>3. ASSUME RightPassword(p) PROVE OK
    <3> DEFINE u == proc[p].user
               r == [proc[p] EXCEPT !.pc = "forget_user", !.password = account[u].password]
    <3>1. proc[p] \in Served /\ u \in Users /\ u # None
      BY <2>3, AtWork, AccountsAssumption DEF RightPassword, At
    <3>2. account[u] # None /\ account[u].password \in 0..MaxPassword
      BY <2>3, <3>1 DEF RightPassword, Active, TypeOK, Accounts
    <3>3. proc' = [proc EXCEPT ![p] = r]
      BY <2>3 DEF RightPassword, TypeOK
    <3>4. r \in Served
      BY <3>1, <3>2 DEF Served, PCs, OnAnAccount
    <3>5. r.user = u
      BY <3>1 DEF Served
    <3>6. account'[u] # None
      BY <1>1, <3>1, <3>2 DEF Grows
    <3> HIDE DEF r, u
    <3> QED BY <1>6, <3>1, <3>3, <3>4, <3>5, <3>6
  <2>4. ASSUME ForgetUser(p) \/ ForgetAddress(p) PROVE OK
    <3>1. account[proc[p].user] # None
      BY <2>4, AtWork DEF ForgetUser, ForgetAddress, At, OnAnAccount
    <3> QED BY <1>5, <2>4, <3>1 DEF ForgetUser, ForgetAddress, At, PCs, OnAnAccount
  <2>5. ASSUME NEW t \in Tokens, InsertSession(p, t) PROVE OK
    <3> DEFINE r == [proc[p] EXCEPT !.pc = "validate", !.token = t]
    <3>1. proc[p] \in Served /\ proc[p].user # None
      BY <2>5, AtWork, AccountsAssumption DEF InsertSession, At
    <3>2. proc' = [proc EXCEPT ![p] = r]
      BY <2>5 DEF InsertSession, TypeOK
    <3>3. r \in Served
      BY <3>1 DEF Served, PCs
    <3>4. r.user = proc[p].user /\ r.pc \notin OnAnAccount
      BY <3>1 DEF Served, OnAnAccount
    <3> HIDE DEF r
    <3> QED BY <1>6, <3>1, <3>2, <3>3, <3>4
  <2> QED BY <1>7, <2>1, <2>2, <2>3, <2>4, <2>5 DEF LoginStep
<1>8. ASSUME NEW p \in Procs, RequestStep(p) PROVE OK
  <2>1. ASSUME NEW t \in Tokens, NEW op \in Operations, NEW u \in Users, Request(p, t, op, u)
        PROVE  OK
    <3> DEFINE r == [Idle EXCEPT !.pc = op, !.user = u,
                                 !.token = IF op = "logout" THEN t ELSE None]
    <3>1. proc' = [proc EXCEPT ![p] = r]
      BY <2>1 DEF Request
    <3>2. r \in Served
      BY GoodIdle DEF Served, PCs
    <3>3. r.user = u /\ r.pc = op /\ u # None
      BY AccountsAssumption DEF Idle
    <3>4. op \in OnAnAccount => account[u] # None
      BY <2>1 DEF Request, Valid, Active, Permitted, Operations, OnAnAccount
    <3> HIDE DEF r
    <3> QED BY <1>1, <1>6, <3>1, <3>2, <3>3, <3>4 DEF Grows
  <2>2. ASSUME CountAdmins(p) PROVE OK
    BY <1>4, <1>5, <2>2 DEF CountAdmins, At, PCs, OnAnAccount
  <2>3. ASSUME Deactivate(p) PROVE OK
    <3>1. account[proc[p].user] # None
      BY <2>3, AtWork DEF Deactivate, At, OnAnAccount
    <3>2. \A q \in Procs : Good(proc'[q])
      BY <1>1, <2>3, <3>1, GoodEdit DEF Deactivate, At, PCs, OnAnAccount
    <3> QED BY <2>3, <3>2 DEF Deactivate, Good
  <2>4. ASSUME CompareOld(p) PROVE OK
    <3>1. account[proc[p].user] # None
      BY <2>4, AtWork DEF CompareOld, At, OnAnAccount
    <3> QED BY <1>4, <1>5, <2>4, <3>1 DEF CompareOld, At, PCs, OnAnAccount
  <2>5. ASSUME ChangePassword(p) PROVE OK
    <3>1. \A q \in Procs : Good(proc'[q])
      BY <1>1, <2>5, GoodEdit, GoodIdle DEF ChangePassword, Overtake
    <3> QED BY <2>5, <3>1 DEF ChangePassword, Overtake, Good
  <2> QED
    BY <1>4, <1>8, <2>1, <2>2, <2>3, <2>4, <2>5
    DEF RequestStep, Revoke, Activate, CreateUser, Logout
<1>9. ASSUME NEW p \in Procs, StatementFails(p) PROVE OK
  <2>1. ~ At(p, "idle") /\ AfterFault(proc[p].pc) \in PCs
    BY <1>9 DEF StatementFails, AfterFault, PCs, OnAnAccount
  <2>2. AfterFault(proc[p].pc) \in OnAnAccount => account[proc[p].user] # None
    BY <2>1, AtWork DEF AfterFault, OnAnAccount
  <2> QED BY <1>4, <1>5, <1>9, <2>1, <2>2 DEF StatementFails
<1>10. ASSUME NEW u \in Users, ResetPassword(u) PROVE OK
  <2>1. \A q \in Procs : Good(proc'[q])
    BY <1>1, <1>10, GoodEdit DEF ResetPassword, Overtake
  <2> QED BY <1>10, <2>1 DEF ResetPassword, Overtake, Good
<1>11. CASE Crash
  <2>1. \A q \in Procs : proc'[q] = Idle
    BY <1>11 DEF Crash
  <2>2. \A q \in Procs : Good(proc'[q])
    BY <2>1, GoodIdle
  <2>3. proc' \in [Procs -> Served]
    BY <1>11, GoodIdle DEF Crash
  <2> QED BY <2>2, <2>3
<1> HIDE DEF OK
<1> QED
  BY <1>2, <1>7, <1>8, <1>9, <1>10, <1>11
  DEF Next, vars, SessionExpires, WindowEnds, CreateInitialAdmin

(* The state stays typed in every step.                                    *)
LEMMA NextType == TypeOK /\ [Next]_vars => TypeOK'
<1> SUFFICES ASSUME TypeOK, [Next]_vars PROVE TypeOK'
  OBVIOUS
<1>1. account' \in [Users -> Accounts \cup {None}]
  BY AccountsTyped
<1> QED BY <1>1, SessionsTyped, CountersTyped, ProcsTyped DEF TypeOK

(* TypeOK is an invariant: sessions, and the statements that change an     *)
(* account, are about accounts that exist.                                 *)
THEOREM TypeCorrect == Spec => []TypeOK
  BY InitType, NextType, PTL DEF Spec

-----------------------------------------------------------------------------
(* What a step does to one account and to one process.                     *)

Deactivated(u) == \E p \in Procs : Deactivate(p) /\ proc[p].user = u
PasswordChanged(u) == \/ \E p \in Procs : ChangePassword(p) /\ proc[p].user = u
                      \/ ResetPassword(u)

(* Roles are for life; an account is deactivated by Deactivate only, and   *)
(* its password changed by ChangePassword and ResetPassword.               *)
LEMMA AccountMoves ==
  ASSUME TypeOK, [Next]_vars, NEW u \in Users, account[u] # None
  PROVE  /\ account'[u] # None
         /\ account'[u].role = account[u].role
         /\ account[u].active => account'[u].active \/ Deactivated(u)
         /\ account'[u].password = account[u].password \/ PasswordChanged(u)
<1> DEFINE OK == /\ account'[u].role = account[u].role
                 /\ account[u].active => account'[u].active \/ Deactivated(u)
                 /\ account'[u].password = account[u].password \/ PasswordChanged(u)
<1>1. account'[u] # None
  BY AccountsTyped DEF Grows
<1> SUFFICES OK
  BY <1>1
<1>2. account[u] \in Accounts
  BY DEF TypeOK
<1>3. ASSUME account'[u] = account[u] PROVE OK
  BY <1>3
<1>4. ASSUME NEW p \in Procs, Deactivate(p) PROVE OK
  <2>1. CASE proc[p].user = u
    <3>1. account'[u] = [account[u] EXCEPT !.active = FALSE]
      BY <1>4, <2>1 DEF Deactivate, SetActive, TypeOK
    <3> QED BY <1>2, <1>4, <2>1, <3>1 DEF Accounts, Deactivated
  <2>2. CASE proc[p].user # u
    BY <1>3, <1>4, <2>2 DEF Deactivate, SetActive, TypeOK
  <2> QED BY <2>1, <2>2
<1>5. ASSUME NEW p \in Procs, Activate(p) PROVE OK
  <2>1. CASE proc[p].user = u
    <3>1. account'[u] = [account[u] EXCEPT !.active = TRUE]
      BY <1>5, <2>1 DEF Activate, SetActive, TypeOK
    <3> QED BY <1>2, <3>1 DEF Accounts
  <2>2. CASE proc[p].user # u
    BY <1>3, <1>5, <2>2 DEF Activate, SetActive, TypeOK
  <2> QED BY <2>1, <2>2
<1>6. ASSUME NEW p \in Procs, NEW role \in {"admin", "other"}, CreateUser(p, role) PROVE OK
  BY <1>3, <1>6 DEF CreateUser, TypeOK
<1>7. ASSUME NEW p \in Procs, ChangePassword(p) PROVE OK
  <2>1. CASE proc[p].user = u
    <3>1. account'[u] = [account[u] EXCEPT !.password = @ + 1]
      BY <1>7, <2>1 DEF ChangePassword, TypeOK
    <3> QED BY <1>2, <1>7, <2>1, <3>1 DEF Accounts, PasswordChanged
  <2>2. CASE proc[p].user # u
    BY <1>3, <1>7, <2>2 DEF ChangePassword, TypeOK
  <2> QED BY <2>1, <2>2
<1>8. ASSUME NEW v \in Users, ResetPassword(v) PROVE OK
  <2>1. CASE v = u
    <3>1. account'[u] = [account[u] EXCEPT !.password = @ + 1, !.active = TRUE]
      BY <1>8, <2>1 DEF ResetPassword, TypeOK
    <3> QED BY <1>2, <1>8, <2>1, <3>1 DEF Accounts, PasswordChanged
  <2>2. CASE v # u
    BY <1>3, <1>8, <2>2 DEF ResetPassword, TypeOK
  <2> QED BY <2>1, <2>2
<1>9. ASSUME NEW v \in Users, CreateInitialAdmin(v) PROVE FALSE
  BY <1>9 DEF CreateInitialAdmin
<1>10. ASSUME NEW p \in Procs, LoginStep(p) PROVE UNCHANGED account
  BY <1>10 DEF LoginStep, CheckUser, CheckUserFails, CheckAddress, RightPassword, WrongPassword,
               CountUser, CountAddress, ForgetUser, ForgetAddress, InsertSession, HandOut
<1>11. ASSUME NEW p \in Procs, RequestStep(p) PROVE OK
  BY <1>3, <1>4, <1>5, <1>6, <1>7, <1>11
  DEF RequestStep, Request, CountAdmins, Revoke, Logout, CompareOld
<1> HIDE DEF OK
<1> QED
  BY <1>3, <1>8, <1>9, <1>10, <1>11
  DEF Next, vars, StatementFails, SessionExpires, WindowEnds, Crash

Own(q) == LoginStep(q) \/ RequestStep(q) \/ StatementFails(q)

(* A process moves by its own steps; others overtake or kill it.           *)
LEMMA ProcMoves ==
  ASSUME TypeOK, [Next]_vars, NEW q \in Procs
  PROVE  \/ proc'[q] = proc[q]
         \/ Crash /\ proc'[q] = Idle
         \/ proc'[q] = [proc[q] EXCEPT !.overtaken = TRUE]
         \/ Own(q)
<1> DEFINE OK == \/ proc'[q] = proc[q]
                 \/ Crash /\ proc'[q] = Idle
                 \/ proc'[q] = [proc[q] EXCEPT !.overtaken = TRUE]
                 \/ Own(q)
<1>1. ASSUME NEW p \in Procs \ {q}, LoginStep(p) PROVE proc'[q] = proc[q]
  BY <1>1
  DEF TypeOK, Goto, Done, LoginStep, CheckUser, CheckUserFails, CheckAddress, RightPassword,
      WrongPassword, CountUser, CountAddress, ForgetUser, ForgetAddress, InsertSession, HandOut
<1>2. ASSUME NEW p \in Procs \ {q}, StatementFails(p) PROVE proc'[q] = proc[q]
  BY <1>2 DEF TypeOK, Goto, Done, StatementFails
<1>3. ASSUME NEW p \in Procs \ {q}, Deactivate(p) PROVE OK
  BY <1>3 DEF Deactivate
<1>4. ASSUME NEW p \in Procs \ {q}, ChangePassword(p) PROVE OK
  BY <1>4 DEF ChangePassword, Overtake
<1>5. ASSUME NEW p \in Procs \ {q}, RequestStep(p) PROVE OK
  <2>1. CASE Deactivate(p) \/ ChangePassword(p)
    BY <1>3, <1>4, <2>1
  <2>2. CASE ~ (Deactivate(p) \/ ChangePassword(p))
    <3>1. proc'[q] = proc[q]
      BY <1>5, <2>2
      DEF TypeOK, Goto, Done, RequestStep, Request, CountAdmins, Revoke, Activate, CreateUser,
          Logout, CompareOld
    <3> QED BY <3>1
  <2> QED BY <2>1, <2>2
<1>6. ASSUME NEW u \in Users, ResetPassword(u) PROVE OK
  BY <1>6 DEF ResetPassword, Overtake
<1>7. ASSUME Crash PROVE OK
  BY <1>7 DEF Crash
<1>8. ASSUME UNCHANGED proc PROVE OK
  BY <1>8
<1> HIDE DEF OK
<1>9. ASSUME Own(q) PROVE OK
  BY <1>9 DEF OK
<1>10. ASSUME proc'[q] = proc[q] PROVE OK
  BY <1>10 DEF OK
<1>11. OK
  BY <1>1, <1>2, <1>5, <1>6, <1>7, <1>8, <1>9, <1>10
  DEF Own, Next, vars, SessionExpires, WindowEnds, CreateInitialAdmin
<1> QED BY <1>11 DEF OK

(* The doors to the statements the invariants are about.                   *)
Doors(p) ==
  LET pc == proc'[p].pc
      Follows(from, to) == pc = to => At(p, from) /\ proc'[p] = [proc[p] EXCEPT !.pc = to]
  IN /\ pc = "deactivate" => CountAdmins(p)
     /\ pc = "create" => \E t \in Tokens : Valid(t) /\ UNCHANGED account
     /\ pc = "forget_user" => RightPassword(p)
     /\ Follows("forget_user", "forget_address")
     /\ Follows("forget_address", "insert")

(* A process comes to those statements by the doors only.                  *)
LEMMA PcMoves == ASSUME TypeOK, NEW p \in Procs, Own(p) PROVE Doors(p)
<1>1. \A pc : Goto(p, pc) => proc'[p] = [proc[p] EXCEPT !.pc = pc] /\ proc'[p].pc = pc
  BY DEF Goto, TypeOK, Served
<1>2. Done(p) => proc'[p].pc = "idle"
  BY DEF Done, TypeOK, Idle
<1>3. ASSUME LoginStep(p) PROVE Doors(p)
  <2>1. ASSUME NEW u \in Users, NEW a \in Addresses,
               CheckUser(p, u, a) \/ CheckUserFails(p, u, a)
        PROVE  proc'[p].pc = "check_address"
    <3>1. proc'[p] = [Idle EXCEPT !.pc = "check_address", !.user = u, !.address = a]
      BY <2>1 DEF CheckUser, CheckUserFails, TypeOK
    <3> QED BY <3>1 DEF Idle
  <2>2. ASSUME RightPassword(p) PROVE proc'[p].pc = "forget_user"
    BY <2>2 DEF RightPassword, TypeOK, Served
  <2>3. ASSUME NEW t \in Tokens, InsertSession(p, t) PROVE proc'[p].pc = "validate"
    BY <2>3 DEF InsertSession, TypeOK, Served
  <2>4. ASSUME CheckAddress(p) \/ WrongPassword(p) \/ CountUser(p) \/ CountAddress(p) \/ HandOut(p)
        PROVE  proc'[p].pc \in {"idle", "compare", "count_user", "count_address"}
    BY <1>1, <1>2, <2>4 DEF CheckAddress, WrongPassword, CountUser, CountAddress, HandOut
  <2>5. ASSUME ForgetUser(p) \/ ForgetAddress(p) PROVE Doors(p)
    BY <1>1, <2>5 DEF ForgetUser, ForgetAddress, Doors
  <2> QED BY <1>3, <2>1, <2>2, <2>3, <2>4, <2>5 DEF LoginStep, Doors
<1>4. ASSUME RequestStep(p) PROVE Doors(p)
  <2>1. ASSUME NEW t \in Tokens, NEW op \in Operations, NEW u \in Users, Request(p, t, op, u)
        PROVE  proc'[p].pc = op /\ Valid(t) /\ UNCHANGED account
    BY <2>1 DEF Request, TypeOK, Idle
  <2>2. ASSUME Deactivate(p) PROVE proc'[p].pc = "revoke"
    BY <2>2 DEF Deactivate, TypeOK, Served
  <2>3. ASSUME ChangePassword(p) PROVE proc'[p].pc = "idle"
    BY <2>3 DEF ChangePassword, Overtake, Idle
  <2>4. ASSUME CompareOld(p) PROVE proc'[p].pc \in {"idle", "change"}
    BY <1>1, <1>2, <2>4 DEF CompareOld
  <2>5. ASSUME NEW t \in Tokens, NEW op \in Operations, NEW u \in Users, Request(p, t, op, u)
        PROVE  Doors(p)
    BY <2>1, <2>5 DEF Doors, Operations
  <2>6. ASSUME CountAdmins(p) PROVE Doors(p)
    <3>1. proc'[p].pc \in {"idle", "deactivate"}
      BY <1>1, <1>2, <2>6 DEF CountAdmins
    <3> QED BY <2>6, <3>1 DEF Doors
  <2> QED
    BY <1>2, <1>4, <2>2, <2>3, <2>4, <2>5, <2>6
    DEF RequestStep, Revoke, Activate, CreateUser, Logout, Doors
<1>5. ASSUME StatementFails(p) PROVE Doors(p)
  <2>1. CASE Done(p)
    BY <1>2, <2>1 DEF Doors
  <2>2. CASE Goto(p, AfterFault(proc[p].pc))
    <3> DEFINE pc == AfterFault(proc[p].pc)
    <3>1. /\ pc \in {"compare", "count_address", "forget_address", "insert", "idle"}
          /\ pc = "forget_address" => At(p, "forget_user")
          /\ pc = "insert" => At(p, "forget_address")
      BY DEF AfterFault, At
    <3> HIDE DEF pc
    <3>2. proc'[p] = [proc[p] EXCEPT !.pc = pc] /\ proc'[p].pc = pc
      BY <1>1, <2>2 DEF pc
    <3> QED BY <3>1, <3>2 DEF Doors
  <2> QED BY <1>5, <2>1, <2>2 DEF StatementFails
<1> QED BY <1>3, <1>4, <1>5 DEF Own

-----------------------------------------------------------------------------
(* An administrator remains.  The invariant says what the count of the     *)
(* other administrators is worth when the UPDATE comes: unless another     *)
(* deactivation overtook it, what it found still holds.                    *)

CountHolds(p) == \/ account[proc[p].user].role # "admin"
                 \/ OtherAdmins(proc[p].user) # {}

AdminInv ==
  /\ TypeOK
  /\ AdminRemains
  /\ \A p \in Procs : At(p, "deactivate") /\ ~ proc[p].overtaken => CountHolds(p)
  /\ \A p \in Procs : At(p, "create") => \E u \in Users : account[u] # None

(* Nobody is at work at first, and the table is empty or has one.          *)
LEMMA InitAdmin == Init => AdminInv
<1> SUFFICES ASSUME Init PROVE AdminInv
  OBVIOUS
<1>1. TypeOK
  BY InitType
<1>2. AdminRemains
  BY DEF Init, AdminRemains, ActiveAdmin, Active
<1>3. \A p \in Procs : ~ At(p, "deactivate") /\ ~ At(p, "create")
  BY DEF Init, Idle, At
<1> QED BY <1>1, <1>2, <1>3 DEF AdminInv

(* A deactivation whose count still holds leaves an administrator.         *)
LEMMA AdminRemainsStays == AdminInv /\ [Next]_vars => AdminRemains'
<1> SUFFICES ASSUME AdminInv, [Next]_vars, ~ raced' PROVE AdminRemains'
  BY DEF AdminRemains
<1> USE DEF AdminInv
<1>1. ~ raced
  <2>1. \A p \in Procs : Deactivate(p) => ~ raced
    BY DEF Deactivate
  <2> QED
    BY <2>1
    DEF Next, vars, history, LoginStep, CheckUser, CheckUserFails, CheckAddress, RightPassword,
        WrongPassword, CountUser, CountAddress, ForgetUser, ForgetAddress, InsertSession, HandOut,
        RequestStep, Request, CountAdmins, Revoke, Activate, CreateUser, Logout,
        CompareOld, ChangePassword, StatementFails, SessionExpires, WindowEnds, Crash,
        ResetPassword, CreateInitialAdmin
<1>2. CASE \A u \in Users : account[u] = None
  <2>1. ASSUME NEW u \in Users, CreateInitialAdmin(u) PROVE AdminRemains'
    <3>1. account'[u] = [role |-> "admin", active |-> TRUE, password |-> 0]
      BY <2>1 DEF CreateInitialAdmin, TypeOK
    <3>2. [role |-> "admin", active |-> TRUE, password |-> 0] \in Accounts
      BY AccountsAssumption DEF Accounts
    <3>3. account'[u] # None
      BY <3>1, <3>2, AccountsAssumption
    <3> QED BY <3>1, <3>3 DEF AdminRemains, ActiveAdmin, Active
  <2>2. ASSUME UNCHANGED account PROVE AdminRemains'
    BY <1>2, <2>2 DEF AdminRemains
  <2>3. \A p \in Procs : /\ ~ At(p, "deactivate") /\ ~ At(p, "change") /\ ~ At(p, "create")
                         /\ Activate(p) => UNCHANGED account
    BY <1>2, AtWork DEF At, OnAnAccount, Activate, SetActive
  <2>4. ASSUME NEW p \in Procs, LoginStep(p) PROVE UNCHANGED account
    BY <2>4 DEF LoginStep, CheckUser, CheckUserFails, CheckAddress, RightPassword, WrongPassword,
               CountUser, CountAddress, ForgetUser, ForgetAddress, InsertSession, HandOut
  <2>5. ASSUME NEW p \in Procs, RequestStep(p) PROVE UNCHANGED account
    BY <2>3, <2>5
    DEF RequestStep, Request, CountAdmins, Deactivate, Revoke, Activate, CreateUser, Logout,
        CompareOld, ChangePassword
  <2> QED
    BY <1>2, <2>1, <2>2, <2>4, <2>5
    DEF Next, vars, StatementFails, SessionExpires, WindowEnds, Crash, ResetPassword
<1>3. CASE \E w \in Users : ActiveAdmin(w)
  <2>1. PICK w \in Users : ActiveAdmin(w)
    BY <1>3
  <2>2. account'[w] # None /\ account'[w].role = "admin"
    BY <2>1, AccountMoves DEF ActiveAdmin, Active
  <2>3. CASE account'[w].active
    BY <2>2, <2>3 DEF AdminRemains, ActiveAdmin, Active
  <2>4. CASE ~ account'[w].active
    <3>1. Deactivated(w)
      BY <2>1, <2>4, AccountMoves DEF ActiveAdmin, Active
    <3>2. PICK p \in Procs : Deactivate(p) /\ proc[p].user = w
      BY <3>1 DEF Deactivated
    <3>3. At(p, "deactivate") /\ ~ proc[p].overtaken
      BY <3>2 DEF Deactivate
    <3>4. OtherAdmins(w) # {}
      BY <2>1, <3>2, <3>3 DEF CountHolds, ActiveAdmin
    <3>5. PICK v \in Users \ {w} : ActiveAdmin(v)
      BY <3>4 DEF OtherAdmins
    <3>6. account'[v] = account[v]
      BY <3>2, <3>5 DEF Deactivate, SetActive, TypeOK
    <3> QED BY <3>5, <3>6 DEF AdminRemains, ActiveAdmin, Active
  <2> QED BY <2>3, <2>4
<1> QED BY <1>1, <1>2, <1>3 DEF AdminRemains

(* A count is made at the UPDATE's door, and only another deactivation,    *)
(* which marks it, can make it wrong.                                      *)
LEMMA CountStays ==
  AdminInv /\ [Next]_vars =>
    (\A p \in Procs : At(p, "deactivate") /\ ~ proc[p].overtaken => CountHolds(p))'
<1> SUFFICES ASSUME AdminInv, [Next]_vars, NEW p \in Procs,
                    At(p, "deactivate")', ~ proc'[p].overtaken
             PROVE  CountHolds(p)'
  OBVIOUS
<1> USE DEF AdminInv
<1> DEFINE u == proc[p].user
<1>1. ASSUME CountAdmins(p) PROVE CountHolds(p)'
  <2>1. account' = account /\ (account[u].role # "admin" \/ OtherAdmins(u) # {})
    BY <1>1 DEF CountAdmins, Done, TypeOK, At, Idle
  <2>2. proc[p] \in Served
    BY DEF TypeOK
  <2>3. proc'[p].user = u
    BY <1>1, <2>2 DEF CountAdmins, Done, Goto, TypeOK, At, Idle, Served
  <2>4. OtherAdmins(u)' = OtherAdmins(u)
    BY <1>1, <2>1, <2>3 DEF CountAdmins, OtherAdmins, ActiveAdmin, Active
  <2> QED BY <2>1, <2>3, <2>4 DEF CountHolds
<1>2. ASSUME At(p, "deactivate"), proc'[p] = proc[p] PROVE CountHolds(p)'
  <2>1. ~ \E v \in Users : Deactivated(v)
    <3> SUFFICES ASSUME NEW q \in Procs, Deactivate(q) PROVE FALSE
      BY DEF Deactivated
    <3>1. CASE q = p
      <4>1. proc'[p] = [proc[p] EXCEPT !.pc = "revoke"] /\ proc[p] \in Served
        BY <3>1 DEF Deactivate, TypeOK
      <4> QED BY <4>1 DEF At, Served
    <3>2. CASE q # p
      <4>1. proc'[p] = [proc[p] EXCEPT !.overtaken = TRUE] /\ proc[p] \in Served
        BY <1>2, <3>2 DEF Deactivate, TypeOK
      <4> QED BY <4>1 DEF Served
    <3> QED BY <3>1, <3>2
  <2>2. u \in Users /\ account[u] # None /\ CountHolds(p)
    BY <1>2, AtWork DEF At, OnAnAccount
  <2>3. CASE account[u].role # "admin"
    BY <1>2, <2>2, <2>3, AccountMoves DEF CountHolds
  <2>4. CASE OtherAdmins(u) # {}
    <3>1. PICK v \in Users \ {u} : ActiveAdmin(v)
      BY <2>4 DEF OtherAdmins
    <3>2. ActiveAdmin(v)'
      BY <2>1, <3>1, AccountMoves DEF ActiveAdmin, Active
    <3> QED BY <1>2, <3>1, <3>2 DEF CountHolds, OtherAdmins
  <2> QED BY <2>2, <2>3, <2>4 DEF CountHolds
<1>3. proc'[p] # Idle
  BY DEF At, Idle
<1>4. CASE proc'[p] = [proc[p] EXCEPT !.overtaken = TRUE]
  <2>1. proc[p] \in Served
    BY DEF TypeOK
  <2> QED BY <1>4, <2>1 DEF Served
<1>5. ASSUME ~ CountAdmins(p), Own(p) PROVE FALSE
  BY <1>5, PcMoves DEF Doors, At
<1> QED
  BY <1>1, <1>2, <1>3, <1>4, <1>5, ProcMoves DEF At

(* Whoever may create users was let in as one.                             *)
LEMMA CreatorStays ==
  AdminInv /\ [Next]_vars =>
    (\A p \in Procs : At(p, "create") => \E u \in Users : account[u] # None)'
<1> SUFFICES ASSUME AdminInv, [Next]_vars, NEW p \in Procs, At(p, "create")'
             PROVE  (\E u \in Users : account[u] # None)'
  OBVIOUS
<1> USE DEF AdminInv
<1>1. CASE At(p, "create")
  BY <1>1, AccountMoves
<1>2. CASE Own(p)
  <2>1. PICK t \in Tokens : Valid(t) /\ UNCHANGED account
    BY <1>2, PcMoves DEF Doors, At
  <2>2. session[t].user \in Users /\ account[session[t].user] # None
    BY <2>1 DEF Valid, Active, Exists, TypeOK, Sessions
  <2> QED BY <2>1, <2>2
<1>3. CASE proc'[p] = [proc[p] EXCEPT !.overtaken = TRUE]
  <2>1. proc[p] \in Served
    BY DEF TypeOK
  <2>2. At(p, "create")
    BY <1>3, <2>1 DEF At, Served
  <2> QED BY <1>1, <2>2
<1> QED BY <1>1, <1>2, <1>3, ProcMoves DEF At, Idle

(* The strengthened invariant is inductive.                                *)
LEMMA NextAdmin == AdminInv /\ [Next]_vars => AdminInv'
  BY NextType, AdminRemainsStays, CountStays, CreatorStays DEF AdminInv

(* An administrator remains who can log in, unless a deactivation came     *)
(* between another one's count and its UPDATE (auth.go:208-221).           *)
THEOREM AdminStays == Spec => []AdminRemains
<1>1. AdminInv => AdminRemains
  BY DEF AdminInv
<1> QED BY <1>1, InitAdmin, NextAdmin, PTL DEF Spec

-----------------------------------------------------------------------------
(* Sessions.  A login between its comparison and its session holds the     *)
(* password of the account, or was overtaken by a change of it; that makes *)
(* the two session properties inductive.                                   *)

ComparedCurrent ==
  \A p \in Procs : proc[p].pc \in {"forget_user", "forget_address", "insert"} =>
    proc[p].password = account[proc[p].user].password \/ proc[p].overtaken

SessionInv == TypeOK /\ ComparedCurrent /\ OldPasswordIsOut /\ DeactivatedIsOut

(* At first there are neither sessions nor logins.                         *)
LEMMA InitSession == Init => SessionInv
<1> SUFFICES ASSUME Init PROVE SessionInv
  OBVIOUS
<1>1. TypeOK
  BY InitType
<1>2. (\A t \in Tokens : ~ Exists(t)) /\ \A p \in Procs : proc[p].pc = "idle"
  BY DEF Init, Idle, Exists
<1> QED BY <1>1, <1>2 DEF SessionInv, ComparedCurrent, OldPasswordIsOut, DeactivatedIsOut

(* A change of the password marks the logins that have compared the old.   *)
LEMMA ChangeOvertakes ==
  ASSUME TypeOK, NEW u \in Users, PasswordChanged(u), NEW q \in Procs, LookedAt(q, u)
  PROVE  proc'[q].overtaken
<1>1. proc[q] \in Served /\ ~ At(q, "change")
  BY DEF TypeOK, LookedAt, At
<1>2. proc'[q] = [proc[q] EXCEPT !.overtaken = TRUE]
  BY <1>1 DEF PasswordChanged, ChangePassword, ResetPassword, Overtake
<1> QED BY <1>1, <1>2 DEF Served

(* What a login compared is the account's password until it is overtaken.  *)
LEMMA ComparedStays == SessionInv /\ [Next]_vars => ComparedCurrent'
<1> SUFFICES ASSUME SessionInv, [Next]_vars, NEW p \in Procs, ~ proc'[p].overtaken,
                    proc'[p].pc \in {"forget_user", "forget_address", "insert"}
             PROVE  proc'[p].password = account'[proc'[p].user].password
  BY DEF ComparedCurrent
<1> USE DEF SessionInv
<1> DEFINE u == proc[p].user
<1>1. ASSUME LookedAt(p, u), proc'[p].user = u, proc'[p].password = proc[p].password,
             proc'[p].overtaken = proc[p].overtaken
      PROVE  proc'[p].password = account'[proc'[p].user].password
  <2>1. u \in Users /\ account[u] # None
    BY <1>1, AtWork DEF LookedAt, At, OnAnAccount
  <2>2. proc[p].password = account[u].password
    BY <1>1 DEF LookedAt, ComparedCurrent
  <2>3. account'[u].password = account[u].password
    BY <1>1, <2>1, AccountMoves, ChangeOvertakes
  <2> QED BY <1>1, <2>2, <2>3
<1>2. CASE proc'[p] = proc[p]
  BY <1>1, <1>2 DEF LookedAt
<1>3. CASE proc'[p] = [proc[p] EXCEPT !.overtaken = TRUE]
  <2>1. proc[p] \in Served
    BY DEF TypeOK
  <2> QED BY <1>3, <2>1 DEF Served
<1>4. CASE RightPassword(p)
  <2>1. /\ proc[p] \in Served
        /\ proc'[p] = [proc[p] EXCEPT !.pc = "forget_user", !.password = account[u].password]
        /\ account' = account
    BY <1>4 DEF RightPassword, TypeOK
  <2> QED BY <2>1 DEF Served
<1>5. CASE Own(p) /\ ~ RightPassword(p)
  <2>1. PICK pc \in {"forget_address", "insert"} :
          /\ At(p, "forget_user") \/ At(p, "forget_address")
          /\ proc'[p] = [proc[p] EXCEPT !.pc = pc]
    BY <1>5, PcMoves DEF Doors
  <2>2. proc[p] \in Served
    BY DEF TypeOK
  <2>3. /\ LookedAt(p, u)
        /\ proc'[p].user = u
        /\ proc'[p].password = proc[p].password
        /\ proc'[p].overtaken = proc[p].overtaken
    BY <2>1, <2>2 DEF Served, LookedAt, At
  <2> QED BY <1>1, <2>3
<1>6. proc'[p] # Idle
  BY DEF Idle
<1> QED BY <1>2, <1>3, <1>4, <1>5, <1>6, ProcMoves

(* Where the sessions after a step come from.                              *)
SameSession(t) == /\ Exists(t)
                  /\ session'[t].user = session[t].user
                  /\ session'[t].password = session[t].password
                  /\ session'[t].overtaken = session[t].overtaken
Inserted(t) == \E p \in Procs : InsertSession(p, t)
Shown(t) == session'[t].known => session[t].known \/ Active(session[t].user)'

(* A session is a new one, or it was there and at most became known.       *)
LEMMA SessionMoves ==
  ASSUME TypeOK, [Next]_vars, NEW t \in Tokens, Exists(t)'
  PROVE  Inserted(t) \/ (SameSession(t) /\ Shown(t))
<1> DEFINE OK == Inserted(t) \/ (SameSession(t) /\ Shown(t))
<1>1. ASSUME session'[t] = session[t] PROVE OK
  BY <1>1 DEF Exists, SameSession, Shown
<1>2. ASSUME NEW u \in Users, DeleteSessions(u) PROVE OK
  BY <1>1, <1>2 DEF DeleteSessions, Exists
<1>3. ASSUME NEW v, session' = [session EXCEPT ![v] = Gone] PROVE OK
  BY <1>1, <1>3 DEF Exists, TypeOK
<1>4. ASSUME NEW p \in Procs, NEW v \in Tokens, InsertSession(p, v) PROVE OK
  <2>1. CASE v = t
    BY <1>4, <2>1 DEF Inserted
  <2>2. CASE v # t
    BY <1>1, <1>4, <2>2 DEF InsertSession, TypeOK
  <2> QED BY <2>1, <2>2
<1>5. ASSUME NEW p \in Procs, HandOut(p) PROVE OK
  <2> DEFINE v == proc[p].token
  <2>1. CASE ~ Valid(v) \/ v # t
    BY <1>1, <1>5, <2>1 DEF HandOut, TypeOK
  <2>2. CASE Valid(t) /\ v = t
    <3>1. session'[t] = [session[t] EXCEPT !.known = TRUE] /\ account' = account
      BY <1>5, <2>2 DEF HandOut, TypeOK
    <3>2. session[t] \in Sessions /\ Exists(t) /\ Active(session[t].user)
      BY <2>2 DEF Valid, Exists, TypeOK
    <3>3. /\ session'[t].user = session[t].user
          /\ session'[t].password = session[t].password
          /\ session'[t].overtaken = session[t].overtaken
      BY <3>1, <3>2 DEF Sessions
    <3>4. Active(session[t].user)'
      BY <3>1, <3>2, <3>3 DEF Active
    <3> QED BY <3>2, <3>3, <3>4 DEF SameSession, Shown
  <2> QED BY <2>1, <2>2
<1> HIDE DEF OK
<1>6. ASSUME NEW p \in Procs, LoginStep(p) PROVE OK
  BY <1>1, <1>4, <1>5, <1>6
  DEF LoginStep, CheckUser, CheckUserFails, CheckAddress, RightPassword, WrongPassword,
      CountUser, CountAddress, ForgetUser, ForgetAddress
<1>7. ASSUME NEW p \in Procs, RequestStep(p) PROVE OK
  <2>1. ASSUME Revoke(p) \/ ChangePassword(p) PROVE OK
    BY <1>2, <2>1, AtWork DEF Revoke, ChangePassword, At
  <2> QED
    BY <1>1, <1>3, <1>7, <2>1
    DEF RequestStep, Request, CountAdmins, Deactivate, Activate, CreateUser, Logout, CompareOld
<1>8. OK
  BY <1>1, <1>2, <1>3, <1>6, <1>7
  DEF Next, vars, StatementFails, SessionExpires, WindowEnds, Crash, ResetPassword,
      CreateInitialAdmin
<1> QED BY <1>8 DEF OK

(* A session keeps the current password, or was born overtaken.            *)
LEMMA OldPasswordStays == SessionInv /\ [Next]_vars => OldPasswordIsOut'
<1> SUFFICES ASSUME SessionInv, [Next]_vars, NEW t \in Tokens, Exists(t)', ~ session'[t].overtaken
             PROVE  session'[t].password = account'[session'[t].user].password
  BY DEF OldPasswordIsOut
<1> USE DEF SessionInv
<1>1. CASE Inserted(t)
  <2>1. PICK p \in Procs : InsertSession(p, t)
    BY <1>1 DEF Inserted
  <2>2. /\ session'[t] = [user |-> proc[p].user, password |-> proc[p].password,
                          known |-> FALSE, overtaken |-> proc[p].overtaken]
        /\ account' = account
    BY <2>1 DEF InsertSession, TypeOK
  <2>3. proc[p].password = account[proc[p].user].password
    BY <2>1, <2>2 DEF InsertSession, At, ComparedCurrent
  <2> QED BY <2>2, <2>3
<1>2. CASE SameSession(t)
  <2> DEFINE u == session[t].user
  <2>1. u \in Users /\ account[u] # None /\ session[t].password = account[u].password
    BY <1>2 DEF SameSession, TypeOK, Exists, Sessions, OldPasswordIsOut
  <2>2. ~ PasswordChanged(u)
    <3>1. ~ DeleteSessions(u)
      BY <1>2 DEF DeleteSessions, SessionsOf, SameSession, Exists
    <3> QED BY <3>1 DEF PasswordChanged, ChangePassword, ResetPassword
  <2> QED BY <1>2, <2>1, <2>2, AccountMoves DEF SameSession
<1> QED BY <1>1, <1>2, SessionMoves

(* A known session of an inactive account is about to be deleted, or its   *)
(* deletion was cut short.                                                 *)
LEMMA DeactivatedStays == SessionInv /\ [Next]_vars => DeactivatedIsOut'
<1> SUFFICES ASSUME SessionInv, [Next]_vars, NEW t \in Tokens, Exists(t)', session'[t].known,
                    ~ Active(session[t].user)'
             PROVE  \/ \E p \in Procs : At(p, "revoke")' /\ proc'[p].user = session'[t].user
                    \/ session'[t].user \in cut'
  BY DEF DeactivatedIsOut
<1> USE DEF SessionInv
<1> DEFINE u == session[t].user
<1>1. ~ Inserted(t)
  <2> SUFFICES ASSUME NEW p \in Procs, InsertSession(p, t) PROVE ~ session'[t].known
    BY DEF Inserted
  <2>1. session'[t] = [user |-> proc[p].user, password |-> proc[p].password,
                       known |-> FALSE, overtaken |-> proc[p].overtaken]
    BY DEF InsertSession, TypeOK
  <2> QED BY <2>1
<1>2. /\ Exists(t) /\ session'[t].user = u /\ session[t].known
      /\ u \in Users /\ account[u] # None
  BY <1>1, SessionMoves DEF SameSession, Shown, TypeOK, Exists, Sessions
<1>3. ~ DeleteSessions(u)
  BY <1>2 DEF DeleteSessions, SessionsOf, Exists
<1>4. CASE Active(u)
  <2>1. PICK p \in Procs : Deactivate(p) /\ proc[p].user = u
    BY <1>2, <1>4, AccountMoves DEF Active, Deactivated
  <2>2. proc'[p] = [proc[p] EXCEPT !.pc = "revoke"] /\ proc[p] \in Served
    BY <2>1 DEF Deactivate, TypeOK
  <2>3. At(p, "revoke")' /\ proc'[p].user = u
    BY <2>1, <2>2 DEF At, Served
  <2> QED BY <1>2, <2>3
<1>5. CASE u \in cut
  <2>1. ASSUME NEW v, DeleteSessions(v) PROVE u \in cut'
    BY <1>3, <1>5, <2>1 DEF DeleteSessions
  <2>2. u \in cut'
    BY <1>5, <2>1
    DEF Next, vars, history, LoginStep, CheckUser, CheckUserFails, CheckAddress, RightPassword,
        WrongPassword, CountUser, CountAddress, ForgetUser, ForgetAddress, InsertSession, HandOut,
        RequestStep, Request, CountAdmins, Deactivate, Revoke, Activate, CreateUser, Logout,
        CompareOld, ChangePassword, StatementFails, SessionExpires, WindowEnds, Crash,
        ResetPassword, CreateInitialAdmin
  <2> QED BY <1>2, <2>2
<1>6. CASE \E p \in Procs : At(p, "revoke") /\ proc[p].user = u
  <2>1. PICK p \in Procs : At(p, "revoke") /\ proc[p].user = u
    BY <1>6
  <2>2. CASE proc'[p] = proc[p]
    BY <1>2, <2>1, <2>2 DEF At
  <2>3. CASE proc'[p] = [proc[p] EXCEPT !.overtaken = TRUE]
    <3>1. proc[p] \in Served
      BY DEF TypeOK
    <3>2. At(p, "revoke")' /\ proc'[p].user = u
      BY <2>1, <2>3, <3>1 DEF At, Served
    <3> QED BY <1>2, <3>2
  <2>4. CASE Crash
    BY <1>2, <2>1, <2>4 DEF Crash
  <2>5. CASE StatementFails(p)
    BY <1>2, <2>1, <2>5 DEF StatementFails
  <2>6. ~ LoginStep(p)
    BY <2>1 DEF At, LoginStep, CheckUser, CheckUserFails, CheckAddress, RightPassword,
                WrongPassword, CountUser, CountAddress, ForgetUser, ForgetAddress, InsertSession,
                HandOut
  <2>7. ~ RequestStep(p)
    BY <1>3, <2>1 DEF At, RequestStep, Request, CountAdmins, Deactivate, Revoke, Activate,
                      CreateUser, Logout, CompareOld, ChangePassword
  <2> QED BY <2>2, <2>3, <2>4, <2>5, <2>6, <2>7, ProcMoves DEF Own
<1> QED BY <1>2, <1>4, <1>5, <1>6 DEF DeactivatedIsOut

(* The two session properties are inductive with ComparedCurrent.          *)
LEMMA NextSession == SessionInv /\ [Next]_vars => SessionInv'
  BY NextType, ComparedStays, OldPasswordStays, DeactivatedStays DEF SessionInv

(* After a change of the password no session lives that was opened with an *)
(* older one, but for a login that had already compared it                 *)
(* (auth.go:107, 163-172).                                                 *)
THEOREM OldPasswordOut == Spec => []OldPasswordIsOut
<1>1. SessionInv => OldPasswordIsOut
  BY DEF SessionInv
<1> QED BY <1>1, InitSession, NextSession, PTL DEF Spec

(* No known session waits for its deactivated account, but while it is     *)
(* being revoked or after a revocation that was cut short                  *)
(* (auth.go:221-223, handler.go:155).                                      *)
THEOREM DeactivatedOut == Spec => []DeactivatedIsOut
<1>1. SessionInv => DeactivatedIsOut
  BY DEF SessionInv
<1> QED BY <1>1, InitSession, NextSession, PTL DEF Spec

-----------------------------------------------------------------------------
(* Failed logins.  What is compared is counted soon; what is not counted   *)
(* yet is under way, and a login under way has been let in.                *)

(* Let in under the key, and not compared yet; compared under the key, and *)
(* not counted yet.                                                        *)
LetIn(p, k) ==
  \/ proc[p].pc \in {"check_address", "compare"} /\ proc[p].user = k
  \/ proc[p].pc = "compare" /\ proc[p].address = k
Owes(p, k) ==
  \/ proc[p].pc = "count_user" /\ proc[p].user = k
  \/ proc[p].pc \in {"count_user", "count_address"} /\ proc[p].address = k

Admitted(k) == {p \in Procs : LetIn(p, k)}
Owing(k) == {p \in Procs : Owes(p, k)}

(* Every failed statement, and every crash, may cost what is under way.    *)
Slack == Cardinality(Procs) * faults

Counted(k) == guesses[k] <= tries[k] + Cardinality(Owing(k)) + Slack
Within(k) ==
  guesses[k] + Cardinality(Admitted(k)) <= MaxTries - 1 + Cardinality(Procs) + Slack

TriesInv == TypeOK /\ \A k \in Keys : Counted(k) /\ Within(k)

LoginPCs == {"check_address", "compare", "count_user", "count_address"}

(* Sets of requests under way are finite, and those let in owe nothing.    *)
LEMMA UnderWay ==
  ASSUME NEW k
  PROVE  /\ IsFiniteSet(Admitted(k)) /\ IsFiniteSet(Owing(k))
         /\ Cardinality(Procs) \in Nat
         /\ Cardinality(Admitted(k)) \in Nat /\ Cardinality(Owing(k)) \in Nat
         /\ Cardinality(Admitted(k)) <= Cardinality(Procs)
<1>1. Admitted(k) \in SUBSET Procs /\ Owing(k) \in SUBSET Procs
  BY DEF Admitted, Owing
<1> QED BY <1>1, AccountsAssumption, FS_Subset, FS_CardinalityType

(* Two disjoint sets of requests are together no more than all of them.    *)
LEMMA Disjoint ==
  ASSUME NEW S \in SUBSET Procs, NEW T \in SUBSET Procs, S \cap T = {}
  PROVE  Cardinality(S) + Cardinality(T) <= Cardinality(Procs)
<1>1. IsFiniteSet(S) /\ IsFiniteSet(T) /\ IsFiniteSet(Procs)
  BY AccountsAssumption, FS_Subset
<1>2. Cardinality(S \cup T) = Cardinality(S) + Cardinality(T) - Cardinality(S \cap T)
  BY <1>1, FS_Union
<1>3. Cardinality(S \cap T) = 0
  BY FS_EmptySet
<1>4. Cardinality(S \cup T) <= Cardinality(Procs)
  BY <1>1, FS_Subset
<1> QED
  BY <1>1, <1>2, <1>3, <1>4, FS_CardinalityType, FS_Subset

(* A failed statement pays for whoever was under way.                      *)
LEMMA FaultPays ==
  ASSUME TriesInv, TypeOK', faults' = faults + 1, UNCHANGED limits, NEW k \in Keys
  PROVE  Counted(k)' /\ Within(k)'
<1> DEFINE N == Cardinality(Procs)
<1>1. /\ guesses'[k] = guesses[k] /\ tries'[k] = tries[k]
      /\ guesses[k] \in Nat /\ tries[k] \in Nat /\ faults \in Nat
  BY DEF limits, TriesInv, TypeOK
<1>2. PICK slack \in Nat : slack = N * faults /\ N * faults' = slack + N
  BY <1>1, UnderWay
<1>3. PICK owing \in Nat, owed \in Nat, in \in Nat, admitted \in Nat :
        /\ owing = Cardinality(Owing(k)) /\ owed = Cardinality(Owing(k)')
        /\ in = Cardinality(Admitted(k)) /\ admitted = Cardinality(Admitted(k)')
        /\ owing <= N /\ admitted <= N
  <2>1. Admitted(k)' \in SUBSET Procs /\ Owing(k)' \in SUBSET Procs /\ Owing(k) \in SUBSET Procs
    BY DEF Admitted, Owing
  <2> QED BY <2>1, UnderWay, AccountsAssumption, FS_Subset, FS_CardinalityType
<1>4. N \in Nat /\ MaxTries \in Nat
  BY UnderWay, AccountsAssumption
<1>5. Counted(k) /\ Within(k)
  BY DEF TriesInv
<1> HIDE DEF N
<1>6. guesses[k] <= tries[k] + owing + slack /\ guesses[k] + in <= MaxTries - 1 + N + slack
  BY <1>2, <1>3, <1>5 DEF Counted, Within, Slack, N
<1>7. /\ guesses[k] <= tries[k] + owed + (slack + N)
      /\ guesses[k] + admitted <= MaxTries - 1 + N + (slack + N)
  BY <1>1, <1>3, <1>4, <1>6
<1> QED BY <1>1, <1>2, <1>3, <1>7 DEF Counted, Within, Slack, N

(* A step that has nothing to do with the counter of a key.                *)
Still(k) == tries'[k] = tries[k] /\ guesses'[k] = guesses[k] /\ faults' = faults

(* Nothing is lost when nobody is let in and nobody forgotten.             *)
LEMMA NobodyMoves ==
  ASSUME TriesInv, NEW k \in Keys, Still(k),
         Admitted(k)' \subseteq Admitted(k), Owing(k)' = Owing(k)
  PROVE  Counted(k)' /\ Within(k)'
<1>1. /\ guesses'[k] = guesses[k] /\ tries'[k] = tries[k] /\ Slack' = Slack
      /\ guesses[k] \in Nat /\ tries[k] \in Nat /\ Slack \in Nat /\ MaxTries \in Nat
  BY UnderWay, AccountsAssumption DEF Still, TriesInv, TypeOK, Slack
<1>2. /\ Cardinality(Admitted(k)') \in Nat
      /\ Cardinality(Admitted(k)') <= Cardinality(Admitted(k))
  BY UnderWay, FS_Subset, FS_CardinalityType
<1>3. Counted(k) /\ Within(k)
  BY DEF TriesInv
<1> QED BY <1>1, <1>2, <1>3, UnderWay DEF Counted, Within

(* Whoever is let in below the limit finds room for all who are under way. *)
LEMMA GateHolds ==
  ASSUME TriesInv, NEW k \in Keys, Still(k), ~ Limited(k),
         Owing(k)' = Owing(k)
  PROVE  Counted(k)' /\ Within(k)'
<1>1. /\ guesses'[k] = guesses[k] /\ tries'[k] = tries[k] /\ Slack' = Slack
      /\ guesses[k] \in Nat /\ tries[k] \in Nat /\ Slack \in Nat /\ MaxTries \in Nat
  BY UnderWay, AccountsAssumption DEF Still, TriesInv, TypeOK, Slack
<1>2. tries[k] <= MaxTries - 1
  BY <1>1 DEF Limited
<1>3. /\ Admitted(k)' \in SUBSET Procs /\ Owing(k)' \in SUBSET Procs
      /\ Admitted(k)' \cap Owing(k)' = {}
  BY DEF Admitted, Owing, LetIn, Owes
<1>4. Cardinality(Admitted(k)') + Cardinality(Owing(k)) <= Cardinality(Procs)
  BY <1>3, Disjoint
<1>5. Cardinality(Admitted(k)') \in Nat
  BY <1>3, AccountsAssumption, FS_Subset, FS_CardinalityType
<1>6. Counted(k)
  BY DEF TriesInv
<1> QED BY <1>1, <1>2, <1>4, <1>5, <1>6, UnderWay DEF Counted, Within

(* A window that ends, or a counter that is reset, takes the comparisons   *)
(* with it.                                                                *)
LEMMA ForgetHolds ==
  ASSUME TriesInv, NEW j, Forget(j), faults' = faults, NEW k \in Keys,
         Admitted(k)' \subseteq Admitted(k), Owing(k)' = Owing(k)
  PROVE  Counted(k)' /\ Within(k)'
<1>1. /\ guesses \in [Keys -> Nat] /\ tries \in [Keys -> Nat] /\ Slack \in Nat
      /\ MaxTries \in Nat /\ MaxTries >= 1 /\ Slack' = Slack
  BY UnderWay, AccountsAssumption DEF TriesInv, TypeOK, Slack
<1>2. CASE j # k
  BY <1>1, <1>2, NobodyMoves DEF Forget, Still
<1>3. CASE j = k
  <2>1. guesses'[k] = 0 /\ tries'[k] = 0
    BY <1>1, <1>3 DEF Forget
  <2>2. /\ Cardinality(Admitted(k)') \in Nat
        /\ Cardinality(Admitted(k)') <= Cardinality(Procs)
    BY AccountsAssumption, FS_Subset, FS_CardinalityType DEF Admitted
  <2> QED BY <1>1, <2>1, <2>2, UnderWay DEF Counted, Within
<1> QED BY <1>2, <1>3

(* A comparison turns a login that was let in into one that owes a count.  *)
LEMMA ComparedHolds ==
  ASSUME TriesInv, NEW k \in Keys, guesses'[k] = guesses[k] + 1, tries'[k] = tries[k],
         faults' = faults, NEW p, p \in Admitted(k), p \notin Owing(k),
         Admitted(k)' = Admitted(k) \ {p}, Owing(k)' = Owing(k) \cup {p}
  PROVE  Counted(k)' /\ Within(k)'
<1>1. guesses[k] \in Nat /\ tries[k] \in Nat /\ Slack' = Slack /\ Slack \in Nat /\ MaxTries \in Nat
  BY UnderWay, AccountsAssumption DEF TriesInv, TypeOK, Slack
<1>2. Cardinality(Admitted(k)') = Cardinality(Admitted(k)) - 1
  BY UnderWay, FS_RemoveElement
<1>4. Cardinality(Owing(k)') = Cardinality(Owing(k)) + 1
  BY UnderWay, FS_AddElement
<1>3. Counted(k) /\ Within(k)
  BY DEF TriesInv
<1> QED BY <1>1, <1>2, <1>3, <1>4, UnderWay DEF Counted, Within

(* A count pays what was owed.                                             *)
LEMMA CountedHolds ==
  ASSUME TriesInv, NEW k \in Keys, guesses'[k] = guesses[k], tries'[k] = tries[k] + 1,
         faults' = faults, NEW p, p \in Owing(k),
         Admitted(k)' = Admitted(k), Owing(k)' = Owing(k) \ {p}
  PROVE  Counted(k)' /\ Within(k)'
<1>1. guesses[k] \in Nat /\ tries[k] \in Nat /\ Slack' = Slack /\ Slack \in Nat /\ MaxTries \in Nat
  BY UnderWay, AccountsAssumption DEF TriesInv, TypeOK, Slack
<1>2. Cardinality(Owing(k)') = Cardinality(Owing(k)) - 1
  BY UnderWay, FS_RemoveElement
<1>3. Counted(k) /\ Within(k)
  BY DEF TriesInv
<1> QED BY <1>1, <1>2, <1>3, UnderWay DEF Counted, Within

(* Requests that stay where they are in a login, or out of one.            *)
SameLogin(q) ==
  \/ /\ proc'[q].pc = proc[q].pc /\ proc'[q].user = proc[q].user
     /\ proc'[q].address = proc[q].address
  \/ proc[q].pc \notin LoginPCs /\ proc'[q].pc \notin LoginPCs

(* Only the request that acts changes its place in a login.                *)
LEMMA OnePlace ==
  ASSUME NEW p, NEW k, \A q \in Procs \ {p} : SameLogin(q)
  PROVE  /\ ~ LetIn(p, k)' => Admitted(k)' = Admitted(k) \ {p}
         /\ (LetIn(p, k) <=> LetIn(p, k)') => Admitted(k)' = Admitted(k)
         /\ (LetIn(p, k)' => LetIn(p, k)) => Admitted(k)' \subseteq Admitted(k)
         /\ ~ Owes(p, k)' => Owing(k)' = Owing(k) \ {p}
         /\ p \in Procs /\ Owes(p, k)' => Owing(k)' = Owing(k) \cup {p}
         /\ (Owes(p, k) <=> Owes(p, k)') => Owing(k)' = Owing(k)
<1>1. \A q \in Procs \ {p} : (LetIn(q, k)' <=> LetIn(q, k)) /\ (Owes(q, k)' <=> Owes(q, k))
  BY DEF SameLogin, LetIn, Owes, LoginPCs
<1> QED BY <1>1 DEF Admitted, Owing

(* The steps of a login, but for failed looks at a counter.                *)
LEMMA LoginTries ==
  ASSUME TriesInv, TypeOK', NEW p \in Procs, LoginStep(p), NEW k \in Keys
  PROVE  Counted(k)' /\ Within(k)'
<1>1. /\ TypeOK /\ guesses \in [Keys -> Nat] /\ tries \in [Keys -> Nat]
      /\ proc \in [Procs -> Served] /\ proc[p] \in Served
  BY DEF TriesInv, TypeOK
<1>2. \A pc : Goto(p, pc) => proc'[p] = [proc[p] EXCEPT !.pc = pc]
                             /\ \A q \in Procs \ {p} : proc'[q] = proc[q]
  BY <1>1 DEF Goto
<1>3. Done(p) => proc'[p].pc = "idle" /\ \A q \in Procs \ {p} : proc'[q] = proc[q]
  BY <1>1 DEF Done, Idle
<1>4. (\A q \in Procs \ {p} : proc'[q] = proc[q]) => \A q \in Procs \ {p} : SameLogin(q)
  BY DEF SameLogin
<1>5. ASSUME NEW u \in Users, NEW a \in Addresses, CheckUser(p, u, a)
      PROVE  Counted(k)' /\ Within(k)'
  <2>1. /\ proc'[p].pc = "check_address" /\ proc'[p].user = u
        /\ \A q \in Procs \ {p} : SameLogin(q)
    BY <1>1, <1>4, <1>5 DEF CheckUser, Idle
  <2>2. Owing(k)' = Owing(k) /\ (k # u => Admitted(k)' \subseteq Admitted(k))
    BY <1>5, <2>1, OnePlace DEF CheckUser, At, Owes, LetIn
  <2>3. Still(k) /\ ~ Limited(u)
    BY <1>5 DEF CheckUser, Still, limits, budget
  <2> QED BY <2>2, <2>3, GateHolds, NobodyMoves
<1>6. ASSUME NEW u \in Users, NEW a \in Addresses, CheckUserFails(p, u, a)
      PROVE  Counted(k)' /\ Within(k)'
  BY <1>6, FaultPays DEF CheckUserFails, Fault
<1>7. CASE CheckAddress(p)
  <2>1. Still(k) /\ At(p, "check_address")
    BY <1>7 DEF CheckAddress, Still, limits, budget
  <2>2. CASE Limited(proc[p].address)
    <3>1. proc'[p].pc = "idle" /\ \A q \in Procs \ {p} : SameLogin(q)
      BY <1>3, <1>4, <1>7, <2>2 DEF CheckAddress
    <3>2. Owing(k)' = Owing(k) /\ Admitted(k)' \subseteq Admitted(k)
      BY <2>1, <3>1, OnePlace DEF At, Owes, LetIn
    <3> QED BY <2>1, <3>2, NobodyMoves
  <2>3. CASE ~ Limited(proc[p].address)
    <3>1. /\ proc'[p] = [proc[p] EXCEPT !.pc = "compare"]
          /\ \A q \in Procs \ {p} : SameLogin(q)
      BY <1>2, <1>4, <1>7, <2>3 DEF CheckAddress
    <3>2. /\ proc'[p].pc = "compare" /\ proc'[p].user = proc[p].user
          /\ proc'[p].address = proc[p].address
      BY <1>1, <3>1 DEF Served
    <3>3. /\ Owing(k)' = Owing(k)
          /\ k # proc[p].address => Admitted(k)' \subseteq Admitted(k)
      BY <2>1, <3>1, <3>2, OnePlace DEF At, Owes, LetIn
    <3> QED BY <2>1, <2>3, <3>3, GateHolds, NobodyMoves
  <2> QED BY <2>2, <2>3
<1>8. CASE RightPassword(p)
  <2>1. proc'[p].pc = "forget_user" /\ \A q \in Procs \ {p} : SameLogin(q)
    BY <1>1, <1>4, <1>8 DEF RightPassword, Served
  <2>2. Owing(k)' = Owing(k) /\ Admitted(k)' \subseteq Admitted(k)
    BY <1>8, <2>1, OnePlace DEF RightPassword, At, Owes, LetIn
  <2> QED BY <1>8, <2>2, NobodyMoves DEF RightPassword, Still, limits, budget
<1>9. CASE WrongPassword(p)
  <2>1. /\ proc'[p].pc = "count_user" /\ proc'[p].user = proc[p].user
        /\ proc'[p].address = proc[p].address /\ \A q \in Procs \ {p} : SameLogin(q)
    <3>1. Goto(p, "count_user")
      BY <1>9 DEF WrongPassword
    <3>2. /\ proc'[p] = [proc[p] EXCEPT !.pc = "count_user"]
          /\ \A q \in Procs \ {p} : SameLogin(q)
      BY <1>2, <1>4, <3>1
    <3> QED BY <1>1, <3>2 DEF Served
  <2>2. At(p, "compare") /\ UNCHANGED <<tries, faults>>
    BY <1>9 DEF WrongPassword
  <2>3. CASE k \in {proc[p].user, proc[p].address}
    <3>1. guesses'[k] = guesses[k] + 1
      BY <1>9, <2>3 DEF WrongPassword
    <3>2. p \in Admitted(k) /\ p \notin Owing(k)
      BY <2>2, <2>3 DEF At, Admitted, Owing, LetIn, Owes
    <3>3. Admitted(k)' = Admitted(k) \ {p} /\ Owing(k)' = Owing(k) \cup {p}
      BY <2>1, <2>3, OnePlace DEF LetIn, Owes
    <3> QED BY <2>2, <3>1, <3>2, <3>3, ComparedHolds
  <2>4. CASE k \notin {proc[p].user, proc[p].address}
    <3>1. Still(k)
      BY <1>9, <2>2, <2>4 DEF WrongPassword, Still
    <3>2. Owing(k)' = Owing(k) /\ Admitted(k)' \subseteq Admitted(k)
      BY <2>1, <2>2, <2>4, OnePlace DEF At, LetIn, Owes
    <3> QED BY <3>1, <3>2, NobodyMoves
  <2> QED BY <2>3, <2>4
<1>10. CASE CountUser(p)
  <2>1. /\ proc'[p].pc = "count_address" /\ proc'[p].user = proc[p].user
        /\ proc'[p].address = proc[p].address /\ \A q \in Procs \ {p} : SameLogin(q)
    <3>1. Goto(p, "count_address")
      BY <1>10 DEF CountUser
    <3>2. /\ proc'[p] = [proc[p] EXCEPT !.pc = "count_address"]
          /\ \A q \in Procs \ {p} : SameLogin(q)
      BY <1>2, <1>4, <3>1
    <3> QED BY <1>1, <3>2 DEF Served
  <2>2. At(p, "count_user") /\ UNCHANGED <<guesses, faults>>
    BY <1>10 DEF CountUser, budget
  <2>3. proc[p].user \in Users /\ proc[p].user # proc[p].address
    BY <1>1, <2>2, AtWork, AccountsAssumption DEF Served, At
  <2>4. CASE k = proc[p].user
    <3>1. tries'[k] = tries[k] + 1
      BY <1>1, <1>10, <2>4 DEF CountUser
    <3>2. p \in Owing(k)
      BY <2>2, <2>4 DEF At, Owing, Owes
    <3>3. Admitted(k)' = Admitted(k) /\ Owing(k)' = Owing(k) \ {p}
      BY <2>1, <2>2, <2>3, <2>4, OnePlace DEF At, LetIn, Owes
    <3> QED BY <2>2, <3>1, <3>2, <3>3, CountedHolds
  <2>5. CASE k # proc[p].user
    <3>1. Still(k)
      BY <1>1, <1>10, <2>2, <2>5 DEF CountUser, Still
    <3>2. Owing(k)' = Owing(k) /\ Admitted(k)' \subseteq Admitted(k)
      BY <2>1, <2>2, <2>5, OnePlace DEF At, LetIn, Owes
    <3> QED BY <3>1, <3>2, NobodyMoves
  <2> QED BY <2>4, <2>5
<1>11. CASE CountAddress(p)
  <2>1. proc'[p].pc = "idle" /\ \A q \in Procs \ {p} : SameLogin(q)
    BY <1>3, <1>4, <1>11 DEF CountAddress
  <2>2. At(p, "count_address") /\ UNCHANGED <<guesses, faults>>
    BY <1>11 DEF CountAddress, budget
  <2>3. CASE k = proc[p].address
    <3>1. tries'[k] = tries[k] + 1
      BY <1>1, <1>11, <2>3 DEF CountAddress
    <3>2. p \in Owing(k)
      BY <2>2, <2>3 DEF At, Owing, Owes
    <3>3. Admitted(k)' = Admitted(k) /\ Owing(k)' = Owing(k) \ {p}
      BY <2>1, <2>2, OnePlace DEF At, LetIn, Owes
    <3> QED BY <2>2, <3>1, <3>2, <3>3, CountedHolds
  <2>4. CASE k # proc[p].address
    <3>1. Still(k)
      BY <1>1, <1>11, <2>2, <2>4 DEF CountAddress, Still
    <3>2. Owing(k)' = Owing(k) /\ Admitted(k)' \subseteq Admitted(k)
      BY <2>1, <2>2, <2>4, OnePlace DEF At, LetIn, Owes
    <3> QED BY <3>1, <3>2, NobodyMoves
  <2> QED BY <2>3, <2>4
<1>12. CASE ForgetUser(p) \/ ForgetAddress(p)
  <2>1. /\ proc[p].pc \notin LoginPCs /\ proc'[p].pc \notin LoginPCs
        /\ \A q \in Procs \ {p} : SameLogin(q)
    <3>1. PICK pc \in {"forget_address", "insert"} : Goto(p, pc)
      BY <1>12 DEF ForgetUser, ForgetAddress
    <3>2. proc'[p] = [proc[p] EXCEPT !.pc = pc] /\ \A q \in Procs \ {p} : SameLogin(q)
      BY <1>2, <1>4, <3>1
    <3> QED BY <1>1, <1>12, <3>1, <3>2 DEF ForgetUser, ForgetAddress, At, LoginPCs, Served
  <2>2. Owing(k)' = Owing(k) /\ Admitted(k)' \subseteq Admitted(k)
    BY <2>1, OnePlace DEF LetIn, Owes, LoginPCs
  <2>3. faults' = faults /\ \E j : Forget(j)
    BY <1>12 DEF ForgetUser, ForgetAddress, budget
  <2> QED BY <2>2, <2>3, ForgetHolds
<1>13. ASSUME NEW t \in Tokens, InsertSession(p, t) \/ HandOut(p)
       PROVE  Counted(k)' /\ Within(k)'
  <2>1. /\ proc[p].pc \notin LoginPCs /\ proc'[p].pc \notin LoginPCs
        /\ \A q \in Procs \ {p} : SameLogin(q)
    BY <1>1, <1>3, <1>4, <1>13 DEF InsertSession, HandOut, At, LoginPCs, Served
  <2>2. Owing(k)' = Owing(k) /\ Admitted(k)' \subseteq Admitted(k)
    BY <2>1, OnePlace DEF LetIn, Owes, LoginPCs
  <2> QED BY <1>13, <2>2, NobodyMoves DEF InsertSession, HandOut, Still, limits, budget
<1>14. CASE HandOut(p)
  <2>1. proc[p].pc \notin LoginPCs /\ proc'[p].pc \notin LoginPCs
        /\ \A q \in Procs \ {p} : SameLogin(q)
    BY <1>3, <1>4, <1>14 DEF HandOut, At, LoginPCs
  <2>2. Owing(k)' = Owing(k) /\ Admitted(k)' \subseteq Admitted(k)
    BY <2>1, OnePlace DEF LetIn, Owes, LoginPCs
  <2> QED BY <1>14, <2>2, NobodyMoves DEF HandOut, Still, limits, budget
<1> QED BY <1>5, <1>6, <1>7, <1>8, <1>9, <1>10, <1>11, <1>12, <1>13, <1>14 DEF LoginStep

(* The other steps, which take place outside logins, and failures.         *)
LEMMA NextTries ==
  ASSUME TriesInv, [Next]_vars
  PROVE  TriesInv'
<1>1. /\ TypeOK /\ TypeOK' /\ guesses \in [Keys -> Nat] /\ tries \in [Keys -> Nat]
      /\ proc \in [Procs -> Served]
  BY NextType DEF TriesInv, TypeOK
<1> SUFFICES ASSUME NEW k \in Keys PROVE Counted(k)' /\ Within(k)'
  BY <1>1 DEF TriesInv
<1>2. ASSUME Still(k), \A q \in Procs : SameLogin(q) PROVE Counted(k)' /\ Within(k)'
  <2>1. Admitted(k)' \subseteq Admitted(k) /\ Owing(k)' = Owing(k)
    BY <1>2 DEF Admitted, Owing, SameLogin, LetIn, Owes, LoginPCs
  <2> QED BY <1>2, <2>1, NobodyMoves
<1>3. UNCHANGED <<limits, faults>> => Still(k)
  BY DEF limits, Still
<1>4. \A q \in Procs : proc'[q] = proc[q] \/ proc'[q] = [proc[q] EXCEPT !.overtaken = TRUE]
                       => SameLogin(q)
  BY <1>1 DEF SameLogin, Served
<1>5. ASSUME NEW p \in Procs, RequestStep(p) PROVE Counted(k)' /\ Within(k)'
  <2>1. UNCHANGED <<limits, faults>>
    BY <1>5
    DEF RequestStep, Request, CountAdmins, Deactivate, Revoke, Activate, CreateUser, Logout,
        CompareOld, ChangePassword, budget
  <2>2. proc[p].pc \notin LoginPCs
    BY <1>5
    DEF RequestStep, Request, CountAdmins, Deactivate, Revoke, Activate, CreateUser, Logout,
        CompareOld, ChangePassword, At, LoginPCs
  <2>3. ASSUME Done(p)
        PROVE  proc'[p].pc = "idle" /\ \A q \in Procs \ {p} : proc'[q] = proc[q]
    BY <1>1, <2>3 DEF Done, Idle
  <2>4. ASSUME NEW pc \in PCs, Goto(p, pc)
        PROVE  proc'[p].pc = pc /\ \A q \in Procs \ {p} : proc'[q] = proc[q]
    BY <1>1, <2>4 DEF Goto, Served
  <2>5. CASE \E t \in Tokens, op \in Operations, u \in Users : Request(p, t, op, u)
    <3>1. PICK t \in Tokens, op \in Operations, u \in Users : Request(p, t, op, u)
      BY <2>5
    <3>2. proc'[p].pc = op /\ \A q \in Procs \ {p} : proc'[q] = proc[q]
      BY <1>1, <3>1 DEF Request, Idle
    <3>3. SameLogin(p)
      BY <2>2, <3>2 DEF SameLogin, Operations, LoginPCs
    <3> QED BY <1>2, <1>3, <1>4, <2>1, <3>2, <3>3
  <2>6. CASE CountAdmins(p) \/ CompareOld(p)
    <3>1. Done(p) \/ Goto(p, "deactivate") \/ Goto(p, "change")
      BY <2>6 DEF CountAdmins, CompareOld
    <3>2. /\ proc'[p].pc \in {"idle", "deactivate", "change"}
          /\ \A q \in Procs \ {p} : proc'[q] = proc[q]
      BY <2>3, <2>4, <3>1 DEF PCs, OnAnAccount
    <3> QED BY <1>2, <1>3, <1>4, <2>1, <2>2, <3>2 DEF SameLogin, LoginPCs
  <2>7. CASE Revoke(p) \/ Activate(p) \/ Logout(p)
             \/ \E role \in {"admin", "other"} : CreateUser(p, role)
    <3>1. Done(p)
      BY <2>7 DEF Revoke, Activate, Logout, CreateUser
    <3> QED BY <1>2, <1>3, <1>4, <2>1, <2>2, <2>3, <3>1 DEF SameLogin, LoginPCs
  <2>8. CASE Deactivate(p)
    <3>1. /\ proc'[p] = [proc[p] EXCEPT !.pc = "revoke"]
          /\ \A q \in Procs \ {p} : \/ proc'[q] = proc[q]
                                    \/ proc'[q] = [proc[q] EXCEPT !.overtaken = TRUE]
      BY <2>8 DEF Deactivate
    <3>2. SameLogin(p)
      BY <1>1, <2>2, <3>1 DEF SameLogin, LoginPCs, Served
    <3> QED BY <1>2, <1>3, <1>4, <2>1, <3>1, <3>2
  <2>9. CASE ChangePassword(p)
    <3>1. /\ proc'[p] = Idle
          /\ \A q \in Procs \ {p} : \/ proc'[q] = proc[q]
                                    \/ proc'[q] = [proc[q] EXCEPT !.overtaken = TRUE]
      BY <2>9 DEF ChangePassword, Overtake
    <3>2. SameLogin(p)
      BY <2>2, <3>1 DEF SameLogin, LoginPCs, Idle
    <3> QED BY <1>2, <1>3, <1>4, <2>1, <3>1, <3>2
  <2> QED BY <1>5, <2>5, <2>6, <2>7, <2>8, <2>9 DEF RequestStep
<1>6. ASSUME NEW p \in Procs, StatementFails(p) PROVE Counted(k)' /\ Within(k)'
  BY <1>1, <1>6, FaultPays DEF StatementFails, Fault
<1>7. CASE Crash
  BY <1>1, <1>7, FaultPays DEF Crash, Fault
<1>8. ASSUME NEW u \in Users, ResetPassword(u) PROVE Counted(k)' /\ Within(k)'
  <2>1. \A q \in Procs : \/ proc'[q] = proc[q]
                         \/ proc'[q] = [proc[q] EXCEPT !.overtaken = TRUE]
    BY <1>8 DEF ResetPassword, Overtake
  <2> QED BY <1>2, <1>3, <1>4, <1>8, <2>1 DEF ResetPassword
<1>9. ASSUME NEW j \in Keys, WindowEnds(j) PROVE Counted(k)' /\ Within(k)'
  <2>1. Admitted(k)' = Admitted(k) /\ Owing(k)' = Owing(k)
    BY <1>9 DEF WindowEnds, Admitted, Owing, LetIn, Owes
  <2> QED BY <1>9, <2>1, ForgetHolds DEF WindowEnds
<1>10. CASE UNCHANGED <<limits, faults, proc>>
  BY <1>2, <1>3, <1>4, <1>10
<1> QED BY <1>1, <1>5, <1>6, <1>7, <1>8, <1>9, <1>10, LoginTries
    DEF Next, vars, CreateInitialAdmin, SessionExpires, budget, limits

(* Nobody has tried anything yet.                                          *)
LEMMA InitTries == Init => TriesInv
<1> SUFFICES ASSUME Init, NEW k \in Keys PROVE Counted(k) /\ Within(k)
  BY InitType DEF TriesInv
<1>1. guesses[k] = 0 /\ tries[k] = 0 /\ faults = 0
  BY DEF Init
<1>2. Slack = 0 /\ MaxTries \in Nat /\ MaxTries >= 1
  BY <1>1, UnderWay, AccountsAssumption DEF Slack
<1> QED BY <1>1, <1>2, UnderWay DEF Counted, Within

(* Within one window no more passwords are tried on one name, or from one  *)
(* address, than the limit and the logins under way; each failed statement *)
(* or crash costs at most what was under way (auth.go:80-103, 261-285).    *)
THEOREM TriesAreBounded == Spec => []TriesBounded
<1>1. TriesInv => TriesBounded
  <2> SUFFICES ASSUME TriesInv, NEW k \in Keys
               PROVE  guesses[k] <= MaxTries - 1 + Cardinality(Procs) * (1 + faults)
    BY DEF TriesBounded
  <2>1. /\ guesses[k] \in Nat /\ faults \in Nat /\ MaxTries \in Nat /\ Within(k)
        /\ Cardinality(Procs) \in Nat /\ Cardinality(Admitted(k)) \in Nat
    BY UnderWay, AccountsAssumption DEF TriesInv, TypeOK
  <2>2. PICK slack \in Nat :
          /\ slack = Cardinality(Procs) * faults
          /\ Cardinality(Procs) * (1 + faults) = Cardinality(Procs) + slack
    BY <2>1
  <2>3. guesses[k] + Cardinality(Admitted(k)) <= MaxTries - 1 + Cardinality(Procs) + slack
    BY <2>1, <2>2 DEF Within, Slack
  <2>4. guesses[k] <= MaxTries - 1 + (Cardinality(Procs) + slack)
    BY <2>1, <2>2, <2>3
  <2> QED BY <2>2, <2>4
<1> QED BY <1>1, InitTries, NextTries, PTL DEF Spec
=============================================================================
