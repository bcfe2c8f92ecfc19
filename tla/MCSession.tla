------------------------------ MODULE MCSession ------------------------------
(* Instances of TelnetSession: jobs and switches small enough for TLC.     *)
EXTENDS TelnetSession

PlainSwitch ==
  [login |-> "username", accepts |-> TRUE, plainPrompt |-> FALSE, hostNumber |-> FALSE,
   otherAcl |-> FALSE, keepsPaging |-> FALSE, remarks |-> FALSE, countless |-> FALSE,
   refusesWrites |-> FALSE, refusesComments |-> FALSE, saves |-> "works"]

Job(op, n, expect, comment) ==
  [op |-> op, n |-> n, expect |-> expect, comment |-> comment, user |-> TRUE]

(* Every reading of an ACL: with and without pages, counts and remarks.    *)
ReadingJobs == {Job("snapshot", 1, 0, FALSE)}
ReadingSwitches ==
  {[PlainSwitch EXCEPT !.login = "password", !.keepsPaging = k, !.remarks = r, !.countless = c] :
     k, r, c \in BOOLEAN}

(* Every way to get in, and to be kept out.                                *)
LoginJobs == {[Job("snapshot", 1, 0, FALSE) EXCEPT !.user = u] : u \in BOOLEAN}
LoginSwitches ==
  {[PlainSwitch EXCEPT !.login = l, !.accepts = a] :
     l \in {"username", "password", "user"}, a \in BOOLEAN}

(* Every edit, right and wrong counts, on switches with every pair of      *)
(* traits that touch it.                                                   *)
EditJobs == {Job("apply", 1, 1, c) : c \in BOOLEAN}
            \cup {Job("remove", 1, e, FALSE) : e \in {1, 2}}
            \cup {Job("rollback", 1, 0, FALSE)}
ViewTraits ==
  {s \in {[PlainSwitch EXCEPT !.login = "password", !.plainPrompt = p, !.otherAcl = o, !.hostNumber = h] :
            p, o, h \in BOOLEAN} : ~ (s.otherAcl /\ s.hostNumber)}
EditSwitches ==
  UNION {{s, [s EXCEPT !.remarks = TRUE, !.countless = TRUE],
          [s EXCEPT !.remarks = TRUE],
          [s EXCEPT !.refusesWrites = TRUE], [s EXCEPT !.refusesComments = TRUE],
          [s EXCEPT !.saves = "asks"], [s EXCEPT !.saves = "fails"]} : s \in ViewTraits}

On(jobs, switches) == {[job |-> j, style |-> s] : j \in jobs, s \in switches}
EveryCase ==
  On(ReadingJobs, ReadingSwitches) \cup On(LoginJobs, LoginSwitches)
  \cup On(EditJobs, EditSwitches)
CommentCase ==
  On({Job("apply", 1, 1, TRUE)}, {[PlainSwitch EXCEPT !.login = "password"]})
==============================================================================
