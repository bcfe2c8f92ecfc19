---------------------------- MODULE TelnetSession ----------------------------
(***************************************************************************)
(* One telnet session of aclagent with a switch.  Commands go one way,     *)
(* text the other; the text arrives in pieces of any size, late, or never, *)
(* and the client decides from the pieces it has which view it is in, what *)
(* the ACL holds and whether its commands were carried out.                *)
(*                                                                         *)
(* Text is a sequence of tokens: the prompts, the lines of the ACL, and    *)
(* the few phrases the client looks for.  A piece is a number of whole     *)
(* tokens.  Echoes are left out: no pattern of the client matches one.     *)
(***************************************************************************)
EXTENDS Integers, FiniteSets, Sequences, SequencesExt

CONSTANTS
  RuleIds,    \* rule numbers the switch may hold
  PageLines,  \* lines on a page of the switch
  Cases,      \* jobs the agent may be given, and switches to do them on
  MayHang     \* the switch may stop answering

VARIABLES
  job,        \* this agent's job: [op, n, expect, comment, user]
  style,      \* this switch, a record of traits
  held,       \* rule numbers in the running configuration
  stored,     \* rule numbers in the startup configuration
  marked,     \* rules with an ownership comment
  dev,        \* the switch's end of the session
  toDevice,   \* commands on their way
  toClient,   \* text on its way
  cl          \* the client: [pc, buf, full, aclPrompt, res]

ruleVars == <<held, stored, marked>>
vars == <<job, style, ruleVars, dev, toDevice, toClient, cl>>

ASSUME SessionAssumption ==
  /\ IsFiniteSet(RuleIds) /\ RuleIds \subseteq Nat
  /\ \A c \in Cases :
       /\ c.job.n \in RuleIds /\ c.job.op \in {"snapshot", "apply", "remove", "rollback"}
       /\ c.style.login \in {"username", "password", "user"}
  /\ PageLines \in Nat \ {0}
  /\ MayHang \in BOOLEAN

-----------------------------------------------------------------------------
(* Text                                                                    *)

NoCount == 0 - 1
Tok(t) == [t |-> t, n |-> 0]
UserPrompt == Tok("<H>")
SysPrompt == Tok("[H]")          \* the ACL view's too, on some switches
AclPrompt == Tok("[H-acl-N]")
OtherPrompt == Tok("[H-acl-M]")
Prompts == {UserPrompt, SysPrompt, AclPrompt, OtherPrompt}
NoPrompt == Tok("")
Header(n) == [t |-> "header", n |-> n]
Rule(n) == [t |-> "rule", n |-> n]
Remark == Tok("remark")          \* a rule's comment that contains "<x> [y]"
Question == Tok("[Y/N]")
Success == Tok("success")

Has(out, S) == \E i \in DOMAIN out : out[i] \in S
Bracket == (Prompts \ {UserPrompt}) \cup {Remark, Question}   \* text with "]"
Angle == {UserPrompt, Remark}                                 \* text with ">"

(* rePrompt asks for a prompt at the very end of what has been read.       *)
TrailingPrompt_Anywhere(out) ==
  IF Has(out, Bracket \cup Angle) THEN SysPrompt ELSE NoPrompt
TrailingPrompt(out) ==
  IF out # <<>> /\ Last(out) \in Prompts THEN Last(out) ELSE NoPrompt

Failed_Ignored(out) == FALSE
Failed(out) == Has(out, {Tok("error")})

(* aclout.Count: the header's count, if as many rules were read.           *)
RulesRead(out) == {r.n : r \in {out[i] : i \in {j \in DOMAIN out : out[j].t = "rule"}}}
Count(out) ==
  LET headers == {out[i].n : i \in {j \in DOMAIN out : out[j].t = "header"}}
      read == Cardinality(RulesRead(out))
  IN CASE headers = {} -> NoCount
       [] headers = {NoCount} -> read
       [] OTHER -> LET n == CHOOSE n \in headers : TRUE IN IF read < n THEN NoCount ELSE n

-----------------------------------------------------------------------------
(* The switch                                                              *)

Prompt(view) ==
  CASE view = "user" -> UserPrompt
    [] view = "system" -> SysPrompt
    [] view = "acl" -> IF style.plainPrompt THEN SysPrompt
                       ELSE IF style.otherAcl THEN OtherPrompt ELSE AclPrompt
    [] view = "username" -> Tok("Username:")
    [] OTHER -> Tok("Password:")

Ordered ==
  [i \in 1..Cardinality(held) |-> CHOOSE n \in held : Cardinality({m \in held : m < n}) = i - 1]
RuleLines ==
  LET lines == [i \in DOMAIN Ordered |-> Rule(Ordered[i])]
  IN IF style.remarks /\ held # {} THEN InsertAt(lines, 2, Remark) ELSE lines
AclLines == <<Header(IF style.countless THEN NoCount ELSE Cardinality(held))>> \o RuleLines

Init ==
  /\ \E c \in Cases : job = c.job /\ style = c.style
  /\ held \in SUBSET RuleIds /\ stored = held /\ marked = {}
  /\ dev = [view |-> style.login, paging |-> TRUE, page |-> <<>>, asking |-> FALSE, alive |-> TRUE]
  /\ toDevice = <<>>
  /\ toClient = <<Prompt(style.login)>>
  /\ cl = [pc |-> "greeting", buf |-> <<>>, full |-> <<>>, aclPrompt |-> NoPrompt, res |-> "none"]

Say(text) == toClient' = toClient \o text
Obey(c) == /\ dev.alive
           /\ toDevice # <<>> /\ Head(toDevice) = c
           /\ toDevice' = Tail(toDevice)
           /\ UNCHANGED <<job, style, cl>>
Commanded(c) == /\ Obey(c)
                /\ dev.view \in {"user", "system", "acl"}
                /\ ~ dev.asking /\ dev.page = <<>>
Refuse == Say(<<Tok("error"), Prompt(dev.view)>>)
GoTo(view) == dev' = [dev EXCEPT !.view = view] /\ Say(<<Prompt(view)>>)

TakeUser ==
  /\ Obey("user") /\ dev.view = "username"
  /\ GoTo("password")
  /\ UNCHANGED ruleVars

(* A wrong password is asked for once more before the switch hangs up.  A  *)
(* switch that asks for none takes it for a command.                       *)
TakePassword ==
  /\ Obey("password")
  /\ \/ dev.view = "password" /\ style.accepts /\ GoTo("user")
     \/ /\ dev.view = "password" /\ ~ style.accepts
        /\ Say(<<Prompt("password")>>) /\ dev' = [dev EXCEPT !.view = "closed"]
     \/ dev.view = "user" /\ Refuse /\ UNCHANGED dev
  /\ UNCHANGED ruleVars

TakeScreenLength ==
  /\ Commanded("screen-length disable")
  /\ IF style.keepsPaging THEN Refuse /\ UNCHANGED dev
     ELSE dev' = [dev EXCEPT !.paging = FALSE] /\ Say(<<Prompt(dev.view)>>)
  /\ UNCHANGED ruleVars

TakeView(c, from, to) ==
  /\ Commanded(c)
  /\ IF dev.view = from THEN GoTo(to) ELSE Refuse /\ UNCHANGED dev
  /\ UNCHANGED ruleVars

TakeQuit ==
  /\ Commanded("quit")
  /\ CASE dev.view = "acl" -> GoTo("system")
       [] dev.view = "system" -> GoTo("user")
       [] OTHER -> dev' = [dev EXCEPT !.view = "closed"] /\ UNCHANGED toClient
  /\ UNCHANGED ruleVars

(* Inside another ACL's view the switch shows, and changes, the other ACL. *)
TakeDisplayThis ==
  /\ Commanded("display this")
  /\ IF dev.view # "acl" THEN Refuse
     ELSE Say((IF style.otherAcl THEN <<Tok("acl M")>> ELSE <<Tok("acl N")>> \o RuleLines)
              \o <<Prompt("acl")>>)
  /\ UNCHANGED <<ruleVars, dev>>

(* displayACL: a page, the marker, and the rest when a key is pressed.     *)
ShowPage(lines) ==
  IF dev.paging /\ Len(lines) > PageLines
  THEN /\ Say(SubSeq(lines, 1, PageLines) \o <<Tok("More")>>)
       /\ dev' = [dev EXCEPT !.page = SubSeq(lines, PageLines + 1, Len(lines))]
  ELSE /\ Say(lines \o <<Prompt(dev.view)>>)
       /\ dev' = [dev EXCEPT !.page = <<>>]

TakeDisplayAcl == Commanded("display acl") /\ ShowPage(AclLines) /\ UNCHANGED ruleVars
TakeSpace == Obey(" ") /\ dev.page # <<>> /\ ShowPage(dev.page) /\ UNCHANGED ruleVars

(* "quit", sent when the client gives up, begins with the key that ends a  *)
(* display, and answers no question.                                       *)
TakeStrayQuit ==
  /\ Obey("quit")
  /\ \/ /\ dev.page # <<>>
        /\ dev' = [dev EXCEPT !.page = <<>>]
        /\ Say(<<Prompt(dev.view), Tok("error"), Prompt(dev.view)>>)
     \/ /\ dev.asking \/ dev.view \in {"username", "password", "closed"}
        /\ dev' = [dev EXCEPT !.view = "closed", !.asking = FALSE]
        /\ UNCHANGED toClient
  /\ UNCHANGED ruleVars

Edit(c, allowed, newHeld, newMarked) ==
  /\ Commanded(c)
  /\ IF dev.view = "acl" /\ allowed
     THEN /\ Say(<<Prompt("acl")>>)
          /\ held' = IF style.otherAcl THEN held ELSE newHeld
          /\ marked' = IF style.otherAcl THEN marked ELSE newMarked
     ELSE Refuse /\ UNCHANGED <<held, marked>>
  /\ UNCHANGED <<stored, dev>>

TakeRule == Edit("rule", ~ style.refusesWrites, held \cup {job.n}, marked)
TakeUndo == Edit("undo", ~ style.refusesWrites, held \ {job.n}, marked \ {job.n})
TakeComment == Edit("comment", ~ style.refusesComments /\ job.n \in held, held, marked \cup {job.n})

Store == stored' = held /\ Say(<<Success, Prompt(dev.view)>>)

TakeSave ==
  /\ Commanded("save force")
  /\ IF dev.view = "acl" \/ style.saves = "fails" THEN Refuse /\ UNCHANGED <<stored, dev>>
     ELSE IF style.saves = "works" THEN Store /\ UNCHANGED dev
     ELSE /\ Say(<<Question>>) /\ UNCHANGED stored
          /\ dev' = [dev EXCEPT !.asking = TRUE]
  /\ UNCHANGED <<held, marked>>

TakeYes ==
  /\ Obey("Y") /\ dev.asking
  /\ Store /\ dev' = [dev EXCEPT !.asking = FALSE]
  /\ UNCHANGED <<held, marked>>

Device ==
  \/ TakeUser \/ TakePassword
  \/ TakeScreenLength
  \/ TakeView("system-view", "user", "system")
  \/ TakeView("acl advanced", "system", "acl")
  \/ TakeQuit \/ TakeStrayQuit
  \/ TakeDisplayThis \/ TakeDisplayAcl \/ TakeSpace
  \/ TakeRule \/ TakeComment \/ TakeUndo
  \/ TakeSave \/ TakeYes

Hang ==
  /\ MayHang /\ dev.alive /\ cl.pc # "done"
  /\ dev' = [dev EXCEPT !.alive = FALSE]
  /\ UNCHANGED <<job, style, ruleVars, toDevice, toClient, cl>>

(* What the switch has not read when the connection closes may be lost.    *)
Discard ==
  /\ cl.pc = "done" /\ toDevice # <<>>
  /\ toDevice' = <<>>
  /\ UNCHANGED <<job, style, ruleVars, dev, toClient, cl>>

-----------------------------------------------------------------------------
(* The client.  pc names the answer it is waiting for.  readUntil looks at *)
(* everything read for this answer after every piece, and stops reading as *)
(* soon as it matches: login and display want their pattern at the end,    *)
(* the rest take it anywhere.                                              *)

Displays == {"display", "guard"}
AtEnd == [greeting |-> Prompts \cup {Prompt("username"), Prompt("password")},
          password |-> {Prompt("password")},
          login    |-> Prompts \cup {Prompt("password")}]
Anywhere(pc) ==
  CASE pc \in {"system", "acl", "this", "quit_acl"} -> Bracket
    [] pc = "quit_system" -> Angle
    [] pc \in {"save", "confirm"} -> Bracket \cup Angle \cup {Success}
    [] OTHER -> Bracket \cup Angle

Matched ==
  CASE cl.pc \in DOMAIN AtEnd -> cl.buf # <<>> /\ Last(cl.buf) \in AtEnd[cl.pc]
    [] cl.pc \in Displays -> Has(cl.buf, {Tok("More")}) \/ TrailingPrompt(cl.buf) # NoPrompt
    [] OTHER -> Has(cl.buf, Anywhere(cl.pc))

Receive ==
  /\ cl.pc # "done" /\ ~ Matched
  /\ \E k \in 1..Len(toClient) :
       /\ cl' = [cl EXCEPT !.buf = @ \o SubSeq(toClient, 1, k)]
       /\ toClient' = SubSeq(toClient, k + 1, Len(toClient))
  /\ UNCHANGED <<job, style, ruleVars, dev, toDevice>>

Others == <<job, style, ruleVars, dev, toClient>>
Answered(pc) == cl.pc = pc /\ Matched /\ UNCHANGED Others
Ask(c, next) == /\ cl' = [cl EXCEPT !.pc = next, !.buf = <<>>, !.full = <<>>]
                /\ toDevice' = Append(toDevice, c)
(* Close: every way out of an operation ends in it.                        *)
Finish(r) == /\ cl' = [cl EXCEPT !.pc = "done", !.res = r, !.buf = <<>>]
             /\ toDevice' = Append(toDevice, "quit")
Fail == Finish("failed")

(* Open                                                                    *)
Greeted ==
  /\ Answered("greeting")
  /\ IF Last(cl.buf) # Prompt("username") THEN Ask("password", "login")
     ELSE IF job.user THEN Ask("user", "password") ELSE Fail
SendPassword == Answered("password") /\ Ask("password", "login")
LoggedIn ==
  /\ Answered("login")
  /\ IF Last(cl.buf) = Prompt("password") THEN Fail
     ELSE IF job.op = "snapshot" THEN Ask("screen-length disable", "paging_off")
     ELSE Ask("system-view", "system")

(* Snapshot.  TryExec's error, a timeout among them, is ignored.           *)
DisplayACL == Answered("paging_off") /\ Ask("display acl", "display")
NextPage ==
  /\ \E pc \in Displays : Answered(pc)
  /\ Has(cl.buf, {Tok("More")})
  /\ cl' = [cl EXCEPT !.full = @ \o cl.buf, !.buf = <<>>]
  /\ toDevice' = Append(toDevice, " ")
Output == cl.full \o cl.buf
LastPage(pc) == Answered(pc) /\ ~ Has(cl.buf, {Tok("More")})
Snapshot ==
  /\ LastPage("display")
  /\ IF Failed(Output) THEN Fail
     ELSE /\ cl' = [cl EXCEPT !.pc = "done", !.res = "read", !.full = Output, !.buf = <<>>]
          /\ toDevice' = Append(toDevice, "quit")

(* EnterSystemView, EnterACLView: a prompt that ends in the ACL's number,  *)
(* or what "display this" says, is evidence of the view.                   *)
EnterACLView ==
  /\ Answered("system")
  /\ IF Failed(cl.buf) THEN Fail ELSE Ask("acl advanced", "acl")
NamesTheAcl_Anyone(out) == TrailingPrompt(out) # NoPrompt
NamesTheAcl(out) ==
  \/ Has(out, {AclPrompt})
  \/ style.hostNumber /\ TrailingPrompt(out) = SysPrompt
Settled ==
  LET c == IF job.op = "rollback" THEN "undo" ELSE "display acl"
      next == IF job.op = "rollback" THEN "undo" ELSE "guard"
  IN /\ cl' = [cl EXCEPT !.aclPrompt = TrailingPrompt(cl.buf), !.pc = next, !.buf = <<>>]
     /\ toDevice' = Append(toDevice, c)
CheckPrompt ==
  /\ Answered("acl")
  /\ IF Failed(cl.buf) THEN Fail
     ELSE IF NamesTheAcl(cl.buf) THEN Settled
     ELSE IF TrailingPrompt(cl.buf) = NoPrompt THEN Fail
     ELSE Ask("display this", "this")
CheckView ==
  /\ Answered("this")
  /\ IF ~ Failed(cl.buf) /\ Has(cl.buf, {Tok("acl N")}) THEN Settled ELSE Fail

(* GuardCheck and GuardCheckExisting, which share all but the first test.  *)
GuardHolds_NoCount(out) == (job.n \in RulesRead(out)) = (job.op = "remove")
GuardHolds(out) ==
  /\ (job.n \in RulesRead(out)) = (job.op = "remove")
  /\ Count(out) # NoCount /\ Count(out) = job.expect
Guard ==
  /\ LastPage("guard")
  /\ IF Failed(Output) \/ ~ GuardHolds(Output) THEN Fail
     ELSE IF job.op = "remove" THEN Ask("undo", "undo") ELSE Ask("rule", "rule")

(* execInACLView                                                           *)
Done == ~ Failed(cl.buf) /\ TrailingPrompt(cl.buf) = cl.aclPrompt

ExecRule ==
  /\ Answered("rule")
  /\ IF ~ Done THEN Fail
     ELSE IF job.comment THEN Ask("comment", "comment") ELSE Ask("quit", "quit_acl")
ExecComment_Best ==
  /\ Answered("comment")
  /\ Ask("quit", "quit_acl")
ExecComment ==
  /\ Answered("comment")
  /\ IF Done THEN Ask("quit", "quit_acl") ELSE Ask("undo", "undo_comment")
UndoAfterComment ==
  /\ Answered("undo_comment")
  /\ Finish(IF Done THEN "undone" ELSE "undo_failed")
ExecUndo ==
  /\ Answered("undo")
  /\ IF Done THEN Ask("quit", "quit_acl") ELSE Fail

QuitACLView ==
  /\ Answered("quit_acl")
  /\ IF Failed(cl.buf) THEN Fail ELSE Ask("quit", "quit_system")
(* A rollback ignores this error too, and saves nothing.                   *)
QuitSysView ==
  /\ Answered("quit_system")
  /\ IF job.op = "rollback" THEN Finish("ok")
     ELSE IF Failed(cl.buf) THEN Fail ELSE Ask("save force", "save")
Save ==
  /\ Answered("save")
  /\ IF Failed(cl.buf) THEN Fail
     ELSE IF Has(cl.buf, {Success}) THEN Finish("ok")
     ELSE IF Has(cl.buf, {Question}) THEN Ask("Y", "confirm") ELSE Fail
Confirm ==
  /\ Answered("confirm")
  /\ IF Has(cl.buf, {Success}) THEN Finish("ok") ELSE Fail

(* The read deadline, or a connection that breaks.                         *)
Timeout_NoDeadline == FALSE
Timeout ==
  /\ cl.pc # "done" /\ ~ Matched
  /\ CASE cl.pc = "paging_off" -> Ask("display acl", "display")
       [] cl.pc = "comment" -> Ask("undo", "undo_comment")
       [] cl.pc = "undo_comment" -> Finish("undo_failed")
       [] cl.pc = "quit_system" /\ job.op = "rollback" -> Finish("ok")
       [] OTHER -> Fail
  /\ UNCHANGED Others

Client ==
  \/ Receive \/ Timeout
  \/ Greeted \/ SendPassword \/ LoggedIn
  \/ DisplayACL \/ NextPage \/ Snapshot
  \/ EnterACLView \/ CheckPrompt \/ CheckView \/ Guard
  \/ ExecRule \/ ExecComment \/ UndoAfterComment \/ ExecUndo
  \/ QuitACLView \/ QuitSysView \/ Save \/ Confirm

Next == Device \/ Client \/ Hang \/ Discard
Spec == Init /\ [][Next]_vars

(* The client never stops of its own accord: a read returns at its         *)
(* deadline.  Nothing is assumed of the switch.                            *)
FairSpec == Spec /\ WF_vars(Client)
-----------------------------------------------------------------------------
(* What a session promises                                                 *)

Sent(c) == Has(toDevice, {c})
Edits == {"rule", "comment", "undo"}

(* No command that edits rules reaches a switch that is not in the view of *)
(* this agent's own ACL: the "one mistake" EnterACLView's check exists to  *)
(* prevent.  The answers the client took for evidence may be old, cut      *)
(* short, or about another ACL.                                            *)
WritesInOwnAcl ==
  \A c \in Edits : Sent(c) => dev.view = "acl" /\ ~ style.otherAcl

(* When the first edit goes out, the rules on the switch are those the     *)
(* plan was made for, whatever pages, pieces and remarks the client read   *)
(* to find out: an existing number would be merged into, silently.         *)
GuardHeld ==
  /\ Sent("rule") => job.n \notin held /\ Cardinality(held) = job.expect
  /\ Sent("undo") /\ job.op = "remove" => job.n \in held /\ Cardinality(held) = job.expect

(* "ok" is reported only when every command was carried out, the save      *)
(* included.                                                               *)
OkMeansDone ==
  cl.res = "ok" =>
    CASE job.op = "apply" -> /\ job.n \in held /\ stored = held
                             /\ job.comment => job.n \in marked
      [] job.op = "remove" -> job.n \notin held /\ stored = held
      [] OTHER -> job.n \notin held

(* A snapshot that counts as a reading of the ACL shows every rule of it.  *)
(* Rule numbers and line positions are taken from it.                      *)
SnapshotIsWhole ==
  cl.res = "read" /\ Count(cl.full) # NoCount => RulesRead(cl.full) = held

(* Nothing half-done is made permanent: the startup configuration is       *)
(* written only when the running one holds the whole of the job.  A rule   *)
(* whose comment failed is never saved.                                    *)
SavesOnlyFinished ==
  [][stored' # stored =>
       CASE job.op = "apply" -> job.n \in held /\ (job.comment => job.n \in marked)
         [] job.op = "remove" -> job.n \notin held
         [] OTHER -> FALSE]_vars

(* The agent comes to an end, whatever the switch does or fails to do.     *)
SessionEnds == <>(cl.pc = "done")

(* README.md:179, a failed comment takes the whole rule back; ops.go:84    *)
(* reports it as done.                                                     *)
UndoneMeansUndone ==
  cl.res = "undone" /\ toDevice = <<>> => job.n \notin held
=============================================================================
