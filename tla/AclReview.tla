------------------------------ MODULE AclReview ------------------------------
(***************************************************************************)
(* One request from its fields to its verification: the snapshot it is     *)
(* drawn on, its plan and what that predicts, the page its approver reads, *)
(* the command the agent makes of the plan, and the snapshot taken after   *)
(* the execution.  The switch may have become anything by then.            *)
(***************************************************************************)
EXTENDS AclText, RequestPlan

CONSTANTS
  Samples,   \* forms that are tried on every table
  Plain      \* the table on which every form is tried

VARIABLES
  form,     \* the request's fields, or Blank: a deletion
  table,    \* the rules of the switch when the request is drawn
  omit,     \* whether this switch leaves the count out for an empty ACL
  old,      \* change_artifacts.old_config
  request,  \* the plan, and the entry it is to make, or None
  new,      \* change_artifacts.new_config
  rows,     \* the two-column page
  sent,     \* the command the agent sends, its Refusal, or None
  after,    \* the rules of the switch when the execution is verified
  verified  \* the outcome of the verification, or None

asked == <<form, table, omit>>
vars == <<form, table, omit, old, request, new, rows, sent, after, verified>>

Tables == [RuleIds -> Entries \cup {Absent}]

Refusal == [refused |-> TRUE]

(* The rules a form may ask for.                                           *)
Rules == [protocol : Protocols, from : SUBSET Words, fromPorts : SUBSET Ports,
          to : SUBSET Words, toPorts : SUBSET Ports]

ASSUME ReviewAssumption ==
  /\ Samples \subseteq PageForms \cup OtherForms
  /\ Plain \in Tables
  /\ None # Refusal
  /\ Absent \notin [body : Rules, comment : {e.comment : e \in Entries}]

Written == sent \notin {None, Refusal}

(* Everything is tried on a deletion and on a sample; any other form is    *)
(* carried through once.                                                   *)
Thorough == form \in Samples \cup {Blank}

Init ==
  /\ form \in Samples \cup {Blank} \cup PageForms \cup OtherForms
  /\ table \in IF Thorough THEN Tables ELSE {Plain}
  /\ omit \in IF Thorough THEN BOOLEAN ELSE {FALSE}
  /\ old = <<>>
  /\ request = None
  /\ new = <<>>
  /\ rows = <<>>
  /\ sent = None
  /\ after = None
  /\ verified = None

(* runSnapshot.  A session that breaks off delivers the beginning.         *)
Snapshot ==
  /\ old = <<>>
  /\ LET whole == DisplayACL(table, omit) IN
     \E k \in IF Thorough THEN 1..Len(whole) ELSE {Len(whole)} : old' = SubSeq(whole, 1, k)
  /\ UNCHANGED <<asked, request, new, rows, sent, after, verified>>

(* Allocation, plan, the check shared with the agent, and the prediction;  *)
(* the rule's line is the command that will be sent.                       *)
Submit ==
  /\ form # Blank /\ form.protocol # Blank
  /\ old # <<>> /\ request = None
  /\ NextRuleID(old) # None
  /\ LET n == NextRuleID(old)
         plan == PlanOf(Normalize(form), n)
     IN /\ ValidateForAgent(plan)
        /\ \E mark \in {e.comment : e \in Entries} :
             LET entry == [body |-> BuildRuleCmd(plan), comment |-> mark]
             IN /\ request' = [plan |-> plan, entry |-> entry]
                /\ new' = ExpectedConfig(old, n, entry)
  /\ UNCHANGED <<asked, old, rows, sent, after, verified>>

(* The rule of an active request, which has a number aclweb allocated.     *)
(* SubmitDelete reads the count, and needs the rule in the snapshot.       *)
SubmitDelete(n) ==
  /\ form = Blank
  /\ old # <<>> /\ request = None
  /\ CountRead(old) # None
  /\ n \in RuleIDs(old) \cap Window
  /\ request' = [plan |-> DeletePlan(n), entry |-> Absent]
  /\ new' = RemoveRuleFromConfig(old, n)
  /\ UNCHANGED <<asked, old, rows, sent, after, verified>>

(* The page of a request is made from its stored diff.                     *)
ShowPage ==
  /\ request # None /\ rows = <<>>
  /\ rows' = SideBySide(UnifiedDiff(old, new))
  /\ UNCHANGED <<asked, old, request, new, sent, after, verified>>

(* doApply, as far as the plan decides: the agent checks it once more,     *)
(* with limits of its own, and sends the command.                          *)
Execute ==
  /\ rows # <<>> /\ sent = None
  /\ LET plan == request.plan IN
     sent' = IF ~ (ValidateForAgent(plan) /\ AbsoluteGuard(plan)) THEN Refusal
             ELSE IF plan.op = "add" THEN BuildRuleCmd(plan) ELSE [undo |-> plan.number]
  /\ UNCHANGED <<asked, old, request, new, rows, after, verified>>

(* The rules the approved change would leave.                              *)
Approved == IF request.plan.op = "add" THEN WithRule(table, request.plan.number, request.entry)
            ELSE WithoutRule(table, request.plan.number)

(* Whatever the execution and others did to the switch, the two snapshots  *)
(* around it are compared.                                                 *)
Verify ==
  /\ Written /\ after = None
  /\ after' \in IF Thorough THEN [RuleIds -> Entries \cup {Absent, request.entry}]
                ELSE {table, Approved}
  /\ LET pre == DisplayACL(table, omit)
         post == DisplayACL(after', omit)
     IN verified' = IF request.plan.op = "add" THEN VerifyChangeText(pre, post, request.plan.number)
                    ELSE VerifyDeletionText(pre, post, request.plan.number)
  /\ UNCHANGED <<asked, old, request, new, rows, sent>>

Next ==
  \/ Snapshot
  \/ Submit
  \/ \E n \in Window : SubmitDelete(n)
  \/ ShowPage
  \/ Execute
  \/ Verify

Spec == Init /\ [][Next]_vars

-----------------------------------------------------------------------------
(* A request is never drawn on part of the ACL: its snapshot shows every   *)
(* rule the switch has, so that the number allocated is the one the whole  *)
(* table allocates (aclout.go:49-53).                                      *)
DrawnOnWholeAcl ==
  request # None =>
    /\ RuleIDs(old) = Occupied(table)
    /\ request.plan.op = "add" => Allocates(table, request.plan.number)

Shown(side) == {rows[i][side] : i \in DOMAIN rows} \ {0}

Unshown(text, nos) ==
  FoldLeftDomain(LAMBDA out, i : IF i \in nos THEN out ELSE Append(out, text[i]), <<>>, text)

(* A numbered line of the page is that line of the configuration, and the  *)
(* lines the page leaves out are the same on both sides                    *)
(* (sidebyside.go:34-40).                                                  *)
PageIsTrue ==
  rows # <<>> =>
    /\ \A i \in DOMAIN rows :
         /\ rows[i].leftNo # 0 => rows[i].left = old[rows[i].leftNo]
         /\ rows[i].rightNo # 0 => rows[i].right = new[rows[i].rightNo]
    /\ Unshown(old, Shown("leftNo")) = Unshown(new, Shown("rightNo"))

(* The page marks nothing but the request's own rule and the count in the  *)
(* header as changed (artifacts_test.go:115).                              *)
PageMarksOnlyTheRequest ==
  \A i \in DOMAIN rows :
    rows[i].kind \notin {"equal", "skip"} =>
      \A l \in {rows[i].left, rows[i].right} \ {None} :
        l.tag = "header" \/ (OfRule(l) /\ l.n = request.plan.number)

(* A switch that did exactly what was approved, and nothing else, shows    *)
(* the predicted configuration line for line (core.go:674-677): with the   *)
(* count of rules a new rule makes, where the old text has one; but        *)
(* wherever the prompt of the old text has come to stand, which is not the *)
(* end when the new rule has the highest number.                           *)
Neutral(text) == [i \in DOMAIN text |-> NeutralizeRuleCount(text[i])]
CountPredicted == request.plan.op = "add" /\ old[1].tag = "header"
PredictionComesTrue ==
  request # None /\ old = DisplayACL(table, omit) =>
    \E i \in DOMAIN new :
      LET predicted == RemoveAt(new, i)
          shown == AclLines(Approved, omit)
      IN /\ new[i] = Prompt
         /\ Neutral(predicted) = Neutral(shown)
         /\ CountPredicted => predicted = shown

(* The verification on texts is the verification on the rules themselves,  *)
(* whatever else became of the switch (core.go:846-885).                   *)
VerifiesTheRules ==
  after # None =>
    verified = IF request.plan.op = "add" THEN VerifyChange(table, after, request.plan.number)
               ELSE VerifyDeletion(table, after, request.plan.number)

(* The command the agent sends is the line the approver saw, and it lets   *)
(* through exactly the traffic the form asked for - any form the page can  *)
(* send, and beyond it those a plan can carry (render.go:13-35).           *)
WrittenIsAsked ==
  Written /\ form # Blank /\ (form \in PageForms \/ FitsThePlan(form)) =>
    /\ sent = AskedRule(form)
    /\ \E i \in DOMAIN rows : /\ rows[i].rightNo # 0
                             /\ rows[i].right = Line("rule", request.plan.number, sent)

(* What aclweb accepted and a human approved the agent executes, except    *)
(* what its own limits forbid a new rule: all of IP, or everyone to        *)
(* everywhere (main.go:288-307, core.go:208-212).                          *)
AcceptedIsExecutable ==
  sent = Refusal => form # Blank /\ AskedTooMuch(form)
=============================================================================
