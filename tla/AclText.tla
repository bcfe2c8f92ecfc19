------------------------------- MODULE AclText -------------------------------
(***************************************************************************)
(* The text of "display acl N", and everything the system reads off it:    *)
(* the rule count, the next free rule number, the predicted configuration  *)
(* of a request, the diff an approver reads and its side-by-side page, and *)
(* the verification after the execution.  AclTable says what the readings  *)
(* mean; here they are taken line by line.                                 *)
(***************************************************************************)
EXTENDS AclTable, SequencesExt

CONSTANTS
  Entries,   \* what a rule number may hold: [body, comment]
  None,      \* no comment, no value
  Context    \* unchanged lines a diff shows around a change

ASSUME TextAssumption ==
  /\ \A e \in Entries : e = [body |-> e.body, comment |-> e.comment]
  /\ Absent \notin Entries
  /\ None \notin Nat
  /\ Context \in Nat

(* The rule numbers in ascending order.                                    *)
Numbers ==
  [i \in 1..Cardinality(RuleIds) |->
     CHOOSE n \in RuleIds : Cardinality({m \in RuleIds : m < n}) = i - 1]

-----------------------------------------------------------------------------
(* Lines.  A header carries its count clause, or none; a rule's line and   *)
(* its comment's line both begin with "rule N".                            *)

Line(tag, n, text) == [tag |-> tag, n |-> n, text |-> text]
Counted(n) == Line("header", n, None)
Bare == Line("bare header", 0, None)
Step == Line("step", 0, None)
Prompt == Line("prompt", 0, None)
OfRule(l) == l.tag \in {"rule", "comment"}

(* buildExpectedConfig's newLines, and displayACL's lines of one rule.     *)
RuleLines(n, e) ==
  IF e = Absent THEN <<>>
  ELSE <<Line("rule", n, e.body)>> \o
       IF e.comment = None THEN <<>> ELSE <<Line("comment", n, e.comment)>>

(* What the switch prints.                                                 *)
AclLines(table, omitEmptyCount) ==
  <<IF omitEmptyCount /\ Count(table) = 0 THEN Bare ELSE Counted(Count(table)), Step>> \o
  FlattenSeq([i \in DOMAIN Numbers |-> RuleLines(Numbers[i], table[Numbers[i]])])

(* The session reads up to the prompt, and the text keeps it.  The echo of *)
(* the command, a line in front that nothing reads, is left out.           *)
DisplayACL(table, omitEmptyCount) == Append(AclLines(table, omitEmptyCount), Prompt)

-----------------------------------------------------------------------------
(* Package aclout: RuleIDs and Count.  None stands for Count's errors.     *)

RuleIDs(text) == {l.n : l \in {l \in ToSet(text) : OfRule(l)}}

(* The first count clause is the one that is read.                         *)
Headers(text) == {i \in DOMAIN text : text[i].tag = "header"}
Claimed(text) == text[Min(Headers(text))].n

CountRead_Trusting(text) ==
  IF Headers(text) # {} THEN Claimed(text) ELSE Cardinality(RuleIDs(text))
CountRead(text) ==
  LET ids == Cardinality(RuleIDs(text)) IN
  IF Headers(text) # {}
  THEN IF ids < Claimed(text) THEN None ELSE Claimed(text)
  ELSE IF \E l \in ToSet(text) : l.tag \in {"header", "bare header", "step"} THEN ids ELSE None

(* allocateRuleID over occupiedIDs; None stands for its errors.            *)
NextRuleID(text) ==
  LET used == RuleIDs(text) \cap Window
      next == IF used = {} THEN RangeMin ELSE Max(used) + 1
  IN IF CountRead(text) = None \/ next > AllocMax \/ next \in used THEN None ELSE next

-----------------------------------------------------------------------------
(* The predicted configuration.                                            *)

BumpRuleCount(l) == IF l.tag = "header" THEN Counted(l.n + 1) ELSE l

(* The new lines go before the first line of a rule with a higher number.  *)
ExpectedConfig_AtTheEnd(text, n, entry) ==
  [i \in DOMAIN text |-> BumpRuleCount(text[i])] \o RuleLines(n, entry)
ExpectedConfig(text, n, entry) ==
  LET higher == {i \in DOMAIN text : OfRule(text[i]) /\ text[i].n > n}
      at == IF higher = {} THEN Len(text) + 1 ELSE Min(higher)
      bumped == [i \in DOMAIN text |-> BumpRuleCount(text[i])]
  IN SubSeq(bumped, 1, at - 1) \o RuleLines(n, entry) \o SubSeq(bumped, at, Len(text))

(* The loop that copies every line but those of rule n.                    *)
LinesWithout(text, n) ==
  FoldLeft(LAMBDA out, l : IF OfRule(l) /\ l.n = n THEN out ELSE Append(out, l), <<>>, text)

RemoveRuleFromConfig(text, n) == LinesWithout(text, n)

-----------------------------------------------------------------------------
(* diffOps: the table of longest common subsequences of the suffixes, and  *)
(* the edit script read off it.                                            *)

LcsRow_Unfilled(x, below, b) == below
LcsRow(x, below, b) ==
  FoldRightDomain(
    LAMBDA j, row : <<IF x = b[j] THEN below[j + 1] + 1
                      ELSE IF below[j] >= Head(row) THEN below[j] ELSE Head(row)>> \o row,
    b, <<0>>)

LcsTable(a, b) ==
  FoldRight(LAMBDA x, rows : <<LcsRow(x, Head(rows), b)>> \o rows,
            a, <<[j \in 1..Len(b) + 1 |-> 0]>>)

Op(kind, l) == [kind |-> kind, line |-> l]

DiffOps(a, b) ==
  LET lcs == LcsTable(a, b)
      from[p \in (1..Len(a) + 1) \X (1..Len(b) + 1)] ==
        LET i == p[1]
            j == p[2]
            delete == <<Op("delete", a[i])>> \o from[<<i + 1, j>>]
            insert == <<Op("insert", b[j])>> \o from[<<i, j + 1>>]
        IN IF i > Len(a) /\ j > Len(b) THEN <<>>
           ELSE IF j > Len(b) THEN delete
           ELSE IF i > Len(a) THEN insert
           ELSE IF a[i] = b[j] THEN <<Op("equal", a[i])>> \o from[<<i + 1, j + 1>>]
           ELSE IF lcs[i + 1][j] >= lcs[i][j + 1] THEN delete ELSE insert
  IN from[<<1, 1>>]

(* unifiedDiff: a run of unchanged lines further than Context from every   *)
(* change becomes one "@@ n unchanged lines @@".                           *)
Kept(ops, i) == \E c \in DOMAIN ops : /\ ops[c].kind # "equal"
                                      /\ i - Context <= c /\ c <= i + Context

Skip(n) == [kind |-> "skip", n |-> n]

UnifiedDiff(a, b) ==
  LET ops == DiffOps(a, b)
      Emit(out, i) ==
        IF Kept(ops, i) THEN Append(out, ops[i])
        ELSE IF out # <<>> /\ Last(out).kind = "skip"
             THEN Append(Front(out), Skip(Last(out).n + 1))
             ELSE Append(out, Skip(1))
  IN FoldLeftDomain(Emit, <<>>, ops)

-----------------------------------------------------------------------------
(* SideBySideDiff: rows with the line numbers of both sides, 0 and None    *)
(* where a side has no line.                                               *)

Row(kind, leftNo, rightNo, left, right) ==
  [kind |-> kind, leftNo |-> leftNo, rightNo |-> rightNo, left |-> left, right |-> right]

Flush(p) ==
  LET dels == Len(p.dels)
      adds == Len(p.adds)
      Pair(i) ==
        Row(IF i > adds THEN "remove" ELSE IF i > dels THEN "add" ELSE "replace",
            IF i > dels THEN 0 ELSE p.leftNo + i,
            IF i > adds THEN 0 ELSE p.rightNo + i,
            IF i > dels THEN None ELSE p.dels[i],
            IF i > adds THEN None ELSE p.adds[i])
  IN [leftNo |-> p.leftNo + dels, rightNo |-> p.rightNo + adds, dels |-> <<>>, adds |-> <<>>,
      rows |-> p.rows \o [i \in 1..(IF dels > adds THEN dels ELSE adds) |-> Pair(i)]]

SkipLines_Uncounted(p, n) ==
  [Flush(p) EXCEPT !.rows = Append(@, Row("skip", 0, 0, n, n))]
SkipLines(p, n) ==
  [Flush(p) EXCEPT !.leftNo = @ + n, !.rightNo = @ + n,
                   !.rows = Append(@, Row("skip", 0, 0, n, n))]

SameLine(p, l) ==
  LET f == Flush(p)
  IN [f EXCEPT !.leftNo = @ + 1, !.rightNo = @ + 1,
               !.rows = Append(@, Row("equal", f.leftNo + 1, f.rightNo + 1, l, l))]

SideBySide(unified) ==
  LET Take(p, u) ==
        CASE u.kind = "skip" -> SkipLines(p, u.n)
          [] u.kind = "delete" -> [p EXCEPT !.dels = Append(@, u.line)]
          [] u.kind = "insert" -> [p EXCEPT !.adds = Append(@, u.line)]
          [] u.kind = "equal" -> SameLine(p, u.line)
  IN Flush(FoldLeft(Take, [leftNo |-> 0, rightNo |-> 0, dels |-> <<>>, adds |-> <<>>,
                           rows |-> <<>>], unified)).rows

-----------------------------------------------------------------------------
(* The verification after an execution, on the two texts.                  *)

NeutralizeRuleCount(l) == IF l.tag = "header" THEN Bare ELSE l

SignificantLines_WithCount(text, n) == LinesWithout(text, n)
SignificantLines(text, n) ==
  LET others == LinesWithout(text, n)
  IN [i \in DOMAIN others |-> NeutralizeRuleCount(others[i])]

CountMoved(pre, post, by) ==
  /\ CountRead(pre) # None
  /\ CountRead(post) # None
  /\ CountRead(post) = CountRead(pre) + by
OnlyRuleChanged(pre, post, n) == SignificantLines(pre, n) = SignificantLines(post, n)

VerifyChangeText(pre, post, n) ==
  /\ CountMoved(pre, post, 1)
  /\ n \in RuleIDs(post)
  /\ OnlyRuleChanged(pre, post, n)

VerifyDeletionText(pre, post, n) ==
  /\ CountMoved(pre, post, -1)
  /\ n \notin RuleIDs(post)
  /\ OnlyRuleChanged(pre, post, n)
=============================================================================
