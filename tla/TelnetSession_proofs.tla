----------------------- MODULE TelnetSession_proofs -----------------------
(***************************************************************************)
(* Proofs about TelnetSession: what the agent may believe of a switch that *)
(* answers in pieces, late or not at all, for every job, every switch and  *)
(* every size of the pages and of the pieces.                              *)
(*                                                                         *)
(* The invariant is SessionInv.  Its parts, each resting on those before:  *)
(*   TypeInv, JobInv     the types, and which job waits for which answer;  *)
(*   OrderInv            what may follow what in the queue of commands;    *)
(*   TextInv, EarlyInv   every line of the ACL under way is true;          *)
(*   DisplayInv          the pages of a display lose none of them;         *)
(*   TalkInv, EnterInv   outside a display there is one command at a time, *)
(*                       and its answer says whether it was carried out;   *)
(*   ViewInv             the view is that of the ACL when an edit arrives; *)
(*   ReadInv, GuardInv, FinishInv   what is concluded from all of this.    *)
(*                                                                         *)
(* A step is first reduced to one of five forms (Steps): the switch says   *)
(* something, the client sends something, reads a piece, sets a page       *)
(* aside, or nothing of interest happens.  Each part is then shown to be   *)
(* kept by the five.                                                       *)
(***************************************************************************)
EXTENDS TelnetSession, FiniteSetTheorems, SequenceTheorems, TLAPS

Tags == {"<H>", "[H]", "[H-acl-N]", "[H-acl-M]", "Username:", "Password:",
         "header", "rule", "remark", "More", "acl N", "acl M", "error", "[Y/N]", "success"}
Token == [t : Tags, n : Int]
Line == {x \in Token : x.t \in {"header", "rule", "remark"}}

(* Three texts in a row may be grouped either way.  The equation has a     *)
(* name, which the provers do not rewrite with.                            *)
Regrouped(x, y, z) == (x \o y) \o z = x \o (y \o z)

LEMMA Regrouping ==
  ASSUME NEW S, NEW x \in Seq(S), NEW y \in Seq(S), NEW z \in Seq(S)
  PROVE  Regrouped(x, y, z)
<1>1. (x \o y) \o z = x \o (y \o z)
  BY ConcatAssociative
<1> QED BY <1>1 DEF Regrouped

(* a has been read, and now the first k pieces of b; b's rest is to come.  *)
ReadOff(S, a, b, k) ==
  /\ a \o SubSeq(b, 1, k) \in Seq(S)
  /\ SubSeq(b, k + 1, Len(b)) \in Seq(S)
  /\ (a \o SubSeq(b, 1, k)) \o SubSeq(b, k + 1, Len(b)) = a \o b

(* What has been read is a beginning of what was said.                     *)
LEMMA ReadConcat ==
  ASSUME NEW S, NEW a \in Seq(S), NEW b \in Seq(S), NEW k \in 1..Len(b)
  PROVE  ReadOff(S, a, b, k)
<1> DEFINE p == SubSeq(b, 1, k)
           q == SubSeq(b, k + 1, Len(b))
<1>0. \A i \in 1..Len(b) : b[i] \in S
  BY ElementOfSeq
<1>1. p \in Seq(S) /\ q \in Seq(S)
  BY <1>0, SubSeqProperties, SMT
<1>2. p \o q = b
  <2>1. p \o q = SubSeq(b, 1, Len(b))
    BY ConcatAdjacentSubSeq
  <2> QED BY <2>1, SubSeqFull
<1> HIDE DEF p, q
<1>3. a \o p \in Seq(S)
  BY <1>1, ConcatProperties
<1>4. Regrouped(a, p, q)
  BY <1>1, Regrouping
<1>5. (a \o p) \o q = a \o b
  BY <1>2, <1>4 DEF Regrouped
<1> QED BY <1>1, <1>3, <1>5, Zenon DEF p, q, ReadOff

(* The rules come in order, each of them once: Ordered names every one.    *)
LEMMA OrderedCovers ==
  ASSUME IsFiniteSet(held), held \subseteq Nat
  PROVE  /\ Cardinality(held) \in Nat
         /\ \A i \in 1..Cardinality(held) : Ordered[i] \in held
         /\ \A n \in held : \E i \in 1..Cardinality(held) : Ordered[i] = n
<1> DEFINE C == Cardinality(held)
           Below(n) == {m \in held : m < n}
           rank == [n \in held |-> Cardinality(Below(n))]
<1>0. C \in Nat
  BY FS_CardinalityType
<1>1. \A n \in held : IsFiniteSet(Below(n)) /\ Cardinality(Below(n)) \in 0..(C - 1)
  <2> TAKE n \in held
  <2>1. Below(n) \in SUBSET held /\ Below(n) # held
    OBVIOUS
  <2> HIDE DEF Below
  <2>2. IsFiniteSet(Below(n)) /\ Cardinality(Below(n)) <= C /\ Cardinality(Below(n)) # C
    BY <2>1, FS_Subset
  <2>3. Cardinality(Below(n)) \in Nat
    BY <2>2, FS_CardinalityType
  <2> QED BY <1>0, <2>2, <2>3
<1>2. \A m, n \in held : m < n => Cardinality(Below(m)) < Cardinality(Below(n))
  <2> SUFFICES ASSUME NEW m \in held, NEW n \in held, m < n
               PROVE  Cardinality(Below(m)) < Cardinality(Below(n))
    OBVIOUS
  <2>1. Below(m) \in SUBSET Below(n) /\ Below(m) # Below(n)
    <3>1. m \in Below(n) /\ m \notin Below(m)
      OBVIOUS
    <3>2. \A x \in Below(m) : x \in Below(n)
      OBVIOUS
    <3> QED BY <3>1, <3>2
  <2>2. IsFiniteSet(Below(n)) /\ Cardinality(Below(m)) \in Int /\ Cardinality(Below(n)) \in Int
    BY <1>1, <1>0
  <2> HIDE DEF Below
  <2>3. /\ Cardinality(Below(m)) <= Cardinality(Below(n))
        /\ Cardinality(Below(n)) = Cardinality(Below(m)) => Below(n) = Below(m)
    BY <2>1, <2>2, FS_Subset
  <2> QED BY <2>1, <2>2, <2>3
<1> HIDE DEF Below
<1>3. \A m, n \in held : rank[m] = rank[n] => m = n
  <2> SUFFICES ASSUME NEW m \in held, NEW n \in held, rank[m] = rank[n], m # n
               PROVE  FALSE
    OBVIOUS
  <2>1. m < n \/ n < m
    OBVIOUS
  <2>2. Cardinality(Below(m)) \in Int /\ Cardinality(Below(n)) \in Int
    BY <1>1, <1>0
  <2> QED BY <1>2, <2>1, <2>2
<1>4. rank \in [held -> 0..(C - 1)]
  BY <1>1
<1>5. rank \in Injection(held, 0..(C - 1))
  BY <1>3, <1>4 DEF Injection, IsInjective
<1> HIDE DEF rank, C
<1>6. IsFiniteSet(0..(C - 1)) /\ Cardinality(0..(C - 1)) = C
  <2>1. 0 \in Int /\ C - 1 \in Int
    BY <1>0
  <2>2. /\ IsFiniteSet(0..(C - 1))
        /\ Cardinality(0..(C - 1)) = IF 0 > C - 1 THEN 0 ELSE (C - 1) - 0 + 1
    BY <2>1, FS_Interval, Zenon
  <2> QED BY <1>0, <2>2
<1>7. rank \in Surjection(held, 0..(C - 1))
  BY <1>5, <1>6, FS_Injection DEF C
<1>8. \A i \in 1..C : \E n \in held : rank[n] = i - 1
  BY <1>0, <1>7 DEF Surjection
<1>9. \A i \in 1..C : Ordered[i] \in held /\ rank[Ordered[i]] = i - 1
  BY <1>8 DEF Ordered, rank, C, Below
<1>10. \A n \in held : rank[n] + 1 \in 1..C /\ Ordered[rank[n] + 1] = n
  <2> TAKE n \in held
  <2>1. rank[n] + 1 \in 1..C /\ (rank[n] + 1) - 1 = rank[n]
    BY <1>0, <1>4
  <2> QED BY <1>3, <1>9, <2>1
<1> QED BY <1>0, <1>9, <1>10 DEF C

LineOf(x) == x = Remark \/ \E n \in held : x = Rule(n)
OneRemark(out) ==
  \A i, j \in DOMAIN out : out[i] = Remark /\ out[j] = Remark => i = j

(* What the switch prints of the ACL's body: its rules, all of them, and   *)
(* at most one comment.                                                    *)
LEMMA RuleLinesAre ==
  ASSUME IsFiniteSet(held), held \subseteq Nat
  PROVE  /\ RuleLines \in Seq(Line)
         /\ \A i \in 1..Len(RuleLines) : LineOf(RuleLines[i])
         /\ \A n \in held : \E i \in 1..Len(RuleLines) : RuleLines[i] = Rule(n)
         /\ OneRemark(RuleLines)
<1> DEFINE C == Cardinality(held)
           lines == [i \in 1..C |-> Rule(Ordered[i])]
<1>1. /\ C \in Nat
      /\ \A i \in 1..C : Ordered[i] \in held
      /\ \A n \in held : \E i \in 1..C : Ordered[i] = n
  BY OrderedCovers
<1>2. DOMAIN Ordered = 1..C
  BY DEF Ordered
<1>3. \A n \in held : Rule(n) \in Line /\ Rule(n) # Remark
  BY DEF Rule, Remark, Tok, Line, Token, Tags
<1>4. Remark \in Line
  BY DEF Remark, Tok, Line, Token, Tags
<1> HIDE DEF C
<1>5. /\ lines \in Seq(Line) /\ Len(lines) = C
      /\ \A i \in 1..C : lines[i] \in Line /\ lines[i] = Rule(Ordered[i])
  <2>1. \A i \in 1..C : Rule(Ordered[i]) \in Line
    BY <1>1, <1>3
  <2>2. lines \in [1..C -> Line]
    BY <2>1
  <2>3. lines \in Seq(Line)
    BY <2>2, <1>1, SeqDef
  <2> QED BY <1>1, <2>1, <2>2, <2>3
<1> HIDE DEF lines
<1>6. CASE ~ (style.remarks /\ held # {})
  <2>1. RuleLines = lines
    BY <1>2, <1>6 DEF RuleLines, lines
  <2>2. \A i \in 1..C : LineOf(lines[i]) /\ lines[i] # Remark
    <3> TAKE i \in 1..C
    <3>1. lines[i] = Rule(Ordered[i]) /\ Ordered[i] \in held
      BY <1>1, <1>5
    <3>2. lines[i] # Remark
      BY <1>3, <3>1
    <3> QED BY <3>1, <3>2 DEF LineOf
  <2>3. \A n \in held : \E i \in 1..C : lines[i] = Rule(n)
    <3> TAKE n \in held
    <3>1. PICK i \in 1..C : Ordered[i] = n
      BY <1>1
    <3> QED BY <1>5, <3>1
  <2>4. DOMAIN lines = 1..C
    BY <1>5, LenProperties
  <2> QED BY <1>5, <2>1, <2>2, <2>3, <2>4 DEF OneRemark
<1>7. CASE style.remarks /\ held # {}
  <2> DEFINE first == SubSeq(lines, 1, 1)
             rest == SubSeq(lines, 2, C)
  <2>0. C >= 1
    <3>1. PICK n \in held : TRUE
      BY <1>7
    <3>2. PICK i \in 1..C : Ordered[i] = n
      BY <1>1
    <3> QED BY <1>1, <3>2
  <2>1. RuleLines = (first \o <<Remark>>) \o rest
    <3>1. RuleLines = InsertAt(lines, 2, Remark)
      BY <1>2, <1>7 DEF RuleLines, lines
    <3> QED BY <3>1, <1>5 DEF InsertAt
  <2>2. /\ first \in Seq(Line) /\ Len(first) = 1 /\ first[1] = lines[1]
    BY <1>1, <1>5, <2>0, SubSeqProperties
  <2>3. /\ rest \in Seq(Line) /\ Len(rest) = C - 1
        /\ \A i \in 1..(C - 1) : rest[i] = lines[i + 1]
    BY <1>1, <1>5, <2>0, SubSeqProperties
  <2> HIDE DEF first, rest
  <2>4. /\ first \o <<Remark>> \in Seq(Line) /\ Len(first \o <<Remark>>) = 2
        /\ (first \o <<Remark>>)[1] = lines[1] /\ (first \o <<Remark>>)[2] = Remark
    <3>1. <<Remark>> \in Seq(Line) /\ Len(<<Remark>>) = 1 /\ <<Remark>>[1] = Remark
      BY <1>4
    <3> QED BY <3>1, <2>2, ConcatProperties
  <2> DEFINE start == first \o <<Remark>>
  <2> HIDE DEF start
  <2>5. /\ start \o rest \in Seq(Line) /\ Len(start \o rest) = C + 1
        /\ (start \o rest)[1] = lines[1] /\ (start \o rest)[2] = Remark
        /\ \A i \in 3..(C + 1) : (start \o rest)[i] = lines[i - 1]
    <3>1. start \in Seq(Line) /\ Len(start) = 2 /\ start[1] = lines[1] /\ start[2] = Remark
      BY <2>4 DEF start
    <3>2. /\ start \o rest \in Seq(Line) /\ Len(start \o rest) = Len(start) + Len(rest)
          /\ \A i \in 1..(Len(start) + Len(rest)) :
               (start \o rest)[i] = IF i <= Len(start) THEN start[i] ELSE rest[i - Len(start)]
      BY <3>1, <2>3, ConcatProperties, Zenon
    <3> QED BY <1>1, <2>0, <2>3, <3>1, <3>2
  <2>6. /\ RuleLines \in Seq(Line) /\ Len(RuleLines) = C + 1
        /\ RuleLines[1] = lines[1] /\ RuleLines[2] = Remark
        /\ \A i \in 3..(C + 1) : RuleLines[i] = lines[i - 1]
    BY <2>1, <2>5 DEF start
  <2>7. \A i \in 1..(C + 1) : RuleLines[i] = Remark <=> i = 2
    <3> TAKE i \in 1..(C + 1)
    <3>1. CASE i = 1
      <4>1. 1 \in 1..C
        BY <1>1, <2>0
      <4> QED BY <1>1, <1>3, <1>5, <2>6, <3>1, <4>1
    <3>2. CASE i = 2
      BY <2>6, <3>2
    <3>3. CASE i \in 3..(C + 1)
      <4>1. i - 1 \in 1..C
        BY <1>1, <3>3
      <4> QED BY <1>1, <1>3, <1>5, <2>6, <3>3, <4>1
    <3> QED BY <1>1, <3>1, <3>2, <3>3
  <2>8. \A i \in 1..(C + 1) : LineOf(RuleLines[i])
    <3> TAKE i \in 1..(C + 1)
    <3>1. CASE i = 1
      <4>1. 1 \in 1..C
        BY <1>1, <2>0
      <4>2. RuleLines[i] = Rule(Ordered[1]) /\ Ordered[1] \in held
        BY <1>1, <1>5, <2>6, <3>1, <4>1
      <4> QED BY <4>2 DEF LineOf
    <3>2. CASE i = 2
      BY <2>6, <3>2 DEF LineOf
    <3>3. CASE i \in 3..(C + 1)
      <4>1. i - 1 \in 1..C
        BY <1>1, <3>3
      <4>2. RuleLines[i] = Rule(Ordered[i - 1]) /\ Ordered[i - 1] \in held
        BY <1>1, <1>5, <2>6, <3>3, <4>1
      <4> QED BY <4>2 DEF LineOf
    <3> QED BY <1>1, <3>1, <3>2, <3>3
  <2>9. \A n \in held : \E i \in 1..(C + 1) : RuleLines[i] = Rule(n)
    <3> TAKE n \in held
    <3>1. PICK k \in 1..C : Ordered[k] = n
      BY <1>1
    <3>2. CASE k = 1
      <4>1. RuleLines[1] = Rule(n)
        BY <1>5, <2>6, <3>1, <3>2
      <4> QED BY <1>1, <4>1
    <3>3. CASE k # 1
      <4>1. k + 1 \in 3..(C + 1) /\ (k + 1) - 1 = k
        BY <1>1, <3>3
      <4>2. RuleLines[k + 1] = Rule(n)
        BY <1>5, <2>6, <3>1, <4>1
      <4> QED BY <1>1, <4>1, <4>2
    <3> QED BY <3>2, <3>3
  <2>10. OneRemark(RuleLines)
    BY <2>6, <2>7, <1>1 DEF OneRemark
  <2> QED BY <2>6, <2>8, <2>9, <2>10
<1> QED BY <1>6, <1>7

-----------------------------------------------------------------------------
(* The invariant.                                                          *)

(* The text the client has not done with, and all of an output shown in    *)
(* pages.                                                                  *)
In == cl.buf \o toClient
All == cl.full \o In

Early == {"greeting", "password", "login", "paging_off", "system", "acl", "this"}
Writing == {"rule", "comment", "undo", "undo_comment"}
PreQuit == Early \cup Displays \cup Writing
Leaving == {"quit_acl", "quit_system"}
Saving == {"save", "confirm"}

Commands == {"user", "password", "screen-length disable", "system-view", "acl advanced", "quit",
             "display this", "display acl", " ", "rule", "comment", "undo", "save force", "Y"}

(* A page waits for a key, and a question for its answer, never both.      *)
Views == {"username", "password", "user", "system", "acl", "closed"}
Prompted == {"user", "system", "acl"}
Devs ==
  {d \in [view : Views, paging : BOOLEAN, page : Seq(Line), asking : BOOLEAN, alive : BOOLEAN] :
     d.page # <<>> => d.view \in Prompted /\ ~ d.asking}

Clients ==
  [pc : PreQuit \cup Leaving \cup Saving \cup {"done"}, buf : Seq(Token), full : Seq(Token),
   aclPrompt : Prompts \cup {NoPrompt},
   res : {"none", "failed", "ok", "read", "undone", "undo_failed"}]

TypeInv ==
  /\ \E c \in Cases : job = c.job /\ style = c.style
  /\ held \in SUBSET RuleIds
  /\ dev \in Devs
  /\ toDevice \in Seq(Commands)
  /\ toClient \in Seq(Token)
  /\ cl \in Clients

(* Which job an answer belongs to.                                         *)
JobInv ==
  /\ cl.pc \in {"paging_off", "display"} => job.op = "snapshot"
  /\ cl.pc \in {"system", "acl", "this"} \cup Leaving => job.op # "snapshot"
  /\ cl.pc \in {"guard"} \cup Saving => job.op \in {"apply", "remove"}
  /\ cl.pc \in {"rule", "comment", "undo_comment"} => job.op = "apply"
  /\ cl.pc = "undo" => job.op \in {"remove", "rollback"}
  /\ cl.pc # "done" => cl.res = "none"

(* Commands reach the switch in the order they were sent: what follows a   *)
(* command in the queue is what the client may send after it.              *)
Before(q, a, b) == \E i, j \in DOMAIN q : i < j /\ q[i] = a /\ q[j] = b
OrderInv ==
  /\ cl.pc \in PreQuit => ~ Sent("quit")
  /\ cl.pc \in Early \cup Displays => \A c \in Edits : ~ Sent(c)
  /\ \A a, b \in Commands :
       Before(toDevice, a, b) =>
         /\ a = "quit" => b \notin Edits
         /\ a \in Edits => b # "rule" /\ (job.op = "remove" => b \notin Edits)

(* The evidence of the view: what only this ACL's view says is on its way  *)
(* only while the switch is in that view.                                  *)
InAcl == dev.view = "acl" /\ ~ style.otherAcl
Misled == style.hostNumber /\ style.otherAcl
USE DEF Misled
Known == Misled \/ InAcl
ViewInv ==
  /\ cl.pc \in PreQuit /\ Has(In, {AclPrompt, Tok("acl N")}) => InAcl
  /\ cl.pc \in {"guard"} \cup Writing => Known
  /\ \A c \in Edits : Sent(c) => Known

(* What answers "acl advanced" without an error comes from the view of an  *)
(* ACL, whatever its prompt looks like.                                    *)
EnterInv ==
  cl.pc = "acl" =>
    \/ toDevice = <<"acl advanced">> /\ In = <<>>
    \/ toDevice = <<>> /\ (In # <<>> => Failed(In) \/ dev.view = "acl")

(* What the client reads of the ACL is true, old answers included.         *)
HeaderCount == IF style.countless THEN NoCount ELSE Cardinality(held)
TrueLine(x) == (x.t = "rule" => x.n \in held) /\ (x.t = "header" => x.n = HeaderCount)
Headed(out) == \E x \in Range(out) : x.t = "header"
TextInv ==
  cl.pc \in Early \cup Displays =>
    /\ \A x \in Range(All) : TrueLine(x)
    /\ \A x \in Range(dev.page) : TrueLine(x)

(* Nothing is displayed before the client asks for it.                     *)
EarlyInv ==
  cl.pc \in Early =>
    /\ cl.full = <<>> /\ dev.page = <<>>
    /\ ~ Sent("display acl") /\ ~ Sent(" ")
    /\ ~ Headed(In) /\ Tok("More") \notin Range(In)

(* A display: asked for, stopped at a page, told to go on, complete.       *)
Asked ==
  /\ toDevice # <<>> /\ Last(toDevice) = "display acl"
  /\ \A c \in {"display acl", " "} : ~ Before(toDevice, c, "display acl")
  /\ dev.page = <<>>
  /\ cl.full = <<>> /\ ~ Headed(In) /\ Tok("More") \notin Range(In)
AtPage ==
  /\ toDevice = <<>> /\ dev.page # <<>>
  /\ In # <<>> /\ \A i \in DOMAIN In : In[i] = Tok("More") <=> i = Len(In)
NextAsked == toDevice = <<" ">> /\ dev.page # <<>> /\ In = <<>>
Complete == toDevice = <<>> /\ dev.page = <<>> /\ Tok("More") \notin Range(In)
Stages == Asked \/ AtPage \/ NextAsked \/ Complete
Covered == Asked \/ \A n \in held : Rule(n) \in Range(All) \cup Range(dev.page)
PromptLast ==
  \A i, j \in DOMAIN All :
    i < j /\ All[i].t = "header" /\ All[j] \in Prompts =>
      j = Len(All) /\ toDevice = <<>> /\ dev.page = <<>>
DisplayInv == cl.pc \in Displays => Stages /\ Covered /\ PromptLast

ReadInv ==
  cl.res = "read" =>
    /\ \A c \in Edits : ~ Sent(c)
    /\ Count(cl.full) # NoCount => RulesRead(cl.full) = held

(* One command at a time.                                                  *)
Reply(out) == \A i \in DOMAIN out : i < Len(out) => out[i] = Tok("error")
Plain == {"user", "password", "system-view", "acl advanced"}
Body(out) ==
  /\ \A i \in DOMAIN out : out[i] \in Prompts => i = Len(out)
  /\ OneRemark(out) /\ Question \notin Range(out)
  /\ out # <<>> => Last(out) \in Prompts
Talk(c, done) ==
  \/ toDevice = <<c>> /\ In = <<>>
  \/ toDevice = <<>> /\ Reply(In) /\ (In # <<>> /\ ~ Failed(In) => Misled \/ done)
Stuck ==
  /\ cl.aclPrompt = NoPrompt
  /\ Range(toDevice) \subseteq {"undo"}
  /\ Range(In) \cap {Remark, Question} = {}
  /\ \A i, j \in DOMAIN In : i < j /\ In[i] \in Prompts => In[j] \in Prompts \cup {Tok("error")}
TalkInv ==
  /\ cl.pc \in {"greeting", "password", "login", "system", "acl"} =>
       \/ toDevice = <<>> /\ Reply(In)
       \/ (\E c \in Plain : toDevice = <<c>>) /\ In = <<>>
  /\ cl.pc = "this" => \/ toDevice = <<"display this">> /\ In = <<>>
                       \/ toDevice = <<>> /\ Body(In)
  /\ cl.pc = "rule" => Talk("rule", job.n \in held)
  /\ cl.pc = "comment" => Talk("comment", job.n \in marked) /\ (Misled \/ job.n \in held)
  /\ cl.pc = "undo" => Talk("undo", job.n \notin held) \/ Stuck

Finished ==
  \/ Misled
  \/ CASE job.op = "apply" -> job.n \in held /\ (job.comment => job.n \in marked)
       [] OTHER -> job.n \notin held
NoEdit == \A c \in Edits : ~ Sent(c)
FinishInv ==
  /\ cl.pc \in Leaving \cup Saving => NoEdit /\ Finished
  /\ Sent("save force") \/ Sent("Y") =>
       cl.pc \in Saving \cup {"done"} /\ job.op \in {"apply", "remove"} /\ NoEdit /\ Finished
  /\ Has(In, {Success}) => cl.pc \in Saving \cup {"done"} /\ stored = held /\ NoEdit
  /\ cl.res = "ok" => NoEdit /\ Finished /\ (job.op = "rollback" \/ stored = held)

(* What the guard found is still so when the edit arrives.                 *)
Expected == Cardinality(held) = job.expect
GuardInv ==
  /\ Sent("rule") => job.n \notin held /\ Expected
  /\ Sent("undo") /\ job.op = "remove" => job.n \in held /\ Expected

-----------------------------------------------------------------------------
(* Words.                                                                  *)

(* What a prompt can be, and what it cannot.                               *)
LEMMA PromptIs ==
  ASSUME NEW view \in Views
  PROVE  /\ Prompt(view) \in Token
         /\ Prompt(view) \in {UserPrompt, SysPrompt, AclPrompt, OtherPrompt,
                              Tok("Username:"), Tok("Password:")}
         /\ view \in Prompted => Prompt(view) \in Prompts
         /\ Prompt(view) = AclPrompt => view = "acl" /\ ~ style.otherAcl
BY DEF Views, Prompted, Prompt, Prompts, UserPrompt, SysPrompt, AclPrompt, OtherPrompt, Tok, Token, Tags

(* The words are different words.                                          *)
LEMMA WordTags ==
  /\ UserPrompt.t = "<H>" /\ SysPrompt.t = "[H]"
  /\ AclPrompt.t = "[H-acl-N]" /\ OtherPrompt.t = "[H-acl-M]"
  /\ Tok("Username:").t = "Username:" /\ Tok("Password:").t = "Password:"
  /\ Tok("error").t = "error" /\ Question.t = "[Y/N]" /\ Success.t = "success"
  /\ Tok("acl N").t = "acl N" /\ Tok("acl M").t = "acl M" /\ Tok("More").t = "More"
  /\ Remark.t = "remark" /\ NoPrompt.t = ""
  /\ \A n : Rule(n).t = "rule" /\ Header(n).t = "header" /\ Rule(n).n = n /\ Header(n).n = n
BY DEF UserPrompt, SysPrompt, AclPrompt, OtherPrompt, Tok, Remark, Question, Success, NoPrompt,
       Rule, Header

(* And they are words.                                                     *)
LEMMA Words ==
  /\ UserPrompt \in Token /\ SysPrompt \in Token /\ AclPrompt \in Token /\ OtherPrompt \in Token
  /\ Tok("Username:") \in Token /\ Tok("Password:") \in Token
  /\ Tok("error") \in Token /\ Question \in Token /\ Success \in Token
  /\ Tok("acl N") \in Token /\ Tok("acl M") \in Token /\ Tok("More") \in Token
  /\ Remark \in Line /\ \A n \in Int : Header(n) \in Line /\ Rule(n) \in Line
<1>1. \A x \in Tags : Tok(x) \in Token
  BY DEF Tok, Token
<1>2. \A n \in Int : Header(n) \in Token /\ Rule(n) \in Token
  BY DEF Header, Rule, Token, Tags
<1>3. Remark \in Line /\ \A n \in Int : Header(n) \in Line /\ Rule(n) \in Line
  BY <1>1, <1>2, WordTags DEF Line, Remark, Tags
<1> QED
  BY <1>1, <1>3 DEF UserPrompt, SysPrompt, AclPrompt, OtherPrompt, Question, Success, Tags

(* The tags of the prompts.                                                *)
LEMMA PromptTags ==
  ASSUME NEW x \in Prompts
  PROVE  x \in Token /\ x.t \in {"<H>", "[H]", "[H-acl-N]", "[H-acl-M]"}
<1>1. \A y \in {UserPrompt, SysPrompt, AclPrompt, OtherPrompt} :
        y.t \in {"<H>", "[H]", "[H-acl-N]", "[H-acl-M]"}
  BY WordTags
<1>2. \A y \in {UserPrompt, SysPrompt, AclPrompt, OtherPrompt} : y \in Token
  BY Words
<1> QED BY <1>1, <1>2 DEF Prompts

(* A position is the last or comes before it.                              *)
LEMMA LastOrBefore ==
  \A n \in Nat : \A i \in 1..n : i < n \/ i = n
OBVIOUS

(* The words of short texts.                                               *)
LEMMA ShortRange ==
  /\ Range(<<>>) = {}
  /\ \A a : Range(<<a>>) = {a}
  /\ \A a, b : Range(<<a, b>>) = {a, b}
  /\ \A a, b, c : Range(<<a, b, c>>) = {a, b, c}
BY DEF Range

(* A text of one word.                                                     *)
LEMMA OneWord ==
  ASSUME NEW S, NEW w \in S
  PROVE  <<w>> \in Seq(S) /\ Len(<<w>>) = 1 /\ <<w>>[1] = w /\ Range(<<w>>) = {w}
BY ShortRange

(* Has looks for a word of a set.                                          *)
LEMMA HasRange ==
  ASSUME NEW out, NEW S
  PROVE  Has(out, S) <=> \E x \in Range(out) : x \in S
BY DEF Has, Range

(* The header, and every rule below it.                                    *)
LEMMA AclLinesAre ==
  ASSUME IsFiniteSet(held), held \subseteq Nat
  PROVE  /\ AclLines \in Seq(Line) /\ AclLines # <<>>
         /\ \A x \in Range(AclLines) : TrueLine(x)
         /\ \A n \in held : Rule(n) \in Range(AclLines)
         /\ Headed(AclLines)
<1> DEFINE h == Header(HeaderCount)
<1>1. HeaderCount \in Int
  BY FS_CardinalityType DEF HeaderCount, NoCount
<1>2. h \in Line /\ h.t = "header" /\ h.n = HeaderCount
  BY <1>1, Words, WordTags
<1>3. AclLines = <<h>> \o RuleLines
  BY DEF AclLines, HeaderCount
<1> HIDE DEF h
<1>4. <<h>> \in Seq(Line) /\ Range(<<h>>) = {h} /\ Len(<<h>>) = 1
  BY <1>2, ShortRange
<1>5. /\ RuleLines \in Seq(Line)
      /\ \A i \in 1..Len(RuleLines) : LineOf(RuleLines[i])
      /\ \A n \in held : \E i \in 1..Len(RuleLines) : RuleLines[i] = Rule(n)
  BY RuleLinesAre
<1>6. Range(RuleLines) = {RuleLines[i] : i \in 1..Len(RuleLines)}
  BY <1>5, RangeEquality
<1>7. AclLines \in Seq(Line) /\ Range(AclLines) = {h} \cup Range(RuleLines)
  <2>1. Range(<<h>> \o RuleLines) = Range(<<h>>) \cup Range(RuleLines)
    <3>1. <<h>> \in Seq(Line) /\ RuleLines \in Seq(Line)
      BY <1>4, <1>5
    <3> QED BY <3>1, RangeConcatenation
  <2>2. <<h>> \o RuleLines \in Seq(Line)
    BY <1>4, <1>5, ConcatProperties
  <2> QED BY <1>3, <1>4, <2>1, <2>2
<1>8. AclLines # <<>>
  BY <1>7, ShortRange
<1>9. \A x \in Range(RuleLines) : TrueLine(x)
  <2> SUFFICES ASSUME NEW x \in Range(RuleLines)
               PROVE  TrueLine(x)
    OBVIOUS
  <2>1. x = Remark \/ \E n \in held : x = Rule(n)
    BY <1>5, <1>6 DEF LineOf
  <2>2. Remark.t = "remark" /\ \A n \in held : Rule(n).t = "rule" /\ Rule(n).n = n
    BY WordTags
  <2> QED BY <2>1, <2>2 DEF TrueLine
<1>10. TrueLine(h)
  BY <1>2 DEF TrueLine
<1> QED
  BY <1>2, <1>5, <1>6, <1>7, <1>8, <1>9, <1>10 DEF Headed

(* A text and one more word.                                               *)
LEMMA OneMore ==
  ASSUME NEW S, NEW s \in Seq(S), NEW w \in S
  PROVE  /\ s \o <<w>> \in Seq(S) /\ s \o <<w>> # <<>>
         /\ Len(s \o <<w>>) = Len(s) + 1
         /\ DOMAIN (s \o <<w>>) = 1..(Len(s) + 1)
         /\ \A i \in 1..Len(s) : (s \o <<w>>)[i] = s[i]
         /\ (s \o <<w>>)[Len(s) + 1] = w
         /\ Last(s \o <<w>>) = w
         /\ Range(s \o <<w>>) = Range(s) \cup {w}
<1> DEFINE sw == s \o <<w>>
<1>1. sw = Append(s, w)
  BY AppendIsConcat
<1>2. Range(sw) = Range(s) \cup {w}
  <2>1. <<w>> \in Seq(S) /\ Range(<<w>>) = {w}
    BY ShortRange
  <2>2. \A t \in Seq(S) : Range(s \o t) = Range(s) \cup Range(t)
    BY RangeConcatenation
  <2> QED BY <2>1, <2>2, Zenon
<1> HIDE DEF sw
<1>3. /\ sw \in Seq(S) /\ sw # <<>> /\ Len(sw) = Len(s) + 1
      /\ \A i \in 1..Len(s) : sw[i] = s[i]
      /\ sw[Len(s) + 1] = w
  BY <1>1, AppendProperties
<1>4. DOMAIN sw = 1..(Len(s) + 1)
  BY <1>3, LenProperties
<1>5. Last(sw) = w
  BY <1>3 DEF Last
<1> QED BY <1>2, <1>3, <1>4, <1>5, Zenon DEF sw

(* The positions of two words.                                             *)
LEMMA OneOrTwo == \A i \in 1..2 : i = 1 \/ i = 2
OBVIOUS

(* A word and a text after it.                                             *)
LEMMA OneBefore ==
  ASSUME NEW S, NEW s \in Seq(S), NEW w \in S
  PROVE  /\ <<w>> \o s \in Seq(S)
         /\ Len(<<w>> \o s) = Len(s) + 1
         /\ (<<w>> \o s)[1] = w
         /\ \A i \in 1..Len(s) : (<<w>> \o s)[i + 1] = s[i]
<1>1. <<w>> \in Seq(S) /\ Len(<<w>>) = 1 /\ <<w>>[1] = w
  OBVIOUS
<1>2. \A t \in Seq(S) :
        /\ t \o s \in Seq(S) /\ Len(t \o s) = Len(t) + Len(s)
        /\ \A i \in 1..(Len(t) + Len(s)) : (t \o s)[i] = IF i <= Len(t) THEN t[i] ELSE s[i - Len(t)]
  BY ConcatProperties
<1>3. Len(s) \in Nat
  BY LenProperties
<1> DEFINE t == <<w>>
<1> HIDE DEF t
<1>4. t \in Seq(S) /\ Len(t) = 1 /\ t[1] = w
  BY <1>1 DEF t
<1>5. /\ t \o s \in Seq(S) /\ Len(t \o s) = 1 + Len(s)
      /\ \A i \in 1..(1 + Len(s)) : (t \o s)[i] = IF i <= 1 THEN t[i] ELSE s[i - 1]
  BY <1>2, <1>4
<1>6. (t \o s)[1] = w
  BY <1>3, <1>4, <1>5
<1>7. \A i \in 1..Len(s) : (t \o s)[i + 1] = s[i]
  <2> TAKE i \in 1..Len(s)
  <2>1. i + 1 \in 1..(1 + Len(s)) /\ ~ (i + 1 <= 1) /\ (i + 1) - 1 = i
    BY <1>3
  <2> QED BY <1>5, <2>1
<1>8. Len(t \o s) = Len(s) + 1
  BY <1>3, <1>5
<1> QED BY <1>5, <1>6, <1>7, <1>8 DEF t

(* What "display this" prints in the view of this agent's own ACL.         *)
LEMMA BodyIs ==
  ASSUME IsFiniteSet(held), held \subseteq Nat, NEW p \in Prompts
  PROVE  LET text == (<<Tok("acl N")>> \o RuleLines) \o <<p>>
         IN  /\ text \in Seq(Token)
             /\ Body(text)
             /\ \A x \in Range(text) :
                  x \in {Tok("acl N"), Remark, p} \/ \E n \in held : x = Rule(n)
<1> DEFINE a == Tok("acl N")
           L == Len(RuleLines)
           first == <<a>> \o RuleLines
           text == (<<a>> \o RuleLines) \o <<p>>
<1>1. /\ RuleLines \in Seq(Line) /\ L \in Nat
      /\ \A i \in 1..L : LineOf(RuleLines[i])
      /\ OneRemark(RuleLines)
  BY RuleLinesAre, LenProperties
<1>2. RuleLines \in Seq(Token)
  BY <1>1, SeqMonotonic DEF Line
<1>3. p \in Token /\ a \in Token
  BY Words DEF Prompts
<1> HIDE DEF L, a, text
<1>4. /\ first \in Seq(Token) /\ Len(first) = L + 1
      /\ first[1] = a /\ \A i \in 1..L : first[i + 1] = RuleLines[i]
  BY <1>2, <1>3, OneBefore DEF L
<1> HIDE DEF first
<1>5. /\ text \in Seq(Token) /\ Len(text) = L + 2
      /\ text[1] = a /\ text[L + 2] = p
      /\ \A i \in 1..L : text[i + 1] = RuleLines[i]
  <2>1. text = first \o <<p>>
    BY DEF first, text
  <2>2. /\ text \in Seq(Token) /\ Len(text) = Len(first) + 1
        /\ \A i \in 1..Len(first) : text[i] = first[i]
        /\ text[Len(first) + 1] = p
    BY <1>3, <1>4, <2>1, OneMore
  <2>3. Len(text) = L + 2 /\ text[L + 2] = p
    BY <1>1, <1>4, <2>2
  <2>4. text[1] = a
    BY <1>1, <1>4, <2>2
  <2>5. \A i \in 1..L : text[i + 1] = RuleLines[i]
    <3> TAKE i \in 1..L
    <3>1. i + 1 \in 1..Len(first)
      BY <1>1, <1>4
    <3> QED BY <1>4, <2>2, <3>1
  <2> QED BY <2>2, <2>3, <2>4, <2>5
<1>6. DOMAIN text = 1..(L + 2) /\ Range(text) = {text[i] : i \in 1..(L + 2)}
  BY <1>5, LenProperties, RangeEquality
<1>7. \A i \in 1..(L + 2) : \/ i = 1 /\ text[i] = a
                            \/ i = L + 2 /\ text[i] = p
                            \/ /\ i - 1 \in 1..L /\ text[i] = RuleLines[i - 1]
                               /\ LineOf(text[i])
  <2> TAKE i \in 1..(L + 2)
  <2>1. i = 1 \/ i = L + 2 \/ (i - 1 \in 1..L /\ (i - 1) + 1 = i)
    BY <1>1
  <2> QED BY <1>1, <1>5, <2>1
<1>8. \A x : LineOf(x) => x = Remark \/ \E n \in held : x = Rule(n)
  BY DEF LineOf
<1>9. \A x : LineOf(x) => x \notin Prompts /\ x # Question
  <2>1. \A x : LineOf(x) => x.t \in {"remark", "rule"}
    <3> SUFFICES ASSUME NEW x, LineOf(x)
                 PROVE  x.t \in {"remark", "rule"}
      OBVIOUS
    <3>1. CASE x = Remark
      BY <3>1, WordTags
    <3>2. CASE \E n \in held : x = Rule(n)
      <4>1. PICK n \in held : x = Rule(n)
        BY <3>2
      <4>2. Rule(n).t = "rule"
        BY WordTags
      <4> QED BY <4>1, <4>2
    <3> QED BY <1>8, <3>1, <3>2
  <2> QED BY <2>1, PromptTags, WordTags
<1>10. a \notin Prompts /\ a # Question /\ a # Remark
  BY PromptTags, WordTags DEF a
<1>11. p # Question /\ p # Remark
  BY PromptTags, WordTags
<1>12. \A i \in DOMAIN text : text[i] \in Prompts => i = Len(text)
  BY <1>5, <1>6, <1>7, <1>9, <1>10
<1>13. OneRemark(text)
  <2>1. \A i \in 1..(L + 2) : text[i] = Remark => i - 1 \in 1..L /\ RuleLines[i - 1] = Remark
    BY <1>7, <1>10, <1>11
  <2>2. \A i, j \in 1..L : RuleLines[i] = Remark /\ RuleLines[j] = Remark => i = j
    BY <1>1, LenProperties DEF OneRemark, L
  <2>3. \A i, j \in 1..(L + 2) : text[i] = Remark /\ text[j] = Remark => i - 1 = j - 1
    BY <2>1, <2>2
  <2>4. \A i, j \in 1..(L + 2) : i - 1 = j - 1 => i = j
    BY <1>1
  <2> QED BY <1>6, <2>3, <2>4 DEF OneRemark
<1>14. Question \notin Range(text)
  BY <1>6, <1>7, <1>9, <1>10, <1>11
<1>15. Last(text) \in Prompts
  BY <1>5 DEF Last
<1>16. \A x \in Range(text) : x = a \/ x = p \/ LineOf(x)
  BY <1>6, <1>7
<1> QED
  BY <1>5, <1>8, <1>12, <1>13, <1>14, <1>15, <1>16 DEF Body, a, text

(* A page ends with the marker or, when it is the last, with the prompt.   *)
Shown(lines, text) ==
  /\ text \in Seq(Token) /\ text # <<>>
  /\ \A i \in DOMAIN text : i < Len(text) => text[i] \in Range(lines)
  /\ Last(text) = Tok("More") \/ (Last(text) = Prompt(dev.view) /\ Last(text) \in Prompts)
  /\ Last(text) = Tok("More") <=> dev'.page # <<>>
  /\ dev'.page \in Seq(Line) /\ Range(dev'.page) \subseteq Range(lines)
  /\ Range(lines) \subseteq Range(text) \cup Range(dev'.page)

(* A display is shown page by page: each piece says what it holds, and     *)
(* nothing of the ACL is lost between the page and what is left of it.     *)
LEMMA PageShown ==
  ASSUME TypeInv, NEW lines \in Seq(Line), ShowPage(lines), dev.view \in Prompted
  PROVE  \E text : /\ Shown(lines, text) /\ toClient' = toClient \o text
                   /\ dev' = [dev EXCEPT !.page = dev'.page]
<1> DEFINE whole == ~ (dev.paging /\ Len(lines) > PageLines)
           p == Prompt(dev.view)
           front == SubSeq(lines, 1, PageLines)
           rest == SubSeq(lines, PageLines + 1, Len(lines))
           m == Tok("More")
<1>0. lines \in Seq(Token)
  BY SeqMonotonic DEF Line
<1>1. p \in Prompts /\ p \in Token /\ m \in Token /\ p # m /\ m \notin Prompts
  <2>1. p \in Prompts
    BY PromptIs DEF Prompted, Views
  <2>2. p \in Token /\ p.t # "More"
    BY <2>1, PromptTags, Zenon
  <2>3. m \in Token /\ m.t = "More"
    BY Words, WordTags
  <2>4. m \notin Prompts
    BY <2>3, PromptTags
  <2> QED BY <2>1, <2>2, <2>4, <2>3
<1>2. dev \in [view : Views, paging : BOOLEAN, page : Seq(Line), asking : BOOLEAN, alive : BOOLEAN]
  BY DEF TypeInv, Devs
<1>3. PageLines \in Nat \ {0} /\ Len(lines) \in Nat
  BY SessionAssumption, LenProperties
<1> HIDE DEF m, p
<1>4. \A s \in Seq(Token), w \in Token :
        /\ s \o <<w>> \in Seq(Token) /\ s \o <<w>> # <<>>
        /\ \A i \in DOMAIN (s \o <<w>>) : i < Len(s \o <<w>>) => (s \o <<w>>)[i] \in Range(s)
        /\ Last(s \o <<w>>) = w
        /\ Range(s \o <<w>>) = Range(s) \cup {w}
  <2> TAKE s \in Seq(Token), w \in Token
  <2> DEFINE sw == s \o <<w>>
  <2>1. /\ sw \in Seq(Token) /\ sw # <<>> /\ Len(sw) = Len(s) + 1
        /\ DOMAIN sw = 1..(Len(s) + 1)
        /\ \A i \in 1..Len(s) : sw[i] = s[i]
        /\ Last(sw) = w /\ Range(sw) = Range(s) \cup {w}
    BY OneMore
  <2>2. Len(s) \in Nat /\ Range(s) = {s[i] : i \in 1..Len(s)}
    BY LenProperties, RangeEquality
  <2> HIDE DEF sw
  <2>3. \A i \in DOMAIN sw : i < Len(sw) => sw[i] \in Range(s)
    BY <2>1, <2>2
  <2> QED BY <2>1, <2>3 DEF sw
<1>5. CASE whole
  <2>1. toClient' = toClient \o (lines \o <<p>>) /\ dev' = [dev EXCEPT !.page = <<>>]
    BY <1>5 DEF ShowPage, Say, p
  <2>2. dev'.page = <<>> /\ dev' = [dev EXCEPT !.page = dev'.page]
    BY <1>2, <2>1
  <2>3. Shown(lines, lines \o <<p>>)
    <3>1. <<>> \in Seq(Line) /\ Range(<<>>) = {}
      BY ShortRange
    <3> DEFINE text == lines \o <<p>>
    <3>2. /\ text \in Seq(Token) /\ text # <<>>
          /\ \A i \in DOMAIN text : i < Len(text) => text[i] \in Range(lines)
          /\ Last(text) = p
          /\ Range(text) = Range(lines) \cup {p}
      BY <1>0, <1>1, <1>4
    <3> HIDE DEF text
    <3>3. Shown(lines, text)
      BY <1>1, <2>2, <3>1, <3>2 DEF Shown, m, p
    <3> QED BY <3>3 DEF text
  <2> QED BY <2>1, <2>2, <2>3
<1>6. CASE ~ whole
  <2>1. toClient' = toClient \o (front \o <<m>>) /\ dev' = [dev EXCEPT !.page = rest]
    BY <1>6 DEF ShowPage, Say, m
  <2>2. dev'.page = rest /\ dev' = [dev EXCEPT !.page = dev'.page]
    BY <1>2, <2>1
  <2>3. /\ front \in Seq(Line) /\ rest \in Seq(Line) /\ front \o rest = lines
        /\ Len(rest) = Len(lines) - PageLines
    <3>1. PageLines \in 1..Len(lines) /\ Len(lines) > PageLines
      BY <1>3, <1>6
    <3>2. \A i \in 1..Len(lines) : lines[i] \in Line
      BY ElementOfSeq
    <3>3. front \in Seq(Line)
      BY <1>3, <3>1, <3>2, SubSeqProperties
    <3>4. rest \in Seq(Line) /\ Len(rest) = Len(lines) - PageLines
      BY <1>3, <3>1, <3>2, SubSeqProperties
    <3>5. front \o rest = SubSeq(lines, 1, Len(lines))
      BY <1>3, <3>1, ConcatAdjacentSubSeq
    <3> QED BY <3>3, <3>4, <3>5, SubSeqFull
  <2>4. rest # <<>>
    <3>1. Len(lines) - PageLines > 0
      BY <1>3, <1>6
    <3>2. Len(rest) > 0 /\ rest \in Seq(Line)
      BY <2>3, <3>1
    <3> HIDE DEF rest
    <3> QED BY <3>2, EmptySeq
  <2>5. front \in Seq(Token)
    BY <2>3, SeqMonotonic DEF Line
  <2> HIDE DEF front, rest
  <2>6. Range(front) \cup Range(rest) = Range(lines)
    <3>1. front \in Seq(Line) /\ rest \in Seq(Line) /\ front \o rest = lines
      BY <2>3
    <3> QED BY <3>1, RangeConcatenation
  <2>7. Shown(lines, front \o <<m>>)
    <3>1. /\ front \o <<m>> \in Seq(Token) /\ front \o <<m>> # <<>>
          /\ \A i \in DOMAIN (front \o <<m>>) :
               i < Len(front \o <<m>>) => (front \o <<m>>)[i] \in Range(front)
          /\ Last(front \o <<m>>) = m
          /\ Range(front \o <<m>>) = Range(front) \cup {m}
      BY <1>1, <1>4, <2>5
    <3> DEFINE text == front \o <<m>>
    <3> HIDE DEF text
    <3>2. Shown(lines, text)
      BY <2>2, <2>3, <2>4, <2>6, <3>1 DEF Shown, text, m
    <3> QED BY <3>2 DEF text
  <2> QED BY <2>1, <2>2, <2>7
<1> QED BY <1>5, <1>6

-----------------------------------------------------------------------------
(* What the switch does with a command, and what it answers.               *)
WordOk(c, x) ==
  /\ x \in {AclPrompt, Tok("acl N")} => dev'.view = "acl" /\ ~ style.otherAcl
  /\ x = Success => c \in {"save force", "Y"} /\ stored' = held
  /\ x.t = "header" \/ x = Tok("More") => c \in {"display acl", " "}
  /\ TrueLine(x) \/ c = " "

Answers(c, text) ==
  /\ text \in Seq(Token) /\ toClient' = toClient \o text
  /\ \A x \in Range(text) : WordOk(c, x)
  /\ c \in Plain \cup Edits => Reply(text) /\ Range(text) \subseteq
       Prompts \cup {Tok("error"), Tok("Username:"), Tok("Password:")}
  /\ c \in Edits => Range(text) \subseteq Prompts \cup {Tok("error")}
  /\ c = "display this" => Body(text)
  /\ c = "display acl" => dev.page = <<>> /\ Shown(AclLines, text)
  /\ c = " " => dev.page # <<>> /\ Shown(dev.page, text)

Acts(c, text) ==
  /\ held' \in SUBSET RuleIds /\ dev' \in Devs
  /\ c \notin Edits => UNCHANGED <<held, marked>>
  /\ stored' = stored \/ (stored' = held /\ c \in {"save force", "Y"})
  /\ dev.view = "acl" /\ c # "quit" => dev'.view = "acl"
  /\ c = "acl advanced" => Failed(text) \/ dev'.view = "acl"
  /\ dev'.page = dev.page \/ c \in {"display acl", " "} \/ (c = "quit" /\ dev'.page = <<>>)
  /\ c = "rule" => /\ held' \in {held, held \cup {job.n}} /\ marked' = marked
                   /\ Failed(text) \/ style.otherAcl \/ job.n \in held'
  /\ c = "comment" => /\ held' = held
                      /\ Failed(text) \/ style.otherAcl \/ job.n \in marked'
  /\ c = "undo" => /\ held' \in {held, held \ {job.n}}
                   /\ Failed(text) \/ style.otherAcl \/ job.n \notin held'

Says(c, text) ==
  /\ toDevice # <<>> /\ c = Head(toDevice) /\ toDevice' = Tail(toDevice)
  /\ UNCHANGED <<job, style, cl>>
  /\ Answers(c, text) /\ Acts(c, text)

(* Answers that are no more than a prompt or two.                          *)
LEMMA PromptAnswers ==
  ASSUME dev' \in Devs
  PROVE  LET p == Prompt(dev'.view)
             e == Tok("error")
         IN  /\ \A text \in {<<>>, <<p>>, <<e, p>>, <<p, e, p>>} :
                  /\ text \in Seq(Token)
                  /\ \A c : \A x \in Range(text) : WordOk(c, x)
                  /\ Range(text) \subseteq {p, e}
             /\ Reply(<<p>>) /\ Reply(<<e, p>>)
             /\ Failed(<<e, p>>)
<1> DEFINE p == Prompt(dev'.view)
           e == Tok("error")
<1>1. dev'.view \in Views
  BY DEF Devs
<1>2. /\ p \in Token /\ (p = AclPrompt => dev'.view = "acl" /\ ~ style.otherAcl)
      /\ p.t \in {"<H>", "[H]", "[H-acl-N]", "[H-acl-M]", "Username:", "Password:"}
  <2>1. p \in {UserPrompt, SysPrompt, AclPrompt, OtherPrompt, Tok("Username:"), Tok("Password:")}
    BY <1>1, PromptIs DEF Views
  <2>2. p.t \in {"<H>", "[H]", "[H-acl-N]", "[H-acl-M]", "Username:", "Password:"}
    BY <2>1, WordTags
  <2> QED BY <1>1, <2>2, PromptIs DEF Views
<1>3. e \in Token /\ e.t = "error"
  BY Words, WordTags
<1> HIDE DEF p, e
<1>4. \A c : WordOk(c, p) /\ WordOk(c, e)
  BY <1>2, <1>3, WordTags DEF WordOk, TrueLine
<1>5. \A text \in {<<>>, <<p>>, <<e, p>>, <<p, e, p>>} : Range(text) \subseteq {p, e}
  BY ShortRange
<1>6. \A text \in {<<>>, <<p>>, <<e, p>>, <<p, e, p>>} : text \in Seq(Token)
  <2>1. <<>> \in Seq(Token) /\ <<p>> \in Seq(Token)
    BY <1>2
  <2>2. <<e, p>> \in Seq(Token)
    BY <1>2, <1>3
  <2>3. <<p, e, p>> \in Seq(Token)
    BY <1>2, <1>3
  <2> QED BY <2>1, <2>2, <2>3
<1>7. Reply(<<p>>) /\ Reply(<<e, p>>)
  BY DEF Reply, e
<1>8. Failed(<<e, p>>)
  BY DEF Failed, Has, e
<1> QED BY <1>4, <1>5, <1>6, <1>7, <1>8 DEF p, e

(* The commands that are answered with a prompt.                           *)
LEMMA PromptSteps ==
  ASSUME TypeInv,
         \/ TakeUser \/ TakePassword \/ TakeScreenLength
         \/ TakeView("system-view", "user", "system") \/ TakeView("acl advanced", "system", "acl")
         \/ TakeQuit \/ TakeStrayQuit
  PROVE  \E c, text : Says(c, text)
<1> DEFINE p == Prompt(dev'.view)
           e == Tok("error")
<1>0. dev \in Devs /\ held \in SUBSET RuleIds /\ toClient \in Seq(Token)
  BY DEF TypeInv, Devs, Views
<1>1. \E c, text :
        /\ c \in Plain \cup {"screen-length disable", "quit"}
        /\ toDevice # <<>> /\ c = Head(toDevice) /\ toDevice' = Tail(toDevice)
        /\ UNCHANGED <<job, style, cl>> /\ UNCHANGED ruleVars
        /\ dev' \in Devs
        /\ dev'.page = dev.page \/ (c = "quit" /\ dev'.page = <<>>)
        /\ dev.view = "acl" /\ c # "quit" => dev'.view = "acl"
        /\ toClient' = toClient \o text
        /\ text \in {<<>>, <<p>>, <<e, p>>, <<p, e, p>>}
        /\ c # "quit" => text \in {<<p>>, <<e, p>>}
        /\ c = "acl advanced" => text = <<e, p>> \/ dev'.view = "acl"
  <2>1. CASE TakeUser
    <3>1. /\ dev.view = "username"
          /\ dev' = [dev EXCEPT !.view = "password"] /\ toClient' = toClient \o <<Prompt("password")>>
      BY <2>1 DEF TakeUser, GoTo, Say
    <3>2. dev' \in Devs /\ dev'.page = dev.page /\ dev'.view = "password"
      BY <1>0, <3>1 DEF Devs, Views, Prompted
    <3> WITNESS "user", <<p>>
    <3> QED BY <2>1, <3>1, <3>2 DEF TakeUser, Obey, Plain, ruleVars
  <2>2. CASE TakePassword
    <3>1. \E text \in {<<p>>, <<e, p>>} :
            /\ toClient' = toClient \o text
            /\ dev' \in Devs /\ dev'.page = dev.page /\ dev.view # "acl"
      <4>1. CASE dev.view = "password" /\ style.accepts /\ GoTo("user")
        <5>1. dev' = [dev EXCEPT !.view = "user"] /\ toClient' = toClient \o <<Prompt("user")>>
          BY <4>1 DEF GoTo, Say
        <5> QED BY <1>0, <4>1, <5>1 DEF Devs, Views, Prompted
      <4>2. CASE /\ dev.view = "password" /\ ~ style.accepts
                 /\ Say(<<Prompt("password")>>) /\ dev' = [dev EXCEPT !.view = "closed"]
        <5>1. Prompt("closed") = Prompt("password")
          BY DEF Prompt
        <5> QED BY <1>0, <4>2, <5>1 DEF Devs, Views, Prompted, Say
      <4>3. CASE dev.view = "user" /\ Refuse /\ UNCHANGED dev
        BY <1>0, <4>3 DEF Refuse, Say
      <4> QED BY <2>2, <4>1, <4>2, <4>3 DEF TakePassword
    <3>2. /\ toDevice # <<>> /\ Head(toDevice) = "password" /\ toDevice' = Tail(toDevice)
          /\ UNCHANGED <<job, style, cl>> /\ UNCHANGED ruleVars
      BY <2>2 DEF TakePassword, Obey
    <3> QED BY <3>1, <3>2 DEF Plain
  <2>3. CASE TakeScreenLength
    <3>1. \E text \in {<<p>>, <<e, p>>} :
            /\ toClient' = toClient \o text
            /\ dev' \in Devs /\ dev'.page = dev.page /\ dev'.view = dev.view
      <4>1. CASE style.keepsPaging
        BY <1>0, <2>3, <4>1 DEF TakeScreenLength, Refuse, Say
      <4>2. CASE ~ style.keepsPaging
        <5>1. dev' = [dev EXCEPT !.paging = FALSE] /\ toClient' = toClient \o <<Prompt(dev.view)>>
          BY <2>3, <4>2 DEF TakeScreenLength, Say
        <5> QED BY <1>0, <5>1 DEF Devs, Views, Prompted
      <4> QED BY <4>1, <4>2
    <3>2. /\ toDevice # <<>> /\ Head(toDevice) = "screen-length disable" /\ toDevice' = Tail(toDevice)
          /\ UNCHANGED <<job, style, cl>> /\ UNCHANGED ruleVars
      BY <2>3 DEF TakeScreenLength, Commanded, Obey
    <3> QED BY <3>1, <3>2
  <2>4. ASSUME NEW c \in Plain, NEW from \in {"user", "system"}, NEW to \in {"system", "acl"},
               TakeView(c, from, to)
        PROVE  /\ toDevice # <<>> /\ c = Head(toDevice) /\ toDevice' = Tail(toDevice)
               /\ UNCHANGED <<job, style, cl>> /\ UNCHANGED ruleVars
               /\ dev' \in Devs /\ dev'.page = dev.page
               /\ dev.view = "acl" => dev'.view = "acl"
               /\ \E text \in {<<p>>, <<e, p>>} :
                    toClient' = toClient \o text /\ (text = <<e, p>> \/ dev'.view = to)
    <3>1. CASE dev.view = from
      <4>1. dev' = [dev EXCEPT !.view = to] /\ toClient' = toClient \o <<Prompt(to)>>
        BY <2>4, <3>1 DEF TakeView, GoTo, Say
      <4>2. dev' \in Devs /\ dev'.page = dev.page /\ dev'.view = to /\ dev.view # "acl"
        BY <1>0, <3>1, <4>1 DEF Devs, Views, Prompted
      <4> QED BY <2>4, <4>1, <4>2 DEF TakeView, Commanded, Obey
    <3>2. CASE dev.view # from
      <4>1. UNCHANGED dev /\ toClient' = toClient \o <<e, p>>
        BY <2>4, <3>2 DEF TakeView, Refuse, Say
      <4> QED BY <1>0, <2>4, <4>1 DEF TakeView, Commanded, Obey
    <3> QED BY <3>1, <3>2
  <2>5. CASE TakeView("system-view", "user", "system")
    BY <2>4, <2>5 DEF Plain
  <2>6. CASE TakeView("acl advanced", "system", "acl")
    BY <2>4, <2>6 DEF Plain
  <2>7. CASE TakeQuit
    <3>1. \E text \in {<<>>, <<p>>} :
            toClient' = toClient \o text /\ dev' \in Devs /\ dev'.page = dev.page
      <4>1. CASE dev.view \in {"acl", "system"}
        <5>1. PICK to \in {"system", "user"} : GoTo(to)
          BY <2>7, <4>1 DEF TakeQuit
        <5>2. dev' = [dev EXCEPT !.view = to] /\ toClient' = toClient \o <<Prompt(to)>>
          BY <5>1 DEF GoTo, Say
        <5> QED BY <1>0, <5>2 DEF Devs, Views, Prompted
      <4>2. CASE dev.view \notin {"acl", "system"}
        <5>1. dev' = [dev EXCEPT !.view = "closed"] /\ toClient' = toClient /\ dev.page = <<>>
          BY <2>7, <4>2 DEF TakeQuit, Commanded
        <5>2. toClient' = toClient \o <<>>
          BY <1>0, <5>1, ConcatEmptySeq
        <5>3. dev' \in Devs /\ dev'.page = dev.page
          BY <1>0, <5>1 DEF Devs, Views, Prompted
        <5> QED BY <5>2, <5>3
      <4> QED BY <4>1, <4>2
    <3>2. /\ toDevice # <<>> /\ Head(toDevice) = "quit" /\ toDevice' = Tail(toDevice)
          /\ UNCHANGED <<job, style, cl>> /\ UNCHANGED ruleVars
      BY <2>7 DEF TakeQuit, Commanded, Obey
    <3> QED BY <3>1, <3>2
  <2>8. CASE TakeStrayQuit
    <3>1. \E text \in {<<>>, <<p, e, p>>} :
            /\ toClient' = toClient \o text /\ dev' \in Devs
            /\ dev'.page = dev.page \/ dev'.page = <<>>
      <4>1. CASE /\ dev.page # <<>> /\ dev' = [dev EXCEPT !.page = <<>>]
                 /\ Say(<<Prompt(dev.view), Tok("error"), Prompt(dev.view)>>)
        <5>1. <<>> \in Seq(Line)
          BY EmptySeq
        <5>2. dev' \in Devs /\ dev'.page = <<>> /\ dev'.view = dev.view
          BY <1>0, <4>1, <5>1 DEF Devs, Views, Prompted
        <5> QED BY <4>1, <5>2 DEF Say
      <4>2. CASE /\ dev.asking \/ dev.view \in {"username", "password", "closed"}
                 /\ dev' = [dev EXCEPT !.view = "closed", !.asking = FALSE] /\ UNCHANGED toClient
        <5>1. toClient' = toClient \o <<>>
          BY <1>0, <4>2, ConcatEmptySeq
        <5>2. dev' \in Devs /\ dev'.page = dev.page
          BY <1>0, <4>2 DEF Devs, Views, Prompted
        <5> QED BY <5>1, <5>2
      <4> QED BY <2>8, <4>1, <4>2 DEF TakeStrayQuit
    <3>2. /\ toDevice # <<>> /\ Head(toDevice) = "quit" /\ toDevice' = Tail(toDevice)
          /\ UNCHANGED <<job, style, cl>> /\ UNCHANGED ruleVars
      BY <2>8 DEF TakeStrayQuit, Obey
    <3> QED BY <3>1, <3>2
  <2> QED
    BY <2>1, <2>2, <2>3, <2>5, <2>6, <2>7, <2>8
<1>2. PICK c, text :
        /\ c \in Plain \cup {"screen-length disable", "quit"}
        /\ toDevice # <<>> /\ c = Head(toDevice) /\ toDevice' = Tail(toDevice)
        /\ UNCHANGED <<job, style, cl>> /\ UNCHANGED ruleVars
        /\ dev' \in Devs
        /\ dev'.page = dev.page \/ (c = "quit" /\ dev'.page = <<>>)
        /\ dev.view = "acl" /\ c # "quit" => dev'.view = "acl"
        /\ toClient' = toClient \o text
        /\ text \in {<<>>, <<p>>, <<e, p>>, <<p, e, p>>}
        /\ c # "quit" => text \in {<<p>>, <<e, p>>}
        /\ c = "acl advanced" => text = <<e, p>> \/ dev'.view = "acl"
  BY <1>1
<1>3. /\ text \in Seq(Token)
      /\ \A x \in Range(text) : WordOk(c, x)
      /\ Range(text) \subseteq {p, e}
      /\ Reply(<<p>>) /\ Reply(<<e, p>>) /\ Failed(<<e, p>>)
  BY <1>2, PromptAnswers
<1>4. p \in Prompts \cup {Tok("Username:"), Tok("Password:")}
  BY <1>2, PromptIs DEF Devs, Views, Prompts
<1> HIDE DEF p
<1>5. c \notin Edits /\ c \notin {"display this", "display acl", " "}
  BY <1>2 DEF Edits, Plain
<1>6. Answers(c, text)
  BY <1>2, <1>3, <1>4, <1>5 DEF Answers, Plain
<1>7. Acts(c, text)
  BY <1>0, <1>2, <1>3, <1>5 DEF Acts, ruleVars, Edits
<1>8. Says(c, text)
  BY <1>2, <1>6, <1>7 DEF Says
<1> QED BY <1>8

(* Two words.                                                              *)
Two(s, a, b) ==
  /\ s \in Seq(Token) /\ Len(s) = 2
  /\ \A i \in DOMAIN s : (i = 1 /\ s[i] = a) \/ (i = 2 /\ s[i] = b)
  /\ Range(s) = {a, b} /\ Last(s) = b

(* A text of two words.                                                    *)
LEMMA TwoWords ==
  ASSUME NEW a \in Token, NEW b \in Token
  PROVE  Two(<<a>> \o <<b>>, a, b) /\ Two(<<a, b>>, a, b)
<1> DEFINE u == <<a>>
           v == <<a, b>>
<1>1. u \in Seq(Token) /\ Len(u) = 1 /\ u[1] = a /\ Range(u) = {a}
  BY ShortRange
<1>2. v \in Seq(Token) /\ Len(v) = 2 /\ v[1] = a /\ v[2] = b /\ Range(v) = {a, b}
  BY ShortRange
<1> HIDE DEF u, v
<1>3. Two(u \o <<b>>, a, b)
  <2> DEFINE s == u \o <<b>>
  <2>0. /\ s \in Seq(Token) /\ Len(s) = Len(u) + 1 /\ DOMAIN s = 1..(Len(u) + 1)
        /\ \A i \in 1..Len(u) : s[i] = u[i]
        /\ s[Len(u) + 1] = b /\ Last(s) = b /\ Range(s) = Range(u) \cup {b}
    <3>1. \A w \in Seq(Token) :
            LET z == w \o <<b>>
            IN  /\ z \in Seq(Token) /\ Len(z) = Len(w) + 1 /\ DOMAIN z = 1..(Len(w) + 1)
                /\ \A i \in 1..Len(w) : z[i] = w[i]
                /\ z[Len(w) + 1] = b /\ Last(z) = b /\ Range(z) = Range(w) \cup {b}
      BY OneMore
    <3> QED BY <1>1, <3>1, Zenon
  <2> HIDE DEF s
  <2>1. /\ s \in Seq(Token) /\ Len(s) = 2 /\ DOMAIN s = 1..2
        /\ \A i \in 1..1 : s[i] = u[i]
        /\ s[2] = b /\ Last(s) = b /\ Range(s) = {a} \cup {b}
    BY <1>1, <2>0
  <2>2. s[1] = a
    BY <1>1, <2>1
  <2>3. \A i \in DOMAIN s : (i = 1 /\ s[i] = a) \/ (i = 2 /\ s[i] = b)
    BY <2>1, <2>2
  <2>4. Two(s, a, b)
    BY <2>1, <2>3 DEF Two
  <2> QED BY <2>4 DEF s
<1>4. Two(v, a, b)
  <2>1. DOMAIN v = 1..2
    BY <1>2, LenProperties
  <2>2. \A i \in DOMAIN v : (i = 1 /\ v[i] = a) \/ (i = 2 /\ v[i] = b)
    BY <1>2, <2>1
  <2> QED BY <1>2, <2>2 DEF Two, Last
<1> QED BY <1>3, <1>4 DEF u, v

(* A refusal, or the name of another ACL.                                  *)
LEMMA PairIsBody ==
  ASSUME NEW p \in Prompts, NEW x, x = Tok("error") \/ x = Tok("acl M"), NEW s, Two(s, x, p)
  PROVE  Body(s)
<1>1. p.t \in {"<H>", "[H]", "[H-acl-N]", "[H-acl-M]"}
  BY PromptTags
<1>2. x.t \in {"error", "acl M"}
  BY WordTags
<1>3. x \notin Prompts /\ x # Remark /\ x # Question /\ p # Remark /\ p # Question
  BY <1>1, <1>2, PromptTags, WordTags
<1>4. \A i \in DOMAIN s : s[i] \in Prompts => i = Len(s)
  BY <1>3 DEF Two
<1>5. OneRemark(s)
  BY <1>3 DEF OneRemark, Two
<1>6. Question \notin Range(s) /\ Last(s) \in Prompts
  BY <1>3 DEF Two
<1> QED BY <1>4, <1>5, <1>6 DEF Body

(* The displays.                                                           *)
LEMMA DisplaySteps ==
  ASSUME TypeInv, TakeDisplayThis \/ TakeDisplayAcl \/ TakeSpace
  PROVE  \E c, text : Says(c, text)
<1>0. /\ dev \in Devs /\ held \in SUBSET RuleIds /\ toClient \in Seq(Token)
      /\ IsFiniteSet(held) /\ held \subseteq Nat
  BY SessionAssumption, FS_Subset DEF TypeInv, Devs, Views
<1>1. CASE TakeDisplayThis
  <2> DEFINE p == Prompt("acl")
             c == "display this"
  <2>1. /\ toDevice # <<>> /\ c = Head(toDevice) /\ toDevice' = Tail(toDevice)
        /\ UNCHANGED <<job, style, cl>> /\ UNCHANGED ruleVars /\ dev' = dev
        /\ dev.view \in Prompted
    <3>1. Commanded(c) /\ UNCHANGED <<ruleVars, dev>>
      BY <1>1, Zenon DEF TakeDisplayThis
    <3> QED BY <3>1 DEF Commanded, Obey, Prompted, ruleVars
  <2>2. \A text : Acts(c, text)
    BY <1>0, <2>1 DEF Acts, ruleVars, Edits
  <2>3. c \notin Plain \cup Edits /\ c \notin {"display acl", " "}
    BY DEF Plain, Edits
  <2>4. ASSUME NEW text, toClient' = toClient \o text, text \in Seq(Token), Body(text),
               \A x \in Range(text) : WordOk(c, x)
        PROVE  Says(c, text)
    <3>1. Answers(c, text)
      BY <2>3, <2>4 DEF Answers, Edits
    <3> QED BY <2>1, <2>2, <3>1 DEF Says
  <2>5. CASE dev.view # "acl"
    <3> DEFINE q == Prompt(dev.view)
               e == Tok("error")
    <3>1. toClient' = toClient \o <<e, q>>
      BY <1>1, <2>5 DEF TakeDisplayThis, Refuse, Say
    <3>2. q \in Prompts
      BY <2>1, PromptIs DEF Views, Prompted
    <3>3. <<e, q>> \in Seq(Token) /\ Body(<<e, q>>)
      <4>1. q \in Token /\ e \in Token
        BY <3>2, PromptTags, Words
      <4> HIDE DEF q
      <4>2. Two(<<e, q>>, e, q)
        BY <4>1, TwoWords
      <4>3. Body(<<e, q>>)
        BY <3>2, <4>2, PairIsBody
      <4>4. \A s : Two(s, e, q) => s \in Seq(Token)
        BY DEF Two
      <4> QED BY <4>2, <4>3, <4>4
    <3>4. \A x \in Range(<<e, q>>) : WordOk(c, x)
      BY <1>0, <2>1, PromptAnswers
    <3> HIDE DEF q, e
    <3> QED BY <2>4, <3>1, <3>3, <3>4
  <2>6. CASE dev.view = "acl"
    <3>1. p \in Prompts /\ (p = AclPrompt => ~ style.otherAcl)
      BY PromptIs DEF Views, Prompted
    <3>2. \A w \in {p, Tok("acl M")} : WordOk(c, w)
      <4>1. p.t \in {"<H>", "[H]", "[H-acl-N]", "[H-acl-M]"}
        BY <3>1, PromptTags
      <4>2. p # Tok("acl N") /\ p # Success /\ p # Tok("More") /\ TrueLine(p)
            /\ p.t # "header"
        BY <4>1, WordTags DEF TrueLine
      <4>3. WordOk(c, p)
        BY <2>1, <2>6, <3>1, <4>2 DEF WordOk
      <4>4. WordOk(c, Tok("acl M"))
        BY WordTags DEF WordOk, TrueLine
      <4> QED BY <4>3, <4>4
    <3> HIDE DEF p
    <3>3. CASE style.otherAcl
      <4>1. toClient' = toClient \o (<<Tok("acl M")>> \o <<p>>)
        BY <1>1, <2>6, <3>3 DEF TakeDisplayThis, Say, p
      <4> DEFINE m == Tok("acl M")
                 text == <<m>> \o <<p>>
      <4>2. m \in Token /\ p \in Token
        BY <3>1, Words, PromptTags
      <4> HIDE DEF m
      <4>3. Two(text, m, p)
        BY <4>2, TwoWords
      <4>4. toClient' = toClient \o text
        BY <4>1 DEF m
      <4> HIDE DEF text
      <4>5. Body(text)
        BY <3>1, <4>3, PairIsBody DEF m
      <4>6. text \in Seq(Token) /\ \A x \in Range(text) : x = m \/ x = p
        BY <4>3 DEF Two
      <4> QED BY <2>4, <3>2, <4>4, <4>5, <4>6 DEF m
    <3>4. CASE ~ style.otherAcl
      <4> DEFINE text == (<<Tok("acl N")>> \o RuleLines) \o <<p>>
      <4>1. toClient' = toClient \o text
        BY <1>1, <2>6, <3>4 DEF TakeDisplayThis, Say, p
      <4>2. /\ text \in Seq(Token) /\ Body(text)
            /\ \A x \in Range(text) :
                 x \in {Tok("acl N"), Remark, p} \/ \E n \in held : x = Rule(n)
        BY <1>0, <3>1, BodyIs
      <4>3. WordOk(c, Tok("acl N"))
        BY <2>1, <2>6, <3>4, WordTags DEF WordOk, TrueLine
      <4>4. WordOk(c, Remark)
        BY WordTags DEF WordOk, TrueLine
      <4>5. \A n \in held : WordOk(c, Rule(n))
        BY WordTags DEF WordOk, TrueLine
      <4> HIDE DEF text
      <4>6. \A x \in Range(text) : WordOk(c, x)
        BY <3>2, <4>2, <4>3, <4>4, <4>5
      <4> QED BY <2>4, <4>1, <4>2, <4>6
    <3> QED BY <3>3, <3>4
  <2> QED BY <2>5, <2>6
<1>2. ASSUME NEW c \in {"display acl", " "}, NEW lines \in Seq(Line), ShowPage(lines),
             toDevice # <<>>, c = Head(toDevice), toDevice' = Tail(toDevice),
             UNCHANGED <<job, style, cl>>, UNCHANGED ruleVars,
             dev.view \in Prompted, ~ dev.asking,
             c = "display acl" => dev.page = <<>> /\ lines = AclLines,
             c = " " => dev.page # <<>> /\ lines = dev.page,
             c = "display acl" => \A x \in Range(lines) : TrueLine(x)
      PROVE  \E d, text : Says(d, text)
  <2>1. PICK text : /\ Shown(lines, text) /\ toClient' = toClient \o text
                    /\ dev' = [dev EXCEPT !.page = dev'.page]
    BY <1>2, PageShown
  <2>2. /\ text \in Seq(Token) /\ text # <<>>
        /\ \A i \in DOMAIN text : i < Len(text) => text[i] \in Range(lines)
        /\ Last(text) = Tok("More") \/ (Last(text) = Prompt(dev.view) /\ Last(text) \in Prompts)
        /\ dev'.page \in Seq(Line)
    BY <2>1 DEF Shown
  <2>3. dev' \in Devs /\ dev'.view = dev.view
    BY <1>0, <1>2, <2>1, <2>2 DEF Devs, Views, Prompted
  <2>4. \A x \in Range(text) : x \in Range(lines) \/ x = Last(text)
    <3>1. Range(text) = {text[i] : i \in 1..Len(text)} /\ DOMAIN text = 1..Len(text)
          /\ Len(text) \in Nat
      BY <2>2, RangeEquality, LenProperties
    <3> QED BY <2>2, <3>1, LastOrBefore DEF Last
  <2>5. \A x \in Range(lines) : x \in Line
    BY RangeOfSeq
  <2>6. \A x \in Line : c = " " \/ TrueLine(x) => WordOk(c, x)
    <3> SUFFICES ASSUME NEW x \in Line, c = " " \/ TrueLine(x)
                 PROVE  WordOk(c, x)
      OBVIOUS
    <3>1. x.t \in {"header", "rule", "remark"}
      BY DEF Line
    <3>2. x # AclPrompt /\ x # Tok("acl N") /\ x # Success
      BY <3>1, WordTags
    <3> QED BY <3>2 DEF WordOk
  <2>7. \A x \in Range(lines) : WordOk(c, x)
    BY <1>2, <2>5, <2>6
  <2>8. WordOk(c, Last(text))
    <3>1. CASE Last(text) = Tok("More")
      <4>1. Tok("More") # AclPrompt /\ Tok("More") # Tok("acl N") /\ Tok("More") # Success
            /\ TrueLine(Tok("More"))
        BY WordTags DEF TrueLine
      <4> QED BY <3>1, <4>1 DEF WordOk
    <3>2. CASE Last(text) = Prompt(dev.view) /\ Last(text) \in Prompts
      <4> DEFINE p == Last(text)
      <4>1. p.t \in {"<H>", "[H]", "[H-acl-N]", "[H-acl-M]"}
        BY <3>2, PromptTags
      <4>2. p # Tok("acl N") /\ p # Success /\ TrueLine(p)
        BY <4>1, WordTags DEF TrueLine
      <4>3. p = AclPrompt => dev.view = "acl" /\ ~ style.otherAcl
        BY <1>0, <3>2, PromptIs DEF Devs
      <4> QED BY <2>3, <4>2, <4>3 DEF WordOk
    <3> QED BY <2>2, <3>1, <3>2
  <2>9. c \notin Plain \cup Edits /\ c \notin {"display this", "quit"}
    BY <1>2 DEF Plain, Edits
  <2>10. Answers(c, text)
    BY <1>2, <2>1, <2>2, <2>4, <2>7, <2>8, <2>9 DEF Answers, Edits
  <2>11. Acts(c, text)
    BY <1>0, <1>2, <2>3, <2>9 DEF Acts, ruleVars, Edits
  <2> QED BY <1>2, <2>10, <2>11 DEF Says
<1>3. CASE TakeDisplayAcl
  <2>1. /\ toDevice # <<>> /\ "display acl" = Head(toDevice) /\ toDevice' = Tail(toDevice)
        /\ UNCHANGED <<job, style, cl>> /\ UNCHANGED ruleVars
        /\ dev.view \in Prompted /\ ~ dev.asking /\ dev.page = <<>> /\ ShowPage(AclLines)
    BY <1>3 DEF TakeDisplayAcl, Commanded, Obey, Prompted
  <2>2. AclLines \in Seq(Line) /\ \A x \in Range(AclLines) : TrueLine(x)
    BY <1>0, AclLinesAre
  <2> QED BY <1>2, <2>1, <2>2
<1>4. CASE TakeSpace
  <2>1. /\ toDevice # <<>> /\ " " = Head(toDevice) /\ toDevice' = Tail(toDevice)
        /\ UNCHANGED <<job, style, cl>> /\ UNCHANGED ruleVars
        /\ dev.page # <<>> /\ ShowPage(dev.page)
    BY <1>4 DEF TakeSpace, Obey
  <2>2. dev.page \in Seq(Line) /\ dev.view \in Prompted /\ ~ dev.asking
    BY <1>0, <2>1 DEF Devs
  <2> QED BY <1>2, <2>1, <2>2
<1> QED BY <1>1, <1>3, <1>4

(* The edits: a prompt when the switch obeyed, an error when it did not.   *)
LEMMA EditAnswer ==
  ASSUME TypeInv, NEW c \in Edits, NEW allowed, NEW newHeld, NEW newMarked,
         Edit(c, allowed, newHeld, newMarked)
  PROVE  /\ toDevice # <<>> /\ c = Head(toDevice) /\ toDevice' = Tail(toDevice)
         /\ UNCHANGED <<job, style, cl>> /\ stored' = stored /\ dev' = dev
         /\ held' \in {held, newHeld} /\ marked' \in {marked, newMarked}
         /\ \E text : /\ Answers(c, text)
                      /\ \/ Failed(text)
                         \/ style.otherAcl
                         \/ held' = newHeld /\ marked' = newMarked
<1> DEFINE p == Prompt(dev.view)
           e == Tok("error")
<1>1. /\ toDevice # <<>> /\ c = Head(toDevice) /\ toDevice' = Tail(toDevice)
      /\ UNCHANGED <<job, style, cl>> /\ stored' = stored /\ dev' = dev
      /\ dev.view \in Prompted
  BY DEF Edit, Commanded, Obey, Prompted
<1>2. dev' \in Devs /\ dev'.view = dev.view
  BY <1>1 DEF TypeInv
<1>3. p \in Prompts
  BY <1>1, PromptIs DEF Views, Prompted
<1>4. c \notin Plain /\ c \notin {"display this", "display acl", " "}
  BY DEF Edits, Plain
<1>5. /\ \A text \in {<<p>>, <<e, p>>} :
            /\ text \in Seq(Token) /\ \A x \in Range(text) : WordOk(c, x)
            /\ Range(text) \subseteq {p, e} /\ Reply(text)
      /\ Failed(<<e, p>>)
  BY <1>2, PromptAnswers
<1> HIDE DEF p, e
<1>6. \A text \in {<<p>>, <<e, p>>} : toClient' = toClient \o text => Answers(c, text)
  <2> TAKE text \in {<<p>>, <<e, p>>}
  <2> HAVE toClient' = toClient \o text
  <2>1. Range(text) \subseteq Prompts \cup {Tok("error")}
    BY <1>3, <1>5 DEF e
  <2> QED BY <1>4, <1>5, <2>1 DEF Answers
<1>7. CASE dev.view = "acl" /\ allowed
  <2>1. /\ toClient' = toClient \o <<p>>
        /\ held' = IF style.otherAcl THEN held ELSE newHeld
        /\ marked' = IF style.otherAcl THEN marked ELSE newMarked
    BY <1>7 DEF Edit, Say, p
  <2>2. Answers(c, <<p>>)
    BY <1>6, <2>1
  <2>3. style.otherAcl \/ (held' = newHeld /\ marked' = newMarked)
    BY <2>1
  <2>4. held' \in {held, newHeld} /\ marked' \in {marked, newMarked}
    BY <2>1
  <2> QED BY <1>1, <2>2, <2>3, <2>4
<1>8. CASE ~ (dev.view = "acl" /\ allowed)
  <2>1. toClient' = toClient \o <<e, p>> /\ held' = held /\ marked' = marked
    BY <1>8 DEF Edit, Refuse, Say, p, e
  <2>2. Answers(c, <<e, p>>)
    BY <1>6, <2>1
  <2> QED BY <1>1, <1>5, <2>1, <2>2
<1> QED BY <1>7, <1>8

(* An edit is carried out or refused, and says which.                      *)
LEMMA EditSteps ==
  ASSUME TypeInv, TakeRule \/ TakeComment \/ TakeUndo
  PROVE  \E c, text : Says(c, text)
<1>1. dev \in Devs /\ held \in SUBSET RuleIds /\ job.n \in RuleIds
  BY SessionAssumption DEF TypeInv
<1>2. ASSUME NEW c \in Edits, NEW text, Answers(c, text),
             toDevice # <<>>, c = Head(toDevice), toDevice' = Tail(toDevice),
             UNCHANGED <<job, style, cl>>, stored' = stored, dev' = dev,
             held' \in SUBSET RuleIds,
             c = "rule" => /\ held' \in {held, held \cup {job.n}} /\ marked' = marked
                           /\ Failed(text) \/ style.otherAcl \/ job.n \in held',
             c = "comment" => /\ held' = held
                              /\ Failed(text) \/ style.otherAcl \/ job.n \in marked',
             c = "undo" => /\ held' \in {held, held \ {job.n}}
                           /\ Failed(text) \/ style.otherAcl \/ job.n \notin held'
      PROVE  Says(c, text)
  <2>1. Acts(c, text)
    BY <1>1, <1>2 DEF Acts, Edits
  <2> QED BY <1>2, <2>1 DEF Says
<1>3. CASE TakeRule
  <2>1. Edit("rule", ~ style.refusesWrites, held \cup {job.n}, marked)
    BY <1>3 DEF TakeRule
  <2> DEFINE c == "rule"
  <2>2. c \in Edits
    BY DEF Edits
  <2>3. PICK text : /\ Answers(c, text)
                    /\ \/ Failed(text) \/ style.otherAcl
                       \/ held' = held \cup {job.n} /\ marked' = marked
    BY <2>1, <2>2, EditAnswer
  <2>4. /\ toDevice # <<>> /\ c = Head(toDevice) /\ toDevice' = Tail(toDevice)
        /\ UNCHANGED <<job, style, cl>> /\ stored' = stored /\ dev' = dev
        /\ held' \in {held, held \cup {job.n}} /\ marked' \in {marked, marked}
    BY <2>1, <2>2, EditAnswer
  <2>5. held' \in SUBSET RuleIds
    BY <1>1, <2>4
  <2>6. Says(c, text)
    BY <1>2, <2>2, <2>3, <2>4, <2>5
  <2> QED BY <2>6
<1>4. CASE TakeComment
  <2>1. Edit("comment", ~ style.refusesComments /\ job.n \in held, held, marked \cup {job.n})
    BY <1>4 DEF TakeComment
  <2> DEFINE c == "comment"
  <2>2. c \in Edits
    BY DEF Edits
  <2>3. PICK text : /\ Answers(c, text)
                    /\ \/ Failed(text) \/ style.otherAcl
                       \/ held' = held /\ marked' = marked \cup {job.n}
    BY <2>1, <2>2, EditAnswer
  <2>4. /\ toDevice # <<>> /\ c = Head(toDevice) /\ toDevice' = Tail(toDevice)
        /\ UNCHANGED <<job, style, cl>> /\ stored' = stored /\ dev' = dev
        /\ held' \in {held, held}
    BY <2>1, <2>2, EditAnswer
  <2>5. Says(c, text)
    BY <1>1, <1>2, <2>2, <2>3, <2>4
  <2> QED BY <2>5
<1>5. CASE TakeUndo
  <2>1. Edit("undo", ~ style.refusesWrites, held \ {job.n}, marked \ {job.n})
    BY <1>5 DEF TakeUndo
  <2> DEFINE c == "undo"
  <2>2. c \in Edits
    BY DEF Edits
  <2>3. PICK text : /\ Answers(c, text)
                    /\ \/ Failed(text) \/ style.otherAcl
                       \/ held' = held \ {job.n} /\ marked' = marked \ {job.n}
    BY <2>1, <2>2, EditAnswer
  <2>4. /\ toDevice # <<>> /\ c = Head(toDevice) /\ toDevice' = Tail(toDevice)
        /\ UNCHANGED <<job, style, cl>> /\ stored' = stored /\ dev' = dev
        /\ held' \in {held, held \ {job.n}}
    BY <2>1, <2>2, EditAnswer
  <2>5. held' \in SUBSET RuleIds
    BY <1>1, <2>4
  <2>6. Says(c, text)
    BY <1>2, <2>2, <2>3, <2>4, <2>5
  <2> QED BY <2>6
<1> QED BY <1>3, <1>4, <1>5

(* The save, and the question some switches ask first.                     *)
LEMMA SaveSteps ==
  ASSUME TypeInv, TakeSave \/ TakeYes
  PROVE  \E c, text : Says(c, text)
<1> DEFINE p == Prompt(dev.view)
           e == Tok("error")
<1>1. dev \in Devs /\ held \in SUBSET RuleIds /\ dev.view \in Views
  BY DEF TypeInv, Devs
<1>2. PICK c \in {"save force", "Y"} :
        /\ toDevice # <<>> /\ c = Head(toDevice) /\ toDevice' = Tail(toDevice)
        /\ UNCHANGED <<job, style, cl>> /\ held' = held /\ marked' = marked
        /\ dev' \in Devs /\ dev'.view = dev.view /\ dev'.page = dev.page
        /\ \/ stored' = held /\ toClient' = toClient \o <<Success, p>>
           \/ stored' = stored /\ toClient' = toClient \o <<e, p>>
           \/ stored' = stored /\ toClient' = toClient \o <<Question>>
  <2>1. CASE TakeSave
    <3>1. /\ toDevice # <<>> /\ "save force" = Head(toDevice) /\ toDevice' = Tail(toDevice)
          /\ UNCHANGED <<job, style, cl>> /\ held' = held /\ marked' = marked /\ dev.page = <<>>
      BY <2>1 DEF TakeSave, Commanded, Obey
    <3>2. CASE dev.view = "acl" \/ style.saves = "fails"
      <4>1. stored' = stored /\ toClient' = toClient \o <<e, p>> /\ dev' = dev
        BY <2>1, <3>2 DEF TakeSave, Refuse, Say
      <4> QED BY <1>1, <3>1, <4>1
    <3>3. CASE ~ (dev.view = "acl" \/ style.saves = "fails") /\ style.saves = "works"
      <4>1. stored' = held /\ toClient' = toClient \o <<Success, p>> /\ dev' = dev
        BY <2>1, <3>3 DEF TakeSave, Store, Say
      <4> QED BY <1>1, <3>1, <4>1
    <3>4. CASE ~ (dev.view = "acl" \/ style.saves = "fails") /\ style.saves # "works"
      <4>1. /\ stored' = stored /\ toClient' = toClient \o <<Question>>
            /\ dev' = [dev EXCEPT !.asking = TRUE]
        BY <2>1, <3>4 DEF TakeSave, Say
      <4>2. dev' \in Devs /\ dev'.view = dev.view /\ dev'.page = dev.page
        BY <1>1, <3>1, <4>1 DEF Devs
      <4> QED BY <3>1, <4>1, <4>2
    <3> QED BY <3>2, <3>3, <3>4
  <2>2. CASE TakeYes
    <3>1. /\ toDevice # <<>> /\ "Y" = Head(toDevice) /\ toDevice' = Tail(toDevice)
          /\ UNCHANGED <<job, style, cl>> /\ held' = held /\ marked' = marked
          /\ stored' = held /\ toClient' = toClient \o <<Success, p>>
          /\ dev' = [dev EXCEPT !.asking = FALSE]
      BY <2>2 DEF TakeYes, Obey, Store, Say
    <3>2. dev' \in Devs /\ dev'.view = dev.view /\ dev'.page = dev.page
      BY <1>1, <3>1 DEF Devs
    <3> QED BY <3>1, <3>2
  <2> QED BY <2>1, <2>2
<1>3. /\ p \in Token /\ (p = AclPrompt => dev'.view = "acl" /\ ~ style.otherAcl)
      /\ p.t \in {"<H>", "[H]", "[H-acl-N]", "[H-acl-M]", "Username:", "Password:"}
  <2>1. p \in {UserPrompt, SysPrompt, AclPrompt, OtherPrompt, Tok("Username:"), Tok("Password:")}
    BY <1>1, PromptIs
  <2>2. p.t \in {"<H>", "[H]", "[H-acl-N]", "[H-acl-M]", "Username:", "Password:"}
    BY <2>1, WordTags
  <2> QED BY <1>1, <1>2, <2>2, PromptIs
<1>4. c \notin Plain \cup Edits /\ c \notin {"display this", "display acl", " "} /\ c # "quit"
  BY <1>2 DEF Edits, Plain
<1>5. ASSUME NEW text, text \in Seq(Token), toClient' = toClient \o text,
             \A x \in Range(text) : WordOk(c, x)
      PROVE  Says(c, text)
  <2>1. Answers(c, text)
    BY <1>4, <1>5 DEF Answers
  <2>2. Acts(c, text)
    BY <1>1, <1>2, <1>4 DEF Acts, Edits
  <2> QED BY <1>2, <2>1, <2>2 DEF Says
<1>6. /\ e \in Token /\ e.t = "error" /\ Success \in Token /\ Success.t = "success"
      /\ Question \in Token /\ Question.t = "[Y/N]"
  BY Words, WordTags
<1> HIDE DEF p, e
<1>7. WordOk(c, p) /\ WordOk(c, e) /\ WordOk(c, Question)
  BY <1>3, <1>6, WordTags DEF WordOk, TrueLine
<1>8. CASE stored' = held /\ toClient' = toClient \o <<Success, p>>
  <2>1. WordOk(c, Success)
    BY <1>2, <1>6, <1>8, WordTags DEF WordOk, TrueLine
  <2>2. Two(<<Success, p>>, Success, p)
    BY <1>3, <1>6, TwoWords
  <2>3. <<Success, p>> \in Seq(Token) /\ \A x \in Range(<<Success, p>>) : WordOk(c, x)
    BY <1>7, <2>1, <2>2 DEF Two
  <2> QED BY <1>5, <1>8, <2>3
<1>9. CASE stored' = stored /\ toClient' = toClient \o <<e, p>>
  <2>1. Two(<<e, p>>, e, p)
    BY <1>3, <1>6, TwoWords
  <2>2. <<e, p>> \in Seq(Token) /\ \A x \in Range(<<e, p>>) : WordOk(c, x)
    BY <1>7, <2>1 DEF Two
  <2> QED BY <1>5, <1>9, <2>2
<1>10. CASE stored' = stored /\ toClient' = toClient \o <<Question>>
  <2>1. <<Question>> \in Seq(Token) /\ Range(<<Question>>) = {Question}
    BY <1>6, OneWord, Zenon
  <2> QED BY <1>5, <1>7, <1>10, <2>1
<1> QED BY <1>2, <1>8, <1>9, <1>10

(* Every step of the switch is an answer to the command it has read.       *)
LEMMA DeviceSays ==
  ASSUME TypeInv, Device
  PROVE  \E c, text : Says(c, text)
BY PromptSteps, DisplaySteps, EditSteps, SaveSteps DEF Device

-----------------------------------------------------------------------------
(* The steps of a session, by what they do to the two texts and the queue. *)

(* The parts of the text.                                                  *)
LEMMA Texts ==
  ASSUME TypeInv
  PROVE  /\ cl.buf \in Seq(Token) /\ cl.full \in Seq(Token) /\ toClient \in Seq(Token)
         /\ In \in Seq(Token) /\ All \in Seq(Token) /\ Output \in Seq(Token)
         /\ Range(In) = Range(cl.buf) \cup Range(toClient)
         /\ Range(All) = Range(cl.full) \cup Range(In)
         /\ Range(Output) = Range(cl.full) \cup Range(cl.buf)
         /\ All = Output \o toClient
<1>1. cl.buf \in Seq(Token) /\ cl.full \in Seq(Token) /\ toClient \in Seq(Token)
  BY DEF TypeInv, Clients
<1>2. \A s, t \in Seq(Token) : s \o t \in Seq(Token) /\ Range(s \o t) = Range(s) \cup Range(t)
  BY ConcatProperties, RangeConcatenation
<1>3. In \in Seq(Token) /\ Range(In) = Range(cl.buf) \cup Range(toClient)
  BY <1>1, <1>2, Zenon DEF In
<1>4. All \in Seq(Token) /\ Range(All) = Range(cl.full) \cup Range(In)
  BY <1>1, <1>2, <1>3, Zenon DEF All
<1>5. Output \in Seq(Token) /\ Range(Output) = Range(cl.full) \cup Range(cl.buf)
  BY <1>1, <1>2, Zenon DEF Output
<1>6. All = Output \o toClient
  <2>1. \A s, t, u \in Seq(Token) : (s \o t) \o u = s \o (t \o u)
    BY ConcatAssociative
  <2> QED BY <1>1, <2>1, Zenon DEF All, In, Output
<1> QED BY <1>1, <1>3, <1>4, <1>5, <1>6

(* An answer of the switch comes after all that it said before.            *)
LEMMA Grown ==
  ASSUME TypeInv, NEW c, NEW text, Says(c, text)
  PROVE  /\ text \in Seq(Token) /\ toClient' \in Seq(Token)
         /\ In' = In \o text /\ Range(In') = Range(In) \cup Range(text)
         /\ All' = All \o text /\ Range(All') = Range(All) \cup Range(text)
         /\ cl' = cl
<1>1. text \in Seq(Token) /\ toClient' = toClient \o text /\ cl' = cl
  BY DEF Says, Answers
<1>2. /\ cl.buf \in Seq(Token) /\ cl.full \in Seq(Token) /\ toClient \in Seq(Token)
      /\ In \in Seq(Token) /\ All \in Seq(Token)
  BY Texts
<1>3. \A s, t \in Seq(Token) : s \o t \in Seq(Token) /\ Range(s \o t) = Range(s) \cup Range(t)
  BY ConcatProperties, RangeConcatenation
<1>4. In' = In \o text
  <2>1. In' = cl.buf \o (toClient \o text)
    BY <1>1 DEF In
  <2>2. Regrouped(cl.buf, toClient, text)
    BY <1>1, <1>2, Regrouping
  <2> QED BY <2>1, <2>2 DEF In, Regrouped
<1>5. All' = All \o text
  <2>1. All' = cl.full \o (In \o text)
    BY <1>1, <1>4 DEF All
  <2>2. Regrouped(cl.full, In, text)
    BY <1>1, <1>2, Regrouping
  <2> QED BY <2>1, <2>2 DEF All, Regrouped
<1> QED BY <1>1, <1>2, <1>3, <1>4, <1>5, Zenon

(* The queue: a command is read at its front.                              *)
LEMMA QueueRead ==
  ASSUME NEW S, NEW q \in Seq(S), q # <<>>
  PROVE  /\ Tail(q) \in Seq(S) /\ Head(q) \in S
         /\ Range(q) = {Head(q)} \cup Range(Tail(q))
         /\ Range(Tail(q)) \subseteq Range(q)
         /\ \A a, b : Before(Tail(q), a, b) => Before(q, a, b)
         /\ \A b \in Range(Tail(q)) : Before(q, Head(q), b)
         /\ Tail(q) = <<>> => Last(q) = Head(q)
         /\ Tail(q) # <<>> => Last(Tail(q)) = Last(q) /\ Last(q) \in Range(Tail(q))
<1> DEFINE t == Tail(q)
<1>1. /\ Len(q) \in Nat /\ Len(q) >= 1 /\ DOMAIN q = 1..Len(q) /\ q \in [1..Len(q) -> S]
  BY LenProperties, EmptySeq
<1>2. /\ t \in Seq(S) /\ Len(t) = Len(q) - 1 /\ Head(q) = q[1] /\ Head(q) \in S
      /\ \A i \in 1..Len(t) : t[i] = q[i + 1]
  BY <1>1, HeadTailProperties
<1> HIDE DEF t
<1>3. DOMAIN t = 1..Len(t) /\ Len(t) \in Nat
  BY <1>2, LenProperties
<1>4. \A i \in 1..Len(t) : i + 1 \in 1..Len(q) /\ 1 < i + 1 /\ 1 \in 1..Len(q)
  BY <1>1, <1>2, <1>3
<1>5. \A i \in 1..Len(q) : i = 1 \/ (i - 1 \in 1..Len(t) /\ t[i - 1] = q[i])
  <2> TAKE i \in 1..Len(q)
  <2>1. i = 1 \/ (i - 1 \in 1..Len(t) /\ (i - 1) + 1 = i)
    BY <1>1, <1>2, <1>3
  <2> QED BY <1>2, <2>1
<1>6. Range(q) = {q[i] : i \in 1..Len(q)} /\ Range(t) = {t[i] : i \in 1..Len(t)}
  BY <1>2, RangeEquality
<1>7. Range(q) = {Head(q)} \cup Range(t)
  <2>1. \A x \in Range(q) : x = Head(q) \/ x \in Range(t)
    BY <1>2, <1>5, <1>6
  <2>2. \A x \in Range(t) : x \in Range(q)
    BY <1>2, <1>4, <1>6
  <2>3. Head(q) \in Range(q)
    BY <1>1, <1>2, <1>6
  <2> QED BY <2>1, <2>2, <2>3
<1>8. \A a, b : Before(t, a, b) => Before(q, a, b)
  <2> TAKE a, b
  <2> HAVE Before(t, a, b)
  <2>1. PICK i \in 1..Len(t), j \in 1..Len(t) : i < j /\ t[i] = a /\ t[j] = b
    BY <1>3 DEF Before
  <2>2. i + 1 \in DOMAIN q /\ j + 1 \in DOMAIN q /\ i + 1 < j + 1
    BY <1>1, <1>3, <1>4, <2>1
  <2>3. q[i + 1] = a /\ q[j + 1] = b
    BY <1>2, <2>1
  <2> QED BY <2>2, <2>3 DEF Before
<1>9. \A b \in Range(t) : Before(q, Head(q), b)
  <2> TAKE b \in Range(t)
  <2>1. PICK j \in 1..Len(t) : t[j] = b
    BY <1>6
  <2>2. 1 \in DOMAIN q /\ j + 1 \in DOMAIN q /\ 1 < j + 1 /\ q[j + 1] = b
    BY <1>1, <1>2, <1>4, <2>1
  <2> QED BY <1>2, <2>2 DEF Before
<1>10. t # <<>> => Last(t) = Last(q) /\ Last(q) \in Range(t)
  <2>1. t # <<>> => Len(t) \in 1..Len(t)
    BY <1>2, <1>3, EmptySeq
  <2> QED BY <1>1, <1>2, <1>3, <1>6, <2>1 DEF Last
<1>11. t = <<>> => Last(q) = Head(q)
  <2>1. t = <<>> => Len(t) = 0
    BY EmptySeq
  <2>2. t = <<>> => Len(q) = 1
    <3>1. Len(q) \in Nat /\ Len(t) = Len(q) - 1
      BY <1>1, <1>2, Zenon
    <3> QED BY <2>1, <3>1
  <2>3. Last(q) = q[Len(q)] /\ Head(q) = q[1]
    BY <1>2 DEF Last
  <2> QED BY <2>2, <2>3, Zenon
<1> QED BY <1>2, <1>7, <1>8, <1>9, <1>10, <1>11 DEF t

(* The only command of a queue is read.                                    *)
LEMMA OneRead ==
  ASSUME NEW w
  PROVE  Head(<<w>>) = w /\ Tail(<<w>>) = <<>>
OBVIOUS

(* The first command of a queue is sent.                                   *)
LEMMA OneSent ==
  ASSUME NEW q, q = <<>>, NEW w
  PROVE  Append(q, w) = <<w>>
OBVIOUS

(* The queue: a command is sent to its end.                                *)
LEMMA QueueSend ==
  ASSUME NEW S, NEW q \in Seq(S), NEW c \in S
  PROVE  /\ Append(q, c) \in Seq(S) /\ Append(q, c) # <<>>
         /\ Range(Append(q, c)) = Range(q) \cup {c}
         /\ \A a, b : Before(Append(q, c), a, b) => Before(q, a, b) \/ (a \in Range(q) /\ b = c)
         /\ \A a, b : Before(q, a, b) => a \in Range(q) /\ b \in Range(q)
         /\ Last(Append(q, c)) = c
<1> DEFINE z == Append(q, c)
<1>1. z = q \o <<c>>
  BY AppendIsConcat
<1>2. \A s \in Seq(S) : LET y == s \o <<c>> IN
         /\ y \in Seq(S) /\ y # <<>> /\ Len(y) = Len(s) + 1 /\ DOMAIN y = 1..(Len(s) + 1)
         /\ \A i \in 1..Len(s) : y[i] = s[i]
         /\ y[Len(s) + 1] = c /\ Last(y) = c /\ Range(y) = Range(s) \cup {c}
  BY OneMore
<1> HIDE DEF z
<1>3. /\ z \in Seq(S) /\ z # <<>> /\ Len(z) = Len(q) + 1 /\ DOMAIN z = 1..(Len(q) + 1)
      /\ \A i \in 1..Len(q) : z[i] = q[i]
      /\ z[Len(q) + 1] = c /\ Last(z) = c /\ Range(z) = Range(q) \cup {c}
  BY <1>1, <1>2, Zenon
<1>4. Len(q) \in Nat /\ DOMAIN q = 1..Len(q) /\ Range(q) = {q[i] : i \in 1..Len(q)}
  BY LenProperties, RangeEquality
<1>5. \A a, b : Before(z, a, b) => Before(q, a, b) \/ (a \in Range(q) /\ b = c)
  <2> TAKE a, b
  <2> HAVE Before(z, a, b)
  <2>1. PICK i \in 1..(Len(q) + 1), j \in 1..(Len(q) + 1) : i < j /\ z[i] = a /\ z[j] = b
    BY <1>3 DEF Before
  <2>2. i \in 1..Len(q)
    BY <1>4, <2>1
  <2>3. CASE j \in 1..Len(q)
    BY <1>3, <1>4, <2>1, <2>2, <2>3 DEF Before
  <2>4. CASE j = Len(q) + 1
    BY <1>3, <1>4, <2>1, <2>2, <2>4
  <2> QED BY <1>4, <2>1, <2>3, <2>4
<1>6. \A a, b : Before(q, a, b) => a \in Range(q) /\ b \in Range(q)
  BY <1>4 DEF Before
<1> QED BY <1>3, <1>5, <1>6 DEF z

(* What a command of the client is sent on, and what it means.             *)
Result ==
  /\ cl'.res = "ok" => \/ cl.pc = "quit_system" /\ job.op = "rollback"
                       \/ cl.pc \in Saving /\ Has(cl.buf, {Success})
  /\ cl'.res = "read" => LastPage("display") /\ cl'.full = Output
Entered ==
  /\ cl.pc = "acl" => NamesTheAcl(cl.buf) /\ ~ Failed(cl.buf)
  /\ cl.pc = "this" => Has(cl.buf, {Tok("acl N")})
  /\ cl'.aclPrompt = TrailingPrompt(cl.buf)
Opens(c, to) ==
  \/ cl.pc \in {"greeting", "password"} /\ c \in {"user", "password"} /\ to \in {"password", "login"}
  \/ /\ cl.pc = "login" /\ job.op = "snapshot"
     /\ c = "screen-length disable" /\ to = "paging_off"
  \/ cl.pc = "login" /\ job.op # "snapshot" /\ c = "system-view" /\ to = "system"
  \/ cl.pc = "system" /\ c = "acl advanced" /\ to = "acl"
  \/ cl.pc = "acl" /\ c = "display this" /\ to = "this"
Enters(c, to) ==
  /\ cl.pc \in {"acl", "this"} /\ Matched /\ Entered
  /\ \/ job.op # "rollback" /\ c = "display acl" /\ to = "guard"
     \/ job.op = "rollback" /\ c = "undo" /\ to = "undo"
Edited(c, to) ==
  \/ /\ LastPage("guard") /\ GuardHolds(Output)
     /\ \/ job.op = "remove" /\ c = "undo" /\ to = "undo"
        \/ job.op # "remove" /\ c = "rule" /\ to = "rule"
  \/ cl.pc = "rule" /\ Matched /\ Done /\ job.comment /\ c = "comment" /\ to = "comment"
  \/ cl.pc = "comment" /\ c = "undo" /\ to = "undo_comment"
Leaves(c, to) ==
  \/ /\ cl.pc \in {"rule", "comment", "undo"} /\ Matched /\ Done
     /\ cl.pc = "rule" => ~ job.comment
     /\ c = "quit" /\ to = "quit_acl"
  \/ cl.pc = "quit_acl" /\ c = "quit" /\ to = "quit_system"
  \/ cl.pc = "quit_system" /\ job.op # "rollback" /\ c = "save force" /\ to = "save"
  \/ cl.pc = "save" /\ c = "Y" /\ to = "confirm"

Moves(c, to) ==
  \/ Opens(c, to) /\ Matched
  \/ cl.pc = "paging_off" /\ c = "display acl" /\ to = "display"
  \/ Enters(c, to)
  \/ Edited(c, to)
  \/ Leaves(c, to)
  \/ c = "quit" /\ to = "done"
Sends(c, to) ==
  /\ UNCHANGED Others /\ toDevice' = Append(toDevice, c) /\ c \in Commands
  /\ cl.pc # "done" /\ cl'.pc = to /\ cl'.buf = <<>> /\ cl' \in Clients
  /\ Moves(c, to)
  /\ to # "done" => cl'.res = cl.res
  /\ to \in Early \cup Displays => cl'.full \in {<<>>, cl.full}
  /\ cl'.aclPrompt = cl.aclPrompt \/ Enters(c, to)
  /\ to = "done" => Result

(* Whatever the client does, it reads a piece, asks for the next page or   *)
(* sends one command.                                                      *)
LEMMA ClientSends ==
  ASSUME TypeInv, Client
  PROVE  Receive \/ NextPage \/ \E c, to : Sends(c, to)
<1>1. /\ cl \in Clients /\ <<>> \in Seq(Token)
      /\ Output \in Seq(Token)
      /\ TrailingPrompt(cl.buf) \in Prompts \cup {NoPrompt}
  BY Texts DEF TypeInv, Clients, TrailingPrompt
<1> DEFINE Ending == {"failed", "ok", "undone", "undo_failed"}
<1>2. ASSUME NEW c \in Commands, NEW to \in PreQuit \cup Leaving \cup Saving,
             Ask(c, to), UNCHANGED Others, cl.pc # "done",
             \/ Opens(c, to) /\ Matched
             \/ cl.pc = "paging_off" /\ c = "display acl" /\ to = "display"
             \/ Edited(c, to) \/ Leaves(c, to)
      PROVE  Sends(c, to)
  <2>1. /\ cl' = [cl EXCEPT !.pc = to, !.buf = <<>>, !.full = <<>>]
        /\ toDevice' = Append(toDevice, c)
    BY <1>2 DEF Ask
  <2>2. /\ cl' \in Clients /\ cl'.pc = to /\ cl'.buf = <<>> /\ cl'.full = <<>>
        /\ cl'.res = cl.res /\ cl'.aclPrompt = cl.aclPrompt
    BY <1>1, <2>1 DEF Clients
  <2>3. to # "done"
    BY DEF PreQuit, Leaving, Saving, Early, Displays, Writing
  <2> QED BY <1>2, <2>1, <2>2, <2>3 DEF Sends, Moves
<1>3. ASSUME NEW r \in Ending, Finish(r), UNCHANGED Others, cl.pc # "done",
             r = "ok" => \/ cl.pc = "quit_system" /\ job.op = "rollback"
                         \/ cl.pc \in Saving /\ Has(cl.buf, {Success})
      PROVE  \E c, to : Sends(c, to)
  <2>1. cl' = [cl EXCEPT !.pc = "done", !.res = r, !.buf = <<>>] /\ toDevice' = Append(toDevice, "quit")
    BY <1>3 DEF Finish
  <2>2. /\ cl' \in Clients /\ cl'.pc = "done" /\ cl'.buf = <<>> /\ cl'.full = cl.full
        /\ cl'.res = r /\ cl'.aclPrompt = cl.aclPrompt
    BY <1>1, <2>1 DEF Clients
  <2>3. "quit" \in Commands
    BY DEF Commands
  <2>4. Sends("quit", "done")
    BY <1>3, <2>1, <2>2, <2>3 DEF Sends, Moves, Result
  <2> QED BY <2>4
<1>4. Fail /\ UNCHANGED Others /\ cl.pc # "done" => \E c, to : Sends(c, to)
  BY <1>3 DEF Fail
<1>5. ASSUME Settled, UNCHANGED Others, cl.pc \in {"acl", "this"}, Matched,
             cl.pc = "acl" => NamesTheAcl(cl.buf) /\ ~ Failed(cl.buf),
             cl.pc = "this" => Has(cl.buf, {Tok("acl N")})
      PROVE  \E c, to : Sends(c, to)
  <2> DEFINE c == IF job.op = "rollback" THEN "undo" ELSE "display acl"
             to == IF job.op = "rollback" THEN "undo" ELSE "guard"
  <2>1. /\ cl' = [cl EXCEPT !.aclPrompt = TrailingPrompt(cl.buf), !.pc = to, !.buf = <<>>]
        /\ toDevice' = Append(toDevice, c)
    BY <1>5 DEF Settled
  <2>2. c \in Commands /\ to \in PreQuit /\ to # "done"
    BY DEF Commands, PreQuit, Displays, Writing
  <2>3. \/ job.op # "rollback" /\ c = "display acl" /\ to = "guard"
        \/ job.op = "rollback" /\ c = "undo" /\ to = "undo"
    OBVIOUS
  <2> HIDE DEF c, to
  <2>4. /\ cl' \in Clients /\ cl'.pc = to /\ cl'.buf = <<>> /\ cl'.full = cl.full
        /\ cl'.res = cl.res /\ cl'.aclPrompt = TrailingPrompt(cl.buf)
    BY <1>1, <2>1, <2>2 DEF Clients
  <2>5. Enters(c, to)
    BY <1>5, <2>3, <2>4 DEF Enters, Entered
  <2>6. Sends(c, to)
    BY <1>5, <2>1, <2>2, <2>4, <2>5 DEF Sends, Moves
  <2> QED BY <2>6
<1>6. \A pc : Answered(pc) => cl.pc = pc /\ Matched /\ UNCHANGED Others
  BY DEF Answered
<1>7. /\ {"user", "password", "screen-length disable", "system-view", "acl advanced", "quit",
          "display this", "display acl", "rule", "comment", "undo", "save force", "Y"} \subseteq Commands
      /\ {"password", "login", "paging_off", "system", "acl", "this", "display", "rule", "comment",
          "undo", "undo_comment", "quit_acl", "quit_system", "save", "confirm"}
            \subseteq PreQuit \cup Leaving \cup Saving
  BY DEF Commands, PreQuit, Early, Displays, Writing, Leaving, Saving
<1>8. CASE Greeted \/ SendPassword
  <2>1. /\ Answered("greeting") \/ Answered("password")
        /\ Fail \/ Ask("password", "login") \/ Ask("user", "password")
    BY <1>8 DEF Greeted, SendPassword
  <2>2. CASE Fail
    BY <1>4, <1>6, <2>1, <2>2
  <2>3. CASE Ask("password", "login")
    <3>1. Opens("password", "login") /\ Matched /\ UNCHANGED Others /\ cl.pc # "done"
      BY <1>6, <2>1 DEF Opens
    <3>2. Sends("password", "login")
      BY <1>2, <1>7, <2>3, <3>1
    <3> QED BY <3>2
  <2>4. CASE Ask("user", "password")
    <3>1. Opens("user", "password") /\ Matched /\ UNCHANGED Others /\ cl.pc # "done"
      BY <1>6, <2>1 DEF Opens
    <3>2. Sends("user", "password")
      BY <1>2, <1>7, <2>4, <3>1
    <3> QED BY <3>2
  <2> QED BY <2>1, <2>2, <2>3, <2>4
<1>9. CASE LoggedIn
  <2>1. cl.pc = "login" /\ Matched /\ UNCHANGED Others /\ cl.pc # "done"
    <3>1. Answered("login")
      BY <1>9 DEF LoggedIn
    <3> QED BY <1>6, <3>1
  <2>2. CASE Fail
    BY <1>4, <2>1, <2>2
  <2>3. CASE job.op = "snapshot" /\ Ask("screen-length disable", "paging_off")
    <3>1. Opens("screen-length disable", "paging_off")
      BY <2>1, <2>3 DEF Opens
    <3>2. Sends("screen-length disable", "paging_off")
      BY <1>2, <1>7, <2>1, <2>3, <3>1
    <3> QED BY <3>2
  <2>4. CASE job.op # "snapshot" /\ Ask("system-view", "system")
    <3>1. Opens("system-view", "system")
      BY <2>1, <2>4 DEF Opens
    <3>2. Sends("system-view", "system")
      BY <1>2, <1>7, <2>1, <2>4, <3>1
    <3> QED BY <3>2
  <2> QED BY <1>9, <2>2, <2>3, <2>4 DEF LoggedIn
<1>10. CASE DisplayACL
  <2>1. cl.pc = "paging_off" /\ UNCHANGED Others /\ Ask("display acl", "display")
    BY <1>6, <1>10 DEF DisplayACL
  <2>2. Sends("display acl", "display")
    BY <1>2, <1>7, <2>1
  <2> QED BY <2>2
<1>11. CASE Snapshot
  <2>1. LastPage("display") /\ cl.pc = "display" /\ UNCHANGED Others
    BY <1>6, <1>11 DEF Snapshot, LastPage
  <2>2. CASE Fail
    BY <1>4, <2>1, <2>2
  <2>3. CASE /\ cl' = [cl EXCEPT !.pc = "done", !.res = "read", !.full = Output, !.buf = <<>>]
             /\ toDevice' = Append(toDevice, "quit")
    <3>1. /\ cl' \in Clients /\ cl'.pc = "done" /\ cl'.buf = <<>> /\ cl'.full = Output
          /\ cl'.res = "read" /\ cl'.aclPrompt = cl.aclPrompt
      BY <1>1, <2>3 DEF Clients
    <3>2. "done" \notin Early \cup Displays
      BY DEF Early, Displays
    <3>3. Sends("quit", "done")
      BY <1>7, <2>1, <2>3, <3>1, <3>2 DEF Sends, Moves, Result
    <3> QED BY <3>3
  <2> QED BY <1>11, <2>2, <2>3 DEF Snapshot
<1>12. CASE EnterACLView
  <2>1. cl.pc = "system" /\ Matched /\ UNCHANGED Others
    BY <1>6, <1>12 DEF EnterACLView
  <2>2. CASE Fail
    BY <1>4, <2>1, <2>2
  <2>3. CASE Ask("acl advanced", "acl")
    <3>1. Opens("acl advanced", "acl")
      BY <2>1 DEF Opens
    <3>2. Sends("acl advanced", "acl")
      BY <1>2, <1>7, <2>1, <2>3, <3>1
    <3> QED BY <3>2
  <2> QED BY <1>12, <2>2, <2>3 DEF EnterACLView
<1>13. CASE CheckPrompt
  <2>1. cl.pc = "acl" /\ Matched /\ UNCHANGED Others
    BY <1>6, <1>13 DEF CheckPrompt
  <2>2. CASE Fail
    BY <1>4, <2>1, <2>2
  <2>3. CASE NamesTheAcl(cl.buf) /\ ~ Failed(cl.buf) /\ Settled
    BY <1>5, <2>1, <2>3
  <2>4. CASE Ask("display this", "this")
    <3>1. Opens("display this", "this")
      BY <2>1 DEF Opens
    <3>2. Sends("display this", "this")
      BY <1>2, <1>7, <2>1, <2>4, <3>1
    <3> QED BY <3>2
  <2> QED BY <1>13, <2>2, <2>3, <2>4 DEF CheckPrompt
<1>14. CASE CheckView
  <2>1. cl.pc = "this" /\ Matched /\ UNCHANGED Others
    BY <1>6, <1>14 DEF CheckView
  <2>2. CASE Fail
    BY <1>4, <2>1, <2>2
  <2>3. CASE Has(cl.buf, {Tok("acl N")}) /\ Settled
    BY <1>5, <2>1, <2>3
  <2> QED BY <1>14, <2>2, <2>3 DEF CheckView
<1>15. CASE Guard
  <2>1. LastPage("guard") /\ cl.pc = "guard" /\ UNCHANGED Others
    BY <1>6, <1>15 DEF Guard, LastPage
  <2>2. CASE Fail
    BY <1>4, <2>1, <2>2
  <2>3. CASE GuardHolds(Output) /\ job.op = "remove" /\ Ask("undo", "undo")
    <3>1. Edited("undo", "undo")
      BY <2>1, <2>3 DEF Edited
    <3>2. Sends("undo", "undo")
      BY <1>2, <1>7, <2>1, <2>3, <3>1
    <3> QED BY <3>2
  <2>4. CASE GuardHolds(Output) /\ job.op # "remove" /\ Ask("rule", "rule")
    <3>1. Edited("rule", "rule")
      BY <2>1, <2>4 DEF Edited
    <3>2. Sends("rule", "rule")
      BY <1>2, <1>7, <2>1, <2>4, <3>1
    <3> QED BY <3>2
  <2> QED BY <1>15, <2>2, <2>3, <2>4 DEF Guard
<1>16. ASSUME cl.pc \in {"rule", "comment", "undo"}, Matched, Done, UNCHANGED Others,
              cl.pc = "rule" => ~ job.comment, Ask("quit", "quit_acl")
       PROVE  \E c, to : Sends(c, to)
  <2>1. Leaves("quit", "quit_acl") /\ cl.pc # "done"
    BY <1>16 DEF Leaves
  <2>2. Sends("quit", "quit_acl")
    BY <1>2, <1>7, <1>16, <2>1
  <2> QED BY <2>2
<1>17. CASE ExecRule
  <2>1. cl.pc = "rule" /\ Matched /\ UNCHANGED Others
    BY <1>6, <1>17 DEF ExecRule
  <2>2. CASE Fail
    BY <1>4, <2>1, <2>2
  <2>3. CASE Done /\ job.comment /\ Ask("comment", "comment")
    <3>1. Edited("comment", "comment")
      BY <2>1, <2>3 DEF Edited
    <3>2. Sends("comment", "comment")
      BY <1>2, <1>7, <2>1, <2>3, <3>1
    <3> QED BY <3>2
  <2>4. CASE Done /\ ~ job.comment /\ Ask("quit", "quit_acl")
    BY <1>16, <2>1, <2>4
  <2> QED BY <1>17, <2>2, <2>3, <2>4 DEF ExecRule
<1>18. CASE ExecComment \/ (cl.pc = "comment" /\ Ask("undo", "undo_comment") /\ UNCHANGED Others)
  <2>1. cl.pc = "comment" /\ UNCHANGED Others
    BY <1>6, <1>18 DEF ExecComment
  <2>2. CASE Ask("undo", "undo_comment")
    <3>1. Edited("undo", "undo_comment")
      BY <2>1 DEF Edited
    <3>2. Sends("undo", "undo_comment")
      BY <1>2, <1>7, <2>1, <2>2, <3>1
    <3> QED BY <3>2
  <2>3. CASE ExecComment /\ Done /\ Ask("quit", "quit_acl")
    <3>1. Matched
      BY <1>6, <2>3 DEF ExecComment
    <3> QED BY <1>16, <2>1, <2>3, <3>1
  <2> QED BY <1>18, <2>2, <2>3 DEF ExecComment
<1>19. CASE UndoAfterComment
  <2>1. cl.pc = "undo_comment" /\ UNCHANGED Others
    BY <1>6, <1>19 DEF UndoAfterComment
  <2>2. Finish("undone") \/ Finish("undo_failed")
    BY <1>19 DEF UndoAfterComment
  <2> QED BY <1>3, <2>1, <2>2
<1>20. CASE ExecUndo
  <2>1. cl.pc = "undo" /\ Matched /\ UNCHANGED Others
    BY <1>6, <1>20 DEF ExecUndo
  <2>2. CASE Fail
    BY <1>4, <2>1, <2>2
  <2>3. CASE Done /\ Ask("quit", "quit_acl")
    BY <1>16, <2>1, <2>3
  <2> QED BY <1>20, <2>2, <2>3 DEF ExecUndo
<1>21. CASE QuitACLView
  <2>1. cl.pc = "quit_acl" /\ UNCHANGED Others
    BY <1>6, <1>21 DEF QuitACLView
  <2>2. CASE Fail
    BY <1>4, <2>1, <2>2
  <2>3. CASE Ask("quit", "quit_system")
    <3>1. Leaves("quit", "quit_system")
      BY <2>1 DEF Leaves
    <3>2. Sends("quit", "quit_system")
      BY <1>2, <1>7, <2>1, <2>3, <3>1
    <3> QED BY <3>2
  <2> QED BY <1>21, <2>2, <2>3 DEF QuitACLView
<1>22. CASE QuitSysView
  <2>1. cl.pc = "quit_system" /\ UNCHANGED Others
    BY <1>6, <1>22 DEF QuitSysView
  <2>2. CASE Fail
    BY <1>4, <2>1, <2>2
  <2>3. CASE job.op = "rollback" /\ Finish("ok")
    BY <1>3, <2>1, <2>3
  <2>4. CASE job.op # "rollback" /\ Ask("save force", "save")
    <3>1. Leaves("save force", "save")
      BY <2>1, <2>4 DEF Leaves
    <3>2. Sends("save force", "save")
      BY <1>2, <1>7, <2>1, <2>4, <3>1
    <3> QED BY <3>2
  <2> QED BY <1>22, <2>2, <2>3, <2>4 DEF QuitSysView
<1>23. CASE Save \/ Confirm
  <2>1. cl.pc \in Saving /\ UNCHANGED Others
    BY <1>6, <1>23 DEF Save, Confirm, Saving
  <2>2. cl.pc # "done"
    BY <2>1 DEF Saving
  <2>3. CASE Fail
    BY <1>4, <2>1, <2>2, <2>3
  <2>4. CASE Has(cl.buf, {Success}) /\ Finish("ok")
    BY <1>3, <2>1, <2>2, <2>4
  <2>5. CASE cl.pc = "save" /\ Ask("Y", "confirm")
    <3>1. Leaves("Y", "confirm")
      BY <2>5 DEF Leaves
    <3>2. Sends("Y", "confirm")
      BY <1>2, <1>7, <2>1, <2>2, <2>5, <3>1
    <3> QED BY <3>2
  <2> QED BY <1>6, <1>23, <2>3, <2>4, <2>5 DEF Save, Confirm
<1>24. CASE Timeout
  <2>1. cl.pc # "done" /\ UNCHANGED Others
    BY <1>24 DEF Timeout
  <2>2. CASE Fail
    BY <1>4, <2>1, <2>2
  <2>3. CASE cl.pc = "paging_off" /\ Ask("display acl", "display")
    <3>1. Sends("display acl", "display")
      BY <1>2, <1>7, <2>1, <2>3
    <3> QED BY <3>1
  <2>4. CASE cl.pc = "comment" /\ Ask("undo", "undo_comment")
    BY <1>18, <2>1, <2>4
  <2>5. CASE Finish("undo_failed")
    BY <1>3, <2>1, <2>5
  <2>6. CASE cl.pc = "quit_system" /\ job.op = "rollback" /\ Finish("ok")
    BY <1>3, <2>1, <2>6
  <2> QED BY <1>24, <2>2, <2>3, <2>4, <2>5, <2>6 DEF Timeout
<1> QED
  BY <1>8, <1>9, <1>10, <1>11, <1>12, <1>13, <1>14, <1>15, <1>17, <1>18, <1>19, <1>20, <1>21,
     <1>22, <1>23, <1>24 DEF Client

(* A piece of text arrives, and what is read and to come is as before.     *)
Reads ==
  /\ UNCHANGED <<job, style, ruleVars, dev, toDevice>> /\ cl.pc # "done"
  /\ cl' \in Clients /\ toClient' \in Seq(Token)
  /\ cl'.pc = cl.pc /\ cl'.full = cl.full /\ cl'.aclPrompt = cl.aclPrompt /\ cl'.res = cl.res
  /\ In' = In /\ All' = All

(* readUntil takes a piece and loses none.                                 *)
LEMMA ReceiveReads ==
  ASSUME TypeInv, Receive
  PROVE  Reads
<1>1. PICK k \in 1..Len(toClient) :
        /\ cl' = [cl EXCEPT !.buf = @ \o SubSeq(toClient, 1, k)]
        /\ toClient' = SubSeq(toClient, k + 1, Len(toClient))
  BY DEF Receive
<1>2. cl.pc # "done" /\ UNCHANGED <<job, style, ruleVars, dev, toDevice>>
  BY DEF Receive
<1>3. cl \in Clients /\ cl.buf \in Seq(Token) /\ toClient \in Seq(Token)
  BY Texts DEF TypeInv
<1> DEFINE b == cl.buf \o SubSeq(toClient, 1, k)
           r == SubSeq(toClient, k + 1, Len(toClient))
<1>4. b \in Seq(Token) /\ r \in Seq(Token) /\ b \o r = In
  <2>1. ReadOff(Token, cl.buf, toClient, k)
    BY <1>3, ReadConcat
  <2> QED BY <2>1 DEF In, ReadOff
<1>5. cl' = [cl EXCEPT !.buf = b] /\ toClient' = r
  BY <1>1
<1> HIDE DEF b, r
<1>6. /\ cl' \in Clients /\ cl'.buf = b
      /\ cl'.pc = cl.pc /\ cl'.full = cl.full /\ cl'.aclPrompt = cl.aclPrompt /\ cl'.res = cl.res
  BY <1>3, <1>4, <1>5 DEF Clients
<1>7. In' = In
  BY <1>4, <1>5, <1>6 DEF In
<1>8. All' = All
  BY <1>6, <1>7 DEF All
<1> QED BY <1>2, <1>4, <1>5, <1>6, <1>7, <1>8 DEF Reads

(* The client sets a page aside and asks for the next.                     *)
Pages ==
  /\ UNCHANGED Others /\ toDevice' = Append(toDevice, " ")
  /\ cl.pc \in Displays /\ Tok("More") \in Range(cl.buf)
  /\ cl' \in Clients /\ cl'.pc = cl.pc /\ cl'.aclPrompt = cl.aclPrompt /\ cl'.res = cl.res
  /\ cl'.buf = <<>> /\ cl'.full = Output
  /\ In' = toClient /\ All' = All

(* Nor does the key for the next page.                                     *)
LEMMA NextPagePages ==
  ASSUME TypeInv, NextPage
  PROVE  Pages
<1>1. /\ UNCHANGED Others /\ cl.pc \in Displays /\ Has(cl.buf, {Tok("More")})
      /\ cl' = [cl EXCEPT !.full = @ \o cl.buf, !.buf = <<>>]
      /\ toDevice' = Append(toDevice, " ")
  BY DEF NextPage, Answered
<1>2. cl' = [cl EXCEPT !.full = Output, !.buf = <<>>]
  BY <1>1 DEF Output
<1>3. cl \in Clients /\ Output \in Seq(Token) /\ toClient \in Seq(Token) /\ All = Output \o toClient
  BY Texts DEF TypeInv
<1>4. <<>> \in Seq(Token)
  OBVIOUS
<1>5. /\ cl' \in Clients /\ cl'.buf = <<>> /\ cl'.full = Output
      /\ cl'.pc = cl.pc /\ cl'.aclPrompt = cl.aclPrompt /\ cl'.res = cl.res
  BY <1>2, <1>3, <1>4 DEF Clients
<1>6. toClient' = toClient
  BY <1>1 DEF Others
<1>7. In' = toClient
  BY <1>3, <1>5, <1>6, ConcatEmptySeq DEF In
<1>8. All' = All
  BY <1>3, <1>5, <1>7 DEF All
<1>9. Tok("More") \in Range(cl.buf)
  BY <1>1, HasRange
<1> QED BY <1>1, <1>5, <1>7, <1>8, <1>9 DEF Pages

(* The switch falls silent, or what it has not read is lost.               *)
Quiet ==
  /\ UNCHANGED <<job, style, ruleVars, toClient, cl>>
  /\ dev' \in Devs /\ dev'.view = dev.view /\ dev'.page = dev.page
  /\ toDevice' = toDevice \/ (cl.pc = "done" /\ toDevice' = <<>>)

(* Every step is one of these five.                                        *)
LEMMA Steps ==
  ASSUME TypeInv, [Next]_vars
  PROVE  \/ \E c, text : Says(c, text)
         \/ \E c, to : Sends(c, to)
         \/ Reads \/ Pages \/ Quiet
<1>1. CASE Device
  BY <1>1, DeviceSays
<1>2. CASE Client
  BY <1>2, ClientSends, ReceiveReads, NextPagePages
<1>3. CASE Hang
  <2>1. dev' = [dev EXCEPT !.alive = FALSE] /\ dev \in Devs
    BY <1>3 DEF Hang, TypeInv
  <2>2. dev' \in Devs /\ dev'.view = dev.view /\ dev'.page = dev.page
    BY <2>1 DEF Devs
  <2> QED BY <1>3, <2>2 DEF Hang, Quiet
<1>4. CASE Discard
  BY <1>4 DEF Discard, Quiet, TypeInv
<1>5. CASE UNCHANGED vars
  BY <1>5 DEF vars, Quiet, TypeInv
<1> QED BY <1>1, <1>2, <1>3, <1>4, <1>5 DEF Next

(* Has a command been sent?                                                *)
LEMMA SentRange ==
  /\ \A c : Sent(c) <=> c \in Range(toDevice)
  /\ \A c : Sent(c)' <=> c \in Range(toDevice')
BY HasRange DEF Sent

(* The switch has taken the first command, and what is left was behind it. *)
LEMMA AfterSaying ==
  ASSUME TypeInv, NEW c, NEW text, Says(c, text)
  PROVE  /\ c \in Commands /\ Sent(c) /\ toDevice' \in Seq(Commands)
         /\ \A d : Sent(d)' => Sent(d) /\ Before(toDevice, c, d)
         /\ \A a, b : Before(toDevice', a, b) => Before(toDevice, a, b)
<1>1. /\ toDevice \in Seq(Commands) /\ toDevice # <<>> /\ c = Head(toDevice)
      /\ toDevice' = Tail(toDevice)
  BY DEF Says, TypeInv
<1>2. /\ Tail(toDevice) \in Seq(Commands) /\ Head(toDevice) \in Commands
      /\ Range(toDevice) = {Head(toDevice)} \cup Range(Tail(toDevice))
      /\ \A a, b : Before(Tail(toDevice), a, b) => Before(toDevice, a, b)
      /\ \A b \in Range(Tail(toDevice)) : Before(toDevice, Head(toDevice), b)
  BY <1>1, QueueRead
<1> QED BY <1>1, <1>2, SentRange

(* The client has added a command behind the others.                       *)
LEMMA AfterSending ==
  ASSUME TypeInv, NEW c \in Commands, toDevice' = Append(toDevice, c)
  PROVE  /\ toDevice' \in Seq(Commands) /\ toDevice' # <<>> /\ Last(toDevice') = c
         /\ \A d : Sent(d)' <=> Sent(d) \/ d = c
         /\ \A a, b : Before(toDevice', a, b) => Before(toDevice, a, b) \/ (Sent(a) /\ b = c)
         /\ \A a, b : Before(toDevice, a, b) => Sent(a) /\ Sent(b)
<1>1. toDevice \in Seq(Commands)
  BY DEF TypeInv
<1>2. /\ Append(toDevice, c) \in Seq(Commands) /\ Append(toDevice, c) # <<>>
      /\ Range(Append(toDevice, c)) = Range(toDevice) \cup {c}
      /\ \A a, b : Before(Append(toDevice, c), a, b) =>
                     Before(toDevice, a, b) \/ (a \in Range(toDevice) /\ b = c)
      /\ \A a, b : Before(toDevice, a, b) => a \in Range(toDevice) /\ b \in Range(toDevice)
      /\ Last(Append(toDevice, c)) = c
  BY <1>1, QueueSend
<1> QED BY <1>2, SentRange

(* What the client has answered is no longer of interest.                  *)
LEMMA Answering ==
  ASSUME TypeInv, NEW c, NEW to, Sends(c, to)
  PROVE  /\ UNCHANGED <<job, style, held, stored, marked, dev, toClient>>
         /\ In' = toClient /\ Range(In') \subseteq Range(In)
         /\ Range(All') \subseteq Range(cl'.full) \cup Range(toClient)
<1>1. UNCHANGED <<job, style, held, stored, marked, dev, toClient>>
  BY DEF Sends, Others, ruleVars
<1>2. toClient \in Seq(Token) /\ Range(In) = Range(cl.buf) \cup Range(toClient)
  BY Texts
<1>3. cl'.buf = <<>> /\ cl'.full \in Seq(Token)
  BY DEF Sends, Clients
<1>4. In' = toClient
  BY <1>1, <1>2, <1>3, ConcatEmptySeq DEF In
<1>5. All' = cl'.full \o toClient
  BY <1>4 DEF All
<1>6. Range(All') = Range(cl'.full) \cup Range(toClient)
  BY <1>2, <1>3, <1>5, RangeConcatenation
<1> QED BY <1>1, <1>2, <1>4, <1>6

(* The types are kept.                                                     *)
LEMMA TypeNext ==
  ASSUME TypeInv, [Next]_vars
  PROVE  TypeInv'
<1>1. CASE \E c, text : Says(c, text)
  <2>1. PICK c, text : Says(c, text)
    BY <1>1
  <2>2. toDevice' \in Seq(Commands) /\ toClient' \in Seq(Token) /\ cl' = cl
    BY <2>1, AfterSaying, Grown
  <2>3. held' \in SUBSET RuleIds /\ dev' \in Devs /\ job' = job /\ style' = style
    BY <2>1 DEF Says, Acts
  <2> QED BY <2>2, <2>3 DEF TypeInv
<1>2. CASE \E c, to : Sends(c, to)
  <2>1. PICK c, to : Sends(c, to)
    BY <1>2
  <2>2. toDevice' \in Seq(Commands) /\ cl' \in Clients
    BY <2>1, AfterSending DEF Sends
  <2>3. UNCHANGED <<job, style, held, dev, toClient>>
    BY <2>1, Answering
  <2> QED BY <2>2, <2>3 DEF TypeInv
<1>3. CASE Reads
  BY <1>3 DEF Reads, TypeInv, ruleVars
<1>4. CASE Pages
  <2>1. " " \in Commands
    BY DEF Commands
  <2>2. toDevice' \in Seq(Commands) /\ cl' \in Clients
    BY <1>4, <2>1, AfterSending DEF Pages
  <2> QED BY <1>4, <2>2 DEF Pages, Others, ruleVars, TypeInv
<1>5. CASE Quiet
  BY <1>5, EmptySeq DEF Quiet, ruleVars, TypeInv
<1> QED BY <1>1, <1>2, <1>3, <1>4, <1>5, Steps

-----------------------------------------------------------------------------
(* Every part of the invariant is kept.                                    *)

(* The client waits only for the answers its job calls for.                *)
LEMMA JobNext ==
  ASSUME TypeInv, JobInv, [Next]_vars
  PROVE  JobInv'
<1>0. job.op \in {"snapshot", "apply", "remove", "rollback"}
  BY SessionAssumption DEF TypeInv
<1>1. CASE \E c, text : Says(c, text)
  BY <1>1 DEF Says, JobInv
<1>2. CASE \E c, to : Sends(c, to)
  <2>1. PICK c, to : Sends(c, to)
    BY <1>2
  <2>2. job' = job /\ cl'.pc = to /\ (to # "done" => cl'.res = cl.res) /\ cl.pc # "done" /\ Moves(c, to)
    BY <2>1 DEF Sends, Others
  <2>3. CASE Opens(c, to)
    <3>1. to \in {"password", "login", "paging_off", "system", "acl", "this"}
          /\ (to = "paging_off" => job.op = "snapshot")
          /\ (to \in {"system", "acl", "this"} => job.op # "snapshot")
      BY <2>3 DEF Opens, JobInv
    <3> QED BY <2>2, <3>1 DEF JobInv, Leaving, Saving
  <2>4. CASE cl.pc = "paging_off" /\ c = "display acl" /\ to = "display"
    BY <2>2, <2>4 DEF JobInv, Leaving, Saving
  <2>5. CASE Enters(c, to)
    BY <1>0, <2>2, <2>5 DEF JobInv, Leaving, Saving, Enters
  <2>6. CASE Edited(c, to)
    BY <1>0, <2>2, <2>6 DEF JobInv, Leaving, Saving, Edited, LastPage, Answered
  <2>7. CASE Leaves(c, to)
    BY <1>0, <2>2, <2>7 DEF JobInv, Leaving, Saving, Leaves
  <2>8. CASE to = "done"
    BY <2>2, <2>8 DEF JobInv, Leaving, Saving
  <2> QED BY <2>2, <2>3, <2>4, <2>5, <2>6, <2>7, <2>8 DEF Moves
<1>3. CASE Reads
  BY <1>3 DEF Reads, JobInv
<1>4. CASE Pages
  BY <1>4 DEF Pages, Others, JobInv
<1>5. CASE Quiet
  BY <1>5 DEF Quiet, JobInv
<1> QED BY <1>1, <1>2, <1>3, <1>4, <1>5, Steps

(* Where the client may go from where it is, and with what.                *)
LEMMA SendsFrom ==
  ASSUME TypeInv, JobInv, NEW c, NEW to, Sends(c, to)
  PROVE  /\ c = "quit" => cl.pc \notin Early \cup Displays \/ to = "done"
         /\ to \in PreQuit => cl.pc \in PreQuit /\ c # "quit"
         /\ to \in Early => cl.pc \in Early /\ c \notin {"display acl", " "} \cup Edits
         /\ to \in Displays => cl.pc \in Early /\ c = "display acl"
         /\ c \in Edits => cl.pc \in PreQuit /\ to \in Writing
         /\ c = "rule" => LastPage("guard") /\ GuardHolds(Output) /\ job.op # "remove"
         /\ c \in Edits /\ job.op = "remove" => LastPage("guard") /\ GuardHolds(Output) /\ c = "undo"
         /\ to \in {"guard"} \cup Writing =>
              cl.pc \in {"guard"} \cup Writing \/ Enters(c, to)
         /\ to \in Saving => cl.pc \in Leaving \cup Saving
         /\ to \in Leaving => cl.pc \in {"rule", "comment", "undo"} \cup Leaving
         /\ c \in {"save force", "Y"} => to \in Saving
         /\ c # " "
<1>1. cl.pc # "done" /\ Moves(c, to)
  BY DEF Sends
<1>2. CASE Opens(c, to)
  BY <1>2 DEF Opens, Early, Displays, Writing, PreQuit, Leaving, Saving, Edits
<1>3. CASE cl.pc = "paging_off" /\ c = "display acl" /\ to = "display"
  BY <1>3 DEF Early, Displays, Writing, PreQuit, Leaving, Saving, Edits
<1>4. CASE Enters(c, to)
  BY <1>4 DEF Enters, Early, Displays, Writing, PreQuit, Leaving, Saving, Edits
<1>5. CASE Edited(c, to)
  BY <1>5 DEF Edited, LastPage, Answered, JobInv, Early, Displays, Writing, PreQuit, Leaving, Saving,
              Edits
<1>6. CASE Leaves(c, to)
  BY <1>6 DEF Leaves, Early, Displays, Writing, PreQuit, Leaving, Saving, Edits
<1>7. CASE c = "quit" /\ to = "done"
  BY <1>7 DEF Early, Displays, Writing, PreQuit, Leaving, Saving, Edits
<1> QED BY <1>1, <1>2, <1>3, <1>4, <1>5, <1>6, <1>7 DEF Moves

(* Commands stay in the order the client sends them in.                    *)
LEMMA OrderNext ==
  ASSUME TypeInv, JobInv, OrderInv, [Next]_vars
  PROVE  OrderInv'
<1>1. CASE \E c, text : Says(c, text)
  <2>1. PICK c, text : Says(c, text)
    BY <1>1
  <2>2. job' = job /\ cl' = cl
    BY <2>1 DEF Says
  <2>3. /\ \A d : Sent(d)' => Sent(d)
        /\ \A a, b : Before(toDevice', a, b) => Before(toDevice, a, b)
    BY <2>1, AfterSaying
  <2> QED BY <2>2, <2>3 DEF OrderInv
<1>2. CASE \E c, to : Sends(c, to)
  <2>1. PICK c, to : Sends(c, to)
    BY <1>2
  <2>2. job' = job /\ cl'.pc = to /\ cl.pc # "done" /\ c \in Commands
    BY <2>1 DEF Sends, Others
  <2>3. /\ \A d : Sent(d)' <=> Sent(d) \/ d = c
        /\ \A a, b : Before(toDevice', a, b) => Before(toDevice, a, b) \/ (Sent(a) /\ b = c)
    BY <2>1, AfterSending DEF Sends
  <2>4. /\ to \in PreQuit => cl.pc \in PreQuit /\ c # "quit"
        /\ to \in Early \cup Displays => cl.pc \in Early \cup Displays /\ c \notin Edits
        /\ c \in Edits => cl.pc \in PreQuit
        /\ c = "rule" \/ (c \in Edits /\ job.op = "remove") => cl.pc = "guard"
    BY <2>1, SendsFrom DEF LastPage, Answered, Edits
  <2>5. (cl.pc \in PreQuit => ~ Sent("quit"))'
    BY <2>2, <2>3, <2>4 DEF OrderInv
  <2>6. (cl.pc \in Early \cup Displays => \A d \in Edits : ~ Sent(d))'
    BY <2>2, <2>3, <2>4 DEF OrderInv
  <2>7. ASSUME NEW a \in Commands, NEW b \in Commands, Before(toDevice', a, b)
        PROVE  /\ a = "quit" => b \notin Edits
               /\ a \in Edits => b # "rule" /\ (job.op = "remove" => b \notin Edits)
    <3>1. CASE Before(toDevice, a, b)
      BY <3>1 DEF OrderInv
    <3>2. CASE Sent(a) /\ b = c
      <4>1. "guard" \in Displays
        BY DEF Displays
      <4> QED BY <2>4, <3>2, <4>1 DEF OrderInv
    <3> QED BY <2>3, <2>7, <3>1, <3>2
  <2> QED BY <2>2, <2>5, <2>6, <2>7 DEF OrderInv
<1>3. CASE Reads
  BY <1>3 DEF Reads, OrderInv, Sent
<1>4. CASE Pages
  <2>1. " " \in Commands /\ " " \notin Edits /\ " " # "quit"
    BY DEF Commands, Edits
  <2>2. job' = job /\ cl'.pc = cl.pc
    BY <1>4 DEF Pages, Others
  <2>3. /\ \A d : Sent(d)' <=> Sent(d) \/ d = " "
        /\ \A a, b : Before(toDevice', a, b) => Before(toDevice, a, b) \/ (Sent(a) /\ b = " ")
    BY <1>4, <2>1, AfterSending DEF Pages
  <2> QED BY <2>1, <2>2, <2>3 DEF OrderInv, Edits
<1>5. CASE Quiet
  <2>1. job' = job /\ cl' = cl
    BY <1>5 DEF Quiet
  <2>2. CASE toDevice' = toDevice
    BY <2>1, <2>2 DEF OrderInv, Sent
  <2>3. CASE cl.pc = "done" /\ toDevice' = <<>>
    <3>1. \A d : ~ Sent(d)'
      BY <2>3, SentRange, ShortRange
    <3>2. \A a, b : ~ Before(toDevice', a, b)
      BY <2>3 DEF Before
    <3> QED BY <2>1, <3>1, <3>2 DEF OrderInv
  <2> QED BY <1>5, <2>2, <2>3 DEF Quiet
<1> QED BY <1>1, <1>2, <1>3, <1>4, <1>5, Steps

(* Until the edit goes out, nothing changes the rules.                     *)
LEMMA HeldStill ==
  ASSUME TypeInv, OrderInv, cl.pc \in Early \cup Displays, NEW c, NEW text, Says(c, text)
  PROVE  /\ c \notin Edits /\ c # "quit" /\ held' = held /\ marked' = marked
         /\ dev'.page = dev.page \/ c \in {"display acl", " "}
<1>1. Sent(c)
  BY AfterSaying
<1>2. c \notin Edits /\ c # "quit"
  BY <1>1 DEF OrderInv, PreQuit
<1> QED BY <1>2 DEF Says, Acts

(* What is read of the ACL stays true as long as no edit is sent.          *)
LEMMA TextNext ==
  ASSUME TypeInv, JobInv, OrderInv, TextInv, EarlyInv, [Next]_vars
  PROVE  TextInv'
<1>1. CASE \E c, text : Says(c, text)
  <2>1. PICK c, text : Says(c, text)
    BY <1>1
  <2> SUFFICES ASSUME cl'.pc \in Early \cup Displays
               PROVE  /\ \A x \in Range(All') : TrueLine(x)'
                      /\ \A x \in Range(dev'.page) : TrueLine(x)'
    BY DEF TextInv
  <2>2. cl' = cl /\ style' = style /\ toDevice # <<>>
    BY <2>1 DEF Says
  <2>3. /\ c \notin Edits /\ c # "quit" /\ held' = held
        /\ dev'.page = dev.page \/ c \in {"display acl", " "}
    BY <2>1, <2>2, HeldStill
  <2>4. \A x : TrueLine(x)' <=> TrueLine(x)
    BY <2>2, <2>3 DEF TrueLine, HeaderCount
  <2>5. \A x \in Range(All) \cup Range(dev.page) : TrueLine(x)
    BY <2>2 DEF TextInv
  <2>6. Range(All') = Range(All) \cup Range(text)
    BY <2>1, Grown
  <2>7. IsFiniteSet(held) /\ held \subseteq Nat
    BY SessionAssumption, FS_Subset DEF TypeInv
  <2>8. \A x \in Range(AclLines) : TrueLine(x)
    BY <2>7, AclLinesAre
  <2>9. \A x \in Range(text) : TrueLine(x)
    <3>1. CASE c # " "
      BY <2>1, <3>1 DEF Says, Answers, WordOk
    <3>2. CASE c = " "
      <4>1. /\ text \in Seq(Token) /\ text # <<>>
            /\ \A i \in DOMAIN text : i < Len(text) => text[i] \in Range(dev.page)
            /\ Last(text) = Tok("More") \/ Last(text) \in Prompts
        BY <2>1, <3>2 DEF Says, Answers, Shown
      <4>2. Range(text) = {text[i] : i \in 1..Len(text)} /\ DOMAIN text = 1..Len(text)
            /\ Len(text) \in Nat
        BY <4>1, RangeEquality, LenProperties
      <4>3. \A x \in Range(text) : x \in Range(dev.page) \/ x = Last(text)
        BY <4>1, <4>2, LastOrBefore DEF Last
      <4>4. TrueLine(Last(text))
        <5>1. Last(text).t \notin {"rule", "header"}
          BY <4>1, PromptTags, WordTags
        <5> QED BY <5>1 DEF TrueLine
      <4> QED BY <2>5, <4>3, <4>4
    <3> QED BY <3>1, <3>2
  <2>10. \A x \in Range(dev'.page) : TrueLine(x)
    <3>1. CASE c = "display acl"
      <4>1. Range(dev'.page) \subseteq Range(AclLines)
        BY <2>1, <3>1 DEF Says, Answers, Shown
      <4> QED BY <2>8, <4>1
    <3>2. CASE c = " "
      <4>1. Range(dev'.page) \subseteq Range(dev.page)
        BY <2>1, <3>2 DEF Says, Answers, Shown
      <4> QED BY <2>5, <4>1
    <3> QED BY <2>3, <2>5, <3>1, <3>2
  <2> QED BY <2>4, <2>5, <2>6, <2>9, <2>10
<1>2. CASE \E c, to : Sends(c, to)
  <2>1. PICK c, to : Sends(c, to)
    BY <1>2
  <2> SUFFICES ASSUME to \in Early \cup Displays
               PROVE  /\ \A x \in Range(All') : TrueLine(x)'
                      /\ \A x \in Range(dev'.page) : TrueLine(x)'
    BY <2>1 DEF TextInv, Sends
  <2>2. /\ UNCHANGED <<held, style, dev, toClient>>
        /\ Range(All') \subseteq Range(cl'.full) \cup Range(toClient)
    BY <2>1, Answering
  <2>3. cl'.full \in {<<>>, cl.full} /\ cl.pc \in Early
    BY <2>1, SendsFrom DEF Sends
  <2>4. Range(All') \subseteq Range(All)
    BY <2>2, <2>3, Texts, ShortRange
  <2>5. \A x : TrueLine(x)' <=> TrueLine(x)
    BY <2>2 DEF TrueLine, HeaderCount
  <2>6. \A x \in Range(All) \cup Range(dev.page) : TrueLine(x)
    BY <2>3 DEF TextInv
  <2> QED BY <2>2, <2>4, <2>5, <2>6
<1>3. CASE Reads
  <2>1. UNCHANGED <<held, style, dev>> /\ All' = All /\ cl'.pc = cl.pc
    BY <1>3 DEF Reads, ruleVars
  <2> QED BY <2>1 DEF TextInv, TrueLine, HeaderCount
<1>4. CASE Pages
  <2>1. UNCHANGED <<held, style, dev>> /\ All' = All /\ cl'.pc = cl.pc
    BY <1>4 DEF Pages, Others, ruleVars
  <2> QED BY <2>1 DEF TextInv, TrueLine, HeaderCount
<1>5. CASE Quiet
  <2>1. UNCHANGED <<held, style, cl, toClient>> /\ dev'.page = dev.page
    BY <1>5 DEF Quiet, ruleVars
  <2>2. All' = All
    BY <2>1 DEF All, In
  <2> QED BY <2>1, <2>2 DEF TextInv, TrueLine, HeaderCount
<1> QED BY <1>1, <1>2, <1>3, <1>4, <1>5, Steps

(* Before the display is asked for, no line of it is under way.            *)
LEMMA EarlyNext ==
  ASSUME TypeInv, JobInv, OrderInv, EarlyInv, [Next]_vars
  PROVE  EarlyInv'
<1>1. CASE \E c, text : Says(c, text)
  <2>1. PICK c, text : Says(c, text)
    BY <1>1
  <2> SUFFICES ASSUME cl'.pc \in Early
               PROVE  /\ cl'.full = <<>> /\ dev'.page = <<>>
                      /\ ~ Sent("display acl")' /\ ~ Sent(" ")'
                      /\ ~ Headed(In') /\ Tok("More") \notin Range(In')
    BY DEF EarlyInv, Headed
  <2>2. cl' = cl
    BY <2>1 DEF Says
  <2>3. Sent(c) /\ \A d : Sent(d)' => Sent(d)
    BY <2>1, AfterSaying
  <2>4. dev'.page = dev.page \/ c \in {"display acl", " "}
    BY <2>1, <2>2, HeldStill
  <2>5. c \notin {"display acl", " "}
    BY <2>2, <2>3 DEF EarlyInv
  <2>6. \A x \in Range(text) : x.t # "header" /\ x # Tok("More")
    BY <2>1, <2>5 DEF Says, Answers, WordOk
  <2>7. Range(In') = Range(In) \cup Range(text)
    BY <2>1, Grown
  <2>8. ~ Headed(In') /\ Tok("More") \notin Range(In')
    BY <2>2, <2>6, <2>7 DEF EarlyInv, Headed
  <2> QED BY <2>2, <2>3, <2>4, <2>5, <2>8 DEF EarlyInv
<1>2. CASE \E c, to : Sends(c, to)
  <2>1. PICK c, to : Sends(c, to)
    BY <1>2
  <2> SUFFICES ASSUME to \in Early
               PROVE  /\ cl'.full = <<>> /\ dev'.page = <<>>
                      /\ ~ Sent("display acl")' /\ ~ Sent(" ")'
                      /\ ~ Headed(In') /\ Tok("More") \notin Range(In')
    BY <2>1 DEF EarlyInv, Headed, Sends
  <2>2. UNCHANGED <<dev, toClient>> /\ Range(In') \subseteq Range(In)
    BY <2>1, Answering
  <2>3. /\ cl'.full \in {<<>>, cl.full} /\ cl.pc \in Early /\ c \notin {"display acl", " "}
    BY <2>1, SendsFrom DEF Sends
  <2>4. \A d : Sent(d)' <=> Sent(d) \/ d = c
    BY <2>1, AfterSending DEF Sends
  <2>5. ~ Headed(In') /\ Tok("More") \notin Range(In')
    BY <2>2, <2>3 DEF EarlyInv, Headed
  <2> QED BY <2>2, <2>3, <2>4, <2>5 DEF EarlyInv
<1>3. CASE Reads
  <2>1. UNCHANGED <<dev, toDevice>> /\ In' = In /\ cl'.pc = cl.pc /\ cl'.full = cl.full
    BY <1>3 DEF Reads
  <2> QED BY <2>1 DEF EarlyInv, Sent, Headed
<1>4. CASE Pages
  <2>1. cl'.pc \notin Early
    BY <1>4 DEF Pages, Early, Displays
  <2> QED BY <2>1 DEF EarlyInv
<1>5. CASE Quiet
  <2>1. UNCHANGED <<cl, toClient>> /\ dev'.page = dev.page
    BY <1>5 DEF Quiet
  <2>2. \A d : Sent(d)' => Sent(d)
    BY <1>5, SentRange, ShortRange DEF Quiet
  <2>3. In' = In
    BY <2>1 DEF In
  <2> QED BY <2>1, <2>2, <2>3 DEF EarlyInv, Headed
<1> QED BY <1>1, <1>2, <1>3, <1>4, <1>5, Steps

-----------------------------------------------------------------------------
(* What has been read of a display when the prompt ends it.                *)

(* The rules read are the numbers of the lines that are rules.             *)
LEMMA RulesReadAre ==
  ASSUME NEW out
  PROVE  \A n : n \in RulesRead(out) <=> \E x \in Range(out) : x.t = "rule" /\ x.n = n
BY DEF RulesRead, Range

(* How a count comes about.                                                *)
LEMMA CountIs ==
  ASSUME NEW out, Count(out) # NoCount
  PROVE  /\ Headed(out)
         /\ \/ Count(out) = Cardinality(RulesRead(out)) /\ \A x \in Range(out) : x.t = "header" => x.n = NoCount
            \/ \E x \in Range(out) : x.t = "header" /\ Count(out) = x.n
<1> DEFINE headers == {out[i].n : i \in {j \in DOMAIN out : out[j].t = "header"}}
           read == Cardinality(RulesRead(out))
           pick == CHOOSE n \in headers : TRUE
<1>1. \A n : n \in headers <=> \E x \in Range(out) : x.t = "header" /\ x.n = n
  BY DEF Range
<1>2. Count(out) = CASE headers = {} -> NoCount
                     [] headers = {NoCount} -> read
                     [] OTHER -> IF read < pick THEN NoCount ELSE pick
  BY DEF Count
<1> HIDE DEF headers, read
<1>3. headers # {}
  BY <1>2
<1>4. Headed(out)
  BY <1>1, <1>3 DEF Headed
<1>5. CASE headers = {NoCount}
  <2>1. Count(out) = read
    BY <1>2, <1>3, <1>5
  <2> QED BY <1>1, <1>4, <1>5, <2>1 DEF read
<1>6. CASE headers # {NoCount}
  <2>1. Count(out) = IF read < pick THEN NoCount ELSE pick
    BY <1>2, <1>3, <1>6
  <2>2. Count(out) = pick /\ pick \in headers
    BY <1>3, <2>1
  <2> QED BY <1>1, <1>4, <2>2
<1> QED BY <1>5, <1>6

(* Where the second of three texts ends.                                   *)
LastOfParts(a, b, c) ==
  LET o == a \o b
      L == Len(o)
      z == o \o c
  IN  /\ L \in 1..Len(z) /\ L \in 1..L /\ o[L] = Last(b)
      /\ L = Len(z) => c = <<>>
      /\ \A i \in 1..L : i \in 1..Len(z) /\ z[i] = o[i]
      /\ \A i \in 1..L : i < L \/ i = L

(* The last word of the middle of three parts.                             *)
LEMMA PartsEnd ==
  ASSUME NEW S, NEW a \in Seq(S), NEW b \in Seq(S), NEW c \in Seq(S), b # <<>>
  PROVE  LastOfParts(a, b, c)
<1> DEFINE o == a \o b
           z == o \o c
           x == Len(a)
           y == Len(b)
           w == Len(c)
<1>0. \A s, t \in Seq(S) :
        /\ s \o t \in Seq(S) /\ Len(s \o t) = Len(s) + Len(t)
        /\ \A i \in 1..(Len(s) + Len(t)) :
             (s \o t)[i] = IF i <= Len(s) THEN s[i] ELSE t[i - Len(s)]
  BY ConcatProperties
<1>1. /\ o \in Seq(S) /\ Len(o) = x + y
      /\ \A i \in 1..(x + y) : o[i] = IF i <= x THEN a[i] ELSE b[i - x]
  BY <1>0, Zenon
<1> HIDE DEF o
<1>2. /\ z \in Seq(S) /\ Len(z) = Len(o) + w
      /\ \A i \in 1..(Len(o) + w) : z[i] = IF i <= Len(o) THEN o[i] ELSE c[i - Len(o)]
  BY <1>0, <1>1, Zenon
<1> HIDE DEF z
<1>3. x \in Nat /\ y \in Nat /\ w \in Nat /\ y >= 1 /\ (w = 0 => c = <<>>)
  BY EmptySeq, LenProperties
<1> HIDE DEF x, y, w
<1>4. o[Len(o)] = b[y]
  <2>1. x + y \in 1..(x + y) /\ ~ (x + y <= x) /\ (x + y) - x = y
    BY <1>3
  <2> QED BY <1>1, <2>1
<1>5. Len(o) = x + y /\ Len(z) = x + y + w
  BY <1>1, <1>2, <1>3
<1>6. /\ x + y \in 1..(x + y + w) /\ x + y \in 1..(x + y)
      /\ x + y = x + y + w => w = 0
      /\ \A i \in 1..(x + y) : /\ i \in 1..(x + y + w) /\ i <= x + y
                               /\ i < x + y \/ i = x + y
  BY <1>3
<1>7. \A i \in 1..(x + y) : z[i] = o[i]
  BY <1>2, <1>5, <1>6
<1>8. /\ Len(o) \in 1..Len(z) /\ Len(o) \in 1..Len(o)
      /\ Len(o) = Len(z) => c = <<>>
      /\ \A i \in 1..Len(o) : i \in 1..Len(z) /\ z[i] = o[i]
      /\ \A i \in 1..Len(o) : i < Len(o) \/ i = Len(o)
  BY <1>3, <1>5, <1>6, <1>7
<1>9. Last(b) = b[y]
  BY DEF Last, y
<1> QED BY <1>4, <1>8, <1>9 DEF LastOfParts, o, z

(* A prompt that ends a text with a header in it ends the text.            *)
LEMMA PromptEnds ==
  ASSUME TypeInv, DisplayInv, NEW pc \in Displays, LastPage(pc), Headed(Output)
  PROVE  toClient = <<>> /\ toDevice = <<>> /\ dev.page = <<>>
<1>1. cl.pc = pc /\ Matched /\ ~ Has(cl.buf, {Tok("More")})
  BY DEF LastPage, Answered
<1>2. cl.pc \in Displays /\ cl.pc \notin {"greeting", "password", "login"}
  BY <1>1 DEF Displays
<1>3. TrailingPrompt(cl.buf) # NoPrompt
  BY <1>1, <1>2 DEF Matched, AtEnd
<1>4. cl.buf # <<>> /\ Last(cl.buf) \in Prompts
  BY <1>3 DEF TrailingPrompt
<1>5. /\ cl.buf \in Seq(Token) /\ cl.full \in Seq(Token) /\ toClient \in Seq(Token)
      /\ Output \in Seq(Token) /\ All \in Seq(Token) /\ All = Output \o toClient
  BY Texts
<1> DEFINE L == Len(Output)
<1>6. /\ L \in 1..Len(All) /\ L \in 1..L /\ Output[L] = Last(cl.buf)
      /\ L = Len(All) => toClient = <<>>
      /\ \A i \in 1..L : i \in 1..Len(All) /\ All[i] = Output[i]
      /\ \A i \in 1..L : i < L \/ i = L
  <2>1. \A a, b, c \in Seq(Token) : b # <<>> => LastOfParts(a, b, c)
    BY PartsEnd
  <2>2. LastOfParts(cl.full, cl.buf, toClient)
    BY <1>4, <1>5, <2>1, Zenon
  <2> QED BY <1>5, <2>2, Zenon DEF LastOfParts, Output
<1>9. DOMAIN All = 1..Len(All) /\ Range(Output) = {Output[i] : i \in 1..L}
  BY <1>5, LenProperties, RangeEquality
<1> HIDE DEF L
<1>10. PICK i \in 1..L : Output[i].t = "header"
  BY <1>9 DEF Headed
<1>11. Output[L] \in Prompts /\ Output[L].t # "header"
  BY <1>4, <1>6, PromptTags
<1>12. i < L
  BY <1>6, <1>10, <1>11
<1>13. /\ i \in DOMAIN All /\ L \in DOMAIN All
       /\ All[i].t = "header" /\ All[L] \in Prompts
  BY <1>6, <1>9, <1>10, <1>11
<1>14. L = Len(All) /\ toDevice = <<>> /\ dev.page = <<>>
  BY <1>1, <1>2, <1>12, <1>13 DEF DisplayInv, PromptLast
<1> QED BY <1>6, <1>14

(* An output that can be counted is the whole of the ACL.                  *)
LEMMA WholeOutput ==
  ASSUME TypeInv, TextInv, DisplayInv, NEW pc \in Displays, LastPage(pc), Count(Output) # NoCount
  PROVE  /\ toClient = <<>> /\ toDevice = <<>> /\ dev.page = <<>>
         /\ RulesRead(Output) = held /\ Count(Output) = Cardinality(held)
<1>1. cl.pc \in Displays
  BY DEF LastPage, Answered
<1>2. Headed(Output)
  BY CountIs
<1>3. toClient = <<>> /\ toDevice = <<>> /\ dev.page = <<>>
  BY <1>2, PromptEnds
<1>4. Range(All) = Range(Output)
  BY <1>3, Texts, ShortRange
<1>5. \A x \in Range(Output) : TrueLine(x)
  BY <1>1, <1>4 DEF TextInv
<1>6. \A n \in held : Rule(n) \in Range(Output)
  BY <1>1, <1>3, <1>4, ShortRange DEF DisplayInv, Covered, Asked
<1>7. RulesRead(Output) = held
  <2>1. \A n : n \in RulesRead(Output) <=> \E x \in Range(Output) : x.t = "rule" /\ x.n = n
    BY RulesReadAre
  <2>2. \A n \in RulesRead(Output) : n \in held
    BY <1>5, <2>1 DEF TrueLine
  <2>3. \A n \in held : Rule(n).t = "rule" /\ Rule(n).n = n
    BY WordTags
  <2>4. \A n \in held : n \in RulesRead(Output)
    BY <1>6, <2>1, <2>3
  <2> QED BY <2>2, <2>4
<1>8. Count(Output) = Cardinality(held)
  <2>1. CASE Count(Output) = Cardinality(RulesRead(Output))
    BY <1>7, <2>1
  <2>2. CASE \E x \in Range(Output) : x.t = "header" /\ Count(Output) = x.n
    <3>1. Count(Output) = HeaderCount
      BY <1>5, <2>2 DEF TrueLine
    <3> QED BY <3>1 DEF HeaderCount
  <2> QED BY <2>1, <2>2, CountIs
<1> QED BY <1>3, <1>7, <1>8

(* Where the words of two texts are when one follows the other.            *)
LEMMA Positions ==
  ASSUME NEW S, NEW s \in Seq(S), NEW t \in Seq(S)
  PROVE  /\ DOMAIN s = 1..Len(s) /\ DOMAIN t = 1..Len(t) /\ DOMAIN (s \o t) = 1..Len(s \o t)
         /\ \A i \in DOMAIN (s \o t) :
              \/ i \in DOMAIN s /\ (s \o t)[i] = s[i]
              \/ /\ i - Len(s) \in DOMAIN t /\ (s \o t)[i] = t[i - Len(s)]
                 /\ i - Len(s) = Len(t) <=> i = Len(s \o t)
         /\ \A i \in DOMAIN s : (s \o t)[i] = s[i] /\ (t # <<>> => i # Len(s \o t))
<1> DEFINE z == s \o t
           x == Len(s)
           y == Len(t)
<1>1. /\ z \in Seq(S) /\ Len(z) = x + y
      /\ \A i \in 1..(x + y) : z[i] = IF i <= x THEN s[i] ELSE t[i - x]
  BY ConcatProperties
<1>2. x \in Nat /\ y \in Nat /\ (t # <<>> => y # 0) /\ DOMAIN s = 1..x /\ DOMAIN t = 1..y
  BY LenProperties, EmptySeq
<1> HIDE DEF z, x, y
<1>3. DOMAIN z = 1..(x + y)
  BY <1>1, LenProperties
<1>4. \A i \in 1..(x + y) :
        \/ i \in 1..x /\ i <= x
        \/ i - x \in 1..y /\ ~ (i <= x) /\ (i - x = y <=> i = x + y)
  BY <1>2
<1>5. \A i \in 1..x : i \in 1..(x + y) /\ i <= x /\ (t # <<>> => i # x + y)
  BY <1>2
<1>6. \A i \in 1..(x + y) :
        \/ i \in 1..x /\ z[i] = s[i]
        \/ i - x \in 1..y /\ z[i] = t[i - x] /\ (i - x = y <=> i = x + y)
  BY <1>1, <1>4
<1> QED BY <1>1, <1>2, <1>3, <1>5, <1>6 DEF z, x, y

(* What a page ends with.                                                  *)
LEMMA ShownEnds ==
  ASSUME NEW lines \in Seq(Line), NEW text, Shown(lines, text)
  PROVE  /\ \A i \in DOMAIN text : text[i] \in Prompts => i = Len(text) /\ dev'.page = <<>>
         /\ \A i \in DOMAIN text : text[i] = Tok("More") => i = Len(text) /\ dev'.page # <<>>
         /\ dev'.page # <<>> => Last(text) = Tok("More")
<1>1. /\ text \in Seq(Token) /\ text # <<>>
      /\ \A i \in DOMAIN text : i < Len(text) => text[i] \in Range(lines)
      /\ Last(text) = Tok("More") \/ Last(text) \in Prompts
      /\ Last(text) = Tok("More") <=> dev'.page # <<>>
  BY DEF Shown
<1>2. \A x \in Range(lines) : x \notin Prompts /\ x # Tok("More")
  <2>1. \A x \in Range(lines) : x.t \in {"header", "rule", "remark"}
    BY RangeOfSeq DEF Line
  <2> QED BY <2>1, PromptTags, WordTags
<1>3. Tok("More") \notin Prompts
  BY PromptTags, WordTags
<1>4. DOMAIN text = 1..Len(text) /\ Len(text) \in Nat
  BY <1>1, LenProperties
<1>5. \A i \in DOMAIN text : i < Len(text) \/ (i = Len(text) /\ text[i] = Last(text))
  BY <1>4, LastOrBefore DEF Last
<1>6. \A i \in DOMAIN text : text[i] \in Prompts => i = Len(text) /\ dev'.page = <<>>
  BY <1>1, <1>2, <1>3, <1>5
<1>7. \A i \in DOMAIN text : text[i] = Tok("More") => i = Len(text) /\ dev'.page # <<>>
  BY <1>1, <1>2, <1>3, <1>5
<1> QED BY <1>1, <1>6, <1>7

(* The first page comes, or an answer to something older.                  *)
LEMMA AskedSays ==
  ASSUME TypeInv, OrderInv, cl.pc \in Displays, Asked, NEW c, NEW text, Says(c, text)
  PROVE  Stages' /\ Covered' /\ PromptLast'
<1>1. /\ toDevice # <<>> /\ c = Head(toDevice) /\ toDevice' = Tail(toDevice) /\ cl' = cl
      /\ Last(toDevice) = "display acl"
      /\ \A d \in {"display acl", " "} : ~ Before(toDevice, d, "display acl")
      /\ dev.page = <<>> /\ cl.full = <<>>
      /\ ~ Headed(In) /\ Tok("More") \notin Range(In)
      /\ \A x \in Range(text) : WordOk(c, x)
  BY DEF Asked, Says, Answers
<1>2. /\ Tail(toDevice) = <<>> => Last(toDevice) = Head(toDevice)
      /\ Tail(toDevice) # <<>> => /\ Last(Tail(toDevice)) = Last(toDevice)
                                  /\ Last(toDevice) \in Range(Tail(toDevice))
      /\ \A a, b : Before(Tail(toDevice), a, b) => Before(toDevice, a, b)
      /\ \A b \in Range(Tail(toDevice)) : Before(toDevice, Head(toDevice), b)
  BY <1>1, QueueRead DEF TypeInv
<1>3. /\ text \in Seq(Token) /\ In' = In \o text /\ Range(In') = Range(In) \cup Range(text)
      /\ All' = All \o text /\ Range(All') = Range(All) \cup Range(text)
  BY Grown
<1>4. held' = held /\ (dev'.page = dev.page \/ c \in {"display acl", " "})
  BY HeldStill
<1>5. In \in Seq(Token) /\ All \in Seq(Token)
      /\ Range(All) = Range(In)
  BY <1>1, Texts, ShortRange
<1>6. \A i \in DOMAIN All : All[i].t # "header"
  BY <1>1, <1>5 DEF Headed, Range
<1>7. CASE toDevice' # <<>>
  <2>1. c \notin {"display acl", " "}
    BY <1>1, <1>2, <1>7
  <2>2. \A x \in Range(text) : x.t # "header" /\ x # Tok("More")
    BY <1>1, <2>1 DEF WordOk
  <2>3. ~ Headed(In') /\ Tok("More") \notin Range(In')
    BY <1>1, <1>3, <2>2 DEF Headed
  <2>4. Asked'
    BY <1>1, <1>2, <1>4, <1>7, <2>1, <2>3 DEF Asked, Headed
  <2>5. \A i \in DOMAIN All' : All'[i].t # "header"
    BY <1>1, <1>3, <1>5, <2>2 DEF Headed, Range
  <2> QED BY <2>4, <2>5 DEF Stages, Covered, PromptLast
<1>8. CASE toDevice' = <<>>
  <2>1. c = "display acl"
    BY <1>1, <1>2, <1>8
  <2>2. Shown(AclLines, text)
    BY <2>1 DEF Says, Answers
  <2>3. IsFiniteSet(held) /\ held \subseteq Nat
    BY SessionAssumption, FS_Subset DEF TypeInv
  <2>4. AclLines \in Seq(Line) /\ \A n \in held : Rule(n) \in Range(AclLines)
    BY <2>3, AclLinesAre
  <2>5. /\ \A i \in DOMAIN text : text[i] \in Prompts => i = Len(text) /\ dev'.page = <<>>
        /\ \A i \in DOMAIN text : text[i] = Tok("More") => i = Len(text) /\ dev'.page # <<>>
        /\ dev'.page # <<>> => Last(text) = Tok("More")
    BY <2>2, <2>4, ShownEnds
  <2>6. text # <<>> /\ Range(AclLines) \subseteq Range(text) \cup Range(dev'.page)
    BY <2>2 DEF Shown
  <2>7. Covered'
    BY <1>3, <1>4, <2>4, <2>6 DEF Covered
  <2>8. PromptLast'
    <3> DEFINE z == All \o text
               y == Len(All)
    <3>1. /\ DOMAIN z = 1..Len(z)
          /\ \A i \in DOMAIN z :
               \/ i \in DOMAIN All /\ z[i] = All[i]
               \/ /\ i - y \in DOMAIN text /\ z[i] = text[i - y]
                  /\ i - y = Len(text) <=> i = Len(z)
          /\ \A i \in DOMAIN All : z[i] = All[i]
          /\ DOMAIN All = 1..y
      BY <1>3, <1>5, Positions
    <3>2. y \in Nat /\ Len(z) \in Nat
      BY <1>3, <1>5, LenProperties, ConcatProperties
    <3> HIDE DEF z, y
    <3> SUFFICES ASSUME NEW i \in DOMAIN z, NEW j \in DOMAIN z,
                        i < j, z[i].t = "header", z[j] \in Prompts
                 PROVE  j = Len(z) /\ dev'.page = <<>>
      BY <1>3, <1>8 DEF PromptLast, z
    <3>3. i \notin DOMAIN All
      BY <1>6, <3>1
    <3>4. j \notin DOMAIN All
      BY <3>1, <3>2, <3>3
    <3> QED BY <2>5, <3>1, <3>4
  <2>9. Stages'
    <3>1. CASE dev'.page = <<>>
      <4>1. Tok("More") \notin Range(text)
        BY <2>5, <3>1 DEF Range
      <4> QED BY <1>1, <1>3, <1>8, <3>1, <4>1 DEF Stages, Complete
    <3>2. CASE dev'.page # <<>>
      <4> DEFINE z == In \o text
                 y == Len(In)
      <4>1. /\ \A i \in DOMAIN z :
                 \/ i \in DOMAIN In /\ z[i] = In[i]
                 \/ /\ i - y \in DOMAIN text /\ z[i] = text[i - y]
                    /\ i - y = Len(text) <=> i = Len(z)
            /\ \A i \in DOMAIN In : z[i] = In[i] /\ i # Len(z)
        BY <1>3, <1>5, <2>6, Positions
      <4>2. z # <<>>
        BY <1>3, <1>5, <2>6, ConcatProperties, EmptySeq
      <4> HIDE DEF z, y
      <4>3. \A i \in DOMAIN In : In[i] # Tok("More")
        BY <1>1 DEF Range
      <4>4. \A i \in DOMAIN z : z[i] = Tok("More") <=> i = Len(z)
        <5>1. ASSUME NEW i \in DOMAIN z
              PROVE  z[i] = Tok("More") <=> i = Len(z)
          <6>1. CASE i \in DOMAIN In /\ z[i] = In[i]
            BY <4>1, <4>3, <6>1
          <6>2. CASE i - y \in DOMAIN text /\ z[i] = text[i - y] /\ (i - y = Len(text) <=> i = Len(z))
            BY <2>5, <3>2, <6>2 DEF Last
          <6> QED BY <4>1, <6>1, <6>2
        <5> QED BY <5>1
      <4>5. AtPage'
        BY <1>3, <1>8, <3>2, <4>2, <4>4 DEF AtPage, z
      <4> QED BY <4>5 DEF Stages
    <3> QED BY <3>1, <3>2
  <2> QED BY <2>7, <2>8, <2>9
<1> QED BY <1>7, <1>8

(* The next page comes.                                                    *)
LEMMA NextAskedSays ==
  ASSUME TypeInv, OrderInv, cl.pc \in Displays, NextAsked, Covered, PromptLast,
         NEW c, NEW text, Says(c, text)
  PROVE  Stages' /\ Covered' /\ PromptLast'
<1>1. /\ toDevice = <<" ">> /\ dev.page # <<>> /\ In = <<>>
      /\ c = " " /\ toDevice' = <<>> /\ cl' = cl
  <2>1. toDevice = <<" ">> /\ dev.page # <<>> /\ In = <<>>
    BY DEF NextAsked
  <2>2. c = Head(toDevice) /\ toDevice' = Tail(toDevice) /\ cl' = cl
    BY DEF Says
  <2> QED BY <2>1, <2>2, OneRead
<1>2. Shown(dev.page, text) /\ dev.page \in Seq(Line)
  BY <1>1 DEF Says, Answers, TypeInv, Devs
<1>3. /\ text \in Seq(Token) /\ In' = text
      /\ All' = All \o text /\ Range(All') = Range(All) \cup Range(text)
  BY <1>1, Grown, ConcatEmptySeq
<1>4. held' = held
  BY HeldStill
<1>5. /\ \A i \in DOMAIN text : text[i] \in Prompts => i = Len(text) /\ dev'.page = <<>>
      /\ \A i \in DOMAIN text : text[i] = Tok("More") => i = Len(text) /\ dev'.page # <<>>
      /\ dev'.page # <<>> => Last(text) = Tok("More")
  BY <1>2, ShownEnds
<1>6. text # <<>> /\ Range(dev.page) \subseteq Range(text) \cup Range(dev'.page)
  BY <1>2 DEF Shown
<1>7. All \in Seq(Token)
  BY Texts
<1>8. ~ Asked
  BY <1>1 DEF Asked
<1>9. Covered'
  BY <1>3, <1>4, <1>6, <1>8 DEF Covered
<1>10. PromptLast'
  <2> DEFINE z == All \o text
             y == Len(All)
  <2>1. /\ DOMAIN z = 1..Len(z)
        /\ \A i \in DOMAIN z :
             \/ i \in DOMAIN All /\ z[i] = All[i]
             \/ /\ i - y \in DOMAIN text /\ z[i] = text[i - y]
                /\ i - y = Len(text) <=> i = Len(z)
        /\ \A i \in DOMAIN All : z[i] = All[i]
        /\ DOMAIN All = 1..y
    BY <1>3, <1>7, Positions
  <2>2. y \in Nat /\ Len(z) \in Nat
    BY <1>3, <1>7, LenProperties, ConcatProperties
  <2> HIDE DEF z, y
  <2> SUFFICES ASSUME NEW i \in DOMAIN z, NEW j \in DOMAIN z,
                      i < j, z[i].t = "header", z[j] \in Prompts
               PROVE  j = Len(z) /\ dev'.page = <<>>
    BY <1>1, <1>3 DEF PromptLast, z
  <2>3. CASE j \in DOMAIN All /\ z[j] = All[j]
    <3>1. i \in 1..y
      BY <2>1, <2>2, <2>3
    <3>2. i \in DOMAIN All /\ z[i] = All[i]
      BY <2>1, <2>2, <3>1
    <3> QED BY <1>1, <2>3, <3>2 DEF PromptLast
  <2>4. CASE /\ j - y \in DOMAIN text /\ z[j] = text[j - y]
             /\ j - y = Len(text) <=> j = Len(z)
    BY <1>5, <2>4
  <2> QED BY <2>1, <2>3, <2>4
<1>11. Stages'
  <2>1. CASE dev'.page = <<>>
    <3>1. Tok("More") \notin Range(text)
      BY <1>5, <2>1 DEF Range
    <3> QED BY <1>1, <1>3, <2>1, <3>1 DEF Stages, Complete
  <2>2. CASE dev'.page # <<>>
    <3>1. \A i \in DOMAIN text : text[i] = Tok("More") <=> i = Len(text)
      BY <1>5, <2>2 DEF Last
    <3>2. AtPage'
      BY <1>1, <1>3, <1>6, <2>2, <3>1 DEF AtPage
    <3> QED BY <3>2 DEF Stages
  <2> QED BY <2>1, <2>2
<1> QED BY <1>9, <1>10, <1>11

(* A display goes from asked for, through its pages, to complete.          *)
LEMMA DisplayNext ==
  ASSUME TypeInv, JobInv, OrderInv, EarlyInv, DisplayInv, [Next]_vars
  PROVE  DisplayInv'
<1>1. CASE \E c, text : Says(c, text)
  <2>1. PICK c, text : Says(c, text)
    BY <1>1
  <2>2. cl' = cl /\ toDevice # <<>>
    BY <2>1 DEF Says
  <2>3. CASE cl.pc \notin Displays
    BY <2>2, <2>3 DEF DisplayInv
  <2>4. CASE cl.pc \in Displays
    <3>1. Stages /\ Covered /\ PromptLast
      BY <2>4 DEF DisplayInv
    <3>2. Asked \/ NextAsked
      BY <2>2, <3>1 DEF Stages, AtPage, Complete
    <3>3. Stages' /\ Covered' /\ PromptLast'
      BY <2>1, <2>4, <3>1, <3>2, AskedSays, NextAskedSays
    <3> QED BY <3>3 DEF DisplayInv
  <2> QED BY <2>3, <2>4
<1>2. CASE \E c, to : Sends(c, to)
  <2>1. PICK c, to : Sends(c, to)
    BY <1>2
  <2>2. cl'.pc = to
    BY <2>1 DEF Sends
  <2>3. CASE to \notin Displays
    BY <2>2, <2>3 DEF DisplayInv
  <2>4. CASE to \in Displays
    <3>1. cl.pc \in Early /\ c = "display acl" /\ cl'.full \in {<<>>, cl.full}
      BY <2>1, <2>4, SendsFrom DEF Sends
    <3>2. /\ cl.full = <<>> /\ dev.page = <<>> /\ ~ Sent("display acl") /\ ~ Sent(" ")
          /\ ~ Headed(In) /\ Tok("More") \notin Range(In)
      BY <3>1 DEF EarlyInv
    <3>3. /\ toDevice' # <<>> /\ Last(toDevice') = c
          /\ \A a, b : Before(toDevice', a, b) => Before(toDevice, a, b) \/ (Sent(a) /\ b = c)
          /\ \A a, b : Before(toDevice, a, b) => Sent(a) /\ Sent(b)
      BY <2>1, AfterSending DEF Sends
    <3>4. /\ UNCHANGED <<held, dev, toClient>> /\ Range(In') \subseteq Range(In)
          /\ Range(All') \subseteq Range(cl'.full) \cup Range(toClient)
      BY <2>1, Answering
    <3>5. cl'.full = <<>>
      BY <3>1, <3>2
    <3>6. ~ Headed(In') /\ Tok("More") \notin Range(In')
      BY <3>2, <3>4 DEF Headed
    <3>7. \A d \in {"display acl", " "} : ~ Before(toDevice', d, "display acl")
      BY <3>1, <3>2, <3>3
    <3>8. Asked'
      BY <3>1, <3>2, <3>3, <3>4, <3>5, <3>6, <3>7 DEF Asked, Headed
    <3>9. \A x \in Range(All') : x.t # "header"
      BY <3>2, <3>4, <3>5, Texts, ShortRange DEF Headed
    <3>10. PromptLast'
      <4>1. \A i \in DOMAIN All' : All'[i] \in Range(All')
        BY DEF Range
      <4> QED BY <3>9, <4>1 DEF PromptLast
    <3> QED BY <3>8, <3>10 DEF DisplayInv, Stages, Covered
  <2> QED BY <2>3, <2>4
<1>3. CASE Reads
  <2>1. /\ UNCHANGED <<held, dev, toDevice>> /\ cl'.pc = cl.pc /\ cl'.full = cl.full
        /\ In' = In /\ All' = All
    BY <1>3 DEF Reads, ruleVars
  <2>2. Asked' = Asked
    BY <2>1 DEF Asked, Headed
  <2>3. AtPage' = AtPage /\ NextAsked' = NextAsked /\ Complete' = Complete
    BY <2>1 DEF AtPage, NextAsked, Complete
  <2>4. PromptLast' = PromptLast
    BY <2>1 DEF PromptLast
  <2> QED BY <2>1, <2>2, <2>3, <2>4 DEF DisplayInv, Stages, Covered
<1>4. CASE Pages
  <2>1. /\ UNCHANGED <<held, dev, toClient>> /\ toDevice' = Append(toDevice, " ")
        /\ cl.pc \in Displays /\ Tok("More") \in Range(cl.buf) /\ cl'.pc = cl.pc
        /\ In' = toClient /\ All' = All
    BY <1>4 DEF Pages, Others, ruleVars
  <2>2. Stages /\ Covered /\ PromptLast
    BY <2>1 DEF DisplayInv
  <2>3. /\ cl.buf \in Seq(Token) /\ toClient \in Seq(Token) /\ Range(cl.buf) \subseteq Range(In)
        /\ In = cl.buf \o toClient
    BY Texts DEF In
  <2>4. AtPage
    BY <2>1, <2>2, <2>3, ShortRange DEF Stages, Asked, NextAsked, Complete
  <2>5. toDevice = <<>> /\ dev.page # <<>> /\ \A i \in DOMAIN In : In[i] = Tok("More") <=> i = Len(In)
    BY <2>4 DEF AtPage
  <2>6. toClient = <<>>
    <3>1. PICK i \in DOMAIN cl.buf : cl.buf[i] = Tok("More")
      BY <2>1 DEF Range
    <3>2. /\ \A k \in DOMAIN cl.buf : In[k] = cl.buf[k] /\ (toClient # <<>> => k # Len(In))
          /\ DOMAIN cl.buf \subseteq DOMAIN In
      <4>1. /\ DOMAIN cl.buf = 1..Len(cl.buf) /\ DOMAIN In = 1..Len(In)
            /\ \A k \in DOMAIN cl.buf : In[k] = cl.buf[k] /\ (toClient # <<>> => k # Len(In))
        BY <2>3, Positions
      <4>2. Len(In) = Len(cl.buf) + Len(toClient) /\ Len(cl.buf) \in Nat /\ Len(toClient) \in Nat
        BY <2>3, ConcatProperties, LenProperties
      <4> QED BY <4>1, <4>2
    <3> QED BY <2>5, <3>1, <3>2
  <2>7. toDevice' = <<" ">>
    BY <2>1, <2>5, OneSent
  <2>8. NextAsked'
    BY <2>1, <2>5, <2>6, <2>7 DEF NextAsked
  <2>9. ~ Asked /\ Covered'
    BY <2>1, <2>2, <2>5 DEF Asked, Covered
  <2>10. PromptLast'
    BY <2>1, <2>2, <2>5 DEF PromptLast
  <2> QED BY <2>8, <2>9, <2>10 DEF DisplayInv, Stages
<1>5. CASE Quiet
  <2>1. UNCHANGED <<held, cl, toClient>> /\ dev'.page = dev.page
    BY <1>5 DEF Quiet, ruleVars
  <2>2. cl.pc \in Displays => toDevice' = toDevice
    BY <1>5 DEF Quiet, Displays
  <2>3. In' = In /\ All' = All
    BY <2>1 DEF All, In
  <2> SUFFICES ASSUME cl.pc \in Displays
               PROVE  Stages' /\ Covered' /\ PromptLast'
    BY <2>1 DEF DisplayInv
  <2>4. Asked' = Asked
    BY <2>1, <2>2, <2>3 DEF Asked, Headed
  <2>5. AtPage' = AtPage /\ NextAsked' = NextAsked /\ Complete' = Complete
    BY <2>1, <2>2, <2>3 DEF AtPage, NextAsked, Complete
  <2>6. PromptLast' = PromptLast
    BY <2>1, <2>2, <2>3 DEF PromptLast
  <2> QED BY <2>1, <2>3, <2>4, <2>5, <2>6 DEF DisplayInv, Stages, Covered
<1> QED BY <1>1, <1>2, <1>3, <1>4, <1>5, Steps

(* A reading is of the whole ACL, and nothing is edited after it.          *)
LEMMA ReadNext ==
  ASSUME TypeInv, JobInv, OrderInv, TextInv, DisplayInv, ReadInv, [Next]_vars
  PROVE  ReadInv'
<1>0. cl.res = "read" => cl.pc = "done" /\ NoEdit
  BY DEF ReadInv, JobInv, NoEdit
<1>1. CASE \E c, text : Says(c, text)
  <2>1. PICK c, text : Says(c, text)
    BY <1>1
  <2>2. cl' = cl /\ Sent(c) /\ \A d : Sent(d)' => Sent(d)
    BY <2>1, AfterSaying DEF Says
  <2>3. cl.res = "read" => held' = held
    BY <1>0, <2>1, <2>2 DEF Says, Acts, NoEdit
  <2> QED BY <2>2, <2>3 DEF ReadInv
<1>2. CASE \E c, to : Sends(c, to)
  <2>1. PICK c, to : Sends(c, to)
    BY <1>2
  <2> SUFFICES ASSUME cl'.res = "read"
               PROVE  /\ \A d \in Edits : ~ Sent(d)'
                      /\ Count(cl'.full) # NoCount => RulesRead(cl'.full) = held'
    BY DEF ReadInv
  <2>2. cl.pc # "done" /\ cl.res = "none"
    BY <2>1 DEF Sends, JobInv
  <2>3. to = "done" /\ LastPage("display") /\ cl'.full = Output
    BY <2>1, <2>2 DEF Sends, Result
  <2>4. held' = held
    BY <2>1, Answering
  <2>5. \A d : Sent(d)' <=> Sent(d) \/ d = c
    BY <2>1, AfterSending DEF Sends
  <2>6. c \notin Edits
    <3>1. to \notin Writing
      BY <2>3 DEF Writing
    <3> QED BY <2>1, <3>1, SendsFrom
  <2>7. "display" \in Displays /\ cl.pc = "display"
    BY <2>3 DEF Displays, LastPage, Answered
  <2>8. \A d \in Edits : ~ Sent(d)
    BY <2>7 DEF OrderInv
  <2>9. Count(Output) # NoCount => RulesRead(Output) = held
    BY <2>3, <2>7, WholeOutput
  <2> QED BY <2>3, <2>4, <2>5, <2>6, <2>8, <2>9
<1>3. CASE Reads
  <2>1. held' = held /\ toDevice' = toDevice /\ cl'.full = cl.full /\ cl'.res = cl.res
    BY <1>3 DEF Reads, ruleVars
  <2> QED BY <2>1 DEF ReadInv, Sent
<1>4. CASE Pages
  <2>1. cl'.res = cl.res /\ cl.pc # "done"
    BY <1>4 DEF Pages, Displays
  <2> QED BY <1>0, <2>1 DEF ReadInv
<1>5. CASE Quiet
  <2>1. held' = held /\ cl' = cl
    BY <1>5 DEF Quiet, ruleVars
  <2>2. \A d : Sent(d)' => Sent(d)
    BY <1>5, SentRange, ShortRange DEF Quiet
  <2> QED BY <2>1, <2>2 DEF ReadInv
<1> QED BY <1>1, <1>2, <1>3, <1>4, <1>5, Steps

(* The rules the guard saw are the rules the edit meets.                   *)
LEMMA GuardNext ==
  ASSUME TypeInv, JobInv, OrderInv, TextInv, DisplayInv, GuardInv, [Next]_vars
  PROVE  GuardInv'
<1>1. CASE \E c, text : Says(c, text)
  <2>1. PICK c, text : Says(c, text)
    BY <1>1
  <2>2. job' = job
    BY <2>1 DEF Says
  <2>3. c \in Commands /\ \A d : Sent(d)' => Sent(d) /\ Before(toDevice, c, d)
    BY <2>1, AfterSaying
  <2>4. ASSUME NEW d \in {"rule", "undo"}, Sent(d)', d = "rule" \/ job.op = "remove"
        PROVE  held' = held
    <3>1. Before(toDevice, c, d) /\ d \in Commands
      BY <2>3, <2>4 DEF Commands
    <3>2. c \notin Edits
      BY <2>3, <2>4, <3>1 DEF OrderInv, Edits
    <3> QED BY <2>1, <3>2 DEF Says, Acts
  <2> QED BY <2>2, <2>3, <2>4 DEF GuardInv, Expected
<1>2. CASE \E c, to : Sends(c, to)
  <2>1. PICK c, to : Sends(c, to)
    BY <1>2
  <2>2. job' = job /\ held' = held
    BY <2>1, Answering
  <2>3. \A d : Sent(d)' <=> Sent(d) \/ d = c
    BY <2>1, AfterSending DEF Sends
  <2>4. ASSUME c = "rule" \/ (c = "undo" /\ job.op = "remove")
        PROVE  Expected /\ (job.n \in held <=> job.op = "remove") /\ (c = "rule" => job.op # "remove")
    <3>1. LastPage("guard") /\ GuardHolds(Output) /\ (c = "rule" => job.op # "remove")
      BY <2>1, <2>4, SendsFrom DEF Edits
    <3>2. /\ (job.n \in RulesRead(Output)) = (job.op = "remove")
          /\ Count(Output) # NoCount /\ Count(Output) = job.expect
      BY <3>1 DEF GuardHolds
    <3>3. RulesRead(Output) = held /\ Count(Output) = Cardinality(held)
      BY <3>1, <3>2, WholeOutput DEF Displays
    <3> QED BY <3>1, <3>2, <3>3 DEF Expected
  <2> QED BY <2>2, <2>3, <2>4 DEF GuardInv, Expected
<1>3. CASE Reads
  <2>1. UNCHANGED <<job, held, toDevice>>
    BY <1>3 DEF Reads, ruleVars
  <2> QED BY <2>1 DEF GuardInv, Expected, Sent
<1>4. CASE Pages
  <2>1. UNCHANGED <<job, held>>
    BY <1>4 DEF Pages, Others, ruleVars
  <2>2. " " \in Commands
    BY DEF Commands
  <2>3. \A d : Sent(d)' <=> Sent(d) \/ d = " "
    BY <1>4, <2>2, AfterSending DEF Pages
  <2> QED BY <2>1, <2>3 DEF GuardInv, Expected
<1>5. CASE Quiet
  <2>1. UNCHANGED <<job, held>>
    BY <1>5 DEF Quiet, ruleVars
  <2>2. \A d : Sent(d)' => Sent(d)
    BY <1>5, SentRange, ShortRange DEF Quiet
  <2> QED BY <2>1, <2>2 DEF GuardInv, Expected
<1> QED BY <1>1, <1>2, <1>3, <1>4, <1>5, Steps

-----------------------------------------------------------------------------
(* One command at a time: an answer is complete when it is recognised.     *)

(* What the client stops at is never a refusal alone.                      *)
LEMMA MatchedWord ==
  ASSUME TypeInv, cl.pc \notin Displays, Matched
  PROVE  \E k \in DOMAIN cl.buf :
           cl.buf[k] # Tok("error") /\ (cl.pc \in Writing => cl.buf[k] \in Bracket \cup Angle)
                                    /\ (cl.pc = "this" => cl.buf[k] \in Bracket)
<1>1. cl.buf \in Seq(Token)
  BY Texts
<1>2. \A x \in Bracket \cup Angle \cup {Success, Tok("Username:"), Tok("Password:")} : x # Tok("error")
  BY PromptTags, WordTags DEF Bracket, Angle, Prompts
<1>3. Prompts \subseteq Bracket \cup Angle
  BY DEF Prompts, Bracket, Angle
<1>4. Prompt("username") = Tok("Username:") /\ Prompt("password") = Tok("Password:")
  BY DEF Prompt
<1>5. CASE cl.pc \in {"greeting", "password", "login"}
  <2>1. cl.buf # <<>> /\ Last(cl.buf) \in Prompts \cup {Tok("Username:"), Tok("Password:")}
    BY <1>4, <1>5 DEF Matched, AtEnd
  <2>2. Len(cl.buf) \in DOMAIN cl.buf
    BY <1>1, <2>1, LenProperties, EmptySeq
  <2>3. cl.buf[Len(cl.buf)] # Tok("error")
    BY <1>2, <1>3, <2>1 DEF Last
  <2>4. cl.pc \notin Writing /\ cl.pc # "this"
    BY <1>5 DEF Writing
  <2> QED BY <2>2, <2>3, <2>4
<1>6. CASE cl.pc \notin {"greeting", "password", "login"}
  <2>1. Has(cl.buf, Anywhere(cl.pc))
    BY <1>6 DEF Matched, AtEnd
  <2>2. PICK k \in DOMAIN cl.buf : cl.buf[k] \in Anywhere(cl.pc)
    BY <2>1 DEF Has
  <2>3. /\ Anywhere(cl.pc) \subseteq Bracket \cup Angle \cup {Success}
        /\ cl.pc \in Writing => Anywhere(cl.pc) = Bracket \cup Angle
        /\ cl.pc = "this" => Anywhere(cl.pc) = Bracket
    BY DEF Anywhere, Writing
  <2> QED BY <1>2, <2>2, <2>3
<1> QED BY <1>5, <1>6

(* The positions of what has been read in what was said.                   *)
LEMMA InRead ==
  ASSUME TypeInv
  PROVE  /\ DOMAIN cl.buf = 1..Len(cl.buf) /\ DOMAIN In = 1..Len(In)
         /\ DOMAIN toClient = 1..Len(toClient)
         /\ Len(cl.buf) \in Nat /\ Len(toClient) \in Nat /\ Len(In) = Len(cl.buf) + Len(toClient)
         /\ Len(In) \in Nat /\ (cl.buf # <<>> => Len(cl.buf) \in DOMAIN cl.buf)
         /\ \A k \in DOMAIN cl.buf :
              k \in DOMAIN In /\ In[k] = cl.buf[k] /\ (toClient # <<>> => k # Len(In))
         /\ \A k \in DOMAIN toClient :
              LET i == k + Len(cl.buf)
              IN  i \in DOMAIN In /\ In[i] = toClient[k] /\ i \notin DOMAIN cl.buf
<1> DEFINE b == cl.buf
           d == toClient
<1>1. b \in Seq(Token) /\ d \in Seq(Token) /\ In = b \o d
  BY Texts DEF In
<1> HIDE DEF b, d
<1> DEFINE x == Len(b)
           y == Len(d)
<1>2. /\ DOMAIN b = 1..x /\ DOMAIN d = 1..y /\ DOMAIN In = 1..Len(In)
      /\ \A k \in DOMAIN b : In[k] = b[k] /\ (d # <<>> => k # Len(In))
  BY <1>1, Positions
<1>3. /\ Len(In) = x + y
      /\ \A i \in 1..(x + y) : In[i] = IF i <= x THEN b[i] ELSE d[i - x]
  BY <1>1, ConcatProperties
<1>4. x \in Nat /\ y \in Nat /\ Len(In) \in Nat /\ (b # <<>> => x \in DOMAIN b)
  <2>1. x \in Nat /\ y \in Nat /\ (b # <<>> => x # 0)
    BY <1>1, LenProperties, EmptySeq
  <2> QED BY <1>2, <1>3, <2>1
<1> HIDE DEF x, y
<1>5. \A k \in 1..x : k \in 1..(x + y)
  BY <1>4
<1>6. \A k \in 1..y : k + x \in 1..(x + y) /\ ~ (k + x <= x) /\ (k + x) - x = k /\ k + x \notin 1..x
  BY <1>4
<1>7. \A k \in 1..y : In[k + x] = d[k]
  BY <1>3, <1>6
<1>8. \A k \in DOMAIN b : k \in DOMAIN In
  BY <1>2, <1>3, <1>5
<1>9. \A k \in DOMAIN d : k + x \in DOMAIN In /\ In[k + x] = d[k] /\ k + x \notin DOMAIN b
  BY <1>2, <1>3, <1>6, <1>7
<1> QED BY <1>2, <1>3, <1>4, <1>8, <1>9, Zenon DEF b, d, x, y

(* The answer to a command that is sent alone has been read to its end.    *)
LEMMA AllRead ==
  ASSUME TypeInv, cl.pc \notin Displays, Matched, Reply(In)
  PROVE  toClient = <<>> /\ In = cl.buf /\ In # <<>>
<1>1. PICK k \in DOMAIN cl.buf : cl.buf[k] # Tok("error")
  BY MatchedWord
<1>2. /\ k \in DOMAIN In /\ In[k] = cl.buf[k] /\ (toClient # <<>> => k # Len(In))
      /\ DOMAIN In = 1..Len(In) /\ Len(In) \in Nat
  BY InRead
<1>3. ~ (k < Len(In))
  BY <1>1, <1>2 DEF Reply
<1>4. k = Len(In)
  BY <1>2, <1>3
<1>5. toClient = <<>>
  BY <1>2, <1>4
<1>6. In = cl.buf
  BY <1>5, Texts, ConcatEmptySeq DEF In
<1>7. In # <<>>
  BY <1>2, EmptySeq
<1> QED BY <1>5, <1>6, <1>7

(* Nothing read means nothing recognised.                                  *)
LEMMA NothingRead ==
  ASSUME TypeInv, cl.pc \notin Displays, Matched
  PROVE  In # <<>>
<1>1. PICK k \in DOMAIN cl.buf : cl.buf[k] # Tok("error")
  BY MatchedWord
<1>2. k \in DOMAIN In
  BY InRead
<1> QED BY <1>2, EmptySeq

(* The answer to "acl advanced" says whether the view was entered.         *)
LEMMA EnterNext ==
  ASSUME TypeInv, EnterInv, TalkInv, [Next]_vars
  PROVE  EnterInv'
<1>1. CASE \E c, text : Says(c, text)
  <2>1. PICK c, text : Says(c, text)
    BY <1>1
  <2> SUFFICES ASSUME cl'.pc = "acl"
               PROVE  toDevice' = <<>> /\ (In' # <<>> => Failed(In') \/ dev'.view = "acl")
    BY DEF EnterInv, Failed, Has
  <2>2. cl.pc = "acl" /\ toDevice # <<>>
    BY <2>1 DEF Says
  <2>3. toDevice = <<"acl advanced">> /\ In = <<>>
    BY <2>2 DEF EnterInv
  <2>4. c = "acl advanced" /\ toDevice' = <<>>
    BY <2>1, <2>3, OneRead DEF Says
  <2>5. In' = text
    BY <2>1, <2>3, Grown, ConcatEmptySeq
  <2> QED BY <2>1, <2>4, <2>5 DEF Says, Acts
<1>2. CASE \E c, to : Sends(c, to)
  <2>1. PICK c, to : Sends(c, to)
    BY <1>2
  <2> SUFFICES ASSUME cl'.pc = "acl"
               PROVE  toDevice' = <<"acl advanced">> /\ In' = <<>>
    BY DEF EnterInv
  <2>2. to = "acl" /\ Moves(c, to) /\ toDevice' = Append(toDevice, c)
    BY <2>1 DEF Sends
  <2>3. cl.pc = "system" /\ c = "acl advanced" /\ Matched
    BY <2>2 DEF Moves, Opens, Enters, Edited, Leaves
  <2>4. cl.pc \notin Displays
    BY <2>3 DEF Displays
  <2>5. toDevice = <<>> /\ Reply(In)
    BY <2>3, <2>4, NothingRead DEF TalkInv
  <2>6. toClient = <<>>
    BY <2>3, <2>4, <2>5, AllRead
  <2>7. In' = toClient
    BY <2>1, Answering
  <2> QED BY <2>2, <2>3, <2>5, <2>6, <2>7, OneSent
<1>3. CASE Reads
  BY <1>3 DEF Reads, EnterInv, Failed, Has
<1>4. CASE Pages
  BY <1>4 DEF Pages, EnterInv, Displays
<1>5. CASE Quiet
  <2>1. cl' = cl /\ In' = In /\ dev'.view = dev.view /\ (toDevice' = toDevice \/ cl.pc = "done")
    BY <1>5 DEF Quiet, In
  <2> QED BY <2>1 DEF EnterInv, Failed, Has
<1> QED BY <1>1, <1>2, <1>3, <1>4, <1>5, Steps

(* What names the ACL is evidence of its view, and only quitting leaves it. *)
LEMMA ViewNext ==
  ASSUME TypeInv, JobInv, OrderInv, ViewInv, EnterInv, TalkInv, [Next]_vars
  PROVE  ViewInv'
<1> DEFINE Names(x) == x \in {AclPrompt, Tok("acl N")}
<1>0. /\ \A out : Has(out, {AclPrompt, Tok("acl N")}) <=> \E x \in Range(out) : Names(x)
      /\ \A out : Has(out, {Tok("acl N")}) <=> Tok("acl N") \in Range(out)
      /\ \A out : Has(out, {AclPrompt}) <=> AclPrompt \in Range(out)
  BY HasRange
<1> HIDE DEF Names
<1>a. (cl.pc \in PreQuit /\ \E x \in Range(In) : Names(x)) => InAcl
  BY <1>0 DEF ViewInv
<1>1. CASE \E c, text : Says(c, text)
  <2>1. PICK c, text : Says(c, text)
    BY <1>1
  <2>2. /\ job' = job /\ cl' = cl /\ style' = style
        /\ \A x \in Range(text) : WordOk(c, x)
        /\ dev.view = "acl" /\ c # "quit" => dev'.view = "acl"
    BY <2>1 DEF Says, Answers, Acts
  <2>3. /\ c \in Commands /\ Sent(c)
        /\ \A d : Sent(d)' => Sent(d) /\ Before(toDevice, c, d)
    BY <2>1, AfterSaying
  <2>4. InAcl /\ c # "quit" => InAcl'
    BY <2>2 DEF InAcl
  <2>5. Known /\ c # "quit" => Known'
    BY <2>2, <2>4 DEF Known
  <2>6. cl.pc \in PreQuit => c # "quit"
    BY <2>3 DEF OrderInv
  <2>7. Range(In') = Range(In) \cup Range(text)
    BY <2>1, Grown
  <2>8. \A x \in Range(text) : Names(x) => InAcl'
    BY <2>2 DEF WordOk, InAcl, Names
  <2>9. (cl.pc \in PreQuit /\ Has(In, {AclPrompt, Tok("acl N")}) => InAcl)'
    <3> SUFFICES ASSUME cl.pc \in PreQuit, NEW x \in Range(In'), Names(x)
                 PROVE  InAcl'
      BY <1>0, <2>2
    <3> QED BY <1>a, <2>4, <2>6, <2>7, <2>8
  <2>10. (cl.pc \in {"guard"} \cup Writing => Known)'
    <3>1. {"guard"} \cup Writing \subseteq PreQuit
      BY DEF PreQuit, Displays
    <3> QED BY <2>2, <2>5, <2>6, <3>1 DEF ViewInv
  <2>11. \A d \in Edits : Sent(d)' => Known'
    <3> SUFFICES ASSUME NEW d \in Edits, Sent(d)'
                 PROVE  Known'
      OBVIOUS
    <3>1. Sent(d) /\ Before(toDevice, c, d) /\ d \in Commands
      BY <2>3 DEF Edits, Commands
    <3>2. c # "quit"
      BY <2>3, <3>1 DEF OrderInv
    <3> QED BY <2>5, <3>1, <3>2 DEF ViewInv
  <2> QED BY <2>9, <2>10, <2>11 DEF ViewInv
<1>2. CASE \E c, to : Sends(c, to)
  <2>1. PICK c, to : Sends(c, to)
    BY <1>2
  <2>2. cl'.pc = to
    BY <2>1 DEF Sends
  <2>3. UNCHANGED <<style, dev>> /\ Range(In') \subseteq Range(In)
    BY <2>1, Answering
  <2>4. \A d : Sent(d)' <=> Sent(d) \/ d = c
    BY <2>1, AfterSending DEF Sends
  <2>5. /\ to \in PreQuit => cl.pc \in PreQuit
        /\ to \in {"guard"} \cup Writing => cl.pc \in {"guard"} \cup Writing \/ Enters(c, to)
        /\ c \in Edits => to \in Writing
    BY <2>1, SendsFrom
  <2>6. InAcl' = InAcl /\ Known' = Known
    BY <2>3 DEF InAcl, Known
  <2>7. Enters(c, to) => Known
    <3> SUFFICES ASSUME Enters(c, to)
                 PROVE  Known
      OBVIOUS
    <3>1. cl.pc \in PreQuit
      BY DEF Enters, PreQuit, Early
    <3>2. \/ cl.pc = "acl" /\ style.hostNumber
          \/ AclPrompt \in Range(cl.buf) \/ Tok("acl N") \in Range(cl.buf)
      BY <1>0 DEF Enters, Entered, NamesTheAcl
    <3>3. Range(cl.buf) \subseteq Range(In)
      BY Texts
    <3>4. cl.pc = "acl" => ~ Failed(cl.buf)
      BY DEF Enters, Entered
    <3>5. CASE cl.pc = "acl" /\ style.hostNumber
      <4>1. cl.pc \notin Displays
        BY <3>5 DEF Displays
      <4>2. In # <<>>
        BY <4>1, NothingRead DEF Enters
      <4>3. toDevice = <<>> /\ Reply(In) /\ (Failed(In) \/ dev.view = "acl")
        BY <3>5, <4>2 DEF TalkInv, EnterInv
      <4>4. In = cl.buf
        BY <4>1, <4>3, AllRead DEF Enters
      <4> QED BY <3>4, <3>5, <4>3, <4>4 DEF Known, InAcl
    <3> QED BY <1>a, <3>1, <3>2, <3>3, <3>5 DEF Known, Names
  <2>8. to \in {"guard"} \cup Writing => Known
    BY <2>5, <2>7 DEF ViewInv
  <2>9. (cl.pc \in PreQuit /\ Has(In, {AclPrompt, Tok("acl N")}) => InAcl)'
    BY <1>0, <1>a, <2>2, <2>3, <2>5, <2>6
  <2>10. (cl.pc \in {"guard"} \cup Writing => Known)'
    BY <2>2, <2>6, <2>8
  <2>11. \A d \in Edits : Sent(d)' => Known'
    BY <2>4, <2>5, <2>6, <2>8 DEF ViewInv
  <2> QED BY <2>9, <2>10, <2>11 DEF ViewInv
<1>3. CASE Reads
  <2>1. UNCHANGED <<style, dev, toDevice>> /\ cl'.pc = cl.pc /\ In' = In
    BY <1>3 DEF Reads
  <2> QED BY <2>1 DEF ViewInv, InAcl, Known, Sent
<1>4. CASE Pages
  <2>1. UNCHANGED <<style, dev>> /\ cl'.pc = cl.pc /\ In' = toClient
    BY <1>4 DEF Pages, Others
  <2>2. Range(In') \subseteq Range(In)
    BY <2>1, Texts
  <2>3. \A d \in Edits : Sent(d)' => Sent(d)
    <3>1. " " \in Commands /\ " " \notin Edits
      BY DEF Commands, Edits
    <3> QED BY <1>4, <3>1, AfterSending DEF Pages
  <2>4. InAcl' = InAcl /\ Known' = Known
    BY <2>1 DEF InAcl, Known
  <2>5. (cl.pc \in PreQuit /\ Has(In, {AclPrompt, Tok("acl N")}) => InAcl)'
    BY <1>0, <1>a, <2>1, <2>2, <2>4
  <2> QED BY <2>1, <2>3, <2>4, <2>5 DEF ViewInv
<1>5. CASE Quiet
  <2>1. UNCHANGED <<style, cl, toClient>> /\ dev'.view = dev.view
    BY <1>5 DEF Quiet
  <2>2. \A d : Sent(d)' => Sent(d)
    BY <1>5, SentRange, ShortRange DEF Quiet
  <2>3. In' = In /\ InAcl' = InAcl /\ Known' = Known
    BY <2>1 DEF In, InAcl, Known
  <2> QED BY <2>1, <2>2, <2>3 DEF ViewInv
<1> QED BY <1>1, <1>2, <1>3, <1>4, <1>5, Steps

(* A client that does not know the prompt of its view gets no further.     *)
LEMMA StuckIsNotDone ==
  ASSUME TypeInv, cl.pc = "undo", Matched, Stuck
  PROVE  ~ Done
<1>0. cl.pc \notin Displays /\ cl.pc \in Writing
  BY DEF Displays, Writing
<1>1. PICK k \in DOMAIN cl.buf : cl.buf[k] \in Bracket \cup Angle
  BY <1>0, MatchedWord
<1>2. Range(cl.buf) \subseteq Range(In)
  BY Texts
<1>3. cl.buf[k] \in Prompts
  <2>1. cl.buf[k] \in Prompts \cup {Remark, Question}
    BY <1>1 DEF Bracket, Angle, Prompts
  <2>2. cl.buf[k] \in Range(In)
    BY <1>1, <1>2 DEF Range
  <2> QED BY <2>1, <2>2 DEF Stuck
<1>4. cl.buf \in Seq(Token) /\ DOMAIN cl.buf = 1..Len(cl.buf) /\ Len(cl.buf) \in Nat
  BY Texts, InRead
<1> DEFINE l == Len(cl.buf)
<1>5. l \in DOMAIN cl.buf /\ (k < l \/ k = l)
  BY <1>1, <1>4
<1>6. cl.buf[l] \in Prompts \cup {Tok("error")}
  <2>1. \A i \in DOMAIN cl.buf : i \in DOMAIN In /\ In[i] = cl.buf[i]
    BY InRead
  <2> QED BY <1>1, <1>3, <1>5, <2>1 DEF Stuck
<1> SUFFICES ASSUME Done
             PROVE  FALSE
  OBVIOUS
<1>7. cl.buf[l] # Tok("error")
  BY <1>5 DEF Done, Failed, Has
<1>8. Last(cl.buf) \in Prompts /\ cl.buf # <<>>
  BY <1>4, <1>5, <1>6, <1>7, EmptySeq DEF Last
<1>9. Last(cl.buf) # NoPrompt
  BY <1>8, PromptTags, WordTags
<1> QED BY <1>8, <1>9 DEF Done, TrailingPrompt, Stuck

(* An edit that went well was carried out.                                 *)
LEMMA DoneMeansDone ==
  ASSUME TypeInv, TalkInv, cl.pc \in {"rule", "comment", "undo"}, Matched, Done
  PROVE  /\ toDevice = <<>> /\ toClient = <<>>
         /\ cl.pc = "rule" => Misled \/ job.n \in held
         /\ cl.pc = "comment" => Misled \/ (job.n \in held /\ job.n \in marked)
         /\ cl.pc = "undo" => Misled \/ job.n \notin held
<1>1. cl.pc \notin Displays
  BY DEF Displays
<1>2. In # <<>>
  BY <1>1, NothingRead
<1>3. toDevice = <<>> /\ Reply(In) => toClient = <<>> /\ ~ Failed(In)
  <2>1. toDevice = <<>> /\ Reply(In) => toClient = <<>> /\ In = cl.buf
    BY <1>1, AllRead
  <2> QED BY <2>1 DEF Done
<1>4. CASE cl.pc = "rule"
  <2>1. toDevice = <<>> /\ Reply(In) /\ (~ Failed(In) => Misled \/ job.n \in held)
    BY <1>2, <1>4 DEF TalkInv, Talk
  <2> QED BY <1>3, <1>4, <2>1
<1>5. CASE cl.pc = "comment"
  <2>1. /\ toDevice = <<>> /\ Reply(In)
        /\ ~ Failed(In) => Misled \/ job.n \in marked
        /\ Misled \/ job.n \in held
    BY <1>2, <1>5 DEF TalkInv, Talk
  <2> QED BY <1>3, <1>5, <2>1
<1>6. CASE cl.pc = "undo"
  <2>1. ~ Stuck
    BY <1>6, StuckIsNotDone
  <2>2. toDevice = <<>> /\ Reply(In) /\ (~ Failed(In) => Misled \/ job.n \notin held)
    BY <1>2, <1>6, <2>1 DEF TalkInv, Talk
  <2> QED BY <1>3, <1>6, <2>2
<1> QED BY <1>4, <1>5, <1>6

(* The client may sit in the view and not know its prompt.                 *)
LEMMA EntersUndo ==
  ASSUME TypeInv, TalkInv, ViewInv, NEW c, Sends(c, "undo"), Enters(c, "undo")
  PROVE  Talk("undo", job.n \notin held)' \/ Stuck'
<1>1. /\ cl.pc \in {"acl", "this"} /\ Matched /\ c = "undo"
      /\ cl.pc = "this" => Has(cl.buf, {Tok("acl N")})
      /\ cl'.aclPrompt = TrailingPrompt(cl.buf)
  BY DEF Enters, Entered
<1>2. In' = toClient /\ toDevice' = Append(toDevice, "undo")
  BY <1>1, Answering DEF Sends
<1>3. cl.pc \notin Displays
  BY <1>1 DEF Displays
<1>4. In # <<>>
  BY <1>1, <1>3, NothingRead
<1>5. toDevice = <<>> => toDevice' = <<"undo">>
  BY <1>2, OneSent
<1>6. toDevice = <<>> /\ toClient = <<>> => Talk("undo", job.n \notin held)'
  BY <1>2, <1>5 DEF Talk
<1>7. CASE cl.pc = "acl"
  <2>1. toDevice = <<>> /\ Reply(In)
    BY <1>4, <1>7 DEF TalkInv
  <2> QED BY <1>1, <1>3, <1>6, <2>1, AllRead
<1>8. CASE cl.pc = "this"
  <2>1. toDevice = <<>> /\ Body(In)
    BY <1>4, <1>8 DEF TalkInv
  <2>2. /\ \A i \in DOMAIN In : In[i] \in Prompts => i = Len(In)
        /\ OneRemark(In) /\ Question \notin Range(In)
    BY <2>1 DEF Body
  <2>3. PICK k \in DOMAIN cl.buf : cl.buf[k] \in Bracket
    BY <1>1, <1>3, <1>8, MatchedWord
  <2>4. /\ DOMAIN toClient = 1..Len(toClient)
        /\ Len(cl.buf) \in Nat /\ Len(toClient) \in Nat /\ Len(In) = Len(cl.buf) + Len(toClient)
        /\ \A i \in DOMAIN cl.buf :
              i \in DOMAIN In /\ In[i] = cl.buf[i] /\ (toClient # <<>> => i # Len(In))
        /\ \A i \in DOMAIN toClient :
              /\ i + Len(cl.buf) \in DOMAIN In /\ In[i + Len(cl.buf)] = toClient[i]
              /\ i + Len(cl.buf) \notin DOMAIN cl.buf
    BY InRead
  <2>5. CASE toClient = <<>>
    BY <1>6, <2>1, <2>5
  <2>6. CASE toClient # <<>>
    <3>1. \A i \in DOMAIN cl.buf : cl.buf[i] \notin Prompts
      BY <2>2, <2>4, <2>6
    <3>2. cl.buf[k] = Remark
      <4>1. cl.buf[k] # Question
        BY <2>2, <2>3, <2>4 DEF Range
      <4>2. Bracket \subseteq Prompts \cup {Remark, Question}
        BY DEF Bracket
      <4> QED BY <2>3, <3>1, <4>1, <4>2
    <3>3. TrailingPrompt(cl.buf) = NoPrompt
      <4>1. cl.buf # <<>> => Len(cl.buf) \in DOMAIN cl.buf
        BY InRead
      <4>2. ~ (cl.buf # <<>> /\ Last(cl.buf) \in Prompts)
        BY <3>1, <4>1 DEF Last
      <4> QED BY <4>2 DEF TrailingPrompt
    <3>4. \A i \in DOMAIN toClient : toClient[i] # Remark
      BY <2>2, <2>3, <2>4, <3>2 DEF OneRemark
    <3>5. \A i \in DOMAIN toClient : toClient[i] # Question
      BY <2>2, <2>4 DEF Range
    <3>6. \A i, j \in DOMAIN toClient : i < j => toClient[i] \notin Prompts
      <4> SUFFICES ASSUME NEW i \in DOMAIN toClient, NEW j \in DOMAIN toClient, i < j
                   PROVE  toClient[i] \notin Prompts
        OBVIOUS
      <4>1. i + Len(cl.buf) # Len(In)
        <5> DEFINE x == Len(cl.buf)
                   y == Len(toClient)
        <5>1. x \in Nat /\ y \in Nat /\ i \in 1..y /\ j \in 1..y /\ Len(In) = x + y
          BY <2>4
        <5> HIDE DEF x, y
        <5>2. i + x # x + y
          BY <5>1
        <5> QED BY <5>1, <5>2 DEF x
      <4> QED BY <2>2, <2>4, <4>1
    <3>7. Stuck'
      <4>1. Range(toDevice') \subseteq {"undo"}
        BY <1>5, <2>1, ShortRange
      <4>2. cl'.aclPrompt = NoPrompt
        BY <1>1, <3>3
      <4>3. Range(In') \cap {Remark, Question} = {}
        BY <1>2, <3>4, <3>5 DEF Range
      <4>4. \A i, j \in DOMAIN In' : i < j /\ In'[i] \in Prompts => In'[j] \in Prompts \cup {Tok("error")}
        BY <1>2, <3>6
      <4> QED BY <4>1, <4>2, <4>3, <4>4 DEF Stuck
    <3> QED BY <3>7
  <2> QED BY <2>5, <2>6
<1> QED BY <1>1, <1>7, <1>8

(* The answer to the only command there is.                                *)
LEMMA TalkSays ==
  ASSUME TypeInv, ViewInv, TalkInv, NEW c, NEW text, Says(c, text)
  PROVE  TalkInv'
<1>1. /\ toDevice # <<>> /\ c = Head(toDevice) /\ toDevice' = Tail(toDevice)
      /\ UNCHANGED <<job, style, cl>> /\ Answers(c, text) /\ Acts(c, text)
  BY DEF Says
<1>2. text \in Seq(Token) /\ In' = In \o text
  BY Grown
<1>3. In = <<>> => In' = text
  BY <1>2, ConcatEmptySeq
<1>4. ASSUME NEW d, toDevice = <<d>>
      PROVE  c = d /\ toDevice' = <<>>
  BY <1>1, <1>4, OneRead
<1>5. (cl.pc \in {"greeting", "password", "login", "system", "acl"} =>
         \/ toDevice = <<>> /\ Reply(In)
         \/ (\E d \in Plain : toDevice = <<d>>) /\ In = <<>>)'
  <2> SUFFICES ASSUME cl.pc \in {"greeting", "password", "login", "system", "acl"}
               PROVE  toDevice' = <<>> /\ Reply(In')
    BY <1>1
  <2>1. PICK d \in Plain : toDevice = <<d>> /\ In = <<>>
    BY <1>1 DEF TalkInv
  <2>2. c = d /\ toDevice' = <<>>
    BY <1>4, <2>1
  <2> QED BY <1>1, <1>3, <2>1, <2>2 DEF Answers
<1>6. (cl.pc = "this" => \/ toDevice = <<"display this">> /\ In = <<>>
                         \/ toDevice = <<>> /\ Body(In))'
  <2> SUFFICES ASSUME cl.pc = "this"
               PROVE  toDevice' = <<>> /\ Body(In')
    BY <1>1
  <2>1. toDevice = <<"display this">> /\ In = <<>>
    BY <1>1 DEF TalkInv
  <2>2. c = "display this" /\ toDevice' = <<>>
    BY <1>4, <2>1
  <2> QED BY <1>1, <1>3, <2>1, <2>2 DEF Answers
<1>7. cl.pc \in Writing => Misled \/ ~ style.otherAcl
  BY DEF ViewInv, Known, InAcl
<1>8. ASSUME NEW d \in Edits, toDevice = <<d>>, In = <<>>, cl.pc \in Writing
      PROVE  /\ c = d /\ toDevice' = <<>> /\ In' = text /\ Reply(text)
             /\ ~ Failed(text) =>
                  \/ Misled
                  \/ /\ c = "rule" => job.n \in held'
                     /\ c = "comment" => job.n \in marked'
                     /\ c = "undo" => job.n \notin held'
  <2>1. c = d /\ toDevice' = <<>> /\ In' = text
    BY <1>3, <1>4, <1>8
  <2>2. Reply(text)
    BY <1>1, <2>1 DEF Answers
  <2>3. Failed(text) \/ style.otherAcl \/
          /\ c = "rule" => job.n \in held'
          /\ c = "comment" => job.n \in marked'
          /\ c = "undo" => job.n \notin held'
    BY <1>1 DEF Acts
  <2> QED BY <1>7, <1>8, <2>1, <2>2, <2>3
<1>9. (cl.pc = "rule" => Talk("rule", job.n \in held))'
  <2> SUFFICES ASSUME cl.pc = "rule"
               PROVE  toDevice' = <<>> /\ Reply(In') /\ (~ Failed(In') => Misled \/ job.n \in held')
    BY <1>1 DEF Talk, Failed, Has
  <2>1. toDevice = <<"rule">> /\ In = <<>>
    BY <1>1 DEF TalkInv, Talk
  <2>2. "rule" \in Edits /\ "rule" \in Writing
    BY DEF Edits, Writing
  <2> QED BY <1>8, <2>1, <2>2
<1>10. (cl.pc = "comment" => Talk("comment", job.n \in marked) /\ (Misled \/ job.n \in held))'
  <2> SUFFICES ASSUME cl.pc = "comment"
               PROVE  /\ toDevice' = <<>> /\ Reply(In')
                      /\ ~ Failed(In') => Misled \/ job.n \in marked'
                      /\ Misled \/ job.n \in held'
    BY <1>1 DEF Talk, Failed, Has
  <2>1. toDevice = <<"comment">> /\ In = <<>> /\ (Misled \/ job.n \in held)
    BY <1>1 DEF TalkInv, Talk
  <2>2. "comment" \in Edits /\ "comment" \in Writing
    BY DEF Edits, Writing
  <2>3. c = "comment"
    BY <1>4, <2>1
  <2>4. held' = held
    BY <1>1, <2>3 DEF Acts
  <2> QED BY <1>8, <2>1, <2>2, <2>3, <2>4
<1>11. (cl.pc = "undo" => Talk("undo", job.n \notin held) \/ Stuck)'
  <2> SUFFICES ASSUME cl.pc = "undo"
               PROVE  Talk("undo", job.n \notin held)' \/ Stuck'
    BY <1>1
  <2>1. CASE toDevice = <<"undo">> /\ In = <<>>
    <3>1. "undo" \in Edits /\ "undo" \in Writing
      BY DEF Edits, Writing
    <3>2. toDevice' = <<>> /\ Reply(In') /\ (~ Failed(In') => Misled \/ job.n \notin held')
      BY <1>8, <2>1, <3>1
    <3> QED BY <1>1, <3>2 DEF Talk, Failed, Has
  <2>2. CASE Stuck
    <3>1. /\ cl.aclPrompt = NoPrompt /\ Range(toDevice) \subseteq {"undo"}
          /\ Range(In) \cap {Remark, Question} = {}
          /\ \A i, j \in DOMAIN In : i < j /\ In[i] \in Prompts => In[j] \in Prompts \cup {Tok("error")}
      BY <2>2 DEF Stuck
    <3>2. Sent(c) /\ \A d : Sent(d)' => Sent(d)
      BY AfterSaying
    <3>3. c = "undo" /\ Range(toDevice') \subseteq {"undo"}
      BY <3>1, <3>2, SentRange
    <3>4. Range(text) \subseteq Prompts \cup {Tok("error")}
      BY <1>1, <3>3 DEF Answers, Edits
    <3>5. Range(In') = Range(In) \cup Range(text)
      BY Grown
    <3>6. Range(In') \cap {Remark, Question} = {}
      <4>1. \A x \in Prompts \cup {Tok("error")} : x # Remark /\ x # Question
        BY PromptTags, WordTags
      <4> QED BY <3>1, <3>4, <3>5, <4>1
    <3>7. \A i, j \in DOMAIN In' : i < j /\ In'[i] \in Prompts => In'[j] \in Prompts \cup {Tok("error")}
      <4> DEFINE z == In \o text
                 y == Len(In)
      <4>1. In \in Seq(Token)
        BY Texts
      <4>2. /\ DOMAIN z = 1..Len(z) /\ DOMAIN In = 1..y
            /\ \A i \in DOMAIN z :
                 \/ i \in DOMAIN In /\ z[i] = In[i]
                 \/ i - y \in DOMAIN text /\ z[i] = text[i - y]
            /\ \A i \in DOMAIN In : z[i] = In[i]
        BY <1>2, <4>1, Positions
      <4>3. y \in Nat /\ Len(z) \in Nat
        BY <1>2, <4>1, LenProperties, ConcatProperties
      <4> HIDE DEF z, y
      <4> SUFFICES ASSUME NEW i \in DOMAIN z, NEW j \in DOMAIN z, i < j, z[i] \in Prompts
                   PROVE  z[j] \in Prompts \cup {Tok("error")}
        BY <1>2 DEF z
      <4>4. CASE j \in DOMAIN In /\ z[j] = In[j]
        <5>1. i \in DOMAIN In
          BY <4>2, <4>3, <4>4
        <5> QED BY <3>1, <4>2, <4>4, <5>1
      <4>5. CASE j - y \in DOMAIN text /\ z[j] = text[j - y]
        <5>1. z[j] \in Range(text)
          BY <4>5 DEF Range
        <5> QED BY <3>4, <5>1
      <4> QED BY <4>2, <4>4, <4>5
    <3> QED BY <1>1, <3>1, <3>3, <3>6, <3>7 DEF Stuck
  <2> QED BY <1>1, <2>1, <2>2 DEF TalkInv, Talk
<1> QED BY <1>5, <1>6, <1>9, <1>10, <1>11 DEF TalkInv

(* The next command is sent when there is nothing more to say about the    *)
(* last.                                                                   *)
LEMMA TalkSends ==
  ASSUME TypeInv, JobInv, ViewInv, TextInv, DisplayInv, TalkInv, NEW c, NEW to, Sends(c, to)
  PROVE  TalkInv'
<1>1. /\ cl'.pc = to /\ Moves(c, to)
      /\ In' = toClient /\ toDevice' = Append(toDevice, c)
      /\ UNCHANGED <<job, style, held, marked>>
  BY Answering DEF Sends
<1>2. toDevice = <<>> => toDevice' = <<c>>
  BY <1>1, OneSent
<1> DEFINE Simple == {"greeting", "password", "login", "system", "acl"}
<1>3. CASE Opens(c, to) /\ Matched
  <2>1. cl.pc \in Simple /\ cl.pc \notin Displays /\ to \notin Displays \cup Writing
        /\ (to = "this" => c = "display this")
        /\ (to \in Simple => c \in Plain)
    BY <1>3 DEF Opens, Displays, Writing, Plain
  <2>2. toDevice = <<>> /\ Reply(In)
    BY <1>3, <2>1, NothingRead DEF TalkInv
  <2>3. toClient = <<>>
    BY <1>3, <2>1, <2>2, AllRead
  <2> QED BY <1>1, <1>2, <2>1, <2>2, <2>3 DEF TalkInv, Writing
<1>4. CASE to \notin Simple \cup {"this", "rule", "comment", "undo"}
  BY <1>1, <1>4 DEF TalkInv
<1>5. CASE Enters(c, to) /\ to = "undo"
  <2>1. Talk("undo", job.n \notin held)' \/ Stuck'
    BY <1>5, EntersUndo
  <2> QED BY <1>1, <1>5, <2>1 DEF TalkInv
<1>6. CASE LastPage("guard") /\ GuardHolds(Output) /\ c = to /\ to \in {"undo", "rule"}
  <2>1. toDevice = <<>> /\ toClient = <<>>
    <3>1. Count(Output) # NoCount
      BY <1>6 DEF GuardHolds
    <3> QED BY <1>6, <3>1, WholeOutput DEF Displays
  <2>2. toDevice' = <<c>> /\ In' = <<>>
    BY <1>1, <1>2, <2>1
  <2> QED BY <1>1, <1>6, <2>2 DEF TalkInv, Talk
<1>7. CASE cl.pc = "rule" /\ Matched /\ Done /\ c = "comment" /\ to = "comment"
  <2>1. toDevice = <<>> /\ toClient = <<>> /\ (Misled \/ job.n \in held)
    BY <1>7, DoneMeansDone
  <2>2. toDevice' = <<c>> /\ In' = <<>>
    BY <1>1, <1>2, <2>1
  <2> QED BY <1>1, <1>7, <2>1, <2>2 DEF TalkInv, Talk
<1>8. \/ Opens(c, to) /\ Matched
      \/ to \notin Simple \cup {"this", "rule", "comment", "undo"}
      \/ Enters(c, to) /\ to = "undo"
      \/ LastPage("guard") /\ GuardHolds(Output) /\ c = to /\ to \in {"undo", "rule"}
      \/ cl.pc = "rule" /\ Matched /\ Done /\ c = "comment" /\ to = "comment"
  <2>1. Enters(c, to) => to \in {"guard", "undo"}
    BY DEF Enters
  <2>2. Leaves(c, to) => to \in {"quit_acl", "quit_system", "save", "confirm"}
    BY DEF Leaves
  <2>3. Edited(c, to) =>
          \/ to = "undo_comment"
          \/ LastPage("guard") /\ GuardHolds(Output) /\ c = to /\ to \in {"undo", "rule"}
          \/ cl.pc = "rule" /\ Matched /\ Done /\ c = "comment" /\ to = "comment"
    BY DEF Edited
  <2> QED BY <1>1, <2>1, <2>2, <2>3 DEF Moves
<1> QED BY <1>3, <1>4, <1>5, <1>6, <1>7, <1>8

(* One command, one answer: from the greeting to the last edit.            *)
LEMMA TalkNext ==
  ASSUME TypeInv, JobInv, ViewInv, TextInv, DisplayInv, TalkInv, [Next]_vars
  PROVE  TalkInv'
<1>1. CASE Reads
  <2>1. UNCHANGED <<job, style, held, marked, toDevice>> /\ In' = In
        /\ cl'.pc = cl.pc /\ cl'.aclPrompt = cl.aclPrompt
    BY <1>1 DEF Reads, ruleVars
  <2> QED BY <2>1 DEF TalkInv, Talk, Stuck
<1>2. CASE Pages
  <2>1. cl'.pc \in Displays
    BY <1>2 DEF Pages
  <2> QED BY <2>1 DEF TalkInv, Displays
<1>3. CASE Quiet
  <2>1. UNCHANGED <<job, style, held, marked, cl>> /\ In' = In
        /\ (toDevice' = toDevice \/ cl.pc = "done")
    BY <1>3 DEF Quiet, In, ruleVars
  <2> QED BY <2>1 DEF TalkInv, Talk, Stuck
<1> QED BY <1>1, <1>2, <1>3, TalkSays, TalkSends, Steps

(* Leaving the view, and saving, come after the whole of the edit.         *)
LEMMA FinishNext ==
  ASSUME TypeInv, JobInv, OrderInv, TalkInv, FinishInv, [Next]_vars
  PROVE  FinishInv'
<1> DEFINE Good == Success \in Range(In)
<1>0. (Has(In, {Success}) <=> Good) /\ (Has(In', {Success}) <=> Success \in Range(In'))
  BY HasRange
<1>a. /\ cl.pc \in Leaving \cup Saving => NoEdit /\ Finished
      /\ Sent("save force") \/ Sent("Y") =>
           cl.pc \in Saving \cup {"done"} /\ job.op \in {"apply", "remove"} /\ NoEdit /\ Finished
      /\ Success \in Range(In) => cl.pc \in Saving \cup {"done"} /\ stored = held /\ NoEdit
      /\ cl.res = "ok" => NoEdit /\ Finished /\ (job.op = "rollback" \/ stored = held)
  BY <1>0 DEF FinishInv
<1> SUFFICES
      /\ cl'.pc \in Leaving \cup Saving => NoEdit' /\ Finished'
      /\ Sent("save force")' \/ Sent("Y")' =>
           cl'.pc \in Saving \cup {"done"} /\ job'.op \in {"apply", "remove"} /\ NoEdit' /\ Finished'
      /\ Success \in Range(In') => cl'.pc \in Saving \cup {"done"} /\ stored' = held' /\ NoEdit'
      /\ cl'.res = "ok" => NoEdit' /\ Finished' /\ (job'.op = "rollback" \/ stored' = held')
  BY <1>0 DEF FinishInv
<1>1. CASE \E c, text : Says(c, text)
  <2>1. PICK c, text : Says(c, text)
    BY <1>1
  <2>2. UNCHANGED <<job, style, cl>>
    BY <2>1 DEF Says
  <2>3. Sent(c) /\ \A d : Sent(d)' => Sent(d)
    BY <2>1, AfterSaying
  <2>4. c \notin Edits => held' = held /\ marked' = marked
    BY <2>1 DEF Says, Acts
  <2>5. NoEdit => held' = held /\ marked' = marked /\ NoEdit'
    BY <2>3, <2>4 DEF NoEdit
  <2>6. NoEdit /\ Finished => Finished'
    BY <2>2, <2>5 DEF Finished
  <2>7. stored' = stored \/ (stored' = held /\ c \in {"save force", "Y"})
    BY <2>1 DEF Says, Acts
  <2>8. Range(In') = Range(In) \cup Range(text) /\ \A x \in Range(text) : WordOk(c, x)
    BY <2>1, Grown DEF Says, Answers
  <2>9. Success \in Range(text) => c \in {"save force", "Y"} /\ stored' = held
    BY <2>8 DEF WordOk
  <2> QED BY <1>a, <2>2, <2>3, <2>5, <2>6, <2>7, <2>8, <2>9
<1>2. CASE \E c, to : Sends(c, to)
  <2>1. PICK c, to : Sends(c, to)
    BY <1>2
  <2>2. /\ cl'.pc = to /\ cl.pc # "done" /\ cl.res = "none"
        /\ UNCHANGED <<job, style, held, marked, stored>>
        /\ Range(In') \subseteq Range(In)
        /\ \A d : Sent(d)' <=> Sent(d) \/ d = c
    BY <2>1, Answering, AfterSending DEF Sends, JobInv
  <2>3. Finished' = Finished /\ (NoEdit' <=> NoEdit /\ c \notin Edits)
    BY <2>2 DEF Finished, NoEdit
  <2>4. c \in Edits => to \in Writing /\ cl.pc \in PreQuit
    BY <2>1, SendsFrom
  <2>5. /\ Writing \cap (Leaving \cup Saving \cup {"done"}) = {}
        /\ PreQuit \cap (Leaving \cup Saving \cup {"done"}) = {}
        /\ Leaving \cap Saving = {} /\ "done" \notin Leaving \cup Saving
    BY DEF Writing, Leaving, Saving, PreQuit, Early, Displays
  <2>6. ASSUME cl.pc \in Leaving \cup Saving
        PROVE  NoEdit' /\ Finished'
    BY <1>a, <2>3, <2>4, <2>5, <2>6
  <2>7. ASSUME to \in Leaving \cup Saving
        PROVE  NoEdit' /\ Finished'
    <3>1. CASE cl.pc \in Leaving \cup Saving
      BY <2>6, <3>1
    <3>2. CASE cl.pc \notin Leaving \cup Saving
      <4>1. cl.pc \in {"rule", "comment", "undo"}
        BY <2>1, <2>7, <3>2, SendsFrom
      <4>2. /\ cl.pc \in {"rule", "comment", "undo"} /\ Matched /\ Done
            /\ cl.pc = "rule" => ~ job.comment
        <5>1. Moves(c, to) /\ to # "done" /\ to \notin Writing \cup Displays
          BY <2>1, <2>5, <2>7 DEF Sends, Leaving, Saving, Displays
        <5>2. ~ Opens(c, to) /\ ~ Enters(c, to)
          BY <4>1 DEF Opens, Enters
        <5>3. ~ Edited(c, to)
          BY <5>1 DEF Edited, Writing
        <5>4. Leaves(c, to)
          BY <5>1, <5>2, <5>3 DEF Moves, Displays
        <5> QED BY <4>1, <5>4 DEF Leaves
      <4>3. /\ toDevice = <<>>
            /\ cl.pc = "rule" => Misled \/ job.n \in held
            /\ cl.pc = "comment" => Misled \/ (job.n \in held /\ job.n \in marked)
            /\ cl.pc = "undo" => Misled \/ job.n \notin held
        BY <4>2, DoneMeansDone
      <4>4. /\ cl.pc \in {"rule", "comment"} => job.op = "apply"
            /\ cl.pc = "undo" => job.op # "apply"
        BY DEF JobInv
      <4>5. Finished
        BY <4>2, <4>3, <4>4 DEF Finished
      <4>6. NoEdit
        BY <4>3, SentRange, ShortRange DEF NoEdit
      <4> QED BY <2>3, <2>4, <2>5, <2>7, <4>5, <4>6
    <3> QED BY <3>1, <3>2
  <2>8. ASSUME Sent("save force")' \/ Sent("Y")'
        PROVE  to \in Saving \cup {"done"} /\ job.op \in {"apply", "remove"} /\ NoEdit' /\ Finished'
    <3>1. CASE c \in {"save force", "Y"}
      <4>1. to \in Saving
        BY <2>1, <3>1, SendsFrom
      <4>2. cl.pc \in Leaving \cup Saving /\ JobInv'
        <5>1. JobInv'
          BY <2>1, JobNext
        <5> QED BY <2>1, <4>1, <5>1, SendsFrom
      <4>3. job.op \in {"apply", "remove"}
        BY <2>2, <4>1, <4>2 DEF JobInv
      <4> QED BY <2>7, <4>1, <4>3
    <3>2. CASE c \notin {"save force", "Y"}
      <4>1. cl.pc \in Saving /\ job.op \in {"apply", "remove"}
        BY <1>a, <2>2, <2>8, <3>2
      <4>2. to \in Saving \cup {"done"}
        <5>1. Moves(c, to)
          BY <2>1 DEF Sends
        <5> QED BY <4>1, <5>1 DEF Moves, Opens, Enters, Edited, LastPage, Answered, Leaves, Saving
      <4> QED BY <2>6, <4>1, <4>2
    <3> QED BY <3>1, <3>2
  <2>9. ASSUME Success \in Range(In')
        PROVE  to \in Saving \cup {"done"} /\ stored = held /\ NoEdit'
    <3>1. cl.pc \in Saving /\ stored = held
      BY <1>a, <2>2, <2>9
    <3>2. to \in Saving \cup {"done"}
      <4>1. Moves(c, to)
        BY <2>1 DEF Sends
      <4> QED BY <3>1, <4>1 DEF Moves, Opens, Enters, Edited, LastPage, Answered, Leaves, Saving
    <3> QED BY <2>6, <3>1, <3>2
  <2>10. ASSUME cl'.res = "ok"
         PROVE  NoEdit' /\ Finished' /\ (job.op = "rollback" \/ stored = held)
    <3>1. to = "done" /\ \/ cl.pc = "quit_system" /\ job.op = "rollback"
                         \/ cl.pc \in Saving /\ Has(cl.buf, {Success})
      BY <2>1, <2>2, <2>10 DEF Sends, Result
    <3>2. cl.pc \in Leaving \cup Saving
      BY <3>1 DEF Leaving
    <3>3. Has(cl.buf, {Success}) => Success \in Range(In)
      BY HasRange, Texts
    <3> QED BY <1>a, <2>6, <3>1, <3>2, <3>3
  <2> QED BY <2>2, <2>7, <2>8, <2>9, <2>10
<1>3. CASE Reads
  <2>1. /\ UNCHANGED <<job, style, held, marked, stored, toDevice>> /\ In' = In
        /\ cl'.pc = cl.pc /\ cl'.res = cl.res
    BY <1>3 DEF Reads, ruleVars
  <2> QED BY <1>a, <2>1 DEF NoEdit, Finished, Sent
<1>4. CASE Pages
  <2>1. /\ UNCHANGED <<job, style, held, marked, stored>> /\ cl'.pc = cl.pc /\ cl'.res = cl.res
        /\ cl.pc \in Displays /\ toDevice' = Append(toDevice, " ") /\ In' = toClient
    BY <1>4 DEF Pages, Others, ruleVars
  <2>2. cl.pc \notin Leaving \cup Saving \cup {"done"}
    BY <2>1 DEF Displays, Leaving, Saving
  <2>3. \A d : Sent(d)' <=> Sent(d) \/ d = " "
    BY <2>1, AfterSending DEF Commands
  <2>4. Range(In') \subseteq Range(In)
    BY <2>1, Texts
  <2>5. cl.res # "ok"
    BY <2>2 DEF JobInv
  <2> QED BY <1>a, <2>1, <2>2, <2>3, <2>4, <2>5
<1>5. CASE Quiet
  <2>1. UNCHANGED <<job, style, held, marked, stored, cl>> /\ In' = In
    BY <1>5 DEF Quiet, In, ruleVars
  <2>2. \A d : Sent(d)' => Sent(d)
    BY <1>5, SentRange, ShortRange DEF Quiet
  <2>3. Finished' = Finished /\ (NoEdit => NoEdit')
    BY <2>1, <2>2 DEF Finished, NoEdit
  <2> QED BY <1>a, <2>1, <2>2, <2>3
<1> QED BY <1>1, <1>2, <1>3, <1>4, <1>5, Steps

-----------------------------------------------------------------------------
(* The whole of the invariant.                                             *)

SessionInv ==
  /\ TypeInv /\ JobInv /\ OrderInv
  /\ ViewInv /\ EnterInv /\ TextInv /\ EarlyInv /\ DisplayInv /\ ReadInv
  /\ TalkInv /\ FinishInv /\ GuardInv

(* A session begins with a prompt for a user, a password or a command.     *)
LEMMA InitInv == Init => SessionInv
<1> SUFFICES ASSUME Init
             PROVE  SessionInv
  OBVIOUS
<1> DEFINE p == Prompt(style.login)
<1>1. PICK c \in Cases : job = c.job /\ style = c.style
  BY DEF Init
<1>2. style.login \in {"username", "password", "user"}
  BY <1>1, SessionAssumption
<1>3. /\ held \in SUBSET RuleIds /\ stored = held
      /\ dev = [view |-> style.login, paging |-> TRUE, page |-> <<>>, asking |-> FALSE, alive |-> TRUE]
      /\ toDevice = <<>> /\ toClient = <<p>>
      /\ cl = [pc |-> "greeting", buf |-> <<>>, full |-> <<>>, aclPrompt |-> NoPrompt, res |-> "none"]
  BY DEF Init
<1>4. style.login \in Views
  BY <1>2 DEF Views
<1>5. /\ p \in Token /\ p # AclPrompt
      /\ p \in {UserPrompt, SysPrompt, AclPrompt, OtherPrompt, Tok("Username:"), Tok("Password:")}
  BY <1>2, <1>4, PromptIs
<1>6. p.t \in {"<H>", "[H]", "[H-acl-N]", "[H-acl-M]", "Username:", "Password:"}
  BY <1>5, WordTags
<1> HIDE DEF p
<1>7. /\ <<p>> \in Seq(Token) /\ Len(<<p>>) = 1 /\ <<p>>[1] = p /\ Range(<<p>>) = {p}
  BY <1>5, OneWord
<1>8. /\ cl.pc = "greeting" /\ cl.buf = <<>> /\ cl.full = <<>> /\ cl.aclPrompt = NoPrompt
      /\ cl.res = "none" /\ dev.page = <<>> /\ dev.view = style.login
  BY <1>3
<1>9. In = <<p>> /\ All = <<p>>
  BY <1>3, <1>7, <1>8, ConcatEmptySeq DEF In, All
<1>10. \A d : ~ Sent(d)
  BY <1>3, SentRange, ShortRange
<1>11. /\ p # Tok("acl N") /\ p # Tok("More") /\ p # Success /\ p.t \notin {"rule", "header"}
  BY <1>6, WordTags
<1>12. TypeInv
  <2>1. dev \in Devs
    BY <1>3, <1>4, EmptySeq DEF Devs
  <2>2. cl \in Clients
    BY <1>3, EmptySeq DEF Clients, PreQuit, Early
  <2> QED BY <1>1, <1>3, <1>7, <2>1, <2>2, EmptySeq DEF TypeInv
<1>13. JobInv
  BY <1>8 DEF JobInv, Leaving, Saving
<1>14. OrderInv
  <2>1. \A a, b : ~ Before(toDevice, a, b)
    BY <1>3 DEF Before
  <2> QED BY <1>10, <2>1 DEF OrderInv
<1>15. ViewInv /\ EnterInv
  <2>1. ~ Has(In, {AclPrompt, Tok("acl N")})
    BY <1>5, <1>7, <1>9, <1>11, HasRange
  <2> QED BY <1>8, <1>10, <2>1 DEF ViewInv, EnterInv, Writing
<1>16. TextInv
  BY <1>7, <1>8, <1>9, <1>11, ShortRange DEF TextInv, TrueLine
<1>17. EarlyInv
  BY <1>7, <1>8, <1>9, <1>10, <1>11 DEF EarlyInv, Headed
<1>18. DisplayInv /\ ReadInv
  BY <1>8 DEF DisplayInv, ReadInv, Displays
<1>19. TalkInv
  <2>1. Reply(In)
    <3>1. DOMAIN <<p>> = 1..1
      OBVIOUS
    <3> QED BY <1>7, <1>9, <3>1 DEF Reply
  <2> QED BY <1>3, <1>8, <2>1 DEF TalkInv
<1>20. FinishInv
  <2>1. ~ Has(In, {Success})
    BY <1>7, <1>9, <1>11, HasRange
  <2> QED BY <1>8, <1>10, <2>1 DEF FinishInv, Leaving, Saving
<1>21. GuardInv
  BY <1>10 DEF GuardInv
<1> QED
  BY <1>12, <1>13, <1>14, <1>15, <1>16, <1>17, <1>18, <1>19, <1>20, <1>21 DEF SessionInv

(* Every step keeps every part of it.                                      *)
LEMMA NextInv == SessionInv /\ [Next]_vars => SessionInv'
<1> SUFFICES ASSUME SessionInv, [Next]_vars
             PROVE  SessionInv'
  OBVIOUS
<1>1. /\ TypeInv /\ JobInv /\ OrderInv
      /\ ViewInv /\ EnterInv /\ TextInv /\ EarlyInv /\ DisplayInv /\ ReadInv
      /\ TalkInv /\ FinishInv /\ GuardInv
  BY DEF SessionInv
<1>2. TypeInv' /\ JobInv' /\ OrderInv' /\ ViewInv' /\ EnterInv'
  BY <1>1, TypeNext, JobNext, OrderNext, ViewNext, EnterNext
<1>3. TextInv' /\ EarlyInv' /\ DisplayInv' /\ ReadInv'
  BY <1>1, TextNext, EarlyNext, DisplayNext, ReadNext
<1>4. TalkInv' /\ FinishInv' /\ GuardInv'
  BY <1>1, TalkNext, FinishNext, GuardNext
<1> QED BY <1>2, <1>3, <1>4 DEF SessionInv

(* The invariant of every session, whatever the switch, the job, the sizes *)
(* of the pages and of the pieces.                                         *)
THEOREM SessionCorrect == Spec => []SessionInv
BY InitInv, NextInv, PTL DEF Spec

(* GuardHeld: an edit is sent on its way only to the rules the plan was    *)
(* made for (GuardCheck), and nothing the agent sends meanwhile makes the  *)
(* guard's finding old.                                                    *)
THEOREM GuardHeldHolds == Spec => []GuardHeld
<1>1. SessionInv => GuardHeld
  BY DEF SessionInv, GuardInv, GuardHeld, Expected
<1> QED BY <1>1, SessionCorrect, PTL

(* SnapshotIsWhole: what aclout.Count accepts names every rule and no      *)
(* other, whatever pages and pieces it came in.                            *)
THEOREM SnapshotIsWholeHolds == Spec => []SnapshotIsWhole
<1>1. SessionInv => SnapshotIsWhole
  BY DEF SessionInv, ReadInv, SnapshotIsWhole
<1> QED BY <1>1, SessionCorrect, PTL

(* No switch whose name ends in the number of the ACL enters another ACL.  *)
TellingNames == \A c \in Cases : c.style.hostNumber => ~ c.style.otherAcl

(* WritesInOwnAcl: unless the name of the switch itself passes for the     *)
(* ACL's number (EnterACLView), no edit is on its way to any other view.   *)
THEOREM WritesInOwnAclHolds ==
  ASSUME TellingNames
  PROVE  Spec => []WritesInOwnAcl
<1>1. SessionInv => WritesInOwnAcl
  BY TellingNames DEF SessionInv, TypeInv, ViewInv, Known, InAcl, TellingNames, WritesInOwnAcl
<1> QED BY <1>1, SessionCorrect, PTL

(* OkMeansDone: "ok" is reported only when the rule is as the job wants it *)
(* and, for an add or a removal, saved.                                    *)
THEOREM OkMeansDoneHolds ==
  ASSUME TellingNames
  PROVE  Spec => []OkMeansDone
<1>1. SessionInv => OkMeansDone
  <2> SUFFICES ASSUME SessionInv, cl.res = "ok"
               PROVE  OkMeansDone
    BY DEF OkMeansDone
  <2>1. ~ Misled /\ job.op \in {"snapshot", "apply", "remove", "rollback"}
    BY SessionAssumption, TellingNames DEF SessionInv, TypeInv, TellingNames
  <2>2. Finished /\ (job.op = "rollback" \/ stored = held)
    BY DEF SessionInv, FinishInv
  <2> QED BY <2>1, <2>2 DEF Finished, OkMeansDone
<1> QED BY <1>1, SessionCorrect, PTL

(* SavesOnlyFinished: the startup configuration is written only when the   *)
(* running one holds the whole of the job; a rule whose comment failed is  *)
(* never saved.                                                            *)
THEOREM SavesOnlyFinishedHolds ==
  ASSUME TellingNames
  PROVE  Spec => SavesOnlyFinished
<1> DEFINE Whole == CASE job.op = "apply" -> job.n \in held /\ (job.comment => job.n \in marked)
                      [] job.op = "remove" -> job.n \notin held
                      [] OTHER -> FALSE
<1>1. SessionInv /\ [Next]_vars => [stored' # stored => Whole]_vars
  <2> SUFFICES ASSUME SessionInv, [Next]_vars, stored' # stored
               PROVE  Whole
    OBVIOUS
  <2>1. TypeInv /\ FinishInv
    BY DEF SessionInv
  <2>2. ~ Misled
    BY <2>1, TellingNames DEF TypeInv, TellingNames
  <2>3. CASE \E c, text : Says(c, text)
    <3>1. PICK c, text : Says(c, text)
      BY <2>3
    <3>2. c \in {"save force", "Y"} /\ Sent(c)
      BY <2>1, <3>1, AfterSaying DEF Says, Acts
    <3>3. job.op \in {"apply", "remove"} /\ Finished
      BY <2>1, <3>2 DEF FinishInv
    <3> QED BY <2>2, <3>3 DEF Finished
  <2>4. CASE \E c, to : Sends(c, to)
    BY <2>1, <2>4, Answering
  <2>5. CASE Reads \/ Pages \/ Quiet
    BY <2>5 DEF Reads, Pages, Quiet, Others, ruleVars
  <2> QED BY <2>1, <2>3, <2>4, <2>5, Steps
<1> QED BY <1>1, SessionCorrect, PTL DEF Spec, SavesOnlyFinished
=============================================================================
