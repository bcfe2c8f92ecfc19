-------------------------- MODULE LiveOutput_proofs ---------------------------
(***************************************************************************)
(* For any number of browsers, plain executions, lines and sizes of the    *)
(* pipes: an agent is not brought down by a browser that stalls or leaves, *)
(* the last event is the outcome, and a page shows the output in order and *)
(* in the end all of it.                                                   *)
(***************************************************************************)
EXTENDS LiveOutput, SequenceTheorems, TLAPS

(***************************************************************************)
(* The inductive invariant.  The copying goroutine fails when it writes to *)
(* a closed reader, and that makes the agent's next write fail.  So one    *)
(* has to know that the handler closes the reader early for one reason     *)
(* only, and that otherwise the copier has ended by then.                  *)
(***************************************************************************)
IsOn(f) == f = [s \in Streams |-> f[s]]

Types ==
  /\ handler \in [Streams -> {"idle", "scan", "show", "close", "wait", "ended"}]
  /\ dispatcher \in [Dispatches ->
       {"idle", "lock", "check", "agent", "unlock", "close", "ended"}]
  /\ agent \in [Dispatches -> {"none", "runs", "ok", "failed", "killed", "broken pipe"}]
  /\ copier \in [Streams -> {"none", "copies", "ended", "failed"}]
  /\ said \in [Streams -> Nat] /\ long \in [Streams -> Nat]
  /\ IsOn(pipe) /\ IsOn(chunk) /\ IsOn(lines)

LongSaid(s) == long[s] \in 1..said[s]

(* What is on its way was said.                                            *)
WasSaid(s) ==
  /\ pipe[s] \in Seq(1..said[s])
  /\ chunk[s] \in Seq(1..said[s])
  /\ lines[s] \in Seq(1..said[s])

(* The copier works for a dispatcher that waits for it.                    *)
CopierAwaited(s) ==
  /\ handler[s] = "idle" => dispatcher[s] = "idle"
  /\ dispatcher[s] \in {"idle", "lock", "check"} => copier[s] = "none"
  /\ dispatcher[s] \in {"unlock", "close", "ended"} => copier[s] # "copies"

(* The handler stops reading at the end, or at a line that is too long.    *)
StopsForLong(s) ==
  /\ handler[s] \in {"close", "wait", "ended"} => dispatcher[s] = "ended" \/ LongSaid(s)
  /\ copier[s] = "failed" => LongSaid(s)
  /\ agent[s] = "broken pipe" => LongSaid(s)

LiveInv ==
  /\ Types
  /\ \A s \in Streams : WasSaid(s) /\ CopierAwaited(s) /\ StopsForLong(s)

-----------------------------------------------------------------------------
(* A part of a sequence has the elements of the sequence.                  *)
LEMMA Piece ==
  ASSUME NEW S, NEW q \in Seq(S), NEW n \in 1..Len(q)
  PROVE  SubSeq(q, 1, n) \in Seq(S) /\ SubSeq(q, n + 1, Len(q)) \in Seq(S)
<1>1. Len(q) \in Nat /\ \A i \in 1..Len(q) : q[i] \in S
  OBVIOUS
<1>2. \A i \in 1..n : q[i] \in S
  BY <1>1
<1>3. \A i \in (n + 1)..Len(q) : q[i] \in S
  BY <1>1
<1>4. n \in Int /\ n + 1 \in Int /\ Len(q) \in Int
  BY <1>1
<1>5. SubSeq(q, 1, n) \in Seq(S)
  BY <1>2, <1>4, SubSeqProperties
<1>6. SubSeq(q, n + 1, Len(q)) \in Seq(S)
  BY <1>3, <1>4, SubSeqProperties
<1> QED
  BY <1>5, <1>6

(* What was said stays said.                                               *)
LEMMA StaysSaid ==
  ASSUME NEW n \in Nat, NEW q \in Seq(1..n)
  PROVE  q \in Seq(1..n + 1)
<1>1. 1..n \subseteq 1..n + 1
  OBVIOUS
<1> QED
  BY <1>1

(* The initial state.                                                      *)
LEMMA InitLive == ASSUME Init PROVE LiveInv
<1>1. Types
  BY StreamAssumption DEF Init, Types, IsOn, Dispatches
<1>2. ASSUME NEW s \in Streams PROVE WasSaid(s) /\ CopierAwaited(s) /\ StopsForLong(s)
  BY <1>2 DEF Init, WasSaid, CopierAwaited, StopsForLong, Dispatches
<1> QED
  BY <1>1, <1>2 DEF LiveInv

-----------------------------------------------------------------------------
(* One more line said.                                                     *)
LEMMA OneMore ==
  ASSUME NEW f \in [Streams -> Nat], NEW s \in Streams
  PROVE  [f EXCEPT ![s] = f[s] + 1] \in [Streams -> Nat]
  OBVIOUS

(* Types, action by action.                                                *)
LEMMA TypesKept == ASSUME Types, [Next]_vars PROVE Types'
<1> USE DEF Types, IsOn, Dispatches, dispatchVars, processVars, browserVars
<1>1. CASE UNCHANGED vars
  BY <1>1 DEF vars
<1>2. ASSUME NEW s \in Streams, Start(s) PROVE Types'
  BY <1>2 DEF Start, HandlerTo, DispatcherTo
<1>3. ASSUME NEW s \in Streams, HandlerStep(s) PROVE Types'
  <2>1. CASE Fill(s)
    <3>1. /\ IsOn(lines)' /\ IsOn(chunk)'
      BY <2>1 DEF Fill
    <3> QED
      BY <2>1, <3>1 DEF Fill
  <2>2. CASE Show(s)
    BY <2>2 DEF Show, AfterShow, HandlerTo
  <2>3. CASE Scan(s) \/ EndOfOutput(s) \/ ClosePipe(s) \/ Tell(s)
    BY <2>3 DEF Scan, EndOfOutput, ClosePipe, Tell, HandlerTo
  <2> QED
    BY <1>3, <2>1, <2>2, <2>3 DEF HandlerStep
<1>4. ASSUME NEW s \in Streams, CopierStep(s) PROVE Types'
  <2>1. CASE Copy(s)
    <3>1. IsOn(pipe)' /\ IsOn(chunk)'
      BY <2>1 DEF Copy
    <3> QED
      BY <2>1, <3>1 DEF Copy
  <2>2. CASE CopyEnds(s)
    BY <2>2 DEF CopyEnds
  <2>3. CASE CopyFails(s)
    BY <2>3 DEF CopyFails
  <2> QED
    BY <1>4, <2>1, <2>2, <2>3 DEF CopierStep
<1>5. ASSUME NEW s \in Streams, Write(s) \/ Read(s) \/ Stall(s) \/ Resume(s) \/ GoAway(s)
      PROVE Types'
  <2>1. CASE Write(s)
    <3>0. said' = said \/ said' = [said EXCEPT ![s] = said[s] + 1]
      BY <2>1 DEF Write
    <3>1. said' \in [Streams -> Nat]
      <4>1. said \in [Streams -> Nat]
        OBVIOUS
      <4> HIDE DEF Types, IsOn
      <4> QED
        BY <3>0, <4>1, OneMore
    <3>2. IsOn(pipe)'
      BY <2>1 DEF Write
    <3>3. agent' \in [Dispatches ->
                       {"none", "runs", "ok", "failed", "killed", "broken pipe"}]
      BY <2>1 DEF Write, AgentTo
    <3> QED
      BY <2>1, <3>1, <3>2, <3>3 DEF Write
  <2>2. CASE Read(s)
    BY <2>2 DEF Read
  <2>3. CASE Stall(s) \/ Resume(s) \/ GoAway(s)
    BY <2>3 DEF Stall, Resume, GoAway, Turn
  <2> QED
    BY <1>5, <2>1, <2>2, <2>3
<1>6. ASSUME NEW d \in Dispatches, StartPost(d) \/ DispatcherStep(d) PROVE Types'
  <2>1. CASE StartAgent(d)
    <3>1. copier' \in [Streams -> {"none", "copies", "ended", "failed"}]
      BY <2>1 DEF StartAgent
    <3>2. dispatcher' \in [Dispatches ->
            {"idle", "lock", "check", "agent", "unlock", "close", "ended"}]
      BY <2>1 DEF StartAgent, DispatcherTo
    <3> QED
      BY <2>1, <3>1, <3>2 DEF StartAgent
  <2>2. CASE StartPost(d) \/ Lock(d) \/ Refuse(d) \/ Unlock(d) \/ CloseWriter(d)
    BY <2>2 DEF StartPost, Lock, Refuse, Unlock, CloseWriter, DispatcherTo
  <2>3. CASE Finish(d)
    BY <2>3 DEF Finish, DispatcherTo
  <2> QED
    BY <1>6, <2>1, <2>2, <2>3 DEF DispatcherStep
<1>7. ASSUME NEW d \in Dispatches, NEW r \in {"ok", "failed", "killed"}, Exit(d, r) PROVE Types'
  BY <1>7 DEF Exit, AgentTo
<1> QED
  BY <1>1, <1>2, <1>3, <1>4, <1>5, <1>6, <1>7 DEF Next, Kill

-----------------------------------------------------------------------------
(* What is on its way: only Write says more, and Fill, Show, Copy and      *)
(* CopyFails pass on what there is.                                        *)
LEMMA SaidKept ==
  ASSUME Types, [Next]_vars, \A s \in Streams : WasSaid(s)
  PROVE  \A s \in Streams : WasSaid(s)'
<1> SUFFICES ASSUME NEW t \in Streams PROVE WasSaid(t)'
  OBVIOUS
<1>1. WasSaid(t)
  OBVIOUS
<1>2. CASE UNCHANGED <<said, pipe, chunk, lines>>
  BY <1>1, <1>2 DEF WasSaid
<1>3. ASSUME NEW s \in Streams, Fill(s) PROVE WasSaid(t)'
  <2>1. PICK n \in 1..Len(chunk[s]) :
          /\ lines' = [lines EXCEPT ![s] = SubSeq(chunk[s], 1, n)]
          /\ chunk' = [chunk EXCEPT ![s] = SubSeq(chunk[s], n + 1, Len(chunk[s]))]
    BY <1>3 DEF Fill
  <2>2. chunk[s] \in Seq(1..said[s])
    BY DEF WasSaid
  <2>3. /\ SubSeq(chunk[s], 1, n) \in Seq(1..said[s])
        /\ SubSeq(chunk[s], n + 1, Len(chunk[s])) \in Seq(1..said[s])
    BY <2>2, Piece
  <2>4. said' = said /\ pipe' = pipe
    BY <1>3 DEF Fill, processVars
  <2> QED
    BY <1>1, <2>1, <2>3, <2>4 DEF WasSaid, Types, IsOn
<1>4. ASSUME NEW s \in Streams, Copy(s) PROVE WasSaid(t)'
  <2>1. PICK n \in 1..Len(pipe[s]) :
          /\ chunk' = [chunk EXCEPT ![s] = SubSeq(pipe[s], 1, n)]
          /\ pipe' = [pipe EXCEPT ![s] = SubSeq(pipe[s], n + 1, Len(pipe[s]))]
    BY <1>4 DEF Copy
  <2>2. pipe[s] \in Seq(1..said[s])
    BY DEF WasSaid
  <2>3. /\ SubSeq(pipe[s], 1, n) \in Seq(1..said[s])
        /\ SubSeq(pipe[s], n + 1, Len(pipe[s])) \in Seq(1..said[s])
    BY <2>2, Piece
  <2>4. said' = said /\ lines' = lines
    BY <1>4 DEF Copy
  <2> QED
    BY <1>1, <2>1, <2>3, <2>4 DEF WasSaid, Types, IsOn
<1>5. ASSUME NEW s \in Streams, Show(s) PROVE WasSaid(t)'
  <2>1. lines' = [lines EXCEPT ![s] = Tail(lines[s])] /\ UNCHANGED <<said, pipe, chunk>>
    BY <1>5 DEF Show, processVars
  <2>2. lines[s] \in Seq(1..said[s])
    BY DEF WasSaid
  <2>3. CASE t # s
    BY <1>1, <2>1, <2>3 DEF WasSaid, Types, IsOn
  <2>4. CASE t = s /\ lines[s] # <<>>
    <3>1. Tail(lines[s]) \in Seq(1..said[s])
      BY <2>2, <2>4, HeadTailProperties
    <3> QED
      BY <1>1, <2>1, <2>4, <3>1 DEF WasSaid, Types, IsOn
  <2>5. CASE t = s /\ lines[s] = <<>>
    <3>1. Tail(lines[s]) \in Seq(1..said[s])
      BY <2>5
    <3> QED
      BY <1>1, <2>1, <2>5, <3>1 DEF WasSaid, Types, IsOn
  <2> QED
    BY <2>3, <2>4, <2>5
<1>6. ASSUME NEW s \in Streams, CopyFails(s) PROVE WasSaid(t)'
  <2>1. /\ chunk' = [chunk EXCEPT ![s] = <<>>] /\ pipe' = [pipe EXCEPT ![s] = <<>>]
        /\ UNCHANGED <<said, lines>>
    BY <1>6 DEF CopyFails
  <2>2. <<>> \in Seq(1..said[t])
    OBVIOUS
  <2> QED
    BY <1>1, <2>1, <2>2 DEF WasSaid, Types, IsOn
<1>7. ASSUME NEW s \in Streams, Write(s) PROVE WasSaid(t)'
  <2>1. UNCHANGED <<chunk, lines>>
    BY <1>7 DEF Write
  <2>2. CASE UNCHANGED <<said, pipe>>
    BY <1>1, <2>1, <2>2 DEF WasSaid
  <2>3. CASE /\ said' = [said EXCEPT ![s] = said[s] + 1]
             /\ pipe' = [pipe EXCEPT ![s] = Append(pipe[s], said[s] + 1)]
    <3>1. CASE t # s
      BY <1>1, <2>1, <2>3, <3>1 DEF WasSaid, Types, IsOn
    <3>2. CASE t = s
      <4>1. said[s] \in Nat /\ said'[s] = said[s] + 1
        BY <2>3 DEF Types
      <4>2. pipe[s] \in Seq(1..said'[s]) /\ chunk[s] \in Seq(1..said'[s])
            /\ lines[s] \in Seq(1..said'[s])
        BY <1>1, <3>2, <4>1, StaysSaid DEF WasSaid
      <4>3. said[s] + 1 \in 1..said'[s]
        BY <4>1
      <4>4. Append(pipe[s], said[s] + 1) \in Seq(1..said'[s])
        BY <4>2, <4>3, AppendProperties
      <4>5. pipe'[s] = Append(pipe[s], said[s] + 1)
        BY <2>3 DEF Types, IsOn
      <4> QED
        BY <2>1, <3>2, <4>2, <4>4, <4>5 DEF WasSaid
    <3> QED
      BY <3>1, <3>2
  <2> QED
    BY <1>7, <2>2, <2>3 DEF Write
<1> QED
  BY <1>2, <1>3, <1>4, <1>5, <1>6, <1>7
     DEF Next, vars, HandlerStep, CopierStep, DispatcherStep, Start, Scan, EndOfOutput,
         ClosePipe, Tell, StartPost, Lock, Refuse, StartAgent, Finish, Unlock, CloseWriter,
         CopyEnds, Read, Stall, Resume, GoAway, Turn, Exit, Kill, processVars

-----------------------------------------------------------------------------
(* The copier and its dispatcher.                                          *)
LEMMA CopierKept ==
  ASSUME Types, [Next]_vars, \A s \in Streams : CopierAwaited(s)
  PROVE  \A s \in Streams : CopierAwaited(s)'
<1> SUFFICES ASSUME NEW t \in Streams PROVE CopierAwaited(t)'
  OBVIOUS
<1>1. CopierAwaited(t)
  OBVIOUS
<1> USE StreamAssumption DEF CopierAwaited, Types, Dispatches, HandlerTo, DispatcherTo
<1>2. CASE UNCHANGED <<handler, dispatcher, copier>>
  BY <1>1, <1>2
<1>3. ASSUME NEW s \in Streams, Start(s) PROVE CopierAwaited(t)'
  BY <1>1, <1>3 DEF Start, processVars
<1>4. ASSUME NEW s \in Streams, HandlerStep(s) PROVE CopierAwaited(t)'
  <2>1. dispatcher' = dispatcher /\ copier' = copier
    BY <1>4 DEF HandlerStep, Fill, Scan, EndOfOutput, Show, ClosePipe, Tell, dispatchVars,
                processVars
  <2>2. handler'[t] = "idle" => handler[t] = "idle"
    BY <1>4 DEF HandlerStep, Fill, Scan, EndOfOutput, Show, AfterShow, ClosePipe, Tell
  <2> QED
    BY <1>1, <2>1, <2>2
<1>5. ASSUME NEW s \in Streams, CopyEnds(s) \/ CopyFails(s) PROVE CopierAwaited(t)'
  <2>1. handler' = handler /\ dispatcher' = dispatcher
    BY <1>5 DEF CopyEnds, CopyFails, dispatchVars
  <2>2. \/ copier'[t] = copier[t]
        \/ copier[t] = "copies" /\ copier'[t] \in {"ended", "failed"}
    BY <1>5 DEF CopyEnds, CopyFails
  <2> QED
    BY <1>1, <2>1, <2>2
<1>6. ASSUME NEW d \in Dispatches, StartPost(d) \/ Lock(d) PROVE CopierAwaited(t)'
  BY <1>1, <1>6 DEF StartPost, Lock, processVars
<1>7. ASSUME NEW d \in Dispatches, Refuse(d) \/ Unlock(d) \/ CloseWriter(d)
      PROVE CopierAwaited(t)'
  BY <1>1, <1>7 DEF Refuse, Unlock, CloseWriter, processVars
<1>8. ASSUME NEW d \in Dispatches, StartAgent(d) PROVE CopierAwaited(t)'
  BY <1>1, <1>8 DEF StartAgent
<1>9. ASSUME NEW d \in Dispatches, Finish(d) PROVE CopierAwaited(t)'
  BY <1>1, <1>9 DEF Finish, Copied, processVars
<1> QED
  BY <1>2, <1>3, <1>4, <1>5, <1>6, <1>7, <1>8, <1>9
     DEF Next, vars, CopierStep, DispatcherStep, Copy, Write, Read, Stall, Resume, GoAway,
         Turn, Exit, Kill, dispatchVars, processVars

-----------------------------------------------------------------------------
(* The reasons to stop.                                                    *)
LEMMA ReasonsKept ==
  ASSUME LiveInv, [Next]_vars
  PROVE  \A s \in Streams : StopsForLong(s)'
<1> SUFFICES ASSUME NEW t \in Streams PROVE StopsForLong(t)'
  OBVIOUS
<1>1. Types /\ WasSaid(t) /\ CopierAwaited(t) /\ StopsForLong(t)
  BY DEF LiveInv
<1>2. CASE UNCHANGED <<handler, dispatcher, agent, copier, said, long>>
  BY <1>1, <1>2 DEF StopsForLong, LongSaid
<1>3. ASSUME NEW s \in Streams, Start(s) PROVE StopsForLong(t)'
  BY <1>1, <1>3 DEF Start, StopsForLong, LongSaid, Types, HandlerTo, DispatcherTo, processVars,
                    Dispatches
<1>4. ASSUME NEW s \in Streams, HandlerStep(s) PROVE StopsForLong(t)'
  <2>1. UNCHANGED <<dispatcher, agent, copier, said, long>>
    BY <1>4 DEF HandlerStep, Fill, Scan, EndOfOutput, Show, ClosePipe, Tell, dispatchVars,
                processVars
  <2>2. CASE t # s \/ Fill(s) \/ Show(s) \/ ClosePipe(s) \/ Tell(s)
    <3>1. \/ handler'[t] = handler[t]
          \/ handler'[t] = "scan"
          \/ handler[t] \in {"close", "wait"}
      BY <1>1, <1>4, <2>2 DEF HandlerStep, Fill, Scan, EndOfOutput, Show, AfterShow, ClosePipe,
                              Tell, HandlerTo, Types
    <3> QED
      BY <1>1, <2>1, <3>1 DEF StopsForLong, LongSaid
  <2>3. CASE t = s /\ EndOfOutput(s)
    BY <1>1, <2>1, <2>3 DEF EndOfOutput, WriterClosed, StopsForLong, LongSaid
  <2>4. CASE t = s /\ Scan(s)
    <3>1. lines[s] \in Seq(1..said[s]) /\ lines[s] # <<>>
      BY <1>1, <2>4 DEF WasSaid, Scan
    <3>2. Head(lines[s]) \in 1..said[s]
      BY <3>1, HeadTailProperties
    <3>3. \/ handler'[s] = "show"
          \/ handler'[s] = "close" /\ Head(lines[s]) = long[s]
      BY <1>1, <2>4 DEF Scan, HandlerTo, Types
    <3>4. handler'[t] \in {"close", "wait", "ended"} => LongSaid(t)
      BY <2>4, <3>2, <3>3 DEF LongSaid
    <3> QED
      BY <1>1, <2>1, <3>4 DEF StopsForLong, LongSaid
  <2> QED
    BY <1>4, <2>2, <2>3, <2>4 DEF HandlerStep
<1>5. ASSUME NEW s \in Streams, CopyEnds(s) PROVE StopsForLong(t)'
  BY <1>1, <1>5 DEF CopyEnds, StopsForLong, LongSaid, Types, dispatchVars
<1>6. ASSUME NEW s \in Streams, CopyFails(s) PROVE StopsForLong(t)'
  <2>1. UNCHANGED <<handler, dispatcher, agent, said, long>>
    BY <1>6 DEF CopyFails, dispatchVars
  <2>2. CASE copier'[t] = copier[t]
    BY <1>1, <2>1, <2>2 DEF StopsForLong, LongSaid
  <2>3. CASE t = s
    <3>1. copier[t] = "copies" /\ handler[t] \in {"wait", "ended"}
      BY <1>6, <2>3 DEF CopyFails, ReaderClosed
    <3>2. LongSaid(t)
      BY <1>1, <3>1 DEF StopsForLong, CopierAwaited
    <3> QED
      BY <1>1, <2>1, <3>2 DEF StopsForLong, LongSaid
  <2> QED
    BY <1>1, <1>6, <2>2, <2>3 DEF CopyFails, Types
<1>7. ASSUME NEW s \in Streams, Write(s) PROVE StopsForLong(t)'
  <2>1. UNCHANGED <<handler, dispatcher, copier, long>>
    BY <1>7 DEF Write, dispatchVars
  <2>2. CASE UNCHANGED agent
    <3>0. said' = said \/ said' = [said EXCEPT ![s] = said[s] + 1]
      BY <1>7 DEF Write
    <3>1. said'[t] = said[t] \/ said'[t] = said[t] + 1
      BY <1>1, <3>0 DEF Types
    <3>2. LongSaid(t) => LongSaid(t)'
      <4>1. said[t] \in Nat /\ long[t] \in Nat /\ long' = long
        BY <1>1, <2>1 DEF Types
      <4> QED
        BY <3>1, <4>1 DEF LongSaid
    <3> QED
      BY <1>1, <2>1, <2>2, <3>2 DEF StopsForLong
  <2>3. CASE copier[s] = "failed" /\ AgentTo(s, "broken pipe") /\ UNCHANGED <<said, pipe>>
    <3>1. agent'[t] = "broken pipe" => agent[t] = "broken pipe" \/ copier[t] = "failed"
      BY <1>1, <2>3 DEF AgentTo, Types, Dispatches
    <3> QED
      BY <1>1, <2>1, <2>3, <3>1 DEF StopsForLong, LongSaid
  <2> QED
    BY <1>7, <2>2, <2>3 DEF Write
<1>8. ASSUME NEW d \in Dispatches, StartPost(d) \/ Lock(d) \/ Refuse(d) \/ Finish(d) \/ Unlock(d)
                                   \/ CloseWriter(d)
      PROVE StopsForLong(t)'
  <2>1. UNCHANGED <<handler, agent, copier, said, long>>
    BY <1>8 DEF StartPost, Lock, Refuse, Finish, Unlock, CloseWriter, processVars
  <2>2. dispatcher[t] = "ended" => dispatcher'[t] = "ended"
    BY <1>1, <1>8, StreamAssumption
       DEF StartPost, Lock, Refuse, Finish, Unlock, CloseWriter, DispatcherTo, Types, Dispatches
  <2> QED
    BY <1>1, <2>1, <2>2 DEF StopsForLong, LongSaid
<1>9. ASSUME NEW d \in Dispatches, StartAgent(d) PROVE StopsForLong(t)'
  <2>1. UNCHANGED <<handler, said, long>>
    BY <1>9 DEF StartAgent
  <2>2. dispatcher[t] = "ended" => dispatcher'[t] = "ended"
    BY <1>1, <1>9 DEF StartAgent, DispatcherTo, Types, Dispatches
  <2>3. copier'[t] = "failed" => copier[t] = "failed"
    BY <1>1, <1>9 DEF StartAgent, Types, Dispatches
  <2>4. agent'[t] = "broken pipe" => agent[t] = "broken pipe"
    BY <1>1, <1>9 DEF StartAgent, Types, Dispatches
  <2> QED
    BY <1>1, <2>1, <2>2, <2>3, <2>4 DEF StopsForLong, LongSaid
<1>10. ASSUME NEW d \in Dispatches, NEW r \in {"ok", "failed", "killed"}, Exit(d, r)
       PROVE StopsForLong(t)'
  <2>1. UNCHANGED <<handler, dispatcher, copier, said, long>>
    BY <1>10 DEF Exit, dispatchVars
  <2>2. agent'[t] = "broken pipe" => agent[t] = "broken pipe"
    BY <1>1, <1>10 DEF Exit, AgentTo, Types, Dispatches
  <2> QED
    BY <1>1, <2>1, <2>2 DEF StopsForLong, LongSaid
<1> QED
  BY <1>2, <1>3, <1>4, <1>5, <1>6, <1>7, <1>8, <1>9, <1>10
     DEF Next, vars, CopierStep, DispatcherStep, Copy, Read, Stall, Resume, GoAway,
         Turn, Kill, dispatchVars, processVars

-----------------------------------------------------------------------------
(* The invariant is inductive.                                             *)
LEMMA LiveInvStep == ASSUME LiveInv, [Next]_vars PROVE LiveInv'
<1>1. Types /\ \A s \in Streams : WasSaid(s) /\ CopierAwaited(s)
  BY DEF LiveInv
<1>2. Types'
  BY <1>1, TypesKept
<1>3. \A s \in Streams : WasSaid(s)'
  BY <1>1, SaidKept
<1>4. \A s \in Streams : CopierAwaited(s)'
  BY <1>1, CopierKept
<1>5. \A s \in Streams : StopsForLong(s)'
  BY ReasonsKept
<1> QED
  BY <1>2, <1>3, <1>4, <1>5 DEF LiveInv

(* An agent that is brought down by its output wrote a line longer than    *)
(* the scanner takes: no browser that stalls or leaves, and no other       *)
(* execution, does it (dispatch_stream.go:66-72).                          *)
THEOREM AgentOutlives == Spec => []AgentOutlivesBrowser
<1>1. LiveInv => AgentOutlivesBrowser
  BY DEF LiveInv, StopsForLong, LongSaid, AgentOutlivesBrowser
<1> QED
  BY <1>1, InitLive, LiveInvStep, PTL DEF Spec

-----------------------------------------------------------------------------
(* The outcome is set once, before the dispatcher gives back what it       *)
(* holds, and from then on nothing moves the dispatcher back.              *)
Over == {"unlock", "close", "ended"}
OutcomeTypes ==
  /\ outcome \in [Dispatches -> {"none", "ok", "failed"}]
  /\ told \in [Streams -> {"none", "done", "error"}]
OutcomeSet(d) ==
  /\ outcome[d] = "none" <=> dispatcher[d] \notin Over
  /\ outcome[d] = "ok" => agent[d] = "ok"
ToldAfter(s) ==
  /\ told[s] # "none" => dispatcher[s] = "ended"
  /\ told[s] = "done" => outcome[s] = "ok"
  /\ told[s] = "error" => outcome[s] = "failed"
OutcomeInv ==
  /\ LiveInv
  /\ OutcomeTypes
  /\ \A d \in Dispatches : OutcomeSet(d)
  /\ \A s \in Streams : ToldAfter(s)

(* The variables of the outcome keep to their values.                      *)
LEMMA OutcomeTyped == ASSUME OutcomeTypes, [Next]_vars PROVE OutcomeTypes'
<1> USE DEF OutcomeTypes
<1>1. ASSUME NEW d \in Dispatches, Refuse(d) \/ Finish(d) PROVE OutcomeTypes'
  BY <1>1 DEF Refuse, Finish, browserVars
<1>2. ASSUME NEW s \in Streams, Tell(s) PROVE OutcomeTypes'
  BY <1>2 DEF Tell, dispatchVars
<1>3. CASE UNCHANGED <<outcome, told>>
  BY <1>3
<1> QED
  BY <1>1, <1>2, <1>3
     DEF Next, vars, HandlerStep, CopierStep, DispatcherStep, Start, Fill, Scan, EndOfOutput,
         Show, ClosePipe, StartPost, Lock, StartAgent, Unlock, CloseWriter, Copy, CopyEnds,
         CopyFails, Write, Read, Stall, Resume, GoAway, Turn, Exit, Kill, dispatchVars,
         browserVars

(* What a step leaves of one dispatch: it goes on, and once it is over     *)
(* neither its outcome nor its agent changes.                              *)
LEMMA DispatchGoesOn ==
  ASSUME OutcomeInv, [Next]_vars, NEW d \in Dispatches
  PROVE  /\ OutcomeSet(d)'
         /\ dispatcher[d] \in Over => outcome'[d] = outcome[d]
         /\ dispatcher[d] = "ended" => dispatcher'[d] = "ended"
<1> DEFINE OK == /\ OutcomeSet(d)'
                 /\ dispatcher[d] \in Over => outcome'[d] = outcome[d]
                 /\ dispatcher[d] = "ended" => dispatcher'[d] = "ended"
<1>1. /\ OutcomeSet(d) /\ Types /\ OutcomeTypes
      /\ \A s \in Streams : handler[s] = "idle" => dispatcher[s] = "idle"
  BY DEF OutcomeInv, LiveInv, CopierAwaited
<1>2. /\ d \in DOMAIN dispatcher /\ d \in DOMAIN agent /\ d \in DOMAIN outcome
      /\ Streams \subseteq Dispatches
  BY <1>1 DEF Types, OutcomeTypes, Dispatches
<1> USE DEF OutcomeSet, Over, DispatcherTo, AgentTo
<1>3. CASE UNCHANGED <<dispatcher, agent, outcome>>
  BY <1>1, <1>3
<1>4. ASSUME NEW s \in Streams, Start(s) PROVE OK
  <2>1. dispatcher[s] = "idle" /\ agent' = agent /\ outcome' = outcome
    BY <1>1, <1>4 DEF Start, processVars
  <2>2. dispatcher' = [dispatcher EXCEPT ![s] = "lock"]
    BY <1>4 DEF Start
  <2> QED
    BY <1>1, <1>2, <2>1, <2>2
<1>5. ASSUME NEW e \in Dispatches, StartPost(e) \/ Lock(e) \/ Unlock(e) \/ CloseWriter(e)
      PROVE OK
  BY <1>1, <1>2, <1>5 DEF StartPost, Lock, Unlock, CloseWriter, processVars
<1>6. ASSUME NEW e \in Dispatches, Refuse(e) PROVE OK
  BY <1>1, <1>2, <1>6 DEF Refuse, processVars
<1>7. ASSUME NEW e \in Dispatches, Finish(e) PROVE OK
  BY <1>1, <1>2, <1>7 DEF Finish, processVars
<1>8. ASSUME NEW e \in Dispatches, StartAgent(e) PROVE OK
  BY <1>1, <1>2, <1>8 DEF StartAgent
<1>9. ASSUME NEW e \in Dispatches, NEW r \in {"ok", "failed", "killed"}, Exit(e, r) PROVE OK
  BY <1>1, <1>2, <1>9 DEF Exit, dispatchVars
<1>10. ASSUME NEW s \in Streams, Write(s) PROVE OK
  BY <1>1, <1>2, <1>10 DEF Write, dispatchVars
<1> HIDE DEF OK
<1>11. OK
  BY <1>3, <1>4, <1>5, <1>6, <1>7, <1>8, <1>9, <1>10
     DEF OK, Next, vars, HandlerStep, CopierStep, DispatcherStep, Fill, Scan, EndOfOutput, Show,
         ClosePipe, Tell, Copy, CopyEnds, CopyFails, Read, Stall, Resume, GoAway, Turn, Kill,
         dispatchVars, processVars
<1> QED
  BY <1>11 DEF OK

(* The last event is sent when the dispatcher has ended.                   *)
LEMMA ToldStays ==
  ASSUME OutcomeInv, [Next]_vars, NEW s \in Streams
  PROVE  ToldAfter(s)'
<1>1. /\ ToldAfter(s) /\ OutcomeSet(s) /\ OutcomeTypes /\ s \in Dispatches
      /\ outcome[s] \in {"none", "ok", "failed"}
  BY DEF OutcomeInv, Dispatches, OutcomeTypes
<1>2. /\ dispatcher[s] \in Over => outcome'[s] = outcome[s]
      /\ dispatcher[s] = "ended" => dispatcher'[s] = "ended"
  BY <1>1, DispatchGoesOn
<1>3. CASE told'[s] = told[s]
  BY <1>1, <1>2, <1>3 DEF ToldAfter, Over
<1>4. CASE Tell(s)
  <2>1. dispatcher[s] = "ended"
    BY <1>4 DEF Tell, Waited
  <2>2. told'[s] = IF outcome[s] = "failed" THEN "error" ELSE "done"
    BY <1>1, <1>4 DEF Tell, OutcomeTypes
  <2> QED
    BY <1>1, <1>2, <2>1, <2>2 DEF ToldAfter, OutcomeSet, Over
<1>5. told'[s] = told[s] \/ Tell(s)
  <2>1. ASSUME NEW t \in Streams, Tell(t), t # s PROVE told'[s] = told[s]
    BY <1>1, <2>1 DEF Tell, OutcomeTypes
  <2> QED
    BY <2>1
       DEF Next, vars, HandlerStep, CopierStep, DispatcherStep, Start, Fill, Scan, EndOfOutput,
           Show, ClosePipe, StartPost, Lock, Refuse, Finish, StartAgent, Unlock, CloseWriter,
           Copy, CopyEnds, CopyFails, Write, Read, Stall, Resume, GoAway, Turn, Exit, Kill,
           dispatchVars, browserVars
<1> QED
  BY <1>3, <1>4, <1>5

(* The last event of every stream is the outcome of its dispatch, and      *)
(* "done" comes after a session that succeeded (dispatch_stream.go:73-79). *)
THEOREM OutcomeTold == Spec => []ToldTheOutcome
<1>1. Init => OutcomeInv
  <2> SUFFICES ASSUME Init PROVE OutcomeInv
    OBVIOUS
  <2>1. OutcomeTypes
    BY DEF Init, OutcomeTypes
  <2>2. ASSUME NEW d \in Dispatches PROVE OutcomeSet(d)
    BY DEF Init, OutcomeSet, Over
  <2>3. ASSUME NEW s \in Streams PROVE ToldAfter(s)
    BY DEF Init, ToldAfter
  <2> QED
    BY <2>1, <2>2, <2>3, InitLive DEF OutcomeInv
<1>2. OutcomeInv /\ [Next]_vars => OutcomeInv'
  <2> SUFFICES ASSUME OutcomeInv, [Next]_vars PROVE OutcomeInv'
    OBVIOUS
  <2>1. LiveInv'
    BY LiveInvStep DEF OutcomeInv
  <2>2. OutcomeTypes'
    BY OutcomeTyped DEF OutcomeInv
  <2>3. Dispatches' = Dispatches /\ \A d \in Dispatches : OutcomeSet(d)'
    BY DispatchGoesOn DEF Dispatches
  <2>4. \A s \in Streams : ToldAfter(s)'
    BY ToldStays
  <2> QED
    BY <2>1, <2>2, <2>3, <2>4 DEF OutcomeInv
<1>3. OutcomeInv => ToldTheOutcome
  BY DEF OutcomeInv, OutcomeSet, ToldAfter, ToldTheOutcome, Dispatches
<1> QED
  BY <1>1, <1>2, <1>3, PTL DEF Spec

-----------------------------------------------------------------------------
(* Nothing is lost.  Page, connection, scanner, io.Pipe and kernel's pipe, *)
(* one after the other, hold 1, 2, 3 and so on up to what was said, less   *)
(* what a failed copy threw away.                                          *)
Runs(q, a) == q \in Seq(Nat) /\ \A i \in 1..Len(q) : q[i] = a + i

AtSocket(s) == Len(page[s])
AtLines(s) == AtSocket(s) + Len(socket[s])
AtChunk(s) == AtLines(s) + Len(lines[s])
AtPipe(s) == AtChunk(s) + Len(chunk[s])

InOrder(s) ==
  /\ Runs(page[s], 0)
  /\ Runs(socket[s], AtSocket(s))
  /\ Runs(lines[s], AtLines(s))
  /\ Runs(chunk[s], AtChunk(s))
  /\ Runs(pipe[s], AtPipe(s))
  /\ copier[s] # "failed" => AtPipe(s) + Len(pipe[s]) = said[s]

(* Between two lines of the handler's: it has a line to show; what it      *)
(* leaves unread comes after one that is too long; and only a copier at    *)
(* work has something to copy.                                             *)
Emptied(s) ==
  /\ handler[s] = "show" => lines[s] # <<>>
  /\ handler[s] \in {"close", "wait", "ended"} => lines[s] = <<>> \/ LongSaid(s)
  /\ copier[s] # "copies" => chunk[s] = <<>> /\ pipe[s] = <<>>

PageTypes ==
  /\ IsOn(page) /\ IsOn(socket)
  /\ browser \in [Streams -> {"reads", "stalls", "gone"}]

OrderInv ==
  /\ LiveInv
  /\ PageTypes
  /\ \A s \in Streams : Emptied(s) /\ (browser[s] # "gone" => InOrder(s))

(* Nothing is a run from anywhere.                                         *)
LEMMA NoRun == ASSUME NEW a \in Nat PROVE Runs(<<>>, a) /\ Len(<<>>) = 0
  BY DEF Runs

(* The two parts of a run.                                                 *)
LEMMA RunSplit ==
  ASSUME NEW q, NEW a \in Nat, Runs(q, a), NEW n \in 1..Len(q)
  PROVE  /\ Runs(SubSeq(q, 1, n), a)
         /\ Len(SubSeq(q, 1, n)) = n
         /\ Runs(SubSeq(q, n + 1, Len(q)), a + n)
         /\ Len(SubSeq(q, n + 1, Len(q))) = Len(q) - n
<1>1. q \in Seq(Nat) /\ Len(q) \in Nat /\ n \in Nat /\ \A i \in 1..Len(q) : q[i] = a + i
  BY DEF Runs
<1>2. /\ SubSeq(q, 1, n) \in Seq(Nat) /\ Len(SubSeq(q, 1, n)) = n
      /\ \A i \in 1..n : SubSeq(q, 1, n)[i] = q[i]
  <2>1. \A i \in 1..n : q[i] \in Nat
    BY <1>1
  <2> QED
    BY <1>1, <2>1, SubSeqProperties
<1>3. /\ SubSeq(q, n + 1, Len(q)) \in Seq(Nat) /\ Len(SubSeq(q, n + 1, Len(q))) = Len(q) - n
      /\ \A i \in 1..Len(q) - n : SubSeq(q, n + 1, Len(q))[i] = q[n + i]
  <2>1. \A i \in n + 1..Len(q) : q[i] \in Nat
    BY <1>1
  <2>2. n + 1 \in Int /\ Len(q) \in Int
    BY <1>1
  <2>3. /\ SubSeq(q, n + 1, Len(q)) \in Seq(Nat)
        /\ Len(SubSeq(q, n + 1, Len(q))) =
             IF n + 1 <= Len(q) THEN Len(q) - (n + 1) + 1 ELSE 0
        /\ \A i \in 1..Len(q) - (n + 1) + 1 : SubSeq(q, n + 1, Len(q))[i] = q[n + 1 + i - 1]
    BY <2>1, <2>2, SubSeqProperties
  <2> QED
    BY <1>1, <2>3
<1>4. Runs(SubSeq(q, 1, n), a)
  BY <1>1, <1>2 DEF Runs
<1>5. Runs(SubSeq(q, n + 1, Len(q)), a + n)
  BY <1>1, <1>3 DEF Runs
<1> QED
  BY <1>2, <1>3, <1>4, <1>5

(* One more at the end.                                                    *)
LEMMA RunAppend ==
  ASSUME NEW q, NEW a \in Nat, Runs(q, a), NEW x, x = a + Len(q) + 1
  PROVE  Runs(Append(q, x), a) /\ Len(Append(q, x)) = Len(q) + 1
<1>1. q \in Seq(Nat) /\ Len(q) \in Nat /\ x \in Nat
  BY DEF Runs
<1>2. /\ Append(q, x) \in Seq(Nat) /\ Len(Append(q, x)) = Len(q) + 1
      /\ \A i \in 1..Len(q) : Append(q, x)[i] = q[i]
      /\ Append(q, x)[Len(q) + 1] = x
  BY <1>1, AppendProperties
<1> QED
  BY <1>1, <1>2 DEF Runs

(* One less at the beginning.                                              *)
LEMMA RunTail ==
  ASSUME NEW q, NEW a \in Nat, Runs(q, a), q # <<>>
  PROVE  Head(q) = a + 1 /\ Runs(Tail(q), a + 1) /\ Len(Tail(q)) = Len(q) - 1 /\ Len(q) > 0
<1>1. q \in Seq(Nat) /\ Len(q) \in Nat /\ Len(q) > 0
  BY DEF Runs
<1>2. /\ Tail(q) \in Seq(Nat) /\ Len(Tail(q)) = Len(q) - 1
      /\ \A i \in 1..Len(Tail(q)) : Tail(q)[i] = q[i + 1]
  BY <1>1, HeadTailProperties
<1>3. Head(q) = q[1]
  BY <1>1
<1> QED
  BY <1>1, <1>2, <1>3 DEF Runs

(* The initial state is in order.                                          *)
LEMMA InitOrder == ASSUME Init PROVE OrderInv
<1>1. PageTypes
  BY DEF Init, PageTypes, IsOn
<1>2. ASSUME NEW s \in Streams PROVE Emptied(s) /\ InOrder(s)
  <2>1. /\ page[s] = <<>> /\ socket[s] = <<>> /\ lines[s] = <<>> /\ chunk[s] = <<>>
        /\ pipe[s] = <<>> /\ said[s] = 0 /\ handler[s] = "idle" /\ copier[s] = "none"
    BY DEF Init
  <2> QED
    BY <2>1, NoRun DEF Emptied, InOrder, AtSocket, AtLines, AtChunk, AtPipe
<1> QED
  BY <1>1, <1>2, InitLive DEF OrderInv

(* Types of what the browser has.                                          *)
LEMMA PageTyped == ASSUME PageTypes, [Next]_vars PROVE PageTypes'
<1> USE DEF PageTypes, IsOn
<1>1. ASSUME NEW s \in Streams, Show(s) PROVE PageTypes'
  BY <1>1 DEF Show
<1>2. ASSUME NEW s \in Streams, Read(s) PROVE PageTypes'
  <2>1. IsOn(page)' /\ IsOn(socket)' /\ browser' = browser
    BY <1>2 DEF Read
  <2> QED
    BY <2>1
<1>3. ASSUME NEW s \in Streams, Stall(s) \/ Resume(s) \/ GoAway(s) PROVE PageTypes'
  BY <1>3 DEF Stall, Resume, GoAway, Turn
<1>4. CASE UNCHANGED <<page, socket, browser>>
  BY <1>4
<1> QED
  BY <1>1, <1>2, <1>3, <1>4
     DEF Next, vars, HandlerStep, CopierStep, DispatcherStep, Start, Fill, Scan, EndOfOutput,
         ClosePipe, Tell, StartPost, Lock, Refuse, Finish, StartAgent, Unlock, CloseWriter,
         Copy, CopyEnds, CopyFails, Write, Exit, Kill, browserVars

(* A line that is too long stays so.                                       *)
LEMMA LongStays ==
  ASSUME Types, [Next]_vars, NEW t \in Streams, LongSaid(t)
  PROVE  LongSaid(t)'
<1>1. said[t] \in Nat /\ long[t] \in Nat
  BY DEF Types
<1>2. long' = long
  BY DEF Next, vars, HandlerStep, CopierStep, DispatcherStep, Start, Fill, Scan, EndOfOutput,
         Show, ClosePipe, Tell, StartPost, Lock, Refuse, Finish, StartAgent, Unlock,
         CloseWriter, Copy, CopyEnds, CopyFails, Write, Read, Stall, Resume, GoAway, Turn,
         Exit, Kill, processVars
<1>3. said'[t] = said[t] \/ said'[t] = said[t] + 1
  <2>1. ASSUME NEW s \in Streams, Write(s)
        PROVE  said' = said \/ said' = [said EXCEPT ![s] = said[s] + 1]
    BY <2>1 DEF Write
  <2>2. said' = said \/ \E s \in Streams : said' = [said EXCEPT ![s] = said[s] + 1]
    BY <2>1
       DEF Next, vars, HandlerStep, CopierStep, DispatcherStep, Start, Fill, Scan, EndOfOutput,
           Show, ClosePipe, Tell, StartPost, Lock, Refuse, Finish, StartAgent, Unlock,
           CloseWriter, Copy, CopyEnds, CopyFails, Read, Stall, Resume, GoAway, Turn,
           Exit, Kill, processVars
  <2> QED
    BY <2>2 DEF Types
<1> QED
  BY <1>1, <1>2, <1>3 DEF LongSaid

(* What is not read, and what is not there to be copied.                   *)
LEMMA EmptiedKept ==
  ASSUME OrderInv, [Next]_vars, NEW t \in Streams
  PROVE  Emptied(t)'
<1>1. /\ Types /\ PageTypes /\ WasSaid(t) /\ CopierAwaited(t) /\ Emptied(t)
      /\ t \in DOMAIN handler /\ t \in DOMAIN copier
      /\ t \in DOMAIN lines /\ t \in DOMAIN chunk /\ t \in DOMAIN pipe
  BY DEF OrderInv, LiveInv, Types, IsOn
<1>2. LongSaid(t) => LongSaid(t)'
  BY <1>1, LongStays
<1>3. CASE UNCHANGED <<handler, copier, lines, chunk, pipe>>
  BY <1>1, <1>2, <1>3 DEF Emptied
<1>4. ASSUME NEW s \in Streams, Start(s) \/ EndOfOutput(s) \/ ClosePipe(s) \/ Tell(s)
      PROVE  Emptied(t)'
  <2>1. UNCHANGED <<copier, lines, chunk, pipe>>
    BY <1>4 DEF Start, EndOfOutput, ClosePipe, Tell, processVars
  <2>2. \/ handler'[t] = handler[t]
        \/ handler'[t] = "scan"
        \/ handler'[t] = "close" /\ lines[t] = <<>>
        \/ handler[t] \in {"close", "wait"} /\ handler'[t] \in {"wait", "ended"}
    BY <1>1, <1>4 DEF Start, EndOfOutput, ClosePipe, Tell, HandlerTo
  <2> QED
    BY <1>1, <1>2, <2>1, <2>2 DEF Emptied
<1>5. ASSUME NEW s \in Streams, Fill(s) PROVE Emptied(t)'
  <2>1. /\ UNCHANGED <<handler, copier, pipe>> /\ handler[s] = "scan" /\ chunk[s] # <<>>
        /\ t # s => lines'[t] = lines[t] /\ chunk'[t] = chunk[t]
    <3>1. PICK n \in 1..Len(chunk[s]) :
            /\ lines' = [lines EXCEPT ![s] = SubSeq(chunk[s], 1, n)]
            /\ chunk' = [chunk EXCEPT ![s] = SubSeq(chunk[s], n + 1, Len(chunk[s]))]
      BY <1>5 DEF Fill
    <3>2. chunk[s] # <<>>
      BY <3>1
    <3> QED
      BY <1>1, <1>5, <3>1, <3>2 DEF Fill, processVars
  <2> QED
    BY <1>1, <1>2, <2>1 DEF Emptied
<1>6. ASSUME NEW s \in Streams, Scan(s) PROVE Emptied(t)'
  <2>1. UNCHANGED <<copier, lines, chunk, pipe>>
    BY <1>6 DEF Scan, processVars
  <2>2. CASE t # s
    BY <1>1, <1>2, <1>6, <2>1, <2>2 DEF Scan, HandlerTo, Emptied
  <2>3. CASE t = s
    <3>1. lines[t] # <<>> /\ lines[t] \in Seq(1..said[t])
      BY <1>1, <1>6, <2>3 DEF Scan, WasSaid
    <3>2. Head(lines[t]) \in 1..said[t]
      BY <3>1, HeadTailProperties
    <3>3. \/ handler'[t] = "show"
          \/ handler'[t] = "close" /\ Head(lines[t]) = long[t]
      BY <1>1, <1>6, <2>3 DEF Scan, HandlerTo
    <3>4. handler'[t] # "show" => LongSaid(t)
      BY <3>2, <3>3 DEF LongSaid
    <3> QED
      BY <1>1, <1>2, <2>1, <3>1, <3>3, <3>4 DEF Emptied
  <2> QED
    BY <2>2, <2>3
<1>7. ASSUME NEW s \in Streams, Show(s) PROVE Emptied(t)'
  <2>1. /\ UNCHANGED <<copier, chunk, pipe>>
        /\ t # s => lines'[t] = lines[t] /\ handler'[t] = handler[t]
        /\ handler'[s] = "scan"
    BY <1>1, <1>7 DEF Show, AfterShow, HandlerTo, processVars, Types
  <2> QED
    BY <1>1, <1>2, <2>1 DEF Emptied
<1>8. ASSUME NEW s \in Streams, Copy(s) PROVE Emptied(t)'
  <2>1. PICK n \in 1..Len(pipe[s]) :
          /\ chunk' = [chunk EXCEPT ![s] = SubSeq(pipe[s], 1, n)]
          /\ pipe' = [pipe EXCEPT ![s] = SubSeq(pipe[s], n + 1, Len(pipe[s]))]
    BY <1>8 DEF Copy
  <2>2. /\ UNCHANGED <<handler, copier, lines>> /\ copier[s] = "copies"
        /\ t # s => chunk'[t] = chunk[t] /\ pipe'[t] = pipe[t]
    BY <1>1, <1>8, <2>1 DEF Copy
  <2> QED
    BY <1>1, <1>2, <2>2 DEF Emptied
<1>9. ASSUME NEW s \in Streams, CopyEnds(s) PROVE Emptied(t)'
  <2>1. /\ UNCHANGED <<handler, lines, chunk, pipe>>
        /\ t # s => copier'[t] = copier[t]
        /\ chunk[s] = <<>> /\ pipe[s] = <<>>
    BY <1>1, <1>9 DEF CopyEnds
  <2> QED
    BY <1>1, <1>2, <2>1 DEF Emptied
<1>10. ASSUME NEW s \in Streams, CopyFails(s) PROVE Emptied(t)'
  <2>1. UNCHANGED <<handler, lines>>
    BY <1>10 DEF CopyFails
  <2>2. t # s => copier'[t] = copier[t] /\ chunk'[t] = chunk[t] /\ pipe'[t] = pipe[t]
    BY <1>1, <1>10 DEF CopyFails
  <2>3. t = s => chunk'[t] = <<>> /\ pipe'[t] = <<>>
    BY <1>1, <1>10 DEF CopyFails
  <2> QED
    BY <1>1, <1>2, <2>1, <2>2, <2>3 DEF Emptied
<1>11. ASSUME NEW s \in Streams, Write(s) PROVE Emptied(t)'
  <2>1. UNCHANGED <<handler, lines, chunk, copier>>
    BY <1>11 DEF Write
  <2>2. pipe'[t] = pipe[t] \/ copier[t] = "copies"
    BY <1>1, <1>11 DEF Write
  <2> QED
    BY <1>1, <1>2, <2>1, <2>2 DEF Emptied
<1>12. ASSUME NEW d \in Dispatches, StartAgent(d) PROVE Emptied(t)'
  <2>1. UNCHANGED <<handler, lines, chunk, pipe>>
    BY <1>12 DEF StartAgent
  <2>2. copier'[t] = copier[t] \/ copier'[t] = "copies"
    BY <1>12 DEF StartAgent
  <2> QED
    BY <1>1, <1>2, <2>1, <2>2 DEF Emptied
<1> QED
  BY <1>3, <1>4, <1>5, <1>6, <1>7, <1>8, <1>9, <1>10, <1>11, <1>12
     DEF Next, vars, HandlerStep, CopierStep, DispatcherStep, StartPost, Lock, Refuse, Finish,
         Unlock, CloseWriter, Read, Stall, Resume, GoAway, Turn, Exit, Kill, processVars

(* Where the parts begin are numbers, and every part is a sequence.        *)
LEMMA Places ==
  ASSUME NEW s \in Streams, Types, InOrder(s)
  PROVE  /\ AtSocket(s) \in Nat /\ AtLines(s) \in Nat /\ AtChunk(s) \in Nat /\ AtPipe(s) \in Nat
         /\ Len(page[s]) \in Nat /\ Len(socket[s]) \in Nat /\ Len(lines[s]) \in Nat
         /\ Len(chunk[s]) \in Nat /\ Len(pipe[s]) \in Nat /\ said[s] \in Nat
<1>1. /\ page[s] \in Seq(Nat) /\ socket[s] \in Seq(Nat) /\ lines[s] \in Seq(Nat)
      /\ chunk[s] \in Seq(Nat) /\ pipe[s] \in Seq(Nat)
  BY DEF InOrder, Runs
<1>2. /\ Len(page[s]) \in Nat /\ Len(socket[s]) \in Nat /\ Len(lines[s]) \in Nat
      /\ Len(chunk[s]) \in Nat /\ Len(pipe[s]) \in Nat
  BY <1>1
<1>3. said[s] \in Nat
  BY DEF Types
<1>4. AtSocket(s) \in Nat
  BY <1>2 DEF AtSocket
<1>5. AtLines(s) \in Nat
  BY <1>2, <1>4 DEF AtLines
<1>6. AtChunk(s) \in Nat
  BY <1>2, <1>5 DEF AtChunk
<1>7. AtPipe(s) \in Nat
  BY <1>2, <1>6 DEF AtPipe
<1> QED
  BY <1>2, <1>3, <1>4, <1>5, <1>6, <1>7

(* Each step leaves each stream in order that was.                         *)
LEMMA OrderKept ==
  ASSUME OrderInv, [Next]_vars, NEW t \in Streams, browser'[t] # "gone"
  PROVE  InOrder(t)'
<1>1. browser[t] # "gone"
  <2>1. ASSUME NEW s \in Streams, Turn(s, {"reads"}, "stalls") \/ Turn(s, {"stalls"}, "reads")
                                  \/ Turn(s, {"reads", "stalls"}, "gone")
        PROVE browser[t] # "gone"
    BY <2>1 DEF Turn, OrderInv, PageTypes
  <2>2. CASE UNCHANGED browser
    BY <2>2
  <2> QED
    BY <2>1, <2>2
       DEF Next, vars, HandlerStep, CopierStep, DispatcherStep, Start, Fill, Scan, EndOfOutput,
           Show, ClosePipe, Tell, StartPost, Lock, Refuse, Finish, StartAgent, Unlock,
           CloseWriter, Copy, CopyEnds, CopyFails, Write, Read, Stall, Resume, GoAway,
           Exit, Kill, browserVars
<1>2. /\ Types /\ InOrder(t) /\ Emptied(t) /\ CopierAwaited(t)
      /\ t \in DOMAIN page /\ t \in DOMAIN socket /\ t \in DOMAIN lines /\ t \in DOMAIN chunk
      /\ t \in DOMAIN pipe /\ t \in DOMAIN said /\ t \in DOMAIN copier
  BY <1>1 DEF OrderInv, LiveInv, Types, PageTypes, IsOn
<1>3. /\ AtSocket(t) \in Nat /\ AtLines(t) \in Nat /\ AtChunk(t) \in Nat /\ AtPipe(t) \in Nat
      /\ Len(page[t]) \in Nat /\ Len(socket[t]) \in Nat /\ Len(lines[t]) \in Nat
      /\ Len(chunk[t]) \in Nat /\ Len(pipe[t]) \in Nat /\ said[t] \in Nat
  BY <1>2, Places
<1>4. ASSUME page'[t] = page[t], socket'[t] = socket[t], lines'[t] = lines[t],
             chunk'[t] = chunk[t], pipe'[t] = pipe[t], said'[t] = said[t],
             copier[t] = "failed" => copier'[t] = "failed"
      PROVE  InOrder(t)'
  BY <1>2, <1>4 DEF InOrder, AtSocket, AtLines, AtChunk, AtPipe
<1>5. ASSUME NEW s \in Streams, Fill(s) PROVE InOrder(t)'
  <2>1. PICK n \in 1..Len(chunk[s]) :
          /\ lines' = [lines EXCEPT ![s] = SubSeq(chunk[s], 1, n)]
          /\ chunk' = [chunk EXCEPT ![s] = SubSeq(chunk[s], n + 1, Len(chunk[s]))]
    BY <1>5 DEF Fill
  <2>2. UNCHANGED <<page, socket, pipe, said, copier>> /\ lines[s] = <<>>
    BY <1>5 DEF Fill, processVars, browserVars
  <2>3. CASE t # s
    BY <1>2, <1>4, <2>1, <2>2, <2>3
  <2>4. CASE t = s
    <3>1. Len(lines[t]) = 0 /\ AtChunk(t) = AtLines(t)
      BY <1>3, <2>2, <2>4 DEF AtChunk
    <3>2. /\ Runs(lines'[t], AtChunk(t)) /\ Len(lines'[t]) = n
          /\ Runs(chunk'[t], AtChunk(t) + n) /\ Len(chunk'[t]) = Len(chunk[t]) - n
      BY <1>2, <1>3, <2>1, <2>4, RunSplit DEF InOrder
    <3>3. AtSocket(t)' = AtSocket(t) /\ AtLines(t)' = AtLines(t)
      BY <2>2 DEF AtSocket, AtLines
    <3>4. AtChunk(t)' = AtChunk(t) + n
      BY <3>1, <3>2, <3>3 DEF AtChunk
    <3>5. AtPipe(t)' = AtPipe(t)
      BY <1>3, <3>2, <3>4 DEF AtPipe
    <3> QED
      BY <1>2, <2>2, <3>1, <3>2, <3>3, <3>4, <3>5 DEF InOrder
  <2> QED
    BY <2>3, <2>4
<1>6. ASSUME NEW s \in Streams, Copy(s) PROVE InOrder(t)'
  <2>1. PICK n \in 1..Len(pipe[s]) :
          /\ chunk' = [chunk EXCEPT ![s] = SubSeq(pipe[s], 1, n)]
          /\ pipe' = [pipe EXCEPT ![s] = SubSeq(pipe[s], n + 1, Len(pipe[s]))]
    BY <1>6 DEF Copy
  <2>2. UNCHANGED <<page, socket, lines, said, copier>> /\ chunk[s] = <<>>
    BY <1>6 DEF Copy, browserVars
  <2>3. CASE t # s
    BY <1>2, <1>4, <2>1, <2>2, <2>3
  <2>4. CASE t = s
    <3>1. Len(chunk[t]) = 0 /\ AtPipe(t) = AtChunk(t)
      BY <1>3, <2>2, <2>4 DEF AtPipe
    <3>2. /\ Runs(chunk'[t], AtPipe(t)) /\ Len(chunk'[t]) = n
          /\ Runs(pipe'[t], AtPipe(t) + n) /\ Len(pipe'[t]) = Len(pipe[t]) - n
      BY <1>2, <1>3, <2>1, <2>4, RunSplit DEF InOrder
    <3>3. AtSocket(t)' = AtSocket(t) /\ AtLines(t)' = AtLines(t) /\ AtChunk(t)' = AtChunk(t)
      BY <2>2 DEF AtSocket, AtLines, AtChunk
    <3>4. AtPipe(t)' = AtPipe(t) + n
      BY <3>1, <3>2, <3>3 DEF AtPipe
    <3>5. AtPipe(t)' + Len(pipe'[t]) = AtPipe(t) + Len(pipe[t])
      BY <1>3, <3>2, <3>4
    <3> QED
      BY <1>2, <2>2, <3>1, <3>2, <3>3, <3>4, <3>5 DEF InOrder
  <2> QED
    BY <2>3, <2>4
<1>7. ASSUME NEW s \in Streams, Show(s) PROVE InOrder(t)'
  <2>1. /\ lines' = [lines EXCEPT ![s] = Tail(lines[s])]
        /\ UNCHANGED <<page, chunk, pipe, said, copier>>
        /\ socket' = socket \/ socket' = [socket EXCEPT ![s] = Append(socket[s], Head(lines[s]))]
    BY <1>7 DEF Show, processVars
  <2>2. CASE t # s
    BY <1>2, <1>4, <2>1, <2>2
  <2>3. CASE t = s
    <3>1. lines[t] # <<>>
      BY <1>2, <1>7, <2>3 DEF Show, Emptied
    <3>2. /\ Head(lines[t]) = AtLines(t) + 1
          /\ Runs(lines'[t], AtLines(t) + 1)
          /\ Len(lines'[t]) = Len(lines[t]) - 1
      BY <1>2, <1>3, <2>1, <2>3, <3>1, RunTail DEF InOrder
    <3>3. socket'[t] = Append(socket[t], Head(lines[t]))
      BY <1>1, <1>2, <1>7, <2>3 DEF Show
    <3>4. Runs(socket'[t], AtSocket(t)) /\ Len(socket'[t]) = Len(socket[t]) + 1
      <4>1. Head(lines[t]) = AtSocket(t) + Len(socket[t]) + 1
        BY <3>2 DEF AtLines
      <4> QED
        BY <1>2, <1>3, <3>3, <4>1, RunAppend DEF InOrder
    <3>5. AtSocket(t)' = AtSocket(t)
      BY <2>1 DEF AtSocket
    <3>6. AtLines(t)' = AtLines(t) + 1
      BY <1>3, <3>4, <3>5 DEF AtLines
    <3>7. AtChunk(t)' = AtChunk(t)
      BY <1>3, <3>2, <3>6 DEF AtChunk
    <3>8. AtPipe(t)' = AtPipe(t)
      BY <2>1, <3>7 DEF AtPipe
    <3> QED
      BY <1>2, <2>1, <3>2, <3>4, <3>5, <3>6, <3>7, <3>8 DEF InOrder
  <2> QED
    BY <2>2, <2>3
<1>8. ASSUME NEW s \in Streams, Read(s) PROVE InOrder(t)'
  <2>1. /\ page' = [page EXCEPT ![s] = Append(page[s], Head(socket[s]))]
        /\ socket' = [socket EXCEPT ![s] = Tail(socket[s])]
        /\ UNCHANGED <<lines, chunk, pipe, said, copier>> /\ socket[s] # <<>>
    BY <1>8 DEF Read, processVars
  <2>2. CASE t # s
    BY <1>2, <1>4, <2>1, <2>2
  <2>3. CASE t = s
    <3>1. /\ Head(socket[t]) = AtSocket(t) + 1
          /\ Runs(socket'[t], AtSocket(t) + 1)
          /\ Len(socket'[t]) = Len(socket[t]) - 1
      BY <1>2, <1>3, <2>1, <2>3, RunTail DEF InOrder
    <3>2. Runs(page'[t], 0) /\ Len(page'[t]) = Len(page[t]) + 1
      <4>1. Head(socket[t]) = 0 + Len(page[t]) + 1
        BY <1>3, <3>1 DEF AtSocket
      <4>2. page'[t] = Append(page[t], Head(socket[t])) /\ Runs(page[t], 0) /\ 0 \in Nat
        BY <1>2, <2>1, <2>3 DEF InOrder
      <4> QED
        BY <4>1, <4>2, RunAppend
    <3>3. AtSocket(t)' = AtSocket(t) + 1
      BY <3>2 DEF AtSocket
    <3>4. AtLines(t)' = AtLines(t)
      BY <1>3, <3>1, <3>3 DEF AtLines
    <3>5. AtChunk(t)' = AtChunk(t) /\ AtPipe(t)' = AtPipe(t)
      BY <2>1, <3>4 DEF AtChunk, AtPipe
    <3> QED
      BY <1>2, <2>1, <3>1, <3>2, <3>3, <3>4, <3>5 DEF InOrder
  <2> QED
    BY <2>2, <2>3
<1>9. ASSUME NEW s \in Streams, CopyFails(s) PROVE InOrder(t)'
  <2>1. /\ UNCHANGED <<page, socket, lines, said>>
        /\ copier' = [copier EXCEPT ![s] = "failed"]
        /\ chunk' = [chunk EXCEPT ![s] = <<>>] /\ pipe' = [pipe EXCEPT ![s] = <<>>]
    BY <1>9 DEF CopyFails, browserVars
  <2>2. CASE t # s
    BY <1>2, <1>4, <2>1, <2>2
  <2>3. CASE t = s
    <3>1. chunk'[t] = <<>> /\ pipe'[t] = <<>> /\ copier'[t] = "failed"
      BY <1>2, <2>1, <2>3
    <3>2. /\ AtSocket(t)' = AtSocket(t) /\ AtLines(t)' = AtLines(t) /\ AtChunk(t)' = AtChunk(t)
      BY <2>1 DEF AtSocket, AtLines, AtChunk
    <3>3. AtPipe(t)' \in Nat
      BY <1>3, <3>1, <3>2, NoRun DEF AtPipe
    <3>4. Runs(chunk'[t], AtChunk(t)') /\ Runs(pipe'[t], AtPipe(t)')
      BY <1>3, <3>1, <3>2, <3>3, NoRun
    <3> QED
      BY <1>2, <2>1, <3>1, <3>2, <3>4 DEF InOrder
  <2> QED
    BY <2>2, <2>3
<1>10. ASSUME NEW s \in Streams, Write(s) PROVE InOrder(t)'
  <2>1. UNCHANGED <<page, socket, lines, chunk, copier>>
    BY <1>10 DEF Write, browserVars
  <2>2. CASE UNCHANGED <<said, pipe>>
    BY <1>4, <2>1, <2>2
  <2>3. CASE /\ copier[s] = "copies"
             /\ said' = [said EXCEPT ![s] = said[s] + 1]
             /\ pipe' = [pipe EXCEPT ![s] = Append(pipe[s], said[s] + 1)]
    <3>1. CASE t # s
      BY <1>2, <1>4, <2>1, <2>3, <3>1
    <3>2. CASE t = s
      <4>1. said[t] + 1 = AtPipe(t) + Len(pipe[t]) + 1
        BY <1>2, <2>3, <3>2 DEF InOrder
      <4>2. pipe'[t] = Append(pipe[t], said[t] + 1) /\ said'[t] = said[t] + 1
        BY <1>2, <2>3, <3>2
      <4>3. Runs(pipe'[t], AtPipe(t)) /\ Len(pipe'[t]) = Len(pipe[t]) + 1
        BY <1>2, <1>3, <4>1, <4>2, RunAppend DEF InOrder
      <4>4. /\ AtSocket(t)' = AtSocket(t) /\ AtLines(t)' = AtLines(t)
            /\ AtChunk(t)' = AtChunk(t) /\ AtPipe(t)' = AtPipe(t)
        BY <2>1 DEF AtSocket, AtLines, AtChunk, AtPipe
      <4>5. AtPipe(t) + Len(pipe'[t]) = said'[t]
        BY <1>3, <4>1, <4>2, <4>3
      <4> QED
        BY <1>2, <2>1, <4>3, <4>4, <4>5 DEF InOrder
    <3> QED
      BY <3>1, <3>2
  <2> QED
    BY <1>10, <2>2, <2>3 DEF Write
<1>11. ASSUME NEW d \in Dispatches, StartAgent(d) PROVE InOrder(t)'
  <2>1. UNCHANGED <<page, socket, lines, chunk, pipe, said>>
    BY <1>11 DEF StartAgent, browserVars
  <2>2. copier[t] = "failed" => copier'[t] = "failed"
    BY <1>2, <1>11 DEF StartAgent, CopierAwaited
  <2> QED
    BY <1>4, <2>1, <2>2
<1>12. ASSUME NEW s \in Streams, CopyEnds(s) PROVE InOrder(t)'
  <2>1. UNCHANGED <<page, socket, lines, chunk, pipe, said>>
    BY <1>12 DEF CopyEnds, browserVars
  <2>2. copier[t] = "failed" => copier'[t] = "failed"
    BY <1>2, <1>12 DEF CopyEnds
  <2> QED
    BY <1>4, <2>1, <2>2
<1>13. CASE UNCHANGED <<page, socket, lines, chunk, pipe, said, copier>>
  BY <1>4, <1>13
<1> QED
  BY <1>5, <1>6, <1>7, <1>8, <1>9, <1>10, <1>11, <1>12, <1>13
     DEF Next, vars, HandlerStep, CopierStep, DispatcherStep, Start, Scan, EndOfOutput,
         ClosePipe, Tell, StartPost, Lock, Refuse, Finish, Unlock, CloseWriter,
         Stall, Resume, GoAway, Turn, Exit, Kill, processVars, browserVars

(* One run after another is a run.                                         *)
LEMMA RunsJoined ==
  ASSUME NEW p, NEW q, Runs(p, 0), Runs(q, Len(p))
  PROVE  Runs(p \o q, 0) /\ Len(p \o q) = Len(p) + Len(q)
<1>1. p \in Seq(Nat) /\ q \in Seq(Nat) /\ Len(p) \in Nat /\ Len(q) \in Nat
  BY DEF Runs
<1>2. p \o q \in Seq(Nat) /\ Len(p \o q) = Len(p) + Len(q)
  BY <1>1
<1>3. \A i \in 1..Len(p \o q) : (p \o q)[i] = IF i <= Len(p) THEN p[i] ELSE q[i - Len(p)]
  BY <1>1
<1>4. ASSUME NEW i \in 1..Len(p \o q) PROVE (p \o q)[i] = 0 + i
  <2>1. CASE i <= Len(p)
    BY <1>1, <1>3, <2>1 DEF Runs
  <2>2. CASE i > Len(p)
    <3>1. i - Len(p) \in 1..Len(q)
      BY <1>1, <1>2, <2>2
    <3>2. q[i - Len(p)] = Len(p) + (i - Len(p))
      BY <3>1 DEF Runs
    <3> QED
      BY <1>1, <1>2, <1>3, <2>2, <3>2
  <2> QED
    BY <1>1, <1>2, <2>1, <2>2
<1> QED
  BY <1>2, <1>4 DEF Runs

(* A page shows the output from its beginning, in order; and when its      *)
(* handler has ended, all of it, unless a line was too long                *)
(* (dispatch_stream.go:66-72).                                             *)
THEOREM ShowsEverything == Spec => []NothingLost
<1>1. OrderInv /\ [Next]_vars => OrderInv'
  <2> SUFFICES ASSUME OrderInv, [Next]_vars PROVE OrderInv'
    OBVIOUS
  <2>1. LiveInv'
    BY LiveInvStep DEF OrderInv
  <2>2. PageTypes'
    BY PageTyped DEF OrderInv
  <2>3. \A s \in Streams : Emptied(s)' /\ (browser'[s] # "gone" => InOrder(s)')
    BY EmptiedKept, OrderKept
  <2> QED
    BY <2>1, <2>2, <2>3 DEF OrderInv
<1>2. OrderInv => NothingLost
  <2> SUFFICES ASSUME OrderInv, NEW s \in Streams, browser[s] # "gone"
               PROVE  /\ Shown(s) = Upto(Len(Shown(s)))
                      /\ handler[s] = "ended" => Len(Shown(s)) = said[s] \/ LongSaid(s)
    BY DEF NothingLost, LongSaid
  <2>1. Types /\ InOrder(s) /\ Emptied(s) /\ CopierAwaited(s) /\ StopsForLong(s)
    BY DEF OrderInv, LiveInv
  <2>2. Runs(Shown(s), 0) /\ Len(Shown(s)) = Len(page[s]) + Len(socket[s])
    BY <2>1, RunsJoined DEF InOrder, AtSocket, Shown
  <2>3. Shown(s) = Upto(Len(Shown(s)))
    <3>0. Shown(s) \in Seq(Nat) /\ \A i \in 1..Len(Shown(s)) : Shown(s)[i] = 0 + i
      BY <2>2 DEF Runs
    <3>1. /\ Shown(s) \in Seq(Nat) /\ Len(Shown(s)) \in Nat
          /\ \A i \in 1..Len(Shown(s)) : Shown(s)[i] = 0 + i
      BY <3>0
    <3>2. DOMAIN Shown(s) = 1..Len(Shown(s)) /\ Shown(s) = [i \in DOMAIN Shown(s) |-> Shown(s)[i]]
      BY <3>1
    <3>3. \A i \in 1..Len(Shown(s)) : Shown(s)[i] = i
      BY <3>1
    <3> QED
      BY <3>2, <3>3 DEF Upto
  <2>4. ASSUME handler[s] = "ended", ~ LongSaid(s) PROVE Len(Shown(s)) = said[s]
    <3>1. copier[s] \notin {"copies", "failed"}
      BY <2>1, <2>4 DEF StopsForLong, CopierAwaited
    <3>2. lines[s] = <<>> /\ chunk[s] = <<>> /\ pipe[s] = <<>>
      BY <2>1, <2>4, <3>1 DEF Emptied
    <3>3. Len(lines[s]) = 0 /\ Len(chunk[s]) = 0 /\ Len(pipe[s]) = 0
      BY <3>2
    <3>4. AtLines(s) \in Nat /\ AtChunk(s) \in Nat /\ AtPipe(s) \in Nat
      BY <2>1, Places
    <3>5. AtChunk(s) = AtLines(s)
      BY <3>3, <3>4 DEF AtChunk
    <3>6. AtPipe(s) = AtChunk(s)
      BY <3>3, <3>4 DEF AtPipe
    <3>7. AtPipe(s) = said[s]
      BY <2>1, <3>1, <3>3, <3>4 DEF InOrder
    <3>8. Len(page[s]) + Len(socket[s]) = said[s]
      BY <3>5, <3>6, <3>7 DEF AtLines, AtSocket
    <3> QED
      BY <2>2, <3>8
  <2> QED
    BY <2>3, <2>4
<1> QED
  BY <1>1, <1>2, InitOrder, PTL DEF Spec
=============================================================================
