----------------------------- MODULE LiveOutput ------------------------------
(***************************************************************************)
(* An execution watched live: what the switch says to aclagent goes down   *)
(* its standard error, through a pipe of the kernel, a copying goroutine   *)
(* of os/exec, an io.Pipe and a line scanner to the browser, and the       *)
(* outcome of the dispatch after it.  A plain POST executes a request      *)
(* without any of this, under the same mutex.                              *)
(*                                                                         *)
(* A line is its number.  Time is left out: a timeout may come at any      *)
(* moment, and comes if nothing else does.                                 *)
(***************************************************************************)
EXTENDS Naturals, Sequences

CONSTANTS
  Streams,    \* requests for /dispatch/stream, and their browsers
  Posts,      \* requests for /dispatch
  None,       \* nobody
  MaxLines,   \* bound: lines an agent writes
  PipeMax,    \* lines the kernel's pipe holds
  SocketMax   \* lines the connection to a browser holds

ASSUME StreamAssumption ==
  /\ None \notin Streams \cup Posts /\ Streams \cap Posts = {}
  /\ {MaxLines, PipeMax, SocketMax} \subseteq Nat \ {0}

VARIABLES
  handler,     \* handleDispatchSSE
  dispatcher,  \* the goroutine it starts; handleDispatch
  dispatchMu,  \* who holds it
  agent,       \* the aclagent process
  said,        \* how many lines it has written
  long,        \* which of them is longer than the scanner takes, or 0
  pipe,        \* the kernel's pipe
  copier,      \* os/exec's goroutine
  chunk,       \* what it is writing to the io.Pipe
  lines,       \* the scanner's buffer
  outcome,     \* dispatchErr: none (nil, not set), ok (nil) or failed
  browser,
  socket,      \* written to the connection and not read
  page,        \* lines on the page
  told         \* the last event: done, error, or none yet

processVars == <<agent, said, long, pipe, copier>>
dispatchVars == <<dispatcher, dispatchMu, outcome>>
browserVars == <<browser, socket, page, told>>
vars == <<handler, chunk, lines, processVars, dispatchVars, browserVars>>

Dispatches == Streams \cup Posts

Init ==
  /\ handler = [s \in Streams |-> "idle"]
  /\ dispatcher = [d \in Dispatches |-> "idle"]
  /\ dispatchMu = None
  /\ agent = [d \in Dispatches |-> "none"]
  /\ said = [s \in Streams |-> 0]
  /\ long \in [Streams -> 0..MaxLines]
  /\ pipe = [s \in Streams |-> <<>>]
  /\ copier = [s \in Streams |-> "none"]
  /\ chunk = [s \in Streams |-> <<>>]
  /\ lines = [s \in Streams |-> <<>>]
  /\ outcome = [d \in Dispatches |-> "none"]
  /\ browser = [s \in Streams |-> "reads"]
  /\ socket = [s \in Streams |-> <<>>]
  /\ page = [s \in Streams |-> <<>>]
  /\ told = [s \in Streams |-> "none"]

Exited(d) == agent[d] \in {"ok", "failed", "killed", "broken pipe"}
WriterClosed(s) == dispatcher[s] = "ended"                  \* pw.Close()
ReaderClosed_AfterWait(s) == handler[s] = "ended"
ReaderClosed(s) == handler[s] \in {"wait", "ended"}         \* pr.Close()

HandlerTo(s, pc) == handler' = [handler EXCEPT ![s] = pc]
DispatcherTo(d, pc) == dispatcher' = [dispatcher EXCEPT ![d] = pc]

-----------------------------------------------------------------------------
(* The handler: start the dispatcher, forward lines until the pipe ends or *)
(* a line is too long, close the pipe, wait, tell the outcome.             *)

Start(s) ==
  /\ handler[s] = "idle"
  /\ HandlerTo(s, "scan")
  /\ DispatcherTo(s, "lock")
  /\ UNCHANGED <<dispatchMu, outcome, chunk, lines, processVars, browserVars>>

(* The scanner reads what is being written, or a part of it.               *)
Fill(s) ==
  /\ handler[s] = "scan"
  /\ lines[s] = <<>>
  /\ \E n \in 1..Len(chunk[s]) :
       /\ lines' = [lines EXCEPT ![s] = SubSeq(chunk[s], 1, n)]
       /\ chunk' = [chunk EXCEPT ![s] = SubSeq(@, n + 1, Len(@))]
  /\ UNCHANGED <<handler, processVars, dispatchVars, browserVars>>

Scan(s) ==
  /\ handler[s] = "scan"
  /\ lines[s] # <<>>
  /\ HandlerTo(s, IF Head(lines[s]) = long[s] THEN "close" ELSE "show")
  /\ UNCHANGED <<chunk, lines, processVars, dispatchVars, browserVars>>

EndOfOutput(s) ==
  /\ handler[s] = "scan"
  /\ lines[s] = <<>> /\ chunk[s] = <<>> /\ WriterClosed(s)
  /\ HandlerTo(s, "close")
  /\ UNCHANGED <<chunk, lines, processVars, dispatchVars, browserVars>>

(* Writing to a browser blocks while the connection is full; that it is    *)
(* gone is an error, and ignored.                                          *)
AfterShow_StopsWhenGone(s) == IF browser[s] = "gone" THEN "close" ELSE "scan"
AfterShow(s) == "scan"

Show(s) ==
  /\ handler[s] = "show"
  /\ \/ browser[s] = "gone" /\ UNCHANGED socket
     \/ /\ browser[s] # "gone"
        /\ Len(socket[s]) < SocketMax
        /\ socket' = [socket EXCEPT ![s] = Append(@, Head(lines[s]))]
  /\ lines' = [lines EXCEPT ![s] = Tail(@)]
  /\ HandlerTo(s, AfterShow(s))
  /\ UNCHANGED <<chunk, processVars, dispatchVars, browser, page, told>>

ClosePipe(s) ==
  /\ handler[s] = "close"
  /\ HandlerTo(s, "wait")
  /\ UNCHANGED <<chunk, lines, processVars, dispatchVars, browserVars>>

Waited_NotAtAll(s) == TRUE
Waited(s) == dispatcher[s] = "ended"

Tell(s) ==
  /\ handler[s] = "wait"
  /\ Waited(s)
  /\ browser[s] # "gone" => Len(socket[s]) < SocketMax
  /\ told' = [told EXCEPT ![s] = IF outcome[s] = "failed" THEN "error" ELSE "done"]
  /\ HandlerTo(s, "ended")
  /\ UNCHANGED <<chunk, lines, processVars, dispatchVars, browser, socket, page>>

-----------------------------------------------------------------------------
(* The dispatcher: under the mutex, DispatchStream and its agent.          *)

StartPost(d) ==
  /\ d \in Posts
  /\ dispatcher[d] = "idle"
  /\ DispatcherTo(d, "lock")
  /\ UNCHANGED <<handler, dispatchMu, outcome, chunk, lines, processVars, browserVars>>

Lock(d) ==
  /\ dispatcher[d] = "lock"
  /\ dispatchMu = None
  /\ dispatchMu' = d
  /\ DispatcherTo(d, "check")
  /\ UNCHANGED <<handler, outcome, chunk, lines, processVars, browserVars>>

(* Refused before an agent is started: not awaiting execution, a snapshot  *)
(* that fails, drift.                                                      *)
Refuse(d) ==
  /\ dispatcher[d] = "check"
  /\ outcome' = [outcome EXCEPT ![d] = "failed"]
  /\ DispatcherTo(d, "unlock")
  /\ UNCHANGED <<handler, dispatchMu, chunk, lines, processVars, browserVars>>

StartAgent(d) ==
  /\ dispatcher[d] = "check"
  /\ agent' = [agent EXCEPT ![d] = "runs"]
  /\ copier' = [s \in Streams |-> IF s = d THEN "copies" ELSE copier[s]]
  /\ DispatcherTo(d, "agent")
  /\ UNCHANGED <<handler, dispatchMu, outcome, said, long, pipe, chunk, lines, browserVars>>

(* cmd.Wait: for the process, and for the goroutine that copies; then the  *)
(* snapshot, the verification or the rollback, and the row.                *)
Copied_OrNot(d) == TRUE
Copied(d) == d \in Streams => copier[d] \in {"ended", "failed"}

Finish(d) ==
  /\ dispatcher[d] = "agent"
  /\ Exited(d) /\ Copied(d)
  /\ \/ outcome' = [outcome EXCEPT ![d] = "failed"]
     \/ /\ agent[d] = "ok" /\ (d \in Streams => copier[d] # "failed")
        /\ outcome' = [outcome EXCEPT ![d] = "ok"]
  /\ DispatcherTo(d, "unlock")
  /\ UNCHANGED <<handler, dispatchMu, chunk, lines, processVars, browserVars>>

(* The deferred calls: Unlock, pw.Close, wg.Done.                          *)
Unlock(d) ==
  /\ dispatcher[d] = "unlock"
  /\ dispatchMu' = None
  /\ DispatcherTo(d, "close")
  /\ UNCHANGED <<handler, outcome, chunk, lines, processVars, browserVars>>

CloseWriter(d) ==
  /\ dispatcher[d] = "close"
  /\ DispatcherTo(d, "ended")
  /\ UNCHANGED <<handler, dispatchMu, outcome, chunk, lines, processVars, browserVars>>

-----------------------------------------------------------------------------
(* The agent and its standard error.                                       *)

AgentTo(d, state) == agent' = [agent EXCEPT ![d] = state]

(* A full pipe blocks the write; one that nobody reads any more ends the   *)
(* process.                                                                *)
Write(s) ==
  /\ agent[s] = "runs"
  /\ said[s] < MaxLines
  /\ \/ /\ copier[s] = "failed"
        /\ AgentTo(s, "broken pipe")
        /\ UNCHANGED <<said, pipe>>
     \/ /\ copier[s] = "copies" /\ Len(pipe[s]) < PipeMax
        /\ said' = [said EXCEPT ![s] = @ + 1]
        /\ pipe' = [pipe EXCEPT ![s] = Append(@, said[s] + 1)]
        /\ UNCHANGED agent
  /\ UNCHANGED <<handler, long, copier, chunk, lines, dispatchVars, browserVars>>

Exit(d, result) ==
  /\ agent[d] = "runs"
  /\ AgentTo(d, result)
  /\ UNCHANGED <<handler, said, long, pipe, copier, chunk, lines, dispatchVars, browserVars>>

(* AgentTimeout, or the 90 s of the dispatch.                              *)
Kill(d) == Exit(d, "killed")

(* io.Copy to io.MultiWriter(w, tail): each write waits for the scanner.   *)
Copy(s) ==
  /\ copier[s] = "copies"
  /\ chunk[s] = <<>>
  /\ \E n \in 1..Len(pipe[s]) :
       /\ chunk' = [chunk EXCEPT ![s] = SubSeq(pipe[s], 1, n)]
       /\ pipe' = [pipe EXCEPT ![s] = SubSeq(@, n + 1, Len(@))]
  /\ UNCHANGED <<handler, agent, said, long, copier, lines, dispatchVars, browserVars>>

CopyEnds(s) ==
  /\ copier[s] = "copies"
  /\ chunk[s] = <<>> /\ pipe[s] = <<>> /\ Exited(s)
  /\ copier' = [copier EXCEPT ![s] = "ended"]
  /\ UNCHANGED <<handler, agent, said, long, pipe, chunk, lines, dispatchVars, browserVars>>

(* The reader is closed: the write fails, and the copying goroutine closes *)
(* its end of the kernel's pipe.                                           *)
CopyFails(s) ==
  /\ copier[s] = "copies"
  /\ chunk[s] # <<>> /\ ReaderClosed(s)
  /\ copier' = [copier EXCEPT ![s] = "failed"]
  /\ chunk' = [chunk EXCEPT ![s] = <<>>]
  /\ pipe' = [pipe EXCEPT ![s] = <<>>]
  /\ UNCHANGED <<handler, agent, said, long, lines, dispatchVars, browserVars>>

-----------------------------------------------------------------------------
(* The browser: it reads, or stops reading for a while, or goes away.      *)

Read(s) ==
  /\ browser[s] = "reads"
  /\ socket[s] # <<>>
  /\ page' = [page EXCEPT ![s] = Append(@, Head(socket[s]))]
  /\ socket' = [socket EXCEPT ![s] = Tail(@)]
  /\ UNCHANGED <<handler, chunk, lines, processVars, dispatchVars, browser, told>>

Turn(s, from, to) ==
  /\ handler[s] # "idle"
  /\ browser[s] \in from
  /\ browser' = [browser EXCEPT ![s] = to]
  /\ UNCHANGED <<handler, chunk, lines, processVars, dispatchVars, socket, page, told>>

Stall(s) == Turn(s, {"reads"}, "stalls")
Resume(s) == Turn(s, {"stalls"}, "reads")
GoAway(s) == Turn(s, {"reads", "stalls"}, "gone")

-----------------------------------------------------------------------------
HandlerStep(s) ==
  \/ Fill(s)
  \/ Scan(s)
  \/ EndOfOutput(s)
  \/ Show(s)
  \/ ClosePipe(s)
  \/ Tell(s)

DispatcherStep(d) ==
  \/ Lock(d)
  \/ Refuse(d)
  \/ StartAgent(d)
  \/ Finish(d)
  \/ Unlock(d)
  \/ CloseWriter(d)

CopierStep(s) ==
  \/ Copy(s)
  \/ CopyEnds(s)
  \/ CopyFails(s)

Next ==
  \/ \E s \in Streams :
       \/ Start(s)
       \/ HandlerStep(s)
       \/ CopierStep(s)
       \/ Write(s)
       \/ Read(s)
       \/ Stall(s)
       \/ Resume(s)
       \/ GoAway(s)
  \/ \E d \in Dispatches :
       \/ StartPost(d)
       \/ DispatcherStep(d)
       \/ \E result \in {"ok", "failed"} : Exit(d, result)
       \/ Kill(d)

Spec == Init /\ [][Next]_vars

(* Goroutines run, timeouts come, and a browser that reads, reads.  An     *)
(* agent need not do anything.                                             *)
FairSpec ==
  /\ Spec
  /\ \A s \in Streams : WF_vars(HandlerStep(s)) /\ WF_vars(CopierStep(s)) /\ WF_vars(Read(s))
  /\ \A d \in Dispatches : WF_vars(DispatcherStep(d)) /\ WF_vars(Kill(d))

-----------------------------------------------------------------------------
(* Properties.                                                             *)

Upto(n) == [i \in 1..n |-> i]
Shown(s) == page[s] \o socket[s]

(* The page shows the session from its beginning, line by line and in      *)
(* order; and all of it once the end of the output was seen, unless a line *)
(* was too long (dispatch_stream.go:66-72).                                *)
NothingLost ==
  \A s \in Streams : browser[s] # "gone" =>
    /\ Shown(s) = Upto(Len(Shown(s)))
    /\ handler[s] = "ended" => Len(Shown(s)) = said[s] \/ long[s] \in 1..said[s]

(* A browser may stall or leave: the agent, in the middle of a change of   *)
(* the switch, is not brought down by its output.  Only a line too long    *)
(* for the scanner does that (dispatch_stream.go:69-72).                   *)
AgentOutlivesBrowser ==
  \A s \in Streams : agent[s] = "broken pipe" => long[s] \in 1..said[s]

(* The last event tells what the dispatch returned, and "done" comes after *)
(* the end of a session that succeeded (dispatch_stream.go:73-79).         *)
ToldTheOutcome ==
  \A s \in Streams :
    /\ told[s] = "done" => outcome[s] = "ok" /\ agent[s] = "ok"
    /\ told[s] = "error" => outcome[s] = "failed"

(* Every request is answered, which takes that every dispatcher before it  *)
(* gives the mutex back, if no browser stalls for ever: there is no write  *)
(* timeout, and a killed agent is waited for until its output is read      *)
(* (cmd/aclweb/main.go:163-172, core.go:504).                              *)
HandlerEnds ==
  (\A s \in Streams : <>[](browser[s] # "stalls")) =>
    /\ \A s \in Streams : handler[s] = "scan" ~> handler[s] = "ended"
    /\ \A d \in Posts : dispatcher[d] = "lock" ~> dispatcher[d] = "ended"
=============================================================================
