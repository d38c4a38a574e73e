----------------------------- MODULE AgentBackend -----------------------------
(***************************************************************************)
(* The command line backends of internal/agent: ClaudeBackend and          *)
(* CodexBackend, which scan the child's output line by line, and           *)
(* GenericCLIBackend, which collects it.  One backend serves one session:  *)
(* its Prompt calls follow one another, and the child process, the watcher *)
(* of exec.CommandContext and Kill run beside them.                        *)
(*                                                                         *)
(* A line of output is what the code tells apart in it; one that carries   *)
(* several of these things counts as several lines.  MaxCalls and MaxLines *)
(* bound the model; PipeSize is the pipe's room in lines.                  *)
(***************************************************************************)
EXTENDS Naturals, Sequences

CONSTANTS
    Kinds,      \* the backends to consider: "claude", "codex", "generic"
    Ids,        \* Claude Code session ids
    NoId,       \* the empty session id
    PipeSize,   \* lines the child can write ahead of the reader
    MaxCalls,   \* bound: calls of Prompt
    MaxLines    \* bound: lines a child writes

ASSUME KindsAssumption == Kinds \subseteq {"claude", "codex", "generic"}
ASSUME NoIdAssumption == NoId \notin Ids
ASSUME SizesAssumption ==
    PipeSize \in Nat \ {0} /\ MaxCalls \in Nat /\ MaxLines \in Nat

VARIABLES
    kind,       \* which backend this is
    ctx,        \* the context of the session: "live" or "done"
    \* the backend and the call of Prompt in progress
    pc,
    calls,      \* calls so far; a child is named by its call
    cmd,        \* b.cmd, as the call it belongs to, or 0
    sessionID,
    resume,     \* the --resume argument of the command
    got,        \* pieces of text in resultText or stdoutBuf
    blank,      \* stdoutBuf holds white space
    shown,      \* pieces of text given to onText
    stop,       \* stopReason
    tooLong,    \* a line exceeded the scanner's buffer: scanner.Err()
    outcome,    \* what the last call returned
    \* the child process
    child,      \* "none", "running", "ok" or "failed"
    pipe,       \* lines written and not read
    wrote,      \* pieces of text written
    lines,      \* lines written
    shut,       \* the child has closed its output
    held,       \* a process started by the child holds the output open
    \* a call of Kill
    target      \* the command it has read, or 0

childVars  == <<child, pipe, wrote, lines, shut, held>>
answerVars == <<got, blank, shown, stop, tooLong>>
vars == <<kind, ctx, pc, calls, cmd, sessionID, resume, answerVars, outcome,
          childVars, target>>

Scans == kind # "generic"

\* Claude's result lines, by their stop reason: it is the child's to choose.
Results == {"result", "result_refusal", "result_cancelled", "result_error"}

\* What a line of output amounts to.  "long" exceeds the scanner's buffer.
LineTypes ==
    CASE kind = "claude"  -> {"session", "text", "other", "long"} \cup Results
      [] kind = "codex"   -> {"text", "other", "long"}
      [] kind = "generic" -> {"text", "other"}

Lines == {"session", "text", "other", "long"} \cup Results

Init ==
    /\ kind \in Kinds
    /\ ctx = "live"
    /\ pc = "idle"
    /\ calls = 0
    /\ cmd = 0
    /\ sessionID = NoId
    /\ resume = NoId
    /\ got = 0 /\ blank = FALSE /\ shown = 0 /\ stop = "end"
    /\ tooLong = FALSE
    /\ outcome = "none"
    /\ child = "none" /\ pipe = << >> /\ wrote = 0 /\ lines = 0
    /\ shut = FALSE /\ held = FALSE
    /\ target = 0

-----------------------------------------------------------------------------
(* Prompt. *)

\* Prompt builds the command; only Claude's carries the session id.
Call ==
    /\ pc = "idle" /\ calls < MaxCalls
    /\ pc' = "called"
    /\ calls' = calls + 1
    /\ resume' = sessionID
    /\ got' = 0 /\ blank' = FALSE /\ shown' = 0 /\ stop' = "end"
    /\ tooLong' = FALSE
    /\ outcome' = "none"
    /\ child' = "none" /\ pipe' = << >> /\ wrote' = 0 /\ lines' = 0
    /\ shut' = FALSE /\ held' = FALSE
    /\ UNCHANGED <<kind, ctx, cmd, sessionID, target>>

\* cmd.Start fails when the command cannot run, and whenever the context is done.
StartFails ==
    /\ pc = "called"
    /\ pc' = "idle"
    /\ outcome' = "failed"
    /\ UNCHANGED <<kind, ctx, calls, cmd, sessionID, resume, answerVars,
                   childVars, target>>

Start ==
    /\ pc = "called" /\ ctx = "live"
    /\ pc' = "started"
    /\ child' = "running"
    /\ UNCHANGED <<kind, ctx, calls, cmd, sessionID, resume, answerVars,
                   outcome, pipe, wrote, lines, shut, held, target>>

\* Only from here on can Kill find the command.
Publish ==
    /\ pc = "started"
    /\ cmd' = calls
    /\ pc' = IF Scans THEN "reading" ELSE "waiting"
    /\ UNCHANGED <<kind, ctx, calls, sessionID, resume, answerVars, outcome,
                   childVars, target>>

\* Mutant: a line that is not understood ends the loop.
StopsAtAnyUnknown(line) == line \in {"long", "other"}

\* The scanner gives up on a line that exceeds its buffer.
StopsScanner(line) == line = "long"

\* Mutant: every id reported replaces the one kept.
SessionReplaced(line) == line = "session"

\* The first session id reported is the one that is kept.
SessionLearnt(line) == line = "session" /\ sessionID = NoId

\* A result line may carry a text of its own, used when none came before it,
\* but not given to onText.  Its stop reason is taken over, if it has one; one
\* that the manager does not tell from "end" counts as "end".
Understand(line) ==
    /\ CASE line = "text"                   -> got' = got + 1
         [] line \in Results /\ got = 0     -> got' \in {0, 1}
         [] OTHER                           -> got' = got
    /\ shown' = IF line = "text" THEN shown + 1 ELSE shown
    /\ CASE line = "result"           -> stop' \in {stop, "end"}
         [] line = "result_refusal"   -> stop' = "refusal"
         [] line = "result_cancelled" -> stop' = "cancelled"
         [] line = "result_error"     -> stop' = "error"
         [] OTHER                     -> stop' = stop
    /\ \/ SessionLearnt(line) /\ sessionID' \in Ids
       \/ ~SessionLearnt(line) /\ UNCHANGED sessionID

\* One turn of the loop over scanner.Scan.
ReadLine ==
    /\ pc = "reading" /\ pipe # << >>
    /\ pipe' = Tail(pipe)
    /\ tooLong' = (Head(pipe) = "long")
    /\ IF StopsScanner(Head(pipe))
       THEN pc' = "waiting" /\ UNCHANGED <<got, shown, stop, sessionID>>
       ELSE Understand(Head(pipe)) /\ UNCHANGED pc
    /\ UNCHANGED <<kind, ctx, calls, cmd, resume, blank, outcome, child, wrote,
                   lines, shut, held, target>>

Dead == child \in {"ok", "failed"}

\* The end of the output: nobody holds its writing end any more.
ReadEnd ==
    /\ pc = "reading" /\ pipe = << >> /\ ~held /\ (Dead \/ shut)
    /\ pc' = "waiting"
    /\ UNCHANGED <<kind, ctx, calls, cmd, sessionID, resume, answerVars,
                   outcome, childVars, target>>

\* The goroutine of exec.Cmd that fills stdoutBuf.
Copy ==
    /\ ~Scans /\ child # "none" /\ pipe # << >>
    /\ pipe' = Tail(pipe)
    /\ got' = IF Head(pipe) = "text" THEN got + 1 ELSE got
    /\ blank' = (blank \/ Head(pipe) = "other")
    /\ UNCHANGED <<kind, ctx, pc, calls, cmd, sessionID, resume, shown, stop,
                   tooLong, outcome, child, wrote, lines, shut, held, target>>

\* cmd.Wait waits for the child and for the copying of its output; of stderr,
\* copied by every backend, all that matters is who holds it open.
CanWait == pc = "waiting" /\ Dead /\ ~held /\ (Scans \/ pipe = << >>)

\* Mutant: b.cmd is not cleared.
CmdKept == cmd

\* The deferred function clears b.cmd on every way out.
CmdAfter == 0

\* Mutant: the context is not asked.
FailureUnasked == IF got > 0 \/ blank THEN "cancelled" ELSE "failed"

\* Mutant: what was written before the failure is forgotten.
FailureDropsText == IF ctx = "done" THEN "cancelled" ELSE "failed"

\* What Prompt returns when Wait gives an error.
Failure ==
    IF ctx = "done" THEN "cancelled"
    ELSE IF got > 0 \/ blank THEN "error" ELSE "failed"

\* Wait gives an error for a child that failed and, when the context was done
\* before the child was reaped, for one that did not.
WaitFails ==
    /\ CanWait
    /\ child = "failed" \/ ctx = "done"
    /\ pc' = "idle" /\ cmd' = CmdAfter
    /\ outcome' = Failure
    /\ UNCHANGED <<kind, ctx, calls, sessionID, resume, answerVars, childVars,
                   target>>

\* Mutant: what was collected is only returned.
ShownAsBefore == shown

\* GenericCLIBackend gives all of the text to onText now.
ShownAtEnd == IF Scans THEN shown ELSE got

WaitSucceeds ==
    /\ CanWait
    /\ child = "ok"
    /\ pc' = "idle" /\ cmd' = CmdAfter
    /\ outcome' = stop
    /\ shown' = ShownAtEnd
    /\ UNCHANGED <<kind, ctx, calls, sessionID, resume, got, blank, stop,
                   tooLong, childVars, target>>

-----------------------------------------------------------------------------
(* The child process. *)

Write(line) ==
    /\ (child = "running" /\ ~shut) \/ held
    /\ lines < MaxLines /\ Len(pipe) < PipeSize
    /\ line \in LineTypes
    /\ pipe' = Append(pipe, line)
    /\ lines' = lines + 1
    /\ wrote' = IF line = "text" THEN wrote + 1 ELSE wrote
    /\ UNCHANGED <<kind, ctx, pc, calls, cmd, sessionID, resume, answerVars,
                   outcome, child, shut, held, target>>

CloseOutput ==
    /\ child = "running" /\ ~shut
    /\ shut' = TRUE
    /\ UNCHANGED <<kind, ctx, pc, calls, cmd, sessionID, resume, answerVars,
                   outcome, child, pipe, wrote, lines, held, target>>

\* A process started by the child inherits its output and may outlive it.
Fork ==
    /\ child = "running" /\ ~shut /\ ~held
    /\ held' = TRUE
    /\ UNCHANGED <<kind, ctx, pc, calls, cmd, sessionID, resume, answerVars,
                   outcome, child, pipe, wrote, lines, shut, target>>

Release ==
    /\ held
    /\ held' = FALSE
    /\ UNCHANGED <<kind, ctx, pc, calls, cmd, sessionID, resume, answerVars,
                   outcome, child, pipe, wrote, lines, shut, target>>

ChildExits ==
    /\ child = "running"
    /\ child' \in {"ok", "failed"}
    /\ UNCHANGED <<kind, ctx, pc, calls, cmd, sessionID, resume, answerVars,
                   outcome, pipe, wrote, lines, shut, held, target>>

-----------------------------------------------------------------------------
(* The end of the session: its context is cancelled, then Kill is called. *)

Cancel ==
    /\ ctx = "live"
    /\ ctx' = "done"
    /\ UNCHANGED <<kind, pc, calls, cmd, sessionID, resume, answerVars, outcome,
                   childVars, target>>

\* Kill reads b.cmd under the lock and signals the process after it.
KillReads ==
    /\ ctx = "done" /\ target = 0 /\ cmd # 0
    /\ target' = cmd
    /\ UNCHANGED <<kind, ctx, pc, calls, cmd, sessionID, resume, answerVars,
                   outcome, childVars>>

KillSignals ==
    /\ target # 0
    /\ target' = 0
    /\ child' = IF target = calls /\ child = "running" THEN "failed" ELSE child
    /\ UNCHANGED <<kind, ctx, pc, calls, cmd, sessionID, resume, answerVars,
                   outcome, pipe, wrote, lines, shut, held>>

\* Mutant: exec.Command, without the context.
Unwatched == FALSE

Watched == ctx = "done"

\* The watcher of exec.CommandContext kills a child that outlives the context.
WatcherKills ==
    /\ child = "running" /\ Watched
    /\ child' = "failed"
    /\ UNCHANGED <<kind, ctx, pc, calls, cmd, sessionID, resume, answerVars,
                   outcome, pipe, wrote, lines, shut, held, target>>

-----------------------------------------------------------------------------
PromptStep ==
    StartFails \/ Start \/ Publish \/ ReadLine \/ ReadEnd \/ WaitFails \/ WaitSucceeds

Next ==
    \/ Call \/ PromptStep \/ Copy
    \/ \E line \in Lines : Write(line)
    \/ CloseOutput \/ Fork \/ Release \/ ChildExits
    \/ Cancel \/ KillReads \/ KillSignals \/ WatcherKills

Spec == Init /\ [][Next]_vars

\* The goroutines of this process run; of the child nothing is assumed.
Fairness ==
    WF_vars(PromptStep) /\ WF_vars(Copy) /\ WF_vars(KillSignals) /\ WF_vars(WatcherKills)

FairSpec == Spec /\ Fairness

-----------------------------------------------------------------------------
(* Properties. *)

\* Every variable stays in its type, and Kill finds a command exactly while
\* Prompt reads its output or waits for it: b.cmd is cleared on every way out.
TypeOK ==
    /\ kind \in Kinds
    /\ ctx \in {"live", "done"}
    /\ pc \in {"idle", "called", "started", "reading", "waiting"}
    /\ calls \in 0 .. MaxCalls
    /\ cmd = IF pc \in {"reading", "waiting"} THEN calls ELSE 0
    /\ sessionID \in Ids \cup {NoId}
    /\ resume \in Ids \cup {NoId}
    /\ got \in Nat /\ blank \in BOOLEAN /\ shown \in Nat
    /\ stop \in {"end", "refusal", "cancelled", "error"} /\ tooLong \in BOOLEAN
    /\ outcome \in {"none", "failed", "end", "error", "refusal", "cancelled"}
    /\ child \in {"none", "running", "ok", "failed"}
    /\ pipe \in Seq(Lines) /\ Len(pipe) <= PipeSize
    /\ wrote \in Nat /\ lines \in 0 .. MaxLines
    /\ shut \in BOOLEAN /\ held \in BOOLEAN
    /\ target \in 0 .. calls

Contract == INSTANCE BackendContract
    WITH phase <- CASE pc = "idle" -> "idle"
                    [] pc = "called" -> "called"
                    [] OTHER -> "prompting",
         done <- (ctx = "done")

\* The backends are what the session manager takes them for: no agent starts
\* under a context that is done, no text comes after the result, and a call that
\* fails has shown nothing.
ImplementsContract == Contract!ContractSpec

\* When Prompt returns a result for an agent that ended well, all the text the
\* agent wrote has been given to onText, whatever came between; with a scanner
\* that is so for an agent that failed or was cancelled as well.  A line too
\* long for the scanner is the exception.
AnswerComplete ==
    (/\ pc = "idle" /\ outcome \in {"end", "refusal", "cancelled", "error"}
     /\ Scans \/ (child = "ok" /\ outcome # "cancelled")
     /\ ~tooLong) => shown = wrote

\* A result says "cancelled", of which the user is told, when the context is
\* done; under a live context only Claude's child says it, having ended well.
CancelledOnlySo ==
    (pc = "idle" /\ outcome = "cancelled") =>
        ctx = "done" \/ (kind = "claude" /\ child = "ok")

\* Prompt waits for a child whose output nobody reads any more: only a line
\* too long for the scanner leads there.
Wedged == pc = "waiting" /\ Scans /\ child = "running" /\ ~shut

WedgedOnlyByLongLine == Wedged => tooLong

\* A Claude backend continues one conversation: the session id it has once
\* resumed with is not given up for another that a later command reports.
OneConversation ==
    [][resume # NoId => sessionID' = sessionID /\ resume' = resume]_vars

\* Prompt returns once the context is done, unless a process that the agent
\* left behind keeps the output open.
KilledReturns == (ctx = "done" /\ pc # "idle") ~> (pc = "idle" \/ held)

\* Of the text in a result, onText was not given the one that came with
\* Claude's result line, and all of what a generic command wrote that failed or
\* was cancelled; nothing else.  The manager sends only what onText was given.
UnshownOnlySo ==
    (pc = "idle" /\ outcome \notin {"none", "failed"} /\ got # shown) =>
        \/ kind = "claude" /\ got = shown + 1
        \/ kind = "generic" /\ shown = 0 /\ (child = "failed" \/ ctx = "done")
=============================================================================
