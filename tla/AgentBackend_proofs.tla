------------------------- MODULE AgentBackend_proofs -------------------------
(***************************************************************************)
(* The backends implement BackendContract, keep their conversation, and    *)
(* are wedged only by a line too long, and what they return is complete:   *)
(* for any child process, any number of calls and any size of the pipe.    *)
(***************************************************************************)
EXTENDS AgentBackend, FiniteSetTheorems, TLAPS

\* While Prompt runs, what was shown was also collected; nothing is shown
\* before there is a child, nor by the generic backend before it is over.
ShownIsCollected ==
    pc # "idle" => /\ got = 0 => shown = 0
                   /\ ~Scans \/ pc = "called" => shown = 0

\* Only a scanner reads lines.
ScannersRead == pc = "reading" => Scans

\* The conversation that was resumed is the one that is kept.
ResumesKept == resume = NoId \/ resume = sessionID

Inv ==
    /\ TypeOK
    /\ ShownIsCollected /\ ScannersRead
    /\ ResumesKept
    /\ WedgedOnlyByLongLine

LEMMA EmptyPipe == << >> \in Seq(Lines) /\ Len(<< >>) <= PipeSize
BY SizesAssumption

LEMMA InitInv == Init => Inv
<1> SUFFICES ASSUME Init PROVE Inv
  OBVIOUS
<1>1. /\ blank \in BOOLEAN /\ tooLong \in BOOLEAN
      /\ shut \in BOOLEAN /\ held \in BOOLEAN
  BY DEF Init
<1>2. calls \in 0 .. MaxCalls /\ lines \in 0 .. MaxLines /\ target \in 0 .. calls
  BY SizesAssumption DEF Init
<1>3. pipe \in Seq(Lines) /\ Len(pipe) <= PipeSize
  BY EmptyPipe DEF Init
<1>4. TypeOK
  BY <1>1, <1>2, <1>3 DEF Init, TypeOK
<1>5. ShownIsCollected /\ ScannersRead /\ ResumesKept /\ WedgedOnlyByLongLine
  BY DEF Init, ShownIsCollected, ScannersRead, ResumesKept, WedgedOnlyByLongLine, Wedged
<1>6. QED BY <1>4, <1>5 DEF Inv

LEMMA CallInv == ASSUME Inv, Call PROVE Inv'
<1>1. /\ blank' \in BOOLEAN /\ tooLong' \in BOOLEAN
      /\ shut' \in BOOLEAN /\ held' \in BOOLEAN
  BY DEF Call
<1>2. /\ calls' \in 0 .. MaxCalls /\ lines' \in 0 .. MaxLines
      /\ target' \in 0 .. calls' /\ cmd' = 0
  BY SizesAssumption DEF Inv, TypeOK, Call
<1>3. pipe' \in Seq(Lines) /\ Len(pipe') <= PipeSize
  BY EmptyPipe DEF Call
<1>4. TypeOK'
  BY <1>1, <1>2, <1>3 DEF Inv, TypeOK, Call
<1>5. (ShownIsCollected /\ ScannersRead /\ ResumesKept /\ WedgedOnlyByLongLine)'
  BY DEF Inv, TypeOK, Call, ShownIsCollected, ScannersRead, ResumesKept,
         WedgedOnlyByLongLine, Wedged, Scans
<1>6. QED BY <1>4, <1>5 DEF Inv

LEMMA ReleaseInv == ASSUME Inv, Release PROVE Inv'
<1>1. held' \in BOOLEAN
  BY DEF Release
<1>2. TypeOK'
  BY <1>1 DEF Inv, TypeOK, Release, answerVars
<1>3. (ShownIsCollected /\ ScannersRead /\ ResumesKept /\ WedgedOnlyByLongLine)'
  BY DEF Inv, TypeOK, Release, answerVars, ShownIsCollected, ScannersRead,
         ResumesKept, WedgedOnlyByLongLine, Wedged, Scans
<1>4. QED BY <1>2, <1>3 DEF Inv

LEMMA StartFailsInv == ASSUME Inv, StartFails PROVE Inv'
<1>1. TypeOK'
  BY SizesAssumption DEF Inv, TypeOK, StartFails, answerVars, childVars
<1>2. (ShownIsCollected /\ ScannersRead /\ ResumesKept /\ WedgedOnlyByLongLine)'
  BY DEF Inv, TypeOK, StartFails, answerVars, childVars, ShownIsCollected, ScannersRead, ResumesKept,
           WedgedOnlyByLongLine, Wedged, Scans
<1>3. QED BY <1>1, <1>2 DEF Inv

LEMMA StartInv == ASSUME Inv, Start PROVE Inv'
<1>1. TypeOK'
  BY SizesAssumption DEF Inv, TypeOK, Start, answerVars
<1>2. (ShownIsCollected /\ ScannersRead /\ ResumesKept /\ WedgedOnlyByLongLine)'
  BY DEF Inv, TypeOK, Start, answerVars, ShownIsCollected, ScannersRead, ResumesKept,
           WedgedOnlyByLongLine, Wedged, Scans
<1>3. QED BY <1>1, <1>2 DEF Inv

LEMMA PublishInv == ASSUME Inv, Publish PROVE Inv'
<1>1. TypeOK'
  BY SizesAssumption DEF Inv, TypeOK, Publish, answerVars, childVars
<1>2. (ShownIsCollected /\ ScannersRead /\ ResumesKept /\ WedgedOnlyByLongLine)'
  BY DEF Inv, TypeOK, Publish, answerVars, childVars, ShownIsCollected, ScannersRead, ResumesKept,
           WedgedOnlyByLongLine, Wedged, Scans
<1>3. QED BY <1>1, <1>2 DEF Inv

LEMMA ReadEndInv == ASSUME Inv, ReadEnd PROVE Inv'
<1>1. TypeOK'
  BY SizesAssumption DEF Inv, TypeOK, ReadEnd, answerVars, childVars, Dead
<1>2. (ShownIsCollected /\ ScannersRead /\ ResumesKept /\ WedgedOnlyByLongLine)'
  BY DEF Inv, TypeOK, ReadEnd, answerVars, childVars, Dead, ShownIsCollected, ScannersRead, ResumesKept,
           WedgedOnlyByLongLine, Wedged, Scans
<1>3. QED BY <1>1, <1>2 DEF Inv

LEMMA WaitFailsInv == ASSUME Inv, WaitFails PROVE Inv'
<1>1. TypeOK'
  BY SizesAssumption DEF Inv, TypeOK, WaitFails, answerVars, childVars, CanWait, Dead, CmdAfter, Failure
<1>2. (ShownIsCollected /\ ScannersRead /\ ResumesKept /\ WedgedOnlyByLongLine)'
  BY DEF Inv, TypeOK, WaitFails, answerVars, childVars, CanWait, Dead, CmdAfter, Failure, ShownIsCollected, ScannersRead, ResumesKept,
           WedgedOnlyByLongLine, Wedged, Scans
<1>3. QED BY <1>1, <1>2 DEF Inv

LEMMA WaitSucceedsInv == ASSUME Inv, WaitSucceeds PROVE Inv'
<1>1. TypeOK'
  BY SizesAssumption DEF Inv, TypeOK, WaitSucceeds, ShownAtEnd, childVars, CanWait, Dead, CmdAfter
<1>2. (ShownIsCollected /\ ScannersRead /\ ResumesKept /\ WedgedOnlyByLongLine)'
  BY DEF Inv, TypeOK, WaitSucceeds, ShownAtEnd, childVars, CanWait, Dead, CmdAfter, ShownIsCollected, ScannersRead, ResumesKept,
           WedgedOnlyByLongLine, Wedged, Scans
<1>3. QED BY <1>1, <1>2 DEF Inv

LEMMA CloseOutputInv == ASSUME Inv, CloseOutput PROVE Inv'
<1>1. TypeOK'
  BY SizesAssumption DEF Inv, TypeOK, CloseOutput, answerVars
<1>2. (ShownIsCollected /\ ScannersRead /\ ResumesKept /\ WedgedOnlyByLongLine)'
  BY DEF Inv, TypeOK, CloseOutput, answerVars, ShownIsCollected, ScannersRead, ResumesKept,
           WedgedOnlyByLongLine, Wedged, Scans
<1>3. QED BY <1>1, <1>2 DEF Inv

LEMMA ForkInv == ASSUME Inv, Fork PROVE Inv'
<1>1. TypeOK'
  BY SizesAssumption DEF Inv, TypeOK, Fork, answerVars
<1>2. (ShownIsCollected /\ ScannersRead /\ ResumesKept /\ WedgedOnlyByLongLine)'
  BY DEF Inv, TypeOK, Fork, answerVars, ShownIsCollected, ScannersRead, ResumesKept,
           WedgedOnlyByLongLine, Wedged, Scans
<1>3. QED BY <1>1, <1>2 DEF Inv

LEMMA ChildExitsInv == ASSUME Inv, ChildExits PROVE Inv'
<1>1. TypeOK'
  BY SizesAssumption DEF Inv, TypeOK, ChildExits, answerVars
<1>2. (ShownIsCollected /\ ScannersRead /\ ResumesKept /\ WedgedOnlyByLongLine)'
  BY DEF Inv, TypeOK, ChildExits, answerVars, ShownIsCollected, ScannersRead, ResumesKept,
           WedgedOnlyByLongLine, Wedged, Scans
<1>3. QED BY <1>1, <1>2 DEF Inv

LEMMA CancelInv == ASSUME Inv, Cancel PROVE Inv'
<1>1. TypeOK'
  BY SizesAssumption DEF Inv, TypeOK, Cancel, answerVars, childVars
<1>2. (ShownIsCollected /\ ScannersRead /\ ResumesKept /\ WedgedOnlyByLongLine)'
  BY DEF Inv, TypeOK, Cancel, answerVars, childVars, ShownIsCollected, ScannersRead, ResumesKept,
           WedgedOnlyByLongLine, Wedged, Scans
<1>3. QED BY <1>1, <1>2 DEF Inv

LEMMA KillReadsInv == ASSUME Inv, KillReads PROVE Inv'
<1>1. TypeOK'
  BY SizesAssumption DEF Inv, TypeOK, KillReads, answerVars, childVars
<1>2. (ShownIsCollected /\ ScannersRead /\ ResumesKept /\ WedgedOnlyByLongLine)'
  BY DEF Inv, TypeOK, KillReads, answerVars, childVars, ShownIsCollected, ScannersRead, ResumesKept,
           WedgedOnlyByLongLine, Wedged, Scans
<1>3. QED BY <1>1, <1>2 DEF Inv

LEMMA KillSignalsInv == ASSUME Inv, KillSignals PROVE Inv'
<1>1. TypeOK'
  BY SizesAssumption DEF Inv, TypeOK, KillSignals, answerVars
<1>2. (ShownIsCollected /\ ScannersRead /\ ResumesKept /\ WedgedOnlyByLongLine)'
  BY DEF Inv, TypeOK, KillSignals, answerVars, ShownIsCollected, ScannersRead, ResumesKept,
           WedgedOnlyByLongLine, Wedged, Scans
<1>3. QED BY <1>1, <1>2 DEF Inv

LEMMA WatcherKillsInv == ASSUME Inv, WatcherKills PROVE Inv'
<1>1. TypeOK'
  BY SizesAssumption DEF Inv, TypeOK, WatcherKills, answerVars
<1>2. (ShownIsCollected /\ ScannersRead /\ ResumesKept /\ WedgedOnlyByLongLine)'
  BY DEF Inv, TypeOK, WatcherKills, answerVars, ShownIsCollected, ScannersRead, ResumesKept,
           WedgedOnlyByLongLine, Wedged, Scans
<1>3. QED BY <1>1, <1>2 DEF Inv

LEMMA WriteInv == ASSUME Inv, NEW line \in Lines, Write(line) PROVE Inv'
<1>1. pipe' \in Seq(Lines) /\ Len(pipe') <= PipeSize
  BY SizesAssumption DEF Inv, TypeOK, Write
<1>2. TypeOK'
  BY <1>1, SizesAssumption DEF Inv, TypeOK, Write, answerVars
<1>3. (ShownIsCollected /\ ScannersRead /\ ResumesKept /\ WedgedOnlyByLongLine)'
  BY DEF Inv, TypeOK, Write, answerVars, ShownIsCollected, ScannersRead, ResumesKept,
         WedgedOnlyByLongLine, Wedged, Scans
<1>4. QED BY <1>2, <1>3 DEF Inv

\* Reading a line takes it from the pipe.
LEMMA HeadAndTail ==
    ASSUME TypeOK, pipe # << >>
    PROVE  /\ Head(pipe) \in Lines
           /\ Tail(pipe) \in Seq(Lines)
           /\ Len(Tail(pipe)) <= PipeSize
BY SizesAssumption DEF TypeOK

LEMMA CopyInv == ASSUME Inv, Copy PROVE Inv'
<1>1. Tail(pipe) \in Seq(Lines) /\ Len(Tail(pipe)) <= PipeSize
  BY HeadAndTail DEF Inv, Copy
<1>2. TypeOK'
  BY <1>1 DEF Inv, TypeOK, Copy
<1>3. (ShownIsCollected /\ ScannersRead /\ ResumesKept /\ WedgedOnlyByLongLine)'
  BY DEF Inv, TypeOK, Copy, ShownIsCollected, ScannersRead, ResumesKept,
         WedgedOnlyByLongLine, Wedged, Scans
<1>4. QED BY <1>2, <1>3 DEF Inv

\* A line says how the agent stopped, or leaves that as it is.
LEMMA StopReported ==
    ASSUME NEW line \in Lines, Understand(line)
    PROVE  \/ stop' \in {"end", "refusal", "error", stop}
           \/ line = "result_cancelled" /\ stop' = "cancelled"
<1>1. CASE line \in Results
  BY <1>1 DEF Understand, Results
<1>2. CASE line \notin Results
  BY <1>2 DEF Understand, Results
<1>3. QED BY <1>1, <1>2

\* What understanding a line does to the answer and to the session id.
LEMMA UnderstandProperties ==
    ASSUME TypeOK, NEW line \in Lines, Understand(line)
    PROVE  /\ got' \in Nat /\ shown' \in Nat
           /\ stop' \in {"end", "refusal", "cancelled", "error"}
           /\ sessionID' \in Ids \cup {NoId}
           /\ sessionID # NoId => sessionID' = sessionID
           /\ shown' >= shown
           /\ (got = 0 => shown = 0) => (got' = 0 => shown' = 0)
<1>1. /\ got \in Nat /\ shown \in Nat /\ stop \in {"end", "refusal", "cancelled", "error"}
      /\ sessionID \in Ids \cup {NoId}
  BY DEF TypeOK
<1>2. /\ shown' = IF line = "text" THEN shown + 1 ELSE shown
      /\ line = "text" => got' = got + 1
      /\ line # "text" => got' = got \/ (got = 0 /\ got' \in {0, 1})
  <2>1. CASE line = "text"
    BY <2>1 DEF Understand, Results
  <2>2. CASE line # "text" /\ line \in Results /\ got = 0
    BY <2>2 DEF Understand
  <2>3. CASE line # "text" /\ ~(line \in Results /\ got = 0)
    BY <2>3 DEF Understand
  <2>4. QED BY <2>1, <2>2, <2>3
<1>3. stop' \in {"end", "refusal", "cancelled", "error"}
  BY <1>1, StopReported
<1>4. /\ sessionID' \in Ids \cup {NoId}
      /\ sessionID # NoId => sessionID' = sessionID
  BY <1>1 DEF Understand, SessionLearnt
<1>5. QED BY <1>1, <1>2, <1>3, <1>4

LEMMA ReadLineInv == ASSUME Inv, ReadLine PROVE Inv'
<1> DEFINE line == Head(pipe)
<1>1. line \in Lines /\ Tail(pipe) \in Seq(Lines) /\ Len(Tail(pipe)) <= PipeSize
  BY HeadAndTail DEF Inv, ReadLine
<1>2. /\ pc = "reading" /\ pipe' = Tail(pipe)
      /\ tooLong' \in BOOLEAN /\ (line = "long" => tooLong')
      /\ UNCHANGED <<kind, ctx, calls, cmd, resume, blank, outcome, child, wrote,
                     lines, shut, held, target>>
  BY DEF ReadLine
<1>3. \/ line = "long" /\ pc' = "waiting" /\ UNCHANGED <<got, shown, stop, sessionID>>
      \/ Understand(line) /\ pc' = pc
  BY DEF ReadLine, StopsScanner
<1> HIDE DEF line
<1>4. CASE line = "long" /\ pc' = "waiting" /\ UNCHANGED <<got, shown, stop, sessionID>>
  <2>1. TypeOK'
    BY <1>1, <1>2, <1>4 DEF Inv, TypeOK
  <2>2. (ShownIsCollected /\ ScannersRead /\ ResumesKept /\ WedgedOnlyByLongLine)'
    BY <1>2, <1>4 DEF Inv, TypeOK, ShownIsCollected, ScannersRead, ResumesKept,
                      WedgedOnlyByLongLine, Wedged, Scans
  <2>3. QED BY <2>1, <2>2 DEF Inv
<1>5. CASE Understand(line) /\ pc' = pc
  <2>1. /\ got' \in Nat /\ shown' \in Nat
        /\ stop' \in {"end", "refusal", "cancelled", "error"}
        /\ sessionID' \in Ids \cup {NoId}
        /\ sessionID # NoId => sessionID' = sessionID
        /\ (got = 0 => shown = 0) => (got' = 0 => shown' = 0)
    BY <1>1, <1>5, UnderstandProperties DEF Inv
  <2>2. TypeOK'
    BY <1>1, <1>2, <1>5, <2>1 DEF Inv, TypeOK
  <2>3. (ShownIsCollected /\ ScannersRead /\ WedgedOnlyByLongLine)'
    BY <1>2, <1>5, <2>1 DEF Inv, ShownIsCollected, ScannersRead,
                            WedgedOnlyByLongLine, Wedged, Scans
  <2>4. ResumesKept'
    BY <1>2, <2>1 DEF Inv, ResumesKept
  <2>5. QED BY <2>2, <2>3, <2>4 DEF Inv
<1>6. QED BY <1>3, <1>4, <1>5

LEMMA StutterInv == ASSUME Inv, UNCHANGED vars PROVE Inv'
BY DEF Inv, TypeOK, ShownIsCollected, ScannersRead, ResumesKept,
       WedgedOnlyByLongLine, Wedged, Scans, vars, answerVars, childVars

LEMMA InvHolds == Spec => []Inv
<1>1. Inv /\ [Next]_vars => Inv'
  BY CallInv, ReleaseInv, StartFailsInv, StartInv, PublishInv, ReadEndInv,
     WaitFailsInv, WaitSucceedsInv, CloseOutputInv, ForkInv, ChildExitsInv,
     CancelInv, KillReadsInv, KillSignalsInv, WatcherKillsInv, WriteInv, CopyInv, ReadLineInv, StutterInv
     DEF Next, PromptStep
<1>2. QED BY InitInv, <1>1, PTL DEF Spec

\* Every variable of a backend keeps its type, and b.cmd is set exactly while
\* Prompt reads the output of its command or waits for it.
THEOREM TypeCorrect == Spec => []TypeOK
BY InvHolds, PTL DEF Inv

\* Only a line too long for the scanner makes Prompt wait for a child whose
\* output nobody reads.
THEOREM WedgedOnlySo == Spec => []WedgedOnlyByLongLine
BY InvHolds, PTL DEF Inv

-----------------------------------------------------------------------------
\* A Claude backend never leaves the conversation it has resumed.
THEOREM ConversationKept == Spec => OneConversation
<1>1. Inv /\ [Next]_vars =>
          [resume # NoId => sessionID' = sessionID /\ resume' = resume]_vars
  <2> SUFFICES ASSUME Inv, Next, resume # NoId
               PROVE  sessionID' = sessionID /\ resume' = resume
    OBVIOUS
  <2>1. sessionID = resume
    BY DEF Inv, ResumesKept
  <2>2. CASE Call
    BY <2>1, <2>2 DEF Call
  <2>3. CASE ReadLine
    <3>1. Head(pipe) \in Lines
      BY <2>3, HeadAndTail DEF Inv, ReadLine
    <3>2. CASE Understand(Head(pipe))
      BY <2>1, <2>3, <3>1, <3>2, UnderstandProperties DEF Inv, ReadLine
    <3>3. CASE UNCHANGED sessionID
      BY <2>3, <3>3 DEF ReadLine
    <3>4. QED BY <2>3, <3>2, <3>3 DEF ReadLine
  <2>4. CASE ~Call /\ ~ReadLine
    BY <2>4 DEF Next, PromptStep, StartFails, Start, Publish, ReadEnd, WaitFails,
                WaitSucceeds, Copy, Write, CloseOutput, Fork, Release, ChildExits,
                Cancel, KillReads, KillSignals, WatcherKills
  <2>5. QED BY <2>2, <2>3, <2>4
<1>2. QED BY <1>1, InvHolds, PTL DEF Spec, OneConversation

-----------------------------------------------------------------------------
(* What a result holds that was not shown. *)

\* The lines in the pipe are the backend's own kind.
OwnLines == pipe \in Seq(LineTypes)

\* A scanner collects one more piece than it shows, at most, and only Claude's.
ScannerGap ==
    Scans => got = shown \/ (kind = "claude" /\ got = shown + 1)

NoChildYet == pc = "called" => child = "none"

\* The generic backend is given nothing more once its call is over.
OverIsQuiet ==
    (~Scans /\ pc = "idle") =>
        child = "none" \/ (Dead /\ ~held /\ pipe = << >>)

CollectorGap ==
    (~Scans /\ pc = "idle" /\ outcome \notin {"none", "failed"} /\ got # shown) =>
        shown = 0 /\ (child = "failed" \/ ctx = "done")

\* Only Claude's child says "cancelled".
SaidByClaude == stop = "cancelled" => kind = "claude"

GapInv ==
    /\ OwnLines /\ ScannerGap /\ NoChildYet /\ OverIsQuiet /\ CollectorGap
    /\ SaidByClaude /\ CancelledOnlySo

LEMMA GapInit == Init => GapInv
<1> SUFFICES ASSUME Init PROVE GapInv
  OBVIOUS
<1>1. OwnLines
  BY DEF Init, OwnLines
<1>2. ScannerGap /\ NoChildYet /\ OverIsQuiet /\ CollectorGap
  BY DEF Init, ScannerGap, NoChildYet, OverIsQuiet, CollectorGap
<1>3. SaidByClaude /\ CancelledOnlySo
  BY DEF Init, SaidByClaude, CancelledOnlySo
<1>4. QED BY <1>1, <1>2, <1>3 DEF GapInv

\* Only Claude's lines include results.
LEMMA UnderstandGap ==
    ASSUME TypeOK, ScannerGap, Scans, UNCHANGED kind,
           NEW line \in LineTypes, Understand(line)
    PROVE  ScannerGap'
<1>1. got \in Nat /\ shown \in Nat
  BY DEF TypeOK
<1>2. got = shown \/ (kind = "claude" /\ got = shown + 1)
  BY DEF ScannerGap
<1>3. shown' = IF line = "text" THEN shown + 1 ELSE shown
  BY DEF Understand
<1>4. CASE line = "text"
  <2>1. got' = got + 1
    BY <1>4 DEF Understand, Results
  <2>2. QED BY <1>1, <1>2, <1>3, <1>4, <2>1 DEF ScannerGap
<1>5. CASE line # "text" /\ line \in Results /\ got = 0
  <2>1. got' \in {0, 1}
    BY <1>5 DEF Understand
  <2>2. kind = "claude"
    BY <1>5, KindsAssumption DEF LineTypes, Results, Scans, TypeOK
  <2>3. shown = 0
    BY <1>1, <1>2, <1>5
  <2>4. QED BY <1>3, <1>5, <2>1, <2>2, <2>3 DEF ScannerGap
<1>6. CASE line # "text" /\ ~(line \in Results /\ got = 0)
  <2>1. got' = got
    BY <1>6 DEF Understand
  <2>2. QED BY <1>2, <1>3, <1>6, <2>1 DEF ScannerGap
<1>7. QED BY <1>4, <1>5, <1>6

LEMMA OwnLinesStep == ASSUME Inv, GapInv, Next PROVE OwnLines'
<1>1. kind' = kind /\ pipe \in Seq(LineTypes)
  BY DEF GapInv, OwnLines, Next, PromptStep, Call, StartFails, Start, Publish,
         ReadLine, ReadEnd, WaitFails, WaitSucceeds, Copy, Write, CloseOutput,
         Fork, Release, ChildExits, Cancel, KillReads, KillSignals, WatcherKills
<1>2. LineTypes' = LineTypes
  BY <1>1 DEF LineTypes
<1>3. \/ pipe' = pipe \/ pipe' = << >> \/ (pipe # << >> /\ pipe' = Tail(pipe))
      \/ \E line \in LineTypes : pipe' = Append(pipe, line)
  BY DEF Next, PromptStep, Call, StartFails, Start, Publish, ReadLine, ReadEnd,
         WaitFails, WaitSucceeds, Copy, Write, CloseOutput, Fork, Release,
         ChildExits, Cancel, KillReads, KillSignals, WatcherKills, childVars
<1>4. CASE pipe' = pipe \/ pipe' = << >>
  <2>1. << >> \in Seq(LineTypes)
    OBVIOUS
  <2>2. pipe' \in Seq(LineTypes)
    BY <1>1, <1>4, <2>1
  <2>3. QED BY <1>2, <2>2 DEF OwnLines
<1>5. CASE pipe # << >> /\ pipe' = Tail(pipe)
  BY <1>1, <1>2, <1>5 DEF OwnLines
<1>6. ASSUME NEW line \in LineTypes, pipe' = Append(pipe, line) PROVE OwnLines'
  BY <1>1, <1>2, <1>6 DEF OwnLines
<1>7. QED BY <1>3, <1>4, <1>5, <1>6

LEMMA GapStep == ASSUME Inv, GapInv, Next PROVE GapInv'
<1>1. OwnLines'
  BY OwnLinesStep
<1>2. kind' = kind /\ (Scans' <=> Scans)
  BY DEF Next, PromptStep, Call, StartFails, Start, Publish, ReadLine, ReadEnd,
         WaitFails, WaitSucceeds, Copy, Write, CloseOutput, Fork, Release,
         ChildExits, Cancel, KillReads, KillSignals, WatcherKills, Scans
<1>3. ScannerGap'
  <2>1. CASE Call
    BY <1>2, <2>1 DEF Call, ScannerGap
  <2>2. CASE ReadLine
    <3>1. CASE Understand(Head(pipe))
      <4>1. Head(pipe) \in LineTypes
        BY <2>2 DEF ReadLine, GapInv, OwnLines
      <4>2. Scans
        BY <2>2 DEF Inv, ScannersRead, ReadLine
      <4>3. QED BY <1>2, <3>1, <4>1, <4>2, UnderstandGap DEF Inv, GapInv
    <3>2. CASE UNCHANGED <<got, shown>>
      BY <1>2, <3>2 DEF GapInv, ScannerGap
    <3>3. QED BY <2>2, <3>1, <3>2 DEF ReadLine
  <2>3. CASE Copy \/ WaitSucceeds
    BY <1>2, <2>3 DEF GapInv, ScannerGap, Copy, WaitSucceeds, ShownAtEnd
  <2>4. CASE ~(Call \/ ReadLine \/ Copy \/ WaitSucceeds)
    <3>1. UNCHANGED <<got, shown>>
      BY <2>4 DEF Next, PromptStep, StartFails, Start, Publish, ReadEnd, WaitFails,
                  Write, CloseOutput, Fork, Release, ChildExits, Cancel, KillReads,
                  KillSignals, WatcherKills, answerVars
    <3>2. QED BY <1>2, <3>1 DEF GapInv, ScannerGap
  <2>5. QED BY <2>1, <2>2, <2>3, <2>4
<1>4. OverIsQuiet' /\ CollectorGap'
  <2> SUFFICES ASSUME ~Scans', pc' = "idle" PROVE OverIsQuiet' /\ CollectorGap'
    BY DEF OverIsQuiet, CollectorGap
  <2>1. ~Scans
    BY <1>2
  <2>2. CASE WaitSucceeds
    BY <2>1, <2>2 DEF WaitSucceeds, ShownAtEnd, CanWait, Dead, childVars,
                      OverIsQuiet, CollectorGap
  <2>3. CASE WaitFails
    <3>1. shown = 0
      BY <2>1, <2>3 DEF Inv, ShownIsCollected, WaitFails, CanWait
    <3>2. QED BY <2>1, <2>3, <3>1 DEF WaitFails, CanWait, Dead, childVars, answerVars,
                                      OverIsQuiet, CollectorGap
  <2>4. CASE StartFails
    BY <2>4 DEF StartFails, childVars, OverIsQuiet, CollectorGap, GapInv, NoChildYet
  <2>5. CASE pc = "idle"
    <3>1. child = "none" \/ (Dead /\ ~held /\ pipe = << >>)
      BY <2>1, <2>5 DEF GapInv, OverIsQuiet
    <3>2. \/ Copy \/ \E line \in Lines : Write(line)
          \/ CloseOutput \/ Fork \/ Release \/ ChildExits
          \/ Cancel \/ KillReads \/ KillSignals \/ WatcherKills
      BY <2>5 DEF Next, PromptStep, Call, StartFails, Start, Publish, ReadLine, ReadEnd,
                  WaitFails, WaitSucceeds, CanWait
    <3>3. UNCHANGED <<got, shown, outcome, child>> /\ (ctx' = ctx \/ ctx' = "done")
      BY <3>1, <3>2 DEF Dead, Copy, Write, CloseOutput, Fork, Release, ChildExits, Cancel,
                        KillReads, KillSignals, WatcherKills, answerVars, childVars
    <3>4. CollectorGap'
      BY <2>1, <2>5, <3>3 DEF GapInv, CollectorGap
    <3>5. OverIsQuiet'
      <4>1. CASE child = "none"
        BY <3>3, <4>1 DEF OverIsQuiet
      <4>2. CASE Dead /\ ~held /\ pipe = << >>
        <5>1. ~held' /\ pipe' = pipe
          BY <3>2, <4>2 DEF Dead, Copy, Write, CloseOutput, Fork, Release, ChildExits,
             Cancel, KillReads, KillSignals, WatcherKills, childVars
        <5>2. Dead'
          BY <3>3, <4>2 DEF Dead
        <5>3. pipe' = << >>
          BY <4>2, <5>1
        <5>4. QED BY <5>1, <5>2, <5>3 DEF OverIsQuiet
      <4>3. QED BY <3>1, <4>1, <4>2
    <3>6. QED BY <3>4, <3>5
  <2>6. QED
    BY <2>2, <2>3, <2>4, <2>5 DEF Next, PromptStep, Call, Start, Publish, ReadLine,
       ReadEnd, Copy, Write, CloseOutput, Fork, Release, ChildExits, Cancel, KillReads,
       KillSignals, WatcherKills
<1>5. NoChildYet'
  BY DEF GapInv, NoChildYet, Next, PromptStep, Call, StartFails, Start, Publish, ReadLine,
     ReadEnd, WaitFails, WaitSucceeds, CanWait, Copy, Write, CloseOutput, Fork, Release,
     ChildExits, Cancel, KillReads, KillSignals, WatcherKills, childVars
<1>6. SaidByClaude'
  <2>1. CASE ReadLine
    <3>1. Head(pipe) \in LineTypes /\ Head(pipe) \in Lines
      BY <2>1, HeadAndTail DEF ReadLine, GapInv, OwnLines, Inv
    <3>2. CASE Understand(Head(pipe))
      <4>1. Head(pipe) = "result_cancelled" => kind = "claude"
        BY <3>1, KindsAssumption DEF LineTypes, Inv, TypeOK
      <4>2. QED BY <1>2, <3>1, <3>2, <4>1, StopReported DEF GapInv, SaidByClaude
    <3>3. CASE UNCHANGED stop
      BY <1>2, <3>3 DEF GapInv, SaidByClaude
    <3>4. QED BY <2>1, <3>2, <3>3 DEF ReadLine
  <2>2. CASE Call
    BY <2>2 DEF Call, SaidByClaude
  <2>3. CASE ~ReadLine /\ ~Call
    <3>1. UNCHANGED stop
      BY <2>3 DEF Next, PromptStep, StartFails, Start, Publish, ReadEnd, WaitFails,
                  WaitSucceeds, Copy, Write, CloseOutput, Fork, Release, ChildExits,
                  Cancel, KillReads, KillSignals, WatcherKills, answerVars
    <3>2. QED BY <1>2, <3>1 DEF GapInv, SaidByClaude
  <2>4. QED BY <2>1, <2>2, <2>3
<1>7. CancelledOnlySo'
  <2>1. CASE WaitFails
    BY <2>1 DEF WaitFails, Failure, CancelledOnlySo
  <2>2. CASE WaitSucceeds
    BY <2>2 DEF WaitSucceeds, CancelledOnlySo, GapInv, SaidByClaude, childVars
  <2>3. CASE Call \/ StartFails
    BY <2>3 DEF Call, StartFails, CancelledOnlySo
  <2>4. CASE ~WaitFails /\ ~WaitSucceeds /\ ~Call /\ ~StartFails
    <3>1. /\ UNCHANGED outcome /\ (ctx' = ctx \/ ctx' = "done")
          /\ pc' = "idle" => pc = "idle" /\ (child = "ok" => child' = "ok")
      BY <2>4 DEF Next, PromptStep, Start, Publish, ReadLine, ReadEnd, Copy, Write,
                  CloseOutput, Fork, Release, ChildExits, Cancel, KillReads, KillSignals,
                  WatcherKills, childVars
    <3>2. QED BY <1>2, <3>1 DEF GapInv, CancelledOnlySo
  <2>5. QED BY <2>1, <2>2, <2>3, <2>4
<1>8. QED BY <1>1, <1>3, <1>4, <1>5, <1>6, <1>7 DEF GapInv

LEMMA GapStutter == ASSUME GapInv, UNCHANGED vars PROVE GapInv'
BY DEF GapInv, OwnLines, ScannerGap, NoChildYet, OverIsQuiet, CollectorGap, SaidByClaude,
       CancelledOnlySo, Scans, Dead, LineTypes, vars, answerVars, childVars

LEMMA GapHolds == Spec => [](Inv /\ GapInv)
<1>1. Inv /\ GapInv /\ [Next]_vars => GapInv'
  BY GapStep, GapStutter
<1>2. QED BY <1>1, GapInit, InvHolds, PTL DEF Spec

\* Whatever a child does, only the text of Claude's result line and the output
\* of a generic command that did not end well are returned without being shown.
THEOREM ShownUnlessSo == Spec => []UnshownOnlySo
<1>1. Inv /\ GapInv => UnshownOnlySo
  BY DEF Inv, TypeOK, KindsAssumption, GapInv, ScannerGap, CollectorGap, UnshownOnlySo, Scans
<1>2. QED BY <1>1, GapHolds, PTL

\* A result says "cancelled" under a live context only when Claude's child said so
\* itself: never because Wait gave an error, whenever that happened.
THEOREM CancelledSo == Spec => []CancelledOnlySo
<1>1. GapInv => CancelledOnlySo
  BY DEF GapInv
<1>2. QED BY <1>1, GapHolds, PTL

-----------------------------------------------------------------------------
(* A piece of text written is counted: it is in the pipe until it is taken, *)
(* and what is taken when the output has ended was shown.                  *)

\* The places of the pieces of text among some lines, and how many they are.
Places(p) == {i \in 1 .. Len(p) : p[i] = "text"}

Texts(p) == Cardinality(Places(p))

One(line) == IF line = "text" THEN 1 ELSE 0

LEMMA PlacesFinite ==
    ASSUME NEW p \in Seq(Lines)
    PROVE  IsFiniteSet(Places(p)) /\ Texts(p) \in Nat
<1>1. Len(p) \in Nat /\ 1 \in Int
  OBVIOUS
<1>2. IsFiniteSet(1 .. Len(p))
  BY <1>1, FS_Interval
<1>3. Places(p) \subseteq 1 .. Len(p)
  BY DEF Places
<1>4. IsFiniteSet(Places(p))
  BY <1>2, <1>3, FS_Subset
<1>5. QED BY <1>4, FS_CardinalityType DEF Texts

LEMMA NoTexts == Texts(<< >>) = 0
<1>1. Places(<< >>) = {}
  BY DEF Places
<1>2. QED BY <1>1, FS_EmptySet DEF Texts

\* A line written counts once, if it is a piece of text.
LEMMA TextsOfLonger ==
    ASSUME NEW p \in Seq(Lines), NEW line \in Lines, NEW longer \in Seq(Lines),
           Len(longer) = Len(p) + 1,
           \A i \in 1 .. Len(p) : longer[i] = p[i],
           longer[Len(p) + 1] = line
    PROVE  Texts(longer) = Texts(p) + One(line)
<1>1. Len(p) \in Nat
  OBVIOUS
<1>2. CASE line = "text"
  <2>1. Places(longer) = Places(p) \cup {Len(p) + 1}
    BY <1>1, <1>2 DEF Places
  <2>2. Len(p) + 1 \notin Places(p)
    BY <1>1 DEF Places
  <2>3. IsFiniteSet(Places(p))
    BY PlacesFinite
  <2>4. Cardinality(Places(longer)) = Cardinality(Places(p)) + 1
    BY ZenonT(60), <2>1, <2>2, <2>3, FS_AddElement
  <2>5. QED BY <1>2, <2>4 DEF Texts, One
<1>3. CASE line # "text"
  <2>1. Places(longer) = Places(p)
    BY <1>1, <1>3 DEF Places
  <2>2. QED BY <1>3, <2>1, PlacesFinite DEF Texts, One
<1>4. QED BY <1>2, <1>3

\* A line read leaves the others.
LEMMA TextsOfRest ==
    ASSUME NEW p \in Seq(Lines), p # << >>
    PROVE  Texts(p) = Texts(Tail(p)) + One(Head(p))
<1> DEFINE rest == Tail(p)
           later == {i \in 2 .. Len(p) : p[i] = "text"}
           shift == [i \in Places(rest) |-> i + 1]
<1>1. /\ Len(p) \in Nat /\ Len(p) >= 1 /\ rest \in Seq(Lines)
      /\ Len(rest) = Len(p) - 1 /\ Head(p) = p[1]
      /\ \A i \in 1 .. Len(rest) : rest[i] = p[i + 1]
  OBVIOUS
<1>2. IsFiniteSet(Places(rest)) /\ Texts(rest) \in Nat
  BY <1>1, PlacesFinite
<1> HIDE DEF rest
<1>3. /\ \A i \in Places(rest) : i \in Int /\ i + 1 \in later
      /\ \A j \in later : j \in Int /\ j - 1 \in Places(rest)
  BY <1>1 DEF Places
<1> HIDE DEF later
<1>4. ExistsBijection(Places(rest), later)
  <2>1. shift \in Bijection(Places(rest), later)
    <3>1. shift \in [Places(rest) -> later]
      BY <1>3
    <3>2. \A a, b \in Places(rest) : shift[a] = shift[b] => a = b
      BY <1>3
    <3>3. \A j \in later : \E i \in Places(rest) : shift[i] = j
      <4>1. SUFFICES ASSUME NEW j \in later PROVE \E i \in Places(rest) : shift[i] = j
        OBVIOUS
      <4>2. j - 1 \in Places(rest) /\ shift[j - 1] = j
        BY <1>3
      <4>3. QED BY <4>2
    <3>4. QED BY <3>1, <3>2, <3>3 DEF Bijection, Injection, Surjection, IsInjective
  <2>2. QED BY <2>1 DEF ExistsBijection
<1>5. IsFiniteSet(later) /\ Cardinality(later) = Texts(rest)
  BY <1>2, <1>4, FS_Bijection DEF Texts
<1>6. CASE Head(p) = "text"
  <2>1. Places(p) = later \cup {1} /\ 1 \notin later
    BY <1>1, <1>6 DEF Places, later
  <2>2. Cardinality(Places(p)) = Cardinality(later) + 1
    BY <1>5, <2>1, FS_AddElement
  <2>3. QED BY <1>5, <1>6, <2>2 DEF Texts, One, rest
<1>7. CASE Head(p) # "text"
  <2>1. Places(p) = later
    BY <1>1, <1>7 DEF Places, later
  <2>2. QED BY <1>2, <1>5, <1>7, <2>1 DEF Texts, One, rest
<1>8. QED BY <1>6, <1>7

-----------------------------------------------------------------------------
\* What the reader of the output has made of it so far.
Taken == IF Scans THEN shown ELSE got

TextsCounted == tooLong \/ Taken + Texts(pipe) = wrote

\* Nobody can write to the pipe any more and nothing is left in it.
QuietPipe == pipe = << >> /\ ~held /\ (Dead \/ shut)

\* The loop over scanner.Scan ends with the output, or with a line too long.
ReadOut == (pc = "waiting" /\ Scans) => (tooLong \/ QuietPipe)

LongStops == tooLong => pc \in {"waiting", "idle"}

\* What AnswerComplete asks of a result.
Answers ==
    /\ pc = "idle" /\ outcome \in {"end", "refusal", "cancelled", "error"}
    /\ Scans \/ (child = "ok" /\ outcome # "cancelled")
    /\ ~tooLong

Answered == Answers => QuietPipe /\ Dead /\ Taken = shown

AnswerInv == TextsCounted /\ ReadOut /\ LongStops /\ Answered

LEMMA AnswerInit == ASSUME Init PROVE AnswerInv
<1>1. TextsCounted
  BY NoTexts DEF Init, TextsCounted, Taken
<1>2. ReadOut /\ LongStops /\ Answered
  BY DEF Init, ReadOut, LongStops, Answered, Answers
<1>3. QED BY <1>1, <1>2 DEF AnswerInv

LEMMA CallAnswer == ASSUME Inv, Call PROVE AnswerInv'
<1>1. Taken' = 0 /\ Texts(pipe)' = 0 /\ wrote' = 0
  BY NoTexts DEF Call, Taken
<1>2. TextsCounted'
  BY <1>1 DEF TextsCounted
<1>3. (ReadOut /\ LongStops /\ Answered)'
  BY DEF Call, ReadOut, LongStops, Answered, Answers
<1>4. QED BY <1>2, <1>3 DEF AnswerInv

\* Understanding a line shows it exactly when it is a piece of text.
LEMMA ReadLineAnswer == ASSUME Inv, AnswerInv, ReadLine PROVE AnswerInv'
<1>1. /\ pc = "reading" /\ pipe # << >> /\ pipe' = Tail(pipe) /\ wrote' = wrote
      /\ tooLong' = (Head(pipe) = "long")
      /\ UNCHANGED kind
      /\ \/ Head(pipe) = "long" /\ pc' = "waiting"
         \/ Head(pipe) # "long" /\ Understand(Head(pipe)) /\ pc' = pc
  BY DEF ReadLine, StopsScanner
<1>2. Scans /\ Scans' /\ ~tooLong
  BY <1>1 DEF Inv, ScannersRead, AnswerInv, LongStops, Scans
<1>3. Head(pipe) \in Lines /\ Tail(pipe) \in Seq(Lines) /\ pipe \in Seq(Lines)
  BY <1>1, HeadAndTail DEF Inv, TypeOK
<1>4. CASE Head(pipe) = "long" /\ pc' = "waiting"
  BY <1>1, <1>4 DEF AnswerInv, TextsCounted, ReadOut, LongStops, Answered, Answers
<1>5. CASE Head(pipe) # "long" /\ Understand(Head(pipe)) /\ pc' = pc
  <2>1. shown' = shown + One(Head(pipe))
    <3>1. shown' = IF Head(pipe) = "text" THEN shown + 1 ELSE shown
      BY <1>5 DEF Understand
    <3>2. QED BY <3>1 DEF Inv, TypeOK, One
  <2>2. Texts(pipe) = Texts(Tail(pipe)) + One(Head(pipe))
    BY <1>1, <1>3, TextsOfRest
  <2>3. shown + Texts(pipe) = wrote
    BY <1>2 DEF AnswerInv, TextsCounted, Taken
  <2>4. shown \in Nat /\ Texts(Tail(pipe)) \in Nat /\ One(Head(pipe)) \in Nat
    BY <1>3, PlacesFinite DEF Inv, TypeOK, One
  <2>5. shown' + Texts(Tail(pipe)) = wrote
    BY <2>1, <2>2, <2>3, <2>4
  <2>6. TextsCounted'
    BY <1>1, <1>2, <2>5 DEF TextsCounted, Taken
  <2>7. (ReadOut /\ LongStops /\ Answered)'
    BY <1>1, <1>5 DEF ReadOut, LongStops, Answered, Answers
  <2>8. QED BY <2>6, <2>7 DEF AnswerInv
<1>6. QED BY <1>1, <1>4, <1>5

\* The copier takes a line and counts it when it is a piece of text.
LEMMA CopyAnswer == ASSUME Inv, AnswerInv, Copy PROVE AnswerInv'
<1>1. /\ ~Scans /\ ~Scans' /\ pipe # << >> /\ pipe' = Tail(pipe)
      /\ UNCHANGED <<pc, shown, tooLong, outcome, child, wrote, shut, held>>
  BY DEF Copy, Scans
<1>2. Head(pipe) \in Lines /\ Tail(pipe) \in Seq(Lines) /\ pipe \in Seq(Lines)
  BY <1>1, HeadAndTail DEF Inv, TypeOK
<1>3. got' = got + One(Head(pipe))
  BY DEF Copy, Inv, TypeOK, One
<1>4. Texts(pipe) = Texts(Tail(pipe)) + One(Head(pipe))
  BY <1>1, <1>2, TextsOfRest
<1>5. got \in Nat /\ Texts(Tail(pipe)) \in Nat /\ One(Head(pipe)) \in Nat
  BY <1>2, PlacesFinite DEF Inv, TypeOK, One
<1>6. tooLong \/ got + Texts(pipe) = wrote
  BY <1>1 DEF AnswerInv, TextsCounted, Taken
<1>7. tooLong \/ got' + Texts(Tail(pipe)) = wrote
  BY <1>3, <1>4, <1>5, <1>6
<1>8. TextsCounted'
  BY <1>1, <1>7 DEF TextsCounted, Taken
<1>9. (ReadOut /\ LongStops)'
  BY <1>1 DEF AnswerInv, ReadOut, LongStops
<1>10. ~Answers'
  BY <1>1 DEF AnswerInv, Answered, Answers, QuietPipe
<1>11. QED BY <1>8, <1>9, <1>10 DEF AnswerInv, Answered

LEMMA WriteAnswer == ASSUME Inv, AnswerInv, NEW line \in Lines, Write(line) PROVE AnswerInv'
<1>1. /\ (child = "running" /\ ~shut) \/ held
      /\ UNCHANGED <<kind, pc, got, shown, tooLong, outcome, child, shut, held>>
      /\ pipe' = Append(pipe, line)
  BY DEF Write, answerVars
<1>2. pipe \in Seq(Lines) /\ wrote \in Nat /\ shown \in Nat /\ got \in Nat
  BY DEF Inv, TypeOK
<1>3. wrote' = wrote + One(line)
  BY <1>2 DEF Write, One
<1>4. /\ pipe' \in Seq(Lines) /\ Len(pipe') = Len(pipe) + 1
      /\ \A i \in 1 .. Len(pipe) : pipe'[i] = pipe[i]
      /\ pipe'[Len(pipe) + 1] = line
  BY <1>1, <1>2
<1>5. Texts(pipe') = Texts(pipe) + One(line)
  BY <1>2, <1>4, TextsOfLonger
<1>6. Taken' = Taken /\ Taken \in Nat /\ Texts(pipe) \in Nat /\ One(line) \in Nat
  BY <1>1, <1>2, PlacesFinite DEF Taken, Scans, One
<1>7. TextsCounted'
  BY <1>1, <1>2, <1>3, <1>5, <1>6 DEF AnswerInv, TextsCounted
<1>8. ~QuietPipe
  BY <1>1 DEF QuietPipe, Dead
<1>9. (ReadOut /\ LongStops)'
  BY <1>1, <1>8 DEF AnswerInv, ReadOut, LongStops, Scans
<1>10. ~Answers'
  BY <1>1, <1>8 DEF AnswerInv, Answered, Answers, Scans
<1>11. QED BY <1>7, <1>9, <1>10 DEF AnswerInv, Answered

\* Prompt returns once the output has been taken, and shows what it has not.
LEMMA WaitAnswer ==
    ASSUME Inv, AnswerInv, WaitFails \/ WaitSucceeds PROVE AnswerInv'
<1>1. /\ pc = "waiting" /\ Dead /\ ~held /\ (Scans \/ pipe = << >>)
      /\ pc' = "idle"
      /\ UNCHANGED <<kind, got, tooLong, child, pipe, wrote, shut, held>>
      /\ shown' = shown \/ (WaitSucceeds /\ shown' = ShownAtEnd)
  BY DEF WaitFails, WaitSucceeds, CanWait, answerVars, childVars
<1>2. Scans' = Scans /\ Dead' = Dead
  BY <1>1 DEF Scans, Dead
<1>3. Taken' = Taken
  BY <1>1, <1>2 DEF Taken, ShownAtEnd
<1>4. TextsCounted'
  BY <1>1, <1>3 DEF AnswerInv, TextsCounted
<1>5. (ReadOut /\ LongStops)'
  BY <1>1 DEF ReadOut, LongStops
<1>6. tooLong \/ QuietPipe
  BY <1>1 DEF AnswerInv, ReadOut, QuietPipe
<1>7. Answers' => QuietPipe' /\ Dead'
  BY <1>1, <1>2, <1>6 DEF Answers, QuietPipe
<1>8. Answers' => Taken' = shown'
  <2>1. CASE Scans
    BY <1>2, <2>1 DEF Taken
  <2>2. CASE ~Scans /\ WaitSucceeds
    BY <1>2, <2>2 DEF Taken, WaitSucceeds, ShownAtEnd
  <2>3. CASE ~Scans /\ WaitFails
    <3>1. SUFFICES ASSUME Answers' PROVE FALSE
      OBVIOUS
    <3>2. child = "ok"
      BY <1>1, <1>2, <2>3, <3>1 DEF Answers
    <3>3. Failure = "cancelled"
      BY <2>3, <3>2 DEF WaitFails, Failure
    <3>4. QED BY <1>2, <2>3, <3>1, <3>3 DEF WaitFails, Answers
  <2>4. QED BY <2>1, <2>2, <2>3
<1>9. QED BY <1>4, <1>5, <1>7, <1>8 DEF AnswerInv, Answered

\* The other steps move no text, and can only end the child and its output.
LEMMA OtherAnswer ==
    ASSUME Inv, GapInv, AnswerInv,
           \/ StartFails \/ Start \/ Publish \/ ReadEnd
           \/ CloseOutput \/ Fork \/ Release \/ ChildExits
           \/ Cancel \/ KillReads \/ KillSignals \/ WatcherKills
           \/ UNCHANGED vars
    PROVE  AnswerInv'
<1>1. UNCHANGED <<kind, got, shown, tooLong, pipe, wrote>>
  BY DEF StartFails, Start, Publish, ReadEnd, CloseOutput, Fork, Release, ChildExits,
         Cancel, KillReads, KillSignals, WatcherKills, vars, answerVars, childVars
<1>2. Scans' = Scans /\ Taken' = Taken
  BY <1>1 DEF Scans, Taken
<1>3. TextsCounted'
  BY <1>1, <1>2 DEF AnswerInv, TextsCounted
<1>4. QuietPipe /\ ~Start => QuietPipe'
  BY DEF QuietPipe, Dead, StartFails, Publish, ReadEnd, CloseOutput, Fork, Release,
         ChildExits, Cancel, KillReads, KillSignals, WatcherKills, vars, childVars
<1>5. LongStops'
  BY <1>1 DEF AnswerInv, LongStops, StartFails, Start, Publish, ReadEnd, CloseOutput, Fork,
       Release, ChildExits, Cancel, KillReads, KillSignals, WatcherKills, vars
<1>6. ReadOut'
  <2>1. CASE ReadEnd
    <3>1. QuietPipe
      BY <2>1 DEF ReadEnd, QuietPipe
    <3>2. ~Start
      BY <2>1 DEF ReadEnd, Start
    <3>3. QED BY <1>4, <3>1, <3>2 DEF ReadOut
  <2>2. CASE Publish \/ Start \/ StartFails
    BY <1>2, <2>2 DEF Publish, Start, StartFails, ReadOut
  <2>3. CASE ~ReadEnd /\ ~Publish /\ ~Start /\ ~StartFails
    <3>1. pc' = pc
      BY <2>3 DEF CloseOutput, Fork, Release, ChildExits, Cancel, KillReads, KillSignals,
                  WatcherKills, vars
    <3>2. QED BY <1>1, <1>2, <1>4, <2>3, <3>1 DEF AnswerInv, ReadOut
  <2>4. QED BY <2>1, <2>2, <2>3
<1>7. Answered'
  <2>1. CASE StartFails \/ Start \/ Publish \/ ReadEnd
    BY <2>1 DEF StartFails, Start, Publish, ReadEnd, Answered, Answers
  <2>2. CASE ~(StartFails \/ Start \/ Publish \/ ReadEnd)
    <3>1. UNCHANGED <<pc, outcome>> /\ (Dead => Dead' /\ child' = child)
      BY <2>2 DEF CloseOutput, Fork, Release, ChildExits, Cancel, KillReads, KillSignals,
                  WatcherKills, vars, childVars, Dead
    <3>2. SUFFICES ASSUME Answers' PROVE Answers
      BY <1>1, <1>2, <1>4, <2>2, <3>1 DEF AnswerInv, Answered
    <3>3. CASE Scans
      BY <1>1, <1>2, <3>1, <3>2, <3>3 DEF Answers
    <3>4. CASE ~Scans
      <4>1. pc = "idle" /\ child' = "ok" /\ outcome # "cancelled"
        BY <1>2, <3>1, <3>2, <3>4 DEF Answers
      <4>2. child = "none" \/ Dead
        BY <3>4, <4>1 DEF GapInv, OverIsQuiet
      <4>3. child # "none"
        BY <2>2, <4>1 DEF CloseOutput, Fork, Release, ChildExits, Cancel, KillReads,
                          KillSignals, WatcherKills, vars, childVars
      <4>4. child = "ok"
        BY <3>1, <4>1, <4>2, <4>3
      <4>5. QED BY <1>1, <3>1, <3>2, <4>1, <4>4 DEF Answers
    <3>5. QED BY <3>3, <3>4
  <2>3. QED BY <2>1, <2>2
<1>8. QED BY <1>3, <1>5, <1>6, <1>7 DEF AnswerInv

\* When Prompt returns a result for an agent that ended well, onText was given
\* every piece of text it wrote, unless a line was too long for the scanner:
\* for any child process, any number of calls and any size of the pipe.
THEOREM AnswersComplete == Spec => []AnswerComplete
<1>1. Inv /\ GapInv /\ AnswerInv /\ [Next]_vars => AnswerInv'
  BY CallAnswer, ReadLineAnswer, CopyAnswer, WriteAnswer, WaitAnswer, OtherAnswer
     DEF Next, PromptStep
<1>2. Inv /\ AnswerInv => AnswerComplete
  <2> SUFFICES ASSUME Inv, AnswerInv, Answers PROVE shown = wrote
    BY DEF AnswerComplete, Answers
  <2>1. pipe = << >> /\ Taken = shown /\ ~tooLong
    BY DEF AnswerInv, Answered, QuietPipe, Answers
  <2>2. Taken + Texts(pipe) = wrote /\ Texts(pipe) = 0
    BY <2>1, NoTexts DEF AnswerInv, TextsCounted
  <2>3. QED BY <2>1, <2>2 DEF Inv, TypeOK
<1>3. QED BY <1>1, <1>2, AnswerInit, GapHolds, PTL DEF Spec

-----------------------------------------------------------------------------
(* Each step of a backend is a step of the contract or a stutter. *)

\* A step within a phase that shows nothing is a stutter.
LEMMA QuietStep ==
    ASSUME Inv, Inv', UNCHANGED <<ctx, shown, outcome>>,
           \/ UNCHANGED pc
           \/ pc \in {"started", "reading", "waiting"}
              /\ pc' \in {"started", "reading", "waiting"}
    PROVE  UNCHANGED Contract!contractVars
BY DEF Inv, TypeOK, Contract!contractVars

LEMMA CallRefines == ASSUME Inv, Inv', Call PROVE Contract!Call
BY DEF Inv, TypeOK, Call, Contract!Call

LEMMA StartFailsRefines == ASSUME Inv, Inv', StartFails PROVE Contract!Fail
BY DEF Inv, TypeOK, ShownIsCollected, StartFails, answerVars, Contract!Fail

LEMMA StartRefines == ASSUME Inv, Inv', Start PROVE Contract!Open
BY DEF Inv, TypeOK, Start, answerVars, Contract!Open

LEMMA CancelRefines == ASSUME Inv, Inv', Cancel PROVE Contract!Cancel
BY DEF Inv, TypeOK, Cancel, answerVars, Contract!Cancel

\* What is read is shown at once or not at all.
LEMMA ReadLineRefines ==
    ASSUME Inv, Inv', ReadLine
    PROVE  Contract!Stream \/ UNCHANGED Contract!contractVars
<1>1. Head(pipe) \in Lines
  BY HeadAndTail DEF Inv, ReadLine
<1>2. shown' \in Nat /\ shown \in Nat
  BY DEF Inv, TypeOK
<1>3. shown' >= shown
  <2>1. CASE Understand(Head(pipe))
    BY <1>1, <2>1, UnderstandProperties DEF Inv
  <2>2. CASE UNCHANGED shown
    BY <1>2, <2>2
  <2>3. QED BY <2>1, <2>2 DEF ReadLine
<1>4. /\ UNCHANGED <<ctx, outcome>>
      /\ pc = "reading" /\ pc' \in {"reading", "waiting"}
  BY DEF ReadLine
<1>5. CASE shown' = shown
  BY <1>4, <1>5, QuietStep
<1>6. CASE shown' > shown
  BY <1>4, <1>6 DEF Contract!Stream
<1>7. QED BY <1>2, <1>3, <1>5, <1>6

\* An error is returned as a failure only if nothing was shown.
LEMMA WaitFailsRefines ==
    ASSUME Inv, Inv', WaitFails
    PROVE  Contract!Fail \/ Contract!Return
<1>1. /\ pc = "waiting" /\ pc' = "idle" /\ UNCHANGED <<ctx, shown>>
      /\ outcome' = Failure
  BY DEF WaitFails, CanWait, answerVars
<1>2. shown \in Nat /\ got \in Nat
  BY DEF Inv, TypeOK
<1>3. CASE Failure = "failed"
  <2>1. got = 0
    BY <1>2, <1>3 DEF Failure
  <2>2. shown = 0
    BY <1>1, <2>1 DEF Inv, ShownIsCollected
  <2>3. QED BY <1>1, <1>3, <2>2 DEF Contract!Fail
<1>4. CASE Failure \in {"cancelled", "error"}
  BY <1>1, <1>2, <1>4 DEF Contract!Return, Contract!Results
<1>5. QED BY <1>3, <1>4 DEF Failure

LEMMA WaitSucceedsRefines ==
    ASSUME Inv, Inv', WaitSucceeds
    PROVE  Contract!Return
<1>1. /\ pc = "waiting" /\ pc' = "idle" /\ UNCHANGED ctx
      /\ outcome' = stop /\ stop \in {"end", "refusal", "cancelled", "error"}
  BY DEF Inv, TypeOK, WaitSucceeds, CanWait
<1>2. shown' >= shown
  <2>1. CASE Scans
    BY <2>1 DEF Inv, TypeOK, WaitSucceeds, ShownAtEnd
  <2>2. CASE ~Scans
    <3>1. shown = 0 /\ shown' = got /\ got \in Nat
      BY <1>1, <2>2 DEF Inv, TypeOK, ShownIsCollected, WaitSucceeds, ShownAtEnd
    <3>2. QED BY <3>1
  <2>3. QED BY <2>1, <2>2
<1>3. QED BY <1>1, <1>2 DEF Contract!Return, Contract!Results

LEMMA OtherStepsQuiet ==
    ASSUME Inv, Inv',
           \/ Publish \/ ReadEnd \/ Copy
           \/ \E line \in Lines : Write(line)
           \/ CloseOutput \/ Fork \/ Release \/ ChildExits
           \/ KillReads \/ KillSignals \/ WatcherKills
    PROVE  UNCHANGED Contract!contractVars
<1>1. CASE Publish
  BY <1>1, QuietStep DEF Publish, answerVars
<1>2. CASE ReadEnd
  BY <1>2, QuietStep DEF ReadEnd, answerVars
<1>3. CASE ~Publish /\ ~ReadEnd
  <2>1. UNCHANGED <<pc, ctx, shown, outcome>>
    BY <1>3 DEF Copy, Write, CloseOutput, Fork, Release, ChildExits, KillReads,
                KillSignals, WatcherKills, answerVars
  <2>2. QED BY <2>1, QuietStep
<1>4. QED BY <1>1, <1>2, <1>3

\* The backends are what the session manager takes them for, for any child
\* process, any number of calls and any size of the pipe.
THEOREM BackendsKeepContract == Spec => ImplementsContract
<1>1. Init => Contract!ContractInit
  BY DEF Init, Contract!ContractInit
<1>2. Inv /\ Inv' /\ [Next]_vars => [Contract!ContractNext]_Contract!contractVars
  <2> SUFFICES ASSUME Inv, Inv', [Next]_vars
               PROVE  Contract!ContractNext \/ UNCHANGED Contract!contractVars
    OBVIOUS
  <2>1. CASE UNCHANGED vars
    BY <2>1, QuietStep DEF vars, answerVars
  <2>2. CASE Next
    BY <2>2, CallRefines, StartFailsRefines, StartRefines, CancelRefines,
       ReadLineRefines, WaitFailsRefines, WaitSucceedsRefines, OtherStepsQuiet
       DEF Next, PromptStep, Contract!ContractNext
  <2>3. QED BY <2>1, <2>2
<1>3. QED
  BY <1>1, <1>2, InvHolds, PTL DEF Spec, ImplementsContract, Contract!ContractSpec
=============================================================================
