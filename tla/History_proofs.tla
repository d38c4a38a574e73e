--------------------------- MODULE History_proofs ---------------------------
(***************************************************************************)
(* What is promised of the stored history, for every value of the          *)
(* constants: nothing but an erasure or expiry shortens it, and a reply    *)
(* stands behind its question.                                             *)
(***************************************************************************)
EXTENDS MCHistory, Messages_proofs

LEMMA AppendLonger ==
    ASSUME TypeInv, NEW k \in Keys, NEW role \in Roles, NEW m \in Msgs,
           log' = AppendMessage(log, k, role, m)
    PROVE  /\ \A i \in Keys \ {k} : log'[i] = log[i]
           /\ Len(log[k]) \in Nat
           /\ DOMAIN log[k] = 1 .. Len(log[k])
           /\ DOMAIN log'[k] = 1 .. Len(log[k]) + 1
           /\ Len(log'[k]) = Len(log[k]) + 1
           /\ \A i \in DOMAIN log[k] : log'[k][i] = log[k][i]
           /\ log'[k][Len(log[k]) + 1] = [role |-> role, msg |-> m]
<1> DEFINE e == [role |-> role, msg |-> m]
<1>1. log \in [Keys -> Seq(Entries)] /\ e \in Entries
    BY DEF TypeInv, StateTypeOK, StoreTypeOK, Entries
<1>2. /\ Len(log[k]) \in Nat
      /\ DOMAIN log[k] = 1 .. Len(log[k])
      /\ DOMAIN Append(log[k], e) = 1 .. Len(log[k]) + 1
      /\ Len(Append(log[k], e)) = Len(log[k]) + 1
      /\ \A i \in 1 .. Len(log[k]) : Append(log[k], e)[i] = log[k][i]
      /\ Append(log[k], e)[Len(log[k]) + 1] = e
    BY <1>1, AppendProperties, LenProperties
<1>3. QED
    BY <1>1, <1>2 DEF AppendMessage

\* The writes to the logs, of all that a step can do.
LEMMA LogSteps ==
    ASSUME [Next]_vars, ~UNCHANGED log
    PROVE  \/ \E s \in Sids : StoreUser(s) \/ StoreReply(s)
           \/ \E k \in Keys : EraseMessages(k)
           \/ Start
<1> USE DEF storeVars
<1>1. ASSUME UNCHANGED vars PROVE FALSE
    BY <1>1 DEF vars
<1>2. ASSUME NEW k \in Keys, Caller(k), ~EraseMessages(k) PROVE FALSE
    BY <1>2 DEF Caller, EnqueueExisting, EnqueueNew, EnqueueUnknown, SwitchAgent,
                CancelSession, RemoveSession
<1>3. ASSUME NEW s \in Sids, NEW m \in Msgs, Send(s, m) PROVE FALSE
    BY <1>3 DEF Send
<1>4. ASSUME NEW s \in Sids, Consumer(s), ~StoreUser(s), ~StoreReply(s) PROVE FALSE
    BY <1>4 DEF Consumer, LoopStep, Exit, Discard, Take, StartPrompt, Touch,
                StreamChunk, PromptEnds, PromptReturns, PromptFails
<1>5. ASSUME CleanupIdle \/ StopCancel \/ StopKill \/ ProcessEnds \/ Tick PROVE FALSE
    BY <1>5 DEF CleanupIdle, StopCancel, StopKill, ProcessEnds, Tick
<1>6. QED
    BY <1>1, <1>2, <1>3, <1>4, <1>5 DEF Next

\* A log that a start deletes belongs to a row not touched for MaxAge.
LEMMA ExpiryIsOld ==
    ASSUME TypeInv, Start, NEW k \in Keys, log'[k] # log[k]
    PROVE  mgr = "down" /\ now - rows[k].lastActivity > MaxAge
<1> DEFINE resumed == UpdateStates(rows, ListActiveSessions(rows), "suspended")
<1>1. k \in ExpiredKeys(resumed, now)
    BY DEF Start, DeleteLogs
<1>2. resumed[k].state = "suspended" /\ resumed[k].lastActivity < now - MaxAge
    BY <1>1 DEF ExpiredKeys
<1>3. /\ rows[k] \in Rows
      /\ resumed[k] = IF k \in ListActiveSessions(rows) /\ rows[k] # NoRow
                      THEN [rows[k] EXCEPT !.state = "suspended"] ELSE rows[k]
    BY DEF UpdateStates, TypeInv, StateTypeOK, StoreTypeOK
<1>4. rows[k] # NoRow
    BY <1>2, <1>3 DEF NoRow
<1>5. rows[k] \in [state : States, agent : Agents, lastActivity : Nat]
    BY <1>3, <1>4 DEF Rows
<1>6. resumed[k].lastActivity = rows[k].lastActivity /\ rows[k].lastActivity \in Nat
    BY <1>3, <1>5
<1>7. now \in Nat
    BY BoundsAssumption DEF TypeInv, StateTypeOK, EnvTypeOK
<1> HIDE DEF resumed
<1>8. now - rows[k].lastActivity > MaxAge
    BY <1>2, <1>6, <1>7, MaxAgeAssumption
<1>9. QED
    BY <1>8 DEF Start

\* A user's history is shortened by an erasure of that key, or at a start when
\* its row is older than MaxAge: by no other user, crash or idle cleanup.
THEOREM HistoryIsDurable == Spec => HistoryDurable
<1> DEFINE Durable ==
        \A k \in Keys : Len(log'[k]) < Len(log[k]) =>
            \/ k \in erasing
            \/ mgr = "down" /\ now - rows[k].lastActivity > MaxAge
<1>1. TypeInv /\ [Next]_vars => [Durable]_vars
    <2> SUFFICES ASSUME TypeInv, [Next]_vars, NEW k \in Keys,
                        Len(log'[k]) < Len(log[k])
                 PROVE  \/ k \in erasing
                        \/ mgr = "down" /\ now - rows[k].lastActivity > MaxAge
        OBVIOUS
    <2>1. Len(log[k]) \in Nat
        BY LenProperties DEF TypeInv, StateTypeOK, StoreTypeOK
    <2>2. log'[k] # log[k]
        BY <2>1
    <2>3. ASSUME NEW s \in Sids, NEW role \in Roles, pc[s] \in Working,
                 log' = AppendMessage(log, key[s], role, cur[s])
          PROVE  FALSE
        <3>1. key[s] \in Keys /\ cur[s] \in Msgs
            BY <2>3, WorkingFacts
        <3>2. /\ \A i \in Keys \ {key[s]} : log'[i] = log[i]
              /\ Len(log'[key[s]]) = Len(log[key[s]]) + 1
            BY <2>3, <3>1, AppendLonger
        <3>3. k = key[s]
            BY <2>2, <3>2
        <3>4. QED
            BY <2>1, <3>2, <3>3
    <2>4. ASSUME NEW s \in Sids PROVE ~StoreUser(s) /\ ~StoreReply(s)
        BY <2>3 DEF StoreUser, StoreReply, Working, Roles
    <2>5. ASSUME NEW j \in Keys, EraseMessages(j) PROVE k \in erasing
        BY <2>2, <2>5 DEF EraseMessages, DeleteMessages, TypeInv, StateTypeOK, StoreTypeOK
    <2>6. QED
        BY <2>2, <2>4, <2>5, LogSteps, ExpiryIsOld
<1>2. QED
    BY <1>1, MapInvariant, PTL DEF Spec, HistoryDurable

-----------------------------------------------------------------------------
(* A reply stands behind its question. *)

LEMMA HistoryStep == [NextHistory]_historyVars => [Next]_vars
BY DEF NextHistory, historyVars, Talk, Next, Caller

\* With its history variable left out, SpecHistory is a part of Spec.
LEMMA HistoryIsSpec == SpecHistory => Spec
<1>1. InitHistory => Init
    BY DEF InitHistory
<1>2. QED
    BY <1>1, HistoryStep, PTL DEF SpecHistory, Spec

\* Without a process no goroutine runs.
DownRunsNothing == mgr = "down" => \A s \in Sids : pc[s] \in {"none", "done"}

\* Between the two statements that store an exchange, the question is in the
\* log, unless it was erased from there.
Asked(m, k) == \E j \in DOMAIN log[k] : log[k][j] = [role |-> "user", msg |-> m]

StoringIsAsked ==
    \A s \in Sids : pc[s] = "store_reply" =>
        cur[s] \in forgotten \/ Asked(cur[s], key[s])

HistoryInv == DownRunsNothing /\ StoringIsAsked /\ ReplyFollowsQuestion

LEMMA InitHistoryInv == InitHistory => HistoryInv
<1>1. DOMAIN << >> = {}
    BY EmptySeq
<1>2. QED
    BY <1>1 DEF InitHistory, Init, HistoryInv, DownRunsNothing, StoringIsAsked,
                ReplyFollowsQuestion

LEMMA NextDownRunsNothing == DownRunsNothing /\ TypeInv /\ [Next]_vars => DownRunsNothing'
<1> SUFFICES ASSUME DownRunsNothing, TypeInv, [Next]_vars, mgr' = "down"
             PROVE  \A s \in Sids : pc'[s] \in {"none", "done"}
    BY DEF DownRunsNothing
<1> USE DEF managerVars, objectVars, loopVars
<1>1. CASE ProcessEnds
    BY <1>1 DEF ProcessEnds
<1>2. CASE ~ProcessEnds
    <2>1. mgr = "down"
        BY <1>2 DEF Next, Caller, Consumer, LoopStep, PromptEnds, vars, EnqueueExisting,
            EnqueueNew, EnqueueUnknown, SwitchAgent, CancelSession, RemoveSession,
            EraseMessages, Send, Exit, Discard, Take, StartPrompt, StreamChunk,
            PromptReturns, PromptFails, StoreUser, StoreReply, Touch, CleanupIdle,
            Start, StopCancel, StopKill, Tick
    <2>2. ASSUME NEW s \in Sids PROVE ~Consumer(s)
        BY <2>1 DEF DownRunsNothing, Consumer, LoopStep, PromptEnds, Exit, CanExit,
            Discard, Take, CanTake, StartPrompt, StreamChunk, PromptReturns,
            PromptFails, StoreUser, StoreReply, Touch
    <2>3. ASSUME NEW k \in Keys, Caller(k) PROVE EraseMessages(k)
        BY <2>1, <2>3 DEF Caller, Up, Arrives, EnqueueExisting, EnqueueNew,
            EnqueueUnknown, SwitchAgent, CancelSession, RemoveSession
    <2>4. UNCHANGED pc
        BY <1>2, <2>1, <2>2, <2>3 DEF Next, EraseMessages, Send, CleanupIdle, Up,
            Start, StopCancel, StopKill, Tick, vars
    <2>5. QED
        BY <2>1, <2>4 DEF DownRunsNothing
<1>3. QED
    BY <1>1, <1>2

\* How a goroutine comes to be, or stays, between the two statements.
StaysStoring(s) ==
    pc[s] = "store_reply" /\ cur'[s] = cur[s] /\ key'[s] = key[s]

LEMMA StoringSteps ==
    ASSUME TypeInv, [Next]_vars, NEW s \in Sids, pc'[s] = "store_reply"
    PROVE  StoreUser(s) \/ (StaysStoring(s) /\ ~StoreReply(s))
<1> USE DEF managerVars, objectVars, loopVars, StaysStoring
<1> USE DEF TypeInv, StateTypeOK, LoopTypeOK, ObjectTypeOK
<1>1. ASSUME NEW k \in Keys, NEW a \in Registry, NEW map, NEW dead,
             Create(k, a, map, dead), UNCHANGED cur
      PROVE  StaysStoring(s)
    BY <1>1 DEF Create
<1>2. ASSUME NEW k \in Keys, Caller(k) PROVE StaysStoring(s)
    <2>1. ASSUME NEW m \in Msgs, NEW a \in Registry, EnqueueNew(k, m, a)
          PROVE  StaysStoring(s)
        BY <1>1, <2>1 DEF EnqueueNew
    <2>2. ASSUME NEW a \in Registry, SwitchAgent(k, a) PROVE StaysStoring(s)
        BY <1>1, <2>2 DEF SwitchAgent
    <2>3. QED
        BY <1>2, <2>1, <2>2
        DEF Caller, EnqueueExisting, EnqueueUnknown, CancelSession, RemoveSession,
            EraseMessages
<1>3. ASSUME NEW r \in Sids, Consumer(r) PROVE StoreUser(s) \/ StaysStoring(s)
    BY <1>3 DEF Consumer, LoopStep, PromptEnds, Exit, Discard, Take, StartPrompt,
        StreamChunk, PromptReturns, PromptFails, StoreUser, StoreReply, Touch
<1>4. ASSUME NEW r \in Sids, NEW m \in Msgs, Send(r, m) PROVE StaysStoring(s)
    BY <1>4 DEF Send
<1>5. ASSUME CleanupIdle \/ Start \/ StopCancel \/ StopKill \/ Tick \/ UNCHANGED vars
      PROVE  StaysStoring(s)
    BY <1>5 DEF CleanupIdle, Start, StopCancel, StopKill, Tick, vars
<1>6. ~ProcessEnds /\ ~StoreReply(s)
    BY DEF ProcessEnds, StoreReply
<1>7. QED
    BY <1>2, <1>3, <1>4, <1>5, <1>6 DEF Next

\* The writes to the logs, with what is forgotten at each.
LEMMA HistoryLogSteps ==
    ASSUME [NextHistory]_historyVars, ~UNCHANGED log
    PROVE  \/ \E s \in Sids : StoreUser(s) \/ StoreReply(s)
           \/ \E k \in Keys : /\ EraseMessages(k)
                              /\ forgotten' = forgotten \cup {m \in Msgs : to[m] = k}
           \/ Start
<1>1. ASSUME NEW k \in Keys, Talk(k) PROVE FALSE
    BY <1>1 DEF Talk, EnqueueExisting, EnqueueNew, RemoveSession, storeVars
<1>2. ASSUME UNCHANGED historyVars PROVE FALSE
    BY <1>2 DEF historyVars, vars, storeVars
<1>3. ASSUME NEW s \in Sids, NEW m \in Msgs, Send(s, m) PROVE FALSE
    BY <1>3 DEF Send, storeVars
<1>4. ASSUME NEW s \in Sids, Consumer(s), ~StoreUser(s), ~StoreReply(s) PROVE FALSE
    BY <1>4 DEF Consumer, LoopStep, Exit, Discard, Take, StartPrompt, Touch,
                StreamChunk, PromptEnds, PromptReturns, PromptFails, storeVars
<1>5. ASSUME CleanupIdle \/ ProcessEnds \/ Tick PROVE FALSE
    BY <1>5 DEF CleanupIdle, ProcessEnds, Tick, storeVars
<1>6. QED
    BY <1>1, <1>2, <1>3, <1>4, <1>5 DEF NextHistory

LEMMA ForgottenGrows == [NextHistory]_historyVars => forgotten \subseteq forgotten'
BY DEF NextHistory, historyVars

\* The entries of the log of k are still where they were.
Kept(k) ==
    \A i \in DOMAIN log[k] : i \in DOMAIN log'[k] /\ log'[k][i] = log[k][i]

\* What a step makes of the entries of a log: they stay where they are, or the
\* log is erased, or expires while no goroutine runs.
LEMMA EntriesStay ==
    ASSUME TypeInv, [NextHistory]_historyVars, NEW k \in Keys
    PROVE  \/ Kept(k)
           \/ DOMAIN log'[k] = {} /\ {m \in Msgs : to[m] = k} \subseteq forgotten'
           \/ DOMAIN log'[k] = {} /\ mgr = "down"
<1>1. CASE UNCHANGED log
    BY <1>1 DEF Kept
<1>2. ASSUME NEW s \in Sids, NEW role \in Roles, pc[s] \in Working,
             log' = AppendMessage(log, key[s], role, cur[s])
      PROVE  Kept(k)
    <2>1. key[s] \in Keys /\ cur[s] \in Msgs
        BY <1>2, WorkingFacts
    <2>2. /\ \A i \in Keys \ {key[s]} : log'[i] = log[i]
          /\ Len(log[key[s]]) \in Nat
          /\ DOMAIN log[key[s]] = 1 .. Len(log[key[s]])
          /\ DOMAIN log'[key[s]] = 1 .. Len(log[key[s]]) + 1
          /\ \A i \in DOMAIN log[key[s]] : log'[key[s]][i] = log[key[s]][i]
        BY <1>2, <2>1, AppendLonger
    <2>3. QED
        BY <2>2 DEF Kept
<1>3. ASSUME NEW s \in Sids, StoreUser(s) \/ StoreReply(s)
      PROVE  Kept(k)
    BY <1>2, <1>3 DEF StoreUser, StoreReply, Working, Roles
<1>4. DOMAIN << >> = {}
    BY EmptySeq
<1>5. ASSUME NEW j \in Keys, EraseMessages(j),
             forgotten' = forgotten \cup {m \in Msgs : to[m] = j}
      PROVE  \/ Kept(k)
             \/ DOMAIN log'[k] = {} /\ {m \in Msgs : to[m] = k} \subseteq forgotten'
    BY <1>4, <1>5 DEF Kept, EraseMessages, DeleteMessages, TypeInv, StateTypeOK, StoreTypeOK
<1>6. ASSUME Start PROVE Kept(k) \/ (DOMAIN log'[k] = {} /\ mgr = "down")
    BY <1>4, <1>6 DEF Kept, Start, DeleteLogs
<1>7. QED
    BY <1>1, <1>3, <1>5, <1>6, HistoryLogSteps

LEMMA NextStoringIsAsked ==
    ASSUME TypeInv, UsersIsolated, DownRunsNothing, StoringIsAsked,
           [NextHistory]_historyVars
    PROVE  StoringIsAsked'
<1> SUFFICES ASSUME NEW s \in Sids, pc'[s] = "store_reply"
             PROVE  cur'[s] \in forgotten' \/ Asked(cur[s], key[s])'
    BY DEF StoringIsAsked
<1>1. CASE StoreUser(s)
    <2>1. /\ log' = AppendMessage(log, key[s], "user", cur[s])
          /\ cur' = cur /\ key' = key
        BY <1>1 DEF StoreUser, objectVars
    <2>2. key[s] \in Keys /\ cur[s] \in Msgs /\ "user" \in Roles
        BY <1>1, WorkingFacts DEF StoreUser, Working, Roles
    <2>3. /\ Len(log[key[s]]) \in Nat
          /\ DOMAIN log'[key[s]] = 1 .. Len(log[key[s]]) + 1
          /\ log'[key[s]][Len(log[key[s]]) + 1] = [role |-> "user", msg |-> cur[s]]
        BY <2>1, <2>2, AppendLonger
    <2>4. Len(log[key[s]]) + 1 \in DOMAIN log'[key[s]]
        BY <2>3
    <2>5. Asked(cur[s], key[s])'
        BY <2>1, <2>3, <2>4 DEF Asked
    <2>6. QED
        BY <2>5
<1>2. CASE StaysStoring(s)
    <2>1. pc[s] = "store_reply" /\ cur'[s] = cur[s] /\ key'[s] = key[s]
        BY <1>2 DEF StaysStoring
    <2>2. key[s] \in Keys /\ cur[s] \in Msgs /\ to[cur[s]] = key[s]
        BY <2>1, WorkingFacts, NoneAssumption DEF Working, UsersIsolated
    <2>3. cur[s] \in forgotten \/ Asked(cur[s], key[s])
        BY <2>1 DEF StoringIsAsked
    <2>4. CASE cur[s] \in forgotten
        BY <2>1, <2>4, ForgottenGrows
    <2>5. CASE Asked(cur[s], key[s])
        <3>1. mgr # "down"
            BY <2>1 DEF DownRunsNothing
        <3>2. \/ Kept(key[s])
              \/ {m \in Msgs : to[m] = key[s]} \subseteq forgotten'
            BY <2>2, <3>1, EntriesStay
        <3>3. QED
            BY <2>1, <2>2, <2>5, <3>2 DEF Asked, Kept
    <2>6. QED
        BY <2>3, <2>4, <2>5
<1>3. QED
    BY <1>1, <1>2, HistoryStep, StoringSteps

\* Questions are put in front of their replies.
LEMMA NextReplyFollows ==
    ASSUME TypeInv, StoringIsAsked, ReplyFollowsQuestion, [NextHistory]_historyVars
    PROVE  ReplyFollowsQuestion'
<1> SUFFICES ASSUME NEW k \in Keys, NEW i \in DOMAIN log'[k],
                    log'[k][i].role = "assistant", log'[k][i].msg \notin forgotten'
             PROVE  \E j \in 1 .. i - 1 :
                       log'[k][j] = [role |-> "user", msg |-> log'[k][i].msg]
    BY DEF ReplyFollowsQuestion
<1>1. log'[k][i].msg \notin forgotten
    BY ForgottenGrows
<1>2. CASE log'[k] = log[k]
    BY <1>1, <1>2 DEF ReplyFollowsQuestion
<1>3. ASSUME NEW s \in Sids, NEW role \in Roles, pc[s] \in Working,
             log' = AppendMessage(log, key[s], role, cur[s]), key[s] = k,
             role = "assistant" => pc[s] = "store_reply"
      PROVE  \E j \in 1 .. i - 1 :
                log'[k][j] = [role |-> "user", msg |-> log'[k][i].msg]
    <2> DEFINE n == Len(log[k])
    <2>1. cur[s] \in Msgs
        BY <1>3, WorkingFacts
    <2>2. /\ n \in Nat
          /\ DOMAIN log[k] = 1 .. n
          /\ DOMAIN log'[k] = 1 .. n + 1
          /\ \A j \in DOMAIN log[k] : log'[k][j] = log[k][j]
          /\ log'[k][n + 1] = [role |-> role, msg |-> cur[s]]
        BY <1>3, <2>1, AppendLonger
    <2>3. CASE i \in 1 .. n
        <3>1. PICK j \in 1 .. i - 1 : log[k][j] = [role |-> "user", msg |-> log[k][i].msg]
            BY <1>1, <2>2, <2>3 DEF ReplyFollowsQuestion
        <3>2. j \in 1 .. n
            BY <2>2, <2>3
        <3>3. QED
            BY <2>2, <2>3, <3>1, <3>2
    <2>4. CASE i = n + 1
        <3>1. role = "assistant" /\ log'[k][i].msg = cur[s]
            BY <2>2, <2>4
        <3>2. Asked(cur[s], k)
            BY <1>1, <1>3, <3>1 DEF StoringIsAsked
        <3>3. QED
            BY <2>2, <2>4, <3>1, <3>2 DEF Asked
    <2>5. QED
        BY <2>2, <2>3, <2>4
<1>4. ASSUME NEW s \in Sids, StoreUser(s) \/ StoreReply(s), log'[k] # log[k]
      PROVE  \E j \in 1 .. i - 1 :
                log'[k][j] = [role |-> "user", msg |-> log'[k][i].msg]
    <2>1. pc[s] \in Working /\ "user" \in Roles /\ "assistant" \in Roles
        BY <1>4 DEF StoreUser, StoreReply, Working, Roles
    <2>2. key[s] \in Keys /\ cur[s] \in Msgs
        BY <2>1, WorkingFacts
    <2>3. PICK role \in Roles : /\ log' = AppendMessage(log, key[s], role, cur[s])
                                /\ role = "assistant" => pc[s] = "store_reply"
        BY <1>4, <2>1 DEF StoreUser, StoreReply
    <2>4. \A j \in Keys \ {key[s]} : log'[j] = log[j]
        BY <2>2, <2>3, AppendLonger
    <2>5. key[s] = k
        BY <1>4, <2>4
    <2>6. QED
        BY <1>3, <2>1, <2>3, <2>5
<1>5. DOMAIN << >> = {}
    BY EmptySeq
<1>6. ASSUME NEW j \in Keys, EraseMessages(j) PROVE log'[k] = log[k]
    BY <1>5, <1>6 DEF EraseMessages, DeleteMessages, TypeInv, StateTypeOK, StoreTypeOK
<1>7. ASSUME Start PROVE log'[k] = log[k]
    BY <1>5, <1>7 DEF Start, DeleteLogs
<1>8. QED
    BY <1>2, <1>4, <1>6, <1>7, HistoryLogSteps

\* A reply in a user's history stands behind the question it answers, wherever
\* the process ended and whoever wrote in between; only an erasure parts them.
THEOREM RepliesFollowQuestions == SpecHistory => []ReplyFollowsQuestion
<1>1. TypeInv /\ UsersIsolated /\ HistoryInv /\ [NextHistory]_historyVars => HistoryInv'
    BY HistoryStep, NextDownRunsNothing, NextStoringIsAsked, NextReplyFollows
    DEF HistoryInv
<1>2. SpecHistory => [](TypeInv /\ UsersIsolated)
    BY HistoryIsSpec, MapInvariant, UsersStayIsolated, PTL
<1>3. SpecHistory => []HistoryInv
    BY <1>1, <1>2, InitHistoryInv, PTL DEF SpecHistory
<1>4. HistoryInv => ReplyFollowsQuestion
    BY DEF HistoryInv
<1>5. QED
    BY <1>3, <1>4, PTL
=============================================================================
