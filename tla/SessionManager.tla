--------------------------- MODULE SessionManager ---------------------------
(***************************************************************************)
(* The session manager of internal/session/manager.go: one UserSession     *)
(* object, with a bounded queue and a consumer goroutine, per user who is  *)
(* talking to an agent.  The callers (router and web goroutines), the      *)
(* cleanup ticker and the consumers interleave; what the code does under   *)
(* m.mu is one action, and so is each statement executed on the store.     *)
(*                                                                         *)
(* m.mu does not cover the channels, nor the time that a consumer sets     *)
(* after a prompt: a section that looks at one session after the other to  *)
(* decide which to end may see each as it was at another moment.  "seen"   *)
(* has what such a section may have read, and the section is a step at its *)
(* last cancellation: what others do between its reads are steps before.   *)
(*                                                                         *)
(* A session object is never reused: it is a number, given in creation     *)
(* order, because a replaced object and its goroutine live on beside the   *)
(* object that took their place in the map.  MaxSessions, MaxTime,         *)
(* MaxCrashes and the finiteness of Msgs bound the model; every other      *)
(* constant is a parameter of the program.                                 *)
(***************************************************************************)
EXTENDS SessionStore, FiniteSets

CONSTANTS
    Registry,       \* ManagerOpts.Registry: the agents with a factory
    None,           \* no key, no agent, no message
    MaxConcurrent,  \* ManagerOpts.MaxConcurrent
    QueueSize,      \* ManagerOpts.QueueSize after its default
    QueueTimeout,   \* ManagerOpts.QueueTimeout after its default
    IdleTimeout,    \* ManagerOpts.IdleTimeout, not positive to disable
    StopReasons,    \* what the agents report: "end", "error", "refusal", "cancelled"
    MaxRoutes,      \* message handlers that run at the same time
    MaxSessions,    \* bound: session objects ever created
    MaxTime,        \* bound: the last reading of the clock
    MaxCrashes      \* bound: how often the process ends

ASSUME NoneAssumption == None \notin Keys \cup Agents \cup Msgs
ASSUME RegistryAssumption == Registry \subseteq Agents
ASSUME QueueAssumption == QueueSize \in Nat \ {0} /\ QueueTimeout \in Nat
ASSUME LimitsAssumption ==
    MaxConcurrent \in Int /\ IdleTimeout \in Int /\ MaxRoutes \in Nat
ASSUME StopReasonsAssumption ==
    StopReasons \subseteq {"end", "error", "refusal", "cancelled"}
ASSUME BoundsAssumption ==
    MaxSessions \in Nat /\ MaxTime \in Nat /\ MaxCrashes \in Nat

VARIABLES
    \* Manager
    mgr,           \* "down", "running", "cancelled" (m.cancel ran), "stopped"
    sessions,      \* the map: session object of each key, or NoSession
    created,       \* number of session objects created so far
    seen,          \* what each key's session was since m.mu was last held
    \* UserSession objects, by number
    key, agent,    \* Key, AgentID
    queue,         \* MsgCh
    cancelled,     \* the session's own cancel function has been called
    lastActivity,
    injected,      \* historyInjected
    context,       \* the history that was put before the first prompt
    \* consumer goroutine of each object
    pc,
    cur,           \* the message it is processing
    buf,           \* StreamBuffer: "empty", "held" (text not yet sent), "sent"
    \* goroutines of the callers, between two locked sections
    sending,       \* {<<s, m>>}: Enqueue holds m and the object s, unlocked
    erasing,       \* keys whose RemoveSession has still to delete the log
    \* PendingMessage fields and the replies given to a message
    to,            \* ContextToken, as the key of the user it stands for
    enqueuedAt,
    replied,
    \* SQLite
    rows, log,
    \* environment
    now, crashes

managerVars == <<mgr, sessions, created>>
objectVars  == <<key, agent, cancelled, lastActivity>>
loopVars    == <<pc, cur, buf, injected, context>>
messageVars == <<to, enqueuedAt, replied>>
storeVars   == <<rows, log>>
envVars     == <<now, crashes>>
vars == <<managerVars, seen, objectVars, queue, loopVars, sending, erasing,
          messageVars, storeVars, envVars>>

NoSession == 0
Sids == 1 .. MaxSessions

ReplyKinds == {"busy", "timeout", "text", "cancelled", "refusal", "error"}
PcValues == {"none", "select", "fetched", "prompt",
             "store_user", "store_reply", "touch", "done"}

Init ==
    /\ mgr = "down"
    /\ sessions = [k \in Keys |-> NoSession]
    /\ created = 0
    /\ seen = [k \in Keys |-> {}]
    /\ key = [s \in Sids |-> None]
    /\ agent = [s \in Sids |-> None]
    /\ queue = [s \in Sids |-> << >>]
    /\ cancelled = [s \in Sids |-> FALSE]
    /\ lastActivity = [s \in Sids |-> 0]
    /\ injected = [s \in Sids |-> FALSE]
    /\ context = [s \in Sids |-> << >>]
    /\ pc = [s \in Sids |-> "none"]
    /\ cur = [s \in Sids |-> None]
    /\ buf = [s \in Sids |-> "empty"]
    /\ sending = {}
    /\ erasing = {}
    /\ to = [m \in Msgs |-> None]
    /\ enqueuedAt = [m \in Msgs |-> 0]
    /\ replied = [m \in Msgs |-> {}]
    /\ rows = [k \in Keys |-> NoRow]
    /\ log = [k \in Keys |-> << >>]
    /\ now = 0
    /\ crashes = 0

Up == mgr # "down"

\* Mutant: session contexts made from the background context.
CtxDetached(s) == cancelled[s]

\* sess.ctx.Done(): the session's context is a child of the manager's.
CtxDone(s) == cancelled[s] \/ mgr # "running"

Mapped(map) == {k \in Keys : map[k] # NoSession}

\* Cancelling the sessions ss: their cancel function and Backend.Kill.
CancelAll(ss) == [s \in Sids |-> cancelled[s] \/ s \in ss]

Reply(m, kind) == replied' = [replied EXCEPT ![m] = @ \cup {kind}]

-----------------------------------------------------------------------------
(* Looking at the sessions, and creating one. *)

\* What can be read of the session of k: len(MsgCh) == 0 and lastActivity.
Current(k) ==
    IF sessions[k] = NoSession THEN {}
    ELSE {[idle |-> queue[sessions[k]] = << >>,
           activity |-> lastActivity[sessions[k]]]}

\* A section under m.mu ends: the next one has read nothing yet.
Locked == seen' = [k \in Keys |-> Current(k)']

\* A change without m.mu: a section may read before and after it.
Unlocked == seen' = [k \in Keys |-> seen[k] \cup Current(k)']

\* Mutant: the length of the queue is not looked at.
TurnsUnasked(k) ==
    {[key |-> k, idle |-> TRUE, compared |-> r.activity, kept |-> r.activity] :
        r \in seen[k]}

\* One turn of the loop of evictOldestLocked: the queue is looked at, then
\* lastActivity is compared and, read again, kept.
Turns(k) ==
    {[key |-> k, idle |-> r[1].idle, compared |-> r[2].activity,
      kept |-> r[3].activity] :
        r \in {t \in seen[k] \X seen[k] \X seen[k] :
                  t[1].activity <= t[2].activity /\ t[2].activity <= t[3].activity}}

\* The loop, which goes through the map in any order.
Passes(map) ==
    {pass \in [1 .. Cardinality(Mapped(map)) -> UNION {Turns(k) : k \in Mapped(map)}] :
        \A k \in Mapped(map) : \E i \in DOMAIN pass : pass[i].key = k}

\* Mutant: the time of the session taken is not kept.
TakesLast(best, turn) ==
    IF turn.idle /\ turn.compared < best.activity
    THEN [key |-> turn.key, activity |-> best.activity] ELSE best

Better(best, turn) ==
    IF turn.idle /\ turn.compared < best.activity
    THEN [key |-> turn.key, activity |-> turn.kept] ELSE best

\* oldestKey after a pass; no time is later than the first one to compare with.
OldestOf(pass) ==
    LET best[i \in 0 .. Len(pass)] ==
            IF i = 0 THEN [key |-> None, activity |-> MaxTime + 1]
            ELSE Better(best[i - 1], pass[i])
    IN  best[Len(pass)].key

Evictions(map) == {{k \in Mapped(map) : k = OldestOf(pass)} : pass \in Passes(map)}

\* Mutant: one session too many.
VictimsOffByOne(map) ==
    IF Cardinality(Mapped(map)) <= MaxConcurrent THEN {{}} ELSE Evictions(map)

\* What may be evicted to make room: a set of at most one key.
Victims(map) ==
    IF Cardinality(Mapped(map)) < MaxConcurrent THEN {{}} ELSE Evictions(map)

\* The rest of Enqueue and SwitchAgent once map no longer holds k, the sessions
\* of dead having been cancelled: evict if needed, then createSessionLocked.
Create(k, a, map, dead) ==
    LET s == created + 1
    IN  /\ s \in Sids
        /\ created' = s
        /\ \E evicted \in Victims(map) :
              /\ sessions' = [j \in Keys |-> IF j = k THEN s
                                             ELSE IF j \in evicted THEN NoSession
                                             ELSE map[j]]
              /\ cancelled' = CancelAll(dead \cup {map[j] : j \in evicted})
        /\ key' = [key EXCEPT ![s] = k]
        /\ agent' = [agent EXCEPT ![s] = a]
        /\ lastActivity' = [lastActivity EXCEPT ![s] = now]
        /\ pc' = [pc EXCEPT ![s] = "select"]
        /\ rows' = UpsertSession(rows, k, "active", a, now)

\* evictOldestLocked followed by a createSessionLocked that finds no factory.
CreateFails(map) ==
    \E evicted \in Victims(map) :
        /\ sessions' = [j \in Keys |-> IF j \in evicted THEN NoSession ELSE map[j]]
        /\ cancelled' = CancelAll({map[j] : j \in evicted})

-----------------------------------------------------------------------------
(* Operations of the callers. *)

\* Mutant: neither a message nor an answer makes a session active again.
NotRefreshed(s) == lastActivity

\* sess.lastActivity.Store of the time.
Refreshed(s) == [lastActivity EXCEPT ![s] = now]

\* A message handler enters Enqueue with a message not seen before.
Arrives(k, m) ==
    /\ Up
    /\ to[m] = None
    /\ Cardinality(sending) < MaxRoutes
    /\ to' = [to EXCEPT ![m] = k]
    /\ enqueuedAt' = [enqueuedAt EXCEPT ![m] = now]
    /\ UNCHANGED replied

\* Enqueue, the locked part, for a key that has a session.
EnqueueExisting(k, m) ==
    /\ Arrives(k, m)
    /\ sessions[k] # NoSession
    /\ lastActivity' = Refreshed(sessions[k])
    /\ sending' = sending \cup {<<sessions[k], m>>}
    /\ UNCHANGED <<managerVars, key, agent, cancelled, queue, loopVars, erasing,
                   storeVars, envVars>>
    /\ Locked

\* Enqueue, the locked part, for a key that has none.
EnqueueNew(k, m, a) ==
    /\ Arrives(k, m)
    /\ sessions[k] = NoSession
    /\ a \in Registry
    /\ Create(k, a, sessions, {})
    /\ sending' = sending \cup {<<created + 1, m>>}
    /\ UNCHANGED <<mgr, queue, cur, buf, injected, context, erasing, log, envVars>>
    /\ Locked

\* The same with an agent that has no factory (a default agent given as a raw
\* command): a session may already have been evicted for it.
EnqueueUnknown(k, m, a) ==
    /\ Arrives(k, m)
    /\ sessions[k] = NoSession
    /\ a \in Agents \ Registry
    /\ CreateFails(sessions)
    /\ UNCHANGED <<mgr, created, key, agent, lastActivity, queue, loopVars,
                   sending, erasing, storeVars, envVars>>
    /\ Locked

\* Mutant: room for one message more than the channel holds.
HasRoomOffByOne(s) == Len(queue[s]) <= QueueSize

HasRoom(s) == Len(queue[s]) < QueueSize

Accept(s, m) ==
    /\ HasRoom(s)
    /\ queue' = [queue EXCEPT ![s] = Append(@, m)]
    /\ UNCHANGED replied

\* Mutant: the newest message takes the place of the oldest.
TurnAwayOldest(s, m) ==
    /\ ~HasRoom(s) /\ mgr = "running"
    /\ queue' = [queue EXCEPT ![s] = Append(Tail(@), m)]
    /\ Reply(m, "busy")

TurnAway(s, m) ==
    /\ ~HasRoom(s) /\ mgr = "running"
    /\ Reply(m, "busy")
    /\ UNCHANGED queue

ShutOut == mgr # "running" /\ UNCHANGED <<queue, replied>>

\* Enqueue after it has released the lock: the select on the object it looked
\* up.  The send and the shutdown are both ready when the manager is cancelled
\* and the queue has room; the default branch needs neither to be.
Send(s, m) ==
    /\ <<s, m>> \in sending
    /\ sending' = sending \ {<<s, m>>}
    /\ Accept(s, m) \/ TurnAway(s, m) \/ ShutOut
    /\ UNCHANGED <<managerVars, objectVars, loopVars, erasing, to, enqueuedAt,
                   storeVars, envVars>>
    /\ Unlocked

SwitchAgent(k, a) ==
    /\ Up
    /\ a \in Registry
    /\ Create(k, a, [sessions EXCEPT ![k] = NoSession],
              {sessions[k]} \ {NoSession})
    /\ UNCHANGED <<mgr, queue, cur, buf, injected, context, sending, erasing,
                   messageVars, log, envVars>>
    /\ Locked

\* CancelSession drains the queue of the session it removes.
CancelSession(k) ==
    /\ Up
    /\ sessions[k] # NoSession
    /\ cancelled' = CancelAll({sessions[k]})
    /\ queue' = [queue EXCEPT ![sessions[k]] = << >>]
    /\ sessions' = [sessions EXCEPT ![k] = NoSession]
    /\ UNCHANGED <<mgr, created, key, agent, lastActivity, loopVars, sending,
                   erasing, messageVars, storeVars, envVars>>
    /\ Locked

\* RemoveSession, the locked part.  The log is deleted after the lock is
\* released; a web DELETE comes here whether or not the key has a session.
RemoveSession(k) ==
    /\ Up
    /\ k \notin erasing
    /\ cancelled' = CancelAll({sessions[k]} \ {NoSession})
    /\ sessions' = [sessions EXCEPT ![k] = NoSession]
    /\ erasing' = erasing \cup {k}
    /\ UNCHANGED <<mgr, created, key, agent, lastActivity, queue, loopVars,
                   sending, messageVars, storeVars, envVars>>
    /\ Locked

EraseMessages(k) ==
    /\ k \in erasing
    /\ log' = DeleteMessages(log, k)
    /\ erasing' = erasing \ {k}
    /\ UNCHANGED <<seen, managerVars, objectVars, queue, loopVars, sending,
                   messageVars, rows, envVars>>

\* Mutant: the length of the queue is not looked at.
IdleUnasked(at, first, second) == at - first.activity > IdleTimeout

\* cleanupIdleSessions reads lastActivity of a session, then looks at its queue.
Idle(at, first, second) == at - first.activity > IdleTimeout /\ second.idle

\* What one pass over the map may find idle, by a clock that was read before
\* m.mu was taken.
IdleSets ==
    {gone \in SUBSET Mapped(sessions) :
        \E at \in 0 .. now : \A k \in Mapped(sessions) :
            \E first, second \in seen[k] :
                /\ first.activity <= second.activity
                /\ k \in gone <=> Idle(at, first, second)}

CleanupIdle ==
    /\ Up
    /\ IdleTimeout > 0
    /\ \E gone \in IdleSets \ {{}} :
        /\ cancelled' = CancelAll({sessions[k] : k \in gone})
        /\ sessions' = [k \in Keys |-> IF k \in gone THEN NoSession ELSE sessions[k]]
        /\ rows' = UpdateStates(rows, gone, "suspended")
    /\ UNCHANGED <<mgr, created, key, agent, lastActivity, queue, loopVars,
                   sending, erasing, messageVars, log, envVars>>
    /\ Locked

-----------------------------------------------------------------------------
(* consumeLoop: the goroutine of session object s. *)

\* Mutant: a goroutine that lost its entry in the map does not return.
CanExitIfMapped(s) == pc[s] = "select" /\ CtxDone(s) /\ sessions[key[s]] = s

CanExit(s) == pc[s] = "select" /\ CtxDone(s)

\* Mutant: the entry is left in the map.
MapKept(s) == sessions

\* The deferred function of consumeLoop deletes the map entry of its key,
\* whichever object the entry holds by then.
MapAfterExit(s) == [sessions EXCEPT ![key[s]] = NoSession]

Exit(s) ==
    /\ CanExit(s)
    /\ pc' = [pc EXCEPT ![s] = "done"]
    /\ sessions' = MapAfterExit(s)
    /\ cancelled' = CancelAll({s})
    /\ UNCHANGED <<mgr, created, key, agent, lastActivity, queue, cur, buf,
                   injected, context, sending, erasing, messageVars, storeVars,
                   envVars>>
    /\ Locked

\* Mutant: a goroutine that lost its entry in the map takes no more messages.
CanTakeIfMapped(s) ==
    pc[s] = "select" /\ queue[s] # << >> /\ sessions[key[s]] = s

\* select chooses at random when the context is done as well.
CanTake(s) == pc[s] = "select" /\ queue[s] # << >>

Expired(m) == now - enqueuedAt[m] > QueueTimeout

\* Mutant: the continue after the notice is missing.
DiscardAndProcess(s) ==
    /\ CanTake(s)
    /\ Expired(Head(queue[s]))
    /\ queue' = [queue EXCEPT ![s] = Tail(@)]
    /\ Reply(Head(queue[s]), "timeout")
    /\ pc' = [pc EXCEPT ![s] = "fetched"]
    /\ cur' = [cur EXCEPT ![s] = Head(queue[s])]
    /\ UNCHANGED <<managerVars, objectVars, buf, injected, context, sending,
                   erasing, to, enqueuedAt, storeVars, envVars>>
    /\ Unlocked

\* Receiving a message that waited too long: the user is told to send it again.
Discard(s) ==
    /\ CanTake(s)
    /\ Expired(Head(queue[s]))
    /\ queue' = [queue EXCEPT ![s] = Tail(@)]
    /\ Reply(Head(queue[s]), "timeout")
    /\ UNCHANGED <<managerVars, objectVars, loopVars, sending, erasing, to,
                   enqueuedAt, storeVars, envVars>>
    /\ Unlocked

\* Receiving a message to process.
Take(s) ==
    /\ CanTake(s)
    /\ ~Expired(Head(queue[s]))
    /\ queue' = [queue EXCEPT ![s] = Tail(@)]
    /\ pc' = [pc EXCEPT ![s] = "fetched"]
    /\ cur' = [cur EXCEPT ![s] = Head(queue[s])]
    /\ UNCHANGED <<managerVars, objectVars, buf, injected, context, sending,
                   erasing, messageVars, storeVars, envVars>>
    /\ Unlocked

\* The start of processMessage: the first prompt of a session object carries
\* the history of its key.  A backend that is given a context already done does
\* not start its command, and that error is not reported.
StartPrompt(s) ==
    /\ pc[s] = "fetched"
    /\ injected' = [injected EXCEPT ![s] = TRUE]
    /\ context' = IF injected[s] THEN context
                  ELSE [context EXCEPT ![s] = LoadRecentMessages(log, key[s])]
    /\ \/ /\ CtxDone(s)
          /\ pc' = [pc EXCEPT ![s] = "select"]
          /\ cur' = [cur EXCEPT ![s] = None]
       \/ /\ ~CtxDone(s)
          /\ pc' = [pc EXCEPT ![s] = "prompt"]
          /\ UNCHANGED cur
    /\ UNCHANGED <<seen, managerVars, objectVars, queue, buf, sending, erasing,
                   messageVars, storeVars, envVars>>

\* Backend.Prompt streams text: it stays in the buffer or, past the threshold,
\* a segment of it goes to the user.
StreamChunk(s) ==
    /\ pc[s] = "prompt"
    /\ \/ /\ buf[s] = "empty"
          /\ buf' = [buf EXCEPT ![s] = "held"]
          /\ UNCHANGED replied
       \/ /\ buf[s] # "sent"
          /\ buf' = [buf EXCEPT ![s] = "sent"]
          /\ Reply(cur[s], "text")
    /\ UNCHANGED <<seen, managerVars, objectVars, queue, pc, cur, injected, context,
                   sending, erasing, to, enqueuedAt, storeVars, envVars>>

\* What reaches the user when Prompt returns a result: the buffered text, and
\* a notice for two of the stop reasons.
FinalReplies(s, stop) ==
    (IF buf[s] = "held" THEN {"text"} ELSE {})
        \cup ({stop} \cap {"cancelled", "refusal"})

\* Backend.Prompt returns a result.  Claude's child may say "cancelled" itself,
\* under a context that is alive.
PromptReturns(s, stop) ==
    /\ pc[s] = "prompt"
    /\ replied' = [replied EXCEPT ![cur[s]] = @ \cup FinalReplies(s, stop)]
    /\ buf' = [buf EXCEPT ![s] = IF @ = "held" THEN "sent" ELSE @]
    /\ lastActivity' = Refreshed(s)
    /\ pc' = [pc EXCEPT ![s] = "store_user"]
    /\ UNCHANGED <<managerVars, key, agent, cancelled, queue, cur, injected,
                   context, sending, erasing, to, enqueuedAt, storeVars, envVars>>
    /\ Unlocked

\* Backend.Prompt returns an error: not reported once the context is done, and
\* nothing of the exchange is stored.
PromptFails(s) ==
    /\ pc[s] = "prompt"
    /\ IF CtxDone(s) THEN UNCHANGED replied ELSE Reply(cur[s], "error")
    /\ pc' = [pc EXCEPT ![s] = "select"]
    /\ cur' = [cur EXCEPT ![s] = None]
    /\ buf' = [buf EXCEPT ![s] = "empty"]
    /\ UNCHANGED <<seen, managerVars, objectVars, queue, injected, context, sending,
                   erasing, to, enqueuedAt, storeVars, envVars>>

StoreUser(s) ==
    /\ pc[s] = "store_user"
    /\ log' = AppendMessage(log, key[s], "user", cur[s])
    /\ pc' = [pc EXCEPT ![s] = IF buf[s] = "sent" THEN "store_reply" ELSE "touch"]
    /\ UNCHANGED <<seen, managerVars, objectVars, queue, cur, buf, injected, context,
                   sending, erasing, messageVars, rows, envVars>>

StoreReply(s) ==
    /\ pc[s] = "store_reply"
    /\ log' = AppendMessage(log, key[s], "assistant", cur[s])
    /\ pc' = [pc EXCEPT ![s] = "touch"]
    /\ UNCHANGED <<seen, managerVars, objectVars, queue, cur, buf, injected, context,
                   sending, erasing, messageVars, rows, envVars>>

Touch(s) ==
    /\ pc[s] = "touch"
    /\ rows' = UpdateActivity(rows, key[s], now)
    /\ pc' = [pc EXCEPT ![s] = "select"]
    /\ cur' = [cur EXCEPT ![s] = None]
    /\ buf' = [buf EXCEPT ![s] = "empty"]
    /\ UNCHANGED <<seen, managerVars, objectVars, queue, injected, context, sending,
                   erasing, messageVars, log, envVars>>

\* Backend.Prompt comes back, in either way.
PromptEnds(s) == (\E stop \in StopReasons : PromptReturns(s, stop)) \/ PromptFails(s)

\* What the goroutine does without waiting for an agent.
LoopStep(s) ==
    \/ Exit(s) \/ Discard(s) \/ Take(s) \/ StartPrompt(s)
    \/ StoreUser(s) \/ StoreReply(s) \/ Touch(s)

-----------------------------------------------------------------------------
(* Life cycle of the process. *)

\* NewManager and Start: the rows a previous process left active are suspended,
\* then those not touched for MaxAge are deleted with their messages.
Start ==
    LET resumed == UpdateStates(rows, ListActiveSessions(rows), "suspended")
        expired == ExpiredKeys(resumed, now)
    IN  /\ mgr = "down"
        /\ mgr' = "running"
        /\ rows' = DeleteRows(resumed, expired)
        /\ log' = DeleteLogs(log, expired)
        /\ UNCHANGED <<seen, sessions, created, objectVars, queue, loopVars, sending,
                       erasing, messageVars, envVars>>

\* Stop cancels the manager's context before it takes the lock.
StopCancel ==
    /\ mgr = "running"
    /\ mgr' = "cancelled"
    /\ UNCHANGED <<seen, sessions, created, objectVars, queue, loopVars, sending,
                   erasing, messageVars, storeVars, envVars>>

StopKill ==
    /\ mgr = "cancelled"
    /\ mgr' = "stopped"
    /\ cancelled' = CancelAll({sessions[k] : k \in Mapped(sessions)})
    /\ sessions' = [k \in Keys |-> NoSession]
    /\ UNCHANGED <<created, key, agent, lastActivity, queue, loopVars, sending,
                   erasing, messageVars, storeVars, envVars>>
    /\ Locked

\* The process ends, at a crash or after Stop: all that is left is the store.
ProcessEnds ==
    /\ Up
    /\ crashes < MaxCrashes
    /\ crashes' = crashes + 1
    /\ mgr' = "down"
    /\ sessions' = [k \in Keys |-> NoSession]
    /\ cancelled' = CancelAll(1 .. created)
    /\ queue' = [s \in Sids |-> << >>]
    /\ pc' = [s \in Sids |-> IF s <= created THEN "done" ELSE "none"]
    /\ cur' = [s \in Sids |-> None]
    /\ buf' = [s \in Sids |-> "empty"]
    /\ sending' = {}
    /\ erasing' = {}
    /\ UNCHANGED <<created, key, agent, lastActivity, injected, context,
                   messageVars, storeVars, now>>
    /\ Locked

Tick ==
    /\ now < MaxTime
    /\ now' = now + 1
    /\ UNCHANGED <<seen, managerVars, objectVars, queue, loopVars, sending, erasing,
                   messageVars, storeVars, crashes>>

-----------------------------------------------------------------------------
Caller(k) ==
    \/ \E m \in Msgs : EnqueueExisting(k, m)
    \/ \E m \in Msgs, a \in Registry : EnqueueNew(k, m, a)
    \/ \E m \in Msgs, a \in Agents \ Registry : EnqueueUnknown(k, m, a)
    \/ \E a \in Registry : SwitchAgent(k, a)
    \/ CancelSession(k) \/ RemoveSession(k) \/ EraseMessages(k)

Consumer(s) == LoopStep(s) \/ StreamChunk(s) \/ PromptEnds(s)

Next ==
    \/ \E k \in Keys : Caller(k)
    \/ \E s \in Sids, m \in Msgs : Send(s, m)
    \/ \E s \in Sids : Consumer(s)
    \/ CleanupIdle \/ Start \/ StopCancel \/ StopKill \/ ProcessEnds \/ Tick

Spec == Init /\ [][Next]_vars

\* Goroutines that can run do run.  Nothing is assumed of the users, of the
\* clock, of crashes, nor of an agent as long as its context is alive: an agent
\* whose context is done has been killed, and Prompt returns.
Fairness ==
    /\ \A s \in Sids : /\ WF_vars(LoopStep(s))
                       /\ WF_vars(CtxDone(s) /\ PromptEnds(s))
    /\ \A s \in Sids, m \in Msgs : WF_vars(Send(s, m))
    /\ \A k \in Keys : WF_vars(EraseMessages(k))
    /\ WF_vars(StopKill)

-----------------------------------------------------------------------------
(* Safety. *)

\* Every variable stays in its type, every queue within its channel's capacity.
ManagerTypeOK ==
    /\ mgr \in {"down", "running", "cancelled", "stopped"}
    /\ sessions \in [Keys -> Sids \cup {NoSession}]
    /\ created \in 0 .. MaxSessions

ObjectTypeOK ==
    /\ key \in [Sids -> Keys \cup {None}]
    /\ agent \in [Sids -> Registry \cup {None}]
    /\ cancelled \in [Sids -> BOOLEAN]
    /\ lastActivity \in [Sids -> 0 .. MaxTime]

QueueTypeOK ==
    /\ queue \in [Sids -> Seq(Msgs)]
    /\ \A s \in Sids : Len(queue[s]) <= QueueSize

LoopTypeOK ==
    /\ pc \in [Sids -> PcValues]
    /\ cur \in [Sids -> Msgs \cup {None}]
    /\ buf \in [Sids -> {"empty", "held", "sent"}]
    /\ injected \in [Sids -> BOOLEAN]
    /\ context \in [Sids -> Seq(Entries)]

CallerTypeOK ==
    /\ sending \in SUBSET (Sids \X Msgs)
    /\ erasing \in SUBSET Keys

MessageTypeOK ==
    /\ to \in [Msgs -> Keys \cup {None}]
    /\ enqueuedAt \in [Msgs -> 0 .. MaxTime]
    /\ replied \in [Msgs -> SUBSET ReplyKinds]

EnvTypeOK ==
    /\ now \in 0 .. MaxTime
    /\ crashes \in 0 .. MaxCrashes

StateTypeOK ==
    /\ ManagerTypeOK /\ ObjectTypeOK /\ QueueTypeOK /\ LoopTypeOK
    /\ CallerTypeOK /\ MessageTypeOK /\ StoreTypeOK(rows, log) /\ EnvTypeOK

SeenTypeOK == seen \in [Keys -> SUBSET [idle : BOOLEAN, activity : 0 .. MaxTime]]

TypeOK == StateTypeOK /\ SeenTypeOK

Running(s) == pc[s] \notin {"none", "done"}

\* Objects are created in order; what has not been created owns nothing, is not
\* in the map and nobody is about to send to it.
CreatedInOrder ==
    /\ \A s \in Sids :
        /\ pc[s] = "none" <=> s > created
        /\ s <= created => key[s] \in Keys
        /\ s > created => queue[s] = << >> /\ context[s] = << >>
    /\ \A sm \in sending : sm[1] <= created
    /\ \A k \in Keys : sessions[k] <= created

Working == {"fetched", "prompt", "store_user", "store_reply", "touch"}

\* A goroutine holds a message exactly while it processes one.
WorkingOnMessage == \A s \in Sids : cur[s] # None <=> pc[s] \in Working

\* The map never names a session nobody serves: the object of an entry carries
\* the entry's key, its goroutine is running and its context was not cancelled.
\* Every place that cancels a session must delete its entry in the same section.
MappedIsLive ==
    \A k \in Keys : sessions[k] # NoSession =>
        LET s == sessions[k]
        IN  key[s] = k /\ Running(s) /\ ~cancelled[s]

\* The row of a user who has a session says so and names the session's agent,
\* whatever was suspended, evicted or restarted before it.
MappedIsStoredActive ==
    \A k \in Keys : sessions[k] # NoSession =>
        /\ rows[k].state = "active"
        /\ rows[k].agent = agent[sessions[k]]

\* What a session sends, waits for, works on, was primed with or has stored
\* concerns the user of its key only.
OwnEntries(seq, k) == \A i \in DOMAIN seq : to[seq[i].msg] = k

UsersIsolated ==
    /\ \A sm \in sending : to[sm[2]] = key[sm[1]]
    /\ \A s \in Sids :
        /\ \A i \in DOMAIN queue[s] : to[queue[s][i]] = key[s]
        /\ cur[s] # None => to[cur[s]] = key[s]
        /\ OwnEntries(context[s], key[s])
    /\ \A k \in Keys : OwnEntries(log[k], k)

\* A message the user was told to send again ("busy", "timeout") had no other
\* reply, and no trace of it is in a history or was shown to an agent.
Mentions(seq, m) == \E i \in DOMAIN seq : seq[i].msg = m

RejectedLeavesNoTrace ==
    \A m \in Msgs : replied[m] \cap {"busy", "timeout"} # {} =>
        /\ Cardinality(replied[m]) = 1
        /\ \A s \in Sids : cur[s] # m /\ ~Mentions(context[s], m)
        /\ \A k \in Keys : ~Mentions(log[k], m)

\* UserSession is "a single active session": a goroutine that nothing told to
\* stop serves the object in the map.  Violated: Exit deletes by key, so the
\* late exit of a replaced session drops the entry of its replacement, which
\* then runs on where no command can reach it.
NoOrphan ==
    \A s \in Sids : Running(s) /\ ~CtxDone(s) => sessions[key[s]] = s

-----------------------------------------------------------------------------
(* Action properties. *)

OwnerCommand(k) ==
    CancelSession(k) \/ RemoveSession(k) \/ \E a \in Registry : SwitchAgent(k, a)

\* What the session of k was at some moment, and all the time, since the
\* section that is about to end took m.mu.
SeenIdle(k) == \E r \in seen[k] : r.idle
SeenBusy(k) == \E r \in seen[k] : ~r.idle
TouchedMeanwhile == \E k \in Keys : \E r, t \in seen[k] : r.activity # t.activity

\* While the manager runs, a session with messages in its queue is cancelled by
\* a command on its own key; or to make room, if its queue was still empty when
\* the section looked at it; or as idle, if these messages have been on their
\* way from the locked part of Enqueue to the channel for all of IdleTimeout.
PendingSparedFromOthers ==
    [][\A s \in Sids :
        (/\ queue[s] # << >> /\ ~cancelled[s] /\ cancelled'[s]
         /\ mgr' = "running") =>
            \/ OwnerCommand(key[s])
            \/ /\ SeenIdle(key[s])
               /\ \/ created' # created \/ to' # to
                  \/ \A i \in DOMAIN queue[s] :
                        now - enqueuedAt[queue[s][i]] > IdleTimeout]_vars

\* The map grows beyond MaxConcurrent only past sessions each of which had
\* messages waiting when it was looked at; not all of them need have at once.
OverLimitOnlyWhenAllBusy ==
    [][(/\ Cardinality(Mapped(sessions')) > Cardinality(Mapped(sessions))
        /\ Cardinality(Mapped(sessions')) > MaxConcurrent)
       => \A k \in Mapped(sessions) : SeenBusy(k)]_vars

\* The session another user's arrival ends is one that had gone longest without
\* activity among those whose queue was empty all the time, unless a prompt came
\* back while the sessions were compared.
EvictsLeastRecent ==
    [][(created' # created /\ ~TouchedMeanwhile) =>
        \A j \in Mapped(sessions) \ {key'[created']} :
            sessions'[j] = NoSession =>
                \A i \in Mapped(sessions) \ {key'[created']} :
                    \/ SeenBusy(i)
                    \/ lastActivity[sessions[j]] <= lastActivity[sessions[i]]]_vars

\* Stored history is lost by an erasure of its key or by expiry at a start, of
\* a row nobody touched for MaxAge: never by a crash or another user's command.
HistoryDurable ==
    [][\A k \in Keys : Len(log'[k]) < Len(log[k]) =>
        \/ k \in erasing
        \/ mgr = "down" /\ now - rows[k].lastActivity > MaxAge]_vars

-----------------------------------------------------------------------------
(* Liveness, under Fairness. *)

\* A goroutine whose context is done ends.
CancelledExits ==
    \A s \in Sids : (Running(s) /\ CtxDone(s)) ~> pc[s] = "done"

\* After Stop no consumer is left, even one created by a call that raced it.
StopQuiesces ==
    (mgr = "cancelled") ~> (mgr # "running" /\ \A s \in Sids : ~Running(s))

Waiting(m) == \E s \in Sids : Running(s) /\ \E i \in DOMAIN queue[s] : queue[s][i] = m

\* Provided agents answer, no message waits for ever behind another: it is
\* taken, expires, or its session ends.
QueueDrains ==
    (\A s \in Sids : (pc[s] = "prompt") ~> (pc[s] # "prompt"))
        => \A m \in Msgs : Waiting(m) ~> ~Waiting(m)

-----------------------------------------------------------------------------
(* The manager implements MessageLife. *)

StageOf(m) ==
    CASE to[m] = None -> "new"
      [] \E s \in Sids : <<s, m>> \in sending -> "offered"
      [] \E s \in Sids : \E i \in DOMAIN queue[s] : queue[s][i] = m -> "queued"
      [] \E s \in Sids : cur[s] = m /\ pc[s] \in {"fetched", "prompt"} -> "working"
      [] OTHER -> "settled"

Life == INSTANCE MessageLife WITH stage <- [m \in Msgs |-> StageOf(m)]

\* A message is offered, waits and is prompted at most once, and the replies to
\* it are those of MessageLife.
ImplementsLife == Life!LifeSpec
=============================================================================
