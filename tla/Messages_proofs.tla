-------------------------- MODULE Messages_proofs ---------------------------
(***************************************************************************)
(* What happens to the messages, for every value of SessionManager's       *)
(* constants: none reaches the session of another user (UsersIsolated),    *)
(* one that was rejected leaves no trace (RejectedLeavesNoTrace), each of  *)
(* them lives as MessageLife says (ImplementsLife), and those that wait    *)
(* are taken away from their session only as PendingSparedFromOthers says: *)
(* a message that a session holds arrived no later than its last activity  *)
(* (ActiveSince), nor than any reading of it (ReadingsSince).              *)
(***************************************************************************)
EXTENDS SessionManager_proofs

-----------------------------------------------------------------------------
(* Users are isolated. *)

(* The parts of UsersIsolated, as functions of the message owners t and of *)
(* the session keys ky.                                                    *)

SendingOwned(sd, t, ky) == \A sm \in sd : t[sm[2]] = ky[sm[1]]

QueuesOwned(qs, t, ky) ==
    \A s \in Sids : \A i \in DOMAIN qs[s] : t[qs[s][i]] = ky[s]

WorkOwned(c, t, ky) == \A s \in Sids : c[s] # None => t[c[s]] = ky[s]

ContextsOwned(cx, t, ky) ==
    \A s \in Sids : \A i \in DOMAIN cx[s] : t[cx[s][i].msg] = ky[s]

LogsOwned(lg, t) == \A k \in Keys : \A i \in DOMAIN lg[k] : t[lg[k][i].msg] = k

AllOwned(sd, qs, c, cx, lg, t, ky) ==
    /\ SendingOwned(sd, t, ky)
    /\ QueuesOwned(qs, t, ky)
    /\ WorkOwned(c, t, ky)
    /\ ContextsOwned(cx, t, ky)
    /\ LogsOwned(lg, t)

LEMMA IsolatedIsOwned ==
    UsersIsolated <=> AllOwned(sending, queue, cur, context, log, to, key)
BY DEF UsersIsolated, OwnEntries, AllOwned, SendingOwned, QueuesOwned,
       WorkOwned, ContextsOwned, LogsOwned

\* Ownership survives a step that only gives an owner to a message that had
\* none, and a key to an object that did not exist.
LEMMA OwnersKept ==
    ASSUME TypeInv, UsersIsolated,
           \A m \in Msgs : to[m] # None => to'[m] = to[m],
           \A s \in Sids : s <= created => key'[s] = key[s]
    PROVE  AllOwned(sending, queue, cur, context, log, to', key')
<1> USE DEF TypeInv
<1>1. AllOwned(sending, queue, cur, context, log, to, key)
    BY IsolatedIsOwned
<1>2. \A s \in Sids : s <= created => key[s] \in Keys /\ key[s] # None
    BY NoneAssumption DEF CreatedInOrder
<1>3. SendingOwned(sending, to', key')
    <2> SUFFICES ASSUME NEW sm \in sending PROVE to'[sm[2]] = key'[sm[1]]
        BY DEF SendingOwned
    <2>1. sm[1] \in Sids /\ sm[2] \in Msgs /\ sm[1] <= created
        BY DEF StateTypeOK, CallerTypeOK, CreatedInOrder
    <2>2. to[sm[2]] = key[sm[1]]
        BY <1>1 DEF AllOwned, SendingOwned
    <2>3. QED
        BY <1>2, <2>1, <2>2
<1>4. QueuesOwned(queue, to', key')
    <2> SUFFICES ASSUME NEW s \in Sids, NEW i \in DOMAIN queue[s]
                 PROVE  to'[queue[s][i]] = key'[s]
        BY DEF QueuesOwned
    <2>1. queue[s] \in Seq(Msgs)
        BY DEF StateTypeOK, QueueTypeOK
    <2>2. queue[s][i] \in Msgs
        BY <2>1, ElementOfSeq, LenProperties
    <2>3. s <= created
        BY EmptySeq, BoundsAssumption
        DEF CreatedInOrder, StateTypeOK, ManagerTypeOK, Sids
    <2>4. to[queue[s][i]] = key[s]
        BY <1>1 DEF AllOwned, QueuesOwned
    <2>5. QED
        BY <1>2, <2>2, <2>3, <2>4
<1>5. WorkOwned(cur, to', key')
    <2> SUFFICES ASSUME NEW s \in Sids, cur[s] # None
                 PROVE  to'[cur[s]] = key'[s]
        BY DEF WorkOwned
    <2>1. key[s] \in Keys /\ cur[s] \in Msgs
        BY WorkingFacts DEF WorkingOnMessage
    <2>2. s <= created
        BY BoundsAssumption
        DEF WorkingOnMessage, Working, CreatedInOrder, StateTypeOK, ManagerTypeOK, Sids
    <2>3. to[cur[s]] = key[s]
        BY <1>1 DEF AllOwned, WorkOwned
    <2>4. QED
        BY <1>2, <2>1, <2>2, <2>3
<1>6. ContextsOwned(context, to', key')
    <2> SUFFICES ASSUME NEW s \in Sids, NEW i \in DOMAIN context[s]
                 PROVE  to'[context[s][i].msg] = key'[s]
        BY DEF ContextsOwned
    <2>1. context[s] \in Seq(Entries)
        BY DEF StateTypeOK, LoopTypeOK
    <2>2. context[s][i] \in Entries
        BY <2>1, ElementOfSeq, LenProperties
    <2>3. s <= created
        BY EmptySeq, BoundsAssumption
        DEF CreatedInOrder, StateTypeOK, ManagerTypeOK, Sids
    <2>4. to[context[s][i].msg] = key[s]
        BY <1>1 DEF AllOwned, ContextsOwned
    <2>5. QED
        BY <1>2, <2>2, <2>3, <2>4 DEF Entries
<1>7. LogsOwned(log, to')
    <2> SUFFICES ASSUME NEW k \in Keys, NEW i \in DOMAIN log[k]
                 PROVE  to'[log[k][i].msg] = k
        BY DEF LogsOwned
    <2>1. log[k] \in Seq(Entries)
        BY DEF StateTypeOK, StoreTypeOK
    <2>2. log[k][i] \in Entries
        BY <2>1, ElementOfSeq, LenProperties
    <2>3. to[log[k][i].msg] = k
        BY <1>1 DEF AllOwned, LogsOwned
    <2>4. QED
        BY <2>2, <2>3, NoneAssumption DEF Entries
<1>8. QED
    BY <1>3, <1>4, <1>5, <1>6, <1>7 DEF AllOwned

\* A message handler that arrives takes a message nobody owns.
LEMMA ArrivesOwner ==
    ASSUME TypeInv, NEW k \in Keys, NEW m \in Msgs, Arrives(k, m)
    PROVE  to'[m] = k /\ \A n \in Msgs : to[n] # None => to'[n] = to[n]
BY DEF Arrives, TypeInv, StateTypeOK, MessageTypeOK

\* A user's log stays the user's when one of the user's messages is appended.
LEMMA AppendOwned ==
    ASSUME NEW lg \in [Keys -> Seq(Entries)], NEW t, LogsOwned(lg, t),
           NEW k \in Keys, NEW role \in Roles, NEW m \in Msgs, t[m] = k
    PROVE  LogsOwned(AppendMessage(lg, k, role, m), t)
<1> DEFINE e == [role |-> role, msg |-> m]
           lg2 == AppendMessage(lg, k, role, m)
<1> SUFFICES ASSUME NEW j \in Keys, NEW i \in DOMAIN lg2[j]
             PROVE  t[lg2[j][i].msg] = j
    BY DEF LogsOwned
<1>1. CASE j # k
    BY <1>1 DEF LogsOwned, AppendMessage
<1>2. CASE j = k
    <2>1. lg2[k] = Append(lg[k], e) /\ e \in Entries
        BY DEF AppendMessage, Entries
    <2>2. /\ DOMAIN lg2[k] = 1 .. Len(lg[k]) + 1
          /\ \A n \in 1 .. Len(lg[k]) : lg2[k][n] = lg[k][n]
          /\ lg2[k][Len(lg[k]) + 1] = e
        BY <2>1, AppendProperties, LenProperties
    <2>3. CASE i = Len(lg[k]) + 1
        BY <1>2, <2>2, <2>3
    <2>4. CASE i # Len(lg[k]) + 1
        <3>1. i \in DOMAIN lg[k] /\ lg2[j][i] = lg[k][i]
            BY <1>2, <2>2, <2>4, LenProperties
        <3>2. QED
            BY <1>2, <3>1 DEF LogsOwned
    <2>5. QED
        BY <2>3, <2>4
<1>3. QED
    BY <1>1, <1>2

\* Create gives its key to the new object and to no other.
LEMMA CreateKey ==
    ASSUME TypeInv, NEW k \in Keys, NEW a, NEW map, NEW dead, Create(k, a, map, dead)
    PROVE  /\ key'[created + 1] = k
           /\ \A s \in Sids : s <= created => key'[s] = key[s]
BY BoundsAssumption
   DEF Create, Sids, TypeInv, StateTypeOK, ObjectTypeOK, ManagerTypeOK

LEMMA NextIsolated ==
    TypeInv /\ MapInv /\ UsersIsolated /\ [Next]_vars => UsersIsolated'
<1> SUFFICES ASSUME TypeInv, MapInv, UsersIsolated, [Next]_vars
             PROVE  AllOwned(sending, queue, cur, context, log, to, key)'
    BY IsolatedIsOwned, PTL
<1> USE DEF managerVars, objectVars, loopVars, messageVars, storeVars, envVars
<1> USE DEF AllOwned
<1>1. ASSUME NEW k \in Keys, NEW m \in Msgs, EnqueueExisting(k, m)
      PROVE  AllOwned(sending, queue, cur, context, log, to, key)'
    <2>1. AllOwned(sending, queue, cur, context, log, to', key')
        BY <1>1, OwnersKept, ArrivesOwner DEF EnqueueExisting
    <2>2. to'[m] = k
        BY <1>1, ArrivesOwner DEF EnqueueExisting
    <2>3. key'[sessions[k]] = k
        BY <1>1, MappedFacts DEF EnqueueExisting
    <2>4. SendingOwned(sending', to', key')
        BY <1>1, <2>1, <2>2, <2>3 DEF EnqueueExisting, SendingOwned
    <2>5. QED
        BY <1>1, <2>1, <2>4 DEF EnqueueExisting
<1>2. ASSUME NEW k \in Keys, NEW m \in Msgs, NEW a \in Registry, EnqueueNew(k, m, a)
      PROVE  AllOwned(sending, queue, cur, context, log, to, key)'
    <2>1. key'[created + 1] = k /\ \A s \in Sids : s <= created => key'[s] = key[s]
        BY <1>2, CreateKey DEF EnqueueNew
    <2>2. to'[m] = k /\ \A j \in Msgs : to[j] # None => to'[j] = to[j]
        BY <1>2, ArrivesOwner DEF EnqueueNew
    <2>3. AllOwned(sending, queue, cur, context, log, to', key')
        BY <2>1, <2>2, OwnersKept
    <2>4. SendingOwned(sending', to', key')
        BY <1>2, <2>1, <2>2, <2>3 DEF EnqueueNew, SendingOwned
    <2>5. QED
        BY <1>2, <2>3, <2>4 DEF EnqueueNew
<1>3. ASSUME NEW k \in Keys, NEW m \in Msgs, NEW a \in Agents \ Registry,
             EnqueueUnknown(k, m, a)
      PROVE  AllOwned(sending, queue, cur, context, log, to, key)'
    <2>1. AllOwned(sending, queue, cur, context, log, to', key')
        BY <1>3, OwnersKept, ArrivesOwner DEF EnqueueUnknown
    <2>2. QED
        BY <1>3, <2>1 DEF EnqueueUnknown
<1>4. ASSUME NEW k \in Keys, NEW a \in Registry, SwitchAgent(k, a)
      PROVE  AllOwned(sending, queue, cur, context, log, to, key)'
    <2>1. \A s \in Sids : s <= created => key'[s] = key[s]
        BY <1>4, CreateKey DEF SwitchAgent
    <2>2. AllOwned(sending, queue, cur, context, log, to', key')
        BY <1>4, <2>1, OwnersKept DEF SwitchAgent
    <2>3. QED
        BY <1>4, <2>2 DEF SwitchAgent
<1>5. ASSUME NEW k \in Keys, CancelSession(k)
      PROVE  AllOwned(sending, queue, cur, context, log, to, key)'
    <2>1. AllOwned(sending, queue, cur, context, log, to', key')
        BY <1>5, OwnersKept DEF CancelSession
    <2>2. QueuesOwned(queue', to', key')
        <3>1. DOMAIN << >> = {}
            BY EmptySeq
        <3>2. QED
            BY <1>5, <2>1, <3>1
            DEF CancelSession, QueuesOwned, TypeInv, StateTypeOK, QueueTypeOK
    <2>9. QED
        BY <1>5, <2>1, <2>2 DEF CancelSession
<1>6. ASSUME NEW k \in Keys, RemoveSession(k)
      PROVE  AllOwned(sending, queue, cur, context, log, to, key)'
    <2>1. AllOwned(sending, queue, cur, context, log, to', key')
        BY <1>6, OwnersKept DEF RemoveSession
    <2>2. QED
        BY <1>6, <2>1 DEF RemoveSession
<1>7. ASSUME NEW k \in Keys, EraseMessages(k)
      PROVE  AllOwned(sending, queue, cur, context, log, to, key)'
    <2>1. AllOwned(sending, queue, cur, context, log, to', key')
        BY <1>7, OwnersKept DEF EraseMessages
    <2>2. LogsOwned(log', to')
        <3>1. DOMAIN << >> = {}
            BY EmptySeq
        <3>2. QED
            BY <1>7, <2>1, <3>1
            DEF EraseMessages, DeleteMessages, LogsOwned, TypeInv, StateTypeOK, StoreTypeOK
    <2>9. QED
        BY <1>7, <2>1, <2>2 DEF EraseMessages
<1>8. ASSUME NEW s \in Sids, NEW m \in Msgs, Send(s, m)
      PROVE  AllOwned(sending, queue, cur, context, log, to, key)'
    <2>1. AllOwned(sending, queue, cur, context, log, to', key')
        BY <1>8, OwnersKept DEF Send
    <2>2. SendingOwned(sending', to', key')
        BY <1>8, <2>1 DEF Send, SendingOwned
    <2>3. to'[m] = key'[s]
        BY <1>8, <2>1 DEF Send, SendingOwned
    <2>4. QueuesOwned(queue', to', key')
        <3>1. CASE UNCHANGED queue
            BY <2>1, <3>1
        <3>2. CASE Accept(s, m)
            <4>1. queue' = [queue EXCEPT ![s] = Append(queue[s], m)]
                BY <3>2 DEF Accept
            <4>2. queue \in [Sids -> Seq(Msgs)]
                BY DEF TypeInv, StateTypeOK, QueueTypeOK
            <4>3. /\ DOMAIN Append(queue[s], m) = 1 .. Len(queue[s]) + 1
                  /\ \A i \in 1 .. Len(queue[s]) : Append(queue[s], m)[i] = queue[s][i]
                  /\ Append(queue[s], m)[Len(queue[s]) + 1] = m
                  /\ DOMAIN queue[s] = 1 .. Len(queue[s]) /\ Len(queue[s]) \in Nat
                BY <4>2, AppendProperties, LenProperties
            <4>4. \A i \in DOMAIN queue'[s] : to'[queue'[s][i]] = key'[s]
                <5>1. queue'[s] = Append(queue[s], m)
                    BY <4>1, <4>2
                <5>2. \A i \in DOMAIN queue[s] : to'[queue[s][i]] = key'[s]
                    BY <2>1, <2>3 DEF QueuesOwned
                <5>3. \A i \in 1 .. Len(queue[s]) + 1 :
                          to'[Append(queue[s], m)[i]] = key'[s]
                    BY <2>1, <2>3, <4>3, <5>2
                <5>4. QED
                    BY <4>3, <5>1, <5>3
            <4>5. \A r \in Sids \ {s} : queue'[r] = queue[r]
                BY <4>1, <4>2
            <4>6. QED
                BY <2>1, <4>4, <4>5 DEF QueuesOwned
        <3>3. QED
            BY <1>8, <3>1, <3>2 DEF Send, TurnAway, ShutOut
    <2>9. QED
        BY <1>8, <2>1, <2>2, <2>4 DEF Send
<1>9. ASSUME CleanupIdle
      PROVE  AllOwned(sending, queue, cur, context, log, to, key)'
    <2>1. AllOwned(sending, queue, cur, context, log, to', key')
        BY <1>9, OwnersKept DEF CleanupIdle
    <2>2. QED
        BY <1>9, <2>1 DEF CleanupIdle
<1>10. ASSUME NEW s \in Sids, Exit(s)
      PROVE  AllOwned(sending, queue, cur, context, log, to, key)'
    <2>1. AllOwned(sending, queue, cur, context, log, to', key')
        BY <1>10, OwnersKept DEF Exit
    <2>2. QED
        BY <1>10, <2>1 DEF Exit
<1>11. ASSUME NEW s \in Sids, Discard(s)
      PROVE  AllOwned(sending, queue, cur, context, log, to, key)'
    <2>1. AllOwned(sending, queue, cur, context, log, to', key')
        BY <1>11, OwnersKept DEF Discard
    <2>2. /\ queue \in [Sids -> Seq(Msgs)] /\ queue[s] # << >>
          /\ queue' = [queue EXCEPT ![s] = Tail(queue[s])]
        BY <1>11 DEF Discard, CanTake, TypeInv, StateTypeOK, QueueTypeOK
    <2>3. /\ DOMAIN queue[s] = 1 .. Len(queue[s]) /\ Len(queue[s]) \in Nat \ {0}
          /\ Head(queue[s]) = queue[s][1]
          /\ DOMAIN Tail(queue[s]) = 1 .. Len(queue[s]) - 1
          /\ \A i \in 1 .. Len(queue[s]) - 1 : Tail(queue[s])[i] = queue[s][i + 1]
        BY <2>2, HeadTailProperties, LenProperties, EmptySeq
    <2>4. QueuesOwned(queue', to', key')
        <3>1. \A i \in DOMAIN queue'[s] : to'[queue'[s][i]] = key'[s]
            BY <2>1, <2>2, <2>3 DEF QueuesOwned
        <3>2. \A r \in Sids \ {s} : queue'[r] = queue[r]
            BY <2>2
        <3>3. QED
            BY <2>1, <3>1, <3>2 DEF QueuesOwned
    <2>9. QED
        BY <1>11, <2>1, <2>4 DEF Discard
<1>12. ASSUME NEW s \in Sids, Take(s)
      PROVE  AllOwned(sending, queue, cur, context, log, to, key)'
    <2>1. AllOwned(sending, queue, cur, context, log, to', key')
        BY <1>12, OwnersKept DEF Take
    <2>2. /\ queue \in [Sids -> Seq(Msgs)] /\ queue[s] # << >>
          /\ queue' = [queue EXCEPT ![s] = Tail(queue[s])]
        BY <1>12 DEF Take, CanTake, TypeInv, StateTypeOK, QueueTypeOK
    <2>3. /\ DOMAIN queue[s] = 1 .. Len(queue[s]) /\ Len(queue[s]) \in Nat \ {0}
          /\ Head(queue[s]) = queue[s][1]
          /\ DOMAIN Tail(queue[s]) = 1 .. Len(queue[s]) - 1
          /\ \A i \in 1 .. Len(queue[s]) - 1 : Tail(queue[s])[i] = queue[s][i + 1]
        BY <2>2, HeadTailProperties, LenProperties, EmptySeq
    <2>4. QueuesOwned(queue', to', key')
        <3>1. \A i \in DOMAIN queue'[s] : to'[queue'[s][i]] = key'[s]
            BY <2>1, <2>2, <2>3 DEF QueuesOwned
        <3>2. \A r \in Sids \ {s} : queue'[r] = queue[r]
            BY <2>2
        <3>3. QED
            BY <2>1, <3>1, <3>2 DEF QueuesOwned
    <2>5. to'[Head(queue[s])] = key'[s]
        BY <2>1, <2>3 DEF QueuesOwned
    <2>6. WorkOwned(cur', to', key')
        BY <1>12, <2>1, <2>5 DEF Take, WorkOwned, TypeInv, StateTypeOK, LoopTypeOK
    <2>9. QED
        BY <1>12, <2>1, <2>4, <2>6 DEF Take
<1>13. ASSUME NEW s \in Sids, StartPrompt(s)
      PROVE  AllOwned(sending, queue, cur, context, log, to, key)'
    <2>1. AllOwned(sending, queue, cur, context, log, to', key')
        BY <1>13, OwnersKept DEF StartPrompt
    <2>2. WorkOwned(cur', to', key')
        BY <1>13, <2>1 DEF StartPrompt, WorkOwned, TypeInv, StateTypeOK, LoopTypeOK
    <2>3. ContextsOwned(context', to', key')
        <3>1. CASE UNCHANGED context
            BY <2>1, <3>1
        <3>2. CASE context' = [context EXCEPT ![s] = LoadRecentMessages(log, key[s])]
            <4>1. key[s] \in Keys /\ key' = key
                BY <1>13, WorkingFacts DEF StartPrompt, Working
            <4>2. \A i \in DOMAIN LoadRecentMessages(log, key[s]) :
                     \E j \in DOMAIN log[key[s]] :
                        LoadRecentMessages(log, key[s])[i] = log[key[s]][j]
                BY <4>1, LoadRecentOwn DEF TypeInv, StateTypeOK, StoreTypeOK
            <4>3. \A i \in DOMAIN LoadRecentMessages(log, key[s]) :
                     to'[LoadRecentMessages(log, key[s])[i].msg] = key'[s]
                BY <2>1, <4>1, <4>2 DEF LogsOwned
            <4>4. QED
                BY <2>1, <3>2, <4>3 DEF ContextsOwned, TypeInv, StateTypeOK, LoopTypeOK
        <3>3. QED
            BY <1>13, <3>1, <3>2 DEF StartPrompt
    <2>9. QED
        BY <1>13, <2>1, <2>2, <2>3 DEF StartPrompt
<1>14. ASSUME NEW s \in Sids, StreamChunk(s)
      PROVE  AllOwned(sending, queue, cur, context, log, to, key)'
    <2>1. AllOwned(sending, queue, cur, context, log, to', key')
        BY <1>14, OwnersKept DEF StreamChunk
    <2>2. QED
        BY <1>14, <2>1 DEF StreamChunk
<1>15. ASSUME NEW s \in Sids, NEW stop \in StopReasons, PromptReturns(s, stop)
      PROVE  AllOwned(sending, queue, cur, context, log, to, key)'
    <2>1. AllOwned(sending, queue, cur, context, log, to', key')
        BY <1>15, OwnersKept DEF PromptReturns
    <2>2. QED
        BY <1>15, <2>1 DEF PromptReturns
<1>16. ASSUME NEW s \in Sids, PromptFails(s)
      PROVE  AllOwned(sending, queue, cur, context, log, to, key)'
    <2>1. AllOwned(sending, queue, cur, context, log, to', key')
        BY <1>16, OwnersKept DEF PromptFails
    <2>2. WorkOwned(cur', to', key')
        BY <1>16, <2>1 DEF PromptFails, WorkOwned, TypeInv, StateTypeOK, LoopTypeOK
    <2>9. QED
        BY <1>16, <2>1, <2>2 DEF PromptFails
<1>17. ASSUME NEW s \in Sids, StoreUser(s)
      PROVE  AllOwned(sending, queue, cur, context, log, to, key)'
    <2>1. AllOwned(sending, queue, cur, context, log, to', key')
        BY <1>17, OwnersKept DEF StoreUser
    <2>2. key[s] \in Keys /\ cur[s] \in Msgs /\ cur[s] # None /\ key' = key
        BY <1>17, WorkingFacts, NoneAssumption DEF StoreUser, Working
    <2>3. to'[cur[s]] = key[s]
        BY <2>1, <2>2 DEF WorkOwned
    <2>4. "user" \in Roles /\ log \in [Keys -> Seq(Entries)]
        BY DEF Roles, TypeInv, StateTypeOK, StoreTypeOK
    <2>5. LogsOwned(log', to')
        BY <1>17, <2>1, <2>2, <2>3, <2>4, AppendOwned DEF StoreUser
    <2>9. QED
        BY <1>17, <2>1, <2>5 DEF StoreUser
<1>18. ASSUME NEW s \in Sids, StoreReply(s)
      PROVE  AllOwned(sending, queue, cur, context, log, to, key)'
    <2>1. AllOwned(sending, queue, cur, context, log, to', key')
        BY <1>18, OwnersKept DEF StoreReply
    <2>2. key[s] \in Keys /\ cur[s] \in Msgs /\ cur[s] # None /\ key' = key
        BY <1>18, WorkingFacts, NoneAssumption DEF StoreReply, Working
    <2>3. to'[cur[s]] = key[s]
        BY <2>1, <2>2 DEF WorkOwned
    <2>4. "assistant" \in Roles /\ log \in [Keys -> Seq(Entries)]
        BY DEF Roles, TypeInv, StateTypeOK, StoreTypeOK
    <2>5. LogsOwned(log', to')
        BY <1>18, <2>1, <2>2, <2>3, <2>4, AppendOwned DEF StoreReply
    <2>9. QED
        BY <1>18, <2>1, <2>5 DEF StoreReply
<1>19. ASSUME NEW s \in Sids, Touch(s)
      PROVE  AllOwned(sending, queue, cur, context, log, to, key)'
    <2>1. AllOwned(sending, queue, cur, context, log, to', key')
        BY <1>19, OwnersKept DEF Touch
    <2>2. WorkOwned(cur', to', key')
        BY <1>19, <2>1 DEF Touch, WorkOwned, TypeInv, StateTypeOK, LoopTypeOK
    <2>9. QED
        BY <1>19, <2>1, <2>2 DEF Touch
<1>20. ASSUME Start
      PROVE  AllOwned(sending, queue, cur, context, log, to, key)'
    <2>1. AllOwned(sending, queue, cur, context, log, to', key')
        BY <1>20, OwnersKept DEF Start
    <2>2. LogsOwned(log', to')
        <3>1. DOMAIN << >> = {}
            BY EmptySeq
        <3>2. QED
            BY <1>20, <2>1, <3>1 DEF Start, DeleteLogs, LogsOwned
    <2>9. QED
        BY <1>20, <2>1, <2>2 DEF Start
<1>21. ASSUME StopCancel
      PROVE  AllOwned(sending, queue, cur, context, log, to, key)'
    <2>1. AllOwned(sending, queue, cur, context, log, to', key')
        BY <1>21, OwnersKept DEF StopCancel
    <2>2. QED
        BY <1>21, <2>1 DEF StopCancel
<1>22. ASSUME StopKill
      PROVE  AllOwned(sending, queue, cur, context, log, to, key)'
    <2>1. AllOwned(sending, queue, cur, context, log, to', key')
        BY <1>22, OwnersKept DEF StopKill
    <2>2. QED
        BY <1>22, <2>1 DEF StopKill
<1>23. ASSUME ProcessEnds
      PROVE  AllOwned(sending, queue, cur, context, log, to, key)'
    <2>1. AllOwned(sending, queue, cur, context, log, to', key')
        BY <1>23, OwnersKept DEF ProcessEnds
    <2>2. DOMAIN << >> = {}
        BY EmptySeq
    <2>3. SendingOwned(sending', to', key') /\ WorkOwned(cur', to', key')
        BY <1>23 DEF ProcessEnds, SendingOwned, WorkOwned
    <2>4. QueuesOwned(queue', to', key')
        BY <1>23, <2>2 DEF ProcessEnds, QueuesOwned
    <2>5. QED
        BY <1>23, <2>1, <2>3, <2>4 DEF ProcessEnds
<1>24. ASSUME Tick
      PROVE  AllOwned(sending, queue, cur, context, log, to, key)'
    <2>1. AllOwned(sending, queue, cur, context, log, to', key')
        BY <1>24, OwnersKept DEF Tick
    <2>2. QED
        BY <1>24, <2>1 DEF Tick
<1>25. ASSUME UNCHANGED vars
      PROVE  AllOwned(sending, queue, cur, context, log, to, key)'
    <2>1. AllOwned(sending, queue, cur, context, log, to', key')
        BY <1>25, OwnersKept DEF vars
    <2>2. QED
        BY <1>25, <2>1 DEF vars
<1>26. QED
    BY <1>1, <1>2, <1>3, <1>4, <1>5, <1>6, <1>7, <1>8, <1>9,
       <1>10, <1>11, <1>12, <1>13, <1>14, <1>15, <1>16, <1>17, <1>18,
       <1>19, <1>20, <1>21, <1>22, <1>23, <1>24, <1>25
    DEF Next, Caller, Consumer, LoopStep, PromptEnds

LEMMA InitIsolated == Init => UsersIsolated
<1>1. DOMAIN << >> = {}
    BY EmptySeq
<1>2. QED
    BY <1>1 DEF Init, UsersIsolated, OwnEntries

\* A message travels, is shown to an agent and is stored under its own user's
\* key only, whatever is created, replaced, evicted or restarted meanwhile.
THEOREM UsersStayIsolated == Spec => []UsersIsolated
<1>1. Init => UsersIsolated
    BY InitIsolated
<1>2. TypeInv /\ MapInv /\ UsersIsolated /\ [Next]_vars => UsersIsolated'
    BY NextIsolated
<1>3. QED
    BY <1>1, <1>2, MapInvariant, PTL DEF Spec

-----------------------------------------------------------------------------
(* A message is in one place at a time, and a rejected one leaves no trace. *)

(* Where a message can be. *)

Offered(m) == \E s \in Sids : <<s, m>> \in sending
Queued(m)  == \E s \in Sids : \E i \in DOMAIN queue[s] : queue[s][i] = m
Held(m)    == \E s \in Sids : cur[s] = m

Mentioned(m) == \/ \E s \in Sids : Mentions(context[s], m)
                \/ \E k \in Keys : Mentions(log[k], m)

Untouched(m)   == replied[m] = {} /\ ~Mentioned(m)
NotRejected(m) == replied[m] \cap {"busy", "timeout"} = {}

\* A message is in one place at a time, once.
OneOffer ==
    \A m \in Msgs, s, r \in Sids :
        <<s, m>> \in sending /\ <<r, m>> \in sending => s = r

OnePosition ==
    \A s, r \in Sids : \A i \in DOMAIN queue[s], j \in DOMAIN queue[r] :
        queue[s][i] = queue[r][j] => s = r /\ i = j

OneWorker == \A s, r \in Sids : cur[s] # None /\ cur[s] = cur[r] => s = r

OnePlace ==
    \A m \in Msgs : /\ Offered(m) => ~Queued(m) /\ ~Held(m)
                    /\ Queued(m) => ~Held(m)

\* What has not arrived is nowhere; until an agent is started on it a message
\* has no reply and no trace.
Unseen ==
    \A m \in Msgs : to[m] = None =>
        ~Offered(m) /\ ~Queued(m) /\ ~Held(m) /\ Untouched(m)

WaitingUntouched == \A m \in Msgs : Offered(m) \/ Queued(m) => Untouched(m)

FetchedUntouched == \A s \in Sids : pc[s] = "fetched" => Untouched(cur[s])

\* A rejected message has the one reply, is not worked on and left no trace.
RejectedAlone ==
    \A m \in Msgs :
        \/ NotRejected(m)
        \/ replied[m] \in {{"busy"}, {"timeout"}} /\ ~Held(m) /\ ~Mentioned(m)

LifeInv ==
    /\ OneOffer /\ OnePosition /\ OneWorker /\ OnePlace
    /\ Unseen /\ WaitingUntouched /\ FetchedUntouched /\ RejectedAlone

LEMMA InitLifeInv == Init => LifeInv
<1> SUFFICES ASSUME Init PROVE LifeInv
    OBVIOUS
<1>1. DOMAIN << >> = {}
    BY EmptySeq
<1>2. \A m \in Msgs : /\ ~Offered(m) /\ ~Queued(m) /\ ~Held(m) /\ ~Mentioned(m)
                      /\ replied[m] = {}
    BY <1>1, NoneAssumption DEF Init, Offered, Queued, Held, Mentioned, Mentions
<1>3. OneOffer /\ OnePosition /\ OneWorker
    BY <1>1 DEF Init, OneOffer, OnePosition, OneWorker
<1>4. FetchedUntouched
    BY DEF Init, FetchedUntouched
<1>5. QED
    BY <1>2, <1>3, <1>4
    DEF LifeInv, OnePlace, Unseen, WaitingUntouched, RejectedAlone, Untouched,
        NotRejected

\* Elements of the queues and of the goroutines are messages.
LEMMA PlaceTypes ==
    ASSUME TypeInv
    PROVE  /\ \A s \in Sids : /\ queue[s] \in Seq(Msgs)
                              /\ DOMAIN queue[s] = 1 .. Len(queue[s])
                              /\ Len(queue[s]) \in Nat
                              /\ \A i \in DOMAIN queue[s] : queue[s][i] \in Msgs
           /\ \A s \in Sids : pc[s] = "fetched" => cur[s] \in Msgs
           /\ \A sm \in sending : sm \in Sids \X Msgs
<1>1. \A s \in Sids : queue[s] \in Seq(Msgs)
    BY DEF TypeInv, StateTypeOK, QueueTypeOK
<1>2. \A s \in Sids : /\ DOMAIN queue[s] = 1 .. Len(queue[s])
                      /\ Len(queue[s]) \in Nat
    BY <1>1, LenProperties
<1>3. \A s \in Sids : \A i \in DOMAIN queue[s] : queue[s][i] \in Msgs
    BY <1>1, <1>2, ElementOfSeq
<1>4. \A s \in Sids : pc[s] = "fetched" => cur[s] \in Msgs
    BY WorkingFacts DEF Working
<1>5. \A sm \in sending : sm \in Sids \X Msgs
    BY DEF TypeInv, StateTypeOK, CallerTypeOK
<1>6. QED
    BY <1>1, <1>2, <1>3, <1>4, <1>5

\* A step that only takes messages away from where they are, and says nothing
\* to anybody, keeps the invariant.
LEMMA OnlyTakesAway ==
    ASSUME TypeInv, LifeInv,
           \A m \in Msgs : to'[m] = None => to[m] = None,
           UNCHANGED replied,
           sending' \subseteq sending,
           \A s \in Sids : queue'[s] = queue[s] \/ DOMAIN queue'[s] = {},
           \A s \in Sids : cur'[s] = cur[s] \/ cur'[s] = None,
           \A s \in Sids : pc'[s] = "fetched" => pc[s] = "fetched" /\ cur'[s] = cur[s],
           \A m \in Msgs : Mentioned(m)' => Mentioned(m)
    PROVE  LifeInv'
<1> USE DEF LifeInv
<1>1. \A m \in Msgs : /\ Offered(m)' => Offered(m)
                      /\ Queued(m)' => Queued(m)
                      /\ Held(m)' => Held(m)
    BY NoneAssumption DEF Offered, Queued, Held
<1>2. OneOffer'
    BY DEF OneOffer
<1>3. OnePosition'
    BY DEF OnePosition
<1>4. OneWorker'
    BY DEF OneWorker
<1>5. OnePlace'
    BY <1>1 DEF OnePlace
<1>6. \A m \in Msgs : Untouched(m) => Untouched(m)'
    BY DEF Untouched
<1>7. Unseen'
    BY <1>1, <1>6 DEF Unseen
<1>8. WaitingUntouched'
    BY <1>1, <1>6 DEF WaitingUntouched
<1>9. FetchedUntouched'
    <2> SUFFICES ASSUME NEW s \in Sids, pc'[s] = "fetched" PROVE Untouched(cur[s])'
        BY DEF FetchedUntouched
    <2>1. pc[s] = "fetched" /\ cur'[s] = cur[s] /\ cur[s] \in Msgs
        BY PlaceTypes
    <2>2. Untouched(cur[s])
        BY <2>1 DEF FetchedUntouched
    <2>3. QED
        BY <2>1, <2>2 DEF Untouched
<1>10. RejectedAlone'
    BY <1>1 DEF RejectedAlone, NotRejected
<1>11. QED
    BY <1>2, <1>3, <1>4, <1>5, <1>7, <1>8, <1>9, <1>10

\* A message arrives, and is at most put in the hands of the object s.
LEMMA ArrivalLifeInv ==
    ASSUME TypeInv, LifeInv, NEW k \in Keys, NEW m \in Msgs, NEW s \in Sids,
           Arrives(k, m),
           sending' = sending \cup {<<s, m>>},
           UNCHANGED <<queue, cur, context, log>>,
           \A r \in Sids : pc'[r] = "fetched" => pc[r] = "fetched"
    PROVE  LifeInv'
<1> USE DEF LifeInv
<1>1. /\ to[m] = None /\ to' = [to EXCEPT ![m] = k] /\ replied' = replied
      /\ ~Offered(m) /\ ~Queued(m) /\ ~Held(m) /\ Untouched(m)
    BY DEF Arrives, Unseen
<1>2. \A j \in Msgs : /\ Queued(j)' = Queued(j)
                      /\ Held(j)' = Held(j)
                      /\ Untouched(j)' = Untouched(j)
                      /\ Mentioned(j)' = Mentioned(j)
    BY <1>1 DEF Queued, Held, Untouched, Mentioned
<1>3. \A j \in Msgs : Offered(j)' <=> Offered(j) \/ j = m
    BY DEF Offered
<1>4. OneOffer'
    BY <1>1 DEF OneOffer, Offered
<1>5. OnePosition' /\ OneWorker'
    BY DEF OnePosition, OneWorker
<1>6. OnePlace'
    BY <1>1, <1>2, <1>3 DEF OnePlace
<1>7. Unseen'
    <2> SUFFICES ASSUME NEW j \in Msgs, to'[j] = None
                 PROVE  (~Offered(j) /\ ~Queued(j) /\ ~Held(j) /\ Untouched(j))'
        BY DEF Unseen
    <2>1. j # m /\ to[j] = None
        BY <1>1, NoneAssumption DEF TypeInv, StateTypeOK, MessageTypeOK
    <2>2. QED
        BY <1>2, <1>3, <2>1 DEF Unseen
<1>8. WaitingUntouched'
    BY <1>1, <1>2, <1>3 DEF WaitingUntouched
<1>9. FetchedUntouched'
    BY <1>1, <1>2, PlaceTypes DEF FetchedUntouched
<1>10. RejectedAlone'
    BY <1>1, <1>2 DEF RejectedAlone, NotRejected
<1>11. QED
    BY <1>4, <1>5, <1>6, <1>7, <1>8, <1>9, <1>10

\* Appending a message that was in no queue puts it, and no other, into one.
LEMMA LastAdded ==
    ASSUME TypeInv, LifeInv, NEW s \in Sids, NEW m \in Msgs, ~Queued(m),
           queue' = [queue EXCEPT ![s] = Append(queue[s], m)]
    PROVE  /\ \A j : Queued(j)' <=> Queued(j) \/ j = m
           /\ OnePosition'
<1>1. /\ \A r \in Sids \ {s} : queue'[r] = queue[r]
      /\ DOMAIN queue'[s] = 1 .. Len(queue[s]) + 1
      /\ \A i \in 1 .. Len(queue[s]) : queue'[s][i] = queue[s][i]
      /\ queue'[s][Len(queue[s]) + 1] = m
    <2>1. queue \in [Sids -> Seq(Msgs)]
        BY DEF TypeInv, StateTypeOK, QueueTypeOK
    <2>2. QED
        BY <2>1, AppendProperties, LenProperties
<1>2. \A x \in Sids : \A y : y \in DOMAIN queue'[x] =>
          \/ y \in DOMAIN queue[x] /\ queue'[x][y] = queue[x][y]
          \/ x = s /\ y = Len(queue[s]) + 1 /\ queue'[x][y] = m
    BY <1>1, PlaceTypes
<1>3. \A x \in Sids : \A y \in DOMAIN queue[x] :
          y \in DOMAIN queue'[x] /\ queue'[x][y] = queue[x][y]
    BY <1>1, PlaceTypes
<1>4. Len(queue[s]) + 1 \in DOMAIN queue'[s]
    BY <1>1, PlaceTypes
<1>5. ASSUME NEW j PROVE Queued(j)' <=> Queued(j) \/ j = m
    BY <1>1, <1>2, <1>3, <1>4 DEF Queued
<1>6. OnePosition'
    <2> SUFFICES ASSUME NEW r \in Sids, NEW q \in Sids,
                        NEW i \in DOMAIN queue'[r], NEW j \in DOMAIN queue'[q],
                        queue'[r][i] = queue'[q][j]
                 PROVE  r = q /\ i = j
        BY DEF OnePosition
    <2>1. \A x \in Sids : \A y : y \in DOMAIN queue[x] => queue[x][y] # m
        BY DEF Queued
    <2>2. QED
        BY <1>2, <2>1 DEF LifeInv, OnePosition
<1>7. QED
    BY <1>5, <1>6

\* A message that finds room in the queue waits there, untouched.
LEMMA AcceptLifeInv ==
    ASSUME TypeInv, LifeInv, NEW s \in Sids, NEW m \in Msgs, Send(s, m), Accept(s, m)
    PROVE  LifeInv'
<1> USE DEF LifeInv
<1>1. /\ UNCHANGED <<to, replied, cur, pc, context, log>>
      /\ <<s, m>> \in sending /\ sending' = sending \ {<<s, m>>}
      /\ queue' = [queue EXCEPT ![s] = Append(queue[s], m)]
    BY DEF Send, Accept, objectVars, loopVars, storeVars
<1>2. Offered(m) /\ ~Queued(m) /\ ~Held(m) /\ Untouched(m) /\ to[m] # None
    BY <1>1 DEF Offered, OnePlace, WaitingUntouched, Unseen
<1>3. /\ \A j \in Msgs : Queued(j)' => Queued(j) \/ j = m
      /\ OnePosition'
    BY <1>1, <1>2, LastAdded
<1>4. \A j \in Msgs : /\ Offered(j)' => Offered(j) /\ j # m
                      /\ Held(j)' = Held(j)
                      /\ Untouched(j)' = Untouched(j)
                      /\ Mentioned(j)' = Mentioned(j)
    BY <1>1 DEF Offered, OneOffer, Held, Untouched, Mentioned
<1>5. OneOffer' /\ OneWorker'
    BY <1>1 DEF OneOffer, OneWorker
<1>6. OnePlace'
    BY <1>2, <1>3, <1>4 DEF OnePlace
<1>7. Unseen'
    BY <1>1, <1>2, <1>3, <1>4 DEF Unseen
<1>8. WaitingUntouched'
    BY <1>2, <1>3, <1>4 DEF WaitingUntouched
<1>9. FetchedUntouched'
    BY <1>1, <1>4, PlaceTypes DEF FetchedUntouched
<1>10. RejectedAlone'
    BY <1>1, <1>4 DEF RejectedAlone, NotRejected
<1>11. QED
    BY <1>3, <1>5, <1>6, <1>7, <1>8, <1>9, <1>10

\* One that finds none is answered, and is nowhere.
LEMMA TurnAwayLifeInv ==
    ASSUME TypeInv, LifeInv, NEW s \in Sids, NEW m \in Msgs, Send(s, m), TurnAway(s, m)
    PROVE  LifeInv'
<1> USE DEF LifeInv
<1>1. /\ UNCHANGED <<to, queue, cur, pc, context, log>>
      /\ <<s, m>> \in sending /\ sending' = sending \ {<<s, m>>}
      /\ replied' = [replied EXCEPT ![m] = replied[m] \cup {"busy"}]
    BY DEF Send, TurnAway, Reply, objectVars, loopVars, storeVars
<1>2. Offered(m) /\ ~Queued(m) /\ ~Held(m) /\ Untouched(m) /\ to[m] # None
    BY <1>1 DEF Offered, OnePlace, WaitingUntouched, Unseen
<1>3. /\ replied'[m] = {"busy"}
      /\ \A j \in Msgs \ {m} : replied'[j] = replied[j]
    BY <1>1, <1>2 DEF Untouched, TypeInv, StateTypeOK, MessageTypeOK
<1>4. \A j \in Msgs : /\ Offered(j)' => Offered(j) /\ j # m
                      /\ Queued(j)' = Queued(j)
                      /\ Held(j)' = Held(j)
                      /\ Mentioned(j)' = Mentioned(j)
    BY <1>1 DEF Offered, Queued, Held, Mentioned, OneOffer
<1>5. \A j \in Msgs \ {m} : Untouched(j)' = Untouched(j)
    BY <1>3, <1>4 DEF Untouched
<1>6. OneOffer' /\ OnePosition' /\ OneWorker'
    BY <1>1 DEF OneOffer, OnePosition, OneWorker
<1>7. OnePlace'
    BY <1>4 DEF OnePlace
<1>8. Unseen'
    BY <1>1, <1>2, <1>4, <1>5 DEF Unseen
<1>9. WaitingUntouched'
    BY <1>2, <1>4, <1>5 DEF WaitingUntouched
<1>10. FetchedUntouched'
    <2> SUFFICES ASSUME NEW r \in Sids, pc'[r] = "fetched" PROVE Untouched(cur[r])'
        BY DEF FetchedUntouched
    <2>1. pc[r] = "fetched" /\ cur[r] \in Msgs /\ cur[r] # m /\ cur'[r] = cur[r]
        BY <1>1, <1>2, PlaceTypes DEF Held
    <2>2. QED
        BY <1>3, <1>4, <2>1 DEF FetchedUntouched, Untouched
<1>11. RejectedAlone'
    BY <1>2, <1>3, <1>4 DEF RejectedAlone, NotRejected, Untouched
<1>12. QED
    BY <1>6, <1>7, <1>8, <1>9, <1>10, <1>11

\* Receiving the first message of a queue takes that one, and no other, out of
\* it; every other one keeps a single position.
LEMMA HeadTaken ==
    ASSUME TypeInv, LifeInv, NEW s \in Sids, queue[s] # << >>,
           queue' = [queue EXCEPT ![s] = Tail(queue[s])]
    PROVE  /\ Head(queue[s]) \in Msgs /\ Queued(Head(queue[s]))
           /\ \A j : Queued(j)' <=> Queued(j) /\ j # Head(queue[s])
           /\ OnePosition'
<1> DEFINE h == Head(queue[s])
<1>1. /\ queue \in [Sids -> Seq(Msgs)]
      /\ \A r \in Sids \ {s} : queue'[r] = queue[r]
      /\ queue'[s] = Tail(queue[s])
    BY DEF TypeInv, StateTypeOK, QueueTypeOK
<1>2. /\ DOMAIN queue[s] = 1 .. Len(queue[s]) /\ Len(queue[s]) \in Nat \ {0}
      /\ h = queue[s][1]
      /\ DOMAIN Tail(queue[s]) = 1 .. Len(queue[s]) - 1
      /\ \A i \in 1 .. Len(queue[s]) - 1 : Tail(queue[s])[i] = queue[s][i + 1]
    BY <1>1, HeadTailProperties, LenProperties, EmptySeq
<1>3. h \in Msgs /\ Queued(h)
    BY <1>2, PlaceTypes DEF Queued
<1>4. \A r \in Sids : \A i : i \in DOMAIN queue'[r] =>
          \E x \in DOMAIN queue[r] : /\ queue'[r][i] = queue[r][x]
                                     /\ x = (IF r = s THEN i + 1 ELSE i)
    BY <1>1, <1>2
<1>5. \A r \in Sids : \A x : x \in DOMAIN queue[r] /\ queue[r][x] # h =>
          \E i \in DOMAIN queue'[r] : queue'[r][i] = queue[r][x]
    <2> SUFFICES ASSUME NEW r \in Sids, NEW x \in DOMAIN queue[r], queue[r][x] # h
                 PROVE  \E i \in DOMAIN queue'[r] : queue'[r][i] = queue[r][x]
        OBVIOUS
    <2>1. CASE r # s
        BY <1>1, <2>1
    <2>2. CASE r = s
        <3>1. x - 1 \in 1 .. Len(queue[s]) - 1 /\ x - 1 + 1 = x
            BY <1>2, <2>2
        <3>2. QED
            BY <1>1, <1>2, <2>2, <3>1
    <2>3. QED
        BY <2>1, <2>2
<1>6. \A r \in Sids : \A i : i \in DOMAIN queue'[r] => queue'[r][i] # h
    <2> SUFFICES ASSUME NEW r \in Sids, NEW i \in DOMAIN queue'[r], queue'[r][i] = h
                 PROVE  FALSE
        OBVIOUS
    <2>1. PICK x \in DOMAIN queue[r] : /\ queue'[r][i] = queue[r][x]
                                       /\ x = (IF r = s THEN i + 1 ELSE i)
        BY <1>4
    <2>2. r = s /\ x = 1
        BY <1>2, <2>1 DEF LifeInv, OnePosition
    <2>3. i \in 1 .. Len(queue[s]) - 1
        BY <1>1, <1>2, <2>2
    <2>4. QED
        BY <1>2, <2>1, <2>2, <2>3
<1>7. ASSUME NEW j PROVE Queued(j)' <=> Queued(j) /\ j # h
    BY <1>4, <1>5, <1>6 DEF Queued
<1>8. OnePosition'
    <2> SUFFICES ASSUME NEW r \in Sids, NEW q \in Sids,
                        NEW i \in DOMAIN queue'[r], NEW j \in DOMAIN queue'[q],
                        queue'[r][i] = queue'[q][j]
                 PROVE  r = q /\ i = j
        BY DEF OnePosition
    <2>1. PICK x \in DOMAIN queue[r] : /\ queue'[r][i] = queue[r][x]
                                       /\ x = (IF r = s THEN i + 1 ELSE i)
        BY <1>4
    <2>2. PICK y \in DOMAIN queue[q] : /\ queue'[q][j] = queue[q][y]
                                       /\ y = (IF q = s THEN j + 1 ELSE j)
        BY <1>4
    <2>3. r = q /\ x = y
        BY <2>1, <2>2 DEF LifeInv, OnePosition
    <2>4. CASE r # s
        BY <2>1, <2>2, <2>3, <2>4
    <2>5. CASE r = s
        BY <1>1, <1>2, <2>1, <2>2, <2>3, <2>5
    <2>6. QED
        BY <2>3, <2>4, <2>5
<1>9. QED
    BY <1>3, <1>7, <1>8

\* So is one whose deadline has passed.
LEMMA DiscardLifeInv ==
    ASSUME TypeInv, LifeInv, NEW s \in Sids, Discard(s)
    PROVE  LifeInv'
<1> USE DEF LifeInv
<1> DEFINE h == Head(queue[s])
<1>1. /\ UNCHANGED <<to, sending, cur, pc, context, log>>
      /\ queue[s] # << >> /\ queue' = [queue EXCEPT ![s] = Tail(queue[s])]
      /\ replied' = [replied EXCEPT ![h] = replied[h] \cup {"timeout"}]
    BY DEF Discard, CanTake, Reply, objectVars, loopVars, storeVars
<1>2. /\ h \in Msgs /\ Queued(h)
      /\ \A j \in Msgs : Queued(j)' <=> Queued(j) /\ j # h
      /\ OnePosition'
    BY <1>1, HeadTaken
<1>3. ~Offered(h) /\ ~Held(h) /\ Untouched(h) /\ to[h] # None
    BY <1>2 DEF OnePlace, WaitingUntouched, Unseen
<1>4. /\ replied'[h] = {"timeout"}
      /\ \A j \in Msgs \ {h} : replied'[j] = replied[j]
    BY <1>1, <1>2, <1>3 DEF Untouched, TypeInv, StateTypeOK, MessageTypeOK
<1>5. \A j \in Msgs : /\ Offered(j)' = Offered(j)
                      /\ Held(j)' = Held(j)
                      /\ Mentioned(j)' = Mentioned(j)
    BY <1>1 DEF Offered, Held, Mentioned
<1>6. \A j \in Msgs \ {h} : Untouched(j)' = Untouched(j)
    BY <1>4, <1>5 DEF Untouched
<1>7. OneOffer' /\ OneWorker'
    BY <1>1 DEF OneOffer, OneWorker
<1>8. OnePlace'
    BY <1>2, <1>5 DEF OnePlace
<1>9. Unseen'
    BY <1>1, <1>2, <1>3, <1>5, <1>6 DEF Unseen
<1>10. WaitingUntouched'
    BY <1>2, <1>3, <1>5, <1>6 DEF WaitingUntouched
<1>11. FetchedUntouched'
    <2> SUFFICES ASSUME NEW r \in Sids, pc'[r] = "fetched" PROVE Untouched(cur[r])'
        BY DEF FetchedUntouched
    <2>1. pc[r] = "fetched" /\ cur[r] \in Msgs /\ cur[r] # h /\ cur'[r] = cur[r]
        BY <1>1, <1>3, PlaceTypes DEF Held
    <2>2. QED
        BY <1>4, <1>5, <2>1 DEF FetchedUntouched, Untouched
<1>12. RejectedAlone'
    BY <1>2, <1>3, <1>4, <1>5 DEF RejectedAlone, NotRejected, Untouched
<1>13. QED
    BY <1>2, <1>7, <1>8, <1>9, <1>10, <1>11, <1>12

\* A received message passes from the queue to the goroutine.
LEMMA TakeLifeInv ==
    ASSUME TypeInv, LifeInv, NEW s \in Sids, Take(s)
    PROVE  LifeInv'
<1> USE DEF LifeInv
<1> DEFINE h == Head(queue[s])
<1>1. /\ UNCHANGED <<to, sending, replied, context, log>>
      /\ queue[s] # << >> /\ queue' = [queue EXCEPT ![s] = Tail(queue[s])]
      /\ cur' = [cur EXCEPT ![s] = h]
      /\ pc' = [pc EXCEPT ![s] = "fetched"]
    BY DEF Take, CanTake, objectVars, messageVars, storeVars
<1>2. /\ h \in Msgs /\ Queued(h)
      /\ \A j \in Msgs : Queued(j)' <=> Queued(j) /\ j # h
      /\ OnePosition'
    BY <1>1, HeadTaken
<1>3. ~Offered(h) /\ ~Held(h) /\ Untouched(h) /\ to[h] # None
    BY <1>2 DEF OnePlace, WaitingUntouched, Unseen
<1>4. \A r \in Sids : /\ cur'[r] = (IF r = s THEN h ELSE cur[r])
                      /\ pc'[r] = (IF r = s THEN "fetched" ELSE pc[r])
    BY <1>1 DEF TypeInv, StateTypeOK, LoopTypeOK
<1>5. \A j \in Msgs : /\ Offered(j)' = Offered(j)
                      /\ Held(j)' => Held(j) \/ j = h
                      /\ Mentioned(j)' = Mentioned(j)
                      /\ Untouched(j)' = Untouched(j)
    BY <1>1, <1>4 DEF Offered, Held, Mentioned, Untouched
<1>6. OneOffer'
    BY <1>1 DEF OneOffer
<1>7. OneWorker'
    BY <1>3, <1>4 DEF OneWorker, Held
<1>8. OnePlace'
    BY <1>2, <1>3, <1>5 DEF OnePlace
<1>9. Unseen'
    BY <1>1, <1>2, <1>3, <1>5 DEF Unseen
<1>10. WaitingUntouched'
    BY <1>2, <1>5 DEF WaitingUntouched
<1>11. FetchedUntouched'
    BY <1>2, <1>3, <1>4, <1>5, PlaceTypes DEF FetchedUntouched
<1>12. RejectedAlone'
    BY <1>1, <1>3, <1>5 DEF RejectedAlone, NotRejected, Untouched
<1>13. QED
    BY <1>2, <1>6, <1>7, <1>8, <1>9, <1>10, <1>11, <1>12

\* While an agent works on a message, what is said of it is not a rejection.
LEMMA WorkRepliesLifeInv ==
    ASSUME TypeInv, LifeInv, NEW s \in Sids, pc[s] = "prompt",
           NEW kinds, kinds \cap {"busy", "timeout"} = {},
           UNCHANGED <<to, sending, queue, context, log>>,
           replied' = [replied EXCEPT ![cur[s]] = @ \cup kinds],
           \A r \in Sids : cur'[r] = cur[r] \/ cur'[r] = None,
           \A r \in Sids : pc'[r] = "fetched" => pc[r] = "fetched" /\ cur'[r] = cur[r]
    PROVE  LifeInv'
<1> USE DEF LifeInv
<1> DEFINE m == cur[s]
<1>1. m \in Msgs /\ m # None /\ Held(m)
    BY WorkingFacts, NoneAssumption DEF Working, Held
<1>2. ~Offered(m) /\ ~Queued(m) /\ to[m] # None /\ NotRejected(m)
    BY <1>1 DEF OnePlace, Unseen, RejectedAlone
<1>3. /\ replied'[m] = replied[m] \cup kinds
      /\ \A j \in Msgs \ {m} : replied'[j] = replied[j]
    BY <1>1 DEF TypeInv, StateTypeOK, MessageTypeOK
<1>4. \A j \in Msgs : /\ Offered(j)' = Offered(j)
                      /\ Queued(j)' = Queued(j)
                      /\ Held(j)' => Held(j)
                      /\ Mentioned(j)' = Mentioned(j)
    BY NoneAssumption DEF Offered, Queued, Held, Mentioned
<1>5. \A j \in Msgs \ {m} : Untouched(j)' = Untouched(j)
    BY <1>3, <1>4 DEF Untouched
<1>6. OneOffer' /\ OnePosition' /\ OneWorker'
    BY DEF OneOffer, OnePosition, OneWorker
<1>7. OnePlace'
    BY <1>4 DEF OnePlace
<1>8. Unseen'
    BY <1>2, <1>4, <1>5 DEF Unseen
<1>9. WaitingUntouched'
    BY <1>2, <1>4, <1>5 DEF WaitingUntouched
<1>10. FetchedUntouched'
    <2> SUFFICES ASSUME NEW r \in Sids, pc'[r] = "fetched" PROVE Untouched(cur[r])'
        BY DEF FetchedUntouched
    <2>1. pc[r] = "fetched" /\ cur[r] \in Msgs /\ cur'[r] = cur[r]
        BY PlaceTypes
    <2>2. cur[r] # m
        BY <1>1, <2>1 DEF OneWorker
    <2>3. QED
        BY <1>3, <1>4, <2>1, <2>2 DEF FetchedUntouched, Untouched
<1>11. RejectedAlone'
    BY <1>2, <1>3, <1>4 DEF RejectedAlone, NotRejected
<1>12. QED
    BY <1>6, <1>7, <1>8, <1>9, <1>10, <1>11

\* What an append adds to what the logs mention.
LEMMA AppendMentions ==
    ASSUME TypeInv, NEW k \in Keys, NEW role \in Roles, NEW m \in Msgs,
           log' = AppendMessage(log, k, role, m), UNCHANGED context
    PROVE  \A j : Mentioned(j)' => Mentioned(j) \/ j = m
<1> DEFINE e == [role |-> role, msg |-> m]
<1>1. log \in [Keys -> Seq(Entries)] /\ e \in Entries
    BY DEF TypeInv, StateTypeOK, StoreTypeOK, Entries
<1>2. /\ log'[k] = Append(log[k], e)
      /\ \A i \in Keys \ {k} : log'[i] = log[i]
    BY <1>1 DEF AppendMessage
<1>3. /\ DOMAIN Append(log[k], e) = 1 .. Len(log[k]) + 1
      /\ DOMAIN log[k] = 1 .. Len(log[k])
      /\ \A i \in 1 .. Len(log[k]) : Append(log[k], e)[i] = log[k][i]
      /\ Append(log[k], e)[Len(log[k]) + 1] = e
    BY <1>1, AppendProperties, LenProperties
<1>4. Len(log[k]) \in Nat
    BY <1>1, LenProperties
<1>5. ASSUME NEW j, NEW i \in Keys, Mentions(log'[i], j)
      PROVE  Mentions(log[i], j) \/ j = m
    BY SMTT(30), <1>2, <1>3, <1>4, <1>5 DEF Mentions
<1>6. QED
    BY <1>5 DEF Mentioned

\* An exchange is stored for the message being worked on, which is no longer
\* waiting and was not rejected.
LEMMA StoredLifeInv ==
    ASSUME TypeInv, LifeInv, NEW s \in Sids, NEW role \in Roles,
           pc[s] \in Working \ {"fetched"},
           log' = AppendMessage(log, key[s], role, cur[s]),
           UNCHANGED <<to, replied, sending, queue, cur, context>>,
           \A r \in Sids : pc'[r] = "fetched" => pc[r] = "fetched"
    PROVE  LifeInv'
<1> USE DEF LifeInv
<1> DEFINE m == cur[s]
<1>1. m \in Msgs /\ m # None /\ Held(m) /\ key[s] \in Keys
    BY WorkingFacts, NoneAssumption DEF Held
<1>2. ~Offered(m) /\ ~Queued(m) /\ to[m] # None /\ NotRejected(m)
    BY <1>1 DEF OnePlace, Unseen, RejectedAlone
<1>3. \A j : Mentioned(j)' => Mentioned(j) \/ j = m
    BY <1>1, AppendMentions
<1>4. \A j \in Msgs : /\ Offered(j)' = Offered(j)
                      /\ Queued(j)' = Queued(j)
                      /\ Held(j)' = Held(j)
    BY DEF Offered, Queued, Held
<1>5. \A j \in Msgs \ {m} : Untouched(j) => Untouched(j)'
    BY <1>3 DEF Untouched
<1>6. OneOffer' /\ OnePosition' /\ OneWorker'
    BY DEF OneOffer, OnePosition, OneWorker
<1>7. OnePlace'
    BY <1>4 DEF OnePlace
<1>8. Unseen'
    BY <1>2, <1>4, <1>5 DEF Unseen
<1>9. WaitingUntouched'
    BY <1>2, <1>4, <1>5 DEF WaitingUntouched
<1>10. FetchedUntouched'
    <2> SUFFICES ASSUME NEW r \in Sids, pc'[r] = "fetched" PROVE Untouched(cur[r])'
        BY DEF FetchedUntouched
    <2>1. pc[r] = "fetched" /\ cur[r] \in Msgs
        BY PlaceTypes
    <2>2. cur[r] # m
        BY <1>1, <2>1 DEF OneWorker
    <2>3. Untouched(cur[r])
        BY <2>1 DEF FetchedUntouched
    <2>4. QED
        BY <1>3, <2>1, <2>2, <2>3 DEF Untouched
<1>11. RejectedAlone'
    BY <1>2, <1>3, <1>4 DEF RejectedAlone, NotRejected
<1>12. QED
    BY <1>6, <1>7, <1>8, <1>9, <1>10, <1>11

LEMMA NextLifeInv == TypeInv /\ LifeInv /\ [Next]_vars => LifeInv'
<1> SUFFICES ASSUME TypeInv, LifeInv, [Next]_vars PROVE LifeInv'
    OBVIOUS
<1> USE DEF managerVars, objectVars, loopVars, messageVars, storeVars, envVars
<1>1. ASSUME NEW k \in Keys, NEW m \in Msgs, EnqueueExisting(k, m) PROVE LifeInv'
    <2>1. sessions[k] \in Sids
        BY <1>1 DEF EnqueueExisting, TypeInv, StateTypeOK, ManagerTypeOK
    <2>2. QED
        BY <1>1, <2>1, ArrivalLifeInv DEF EnqueueExisting
<1>2. ASSUME NEW k \in Keys, NEW m \in Msgs, NEW a \in Registry, EnqueueNew(k, m, a)
      PROVE  LifeInv'
    <2>1. created + 1 \in Sids /\ pc' = [pc EXCEPT ![created + 1] = "select"]
        BY <1>2 DEF EnqueueNew, Create
    <2>2. \A r \in Sids : pc'[r] = "fetched" => pc[r] = "fetched"
        BY <2>1 DEF TypeInv, StateTypeOK, LoopTypeOK
    <2>3. QED
        BY <1>2, <2>1, <2>2, ArrivalLifeInv DEF EnqueueNew
<1>3. ASSUME NEW k \in Keys, NEW m \in Msgs, NEW a \in Agents \ Registry,
             EnqueueUnknown(k, m, a)
      PROVE  LifeInv'
    <2>1. \A j \in Msgs : to'[j] = None => to[j] = None
        BY <1>3, NoneAssumption
        DEF EnqueueUnknown, Arrives, TypeInv, StateTypeOK, MessageTypeOK
    <2>2. QED
        BY <1>3, <2>1, OnlyTakesAway DEF EnqueueUnknown, Arrives, Mentioned
<1>4. ASSUME NEW k \in Keys, NEW a \in Registry, SwitchAgent(k, a) PROVE LifeInv'
    <2>1. \A r \in Sids : pc'[r] = "fetched" => pc[r] = "fetched"
        BY <1>4 DEF SwitchAgent, Create, TypeInv, StateTypeOK, LoopTypeOK
    <2>2. QED
        BY <1>4, <2>1, OnlyTakesAway DEF SwitchAgent, Mentioned
<1>5. ASSUME NEW k \in Keys, CancelSession(k) PROVE LifeInv'
    <2>1. \A r \in Sids : queue'[r] = queue[r] \/ queue'[r] = << >>
        BY <1>5 DEF CancelSession, TypeInv, StateTypeOK, QueueTypeOK
    <2>2. \A r \in Sids : queue'[r] = queue[r] \/ DOMAIN queue'[r] = {}
        BY <2>1, EmptySeq
    <2>3. QED
        BY <1>5, <2>2, OnlyTakesAway DEF CancelSession, Mentioned
<1>6. ASSUME NEW k \in Keys, RemoveSession(k) PROVE LifeInv'
    BY <1>6, OnlyTakesAway DEF RemoveSession, Mentioned
<1>7. ASSUME NEW k \in Keys, EraseMessages(k) PROVE LifeInv'
    <2>1. \A i \in Keys, j \in Msgs : Mentions(log'[i], j) => Mentions(log[i], j)
        <3>1. DOMAIN << >> = {}
            BY EmptySeq
        <3>2. QED
            BY <1>7, <3>1
            DEF EraseMessages, DeleteMessages, Mentions, TypeInv, StateTypeOK, StoreTypeOK
    <2>2. QED
        BY <1>7, <2>1, OnlyTakesAway DEF EraseMessages, Mentioned
<1>8. ASSUME NEW s \in Sids, NEW m \in Msgs, Send(s, m) PROVE LifeInv'
    <2>1. CASE Accept(s, m)
        BY <1>8, <2>1, AcceptLifeInv
    <2>2. CASE TurnAway(s, m)
        BY <1>8, <2>2, TurnAwayLifeInv
    <2>3. CASE ShutOut
        BY <1>8, <2>3, OnlyTakesAway DEF Send, ShutOut, Mentioned
    <2>4. QED
        BY <1>8, <2>1, <2>2, <2>3 DEF Send
<1>9. ASSUME CleanupIdle PROVE LifeInv'
    BY <1>9, OnlyTakesAway DEF CleanupIdle, Mentioned
<1>10. ASSUME NEW s \in Sids, Exit(s) PROVE LifeInv'
    <2>1. \A r \in Sids : pc'[r] = "fetched" => pc[r] = "fetched"
        BY <1>10 DEF Exit, TypeInv, StateTypeOK, LoopTypeOK
    <2>2. QED
        BY <1>10, <2>1, OnlyTakesAway DEF Exit, Mentioned
<1>11. ASSUME NEW s \in Sids, Discard(s) PROVE LifeInv'
    BY <1>11, DiscardLifeInv
<1>12. ASSUME NEW s \in Sids, Take(s) PROVE LifeInv'
    BY <1>12, TakeLifeInv
<1>13. ASSUME NEW s \in Sids, StartPrompt(s) PROVE LifeInv'
    <2>1. \A r \in Sids : /\ cur'[r] = cur[r] \/ cur'[r] = None
                          /\ pc'[r] = "fetched" => pc[r] = "fetched" /\ cur'[r] = cur[r]
        BY <1>13 DEF StartPrompt, TypeInv, StateTypeOK, LoopTypeOK
    <2>2. key[s] \in Keys
        BY <1>13, WorkingFacts DEF StartPrompt, Working
    <2>3. \A i \in DOMAIN LoadRecentMessages(log, key[s]) :
             \E j \in DOMAIN log[key[s]] :
                LoadRecentMessages(log, key[s])[i] = log[key[s]][j]
        BY <2>2, LoadRecentOwn DEF TypeInv, StateTypeOK, StoreTypeOK
    <2>4. \A r \in Sids : context'[r] \in {context[r], LoadRecentMessages(log, key[s])}
        BY <1>13 DEF StartPrompt, TypeInv, StateTypeOK, LoopTypeOK
    <2>5. \A m \in Msgs : Mentioned(m)' => Mentioned(m)
        <3> SUFFICES ASSUME NEW m \in Msgs, NEW r \in Sids, Mentions(context'[r], m)
                     PROVE  Mentioned(m)
            BY <1>13 DEF StartPrompt, Mentioned
        <3>1. CASE context'[r] = context[r]
            BY <3>1 DEF Mentioned
        <3>2. CASE context'[r] = LoadRecentMessages(log, key[s])
            BY <2>2, <2>3, <3>2 DEF Mentioned, Mentions
        <3>3. QED
            BY <2>4, <3>1, <3>2
    <2>6. QED
        BY <1>13, <2>1, <2>5, OnlyTakesAway DEF StartPrompt
<1>14. ASSUME NEW s \in Sids, StreamChunk(s) PROVE LifeInv'
    <2>1. CASE UNCHANGED replied
        BY <1>14, <2>1, OnlyTakesAway DEF StreamChunk, Mentioned
    <2>2. CASE Reply(cur[s], "text")
        <3>1. /\ pc[s] = "prompt"
              /\ UNCHANGED <<to, sending, queue, pc, cur, context, log>>
              /\ {"text"} \cap {"busy", "timeout"} = {}
            BY <1>14 DEF StreamChunk
        <3>2. replied' = [replied EXCEPT ![cur[s]] = @ \cup {"text"}]
            BY <2>2 DEF Reply
        <3>3. QED
            BY <3>1, <3>2, WorkRepliesLifeInv
    <2>3. QED
        BY <1>14, <2>1, <2>2 DEF StreamChunk
<1>15. ASSUME NEW s \in Sids, NEW stop \in StopReasons, PromptReturns(s, stop)
      PROVE  LifeInv'
    <2>1. FinalReplies(s, stop) \cap {"busy", "timeout"} = {}
        BY DEF FinalReplies
    <2>2. \A r \in Sids : pc'[r] = "fetched" => pc[r] = "fetched"
        BY <1>15 DEF PromptReturns, TypeInv, StateTypeOK, LoopTypeOK
    <2>3. QED
        BY <1>15, <2>1, <2>2, WorkRepliesLifeInv DEF PromptReturns
<1>16. ASSUME NEW s \in Sids, PromptFails(s) PROVE LifeInv'
    <2>1. \A r \in Sids : /\ cur'[r] = cur[r] \/ cur'[r] = None
                          /\ pc'[r] = "fetched" => pc[r] = "fetched" /\ cur'[r] = cur[r]
        BY <1>16 DEF PromptFails, TypeInv, StateTypeOK, LoopTypeOK
    <2>2. CASE UNCHANGED replied
        BY <1>16, <2>1, <2>2, OnlyTakesAway DEF PromptFails, Mentioned
    <2>3. CASE Reply(cur[s], "error")
        <3>1. /\ pc[s] = "prompt" /\ UNCHANGED <<to, sending, queue, context, log>>
              /\ {"error"} \cap {"busy", "timeout"} = {}
            BY <1>16 DEF PromptFails
        <3>2. replied' = [replied EXCEPT ![cur[s]] = @ \cup {"error"}]
            BY <2>3 DEF Reply
        <3>3. QED
            BY <2>1, <3>1, <3>2, WorkRepliesLifeInv
    <2>4. QED
        BY <1>16, <2>2, <2>3 DEF PromptFails
<1>17. ASSUME NEW s \in Sids, StoreUser(s) PROVE LifeInv'
    <2>1. \A r \in Sids : pc'[r] = "fetched" => pc[r] = "fetched"
        BY <1>17 DEF StoreUser, TypeInv, StateTypeOK, LoopTypeOK
    <2>2. pc[s] \in Working \ {"fetched"} /\ "user" \in Roles
        BY <1>17 DEF StoreUser, Working, Roles
    <2>3. QED
        BY <1>17, <2>1, <2>2, StoredLifeInv DEF StoreUser
<1>18. ASSUME NEW s \in Sids, StoreReply(s) PROVE LifeInv'
    <2>1. \A r \in Sids : pc'[r] = "fetched" => pc[r] = "fetched"
        BY <1>18 DEF StoreReply, TypeInv, StateTypeOK, LoopTypeOK
    <2>2. pc[s] \in Working \ {"fetched"} /\ "assistant" \in Roles
        BY <1>18 DEF StoreReply, Working, Roles
    <2>3. QED
        BY <1>18, <2>1, <2>2, StoredLifeInv DEF StoreReply
<1>19. ASSUME NEW s \in Sids, Touch(s) PROVE LifeInv'
    <2>1. \A r \in Sids : /\ cur'[r] = cur[r] \/ cur'[r] = None
                          /\ pc'[r] = "fetched" => pc[r] = "fetched" /\ cur'[r] = cur[r]
        BY <1>19 DEF Touch, TypeInv, StateTypeOK, LoopTypeOK
    <2>2. QED
        BY <1>19, <2>1, OnlyTakesAway DEF Touch, Mentioned
<1>20. ASSUME Start PROVE LifeInv'
    <2>1. \A i \in Keys, j \in Msgs : Mentions(log'[i], j) => Mentions(log[i], j)
        <3>1. DOMAIN << >> = {}
            BY EmptySeq
        <3>2. QED
            BY <1>20, <3>1 DEF Start, DeleteLogs, Mentions
    <2>2. QED
        BY <1>20, <2>1, OnlyTakesAway DEF Start, Mentioned
<1>21. ASSUME StopCancel PROVE LifeInv'
    BY <1>21, OnlyTakesAway DEF StopCancel, Mentioned
<1>22. ASSUME StopKill PROVE LifeInv'
    BY <1>22, OnlyTakesAway DEF StopKill, Mentioned
<1>23. ASSUME ProcessEnds PROVE LifeInv'
    <2>1. \A r \in Sids : DOMAIN queue'[r] = {}
        BY <1>23, EmptySeq DEF ProcessEnds
    <2>2. \A r \in Sids : cur'[r] = None /\ pc'[r] # "fetched"
        BY <1>23 DEF ProcessEnds
    <2>3. QED
        BY <1>23, <2>1, <2>2, OnlyTakesAway DEF ProcessEnds, Mentioned
<1>24. ASSUME Tick PROVE LifeInv'
    BY <1>24, OnlyTakesAway DEF Tick, Mentioned
<1>25. ASSUME UNCHANGED vars PROVE LifeInv'
    BY <1>25, OnlyTakesAway DEF vars, Mentioned
<1>26. QED
    BY <1>1, <1>2, <1>3, <1>4, <1>5, <1>6, <1>7, <1>8, <1>9, <1>10, <1>11,
       <1>12, <1>13, <1>14, <1>15, <1>16, <1>17, <1>18, <1>19, <1>20, <1>21,
       <1>22, <1>23, <1>24, <1>25
    DEF Next, Caller, Consumer, LoopStep, PromptEnds

LEMMA LifeInvariant == Spec => [](TypeInv /\ LifeInv)
<1>1. Init => TypeInv /\ LifeInv
    BY InitTypeInv, InitLifeInv
<1>2. TypeInv /\ LifeInv /\ [Next]_vars => TypeInv' /\ LifeInv'
    BY NextTypeInv, NextLifeInv
<1>3. QED
    BY <1>1, <1>2, PTL DEF Spec

\* A message whose user was told to send it again had no other answer, nobody
\* works on it, and no history or prompt holds a trace of it.
THEOREM RejectedIsUnseen == Spec => []RejectedLeavesNoTrace
<1>1. LifeInv => RejectedLeavesNoTrace
    <2> SUFFICES ASSUME LifeInv, NEW m \in Msgs,
                        replied[m] \cap {"busy", "timeout"} # {}
                 PROVE  /\ Cardinality(replied[m]) = 1
                        /\ \A s \in Sids : cur[s] # m /\ ~Mentions(context[s], m)
                        /\ \A k \in Keys : ~Mentions(log[k], m)
        BY DEF RejectedLeavesNoTrace
    <2>1. replied[m] \in {{"busy"}, {"timeout"}} /\ ~Held(m) /\ ~Mentioned(m)
        BY DEF LifeInv, RejectedAlone, NotRejected
    <2>2. Cardinality(replied[m]) = 1
        BY <2>1, FS_Singleton
    <2>3. QED
        BY <2>1, <2>2 DEF Held, Mentioned
<1>2. QED
    BY <1>1, LifeInvariant, PTL

-----------------------------------------------------------------------------
(* The manager implements MessageLife. *)

InHand(m) == \E s \in Sids : cur[s] = m /\ pc[s] \in {"fetched", "prompt"}

StageMatches(m) ==
    /\ to[m] = None => StageOf(m) = "new"
    /\ Offered(m) => StageOf(m) = "offered"
    /\ Queued(m) => StageOf(m) = "queued"
    /\ InHand(m) => StageOf(m) = "working"
    /\ to[m] # None /\ ~Offered(m) /\ ~Queued(m) /\ ~InHand(m)
          => StageOf(m) = "settled"

\* In one place at a time, a message is in the stage of that place.
LEMMA StageCases == LifeInv => \A m \in Msgs : StageMatches(m)
<1> SUFFICES ASSUME LifeInv, NEW m \in Msgs PROVE StageMatches(m)
    OBVIOUS
<1>1. /\ Offered(m) => to[m] # None /\ ~Queued(m) /\ ~Held(m)
      /\ Queued(m) => to[m] # None /\ ~Held(m)
      /\ Held(m) => to[m] # None
      /\ InHand(m) => Held(m)
    BY DEF LifeInv, OnePlace, Unseen, InHand, Held
<1>2. StageOf(m) = CASE to[m] = None -> "new"
                     [] Offered(m) -> "offered"
                     [] Queued(m) -> "queued"
                     [] InHand(m) -> "working"
                     [] OTHER -> "settled"
    BY DEF StageOf, Offered, Queued, InHand
<1>3. QED
    BY <1>1, <1>2 DEF StageMatches

LEMMA StagesMatch ==
    ASSUME LifeInv, LifeInv'
    PROVE  \A m \in Msgs : StageMatches(m) /\ StageMatches(m)'
<1>1. \A m \in Msgs : StageMatches(m)
    BY StageCases
<1>2. (\A m \in Msgs : StageMatches(m))'
    BY StageCases, PTL
<1>3. QED
    BY <1>1, <1>2

\* Message m goes from one stage to another when no other message changes place.
LEMMA MoveRefines ==
    ASSUME LifeInv, LifeInv', NEW m \in Msgs, NEW from, NEW dest,
           StageOf(m) = from, StageOf(m)' = dest,
           \A j \in Msgs \ {m} : /\ to'[j] = to[j]
                                 /\ Offered(j)' <=> Offered(j)
                                 /\ Queued(j)' <=> Queued(j)
                                 /\ InHand(j)' <=> InHand(j)
    PROVE  Life!Move(m, from, dest)
<1>1. \A j \in Msgs \ {m} : StageOf(j)' = StageOf(j)
    BY StagesMatch DEF StageMatches
<1>2. QED
    BY <1>1 DEF Life!Move

\* What only takes messages away from where they are drops those messages.
LEMMA TakesAwayDrops ==
    ASSUME LifeInv, LifeInv', UNCHANGED replied,
           \A m \in Msgs : /\ to'[m] = to[m]
                           /\ Offered(m)' => Offered(m)
                           /\ Queued(m)' => Queued(m)
                           /\ InHand(m)' => InHand(m)
    PROVE  Life!LifeNext
<1> DEFINE ms == {m \in Msgs : StageOf(m)' # StageOf(m)}
<1>1. ASSUME NEW m \in Msgs, StageOf(m)' # StageOf(m)
      PROVE  StageOf(m) \in {"offered", "queued", "working"} /\ StageOf(m)' = "settled"
    BY <1>1, StagesMatch DEF StageMatches
<1>2. Life!Drop(ms)
    BY <1>1 DEF Life!Drop
<1>3. QED
    BY <1>2 DEF Life!LifeNext

LEMMA OfferRefines ==
    ASSUME TypeInv, LifeInv, LifeInv',
           NEW k \in Keys, NEW m \in Msgs, NEW s \in Sids, Arrives(k, m),
           sending' = sending \cup {<<s, m>>},
           UNCHANGED <<queue, cur>>,
           \A r \in Sids : pc'[r] = pc[r] \/ cur[r] = None
    PROVE  Life!LifeNext
<1>1. /\ to[m] = None /\ UNCHANGED replied
      /\ \A j \in Msgs \ {m} : to'[j] = to[j]
    BY DEF Arrives, TypeInv, StateTypeOK, MessageTypeOK
<1>2. \A j \in Msgs \ {m} : /\ Offered(j)' <=> Offered(j)
                            /\ Queued(j)' <=> Queued(j)
                            /\ InHand(j)' <=> InHand(j)
    BY NoneAssumption DEF Offered, Queued, InHand
<1>3. StageOf(m) = "new" /\ StageOf(m)' = "offered"
    BY <1>1, StagesMatch DEF StageMatches, Offered
<1>4. Life!Offer(m)
    BY <1>1, <1>2, <1>3, MoveRefines DEF Life!Offer
<1>5. QED
    BY <1>4 DEF Life!LifeNext

LEMMA RefuseRefines ==
    ASSUME TypeInv, LifeInv, LifeInv', NEW k \in Keys, NEW m \in Msgs,
           Arrives(k, m), UNCHANGED <<sending, queue, cur, pc>>
    PROVE  Life!LifeNext
<1>1. /\ to[m] = None /\ to'[m] = k /\ UNCHANGED replied
      /\ \A j \in Msgs \ {m} : to'[j] = to[j]
    BY DEF Arrives, TypeInv, StateTypeOK, MessageTypeOK
<1>2. \A j \in Msgs : /\ Offered(j)' <=> Offered(j)
                      /\ Queued(j)' <=> Queued(j)
                      /\ InHand(j)' <=> InHand(j)
    BY DEF Offered, Queued, InHand
<1>3. ~Offered(m) /\ ~Queued(m) /\ ~InHand(m)
    BY <1>1 DEF LifeInv, Unseen, InHand, Held
<1>4. StageOf(m) = "new" /\ StageOf(m)' = "settled"
    BY <1>1, <1>2, <1>3, StagesMatch, NoneAssumption DEF StageMatches
<1>5. Life!Refuse(m)
    BY <1>1, <1>2, <1>4, MoveRefines DEF Life!Refuse
<1>6. QED
    BY <1>5 DEF Life!LifeNext

LEMMA SendRefines ==
    ASSUME TypeInv, LifeInv, LifeInv', NEW s \in Sids, NEW m \in Msgs, Send(s, m)
    PROVE  Life!LifeNext
<1>1. /\ UNCHANGED <<to, cur, pc>>
      /\ <<s, m>> \in sending /\ sending' = sending \ {<<s, m>>}
    BY DEF Send, loopVars
<1>2. Offered(m) /\ ~Queued(m) /\ ~Held(m) /\ to[m] # None
    BY <1>1 DEF LifeInv, Offered, OnePlace, Unseen
<1>3. \A j \in Msgs : /\ Offered(j)' <=> Offered(j) /\ j # m
                      /\ InHand(j)' <=> InHand(j)
    BY <1>1 DEF Offered, InHand, LifeInv, OneOffer
<1>4. StageOf(m) = "offered"
    BY <1>2, StagesMatch DEF StageMatches
<1>5. CASE Accept(s, m)
    <2>1. \A j \in Msgs : Queued(j)' <=> Queued(j) \/ j = m
        BY <1>2, <1>5, LastAdded DEF Accept
    <2>2. StageOf(m)' = "queued"
        BY <2>1, StagesMatch DEF StageMatches
    <2>3. Life!Accept(m)
        BY <1>1, <1>3, <1>4, <1>5, <2>1, <2>2, MoveRefines DEF Accept, Life!Accept
    <2>4. QED
        BY <2>3 DEF Life!LifeNext
<1>6. CASE TurnAway(s, m)
    <2>1. UNCHANGED queue
        BY <1>6 DEF TurnAway
    <2>2. \A j \in Msgs : Queued(j)' <=> Queued(j)
        BY <2>1 DEF Queued
    <2>3. ~InHand(m)'
        BY <1>2, <1>3 DEF InHand, Held
    <2>4. StageOf(m)' = "settled"
        BY <1>1, <1>2, <1>3, <2>2, <2>3, StagesMatch DEF StageMatches
    <2>5. Life!Move(m, "offered", "settled")
        BY <1>1, <1>3, <1>4, <2>2, <2>4, MoveRefines
    <2>6. Life!Busy(m)
        BY <1>6, <2>5 DEF TurnAway, Reply, Life!Busy, Life!Tell
    <2>7. QED
        BY <2>6 DEF Life!LifeNext
<1>7. CASE ShutOut
    <2>1. UNCHANGED replied /\ \A j \in Msgs : Queued(j)' <=> Queued(j)
        BY <1>7 DEF ShutOut, Queued
    <2>2. QED
        BY <1>1, <1>3, <2>1, TakesAwayDrops
<1>8. QED
    BY <1>5, <1>6, <1>7 DEF Send

LEMMA DiscardRefines ==
    ASSUME TypeInv, LifeInv, LifeInv', NEW s \in Sids, Discard(s)
    PROVE  Life!LifeNext
<1>1. /\ UNCHANGED <<to, sending, cur, pc>>
      /\ queue[s] # << >> /\ queue' = [queue EXCEPT ![s] = Tail(queue[s])]
    BY DEF Discard, CanTake, loopVars
<1>2. PICK h \in Msgs : /\ h = Head(queue[s]) /\ Queued(h)
                        /\ \A j \in Msgs : Queued(j)' <=> Queued(j) /\ j # h
    BY <1>1, HeadTaken
<1>3. ~Offered(h) /\ ~Held(h) /\ to[h] # None
    BY <1>2 DEF LifeInv, OnePlace, Unseen
<1>4. \A j \in Msgs : /\ Offered(j)' <=> Offered(j)
                      /\ InHand(j)' <=> InHand(j)
    BY <1>1 DEF Offered, InHand
<1>5. ~InHand(h)
    BY <1>3 DEF InHand, Held
<1>6. StageOf(h) = "queued" /\ StageOf(h)' = "settled"
    BY <1>1, <1>2, <1>3, <1>4, <1>5, StagesMatch DEF StageMatches
<1>7. Life!Move(h, "queued", "settled")
    BY <1>1, <1>2, <1>4, <1>6, MoveRefines
<1>8. Life!Expire(h)
    BY <1>2, <1>7 DEF Discard, Reply, Life!Expire, Life!Tell
<1>9. QED
    BY <1>2, <1>8 DEF Life!LifeNext

LEMMA TakeRefines ==
    ASSUME TypeInv, LifeInv, LifeInv', NEW s \in Sids, Take(s)
    PROVE  Life!LifeNext
<1>1. /\ UNCHANGED <<to, sending, replied>> /\ pc[s] = "select"
      /\ queue[s] # << >> /\ queue' = [queue EXCEPT ![s] = Tail(queue[s])]
    BY DEF Take, CanTake, messageVars
<1>2. PICK h \in Msgs : /\ h = Head(queue[s]) /\ Queued(h)
                        /\ \A j \in Msgs : Queued(j)' <=> Queued(j) /\ j # h
    BY <1>1, HeadTaken
<1>3. \A r \in Sids : /\ cur'[r] = (IF r = s THEN h ELSE cur[r])
                      /\ pc'[r] = (IF r = s THEN "fetched" ELSE pc[r])
    BY <1>2 DEF Take, TypeInv, StateTypeOK, LoopTypeOK
<1>4. /\ InHand(h)'
      /\ \A j \in Msgs \ {h} : /\ Offered(j)' <=> Offered(j)
                               /\ InHand(j)' <=> InHand(j)
    BY <1>1, <1>3 DEF InHand, Offered
<1>5. StageOf(h) = "queued" /\ StageOf(h)' = "working"
    BY <1>2, <1>4, StagesMatch DEF StageMatches
<1>6. Life!Take(h)
    BY <1>1, <1>2, <1>4, <1>5, MoveRefines DEF Life!Take
<1>7. QED
    BY <1>2, <1>6 DEF Life!LifeNext

LEMMA StreamRefines ==
    ASSUME TypeInv, LifeInv, LifeInv', NEW s \in Sids, StreamChunk(s)
    PROVE  [Life!LifeNext]_Life!lifeVars
<1>1. /\ UNCHANGED <<to, sending, queue, cur, pc>> /\ pc[s] = "prompt"
    BY DEF StreamChunk
<1>2. PICK m \in Msgs : m = cur[s]
    BY <1>1, WorkingFacts DEF Working
<1>3. \A j \in Msgs : StageOf(j)' = StageOf(j)
    BY <1>1, StagesMatch DEF StageMatches, Offered, Queued, InHand
<1>4. UNCHANGED [j \in Msgs |-> StageOf(j)]
    BY <1>3
<1>5. CASE UNCHANGED replied
    BY <1>4, <1>5 DEF Life!lifeVars
<1>6. CASE Reply(cur[s], "text")
    <2>1. StageOf(m) = "working"
        BY <1>1, <1>2, StagesMatch DEF StageMatches, InHand
    <2>2. Life!Stream(m)
        BY <1>2, <1>4, <1>6, <2>1 DEF Reply, Life!Stream, Life!Tell
    <2>3. QED
        BY <2>2 DEF Life!LifeNext
<1>7. QED
    BY <1>5, <1>6 DEF StreamChunk

\* The end of a prompt settles its message, with at most one notice.
LEMMA FinishRefines ==
    ASSUME TypeInv, LifeInv, LifeInv', NEW s \in Sids, pc[s] = "prompt",
           UNCHANGED <<to, sending, queue>>,
           cur'[s] = None \/ pc'[s] \notin {"fetched", "prompt"},
           \A r \in Sids \ {s} : cur'[r] = cur[r] /\ pc'[r] = pc[r],
           NEW text \in SUBSET {"text"},
           NEW notice \in {{}, {"cancelled"}, {"refusal"}, {"error"}},
           replied' = [replied EXCEPT ![cur[s]] = @ \cup (text \cup notice)]
    PROVE  Life!LifeNext
<1>1. PICK m \in Msgs : m = cur[s] /\ m # None
    BY WorkingFacts, NoneAssumption DEF Working
<1>2. InHand(m) /\ ~Offered(m) /\ ~Queued(m) /\ to[m] # None
    BY <1>1 DEF InHand, Held, LifeInv, OnePlace, Unseen
<1>3. \A r \in Sids \ {s} : cur[r] # m
    BY <1>1 DEF LifeInv, OneWorker
<1>4. ~InHand(m)'
    BY <1>1, <1>3 DEF InHand
<1>5. \A j \in Msgs : /\ Offered(j)' <=> Offered(j)
                      /\ Queued(j)' <=> Queued(j)
    BY DEF Offered, Queued
<1>6. \A j \in Msgs \ {m} : InHand(j)' <=> InHand(j)
    BY <1>1, NoneAssumption DEF InHand, TypeInv, StateTypeOK, LoopTypeOK
<1>7. StageOf(m) = "working" /\ StageOf(m)' = "settled"
    BY <1>2, <1>4, <1>5, StagesMatch DEF StageMatches
<1>8. Life!Move(m, "working", "settled")
    BY <1>5, <1>6, <1>7, MoveRefines
<1>9. Life!Finish(m)
    BY <1>1, <1>8 DEF Life!Finish, Life!Tell
<1>10. QED
    BY <1>9 DEF Life!LifeNext

\* The object a session is created in holds no message.
LEMMA CreatedIdle ==
    ASSUME TypeInv, created + 1 \in Sids,
           pc' = [pc EXCEPT ![created + 1] = "select"]
    PROVE  \A r \in Sids : pc'[r] = pc[r] \/ cur[r] = None
<1>1. pc[created + 1] = "none"
    BY DEF TypeInv, StateTypeOK, ManagerTypeOK, CreatedInOrder
<1>2. cur[created + 1] = None
    BY <1>1 DEF TypeInv, WorkingOnMessage, Working
<1>3. QED
    BY <1>2 DEF TypeInv, StateTypeOK, LoopTypeOK

LEMMA NextRefines ==
    ASSUME TypeInv, LifeInv, LifeInv', [Next]_vars
    PROVE  [Life!LifeNext]_Life!lifeVars
<1> USE DEF managerVars, objectVars, loopVars, messageVars, storeVars, envVars
<1>1. ASSUME NEW k \in Keys, NEW m \in Msgs, EnqueueExisting(k, m)
      PROVE  Life!LifeNext
    <2>1. sessions[k] \in Sids
        BY <1>1 DEF EnqueueExisting, TypeInv, StateTypeOK, ManagerTypeOK
    <2>2. QED
        BY <1>1, <2>1, OfferRefines DEF EnqueueExisting
<1>2. ASSUME NEW k \in Keys, NEW m \in Msgs, NEW a \in Registry, EnqueueNew(k, m, a)
      PROVE  Life!LifeNext
    <2>1. created + 1 \in Sids /\ pc' = [pc EXCEPT ![created + 1] = "select"]
        BY <1>2 DEF EnqueueNew, Create
    <2>2. \A r \in Sids : pc'[r] = pc[r] \/ cur[r] = None
        BY <1>2, <2>1, CreatedIdle DEF EnqueueNew, Create
    <2>3. QED
        BY <1>2, <2>1, <2>2, OfferRefines DEF EnqueueNew
<1>3. ASSUME NEW k \in Keys, NEW m \in Msgs, NEW a \in Agents \ Registry,
             EnqueueUnknown(k, m, a)
      PROVE  Life!LifeNext
    BY <1>3, RefuseRefines DEF EnqueueUnknown
<1>4. ASSUME NEW k \in Keys, NEW a \in Registry, SwitchAgent(k, a)
      PROVE  Life!LifeNext
    <2>1. \A r \in Sids : pc'[r] = pc[r] \/ cur[r] = None
        BY <1>4, CreatedIdle DEF SwitchAgent, Create
    <2>2. \A m \in Msgs : InHand(m)' => InHand(m)
        BY <1>4, <2>1, NoneAssumption DEF SwitchAgent, InHand
    <2>3. QED
        BY <1>4, <2>2, TakesAwayDrops DEF SwitchAgent, Offered, Queued
<1>5. ASSUME NEW k \in Keys, CancelSession(k) PROVE Life!LifeNext
    <2>1. DOMAIN << >> = {}
        BY EmptySeq
    <2>2. \A m \in Msgs : Queued(m)' => Queued(m)
        BY <1>5, <2>1 DEF CancelSession, Queued, TypeInv, StateTypeOK, QueueTypeOK
    <2>3. QED
        BY <1>5, <2>2, TakesAwayDrops DEF CancelSession, Offered, InHand
<1>6. ASSUME NEW s \in Sids, NEW m \in Msgs, Send(s, m) PROVE Life!LifeNext
    BY <1>6, SendRefines
<1>7. ASSUME NEW s \in Sids, Exit(s) PROVE Life!LifeNext
    <2>1. \A m \in Msgs : InHand(m)' => InHand(m)
        BY <1>7 DEF Exit, InHand, TypeInv, StateTypeOK, LoopTypeOK
    <2>2. QED
        BY <1>7, <2>1, TakesAwayDrops DEF Exit, Offered, Queued
<1>8. ASSUME NEW s \in Sids, Discard(s) PROVE Life!LifeNext
    BY <1>8, DiscardRefines
<1>9. ASSUME NEW s \in Sids, Take(s) PROVE Life!LifeNext
    BY <1>9, TakeRefines
<1>10. ASSUME NEW s \in Sids, StartPrompt(s) PROVE Life!LifeNext
    <2>1. \A m \in Msgs : InHand(m)' => InHand(m)
        BY <1>10, NoneAssumption DEF StartPrompt, InHand, TypeInv, StateTypeOK, LoopTypeOK
    <2>2. QED
        BY <1>10, <2>1, TakesAwayDrops DEF StartPrompt, Offered, Queued
<1>11. ASSUME NEW s \in Sids, NEW stop \in StopReasons, PromptReturns(s, stop)
       PROVE  Life!LifeNext
    <2> DEFINE text == IF buf[s] = "held" THEN {"text"} ELSE {}
               notice == {stop} \cap {"cancelled", "refusal"}
    <2>1. /\ text \in SUBSET {"text"}
          /\ notice \in {{}, {"cancelled"}, {"refusal"}, {"error"}}
        OBVIOUS
    <2>2. replied' = [replied EXCEPT ![cur[s]] = @ \cup (text \cup notice)]
        BY <1>11 DEF PromptReturns, FinalReplies
    <2>3. /\ pc[s] = "prompt" /\ UNCHANGED <<to, sending, queue>>
          /\ pc'[s] = "store_user"
          /\ \A r \in Sids \ {s} : cur'[r] = cur[r] /\ pc'[r] = pc[r]
        BY <1>11 DEF PromptReturns, TypeInv, StateTypeOK, LoopTypeOK
    <2> HIDE DEF text, notice
    <2>4. QED
        BY <2>1, <2>2, <2>3, FinishRefines
<1>12. ASSUME NEW s \in Sids, PromptFails(s) PROVE Life!LifeNext
    <2>1. /\ pc[s] = "prompt" /\ UNCHANGED <<to, sending, queue>>
          /\ cur'[s] = None
          /\ \A r \in Sids \ {s} : cur'[r] = cur[r] /\ pc'[r] = pc[r]
        BY <1>12 DEF PromptFails, TypeInv, StateTypeOK, LoopTypeOK
    <2>2. CASE UNCHANGED replied
        <3>1. \A m \in Msgs : InHand(m)' => InHand(m)
            BY <2>1, NoneAssumption DEF InHand
        <3>2. QED
            BY <2>1, <2>2, <3>1, TakesAwayDrops DEF Offered, Queued
    <2>3. CASE Reply(cur[s], "error")
        <3>1. replied' = [replied EXCEPT ![cur[s]] = @ \cup ({} \cup {"error"})]
            BY <2>3 DEF Reply
        <3>2. /\ {} \in SUBSET {"text"}
              /\ {"error"} \in {{}, {"cancelled"}, {"refusal"}, {"error"}}
            OBVIOUS
        <3>3. QED
            BY <2>1, <3>1, <3>2, FinishRefines
    <2>4. QED
        BY <1>12, <2>2, <2>3 DEF PromptFails
<1>13. ASSUME NEW s \in Sids, StoreUser(s) \/ StoreReply(s) PROVE Life!LifeNext
    <2>1. \A m \in Msgs : InHand(m)' => InHand(m)
        BY <1>13 DEF StoreUser, StoreReply, InHand, TypeInv, StateTypeOK, LoopTypeOK
    <2>2. QED
        BY <1>13, <2>1, TakesAwayDrops DEF StoreUser, StoreReply, Offered, Queued
<1>14. ASSUME NEW s \in Sids, Touch(s) PROVE Life!LifeNext
    <2>1. \A m \in Msgs : InHand(m)' => InHand(m)
        BY <1>14, NoneAssumption DEF Touch, InHand, TypeInv, StateTypeOK, LoopTypeOK
    <2>2. QED
        BY <1>14, <2>1, TakesAwayDrops DEF Touch, Offered, Queued
<1>15. ASSUME ProcessEnds PROVE Life!LifeNext
    <2>1. \A m \in Msgs : ~Offered(m)' /\ ~Queued(m)' /\ ~InHand(m)'
        <3>1. DOMAIN << >> = {}
            BY EmptySeq
        <3>2. QED
            BY <1>15, <3>1, NoneAssumption DEF ProcessEnds, Offered, Queued, InHand
    <2>2. QED
        BY <1>15, <2>1, TakesAwayDrops DEF ProcessEnds
<1>16. ASSUME UNCHANGED <<to, sending, queue, cur, pc, replied>>
       PROVE  Life!LifeNext
    BY <1>16, TakesAwayDrops DEF Offered, Queued, InHand
<1>17. ASSUME NEW k \in Keys, RemoveSession(k) \/ EraseMessages(k)
       PROVE  Life!LifeNext
    BY <1>16, <1>17 DEF RemoveSession, EraseMessages
<1>18. ASSUME CleanupIdle \/ Start \/ StopCancel \/ StopKill \/ Tick \/ UNCHANGED vars
       PROVE  Life!LifeNext
    BY <1>16, <1>18 DEF CleanupIdle, Start, StopCancel, StopKill, Tick, vars
<1>19. QED
    BY <1>1, <1>2, <1>3, <1>4, <1>5, <1>6, <1>7, <1>8, <1>9, <1>10, <1>11,
       <1>12, <1>13, <1>14, <1>15, <1>17, <1>18, StreamRefines
    DEF Next, Caller, Consumer, LoopStep, PromptEnds

\* Whatever sessions, queues and goroutines do, a message lives as MessageLife
\* says: it is offered, waits and is worked on at most once, and every reply to
\* it belongs to the stage it is in.
THEOREM ManagerImplementsLife == Spec => ImplementsLife
<1>1. Init => Life!LifeInit
    BY DEF Init, Life!LifeInit, StageOf
<1>2. TypeInv /\ LifeInv /\ LifeInv' /\ [Next]_vars => [Life!LifeNext]_Life!lifeVars
    BY NextRefines
<1>3. QED
    BY <1>1, <1>2, LifeInvariant, PTL DEF Spec, ImplementsLife, Life!LifeSpec

-----------------------------------------------------------------------------
(* A session has been active since the last of its messages came. *)

\* The message m is about to be sent to, waits for or is in work at s.
Holds(s, m) ==
    \/ <<s, m>> \in sending
    \/ cur[s] = m
    \/ \E i \in DOMAIN queue[s] : queue[s][i] = m

ActiveSince ==
    \A s \in Sids :
        /\ lastActivity[s] <= now
        /\ \A m \in Msgs : Holds(s, m) => enqueuedAt[m] <= lastActivity[s]

TimeFacts ==
    /\ now \in Nat
    /\ lastActivity \in [Sids -> Nat]
    /\ enqueuedAt \in [Msgs -> Nat]

LEMMA TypedTimes == TypeInv => TimeFacts
BY BoundsAssumption
DEF TypeInv, StateTypeOK, ObjectTypeOK, MessageTypeOK, EnvTypeOK, TimeFacts

\* A message that is held has an owner.
LEMMA HeldIsOwned ==
    ASSUME TypeInv, UsersIsolated, NEW s \in Sids, NEW m \in Msgs, Holds(s, m)
    PROVE  to[m] # None
<1> USE DEF TypeInv
<1>1. s <= created => key[s] \in Keys
    BY DEF CreatedInOrder
<1>2. CASE <<s, m>> \in sending
    <2>1. s <= created /\ to[m] = key[s]
        BY <1>2 DEF CreatedInOrder, UsersIsolated
    <2>2. QED
        BY <1>1, <2>1, NoneAssumption
<1>3. CASE cur[s] = m
    <2>1. cur[s] # None
        BY <1>3, NoneAssumption
    <2>2. pc[s] \in Working
        BY <2>1 DEF WorkingOnMessage
    <2>3. key[s] \in Keys
        BY <2>2, WorkingFacts
    <2>4. QED
        BY <1>3, <2>1, <2>3, NoneAssumption DEF UsersIsolated
<1>4. ASSUME NEW i \in DOMAIN queue[s], queue[s][i] = m PROVE to[m] # None
    <2>1. s <= created
        BY EmptySeq, BoundsAssumption
        DEF CreatedInOrder, StateTypeOK, ManagerTypeOK, Sids
    <2>2. to[m] = key[s]
        BY <1>4 DEF UsersIsolated
    <2>3. QED
        BY <1>1, <2>1, <2>2, NoneAssumption
<1>5. QED
    BY <1>2, <1>3, <1>4 DEF Holds

\* Steps that bring no message: what is held was held by the same session.
LEMMA ActiveKept ==
    ASSUME TypeInv, TypeInv', ActiveSince,
           UNCHANGED enqueuedAt, now' >= now,
           \A s \in Sids : lastActivity'[s] \in {lastActivity[s], now},
           \A s \in Sids, m \in Msgs : Holds(s, m)' => Holds(s, m)
    PROVE  ActiveSince'
<1>1. TimeFacts /\ TimeFacts'
    BY TypedTimes, PTL
<1>2. \A s \in Sids : lastActivity[s] <= lastActivity'[s] /\ lastActivity'[s] <= now'
    BY <1>1 DEF ActiveSince, TimeFacts
<1>3. ASSUME NEW s \in Sids, NEW m \in Msgs, Holds(s, m)'
      PROVE  enqueuedAt'[m] <= lastActivity'[s]
    <2>1. enqueuedAt[m] <= lastActivity[s]
        BY <1>3 DEF ActiveSince
    <2>2. enqueuedAt[m] \in Nat /\ lastActivity[s] \in Nat /\ lastActivity'[s] \in Nat
        BY <1>1 DEF TimeFacts
    <2>3. QED
        BY <1>2, <2>1, <2>2
<1>4. QED
    BY <1>2, <1>3 DEF ActiveSince

\* A message arrives, for the session r or for none.
ArrivesAt(r, m) ==
    /\ to[m] = None
    /\ enqueuedAt' = [enqueuedAt EXCEPT ![m] = now] /\ now' = now
    /\ \A s \in Sids : lastActivity'[s] = IF s = r THEN now ELSE lastActivity[s]
    /\ \A s \in Sids, n \in Msgs :
           Holds(s, n)' => Holds(s, n) \/ (s = r /\ n = m)

LEMMA ArrivalActive ==
    ASSUME TypeInv, UsersIsolated, ActiveSince,
           NEW r, NEW m \in Msgs, ArrivesAt(r, m)
    PROVE  ActiveSince'
<1> USE DEF ArrivesAt
<1>1. TimeFacts
    BY TypedTimes
<1>2. \A s \in Sids : lastActivity[s] <= lastActivity'[s] /\ lastActivity'[s] <= now'
    BY <1>1 DEF ActiveSince, TimeFacts
<1>3. ASSUME NEW s \in Sids, NEW n \in Msgs, Holds(s, n)'
      PROVE  enqueuedAt'[n] <= lastActivity'[s]
    <2>1. CASE n = m
        <3>1. s = r
            BY <1>3, <2>1, HeldIsOwned
        <3>2. QED
            BY <1>1, <2>1, <3>1 DEF TimeFacts
    <2>2. CASE n # m
        <3>1. enqueuedAt'[n] = enqueuedAt[n] /\ Holds(s, n)
            BY <1>1, <1>3, <2>2 DEF TimeFacts
        <3>2. enqueuedAt[n] <= lastActivity[s]
            BY <3>1 DEF ActiveSince
        <3>3. lastActivity'[s] \in Nat
            BY <1>1 DEF TimeFacts
        <3>4. QED
            BY <1>1, <1>2, <3>1, <3>2, <3>3 DEF TimeFacts
    <2>3. QED
        BY <2>1, <2>2
<1>4. QED
    BY <1>2, <1>3 DEF ActiveSince

\* Receiving from a queue leaves what stood behind.
LEMMA ReceivedHolds ==
    ASSUME TypeInv, NEW s \in Sids, queue[s] # << >>,
           queue' = [queue EXCEPT ![s] = Tail(queue[s])],
           UNCHANGED sending, NEW r \in Sids, NEW m \in Msgs,
           Holds(r, m)',
           cur'[r] = m => cur[r] = m \/ (r = s /\ m = Head(queue[s]))
    PROVE  Holds(r, m)
<1>1. queue \in [Sids -> Seq(Msgs)]
    BY DEF TypeInv, StateTypeOK, QueueTypeOK
<1>2. /\ DOMAIN queue[s] = 1 .. Len(queue[s]) /\ Len(queue[s]) \in Nat \ {0}
      /\ Head(queue[s]) = queue[s][1]
      /\ DOMAIN Tail(queue[s]) = 1 .. Len(queue[s]) - 1
      /\ \A i \in 1 .. Len(queue[s]) - 1 : Tail(queue[s])[i] = queue[s][i + 1]
    BY <1>1, HeadTailProperties, LenProperties, EmptySeq
<1>3. CASE <<r, m>> \in sending'
    BY <1>3 DEF Holds
<1>4. CASE cur'[r] = m
    BY <1>2, <1>4 DEF Holds
<1>5. ASSUME NEW i \in DOMAIN queue'[r], queue'[r][i] = m PROVE Holds(r, m)
    <2>1. CASE r = s
        <3>1. i \in 1 .. Len(queue[s]) - 1 /\ queue[s][i + 1] = m
            BY <1>1, <1>2, <1>5, <2>1
        <3>2. i + 1 \in DOMAIN queue[s]
            BY <1>2, <3>1
        <3>3. QED
            BY <2>1, <3>1, <3>2 DEF Holds
    <2>2. CASE r # s
        BY <1>1, <1>5, <2>2 DEF Holds
    <2>3. QED
        BY <2>1, <2>2
<1>6. QED
    BY <1>3, <1>4, <1>5 DEF Holds

\* Sending to a channel moves a message from the handler to the queue.
LEMMA SentHolds ==
    ASSUME TypeInv, NEW s \in Sids, NEW m \in Msgs, Send(s, m),
           NEW r \in Sids, NEW n \in Msgs, Holds(r, n)'
    PROVE  Holds(r, n)
<1> USE DEF loopVars
<1>1. CASE <<r, n>> \in sending'
    BY <1>1 DEF Send, Holds
<1>2. CASE cur'[r] = n
    BY <1>2 DEF Send, Holds
<1>3. ASSUME NEW i \in DOMAIN queue'[r], queue'[r][i] = n PROVE Holds(r, n)
    <2>1. CASE UNCHANGED queue
        BY <1>3, <2>1 DEF Holds
    <2>2. CASE Accept(s, m)
        <3>1. queue \in [Sids -> Seq(Msgs)]
            BY DEF TypeInv, StateTypeOK, QueueTypeOK
        <3>2. queue' = [queue EXCEPT ![s] = Append(queue[s], m)]
            BY <2>2 DEF Accept
        <3>3. /\ DOMAIN Append(queue[s], m) = 1 .. Len(queue[s]) + 1
              /\ \A x \in 1 .. Len(queue[s]) : Append(queue[s], m)[x] = queue[s][x]
              /\ Append(queue[s], m)[Len(queue[s]) + 1] = m
              /\ DOMAIN queue[s] = 1 .. Len(queue[s]) /\ Len(queue[s]) \in Nat
            BY <3>1, AppendProperties, LenProperties
        <3>4. CASE r = s /\ i = Len(queue[s]) + 1
            BY <1>3, <3>1, <3>2, <3>3, <3>4 DEF Send, Holds
        <3>5. CASE r = s /\ i # Len(queue[s]) + 1
            <4>1. i \in DOMAIN queue[s] /\ queue[s][i] = n
                BY <1>3, <3>1, <3>2, <3>3, <3>5
            <4>2. QED
                BY <3>5, <4>1 DEF Holds
        <3>6. CASE r # s
            BY <1>3, <3>1, <3>2, <3>6 DEF Holds
        <3>7. QED
            BY <3>4, <3>5, <3>6
    <2>3. QED
        BY <2>1, <2>2 DEF Send, TurnAway, ShutOut
<1>4. QED
    BY <1>1, <1>2, <1>3 DEF Holds

LEMMA NextActive ==
    ASSUME TypeInv, MapInv, UsersIsolated, ActiveSince, [Next]_vars
    PROVE  ActiveSince'
<1> USE DEF managerVars, objectVars, loopVars, messageVars, envVars
<1>0. TypeInv' /\ TimeFacts
    BY NextTypeInv, TypedTimes
<1>t. now >= now
    BY <1>0 DEF TimeFacts
<1>1. CASE UNCHANGED <<sending, queue, cur, enqueuedAt, lastActivity, now>>
    BY <1>0, <1>t, <1>1, ActiveKept DEF Holds
<1>2. ASSUME NEW k \in Keys, NEW m \in Msgs, EnqueueExisting(k, m)
      PROVE  ActiveSince'
    <2>1. \A s \in Sids, n \in Msgs :
            Holds(s, n)' => Holds(s, n) \/ (s = sessions[k] /\ n = m)
        BY <1>2 DEF EnqueueExisting, Holds
    <2>2. \A s \in Sids :
            lastActivity'[s] = IF s = sessions[k] THEN now ELSE lastActivity[s]
        BY <1>0, <1>2 DEF EnqueueExisting, Refreshed, TimeFacts
    <2>3. to[m] = None /\ enqueuedAt' = [enqueuedAt EXCEPT ![m] = now] /\ now' = now
        BY <1>2 DEF EnqueueExisting, Arrives
    <2>4. ArrivesAt(sessions[k], m)
        BY <2>1, <2>2, <2>3 DEF ArrivesAt
    <2>5. QED
        BY <2>4, ArrivalActive
<1>3. ASSUME NEW k \in Keys, NEW m \in Msgs, NEW a \in Registry, EnqueueNew(k, m, a)
      PROVE  ActiveSince'
    <2>0. PICK r : r = created + 1
        OBVIOUS
    <2>1. \A s \in Sids, n \in Msgs :
            Holds(s, n)' => Holds(s, n) \/ (s = r /\ n = m)
        BY <1>3, <2>0 DEF EnqueueNew, Holds
    <2>2. \A s \in Sids :
            lastActivity'[s] = IF s = r THEN now ELSE lastActivity[s]
        BY <1>0, <1>3, <2>0 DEF EnqueueNew, Create, TimeFacts
    <2>3. to[m] = None /\ enqueuedAt' = [enqueuedAt EXCEPT ![m] = now] /\ now' = now
        BY <1>3 DEF EnqueueNew, Arrives
    <2>4. ArrivesAt(r, m)
        BY <2>1, <2>2, <2>3 DEF ArrivesAt
    <2>5. QED
        BY <2>4, ArrivalActive
<1>4. ASSUME NEW k \in Keys, NEW m \in Msgs, NEW a \in Agents \ Registry,
             EnqueueUnknown(k, m, a)
      PROVE  ActiveSince'
    <2>1. \A s \in Sids, n \in Msgs :
            Holds(s, n)' => Holds(s, n) \/ (s = 0 /\ n = m)
        BY <1>4 DEF EnqueueUnknown, Holds
    <2>2. \A s \in Sids :
            lastActivity'[s] = IF s = 0 THEN now ELSE lastActivity[s]
        BY <1>0, <1>4 DEF EnqueueUnknown, Sids
    <2>3. to[m] = None /\ enqueuedAt' = [enqueuedAt EXCEPT ![m] = now] /\ now' = now
        BY <1>4 DEF EnqueueUnknown, Arrives
    <2>4. ArrivesAt(0, m)
        BY <2>1, <2>2, <2>3 DEF ArrivesAt
    <2>5. QED
        BY <2>4, ArrivalActive
<1>5. ASSUME NEW k \in Keys, NEW a \in Registry, SwitchAgent(k, a)
      PROVE  ActiveSince'
    <2>1. \A s \in Sids : lastActivity'[s] \in {lastActivity[s], now}
        BY <1>0, <1>5 DEF SwitchAgent, Create, TimeFacts
    <2>2. \A s \in Sids, n \in Msgs : Holds(s, n)' => Holds(s, n)
        BY <1>5 DEF SwitchAgent, Holds
    <2>3. QED
        BY <1>0, <1>t, <1>5, <2>1, <2>2, ActiveKept DEF SwitchAgent
<1>6. ASSUME NEW k \in Keys, CancelSession(k) PROVE ActiveSince'
    <2>1. \A s \in Sids, n \in Msgs : Holds(s, n)' => Holds(s, n)
        BY <1>6, EmptySeq
        DEF CancelSession, Holds, TypeInv, StateTypeOK, QueueTypeOK
    <2>2. QED
        BY <1>0, <1>t, <1>6, <2>1, ActiveKept DEF CancelSession
<1>7. ASSUME NEW k \in Keys, RemoveSession(k) \/ EraseMessages(k) PROVE ActiveSince'
    BY <1>1, <1>7 DEF RemoveSession, EraseMessages
<1>8. ASSUME NEW s \in Sids, NEW m \in Msgs, Send(s, m) PROVE ActiveSince'
    <2>1. \A r \in Sids, n \in Msgs : Holds(r, n)' => Holds(r, n)
        BY <1>8, SentHolds
    <2>2. QED
        BY <1>0, <1>t, <1>8, <2>1, ActiveKept DEF Send
<1>9. ASSUME NEW s \in Sids, Discard(s) \/ Take(s) PROVE ActiveSince'
    <2>1. /\ queue[s] # << >> /\ queue' = [queue EXCEPT ![s] = Tail(queue[s])]
          /\ UNCHANGED <<sending, enqueuedAt, lastActivity, now>>
          /\ \A r \in Sids : cur'[r] = cur[r] \/ (r = s /\ cur'[r] = Head(queue[s]))
        BY <1>9 DEF Discard, Take, CanTake, TypeInv, StateTypeOK, LoopTypeOK
    <2>2. \A r \in Sids, n \in Msgs : Holds(r, n)' => Holds(r, n)
        BY <2>1, ReceivedHolds
    <2>3. QED
        BY <1>0, <1>t, <2>1, <2>2, ActiveKept
<1>10. ASSUME NEW s \in Sids, StartPrompt(s) \/ PromptFails(s) \/ Touch(s)
       PROVE  ActiveSince'
    <2>1. /\ UNCHANGED <<sending, queue, enqueuedAt, lastActivity, now>>
          /\ cur' = cur \/ cur' = [cur EXCEPT ![s] = None]
        BY <1>10 DEF StartPrompt, PromptFails, Touch
    <2>2. \A r \in Sids, n \in Msgs : Holds(r, n)' => Holds(r, n)
        BY <2>1, NoneAssumption DEF Holds, TypeInv, StateTypeOK, LoopTypeOK
    <2>3. QED
        BY <1>0, <1>t, <2>1, <2>2, ActiveKept
<1>11. ASSUME NEW s \in Sids, NEW stop \in StopReasons, PromptReturns(s, stop)
       PROVE  ActiveSince'
    <2>1. \A r \in Sids : lastActivity'[r] \in {lastActivity[r], now}
        BY <1>0, <1>11 DEF PromptReturns, Refreshed, TimeFacts
    <2>2. \A r \in Sids, n \in Msgs : Holds(r, n)' => Holds(r, n)
        BY <1>11 DEF PromptReturns, Holds
    <2>3. QED
        BY <1>0, <1>t, <1>11, <2>1, <2>2, ActiveKept DEF PromptReturns
<1>12. ASSUME NEW s \in Sids, Exit(s) \/ StreamChunk(s) \/ StoreUser(s) \/ StoreReply(s)
       PROVE  ActiveSince'
    BY <1>1, <1>12 DEF Exit, StreamChunk, StoreUser, StoreReply
<1>13. CASE CleanupIdle \/ Start \/ StopCancel \/ StopKill
    BY <1>1, <1>13 DEF CleanupIdle, Start, StopCancel, StopKill
<1>14. CASE ProcessEnds
    <2>1. \A r \in Sids, n \in Msgs : ~Holds(r, n)'
        BY <1>14, EmptySeq, NoneAssumption DEF ProcessEnds, Holds
    <2>2. QED
        BY <1>0, <1>t, <1>14, <2>1, ActiveKept DEF ProcessEnds
<1>15. CASE Tick
    <2>1. now' >= now
        BY <1>0, <1>15 DEF Tick, TimeFacts
    <2>2. \A r \in Sids, n \in Msgs : Holds(r, n)' => Holds(r, n)
        BY <1>15 DEF Tick, Holds
    <2>3. QED
        BY <1>0, <1>15, <2>1, <2>2, ActiveKept DEF Tick
<1>16. CASE UNCHANGED vars
    BY <1>1, <1>16 DEF vars
<1>17. QED
    BY <1>2, <1>3, <1>4, <1>5, <1>6, <1>7, <1>8, <1>9, <1>10, <1>11, <1>12, <1>13,
       <1>14, <1>15, <1>16
    DEF Next, Caller, Consumer, LoopStep, PromptEnds

LEMMA InitActive == Init => ActiveSince
<1>1. DOMAIN << >> = {}
    BY EmptySeq
<1>2. QED
    BY <1>1, NoneAssumption, BoundsAssumption DEF Init, ActiveSince, Holds, Sids

-----------------------------------------------------------------------------
(* So has every reading of it. *)

\* The messages a session holds came no later than any time of activity that a
\* section under m.mu may have read of it.
ReadingsSince ==
    \A k \in Keys : sessions[k] # NoSession =>
        \A r \in seen[k], m \in Msgs :
            Holds(sessions[k], m) => enqueuedAt[m] <= r.activity

\* Without m.mu no session comes to hold a message it did not.
Shrinks ==
    /\ UNCHANGED <<sessions, enqueuedAt>>
    /\ \A s \in Sids, m \in Msgs : Holds(s, m)' => Holds(s, m)

LEMMA NextHolds ==
    ASSUME TypeInv, [Next]_vars
    PROVE  Locked \/ Shrinks
<1> USE DEF managerVars, objectVars, loopVars, messageVars, envVars
<1>1. CASE UNCHANGED <<sending, queue, cur, enqueuedAt, sessions>>
    BY <1>1 DEF Shrinks, Holds
<1>2. ASSUME NEW k \in Keys, Caller(k) PROVE Locked \/ Shrinks
    BY <1>1, <1>2
    DEF Caller, EnqueueExisting, EnqueueNew, EnqueueUnknown, SwitchAgent, CancelSession,
        RemoveSession, EraseMessages
<1>3. ASSUME NEW s \in Sids, NEW m \in Msgs, Send(s, m) PROVE Shrinks
    <2>1. \A r \in Sids, n \in Msgs : Holds(r, n)' => Holds(r, n)
        BY <1>3, SentHolds
    <2>2. QED
        BY <1>3, <2>1 DEF Send, Shrinks
<1>4. ASSUME NEW s \in Sids, Discard(s) \/ Take(s) PROVE Shrinks
    <2>1. /\ queue[s] # << >> /\ queue' = [queue EXCEPT ![s] = Tail(queue[s])]
          /\ UNCHANGED <<sending, enqueuedAt, sessions>>
          /\ \A r \in Sids : cur'[r] = cur[r] \/ (r = s /\ cur'[r] = Head(queue[s]))
        BY <1>4 DEF Discard, Take, CanTake, TypeInv, StateTypeOK, LoopTypeOK
    <2>2. \A r \in Sids, n \in Msgs : Holds(r, n)' => Holds(r, n)
        BY <2>1, ReceivedHolds
    <2>3. QED
        BY <2>1, <2>2 DEF Shrinks
<1>5. ASSUME NEW s \in Sids, StartPrompt(s) \/ PromptFails(s) \/ Touch(s)
      PROVE  Shrinks
    <2>1. /\ UNCHANGED <<sending, queue, enqueuedAt, sessions>>
          /\ cur' = cur \/ cur' = [cur EXCEPT ![s] = None]
        BY <1>5 DEF StartPrompt, PromptFails, Touch
    <2>2. \A r \in Sids, n \in Msgs : Holds(r, n)' => Holds(r, n)
        BY <2>1, NoneAssumption DEF Holds, TypeInv, StateTypeOK, LoopTypeOK
    <2>3. QED
        BY <2>1, <2>2 DEF Shrinks
<1>6. ASSUME NEW s \in Sids, NEW stop \in StopReasons, PromptReturns(s, stop)
      PROVE  Shrinks
    <2>1. UNCHANGED <<sending, queue, cur, enqueuedAt, sessions>>
        BY <1>6 DEF PromptReturns
    <2>2. QED
        BY <2>1 DEF Shrinks, Holds
<1>7. ASSUME NEW s \in Sids, StreamChunk(s) \/ StoreUser(s) \/ StoreReply(s)
      PROVE  Shrinks
    <2>1. UNCHANGED <<sending, queue, cur, enqueuedAt, sessions>>
        BY <1>7 DEF StreamChunk, StoreUser, StoreReply
    <2>2. QED
        BY <2>1 DEF Shrinks, Holds
<1>8. ASSUME NEW s \in Sids, Exit(s) PROVE Locked
    BY <1>8 DEF Exit
<1>9. CASE CleanupIdle \/ StopKill \/ ProcessEnds
    BY <1>9 DEF CleanupIdle, StopKill, ProcessEnds
<1>10. CASE Start \/ StopCancel \/ Tick \/ UNCHANGED vars
    BY <1>1, <1>10 DEF Start, StopCancel, Tick, vars
<1>11. QED
    BY <1>2, <1>3, <1>4, <1>5, <1>6, <1>7, <1>8, <1>9, <1>10
    DEF Next, Consumer, LoopStep, PromptEnds

LEMMA NextReadings ==
    ASSUME TypeInv, TypeInv', ActiveSince', ReadingsSince, [Next]_vars
    PROVE  ReadingsSince'
<1> SUFFICES ASSUME NEW k \in Keys, sessions'[k] # NoSession, NEW r \in seen'[k],
                    NEW m \in Msgs, Holds(sessions[k], m)'
             PROVE  enqueuedAt'[m] <= r.activity
    BY DEF ReadingsSince
<1>1. CASE r \in Current(k)'
    <2>1. r.activity = lastActivity'[sessions'[k]] /\ sessions'[k] \in Sids
        BY <1>1 DEF Current, TypeInv, StateTypeOK, ManagerTypeOK
    <2>2. QED
        BY <2>1 DEF ActiveSince
<1>2. CASE Shrinks /\ r \in seen[k]
    <2>1. sessions'[k] = sessions[k] /\ enqueuedAt'[m] = enqueuedAt[m]
          /\ sessions[k] \in Sids
        BY <1>2 DEF Shrinks, TypeInv, StateTypeOK, ManagerTypeOK
    <2>2. Holds(sessions[k], m)
        BY <1>2, <2>1 DEF Shrinks, Holds
    <2>3. QED
        BY <1>2, <2>1, <2>2 DEF ReadingsSince
<1>3. Locked => r \in Current(k)'
    BY DEF Locked
<1>4. r \in Current(k)' \/ r \in seen[k]
    BY NextReads DEF Reads, Locked, Unlocked
<1>5. QED
    BY <1>1, <1>2, <1>3, <1>4, NextHolds

ReadingInv ==
    TypeInv /\ MapInv /\ UsersIsolated /\ SeenInv /\ ActiveSince /\ ReadingsSince

LEMMA InitReading == Init => ReadingInv
BY InitTypeInv, InitMapInv, InitIsolated, InitSeen, InitActive
DEF ReadingInv, ReadingsSince, Init

LEMMA NextReading == ReadingInv /\ [Next]_vars => ReadingInv'
<1> SUFFICES ASSUME ReadingInv, [Next]_vars PROVE ReadingInv'
    OBVIOUS
<1> USE DEF ReadingInv
<1>1. TypeInv' /\ MapInv' /\ UsersIsolated'
    BY NextTypeInv, NextMapInv, NextIsolated
<1>2. SeenInv'
    BY <1>1, NextReads, ReadsSeen
<1>3. ActiveSince'
    BY NextActive
<1>4. ReadingsSince'
    BY <1>1, <1>3, NextReadings
<1>5. QED
    BY <1>1, <1>2, <1>3, <1>4

-----------------------------------------------------------------------------
(* PendingSparedFromOthers *)

\* A session that cleanup removes was seen idle, and has held its messages for
\* longer than it may idle.
LEMMA IdleHeld ==
    ASSUME ReadingInv, NEW gone \in IdleSets, NEW k \in gone,
           NEW m \in Msgs, Holds(sessions[k], m)
    PROVE  now - enqueuedAt[m] > IdleTimeout
<1> USE DEF ReadingInv
<1>1. k \in Keys /\ sessions[k] # NoSession /\ k \in Mapped(sessions)
    BY DEF IdleSets, Mapped
<1>2. PICK at \in 0 .. now, first \in seen[k], second \in seen[k] :
            Idle(at, first, second)
    BY <1>1 DEF IdleSets
<1>3. enqueuedAt[m] <= first.activity
    BY <1>1 DEF ReadingsSince
<1>4. first.activity \in Int
    BY <1>1 DEF SeenInv, SeenTypeOK
<1>5. now \in Nat /\ enqueuedAt[m] \in Nat /\ IdleTimeout \in Int
    BY TypedTimes, LimitsAssumption DEF TimeFacts
<1>6. at - first.activity > IdleTimeout
    BY <1>2 DEF Idle
<1>7. QED
    BY <1>2, <1>3, <1>4, <1>5, <1>6

LEMMA PendingSparedStep ==
    ASSUME ReadingInv, Next, NEW s \in Sids,
           queue[s] # << >>, ~cancelled[s], cancelled'[s], mgr' = "running"
    PROVE  \/ OwnerCommand(key[s])
           \/ /\ SeenIdle(key[s])
              /\ \/ created' # created \/ to' # to
                 \/ \A i \in DOMAIN queue[s] :
                        now - enqueuedAt[queue[s][i]] > IdleTimeout
<1> USE DEF ReadingInv, managerVars, objectVars
<1>1. ASSUME NEW k \in Keys, s = sessions[k] PROVE key[s] = k
    BY <1>1, MappedFacts, BoundsAssumption DEF Sids, NoSession
<1>f. /\ IsFiniteSet(Mapped(sessions))
      /\ \A map : Mapped(map) \subseteq Mapped(sessions) =>
            Cardinality(Mapped(map)) \in Nat
    BY MappedFinite, FS_Subset, FS_CardinalityType
<1>2. ASSUME NEW k \in Keys, NEW a \in Registry, Creates(k, a)
      PROVE  OwnerCommand(key[s]) \/ (SeenIdle(key[s]) /\ created' # created)
    <2>1. PICK map, evicted : Creation(k, a, map, evicted)
        BY <1>2, CreationFacts
    <2>2. CASE s = sessions[k] /\ SwitchAgent(k, a)
        BY <1>1, <2>2 DEF OwnerCommand
    <2>3. ASSUME NEW j \in evicted, s = map[j]
          PROVE  SeenIdle(key[s]) /\ created' # created
        <3>1. Mapped(map) \subseteq Mapped(sessions)
            BY <2>1 DEF Creation, Mapped
        <3>2. j \in Keys /\ j # k
            BY <2>1, <2>3, VictimsMapped DEF Creation, Mapped
        <3>3. s = sessions[j]
            BY <2>1, <2>3, <3>2 DEF Creation
        <3>4. SeenIdle(j)
            BY <1>f, <2>1, <3>1, VictimFacts DEF Creation, SeenInv
        <3>5. created' # created
            BY <1>2, CreationFacts DEF TypeInv, StateTypeOK, ManagerTypeOK
        <3>6. QED
            BY <1>1, <3>2, <3>3, <3>4, <3>5
    <2>4. QED
        BY <2>1, <2>2, <2>3 DEF Creation
<1>3. ASSUME NEW k \in Keys, NEW m \in Msgs, NEW a \in Agents \ Registry,
             EnqueueUnknown(k, m, a)
      PROVE  SeenIdle(key[s]) /\ to' # to
    <2>1. PICK evicted \in Victims(sessions) :
            cancelled' = CancelAll({sessions[j] : j \in evicted})
        BY <1>3 DEF EnqueueUnknown, CreateFails
    <2>2. PICK j \in evicted : s = sessions[j]
        BY <2>1 DEF CancelAll
    <2>3. j \in Keys
        BY <2>1, VictimsMapped DEF Mapped
    <2>4. SeenIdle(j)
        BY <1>f, <2>1, VictimFacts DEF SeenInv
    <2>5. to' # to
        BY <1>3, NoneAssumption
        DEF EnqueueUnknown, Arrives, TypeInv, StateTypeOK, MessageTypeOK
    <2>6. QED
        BY <1>1, <2>2, <2>3, <2>4, <2>5
<1>4. ASSUME NEW k \in Keys, CancelSession(k) PROVE OwnerCommand(key[s])
    <2>1. s = sessions[k]
        BY <1>4 DEF CancelSession, CancelAll
    <2>2. QED
        BY <1>1, <1>4, <2>1 DEF OwnerCommand
<1>5. ASSUME NEW k \in Keys, RemoveSession(k) PROVE OwnerCommand(key[s])
    <2>1. s = sessions[k]
        BY <1>5 DEF RemoveSession, CancelAll
    <2>2. QED
        BY <1>1, <1>5, <2>1 DEF OwnerCommand
<1>6. ASSUME NEW r \in Sids, Exit(r) PROVE FALSE
    BY <1>6 DEF Exit, CanExit, CtxDone, CancelAll
<1>7. ASSUME CleanupIdle
      PROVE  /\ SeenIdle(key[s])
             /\ \A i \in DOMAIN queue[s] : now - enqueuedAt[queue[s][i]] > IdleTimeout
    <2>1. PICK gone \in IdleSets : cancelled' = CancelAll({sessions[k] : k \in gone})
        BY <1>7 DEF CleanupIdle
    <2>2. PICK k \in gone : s = sessions[k]
        BY <2>1 DEF CancelAll
    <2>3. k \in Keys /\ k \in Mapped(sessions)
        BY <2>1 DEF IdleSets, Mapped
    <2>4. SeenIdle(k)
        BY <2>1, <2>3 DEF IdleSets, Idle, SeenIdle
    <2>5. ASSUME NEW i \in DOMAIN queue[s]
          PROVE  now - enqueuedAt[queue[s][i]] > IdleTimeout
        <3>1. queue[s] \in Seq(Msgs)
            BY DEF TypeInv, StateTypeOK, QueueTypeOK
        <3>2. queue[s][i] \in Msgs
            BY <3>1, ElementOfSeq, LenProperties
        <3>3. Holds(sessions[k], queue[s][i])
            BY <2>2 DEF Holds
        <3>4. QED
            BY <2>1, <2>2, <3>2, <3>3, IdleHeld
    <2>6. QED
        BY <1>1, <2>2, <2>3, <2>4, <2>5
<1>8. ~StopKill /\ ~ProcessEnds
    BY DEF StopKill, ProcessEnds
<1>9. ~UNCHANGED cancelled
    OBVIOUS
<1>10. \A k \in Keys, m \in Msgs : ~EnqueueExisting(k, m)
    BY <1>9 DEF EnqueueExisting
<1>11. \A r \in Sids, m \in Msgs : ~Send(r, m)
    BY <1>9 DEF Send
<1>12. /\ \A k \in Keys : ~EraseMessages(k)
       /\ ~Start /\ ~StopCancel /\ ~Tick
    BY <1>9 DEF EraseMessages, Start, StopCancel, Tick
<1>13. \A r \in Sids : ~Discard(r) /\ ~Take(r) /\ ~StartPrompt(r) /\ ~StreamChunk(r)
    BY <1>9 DEF Discard, Take, StartPrompt, StreamChunk
<1>14. \A r \in Sids : /\ ~PromptEnds(r) /\ ~StoreUser(r) /\ ~StoreReply(r)
                       /\ ~Touch(r)
    BY <1>9 DEF PromptEnds, PromptReturns, PromptFails, StoreUser, StoreReply, Touch
<1>15. QED
    BY <1>2, <1>3, <1>4, <1>5, <1>6, <1>7, <1>8, <1>10, <1>11, <1>12, <1>13, <1>14,
       CreatesWhich
    DEF Next, Caller, Consumer, LoopStep

LEMMA ReadingInvariant == Spec => []ReadingInv
BY InitReading, NextReading, PTL DEF Spec

\* While the manager runs, whoever ends a session that has messages waiting is its
\* own user, or found it with none: to make room for another user, or as idle since
\* before these messages came.
THEOREM PendingIsSpared == Spec => PendingSparedFromOthers
<1>1. ReadingInv /\ [Next]_vars =>
        [\A s \in Sids :
            (/\ queue[s] # << >> /\ ~cancelled[s] /\ cancelled'[s]
             /\ mgr' = "running") =>
                \/ OwnerCommand(key[s])
                \/ /\ SeenIdle(key[s])
                   /\ \/ created' # created \/ to' # to
                      \/ \A i \in DOMAIN queue[s] :
                            now - enqueuedAt[queue[s][i]] > IdleTimeout]_vars
    BY PendingSparedStep
<1>2. QED
    BY <1>1, ReadingInvariant, PTL DEF Spec, PendingSparedFromOthers
=============================================================================
