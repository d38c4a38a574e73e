------------------------ MODULE SessionManager_proofs ------------------------
(***************************************************************************)
(* The state of SessionManager, for every value of its constants: its      *)
(* types, and what the session map promises. Its entries are live          *)
(* (MappedIsLive) and the store says so (MappedIsStoredActive); who has to *)
(* make way when the manager is full is chosen as it says                  *)
(* (OverLimitOnlyWhenAllBusy and EvictsLeastRecent).                       *)
(***************************************************************************)
EXTENDS SessionManager, SequenceTheorems, FiniteSetTheorems, WellFoundedInduction,
        TLAPS

-----------------------------------------------------------------------------
(* The statements of the store. *)

LEMMA UpsertType ==
    ASSUME NEW rs \in [Keys -> Rows], NEW k \in Keys, NEW st \in States,
           NEW a \in Agents, NEW t \in Nat
    PROVE  UpsertSession(rs, k, st, a, t) \in [Keys -> Rows]
BY DEF UpsertSession, Rows

LEMMA UpdateActivityType ==
    ASSUME NEW rs \in [Keys -> Rows], NEW k \in Keys, NEW t \in Nat
    PROVE  UpdateActivity(rs, k, t) \in [Keys -> Rows]
BY DEF UpdateActivity, Rows, NoRow

LEMMA UpdateStatesType ==
    ASSUME NEW rs \in [Keys -> Rows], NEW ks, NEW st \in States
    PROVE  UpdateStates(rs, ks, st) \in [Keys -> Rows]
BY DEF UpdateStates, Rows, NoRow

LEMMA AppendMessageType ==
    ASSUME NEW lg \in [Keys -> Seq(Entries)], NEW k \in Keys,
           NEW role \in Roles, NEW m \in Msgs
    PROVE  AppendMessage(lg, k, role, m) \in [Keys -> Seq(Entries)]
<1>1. [role |-> role, msg |-> m] \in Entries
    BY DEF Entries
<1>2. Append(lg[k], [role |-> role, msg |-> m]) \in Seq(Entries)
    BY <1>1
<1>3. QED
    BY <1>2 DEF AppendMessage

\* What LoadRecentMessages returns consists of entries of the key's own log.
LEMMA LoadRecentOwn ==
    ASSUME NEW lg \in [Keys -> Seq(Entries)], NEW k \in Keys
    PROVE  /\ LoadRecentMessages(lg, k) \in Seq(Entries)
           /\ \A i \in DOMAIN LoadRecentMessages(lg, k) :
                 \E j \in DOMAIN lg[k] : LoadRecentMessages(lg, k)[i] = lg[k][j]
<1> DEFINE q == lg[k]
           n == Len(q)
           lo == n - EffectiveLimit + 1
<1>1. EffectiveLimit \in Nat \ {0}
    BY HistoryLimitAssumption DEF EffectiveLimit
<1>2. q \in Seq(Entries) /\ n \in Nat /\ DOMAIN q = 1 .. n
    BY LenProperties
<1>3. CASE n <= EffectiveLimit
    BY <1>2, <1>3 DEF LoadRecentMessages
<1>4. CASE n > EffectiveLimit
    <2>1. LoadRecentMessages(lg, k) = SubSeq(q, lo, n)
        BY <1>1, <1>2, <1>4 DEF LoadRecentMessages
    <2>2. lo \in 1 .. n
        BY <1>1, <1>2, <1>4
    <2>3. /\ SubSeq(q, lo, n) \in Seq(Entries)
          /\ DOMAIN SubSeq(q, lo, n) = 1 .. (n - lo + 1)
          /\ \A i \in 1 .. (n - lo + 1) : SubSeq(q, lo, n)[i] = q[lo + i - 1]
        BY <1>2, <2>2, SubSeqProperties, LenProperties
    <2>4. QED
        BY <1>2, <2>1, <2>2, <2>3
<1>5. QED
    BY <1>1, <1>2, <1>3, <1>4

-----------------------------------------------------------------------------
(* Type correctness, with what it needs of the order of creation and of the *)
(* goroutines' messages.                                                    *)

TypeInv == StateTypeOK /\ CreatedInOrder /\ WorkingOnMessage

LEMMA InitTypeInv == Init => TypeInv
<1> SUFFICES ASSUME Init PROVE TypeInv
    OBVIOUS
<1> USE BoundsAssumption DEF Init, Sids, NoSession
<1>1. ManagerTypeOK /\ ObjectTypeOK
    BY DEF ManagerTypeOK, ObjectTypeOK
<1>2. QueueTypeOK
    BY QueueAssumption, EmptySeq DEF QueueTypeOK
<1>3. LoopTypeOK
    BY EmptySeq DEF LoopTypeOK, PcValues
<1>4. CallerTypeOK /\ MessageTypeOK /\ EnvTypeOK
    BY DEF CallerTypeOK, MessageTypeOK, EnvTypeOK
<1>5. StoreTypeOK(rows, log)
    BY EmptySeq DEF StoreTypeOK, Rows
<1>6. CreatedInOrder /\ WorkingOnMessage
    BY DEF CreatedInOrder, WorkingOnMessage, Working
<1>7. QED
    BY <1>1, <1>2, <1>3, <1>4, <1>5, <1>6 DEF TypeInv, StateTypeOK

\* Create writes the object after the last one and no other.
LEMMA CreateTypeInv ==
    ASSUME TypeInv, NEW k \in Keys, NEW a \in Registry,
           NEW map \in [Keys -> Sids \cup {NoSession}], NEW dead,
           \A j \in Keys : map[j] <= created,
           Create(k, a, map, dead)
    PROVE  /\ sessions' \in [Keys -> Sids \cup {NoSession}]
           /\ \A j \in Keys : sessions'[j] <= created + 1
           /\ ObjectTypeOK'
           /\ pc' \in [Sids -> PcValues]
           /\ rows' \in [Keys -> Rows]
           /\ created' = created + 1 /\ created + 1 \in Sids
           /\ pc'[created + 1] = "select" /\ key'[created + 1] = k
           /\ \A r \in Sids \ {created + 1} : pc'[r] = pc[r] /\ key'[r] = key[r]
<1> USE DEF TypeInv, StateTypeOK
<1> DEFINE s == created + 1
<1>1. s \in Sids /\ created' = s /\ s \in 0 .. MaxSessions
    BY BoundsAssumption DEF Create, ManagerTypeOK, Sids
<1>2. PICK evicted \in Victims(map) :
         /\ sessions' = [j \in Keys |-> IF j = k THEN s
                                        ELSE IF j \in evicted THEN NoSession
                                        ELSE map[j]]
         /\ cancelled' = CancelAll(dead \cup {map[j] : j \in evicted})
    BY DEF Create
<1>3. /\ sessions' \in [Keys -> Sids \cup {NoSession}]
      /\ \A j \in Keys : sessions'[j] <= s
    BY <1>1, <1>2 DEF ManagerTypeOK, Sids, NoSession
<1>4. cancelled' \in [Sids -> BOOLEAN]
    BY <1>2 DEF CancelAll, ObjectTypeOK
<1>5. ObjectTypeOK'
    BY <1>4 DEF Create, ObjectTypeOK, EnvTypeOK
<1>6. rows' \in [Keys -> Rows]
    <2>1. a \in Agents /\ now \in Nat /\ "active" \in States
        BY RegistryAssumption, BoundsAssumption DEF EnvTypeOK, States
    <2>2. rows' = UpsertSession(rows, k, "active", a, now)
        BY DEF Create
    <2>3. QED
        BY <2>1, <2>2, UpsertType DEF StoreTypeOK
<1>7. /\ pc' \in [Sids -> PcValues] /\ pc'[s] = "select" /\ key'[s] = k
      /\ \A r \in Sids \ {s} : pc'[r] = pc[r] /\ key'[r] = key[r]
    BY <1>1 DEF Create, LoopTypeOK, ObjectTypeOK, PcValues
<1>8. QED
    BY <1>1, <1>3, <1>5, <1>6, <1>7

\* A goroutine at work has a message and the key of a user.
LEMMA WorkingFacts ==
    ASSUME TypeInv, NEW s \in Sids, pc[s] \in Working
    PROVE  key[s] \in Keys /\ cur[s] \in Msgs
<1>1. pc[s] # "none" /\ cur[s] # None
    BY DEF TypeInv, WorkingOnMessage, Working
<1>2. cur[s] \in Msgs
    BY <1>1 DEF TypeInv, StateTypeOK, LoopTypeOK
<1>3. s <= created
    BY <1>1, BoundsAssumption
    DEF TypeInv, StateTypeOK, CreatedInOrder, ManagerTypeOK, Sids
<1>4. QED
    BY <1>2, <1>3 DEF TypeInv, CreatedInOrder

LEMMA NextTypeInv == TypeInv /\ [Next]_vars => TypeInv'
<1> SUFFICES ASSUME TypeInv, [Next]_vars PROVE TypeInv'
    OBVIOUS
<1> USE BoundsAssumption DEF TypeInv, StateTypeOK
<1> USE DEF managerVars, objectVars, loopVars, messageVars, storeVars, envVars
<1>1. ASSUME NEW k \in Keys, NEW m \in Msgs, EnqueueExisting(k, m)
      PROVE  TypeInv'
    <2>1. ObjectTypeOK'
        BY <1>1
        DEF EnqueueExisting, Refreshed, ObjectTypeOK, ManagerTypeOK, EnvTypeOK,
            NoSession
    <2>2. CallerTypeOK'
        BY <1>1 DEF EnqueueExisting, CallerTypeOK, ManagerTypeOK, NoSession
    <2>3. MessageTypeOK'
        BY <1>1 DEF EnqueueExisting, MessageTypeOK, Arrives, EnvTypeOK
    <2>4. CreatedInOrder'
        BY <1>1
        DEF EnqueueExisting, CreatedInOrder, Sids, ManagerTypeOK, NoSession
    <2>5. ManagerTypeOK' /\ QueueTypeOK' /\ LoopTypeOK' /\
          StoreTypeOK(rows, log)' /\ EnvTypeOK' /\ WorkingOnMessage'
        BY <1>1
        DEF EnqueueExisting, ManagerTypeOK, QueueTypeOK, LoopTypeOK,
            StoreTypeOK, EnvTypeOK, WorkingOnMessage
    <2>6. QED
        BY <2>1, <2>2, <2>3, <2>4, <2>5
<1>2. ASSUME NEW k \in Keys, NEW m \in Msgs, NEW a \in Registry, EnqueueNew(k, m, a)
      PROVE  TypeInv'
    <2>1. /\ sessions' \in [Keys -> Sids \cup {NoSession}]
          /\ \A j \in Keys : sessions'[j] <= created + 1
          /\ ObjectTypeOK'
          /\ pc' \in [Sids -> PcValues]
          /\ rows' \in [Keys -> Rows]
          /\ created' = created + 1 /\ created + 1 \in Sids
          /\ pc'[created + 1] = "select" /\ key'[created + 1] = k
          /\ \A r \in Sids \ {created + 1} : pc'[r] = pc[r] /\ key'[r] = key[r]
        BY <1>2, CreateTypeInv DEF EnqueueNew, ManagerTypeOK, CreatedInOrder
    <2>2. ManagerTypeOK'
        BY <1>2, <2>1 DEF EnqueueNew, ManagerTypeOK, Sids
    <2>3. ObjectTypeOK'
        BY <1>2, <2>1 DEF EnqueueNew, ObjectTypeOK
    <2>4. LoopTypeOK'
        BY <1>2, <2>1 DEF EnqueueNew, LoopTypeOK, PcValues
    <2>5. CallerTypeOK'
        BY <1>2, <2>1 DEF EnqueueNew, CallerTypeOK
    <2>6. MessageTypeOK'
        BY <1>2 DEF EnqueueNew, MessageTypeOK, Arrives, EnvTypeOK
    <2>7. StoreTypeOK(rows, log)'
        BY <1>2, <2>1 DEF EnqueueNew, StoreTypeOK
    <2>8. CreatedInOrder'
        <3>1. \A r \in Sids : /\ pc'[r] = "none" <=> r > created'
                              /\ r <= created' => key'[r] \in Keys
            BY <1>2, <2>1 DEF CreatedInOrder, ManagerTypeOK, Sids
        <3>2. \A r \in Sids : r > created' => queue'[r] = << >> /\ context'[r] = << >>
            <4>1. queue' = queue /\ context' = context
                BY <1>2 DEF EnqueueNew
            <4>2. QED
                BY <2>1, <4>1 DEF CreatedInOrder, ManagerTypeOK, Sids
        <3>3. \A sm \in sending' : sm[1] <= created'
            BY <1>2, <2>1 DEF EnqueueNew, CreatedInOrder, CallerTypeOK, ManagerTypeOK, Sids
        <3>4. \A j \in Keys : sessions'[j] <= created'
            BY <2>1
        <3>5. QED
            BY <3>1, <3>2, <3>3, <3>4 DEF CreatedInOrder
    <2>9. WorkingOnMessage'
        <3>1. cur' = cur
            BY <1>2 DEF EnqueueNew
        <3>2. pc[created + 1] = "none"
            BY <2>1 DEF CreatedInOrder, ManagerTypeOK
        <3>3. cur[created + 1] = None
            BY <2>1, <3>2 DEF WorkingOnMessage, Working
        <3>4. QED
            BY <2>1, <3>1, <3>3 DEF WorkingOnMessage, Working
    <2>10. QueueTypeOK' /\ EnvTypeOK'
        BY <1>2 DEF EnqueueNew, QueueTypeOK, EnvTypeOK
    <2>11. QED
        BY <2>2, <2>3, <2>4, <2>5, <2>6, <2>7, <2>8, <2>9, <2>10
<1>3. ASSUME NEW k \in Keys, NEW m \in Msgs, NEW a \in Agents \ Registry, EnqueueUnknown(k, m, a)
      PROVE  TypeInv'
    <2>1. ManagerTypeOK'
        BY <1>3
        DEF EnqueueUnknown, ManagerTypeOK, Sids, CreateFails, NoSession
    <2>2. ObjectTypeOK'
        BY <1>3 DEF EnqueueUnknown, ObjectTypeOK, CreateFails, CancelAll
    <2>3. MessageTypeOK'
        BY <1>3 DEF EnqueueUnknown, MessageTypeOK, Arrives, EnvTypeOK
    <2>4. CreatedInOrder'
        BY <1>3
        DEF EnqueueUnknown, CreatedInOrder, Sids, CreateFails, ManagerTypeOK,
            NoSession
    <2>5. QueueTypeOK' /\ LoopTypeOK' /\ CallerTypeOK' /\
          StoreTypeOK(rows, log)' /\ EnvTypeOK' /\ WorkingOnMessage'
        BY <1>3
        DEF EnqueueUnknown, QueueTypeOK, LoopTypeOK, CallerTypeOK,
            StoreTypeOK, EnvTypeOK, WorkingOnMessage
    <2>6. QED
        BY <2>1, <2>2, <2>3, <2>4, <2>5
<1>4. ASSUME NEW k \in Keys, NEW a \in Registry, SwitchAgent(k, a)
      PROVE  TypeInv'
    <2>1. /\ sessions' \in [Keys -> Sids \cup {NoSession}]
          /\ \A j \in Keys : sessions'[j] <= created + 1
          /\ ObjectTypeOK'
          /\ pc' \in [Sids -> PcValues]
          /\ rows' \in [Keys -> Rows]
          /\ created' = created + 1 /\ created + 1 \in Sids
          /\ pc'[created + 1] = "select" /\ key'[created + 1] = k
          /\ \A r \in Sids \ {created + 1} : pc'[r] = pc[r] /\ key'[r] = key[r]
        <3>1. [sessions EXCEPT ![k] = NoSession] \in [Keys -> Sids \cup {NoSession}]
            BY DEF ManagerTypeOK
        <3>2. \A j \in Keys : [sessions EXCEPT ![k] = NoSession][j] <= created
            BY DEF ManagerTypeOK, CreatedInOrder, NoSession
        <3>3. QED
            BY <1>4, <3>1, <3>2, CreateTypeInv DEF SwitchAgent
    <2>2. ManagerTypeOK'
        BY <1>4, <2>1 DEF SwitchAgent, ManagerTypeOK, Sids
    <2>3. ObjectTypeOK'
        BY <1>4, <2>1 DEF SwitchAgent, ObjectTypeOK
    <2>4. LoopTypeOK'
        BY <1>4, <2>1 DEF SwitchAgent, LoopTypeOK, PcValues
    <2>5. StoreTypeOK(rows, log)'
        BY <1>4, <2>1 DEF SwitchAgent, StoreTypeOK
    <2>6. CreatedInOrder'
        <3>1. \A r \in Sids : /\ pc'[r] = "none" <=> r > created'
                              /\ r <= created' => key'[r] \in Keys
            BY <1>4, <2>1 DEF CreatedInOrder, ManagerTypeOK, Sids
        <3>2. \A r \in Sids : r > created' => queue'[r] = << >> /\ context'[r] = << >>
            <4>1. queue' = queue /\ context' = context
                BY <1>4 DEF SwitchAgent
            <4>2. QED
                BY <2>1, <4>1 DEF CreatedInOrder, ManagerTypeOK, Sids
        <3>3. \A sm \in sending' : sm[1] <= created'
            BY <1>4, <2>1 DEF SwitchAgent, CreatedInOrder, CallerTypeOK, ManagerTypeOK, Sids
        <3>4. \A j \in Keys : sessions'[j] <= created'
            BY <2>1
        <3>5. QED
            BY <3>1, <3>2, <3>3, <3>4 DEF CreatedInOrder
    <2>7. WorkingOnMessage'
        <3>1. cur' = cur
            BY <1>4 DEF SwitchAgent
        <3>2. pc[created + 1] = "none"
            BY <2>1 DEF CreatedInOrder, ManagerTypeOK
        <3>3. cur[created + 1] = None
            BY <2>1, <3>2 DEF WorkingOnMessage, Working
        <3>4. QED
            BY <2>1, <3>1, <3>3 DEF WorkingOnMessage, Working
    <2>8. QueueTypeOK' /\ CallerTypeOK' /\ MessageTypeOK' /\ EnvTypeOK'
        BY <1>4
        DEF SwitchAgent, QueueTypeOK, CallerTypeOK, MessageTypeOK, EnvTypeOK
    <2>9. QED
        BY <2>2, <2>3, <2>4, <2>5, <2>6, <2>7, <2>8
<1>5. ASSUME NEW k \in Keys, CancelSession(k) PROVE TypeInv'
    <2>1. ManagerTypeOK'
        BY <1>5 DEF CancelSession, ManagerTypeOK, Sids
    <2>2. ObjectTypeOK'
        BY <1>5 DEF CancelSession, ObjectTypeOK, CancelAll
    <2>3. QueueTypeOK'
        <3>1. << >> \in Seq(Msgs) /\ Len(<< >>) = 0
            BY EmptySeq
        <3>2. sessions[k] \in Sids
            BY <1>5 DEF CancelSession, ManagerTypeOK
        <3>3. QED
            BY <1>5, <3>1, <3>2, QueueAssumption DEF CancelSession, QueueTypeOK
    <2>4. CreatedInOrder'
        BY <1>5
        DEF CancelSession, CreatedInOrder, Sids, QueueTypeOK, ManagerTypeOK,
            NoSession
    <2>5. LoopTypeOK' /\ CallerTypeOK' /\ MessageTypeOK' /\
          StoreTypeOK(rows, log)' /\ EnvTypeOK' /\ WorkingOnMessage'
        BY <1>5
        DEF CancelSession, LoopTypeOK, CallerTypeOK, MessageTypeOK,
            StoreTypeOK, EnvTypeOK, WorkingOnMessage
    <2>6. QED
        BY <2>1, <2>2, <2>3, <2>4, <2>5
<1>6. ASSUME NEW k \in Keys, RemoveSession(k) PROVE TypeInv'
    <2>1. ManagerTypeOK'
        BY <1>6 DEF RemoveSession, ManagerTypeOK, Sids
    <2>2. ObjectTypeOK'
        BY <1>6 DEF RemoveSession, ObjectTypeOK, CancelAll
    <2>3. CallerTypeOK'
        BY <1>6 DEF RemoveSession, CallerTypeOK
    <2>4. CreatedInOrder'
        BY <1>6
        DEF RemoveSession, CreatedInOrder, Sids, ManagerTypeOK, NoSession
    <2>5. QueueTypeOK' /\ LoopTypeOK' /\ MessageTypeOK' /\
          StoreTypeOK(rows, log)' /\ EnvTypeOK' /\ WorkingOnMessage'
        BY <1>6
        DEF RemoveSession, QueueTypeOK, LoopTypeOK, MessageTypeOK,
            StoreTypeOK, EnvTypeOK, WorkingOnMessage
    <2>6. QED
        BY <2>1, <2>2, <2>3, <2>4, <2>5
<1>7. ASSUME NEW k \in Keys, EraseMessages(k) PROVE TypeInv'
    <2>1. CallerTypeOK'
        BY <1>7 DEF EraseMessages, CallerTypeOK
    <2>2. StoreTypeOK(rows, log)'
        BY <1>7, EmptySeq DEF EraseMessages, StoreTypeOK, DeleteMessages
    <2>3. ManagerTypeOK' /\ ObjectTypeOK' /\ QueueTypeOK' /\
          LoopTypeOK' /\ MessageTypeOK' /\ EnvTypeOK' /\
          CreatedInOrder' /\ WorkingOnMessage'
        BY <1>7
        DEF EraseMessages, ManagerTypeOK, ObjectTypeOK, QueueTypeOK,
            LoopTypeOK, MessageTypeOK, EnvTypeOK, CreatedInOrder,
            WorkingOnMessage
    <2>4. QED
        BY <2>1, <2>2, <2>3
<1>8. ASSUME CleanupIdle PROVE TypeInv'
    <2>1. ManagerTypeOK'
        BY <1>8 DEF CleanupIdle, ManagerTypeOK, Sids
    <2>2. ObjectTypeOK'
        BY <1>8 DEF CleanupIdle, ObjectTypeOK, CancelAll
    <2>3. StoreTypeOK(rows, log)'
        BY <1>8, UpdateStatesType DEF CleanupIdle, StoreTypeOK, States
    <2>4. CreatedInOrder'
        BY <1>8
        DEF CleanupIdle, CreatedInOrder, Sids, ManagerTypeOK, NoSession
    <2>5. QueueTypeOK' /\ LoopTypeOK' /\ CallerTypeOK' /\
          MessageTypeOK' /\ EnvTypeOK' /\ WorkingOnMessage'
        BY <1>8
        DEF CleanupIdle, QueueTypeOK, LoopTypeOK, CallerTypeOK,
            MessageTypeOK, EnvTypeOK, WorkingOnMessage
    <2>6. QED
        BY <2>1, <2>2, <2>3, <2>4, <2>5
<1>9. ASSUME NEW s \in Sids, NEW m \in Msgs, Send(s, m) PROVE TypeInv'
    <2>1. QueueTypeOK'
        <3>1. CASE Accept(s, m)
            <4>1. Append(queue[s], m) \in Seq(Msgs)
                  /\ Len(Append(queue[s], m)) = Len(queue[s]) + 1
                BY AppendProperties DEF QueueTypeOK
            <4>2. Len(queue[s]) \in Nat /\ Len(queue[s]) < QueueSize
                BY <3>1, LenProperties DEF Accept, HasRoom, QueueTypeOK
            <4>3. QED
                BY <3>1, <4>1, <4>2, QueueAssumption DEF Accept, QueueTypeOK
        <3>2. CASE TurnAway(s, m) \/ ShutOut
            BY <3>2 DEF TurnAway, ShutOut, QueueTypeOK
        <3>3. QED
            BY <1>9, <3>1, <3>2 DEF Send
    <2>2. CallerTypeOK'
        BY <1>9 DEF Send, CallerTypeOK
    <2>3. MessageTypeOK'
        BY <1>9
        DEF Send, MessageTypeOK, Accept, TurnAway, ShutOut, Reply, ReplyKinds
    <2>4. CreatedInOrder'
        <3>1. s <= created
            BY <1>9 DEF Send, CreatedInOrder
        <3>2. \A r \in Sids : r # s => queue'[r] = queue[r]
            BY <1>9 DEF Send, Accept, TurnAway, ShutOut, QueueTypeOK
        <3>3. sending' \subseteq sending
            BY <1>9 DEF Send
        <3>4. QED
            BY <1>9, <3>1, <3>2, <3>3 DEF Send, CreatedInOrder, ManagerTypeOK, Sids
    <2>5. ManagerTypeOK' /\ ObjectTypeOK' /\ LoopTypeOK' /\
          StoreTypeOK(rows, log)' /\ EnvTypeOK' /\ WorkingOnMessage'
        BY <1>9
        DEF Send, ManagerTypeOK, ObjectTypeOK, LoopTypeOK, StoreTypeOK,
            EnvTypeOK, WorkingOnMessage
    <2>6. QED
        BY <2>1, <2>2, <2>3, <2>4, <2>5
<1>10. ASSUME NEW s \in Sids, Exit(s) PROVE TypeInv'
    <2>1. ManagerTypeOK'
        BY <1>10 DEF Exit, ManagerTypeOK, Sids, MapAfterExit
    <2>2. ObjectTypeOK'
        BY <1>10 DEF Exit, ObjectTypeOK, CancelAll
    <2>3. LoopTypeOK'
        BY <1>10 DEF Exit, LoopTypeOK, PcValues
    <2>4. CreatedInOrder'
        <3>1. /\ \A r \in Sids : pc'[r] = "none" <=> r > created
              /\ \A j \in Keys : sessions'[j] <= created
            BY <1>10
            DEF Exit, CanExit, MapAfterExit, CreatedInOrder, LoopTypeOK,
                ManagerTypeOK, NoSession, Sids
        <3>2. QED
            BY <1>10, <3>1 DEF Exit, CreatedInOrder
    <2>5. WorkingOnMessage'
        BY <1>10 DEF Exit, WorkingOnMessage, Working, CanExit, LoopTypeOK
    <2>6. QueueTypeOK' /\ CallerTypeOK' /\ MessageTypeOK' /\
          StoreTypeOK(rows, log)' /\ EnvTypeOK'
        BY <1>10
        DEF Exit, QueueTypeOK, CallerTypeOK, MessageTypeOK, StoreTypeOK,
            EnvTypeOK
    <2>7. QED
        BY <2>1, <2>2, <2>3, <2>4, <2>5, <2>6
<1>11. ASSUME NEW s \in Sids, Discard(s) PROVE TypeInv'
    <2>1. QueueTypeOK'
        BY <1>11, HeadTailProperties, QueueAssumption, LenProperties
        DEF Discard, QueueTypeOK, CanTake
    <2>2. MessageTypeOK'
        BY <1>11 DEF Discard, MessageTypeOK, Reply, ReplyKinds
    <2>3. CreatedInOrder'
        BY <1>11 DEF Discard, CreatedInOrder, Sids, CanTake, QueueTypeOK
    <2>4. ManagerTypeOK' /\ ObjectTypeOK' /\ LoopTypeOK' /\
          CallerTypeOK' /\ StoreTypeOK(rows, log)' /\ EnvTypeOK' /\
          WorkingOnMessage'
        BY <1>11
        DEF Discard, ManagerTypeOK, ObjectTypeOK, LoopTypeOK, CallerTypeOK,
            StoreTypeOK, EnvTypeOK, WorkingOnMessage
    <2>5. QED
        BY <2>1, <2>2, <2>3, <2>4
<1>12. ASSUME NEW s \in Sids, Take(s) PROVE TypeInv'
    <2>1. QueueTypeOK'
        BY <1>12, HeadTailProperties, QueueAssumption, LenProperties
        DEF Take, QueueTypeOK, CanTake
    <2>2. LoopTypeOK'
        BY <1>12, HeadTailProperties
        DEF Take, LoopTypeOK, CanTake, QueueTypeOK, PcValues
    <2>3. CreatedInOrder'
        BY <1>12
        DEF Take, CreatedInOrder, Sids, CanTake, QueueTypeOK, LoopTypeOK
    <2>4. WorkingOnMessage'
        BY <1>12, HeadTailProperties, NoneAssumption
        DEF Take, WorkingOnMessage, Working, CanTake, QueueTypeOK, LoopTypeOK
    <2>5. ManagerTypeOK' /\ ObjectTypeOK' /\ CallerTypeOK' /\
          MessageTypeOK' /\ StoreTypeOK(rows, log)' /\ EnvTypeOK'
        BY <1>12
        DEF Take, ManagerTypeOK, ObjectTypeOK, CallerTypeOK, MessageTypeOK,
            StoreTypeOK, EnvTypeOK
    <2>6. QED
        BY <2>1, <2>2, <2>3, <2>4, <2>5
<1>13. ASSUME NEW s \in Sids, StartPrompt(s) PROVE TypeInv'
    <2>1. LoopTypeOK'
        <3>1. key[s] \in Keys
            BY <1>13, WorkingFacts DEF StartPrompt, Working
        <3>2. LoadRecentMessages(log, key[s]) \in Seq(Entries)
            BY <3>1, LoadRecentOwn DEF StoreTypeOK
        <3>3. QED
            BY <1>13, <3>2 DEF StartPrompt, LoopTypeOK, PcValues
    <2>2. CreatedInOrder'
        BY <1>13 DEF StartPrompt, CreatedInOrder, Sids, LoopTypeOK
    <2>3. WorkingOnMessage'
        BY <1>13 DEF StartPrompt, WorkingOnMessage, Working, LoopTypeOK
    <2>4. ManagerTypeOK' /\ ObjectTypeOK' /\ QueueTypeOK' /\
          CallerTypeOK' /\ MessageTypeOK' /\ StoreTypeOK(rows, log)' /\
          EnvTypeOK'
        BY <1>13
        DEF StartPrompt, ManagerTypeOK, ObjectTypeOK, QueueTypeOK,
            CallerTypeOK, MessageTypeOK, StoreTypeOK, EnvTypeOK
    <2>5. QED
        BY <2>1, <2>2, <2>3, <2>4
<1>14. ASSUME NEW s \in Sids, StreamChunk(s) PROVE TypeInv'
    <2>1. LoopTypeOK'
        BY <1>14 DEF StreamChunk, LoopTypeOK
    <2>2. MessageTypeOK'
        BY <1>14 DEF StreamChunk, MessageTypeOK, Reply, ReplyKinds
    <2>3. ManagerTypeOK' /\ ObjectTypeOK' /\ QueueTypeOK' /\
          CallerTypeOK' /\ StoreTypeOK(rows, log)' /\ EnvTypeOK' /\
          CreatedInOrder' /\ WorkingOnMessage'
        BY <1>14
        DEF StreamChunk, ManagerTypeOK, ObjectTypeOK, QueueTypeOK,
            CallerTypeOK, StoreTypeOK, EnvTypeOK, CreatedInOrder,
            WorkingOnMessage
    <2>4. QED
        BY <2>1, <2>2, <2>3
<1>15. ASSUME NEW s \in Sids, NEW stop \in StopReasons, PromptReturns(s, stop)
      PROVE  TypeInv'
    <2>1. ObjectTypeOK'
        BY <1>15 DEF PromptReturns, Refreshed, ObjectTypeOK, EnvTypeOK
    <2>2. LoopTypeOK'
        BY <1>15 DEF PromptReturns, LoopTypeOK, PcValues
    <2>3. MessageTypeOK'
        BY <1>15 DEF PromptReturns, MessageTypeOK, FinalReplies, ReplyKinds
    <2>4. CreatedInOrder'
        BY <1>15 DEF PromptReturns, CreatedInOrder, Sids, LoopTypeOK
    <2>5. WorkingOnMessage'
        BY <1>15 DEF PromptReturns, WorkingOnMessage, Working, LoopTypeOK
    <2>6. ManagerTypeOK' /\ QueueTypeOK' /\ CallerTypeOK' /\
          StoreTypeOK(rows, log)' /\ EnvTypeOK'
        BY <1>15
        DEF PromptReturns, ManagerTypeOK, QueueTypeOK, CallerTypeOK,
            StoreTypeOK, EnvTypeOK
    <2>7. QED
        BY <2>1, <2>2, <2>3, <2>4, <2>5, <2>6
<1>16. ASSUME NEW s \in Sids, PromptFails(s) PROVE TypeInv'
    <2>1. LoopTypeOK'
        BY <1>16 DEF PromptFails, LoopTypeOK, PcValues
    <2>2. MessageTypeOK'
        BY <1>16 DEF PromptFails, MessageTypeOK, Reply, ReplyKinds
    <2>3. CreatedInOrder'
        BY <1>16 DEF PromptFails, CreatedInOrder, Sids, LoopTypeOK
    <2>4. WorkingOnMessage'
        BY <1>16 DEF PromptFails, WorkingOnMessage, Working, LoopTypeOK
    <2>5. ManagerTypeOK' /\ ObjectTypeOK' /\ QueueTypeOK' /\
          CallerTypeOK' /\ StoreTypeOK(rows, log)' /\ EnvTypeOK'
        BY <1>16
        DEF PromptFails, ManagerTypeOK, ObjectTypeOK, QueueTypeOK,
            CallerTypeOK, StoreTypeOK, EnvTypeOK
    <2>6. QED
        BY <2>1, <2>2, <2>3, <2>4, <2>5
<1>17. ASSUME NEW s \in Sids, StoreUser(s) PROVE TypeInv'
    <2>1. LoopTypeOK'
        BY <1>17 DEF StoreUser, LoopTypeOK, PcValues
    <2>2. StoreTypeOK(rows, log)'
        <3>1. key[s] \in Keys /\ cur[s] \in Msgs
            BY <1>17, WorkingFacts DEF StoreUser, Working
        <3>2. QED
            BY <1>17, <3>1, AppendMessageType DEF StoreUser, StoreTypeOK, Roles
    <2>3. CreatedInOrder'
        BY <1>17 DEF StoreUser, CreatedInOrder, Sids, LoopTypeOK
    <2>4. WorkingOnMessage'
        BY <1>17 DEF StoreUser, WorkingOnMessage, Working, LoopTypeOK
    <2>5. ManagerTypeOK' /\ ObjectTypeOK' /\ QueueTypeOK' /\
          CallerTypeOK' /\ MessageTypeOK' /\ EnvTypeOK'
        BY <1>17
        DEF StoreUser, ManagerTypeOK, ObjectTypeOK, QueueTypeOK,
            CallerTypeOK, MessageTypeOK, EnvTypeOK
    <2>6. QED
        BY <2>1, <2>2, <2>3, <2>4, <2>5
<1>18. ASSUME NEW s \in Sids, StoreReply(s) PROVE TypeInv'
    <2>1. LoopTypeOK'
        BY <1>18 DEF StoreReply, LoopTypeOK, PcValues
    <2>2. StoreTypeOK(rows, log)'
        <3>1. key[s] \in Keys /\ cur[s] \in Msgs
            BY <1>18, WorkingFacts DEF StoreReply, Working
        <3>2. QED
            BY <1>18, <3>1, AppendMessageType DEF StoreReply, StoreTypeOK, Roles
    <2>3. CreatedInOrder'
        BY <1>18 DEF StoreReply, CreatedInOrder, Sids, LoopTypeOK
    <2>4. WorkingOnMessage'
        BY <1>18 DEF StoreReply, WorkingOnMessage, Working, LoopTypeOK
    <2>5. ManagerTypeOK' /\ ObjectTypeOK' /\ QueueTypeOK' /\
          CallerTypeOK' /\ MessageTypeOK' /\ EnvTypeOK'
        BY <1>18
        DEF StoreReply, ManagerTypeOK, ObjectTypeOK, QueueTypeOK,
            CallerTypeOK, MessageTypeOK, EnvTypeOK
    <2>6. QED
        BY <2>1, <2>2, <2>3, <2>4, <2>5
<1>19. ASSUME NEW s \in Sids, Touch(s) PROVE TypeInv'
    <2>1. LoopTypeOK'
        BY <1>19 DEF Touch, LoopTypeOK, PcValues
    <2>2. StoreTypeOK(rows, log)'
        <3>1. key[s] \in Keys /\ now \in Nat
            BY <1>19, WorkingFacts DEF Touch, Working, EnvTypeOK
        <3>2. QED
            BY <1>19, <3>1, UpdateActivityType DEF Touch, StoreTypeOK
    <2>3. CreatedInOrder'
        BY <1>19 DEF Touch, CreatedInOrder, Sids, LoopTypeOK
    <2>4. WorkingOnMessage'
        BY <1>19 DEF Touch, WorkingOnMessage, Working, LoopTypeOK
    <2>5. ManagerTypeOK' /\ ObjectTypeOK' /\ QueueTypeOK' /\
          CallerTypeOK' /\ MessageTypeOK' /\ EnvTypeOK'
        BY <1>19
        DEF Touch, ManagerTypeOK, ObjectTypeOK, QueueTypeOK, CallerTypeOK,
            MessageTypeOK, EnvTypeOK
    <2>6. QED
        BY <2>1, <2>2, <2>3, <2>4, <2>5
<1>20. ASSUME Start PROVE TypeInv'
    <2>1. ManagerTypeOK'
        BY <1>20 DEF Start, ManagerTypeOK, Sids
    <2>2. StoreTypeOK(rows, log)'
        BY <1>20, UpdateStatesType, EmptySeq
        DEF Start, StoreTypeOK, DeleteRows, DeleteLogs, States, Rows
    <2>3. ObjectTypeOK' /\ QueueTypeOK' /\ LoopTypeOK' /\ CallerTypeOK' /\
          MessageTypeOK' /\ EnvTypeOK' /\ CreatedInOrder' /\
          WorkingOnMessage'
        BY <1>20
        DEF Start, ObjectTypeOK, QueueTypeOK, LoopTypeOK, CallerTypeOK,
            MessageTypeOK, EnvTypeOK, CreatedInOrder, WorkingOnMessage
    <2>4. QED
        BY <2>1, <2>2, <2>3
<1>21. ASSUME StopCancel PROVE TypeInv'
    <2>1. ManagerTypeOK'
        BY <1>21 DEF StopCancel, ManagerTypeOK, Sids
    <2>2. ObjectTypeOK' /\ QueueTypeOK' /\ LoopTypeOK' /\ CallerTypeOK' /\
          MessageTypeOK' /\ StoreTypeOK(rows, log)' /\ EnvTypeOK' /\
          CreatedInOrder' /\ WorkingOnMessage'
        BY <1>21
        DEF StopCancel, ObjectTypeOK, QueueTypeOK, LoopTypeOK, CallerTypeOK,
            MessageTypeOK, StoreTypeOK, EnvTypeOK, CreatedInOrder,
            WorkingOnMessage
    <2>3. QED
        BY <2>1, <2>2
<1>22. ASSUME StopKill PROVE TypeInv'
    <2>1. ManagerTypeOK'
        BY <1>22 DEF StopKill, ManagerTypeOK, Sids, NoSession
    <2>2. ObjectTypeOK'
        BY <1>22 DEF StopKill, ObjectTypeOK, CancelAll
    <2>3. CreatedInOrder'
        BY <1>22
        DEF StopKill, CreatedInOrder, Sids, ManagerTypeOK, NoSession
    <2>4. QueueTypeOK' /\ LoopTypeOK' /\ CallerTypeOK' /\
          MessageTypeOK' /\ StoreTypeOK(rows, log)' /\ EnvTypeOK' /\
          WorkingOnMessage'
        BY <1>22
        DEF StopKill, QueueTypeOK, LoopTypeOK, CallerTypeOK, MessageTypeOK,
            StoreTypeOK, EnvTypeOK, WorkingOnMessage
    <2>5. QED
        BY <2>1, <2>2, <2>3, <2>4
<1>23. ASSUME ProcessEnds PROVE TypeInv'
    <2>1. ManagerTypeOK'
        BY <1>23 DEF ProcessEnds, ManagerTypeOK, Sids, NoSession
    <2>2. ObjectTypeOK'
        BY <1>23 DEF ProcessEnds, ObjectTypeOK, CancelAll
    <2>3. QueueTypeOK'
        BY <1>23, EmptySeq, QueueAssumption DEF ProcessEnds, QueueTypeOK
    <2>4. LoopTypeOK'
        BY <1>23 DEF ProcessEnds, LoopTypeOK, PcValues
    <2>5. CallerTypeOK'
        BY <1>23 DEF ProcessEnds, CallerTypeOK
    <2>6. EnvTypeOK'
        BY <1>23 DEF ProcessEnds, EnvTypeOK
    <2>7. CreatedInOrder'
        <3>1. \A r \in Sids : pc'[r] = "none" <=> r > created
            BY <1>23 DEF ProcessEnds, ManagerTypeOK, Sids
        <3>2. \A j \in Keys : sessions'[j] <= created
            BY <1>23 DEF ProcessEnds, ManagerTypeOK, NoSession
        <3>3. QED
            BY <1>23, <3>1, <3>2 DEF ProcessEnds, CreatedInOrder
    <2>8. WorkingOnMessage'
        BY <1>23 DEF ProcessEnds, WorkingOnMessage, Working
    <2>9. MessageTypeOK' /\ StoreTypeOK(rows, log)'
        BY <1>23 DEF ProcessEnds, MessageTypeOK, StoreTypeOK
    <2>10. QED
        BY <2>1, <2>2, <2>3, <2>4, <2>5, <2>6, <2>7, <2>8, <2>9
<1>24. ASSUME Tick PROVE TypeInv'
    <2>1. EnvTypeOK'
        BY <1>24 DEF Tick, EnvTypeOK
    <2>2. ManagerTypeOK' /\ ObjectTypeOK' /\ QueueTypeOK' /\
          LoopTypeOK' /\ CallerTypeOK' /\ MessageTypeOK' /\
          StoreTypeOK(rows, log)' /\ CreatedInOrder' /\ WorkingOnMessage'
        BY <1>24
        DEF Tick, ManagerTypeOK, ObjectTypeOK, QueueTypeOK, LoopTypeOK,
            CallerTypeOK, MessageTypeOK, StoreTypeOK, CreatedInOrder,
            WorkingOnMessage
    <2>3. QED
        BY <2>1, <2>2
<1>25. ASSUME UNCHANGED vars PROVE TypeInv'
    BY <1>25
    DEF vars, ManagerTypeOK, ObjectTypeOK, QueueTypeOK, LoopTypeOK,
        CallerTypeOK, MessageTypeOK, StoreTypeOK, EnvTypeOK, CreatedInOrder,
        WorkingOnMessage
<1>26. QED
    BY <1>1, <1>2, <1>3, <1>4, <1>5, <1>6, <1>7, <1>8, <1>9, <1>10,
       <1>11, <1>12, <1>13, <1>14, <1>15, <1>16, <1>17, <1>18, <1>19, <1>20,
       <1>21, <1>22, <1>23, <1>24, <1>25
    DEF Next, Caller, Consumer, LoopStep, PromptEnds

-----------------------------------------------------------------------------
(* What a section under m.mu may have read. *)

\* What a session is now has been seen.
CurrentSeen == \A k \in Keys : Current(k) \subseteq seen[k]

SeenInv == SeenTypeOK /\ CurrentSeen

CurrentTyped ==
    \A k \in Keys : Current(k) \subseteq [idle : BOOLEAN, activity : 0 .. MaxTime]

LEMMA CurrentType == TypeInv => CurrentTyped
<1> SUFFICES ASSUME TypeInv, NEW k \in Keys, sessions[k] # NoSession
             PROVE  [idle |-> queue[sessions[k]] = << >>, activity |-> lastActivity[sessions[k]]]
                        \in [idle : BOOLEAN, activity : 0 .. MaxTime]
    BY DEF CurrentTyped, Current
<1>1. lastActivity[sessions[k]] \in 0 .. MaxTime
    BY DEF TypeInv, StateTypeOK, ManagerTypeOK, ObjectTypeOK
<1>2. (queue[sessions[k]] = << >>) \in BOOLEAN
    OBVIOUS
<1>3. QED
    BY <1>1, <1>2, Zenon

LEMMA InitSeen == Init => SeenInv
BY DEF Init, SeenInv, SeenTypeOK, CurrentSeen, Current

\* A step either reads every session anew, or adds a reading of each, or changes
\* nothing of what could be read.
Reads ==
    \/ Locked
    \/ Unlocked
    \/ seen' = seen /\ \A k \in Keys : Current(k)' = Current(k)

LEMMA ReadsSeen ==
    ASSUME TypeInv', SeenInv, Reads
    PROVE  SeenInv'
<1> USE DEF SeenInv, SeenTypeOK, CurrentSeen
<1>1. CurrentTyped'
    BY CurrentType, PTL
<1>2. QED
    BY <1>1 DEF CurrentTyped, Reads, Locked, Unlocked

\* The readings follow what callers, cleanup and consumers do.
LEMMA NextReads == TypeInv /\ [Next]_vars => Reads
<1> SUFFICES ASSUME TypeInv, [Next]_vars PROVE Reads
    OBVIOUS
<1>1. ASSUME NEW k \in Keys, Caller(k) PROVE Reads
    BY <1>1
    DEF Caller, EnqueueExisting, EnqueueNew, EnqueueUnknown, SwitchAgent, CancelSession,
        RemoveSession, EraseMessages, Reads, Current, managerVars, objectVars
<1>2. CASE CleanupIdle \/ StopKill \/ ProcessEnds
    BY <1>2 DEF CleanupIdle, StopKill, ProcessEnds, Reads
<1>3. CASE Start \/ StopCancel \/ Tick \/ UNCHANGED vars
    BY <1>3
    DEF Start, StopCancel, Tick, vars, Reads, Current, managerVars, objectVars
<1>4. ASSUME NEW s \in Sids, NEW m \in Msgs, Send(s, m) PROVE Reads
    BY <1>4 DEF Send, Reads
<1>5. ASSUME NEW s \in Sids, Exit(s) \/ Discard(s) \/ Take(s) PROVE Reads
    BY <1>5 DEF Exit, Discard, Take, Reads
<1>6. ASSUME NEW s \in Sids,
             StartPrompt(s) \/ StoreUser(s) \/ StoreReply(s) \/ Touch(s) \/ StreamChunk(s)
      PROVE  Reads
    BY <1>6
    DEF StartPrompt, StoreUser, StoreReply, Touch, StreamChunk, Reads, Current,
        managerVars, objectVars
<1>7. ASSUME NEW s \in Sids, PromptEnds(s) PROVE Reads
    BY <1>7 DEF PromptEnds, PromptReturns, PromptFails, Reads, Current, managerVars,
                objectVars
<1>8. QED
    BY <1>1, <1>2, <1>3, <1>4, <1>5, <1>6, <1>7 DEF Next, Consumer, LoopStep

LEMMA SeenInvariant == Spec => [](TypeInv /\ SeenInv)
<1>1. Init => TypeInv /\ SeenInv
    BY InitTypeInv, InitSeen
<1>2. TypeInv /\ SeenInv /\ [Next]_vars => TypeInv' /\ SeenInv'
    BY NextTypeInv, NextReads, ReadsSeen
<1>3. QED
    BY <1>1, <1>2, PTL DEF Spec

\* Spec keeps every variable in its type.
THEOREM TypeCorrect == Spec => []TypeOK
<1>1. TypeInv /\ SeenInv => TypeOK
    BY DEF TypeInv, SeenInv, TypeOK
<1>2. QED
    BY <1>1, SeenInvariant, PTL

-----------------------------------------------------------------------------
(* The session map. *)

\* An object not created yet was never cancelled.
FreshNotCancelled == \A s \in Sids : s > created => ~cancelled[s]

\* No process, no map.
DownMapsNothing == mgr = "down" => \A k \in Keys : sessions[k] = NoSession

MapInv ==
    /\ FreshNotCancelled
    /\ DownMapsNothing
    /\ MappedIsLive
    /\ MappedIsStoredActive

LEMMA InitMapInv == Init => MapInv
BY DEF Init, MapInv, FreshNotCancelled, DownMapsNothing, MappedIsLive,
       MappedIsStoredActive

\* A step that creates no session keeps the invariant when the entries it
\* leaves in the map still run, uncancelled, with the row they had.
LEMMA MapInvWithoutCreation ==
    ASSUME TypeInv, MapInv,
           UNCHANGED <<created, key, agent>>,
           \A k \in Keys : sessions'[k] \in {sessions[k], NoSession},
           \A k \in Keys : sessions'[k] # NoSession =>
               /\ pc'[sessions[k]] \notin {"none", "done"}
               /\ ~cancelled'[sessions[k]]
               /\ rows'[k].state = rows[k].state
               /\ rows'[k].agent = rows[k].agent,
           \A s \in Sids : s > created => ~cancelled'[s],
           mgr' = "down" => mgr = "down" \/ \A k \in Keys : sessions'[k] = NoSession
    PROVE  MapInv'
<1> USE DEF MapInv
<1>1. FreshNotCancelled'
    BY DEF FreshNotCancelled
<1>2. DownMapsNothing'
    BY DEF DownMapsNothing
<1>3. MappedIsLive'
    BY DEF MappedIsLive, Running
<1>4. MappedIsStoredActive'
    BY DEF MappedIsStoredActive
<1>5. QED
    BY <1>1, <1>2, <1>3, <1>4

\* The session of a key is a created object, and no other key has it.
LEMMA MappedFacts ==
    ASSUME TypeInv, MapInv, NEW k \in Keys, sessions[k] # NoSession
    PROVE  /\ sessions[k] \in Sids /\ sessions[k] <= created
           /\ key[sessions[k]] = k /\ Running(sessions[k]) /\ ~cancelled[sessions[k]]
           /\ rows[k].state = "active" /\ rows[k].agent = agent[sessions[k]]
BY DEF TypeInv, StateTypeOK, ManagerTypeOK, CreatedInOrder, MapInv, MappedIsLive,
       MappedIsStoredActive

\* Only what the map holds is evicted.
LEMMA VictimsMapped ==
    ASSUME NEW map, NEW evicted \in Victims(map)
    PROVE  evicted \subseteq Mapped(map)
BY DEF Victims, Evictions

\* A session is created in a map that lost some entries, all of them cancelled.
LEMMA CreateMapInv ==
    ASSUME TypeInv, MapInv, NEW k \in Keys, NEW a \in Registry, mgr # "down",
           NEW map \in [Keys -> Sids \cup {NoSession}], NEW dead,
           \A j \in Keys : map[j] \in {sessions[j], NoSession},
           \A d \in dead : d = sessions[k] /\ d # NoSession,
           Create(k, a, map, dead), mgr' = mgr
    PROVE  MapInv'
<1> DEFINE s == created + 1
<1>1. \A j \in Keys : map[j] <= created
    BY BoundsAssumption
    DEF TypeInv, StateTypeOK, ManagerTypeOK, CreatedInOrder, NoSession, Sids
<1>2. /\ s \in Sids /\ created' = s /\ s > created
      /\ pc'[s] = "select" /\ key'[s] = k
      /\ \A r \in Sids \ {s} : pc'[r] = pc[r] /\ key'[r] = key[r]
    BY <1>1, CreateTypeInv, BoundsAssumption DEF TypeInv, StateTypeOK, ManagerTypeOK
<1>3. PICK evicted \in Victims(map) :
         /\ sessions' = [j \in Keys |-> IF j = k THEN s
                                        ELSE IF j \in evicted THEN NoSession
                                        ELSE map[j]]
         /\ cancelled' = CancelAll(dead \cup {map[j] : j \in evicted})
    BY DEF Create
<1>4. evicted \subseteq Keys
    BY VictimsMapped DEF Mapped
<1>5. \A r \in Sids : r > created => cancelled'[r] = cancelled[r]
    <2> SUFFICES ASSUME NEW r \in Sids, r > created
                 PROVE  cancelled'[r] = cancelled[r]
        OBVIOUS
    <2>1. \A j \in evicted : map[j] # r
        BY <1>1, <1>4, BoundsAssumption
        DEF Sids, TypeInv, StateTypeOK, ManagerTypeOK, NoSession
    <2>2. r \notin dead
        BY MappedFacts DEF Sids, TypeInv, StateTypeOK, ManagerTypeOK
    <2>3. QED
        BY <1>3, <2>1, <2>2 DEF CancelAll, TypeInv, StateTypeOK, ObjectTypeOK
<1>6. FreshNotCancelled'
    BY <1>2, <1>5
    DEF FreshNotCancelled, MapInv, TypeInv, StateTypeOK, ManagerTypeOK, Sids
<1>7. DownMapsNothing'
    BY DEF DownMapsNothing
<1>8. ASSUME NEW j \in Keys, j # k, sessions'[j] # NoSession
      PROVE  /\ sessions'[j] = sessions[j] /\ sessions[j] # s
             /\ sessions[j] \in Sids /\ cancelled'[sessions[j]] = cancelled[sessions[j]]
    <2>1. sessions'[j] = map[j] /\ map[j] = sessions[j] /\ j \notin evicted
        BY <1>3, <1>8
    <2>2. /\ sessions[j] \in Sids /\ sessions[j] <= created
          /\ key[sessions[j]] = j
        BY <1>8, <2>1, MappedFacts
    <2>3. \A i \in evicted : map[i] # sessions[j]
        BY <1>4, <2>1, <2>2, MappedFacts DEF Sids, NoSession
    <2>4. sessions[j] \notin dead
        BY <1>8, <2>2, MappedFacts
    <2>5. cancelled'[sessions[j]] = cancelled[sessions[j]]
        BY <1>3, <2>2, <2>3, <2>4 DEF CancelAll, TypeInv, StateTypeOK, ObjectTypeOK
    <2>6. QED
        BY <1>2, <2>1, <2>2, <2>5 DEF TypeInv, StateTypeOK, ManagerTypeOK, Sids
<1>9. MappedIsLive'
    <2>1. sessions'[k] = s /\ ~cancelled'[s]
        BY <1>2, <1>3, <1>5 DEF MapInv, FreshNotCancelled
    <2>2. ASSUME NEW j \in Keys, j # k, sessions'[j] # NoSession
          PROVE  /\ key'[sessions'[j]] = j /\ ~cancelled'[sessions'[j]]
                 /\ pc'[sessions'[j]] \notin {"none", "done"}
        BY <1>2, <1>8, <2>2, MappedFacts DEF Running
    <2>3. QED
        BY <1>2, <2>1, <2>2 DEF MappedIsLive, Running
<1>10. MappedIsStoredActive'
    <2>1. rows' = UpsertSession(rows, k, "active", a, now)
        BY DEF Create
    <2>2. rows'[k].state = "active" /\ rows'[k].agent = a
        BY <2>1 DEF UpsertSession, TypeInv, StateTypeOK, StoreTypeOK
    <2>3. sessions'[k] = s /\ agent'[s] = a
        BY <1>2, <1>3 DEF Create, TypeInv, StateTypeOK, ObjectTypeOK
    <2>4. ASSUME NEW j \in Keys, j # k, sessions'[j] # NoSession
          PROVE  rows'[j].state = "active" /\ rows'[j].agent = agent'[sessions'[j]]
        <3>1. rows'[j] = rows[j]
            BY <2>1, <2>4 DEF UpsertSession, TypeInv, StateTypeOK, StoreTypeOK
        <3>2. agent'[sessions[j]] = agent[sessions[j]]
            BY <1>8, <2>4 DEF Create, TypeInv, StateTypeOK, ObjectTypeOK
        <3>3. QED
            BY <1>8, <2>4, <3>1, <3>2, MappedFacts
    <2>5. QED
        BY <2>2, <2>3, <2>4 DEF MappedIsStoredActive
<1>11. QED
    BY <1>6, <1>7, <1>9, <1>10 DEF MapInv

LEMMA NextMapInv == TypeInv /\ MapInv /\ [Next]_vars => MapInv'
<1> SUFFICES ASSUME TypeInv, MapInv, [Next]_vars PROVE MapInv'
    OBVIOUS
<1> USE DEF managerVars, objectVars, loopVars, messageVars, storeVars, envVars
<1>1. ASSUME NEW k \in Keys, NEW m \in Msgs, EnqueueExisting(k, m) PROVE MapInv'
    <2>1. /\ UNCHANGED <<created, key, agent, sessions, cancelled>>
          /\ mgr' = "down" => mgr = "down"
        BY <1>1 DEF EnqueueExisting
    <2>2. \A r \in Sids : Running(r) => pc'[r] \notin {"none", "done"}
        BY <1>1 DEF EnqueueExisting, Running
    <2>3. rows' = rows
        BY <1>1 DEF EnqueueExisting
    <2>4. QED
        BY <2>1, <2>2, <2>3, MappedFacts, MapInvWithoutCreation
        DEF MapInv, FreshNotCancelled
<1>2. ASSUME NEW k \in Keys, EraseMessages(k) PROVE MapInv'
    <2>1. /\ UNCHANGED <<created, key, agent, sessions, cancelled>>
          /\ mgr' = "down" => mgr = "down"
        BY <1>2 DEF EraseMessages
    <2>2. \A r \in Sids : Running(r) => pc'[r] \notin {"none", "done"}
        BY <1>2 DEF EraseMessages, Running
    <2>3. rows' = rows
        BY <1>2 DEF EraseMessages
    <2>4. QED
        BY <2>1, <2>2, <2>3, MappedFacts, MapInvWithoutCreation
        DEF MapInv, FreshNotCancelled
<1>3. ASSUME NEW s \in Sids, NEW m \in Msgs, Send(s, m) PROVE MapInv'
    <2>1. /\ UNCHANGED <<created, key, agent, sessions, cancelled>>
          /\ mgr' = "down" => mgr = "down"
        BY <1>3 DEF Send
    <2>2. \A r \in Sids : Running(r) => pc'[r] \notin {"none", "done"}
        BY <1>3 DEF Send, Running
    <2>3. rows' = rows
        BY <1>3 DEF Send
    <2>4. QED
        BY <2>1, <2>2, <2>3, MappedFacts, MapInvWithoutCreation
        DEF MapInv, FreshNotCancelled
<1>4. ASSUME NEW s \in Sids, Discard(s) PROVE MapInv'
    <2>1. /\ UNCHANGED <<created, key, agent, sessions, cancelled>>
          /\ mgr' = "down" => mgr = "down"
        BY <1>4 DEF Discard
    <2>2. \A r \in Sids : Running(r) => pc'[r] \notin {"none", "done"}
        BY <1>4 DEF Discard, Running
    <2>3. rows' = rows
        BY <1>4 DEF Discard
    <2>4. QED
        BY <2>1, <2>2, <2>3, MappedFacts, MapInvWithoutCreation
        DEF MapInv, FreshNotCancelled
<1>5. ASSUME NEW s \in Sids, Take(s) PROVE MapInv'
    <2>1. /\ UNCHANGED <<created, key, agent, sessions, cancelled>>
          /\ mgr' = "down" => mgr = "down"
        BY <1>5 DEF Take
    <2>2. \A r \in Sids : Running(r) => pc'[r] \notin {"none", "done"}
        BY <1>5 DEF Take, CanTake, Running, TypeInv, StateTypeOK, LoopTypeOK
    <2>3. rows' = rows
        BY <1>5 DEF Take
    <2>4. QED
        BY <2>1, <2>2, <2>3, MappedFacts, MapInvWithoutCreation
        DEF MapInv, FreshNotCancelled
<1>6. ASSUME NEW s \in Sids, StartPrompt(s) PROVE MapInv'
    <2>1. /\ UNCHANGED <<created, key, agent, sessions, cancelled>>
          /\ mgr' = "down" => mgr = "down"
        BY <1>6 DEF StartPrompt
    <2>2. \A r \in Sids : Running(r) => pc'[r] \notin {"none", "done"}
        BY <1>6 DEF StartPrompt, Running, TypeInv, StateTypeOK, LoopTypeOK
    <2>3. rows' = rows
        BY <1>6 DEF StartPrompt
    <2>4. QED
        BY <2>1, <2>2, <2>3, MappedFacts, MapInvWithoutCreation
        DEF MapInv, FreshNotCancelled
<1>7. ASSUME NEW s \in Sids, StreamChunk(s) PROVE MapInv'
    <2>1. /\ UNCHANGED <<created, key, agent, sessions, cancelled>>
          /\ mgr' = "down" => mgr = "down"
        BY <1>7 DEF StreamChunk
    <2>2. \A r \in Sids : Running(r) => pc'[r] \notin {"none", "done"}
        BY <1>7 DEF StreamChunk, Running
    <2>3. rows' = rows
        BY <1>7 DEF StreamChunk
    <2>4. QED
        BY <2>1, <2>2, <2>3, MappedFacts, MapInvWithoutCreation
        DEF MapInv, FreshNotCancelled
<1>8. ASSUME NEW s \in Sids, NEW stop \in StopReasons, PromptReturns(s, stop)
      PROVE  MapInv'
    <2>1. /\ UNCHANGED <<created, key, agent, sessions, cancelled>>
          /\ mgr' = "down" => mgr = "down"
        BY <1>8 DEF PromptReturns
    <2>2. \A r \in Sids : Running(r) => pc'[r] \notin {"none", "done"}
        BY <1>8 DEF PromptReturns, Running, TypeInv, StateTypeOK, LoopTypeOK
    <2>3. rows' = rows
        BY <1>8 DEF PromptReturns
    <2>4. QED
        BY <2>1, <2>2, <2>3, MappedFacts, MapInvWithoutCreation
        DEF MapInv, FreshNotCancelled
<1>9. ASSUME NEW s \in Sids, PromptFails(s) PROVE MapInv'
    <2>1. /\ UNCHANGED <<created, key, agent, sessions, cancelled>>
          /\ mgr' = "down" => mgr = "down"
        BY <1>9 DEF PromptFails
    <2>2. \A r \in Sids : Running(r) => pc'[r] \notin {"none", "done"}
        BY <1>9 DEF PromptFails, Running, TypeInv, StateTypeOK, LoopTypeOK
    <2>3. rows' = rows
        BY <1>9 DEF PromptFails
    <2>4. QED
        BY <2>1, <2>2, <2>3, MappedFacts, MapInvWithoutCreation
        DEF MapInv, FreshNotCancelled
<1>10. ASSUME NEW s \in Sids, StoreUser(s) PROVE MapInv'
    <2>1. /\ UNCHANGED <<created, key, agent, sessions, cancelled>>
          /\ mgr' = "down" => mgr = "down"
        BY <1>10 DEF StoreUser
    <2>2. \A r \in Sids : Running(r) => pc'[r] \notin {"none", "done"}
        BY <1>10 DEF StoreUser, Running, TypeInv, StateTypeOK, LoopTypeOK
    <2>3. rows' = rows
        BY <1>10 DEF StoreUser
    <2>4. QED
        BY <2>1, <2>2, <2>3, MappedFacts, MapInvWithoutCreation
        DEF MapInv, FreshNotCancelled
<1>11. ASSUME NEW s \in Sids, StoreReply(s) PROVE MapInv'
    <2>1. /\ UNCHANGED <<created, key, agent, sessions, cancelled>>
          /\ mgr' = "down" => mgr = "down"
        BY <1>11 DEF StoreReply
    <2>2. \A r \in Sids : Running(r) => pc'[r] \notin {"none", "done"}
        BY <1>11 DEF StoreReply, Running, TypeInv, StateTypeOK, LoopTypeOK
    <2>3. rows' = rows
        BY <1>11 DEF StoreReply
    <2>4. QED
        BY <2>1, <2>2, <2>3, MappedFacts, MapInvWithoutCreation
        DEF MapInv, FreshNotCancelled
<1>12. ASSUME NEW s \in Sids, Touch(s) PROVE MapInv'
    <2>1. /\ UNCHANGED <<created, key, agent, sessions, cancelled>>
          /\ mgr' = "down" => mgr = "down"
        BY <1>12 DEF Touch
    <2>2. \A r \in Sids : Running(r) => pc'[r] \notin {"none", "done"}
        BY <1>12 DEF Touch, Running, TypeInv, StateTypeOK, LoopTypeOK
    <2>3. \A k \in Keys : sessions[k] # NoSession =>
              rows'[k].state = rows[k].state /\ rows'[k].agent = rows[k].agent
        BY <1>12
        DEF Touch, UpdateActivity, Rows, NoRow, TypeInv, StateTypeOK, StoreTypeOK
    <2>4. QED
        BY <2>1, <2>2, <2>3, MappedFacts, MapInvWithoutCreation
        DEF MapInv, FreshNotCancelled
<1>13. ASSUME StopCancel PROVE MapInv'
    <2>1. /\ UNCHANGED <<created, key, agent, sessions, cancelled>>
          /\ mgr' = "down" => mgr = "down"
        BY <1>13 DEF StopCancel
    <2>2. \A r \in Sids : Running(r) => pc'[r] \notin {"none", "done"}
        BY <1>13 DEF StopCancel, Running
    <2>3. rows' = rows
        BY <1>13 DEF StopCancel
    <2>4. QED
        BY <2>1, <2>2, <2>3, MappedFacts, MapInvWithoutCreation
        DEF MapInv, FreshNotCancelled
<1>14. ASSUME Tick PROVE MapInv'
    <2>1. /\ UNCHANGED <<created, key, agent, sessions, cancelled>>
          /\ mgr' = "down" => mgr = "down"
        BY <1>14 DEF Tick
    <2>2. \A r \in Sids : Running(r) => pc'[r] \notin {"none", "done"}
        BY <1>14 DEF Tick, Running
    <2>3. rows' = rows
        BY <1>14 DEF Tick
    <2>4. QED
        BY <2>1, <2>2, <2>3, MappedFacts, MapInvWithoutCreation
        DEF MapInv, FreshNotCancelled
<1>15. ASSUME UNCHANGED vars PROVE MapInv'
    <2>1. /\ UNCHANGED <<created, key, agent, sessions, cancelled>>
          /\ mgr' = "down" => mgr = "down"
        BY <1>15 DEF vars
    <2>2. \A r \in Sids : Running(r) => pc'[r] \notin {"none", "done"}
        BY <1>15 DEF vars, Running
    <2>3. rows' = rows
        BY <1>15 DEF vars
    <2>4. QED
        BY <2>1, <2>2, <2>3, MappedFacts, MapInvWithoutCreation
        DEF MapInv, FreshNotCancelled
<1>16. ASSUME NEW k \in Keys, NEW m \in Msgs, NEW a \in Registry, EnqueueNew(k, m, a)
      PROVE  MapInv'
    <2>1. sessions \in [Keys -> Sids \cup {NoSession}]
        BY DEF TypeInv, StateTypeOK, ManagerTypeOK
    <2>2. Create(k, a, sessions, {}) /\ mgr # "down" /\ mgr' = mgr
        BY <1>16 DEF EnqueueNew, Arrives, Up
    <2>3. QED
        BY <2>1, <2>2, CreateMapInv
<1>17. ASSUME NEW k \in Keys, NEW a \in Registry, SwitchAgent(k, a)
      PROVE  MapInv'
    <2> DEFINE map == [sessions EXCEPT ![k] = NoSession]
    <2>1. /\ map \in [Keys -> Sids \cup {NoSession}]
          /\ \A j \in Keys : map[j] \in {sessions[j], NoSession}
        BY DEF TypeInv, StateTypeOK, ManagerTypeOK
    <2>2. /\ Create(k, a, map, {sessions[k]} \ {NoSession})
          /\ mgr # "down" /\ mgr' = mgr
        BY <1>17 DEF SwitchAgent, Up
    <2> HIDE DEF map
    <2>3. QED
        BY <2>1, <2>2, CreateMapInv
<1>18. ASSUME NEW k \in Keys, CancelSession(k) PROVE MapInv'
    <2>1. UNCHANGED <<created, key, agent>> /\ (mgr' = "down" => mgr = "down")
        BY <1>18 DEF CancelSession
    <2>2. \A j \in Keys : sessions'[j] \in {sessions[j], NoSession}
        BY <1>18 DEF CancelSession, TypeInv, StateTypeOK, ManagerTypeOK
    <2>3. \A j \in Keys : sessions'[j] # NoSession =>
              /\ pc'[sessions[j]] \notin {"none", "done"}
              /\ ~cancelled'[sessions[j]]
              /\ rows'[j].state = rows[j].state /\ rows'[j].agent = rows[j].agent
        <3> SUFFICES ASSUME NEW j \in Keys, sessions'[j] # NoSession
                     PROVE  /\ pc'[sessions[j]] \notin {"none", "done"}
                            /\ ~cancelled'[sessions[j]]
                            /\ rows'[j].state = rows[j].state
                            /\ rows'[j].agent = rows[j].agent
            OBVIOUS
        <3>1. j # k /\ sessions[j] # NoSession /\ sessions[k] # NoSession
            BY <1>18 DEF CancelSession, TypeInv, StateTypeOK, ManagerTypeOK
        <3>2. sessions[j] # sessions[k]
            BY <3>1, MappedFacts
        <3>3. QED
            BY <1>18, <3>1, <3>2, MappedFacts
            DEF CancelSession, CancelAll, Running
    <2>4. \A s \in Sids : s > created => ~cancelled'[s]
        <3>1. sessions[k] <= created /\ created \in Nat
            BY <1>18
            DEF CancelSession, TypeInv, StateTypeOK, ManagerTypeOK, CreatedInOrder
        <3>2. QED
            BY <1>18, <3>1
            DEF CancelSession, CancelAll, MapInv, FreshNotCancelled, Sids, TypeInv,
                StateTypeOK, ObjectTypeOK
    <2>9. QED
        BY <2>1, <2>2, <2>3, <2>4, MapInvWithoutCreation
<1>19. ASSUME NEW k \in Keys, RemoveSession(k) PROVE MapInv'
    <2>1. UNCHANGED <<created, key, agent>> /\ (mgr' = "down" => mgr = "down")
        BY <1>19 DEF RemoveSession
    <2>2. \A j \in Keys : sessions'[j] \in {sessions[j], NoSession}
        BY <1>19 DEF RemoveSession, TypeInv, StateTypeOK, ManagerTypeOK
    <2>3. \A j \in Keys : sessions'[j] # NoSession =>
              /\ pc'[sessions[j]] \notin {"none", "done"}
              /\ ~cancelled'[sessions[j]]
              /\ rows'[j].state = rows[j].state /\ rows'[j].agent = rows[j].agent
        <3> SUFFICES ASSUME NEW j \in Keys, sessions'[j] # NoSession
                     PROVE  /\ pc'[sessions[j]] \notin {"none", "done"}
                            /\ ~cancelled'[sessions[j]]
                            /\ rows'[j].state = rows[j].state
                            /\ rows'[j].agent = rows[j].agent
            OBVIOUS
        <3>1. j # k /\ sessions[j] # NoSession
            BY <1>19 DEF RemoveSession, TypeInv, StateTypeOK, ManagerTypeOK
        <3>2. sessions[j] \notin {sessions[k]} \ {NoSession}
            BY <3>1, MappedFacts
        <3>3. QED
            BY <1>19, <3>1, <3>2, MappedFacts
            DEF RemoveSession, CancelAll, Running
    <2>4. \A s \in Sids : s > created => ~cancelled'[s]
        <3>1. sessions[k] <= created /\ created \in Nat
            BY DEF TypeInv, StateTypeOK, ManagerTypeOK, CreatedInOrder
        <3>2. QED
            BY <1>19, <3>1
            DEF RemoveSession, CancelAll, MapInv, FreshNotCancelled, Sids, TypeInv,
                StateTypeOK, ObjectTypeOK
    <2>9. QED
        BY <2>1, <2>2, <2>3, <2>4, MapInvWithoutCreation
<1>20. ASSUME CleanupIdle PROVE MapInv'
    <2>5. PICK gone \in IdleSets \ {{}} :
            /\ cancelled' = CancelAll({sessions[k] : k \in gone})
            /\ sessions' = [k \in Keys |-> IF k \in gone THEN NoSession ELSE sessions[k]]
            /\ rows' = UpdateStates(rows, gone, "suspended")
        BY <1>20 DEF CleanupIdle
    <2>6. \A i \in gone : i \in Keys /\ sessions[i] # NoSession
        BY DEF IdleSets, Mapped
    <2>1. UNCHANGED <<created, key, agent>> /\ (mgr' = "down" => mgr = "down")
        BY <1>20 DEF CleanupIdle
    <2>2. \A j \in Keys : sessions'[j] \in {sessions[j], NoSession}
        BY <2>5
    <2>3. \A j \in Keys : sessions'[j] # NoSession =>
              /\ pc'[sessions[j]] \notin {"none", "done"}
              /\ ~cancelled'[sessions[j]]
              /\ rows'[j].state = rows[j].state /\ rows'[j].agent = rows[j].agent
        <3> SUFFICES ASSUME NEW j \in Keys, sessions'[j] # NoSession
                     PROVE  /\ pc'[sessions[j]] \notin {"none", "done"}
                            /\ ~cancelled'[sessions[j]]
                            /\ rows'[j].state = rows[j].state
                            /\ rows'[j].agent = rows[j].agent
            OBVIOUS
        <3>1. j \notin gone /\ sessions[j] # NoSession
            BY <2>5
        <3>2. sessions[j] \notin {sessions[i] : i \in gone}
            BY <2>6, <3>1, MappedFacts
        <3>3. rows'[j] = rows[j]
            BY <2>5, <3>1 DEF UpdateStates
        <3>4. QED
            BY <1>20, <2>5, <3>1, <3>2, <3>3, MappedFacts
            DEF CleanupIdle, CancelAll, Running
    <2>4. \A s \in Sids : s > created => ~cancelled'[s]
        <3>1. \A i \in gone : sessions[i] <= created
            BY <2>6, MappedFacts
        <3>2. created \in Nat /\ \A i \in gone : sessions[i] \in Nat
            BY <2>6, BoundsAssumption
            DEF TypeInv, StateTypeOK, ManagerTypeOK, Sids, NoSession
        <3>3. QED
            BY <2>5, <3>1, <3>2
            DEF CancelAll, MapInv, FreshNotCancelled, Sids, TypeInv,
                StateTypeOK, ObjectTypeOK
    <2>9. QED
        BY <2>1, <2>2, <2>3, <2>4, MapInvWithoutCreation
<1>21. ASSUME NEW k \in Keys, NEW m \in Msgs, NEW a \in Agents \ Registry,
             EnqueueUnknown(k, m, a) PROVE MapInv'
    <2>1. UNCHANGED <<created, key, agent>> /\ (mgr' = "down" => mgr = "down")
        BY <1>21 DEF EnqueueUnknown
    <2> PICK evicted \in Victims(sessions) :
            /\ sessions' = [j \in Keys |-> IF j \in evicted THEN NoSession
                                           ELSE sessions[j]]
            /\ cancelled' = CancelAll({sessions[j] : j \in evicted})
        BY <1>21 DEF EnqueueUnknown, CreateFails
    <2>2. \A j \in Keys : sessions'[j] \in {sessions[j], NoSession}
        OBVIOUS
    <2>5. \A i \in evicted : i \in Keys /\ sessions[i] # NoSession
        BY VictimsMapped DEF Mapped
    <2>3. \A j \in Keys : sessions'[j] # NoSession =>
              /\ pc'[sessions[j]] \notin {"none", "done"}
              /\ ~cancelled'[sessions[j]]
              /\ rows'[j].state = rows[j].state /\ rows'[j].agent = rows[j].agent
        <3> SUFFICES ASSUME NEW j \in Keys, sessions'[j] # NoSession
                     PROVE  /\ pc'[sessions[j]] \notin {"none", "done"}
                            /\ ~cancelled'[sessions[j]]
                            /\ rows'[j].state = rows[j].state
                            /\ rows'[j].agent = rows[j].agent
            OBVIOUS
        <3>1. j \notin evicted /\ sessions[j] # NoSession
            OBVIOUS
        <3>2. sessions[j] \notin {sessions[i] : i \in evicted}
            BY <2>5, <3>1, MappedFacts
        <3>3. QED
            BY <1>21, <3>1, <3>2, MappedFacts
            DEF EnqueueUnknown, CancelAll, Running
    <2>4. \A s \in Sids : s > created => ~cancelled'[s]
        <3>1. \A i \in evicted : sessions[i] <= created
            BY <2>5, MappedFacts
        <3>2. created \in Nat /\ \A i \in evicted : sessions[i] \in Nat
            BY <2>5, BoundsAssumption
            DEF TypeInv, StateTypeOK, ManagerTypeOK, Sids, NoSession
        <3>3. QED
            BY <3>1, <3>2 DEF CancelAll, MapInv, FreshNotCancelled, Sids, TypeInv,
                StateTypeOK, ObjectTypeOK
    <2>9. QED
        BY <2>1, <2>2, <2>3, <2>4, MapInvWithoutCreation
<1>22. ASSUME NEW s \in Sids, Exit(s) PROVE MapInv'
    <2>1. UNCHANGED <<created, key, agent>> /\ (mgr' = "down" => mgr = "down")
        BY <1>22 DEF Exit
    <2>2. \A j \in Keys : sessions'[j] \in {sessions[j], NoSession}
        BY <1>22 DEF Exit, MapAfterExit, TypeInv, StateTypeOK, ManagerTypeOK
    <2>3. \A j \in Keys : sessions'[j] # NoSession =>
              /\ pc'[sessions[j]] \notin {"none", "done"}
              /\ ~cancelled'[sessions[j]]
              /\ rows'[j].state = rows[j].state /\ rows'[j].agent = rows[j].agent
        <3> SUFFICES ASSUME NEW j \in Keys, sessions'[j] # NoSession
                     PROVE  /\ pc'[sessions[j]] \notin {"none", "done"}
                            /\ ~cancelled'[sessions[j]]
                            /\ rows'[j].state = rows[j].state
                            /\ rows'[j].agent = rows[j].agent
            OBVIOUS
        <3>1. sessions[j] # NoSession /\ j # key[s]
            BY <1>22 DEF Exit, MapAfterExit, TypeInv, StateTypeOK, ManagerTypeOK
        <3>2. sessions[j] # s
            BY <3>1, MappedFacts
        <3>3. QED
            BY <1>22, <3>1, <3>2, MappedFacts
            DEF Exit, CancelAll, Running, TypeInv, StateTypeOK, LoopTypeOK
    <2>4. \A r \in Sids : r > created => ~cancelled'[r]
        <3>1. ~(s > created)
            BY <1>22 DEF Exit, CanExit, TypeInv, CreatedInOrder
        <3>2. QED
            BY <1>22, <3>1 DEF Exit, CancelAll, MapInv, FreshNotCancelled, TypeInv,
                StateTypeOK, ObjectTypeOK
    <2>9. QED
        BY <2>1, <2>2, <2>3, <2>4, MapInvWithoutCreation
<1>23. ASSUME StopKill PROVE MapInv'
    <2>1. \A s \in Sids : s > created => ~cancelled'[s]
        <3>1. \A i \in Mapped(sessions) : sessions[i] <= created
            BY MappedFacts DEF Mapped
        <3>2. created \in Nat /\ \A i \in Mapped(sessions) : sessions[i] \in Nat
            BY BoundsAssumption
            DEF TypeInv, StateTypeOK, ManagerTypeOK, Mapped, Sids, NoSession
        <3>3. QED
            BY <1>23, <3>1, <3>2
            DEF StopKill, CancelAll, MapInv, FreshNotCancelled, Sids, TypeInv,
                StateTypeOK, ObjectTypeOK
    <2>2. QED
        BY <1>23, <2>1, MapInvWithoutCreation DEF StopKill
<1>24. ASSUME ProcessEnds PROVE MapInv'
    <2>1. \A s \in Sids : s > created => ~cancelled'[s]
        BY <1>24 DEF ProcessEnds, CancelAll, MapInv, FreshNotCancelled, TypeInv,
                    StateTypeOK, ManagerTypeOK, ObjectTypeOK, Sids
    <2>2. QED
        BY <1>24, <2>1, MapInvWithoutCreation DEF ProcessEnds
<1>25. ASSUME Start PROVE MapInv'
    <2>1. \A k \in Keys : sessions[k] = NoSession
        BY <1>25 DEF Start, MapInv, DownMapsNothing
    <2>2. QED
        BY <1>25, <2>1, MapInvWithoutCreation
        DEF Start, MapInv, FreshNotCancelled
<1>26. QED
    BY <1>1, <1>2, <1>3, <1>4, <1>5, <1>6, <1>7, <1>8, <1>9, <1>10, <1>11,
       <1>12, <1>13, <1>14, <1>15, <1>16, <1>17, <1>18, <1>19, <1>20, <1>21,
       <1>22, <1>23, <1>24, <1>25
    DEF Next, Caller, Consumer, LoopStep, PromptEnds

LEMMA MapInvariant == Spec => [](TypeInv /\ MapInv)
<1>1. Init => TypeInv /\ MapInv
    BY InitTypeInv, InitMapInv
<1>2. TypeInv /\ MapInv /\ [Next]_vars => TypeInv' /\ MapInv'
    BY NextTypeInv, NextMapInv
<1>3. QED
    BY <1>1, <1>2, PTL DEF Spec

\* The map names only sessions whose goroutine runs, under their own key and
\* not cancelled: a message Enqueue looks up a session for has somebody to
\* serve it, and no two keys share a session.
THEOREM MapIsLive == Spec => []MappedIsLive
<1>1. MapInv => MappedIsLive
    BY DEF MapInv
<1>2. QED
    BY <1>1, MapInvariant, PTL

\* The row of a key that has a session is active and names its agent.
THEOREM MapIsStored == Spec => []MappedIsStoredActive
<1>1. MapInv => MappedIsStoredActive
    BY DEF MapInv
<1>2. QED
    BY <1>1, MapInvariant, PTL

-----------------------------------------------------------------------------
(* The loop of evictOldestLocked. *)

\* A set of naturals with 0, and with every successor of its members, is Nat.
LEMMA InductiveSet ==
    ASSUME NEW S \in SUBSET Nat, 0 \in S, \A n \in S : n + 1 \in S
    PROVE  S = Nat
<1> SUFFICES ASSUME Nat \ S # {} PROVE FALSE
    OBVIOUS
<1>1. PICK x \in Nat \ S : \A y \in Nat \ S : ~(<<y, x>> \in OpToRel(<, Nat))
    BY NatLessThanWellFounded, WFMin
<1>2. ASSUME NEW y \in Nat \ S PROVE ~(y < x)
    <2>1. <<y, x>> \in Nat \X Nat /\ <<y, x>>[1] = y /\ <<y, x>>[2] = x
        OBVIOUS
    <2>2. QED
        BY <1>1, <2>1, Zenon DEF OpToRel
<1>3. x # 0 /\ x - 1 \in Nat /\ x - 1 < x
    OBVIOUS
<1>4. x - 1 \in S
    BY <1>2, <1>3
<1>5. x - 1 + 1 \in S
    BY <1>4
<1>6. QED
    BY <1>5

TurnSet == [key : Keys, idle : BOOLEAN, compared : 0 .. MaxTime, kept : 0 .. MaxTime]
BestSet == [key : Keys \cup {None}, activity : 0 .. MaxTime + 1]
NoBest  == [key |-> None, activity |-> MaxTime + 1]

LEMMA TurnsTyped ==
    ASSUME SeenTypeOK, NEW k \in Keys
    PROVE  \A t \in Turns(k) :
              /\ t \in TurnSet /\ t.key = k
              /\ \E r \in seen[k] : r.idle = t.idle
              /\ \E r \in seen[k] : r.activity = t.compared
              /\ \E r \in seen[k] : r.activity = t.kept
<1> SUFFICES ASSUME NEW r1 \in seen[k], NEW r2 \in seen[k], NEW r3 \in seen[k],
                    NEW t, t = [key |-> k, idle |-> r1.idle, compared |-> r2.activity,
                                kept |-> r3.activity]
             PROVE  /\ t \in TurnSet /\ t.key = k
                    /\ \E r \in seen[k] : r.idle = t.idle
                    /\ \E r \in seen[k] : r.activity = t.compared
                    /\ \E r \in seen[k] : r.activity = t.kept
    BY DEF Turns
<1>1. r1.idle \in BOOLEAN /\ r2.activity \in 0 .. MaxTime /\ r3.activity \in 0 .. MaxTime
    BY DEF SeenTypeOK
<1>2. t \in TurnSet
    BY <1>1 DEF TurnSet
<1>3. QED
    BY <1>2

LEMMA BetterType ==
    ASSUME NEW b \in BestSet, NEW t \in TurnSet
    PROVE  Better(b, t) \in BestSet
<1>1. t.key \in Keys \cup {None} /\ t.kept \in 0 .. MaxTime + 1
    BY BoundsAssumption DEF TurnSet
<1>2. QED
    BY <1>1 DEF Better, BestSet

\* The best before the first and after each of the first n turns.
BestStates(f, n, pass) ==
    f[0] = NoBest /\ \A i \in 1 .. n : f[i] = Better(f[i - 1], pass[i])

LEMMA BestRuns ==
    ASSUME NEW pass \in Seq(TurnSet)
    PROVE  \A n \in Nat : n <= Len(pass) =>
              \E f \in [0 .. n -> BestSet] : BestStates(f, n, pass)
<1> DEFINE T == {n \in Nat : n <= Len(pass) =>
                    \E f \in [0 .. n -> BestSet] : BestStates(f, n, pass)}
<1>0. NoBest \in BestSet /\ Len(pass) \in Nat
    BY BoundsAssumption, LenProperties DEF NoBest, BestSet
<1>1. 0 \in T
    <2> DEFINE f == [i \in 0 .. 0 |-> NoBest]
    <2>1. f \in [0 .. 0 -> BestSet] /\ f[0] = NoBest /\ 1 .. 0 = {}
        BY <1>0
    <2>2. BestStates(f, 0, pass)
        BY <2>1 DEF BestStates
    <2>3. QED
        BY <2>1, <2>2
<1>2. ASSUME NEW n \in T PROVE n + 1 \in T
    <2> SUFFICES ASSUME n + 1 <= Len(pass)
                 PROVE  \E f \in [0 .. n + 1 -> BestSet] : BestStates(f, n + 1, pass)
        OBVIOUS
    <2>1. n \in Nat /\ n <= Len(pass)
        BY <1>0
    <2>2. PICK f \in [0 .. n -> BestSet] : BestStates(f, n, pass)
        BY <2>1
    <2>3. pass[n + 1] \in TurnSet
        BY <1>0, <2>1, LenProperties
    <2> DEFINE g == [i \in 0 .. n + 1 |-> IF i = n + 1 THEN Better(f[n], pass[n + 1])
                                          ELSE f[i]]
    <2>4. /\ \A i \in 0 .. n : g[i] = f[i]
          /\ g[n + 1] = Better(f[n], pass[n + 1]) /\ f[n] \in BestSet
        BY <2>1
    <2>5. g \in [0 .. n + 1 -> BestSet]
        <3>1. \A i \in 0 .. n + 1 : i \in 0 .. n \/ i = n + 1
            BY <2>1
        <3>2. Better(f[n], pass[n + 1]) \in BestSet
            BY <2>3, <2>4, BetterType
        <3>3. QED
            BY <3>1, <3>2
    <2> HIDE DEF g
    <2>6. ASSUME NEW i \in 1 .. n + 1 PROVE g[i] = Better(g[i - 1], pass[i])
        <3>1. CASE i \in 1 .. n
            <4>1. i \in 0 .. n /\ i - 1 \in 0 .. n
                BY <2>1, <3>1
            <4>2. QED
                BY <2>2, <2>4, <3>1, <4>1 DEF BestStates
        <3>2. CASE i = n + 1
            <4>1. i - 1 = n /\ n \in 0 .. n
                BY <2>1, <3>2
            <4>2. QED
                BY <2>4, <3>2, <4>1
        <3>3. QED
            BY <2>1, <3>1, <3>2
    <2>7. g[0] = NoBest
        <3>1. 0 \in 0 .. n
            BY <2>1
        <3>2. QED
            BY <2>2, <2>4, <3>1 DEF BestStates
    <2>8. BestStates(g, n + 1, pass)
        BY <2>6, <2>7 DEF BestStates
    <2>9. QED
        BY <2>5, <2>8
<1>3. T = Nat
    <2> HIDE DEF T
    <2>1. T \in SUBSET Nat
        BY DEF T
    <2>2. QED
        BY <1>1, <1>2, <2>1, InductiveSet
<1>4. QED
    BY <1>3

Bests(f, pass) ==
    f = [i \in 0 .. Len(pass) |->
            IF i = 0 THEN [key |-> None, activity |-> MaxTime + 1]
            ELSE Better(f[i - 1], pass[i])]

LEMMA OldestIs ==
    ASSUME NEW pass
    PROVE  LET f == CHOOSE g : Bests(g, pass) IN OldestOf(pass) = f[Len(pass)].key
BY DEF OldestOf, Bests

\* What the loop has found after n turns.
Found(b, n, pass) ==
    /\ b \in BestSet
    /\ b.key = None => b.activity = MaxTime + 1 /\ \A y \in 1 .. n : ~pass[y].idle
    /\ b.key # None => \E x \in 1 .. n : /\ pass[x].idle /\ pass[x].key = b.key
                                         /\ pass[x].kept = b.activity
    /\ (\A y \in 1 .. Len(pass) : pass[y].compared = pass[y].kept) =>
           \A y \in 1 .. n : pass[y].idle => b.activity <= pass[y].kept

LEMMA FoundNext ==
    ASSUME NEW pass \in Seq(TurnSet), NEW n \in Nat, n + 1 <= Len(pass),
           NEW b, Found(b, n, pass)
    PROVE  Found(Better(b, pass[n + 1]), n + 1, pass)
<1>1. PICK t \in TurnSet : t = pass[n + 1]
    BY LenProperties
<1>2. /\ t.key \in Keys /\ t.key # None /\ t.compared \in 0 .. MaxTime
      /\ t.kept \in 0 .. MaxTime /\ MaxTime \in Nat
    BY NoneAssumption, BoundsAssumption DEF TurnSet
<1>3. b \in BestSet /\ b.activity \in Nat
    BY BoundsAssumption DEF Found, BestSet
<1>4. \A y \in 1 .. n + 1 : y \in 1 .. n \/ y = n + 1
    OBVIOUS
<1>5. CASE t.idle /\ t.compared < b.activity
    <2>1. PICK c \in BestSet : c = Better(b, t)
        BY <1>3, BetterType
    <2>2. c.key = t.key /\ c.activity = t.kept
        BY <1>5, <2>1 DEF Better
    <2>3. ASSUME \A y \in 1 .. Len(pass) : pass[y].compared = pass[y].kept,
                 NEW y \in 1 .. n + 1, pass[y].idle
          PROVE  c.activity <= pass[y].kept
        <3>1. CASE y = n + 1
            BY <1>1, <1>2, <2>2, <3>1
        <3>2. CASE y \in 1 .. n
            <4>1. b.activity <= pass[y].kept
                BY <2>3, <3>2 DEF Found
            <4>2. t.kept = t.compared
                BY <1>1, <2>3
            <4>3. pass[y].kept \in Nat
                <5>1. pass[y] \in TurnSet
                    BY <3>2, LenProperties
                <5>2. QED
                    BY <5>1, BoundsAssumption DEF TurnSet
            <4>4. QED
                BY <1>2, <1>3, <1>5, <2>2, <4>1, <4>2, <4>3
        <3>3. QED
            BY <1>4, <3>1, <3>2
    <2>4. \E x \in 1 .. n + 1 : /\ pass[x].idle /\ pass[x].key = c.key
                                /\ pass[x].kept = c.activity
        BY <1>1, <1>5, <2>2
    <2>5. Found(c, n + 1, pass)
        BY <1>2, <2>2, <2>3, <2>4 DEF Found
    <2>6. QED
        BY <1>1, <2>1, <2>5
<1>6. CASE ~(t.idle /\ t.compared < b.activity)
    <2>1. Better(b, t) = b
        BY <1>6 DEF Better
    <2>2. b.key = None => b.activity = MaxTime + 1 /\ \A y \in 1 .. n + 1 : ~pass[y].idle
        BY <1>1, <1>2, <1>4, <1>6 DEF Found
    <2>3. b.key # None => \E x \in 1 .. n + 1 : /\ pass[x].idle /\ pass[x].key = b.key
                                                /\ pass[x].kept = b.activity
        BY DEF Found
    <2>4. ASSUME \A y \in 1 .. Len(pass) : pass[y].compared = pass[y].kept,
                 NEW y \in 1 .. n + 1, pass[y].idle
          PROVE  b.activity <= pass[y].kept
        <3>1. CASE y = n + 1
            <4>1. t.kept = t.compared
                BY <1>1, <2>4
            <4>2. QED
                BY <1>1, <1>2, <1>3, <1>6, <2>4, <3>1, <4>1
        <3>2. CASE y \in 1 .. n
            BY <2>4, <3>2 DEF Found
        <3>3. QED
            BY <1>4, <3>1, <3>2
    <2>5. QED
        BY <1>1, <1>3, <2>1, <2>2, <2>3, <2>4 DEF Found
<1>7. QED
    BY <1>5, <1>6

LEMMA OldestFound ==
    ASSUME NEW pass \in Seq(TurnSet)
    PROVE  \E b : OldestOf(pass) = b.key /\ Found(b, Len(pass), pass)
<1>1. Len(pass) \in Nat
    BY LenProperties
<1>2. PICK h \in [0 .. Len(pass) -> BestSet] : BestStates(h, Len(pass), pass)
    BY <1>1, BestRuns
<1>3. ASSUME NEW i \in 0 .. Len(pass)
      PROVE  h[i] = IF i = 0 THEN [key |-> None, activity |-> MaxTime + 1]
                    ELSE Better(h[i - 1], pass[i])
    BY <1>1, <1>2 DEF BestStates, NoBest
<1>4. Bests(h, pass)
    BY <1>3 DEF Bests
<1>5. PICK f : f = CHOOSE g : Bests(g, pass)
    OBVIOUS
<1>6. Bests(f, pass)
    BY <1>4, <1>5
<1>7. f[0] = NoBest /\ \A i \in 1 .. Len(pass) : f[i] = Better(f[i - 1], pass[i])
    BY <1>1, <1>6 DEF Bests, NoBest
<1> DEFINE T == {n \in Nat : n <= Len(pass) => Found(f[n], n, pass)}
<1>8. 0 \in T
    <2>1. 1 .. 0 = {} /\ NoBest \in BestSet /\ NoBest.key = None
          /\ NoBest.activity = MaxTime + 1
        BY BoundsAssumption DEF NoBest, BestSet
    <2>2. Found(NoBest, 0, pass)
        BY <2>1 DEF Found
    <2>3. QED
        BY <1>7, <2>2
<1>9. ASSUME NEW n \in T PROVE n + 1 \in T
    <2> SUFFICES ASSUME n + 1 <= Len(pass) PROVE Found(f[n + 1], n + 1, pass)
        OBVIOUS
    <2>1. n \in Nat /\ n <= Len(pass) /\ n + 1 \in 1 .. Len(pass) /\ n + 1 - 1 = n
        BY <1>1
    <2>2. Found(f[n], n, pass)
        BY <2>1
    <2>3. f[n + 1] = Better(f[n], pass[n + 1])
        BY <1>7, <2>1
    <2>4. QED
        BY <2>1, <2>2, <2>3, FoundNext
<1>10. T = Nat
    <2> HIDE DEF T
    <2>1. T \in SUBSET Nat
        BY DEF T
    <2>2. QED
        BY <1>8, <1>9, <2>1, InductiveSet
<1>11. Found(f[Len(pass)], Len(pass), pass)
    BY <1>1, <1>10
<1>12. OldestOf(pass) = f[Len(pass)].key
    BY <1>5, OldestIs
<1>13. QED
    BY <1>11, <1>12

\* Every session is looked at, in a turn made of what was seen of it.
LEMMA PassFacts ==
    ASSUME SeenTypeOK, NEW map, Cardinality(Mapped(map)) \in Nat,
           NEW pass \in Passes(map)
    PROVE  /\ pass \in Seq(TurnSet)
           /\ \A i \in 1 .. Len(pass) :
                 pass[i].key \in Mapped(map) /\ pass[i] \in Turns(pass[i].key)
           /\ \A k \in Mapped(map) : \E i \in 1 .. Len(pass) : pass[i].key = k
<1> DEFINE n == Cardinality(Mapped(map))
           U == UNION {Turns(k) : k \in Mapped(map)}
<1>1. pass \in [1 .. n -> U] /\ \A k \in Mapped(map) : \E i \in 1 .. n : pass[i].key = k
    BY DEF Passes
<1>2. ASSUME NEW t \in U
      PROVE  t \in TurnSet /\ t.key \in Mapped(map) /\ t \in Turns(t.key)
    <2>1. PICK k \in Mapped(map) : t \in Turns(k)
        OBVIOUS
    <2>2. k \in Keys
        BY DEF Mapped
    <2>3. t \in TurnSet /\ t.key = k
        BY <2>1, <2>2, TurnsTyped
    <2>4. QED
        BY <2>1, <2>3
<1> HIDE DEF n, U
<1>3. pass \in [1 .. n -> TurnSet] /\ n \in Nat
    BY <1>1, <1>2 DEF n
<1>4. pass \in Seq(TurnSet) /\ Len(pass) = n
    BY <1>3, IsASeq
<1>5. QED
    BY <1>1, <1>2, <1>4

\* Who is evicted had an empty queue when it was looked at; if nobody is, everyone
\* had messages waiting; and, all things being equal, nobody else who was looked
\* at with an empty queue had been without activity for longer.
LEMMA VictimFacts ==
    ASSUME SeenTypeOK, NEW map, Cardinality(Mapped(map)) \in Nat,
           NEW evicted \in Victims(map)
    PROVE  /\ \A j \in evicted : evicted = {j} /\ SeenIdle(j)
           /\ Cardinality(Mapped(map)) >= MaxConcurrent /\ evicted = {} =>
                 \A k \in Mapped(map) : SeenBusy(k)
           /\ ~TouchedMeanwhile => \A j \in evicted, i \in Mapped(map) :
                 \/ SeenBusy(i)
                 \/ \E r \in seen[j], t \in seen[i] : r.activity <= t.activity
<1>1. CASE Cardinality(Mapped(map)) < MaxConcurrent
    BY <1>1, LimitsAssumption DEF Victims
<1>2. CASE ~(Cardinality(Mapped(map)) < MaxConcurrent)
    <2>1. PICK pass \in Passes(map) : evicted = {k \in Mapped(map) : k = OldestOf(pass)}
        BY <1>2 DEF Victims, Evictions
    <2>2. /\ pass \in Seq(TurnSet)
          /\ \A i \in 1 .. Len(pass) :
                pass[i].key \in Mapped(map) /\ pass[i] \in Turns(pass[i].key)
          /\ \A k \in Mapped(map) : \E i \in 1 .. Len(pass) : pass[i].key = k
        BY <2>1, PassFacts
    <2>3. PICK b : OldestOf(pass) = b.key /\ Found(b, Len(pass), pass)
        BY <2>2, OldestFound
    <2>4. None \notin Mapped(map) /\ Mapped(map) \subseteq Keys
        BY NoneAssumption DEF Mapped
    <2>5. ASSUME NEW i \in 1 .. Len(pass)
          PROVE  /\ \E r \in seen[pass[i].key] : r.idle = pass[i].idle
                 /\ \E r \in seen[pass[i].key] : r.activity = pass[i].compared
                 /\ \E r \in seen[pass[i].key] : r.activity = pass[i].kept
        BY <2>2, <2>4, TurnsTyped
    <2>6. CASE b.key = None
        <3>1. evicted = {}
            BY <2>1, <2>3, <2>4, <2>6
        <3>2. \A i \in 1 .. Len(pass) : ~pass[i].idle
            BY <2>3, <2>6 DEF Found
        <3>3. \A k \in Mapped(map) : SeenBusy(k)
            BY <2>2, <2>5, <3>2 DEF SeenBusy
        <3>4. QED
            BY <3>1, <3>3
    <2>7. CASE b.key # None
        <3>1. PICK x \in 1 .. Len(pass) : /\ pass[x].idle /\ pass[x].key = b.key
                                          /\ pass[x].kept = b.activity
            BY <2>3, <2>7 DEF Found
        <3>2. evicted = {b.key}
            BY <2>1, <2>2, <2>3, <3>1
        <3>3. SeenIdle(b.key)
            BY <2>5, <3>1 DEF SeenIdle
        <3>4. ASSUME ~TouchedMeanwhile, NEW i \in Mapped(map), ~SeenBusy(i)
              PROVE  \E r \in seen[b.key], t \in seen[i] : r.activity <= t.activity
            <4>1. PICK y \in 1 .. Len(pass) : pass[y].key = i
                BY <2>2
            <4>2. pass[y].idle
                BY <2>5, <3>4, <4>1 DEF SeenBusy
            <4>3. \A z \in 1 .. Len(pass) : pass[z].compared = pass[z].kept
                BY <2>2, <2>4, <2>5, <3>4 DEF TouchedMeanwhile
            <4>4. b.activity <= pass[y].kept
                BY <2>3, <4>2, <4>3 DEF Found
            <4>5. QED
                BY <2>5, <3>1, <4>1, <4>4
        <3>5. QED
            BY <3>2, <3>3, <3>4
    <2>8. QED
        BY <2>6, <2>7
<1>3. QED
    BY <1>1, <1>2

-----------------------------------------------------------------------------
(* Who makes way. *)

\* The steps that create a session: the map they start from, without the entry
\* of k, and the session they cancel besides.
Creates(k, a) ==
    \/ /\ \E m \in Msgs : EnqueueNew(k, m, a)
       /\ Create(k, a, sessions, {})
       /\ sessions[k] = NoSession
    \/ /\ SwitchAgent(k, a)
       /\ Create(k, a, [sessions EXCEPT ![k] = NoSession], {sessions[k]} \ {NoSession})

LEMMA CreatesWhich ==
    /\ \A k \in Keys, m \in Msgs, a \in Registry : EnqueueNew(k, m, a) => Creates(k, a)
    /\ \A k \in Keys, a \in Registry : SwitchAgent(k, a) => Creates(k, a)
BY DEF EnqueueNew, SwitchAgent, Creates

\* All that a creation does to the map and to the other sessions: those of
\* evicted are evicted once map no longer has k.
Creation(k, a, map, evicted) ==
    /\ evicted \in Victims(map)
    /\ \A j \in Keys \ {k} : map[j] = sessions[j]
    /\ map[k] = NoSession
    /\ map = sessions \/ sessions[k] # NoSession
    /\ \A j \in Keys : sessions'[j] = IF j = k THEN created + 1
                                      ELSE IF j \in evicted THEN NoSession
                                      ELSE sessions[j]
    /\ \A s \in Sids : cancelled'[s] =>
          \/ cancelled[s]
          \/ s = sessions[k] /\ SwitchAgent(k, a)
          \/ \E j \in evicted : s = map[j]

LEMMA CreationFacts ==
    ASSUME TypeInv, NEW k \in Keys, NEW a \in Registry, Creates(k, a)
    PROVE  /\ created' = created + 1 /\ key'[created'] = k
           /\ \E map, evicted : Creation(k, a, map, evicted)
<1>1. sessions \in [Keys -> Sids \cup {NoSession}]
    BY DEF TypeInv, StateTypeOK, ManagerTypeOK
<1>2. created + 1 \in Sids /\ key' = [key EXCEPT ![created + 1] = k]
        => key'[created + 1] = k
    BY DEF TypeInv, StateTypeOK, ObjectTypeOK
<1>3. CASE SwitchAgent(k, a) /\ Create(k, a, [sessions EXCEPT ![k] = NoSession],
                                       {sessions[k]} \ {NoSession})
    <2> DEFINE map == [sessions EXCEPT ![k] = NoSession]
    <2>1. map \in [Keys -> Sids \cup {NoSession}] /\ map[k] = NoSession
          /\ \A j \in Keys \ {k} : map[j] = sessions[j]
        BY <1>1
    <2>2. map = sessions \/ sessions[k] # NoSession
        BY <1>1
    <2>3. PICK evicted \in Victims(map) :
            /\ sessions' = [j \in Keys |-> IF j = k THEN created + 1
                                           ELSE IF j \in evicted THEN NoSession
                                           ELSE map[j]]
            /\ cancelled' = CancelAll(({sessions[k]} \ {NoSession})
                                        \cup {map[j] : j \in evicted})
        BY <1>3 DEF Create
    <2> HIDE DEF map
    <2>4. \A j \in Keys : sessions'[j] = IF j = k THEN created + 1
                                         ELSE IF j \in evicted THEN NoSession
                                         ELSE sessions[j]
        BY <2>1, <2>3
    <2>5. \A s \in Sids : cancelled'[s] =>
            \/ cancelled[s] \/ s = sessions[k] \/ \E j \in evicted : s = map[j]
        BY <2>3 DEF CancelAll
    <2>6. created' = created + 1 /\ key'[created'] = k
        BY <1>2, <1>3 DEF Create
    <2>7. QED
        BY <1>3, <2>1, <2>2, <2>3, <2>4, <2>5, <2>6 DEF Creation
<1>4. CASE Create(k, a, sessions, {}) /\ sessions[k] = NoSession
    <2>1. PICK evicted \in Victims(sessions) :
            /\ sessions' = [j \in Keys |-> IF j = k THEN created + 1
                                           ELSE IF j \in evicted THEN NoSession
                                           ELSE sessions[j]]
            /\ cancelled' = CancelAll({} \cup {sessions[j] : j \in evicted})
        BY <1>4 DEF Create
    <2>2. \A s \in Sids : cancelled'[s] =>
            cancelled[s] \/ \E j \in evicted : s = sessions[j]
        BY <2>1 DEF CancelAll
    <2>3. created' = created + 1 /\ key'[created'] = k
        BY <1>2, <1>4 DEF Create
    <2>4. QED
        BY <1>1, <1>4, <2>1, <2>2, <2>3 DEF Creation
<1>5. QED
    BY <1>3, <1>4 DEF Creates

-----------------------------------------------------------------------------
(* OverLimitOnlyWhenAllBusy *)

\* The map is finite, however many users there are: its sessions are.
LEMMA MappedFinite ==
    ASSUME TypeInv, MapInv
    PROVE  IsFiniteSet(Mapped(sessions)) /\ Cardinality(Mapped(sessions)) \in Nat
<1> DEFINE T == {key[s] : s \in Sids}
           f == [s \in Sids |-> key[s]]
<1>1. IsFiniteSet(Sids)
    BY FS_Interval, BoundsAssumption DEF Sids
<1>2. f \in Surjection(Sids, T)
    BY DEF Surjection
<1>3. IsFiniteSet(T)
    BY <1>1, <1>2, FS_Surjection
<1>4. Mapped(sessions) \subseteq T
    BY MappedFacts DEF Mapped
<1>5. IsFiniteSet(Mapped(sessions))
    BY <1>3, <1>4, FS_Subset
<1>6. QED
    BY <1>5, FS_CardinalityType

\* A step that only takes sessions away makes no map larger.
LEMMA FewerMapped ==
    ASSUME TypeInv, MapInv, Mapped(sessions') \subseteq Mapped(sessions)
    PROVE  ~(Cardinality(Mapped(sessions')) > Cardinality(Mapped(sessions)))
<1>1. IsFiniteSet(Mapped(sessions)) /\ Cardinality(Mapped(sessions)) \in Nat
    BY MappedFinite
<1>2. /\ IsFiniteSet(Mapped(sessions'))
      /\ Cardinality(Mapped(sessions')) <= Cardinality(Mapped(sessions))
    BY <1>1, FS_Subset
<1>3. Cardinality(Mapped(sessions')) \in Nat
    BY <1>2, FS_CardinalityType
<1>4. QED
    BY <1>1, <1>2, <1>3

LEMMA OverLimitStep ==
    ASSUME TypeInv, MapInv, SeenInv, Next,
           Cardinality(Mapped(sessions')) > Cardinality(Mapped(sessions)),
           Cardinality(Mapped(sessions')) > MaxConcurrent
    PROVE  \A k \in Mapped(sessions) : SeenBusy(k)
<1> USE DEF managerVars
<1>1. ~(Mapped(sessions') \subseteq Mapped(sessions))
    BY FewerMapped
<1>2. sessions \in [Keys -> Sids \cup {NoSession}]
    BY DEF TypeInv, StateTypeOK, ManagerTypeOK
<1>3. ~(\A k \in Keys : sessions'[k] \in {sessions[k], NoSession})
    BY <1>1 DEF Mapped
<1>4. ASSUME NEW k \in Keys, NEW a \in Registry, Creates(k, a)
      PROVE  \A j \in Mapped(sessions) : SeenBusy(j)
    <2>1. PICK map, evicted : Creation(k, a, map, evicted)
        BY <1>4, CreationFacts
    <2>2. map = sessions /\ sessions[k] = NoSession
        BY <1>1, <2>1 DEF Mapped, Creation
    <2>0. Cardinality(Mapped(sessions)) \in Nat
        BY MappedFinite
    <2>3. CASE evicted = {} /\ ~(Cardinality(Mapped(sessions)) < MaxConcurrent)
        BY <2>0, <2>1, <2>2, <2>3, VictimFacts, LimitsAssumption DEF Creation, SeenInv
    <2>4. CASE Cardinality(Mapped(sessions)) < MaxConcurrent
        <3>1. /\ IsFiniteSet(Mapped(sessions))
              /\ Cardinality(Mapped(sessions)) \in Nat
            BY MappedFinite
        <3>2. Mapped(sessions') \subseteq Mapped(sessions) \cup {k}
            BY <2>1 DEF Mapped, Creation
        <3>3. /\ IsFiniteSet(Mapped(sessions) \cup {k})
              /\ Cardinality(Mapped(sessions) \cup {k}) =
                    IF k \in Mapped(sessions) THEN Cardinality(Mapped(sessions))
                    ELSE Cardinality(Mapped(sessions)) + 1
            BY <3>1, FS_AddElement
        <3>4. /\ IsFiniteSet(Mapped(sessions'))
              /\ Cardinality(Mapped(sessions'))
                    <= Cardinality(Mapped(sessions) \cup {k})
            BY <3>2, <3>3, FS_Subset
        <3>5. /\ Cardinality(Mapped(sessions')) \in Nat
              /\ Cardinality(Mapped(sessions) \cup {k}) \in Nat
            BY <3>3, <3>4, FS_CardinalityType
        <3>6. QED
            BY <2>4, <3>1, <3>3, <3>4, <3>5, LimitsAssumption
    <2>5. CASE ~(Cardinality(Mapped(sessions)) < MaxConcurrent)
               /\ evicted # {}
        <3>1. PICK j \in evicted : evicted = {j}
            BY <2>0, <2>1, <2>2, <2>5, VictimFacts DEF Creation, SeenInv
        <3>2. j \in Mapped(sessions) /\ j # k
            BY <2>1, <2>2, <3>1, VictimsMapped DEF Mapped, Creation
        <3>3. /\ IsFiniteSet(Mapped(sessions))
              /\ Cardinality(Mapped(sessions)) \in Nat
            BY MappedFinite
        <3>4. /\ IsFiniteSet(Mapped(sessions) \ {j})
              /\ Cardinality(Mapped(sessions) \ {j}) = Cardinality(Mapped(sessions)) - 1
            BY <3>2, <3>3, FS_RemoveElement
        <3>5. /\ IsFiniteSet((Mapped(sessions) \ {j}) \cup {k})
              /\ Cardinality((Mapped(sessions) \ {j}) \cup {k}) =
                    IF k \in Mapped(sessions) \ {j}
                    THEN Cardinality(Mapped(sessions) \ {j})
                    ELSE Cardinality(Mapped(sessions) \ {j}) + 1
            BY <3>3, <3>4, FS_AddElement
        <3>6. Mapped(sessions') \subseteq (Mapped(sessions) \ {j}) \cup {k}
            BY <2>1, <3>1, <3>2 DEF Mapped, Creation
        <3>7. /\ IsFiniteSet(Mapped(sessions'))
              /\ Cardinality(Mapped(sessions'))
                    <= Cardinality((Mapped(sessions) \ {j}) \cup {k})
            BY <3>5, <3>6, FS_Subset
        <3>8. /\ Cardinality(Mapped(sessions')) \in Nat
              /\ Cardinality((Mapped(sessions) \ {j}) \cup {k}) \in Nat
            BY <3>5, <3>7, FS_CardinalityType
        <3>9. QED
            BY <3>3, <3>4, <3>5, <3>7, <3>8
    <2>6. QED
        BY <2>3, <2>4, <2>5
<1>5. \A k \in Keys, m \in Msgs : ~EnqueueExisting(k, m)
    BY <1>3 DEF EnqueueExisting
<1>6. \A k \in Keys, m \in Msgs, a \in Agents : ~EnqueueUnknown(k, m, a)
    BY <1>3 DEF EnqueueUnknown, CreateFails
<1>7. \A k \in Keys : ~CancelSession(k) /\ ~RemoveSession(k) /\ ~EraseMessages(k)
    BY <1>2, <1>3 DEF CancelSession, RemoveSession, EraseMessages
<1>8. \A s \in Sids, m \in Msgs : ~Send(s, m)
    BY <1>3 DEF Send
<1>9. \A s \in Sids : ~Exit(s)
    BY <1>2, <1>3 DEF Exit, MapAfterExit
<1>10. \A s \in Sids : ~Discard(s) /\ ~Take(s) /\ ~StartPrompt(s) /\ ~StreamChunk(s)
    BY <1>3 DEF Discard, Take, StartPrompt, StreamChunk
<1>11. \A s \in Sids : /\ ~PromptEnds(s) /\ ~StoreUser(s) /\ ~StoreReply(s)
                       /\ ~Touch(s)
    BY <1>3 DEF PromptEnds, PromptReturns, PromptFails, StoreUser, StoreReply, Touch
<1>12. ~CleanupIdle /\ ~StopKill /\ ~ProcessEnds
    BY <1>3 DEF CleanupIdle, StopKill, ProcessEnds
<1>13. ~Start /\ ~StopCancel /\ ~Tick
    BY <1>3 DEF Start, StopCancel, Tick
<1>14. QED
    BY <1>4, <1>5, <1>6, <1>7, <1>8, <1>9, <1>10, <1>11, <1>12, <1>13, CreatesWhich
    DEF Next, Caller, Consumer, LoopStep

\* The number of sessions goes beyond its limit only when each of them was found
\* with messages waiting, in whatever order and at whatever moments the loop looked
\* at them, and no step can take another way around the limit.
THEOREM OverLimitIsBusy == Spec => OverLimitOnlyWhenAllBusy
<1>1. TypeInv /\ MapInv /\ SeenInv /\ [Next]_vars =>
        [(/\ Cardinality(Mapped(sessions')) > Cardinality(Mapped(sessions))
          /\ Cardinality(Mapped(sessions')) > MaxConcurrent)
         => \A k \in Mapped(sessions) : SeenBusy(k)]_vars
    BY OverLimitStep
<1>2. QED
    BY <1>1, MapInvariant, SeenInvariant, PTL DEF Spec, OverLimitOnlyWhenAllBusy

-----------------------------------------------------------------------------
(* EvictsLeastRecent *)

LEMMA EvictsStep ==
    ASSUME TypeInv, MapInv, SeenInv, Next, created' # created, ~TouchedMeanwhile,
           NEW j \in Mapped(sessions) \ {key'[created']}, sessions'[j] = NoSession,
           NEW i \in Mapped(sessions) \ {key'[created']}, ~SeenBusy(i)
    PROVE  lastActivity[sessions[j]] <= lastActivity[sessions[i]]
<1> USE DEF managerVars
<1>1. ASSUME NEW k \in Keys, NEW a \in Registry, Creates(k, a)
      PROVE  lastActivity[sessions[j]] <= lastActivity[sessions[i]]
    <2>1. /\ created' = created + 1 /\ key'[created'] = k
          /\ j \in Keys /\ i \in Keys /\ j # k /\ i # k
        BY <1>1, CreationFacts DEF Mapped
    <2>2. PICK map, evicted : Creation(k, a, map, evicted)
        BY <1>1, CreationFacts
    <2>3. j \in evicted
        BY <2>1, <2>2 DEF Mapped, Creation
    <2>4. i \in Mapped(map)
        BY <2>1, <2>2 DEF Mapped, Creation
    <2>5. Cardinality(Mapped(map)) \in Nat
        <3>1. IsFiniteSet(Mapped(sessions)) /\ Mapped(map) \subseteq Mapped(sessions)
            BY <2>2, MappedFinite DEF Mapped, Creation
        <3>2. QED
            BY <3>1, FS_Subset, FS_CardinalityType
    <2>6. PICK r \in seen[j], t \in seen[i] : r.activity <= t.activity
        BY <2>2, <2>3, <2>4, <2>5, VictimFacts DEF Creation, SeenInv
    <2>7. ASSUME NEW h \in Keys, sessions[h] # NoSession, NEW u \in seen[h]
          PROVE  u.activity = lastActivity[sessions[h]]
        <3>1. PICK c \in seen[h] : c.activity = lastActivity[sessions[h]]
            BY <2>7 DEF SeenInv, CurrentSeen, Current
        <3>2. QED
            BY <3>1 DEF TouchedMeanwhile
    <2>8. QED
        BY <2>1, <2>6, <2>7 DEF Mapped
<1>2. QED
    <2>1. \A k \in Keys, m \in Msgs :
            /\ ~EnqueueExisting(k, m)
            /\ \A a \in Agents : ~EnqueueUnknown(k, m, a)
        BY DEF EnqueueExisting, EnqueueUnknown
    <2>2. \A k \in Keys : ~CancelSession(k) /\ ~RemoveSession(k) /\ ~EraseMessages(k)
        BY DEF CancelSession, RemoveSession, EraseMessages
    <2>3. \A s \in Sids, m \in Msgs : ~Send(s, m)
        BY DEF Send
    <2>4. \A s \in Sids : /\ ~Exit(s) /\ ~Discard(s) /\ ~Take(s) /\ ~StartPrompt(s)
                          /\ ~StreamChunk(s)
        BY DEF Exit, Discard, Take, StartPrompt, StreamChunk
    <2>5. \A s \in Sids : /\ ~PromptEnds(s) /\ ~StoreUser(s) /\ ~StoreReply(s)
                          /\ ~Touch(s)
        BY DEF PromptEnds, PromptReturns, PromptFails, StoreUser, StoreReply, Touch
    <2>6. /\ ~CleanupIdle /\ ~StopKill /\ ~ProcessEnds
          /\ ~Start /\ ~StopCancel /\ ~Tick
        BY DEF CleanupIdle, StopKill, ProcessEnds, Start, StopCancel, Tick
    <2>7. \E k \in Keys, a \in Registry : Creates(k, a)
        BY <2>1, <2>2, <2>3, <2>4, <2>5, <2>6, CreatesWhich
        DEF Next, Caller, Consumer, LoopStep
    <2>8. QED
        BY <1>1, <2>7

\* Whoever is evicted for another had gone longest without activity among those
\* that were found with nothing waiting, unless somebody's activity changed while
\* they were compared.
THEOREM LeastRecentIsEvicted == Spec => EvictsLeastRecent
<1>1. TypeInv /\ MapInv /\ SeenInv /\ [Next]_vars =>
        [(created' # created /\ ~TouchedMeanwhile) =>
            \A j \in Mapped(sessions) \ {key'[created']} :
                sessions'[j] = NoSession =>
                    \A i \in Mapped(sessions) \ {key'[created']} :
                        \/ SeenBusy(i)
                        \/ lastActivity[sessions[j]] <= lastActivity[sessions[i]]]_vars
    BY EvictsStep
<1>2. QED
    BY <1>1, MapInvariant, SeenInvariant, PTL DEF Spec, EvictsLeastRecent
=============================================================================
