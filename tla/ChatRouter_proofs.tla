-------------------------- MODULE ChatRouter_proofs --------------------------
(***************************************************************************)
(* The callers of the manager, for every value of the constants: they use  *)
(* it as SessionManager lets it be used (RouterSpec => Spec), which brings *)
(* the theorems about Spec along, a user's session has the agent that the  *)
(* user was told of (AgentAsTold), and files are there while messages need *)
(* them (FilesKeptWhileNeeded).                                            *)
(***************************************************************************)
EXTENDS ChatRouter, Messages_proofs

-----------------------------------------------------------------------------
(* The callers. *)

\* The types of the router's own variables.
RouterTypes ==
    /\ default \in Defaults
    /\ routing \subseteq Routings /\ using \subseteq Usings
    /\ removing \subseteq Removings
    /\ media \in [Keys -> SUBSET Msgs]
    /\ chosen \in [Keys -> Agents \cup {None}]
    /\ held \in [Keys -> SUBSET Agents]

\* The agents a user may still be given: the one last told, the default one, and
\* those looked up before the user was told.
Accounted(k) == {chosen[k], default} \cup held[k]

\* A handler on its way to Enqueue carries one of them.
RoutesAccounted == \A r \in routing : r.agent \in Accounted(r.key)

LEMMA InitRouterTypes == RouterInit => RouterTypes
BY DEF RouterInit, RouterTypes

\* Every step of a caller is a step of the manager, or one it does not see.
LEMMA RouterStepIsManagers ==
    ASSUME RouterTypes, [RouterNext]_allVars
    PROVE  [Next]_vars
<1> USE DEF Next, Caller, Consumer
<1>1. CASE UNCHANGED allVars
    BY <1>1 DEF allVars
<1>2. ASSUME NEW k \in Keys, Handler(k) PROVE [Next]_vars
    <2>1. CASE Cancel(k)
        BY <2>1 DEF Cancel
    <2>2. CASE WebRemoves(k)
        BY <2>2 DEF WebRemoves
    <2>3. CASE ~Cancel(k) /\ ~WebRemoves(k)
        BY <1>2, <2>3
        DEF Handler, RouteLooksUp, RouteAsks, Status, ClearChecks, UseCompares
    <2>4. QED
        BY <2>1, <2>2, <2>3
<1>3. ASSUME NEW r \in routing, RouteDownloads(r) \/ RouteEnqueues(r)
      PROVE  [Next]_vars
    <2>1. r.key \in Keys /\ r.msg \in Msgs
        BY DEF RouterTypes, Routings
    <2>2. CASE RouteDownloads(r)
        BY <2>2 DEF RouteDownloads
    <2>3. CASE RouteEnqueues(r)
        BY <2>1, <2>3 DEF RouteEnqueues, EnqueueNew, EnqueueUnknown
    <2>4. QED
        BY <1>3, <2>2, <2>3
<1>4. ASSUME NEW u \in using, UseSwitches(u) PROVE [Next]_vars
    BY <1>4 DEF UseSwitches, RouterTypes, Usings
<1>5. ASSUME NEW r \in removing,
             ClearRemoves(r) \/ RemovalErases(r) \/ RemovalWipes(r)
      PROVE  [Next]_vars
    BY <1>5 DEF ClearRemoves, RemovalErases, RemovalWipes, RouterTypes, Removings
<1>6. CASE Sweep \/ RouterEnds \/ ManagerStep
    BY <1>6 DEF Sweep, RouterEnds, ManagerStep
<1>7. QED
    BY <1>1, <1>2, <1>3, <1>4, <1>5, <1>6 DEF RouterNext

\* Being told something keeps the types.
LEMMA TellTypes ==
    ASSUME RouterTypes, NEW k \in Keys, NEW a \in Agents \cup {None}, Tell(k, a)
    PROVE  /\ chosen' \in [Keys -> Agents \cup {None}]
           /\ held' \in [Keys -> SUBSET Agents]
BY DEF Tell, RouterTypes, Routings

LEMMA SessionAgentType ==
    ASSUME TypeInv, NEW k \in Keys
    PROVE  SessionAgent(k) \in Agents \cup {None}
BY RegistryAssumption
   DEF SessionAgent, TypeInv, StateTypeOK, ManagerTypeOK, ObjectTypeOK

LEMMA NextRouterTypes ==
    ASSUME TypeInv, RouterTypes, [RouterNext]_allVars
    PROVE  RouterTypes'
<1> USE DEF routerVars, routeVars, toldVars
<1>1. CASE UNCHANGED allVars
    BY <1>1 DEF allVars, RouterTypes
<1>2. ASSUME NEW k \in Keys, NEW m \in Msgs, RouteLooksUp(k, m) PROVE RouterTypes'
    <2>1. AgentFor(k) \in Agents
        BY <1>2, DefaultsAssumption, RegistryAssumption
        DEF RouteLooksUp, AgentFor, RouterTypes, TypeInv, StateTypeOK, ManagerTypeOK,
            ObjectTypeOK
    <2>2. routing' \subseteq Routings
        BY <1>2, <2>1 DEF RouteLooksUp, RouterTypes, Routings
    <2>3. QED
        BY <1>2, <2>2 DEF RouteLooksUp, RouterTypes
<1>3. ASSUME NEW k \in Keys, RouteAsks(k) \/ Status(k) PROVE RouterTypes'
    BY <1>3, TellTypes, SessionAgentType DEF RouteAsks, Status, RouterTypes
<1>4. ASSUME NEW k \in Keys, Cancel(k) PROVE RouterTypes'
    BY <1>4 DEF Cancel, RouterTypes
<1>5. ASSUME NEW k \in Keys, ClearChecks(k) \/ WebRemoves(k) PROVE RouterTypes'
    BY <1>5 DEF ClearChecks, WebRemoves, RouterTypes, Removings
<1>6. ASSUME NEW k \in Keys, NEW a \in Registry, UseCompares(k, a)
      PROVE  RouterTypes'
    <2>1. CASE InUse(k, a)
        BY <1>6, <2>1, TellTypes, RegistryAssumption DEF UseCompares, RouterTypes
    <2>2. CASE ~InUse(k, a)
        BY <1>6, <2>2, SessionAgentType DEF UseCompares, RouterTypes, Usings
    <2>3. QED
        BY <2>1, <2>2
<1>7. ASSUME NEW r \in routing, RouteDownloads(r) PROVE RouterTypes'
    <2>1. r.key \in Keys /\ r.msg \in Msgs
        BY DEF RouterTypes, Routings
    <2>2. PICK file \in {"saved", "failed"} :
            /\ routing' = (routing \ {r}) \cup {[r EXCEPT !.file = file]}
            /\ media' = IF file = "saved"
                        THEN [media EXCEPT ![r.key] = @ \cup {r.msg}] ELSE media
        BY <1>7 DEF RouteDownloads
    <2>3. routing' \subseteq Routings
        BY <2>2 DEF RouterTypes, Routings
    <2>4. media' \in [Keys -> SUBSET Msgs]
        BY <2>1, <2>2 DEF RouterTypes
    <2>5. QED
        BY <1>7, <2>3, <2>4 DEF RouteDownloads, RouterTypes
<1>8. ASSUME NEW r \in routing, RouteEnqueues(r) PROVE RouterTypes'
    BY <1>8 DEF RouteEnqueues, RouterTypes
<1>9. ASSUME NEW u \in using, UseSwitches(u) PROVE RouterTypes'
    <2>1. u.key \in Keys /\ u.agent \in Agents
        BY RegistryAssumption DEF RouterTypes, Usings
    <2>2. QED
        BY <1>9, <2>1, TellTypes DEF UseSwitches, RouterTypes
<1>10. ASSUME NEW r \in removing,
              ClearRemoves(r) \/ RemovalErases(r) \/ RemovalWipes(r)
       PROVE  RouterTypes'
    <2>1. r \in Removings
        BY DEF RouterTypes
    <2>2. removing' \subseteq Removings
        BY <1>10, <2>1
        DEF ClearRemoves, RemovalErases, RemovalWipes, MovesTo, RouterTypes, Removings
    <2>3. media' \in [Keys -> SUBSET Msgs]
        BY <1>10 DEF ClearRemoves, RemovalErases, RemovalWipes, RouterTypes
    <2>4. QED
        BY <1>10, <2>2, <2>3
        DEF ClearRemoves, RemovalErases, RemovalWipes, RouterTypes
<1>11. CASE Sweep
    BY <1>11 DEF Sweep, RouterTypes
<1>12. CASE RouterEnds \/ ManagerStep
    BY <1>12 DEF RouterEnds, ManagerStep, RouterTypes
<1>13. QED
    BY <1>1, <1>2, <1>3, <1>4, <1>5, <1>6, <1>7, <1>8, <1>9, <1>10, <1>11, <1>12
    DEF RouterNext, Handler

-----------------------------------------------------------------------------
(* The agent of a user's session. *)

\* The sessions a step leaves in the map have the agent they had.
KeepsAgents ==
    \A k \in Keys : sessions'[k] # NoSession =>
        sessions'[k] = sessions[k] /\ agent'[sessions'[k]] = agent[sessions[k]]

\* Only the creation of a session puts one into the map.
LEMMA ManagerKeepsAgents ==
    ASSUME TypeInv,
           \/ UNCHANGED vars
           \/ \E k \in Keys :
                  \/ \E m \in Msgs : EnqueueExisting(k, m)
                  \/ \E m \in Msgs, a \in Agents : EnqueueUnknown(k, m, a)
                  \/ CancelSession(k) \/ RemoveSession(k) \/ EraseMessages(k)
           \/ \E s \in Sids, m \in Msgs : Send(s, m)
           \/ \E s \in Sids : Consumer(s)
           \/ CleanupIdle \/ Start \/ StopCancel \/ StopKill \/ ProcessEnds \/ Tick
    PROVE  KeepsAgents
<1> USE DEF KeepsAgents, managerVars, objectVars
<1>1. sessions \in [Keys -> Sids \cup {NoSession}]
    BY DEF TypeInv, StateTypeOK, ManagerTypeOK
<1>2. CASE UNCHANGED <<sessions, agent>>
    BY <1>2
<1>3. ASSUME NEW k \in Keys, NEW m \in Msgs, EnqueueExisting(k, m) PROVE KeepsAgents
    BY <1>3 DEF EnqueueExisting
<1>4. ASSUME NEW k \in Keys, NEW m \in Msgs, NEW a \in Agents, EnqueueUnknown(k, m, a)
      PROVE  KeepsAgents
    BY <1>1, <1>4 DEF EnqueueUnknown, CreateFails
<1>5. ASSUME NEW k \in Keys, CancelSession(k) \/ RemoveSession(k) \/ EraseMessages(k)
      PROVE  KeepsAgents
    BY <1>1, <1>5 DEF CancelSession, RemoveSession, EraseMessages
<1>6. ASSUME NEW s \in Sids, NEW m \in Msgs, Send(s, m) PROVE KeepsAgents
    BY <1>6 DEF Send
<1>7. ASSUME NEW s \in Sids, Consumer(s) PROVE KeepsAgents
    <2>1. CASE Exit(s)
        BY <1>1, <2>1 DEF Exit, MapAfterExit
    <2>2. CASE Discard(s) \/ Take(s) \/ StartPrompt(s)
        BY <2>2 DEF Discard, Take, StartPrompt
    <2>3. CASE StoreUser(s) \/ StoreReply(s) \/ Touch(s) \/ StreamChunk(s)
        BY <2>3 DEF StoreUser, StoreReply, Touch, StreamChunk
    <2>4. CASE PromptEnds(s)
        BY <2>4 DEF PromptEnds, PromptReturns, PromptFails
    <2>5. QED
        BY <1>7, <2>1, <2>2, <2>3, <2>4 DEF Consumer, LoopStep
<1>8. CASE CleanupIdle \/ StopKill \/ ProcessEnds
    BY <1>8 DEF CleanupIdle, StopKill, ProcessEnds
<1>9. CASE Start \/ StopCancel \/ Tick
    BY <1>9 DEF Start, StopCancel, Tick
<1>10. QED
    BY <1>2, <1>3, <1>4, <1>5, <1>6, <1>7, <1>8, <1>9 DEF vars

\* A session that is created has the agent it was created with; the others that
\* stay have theirs.
LEMMA CreateAgent ==
    ASSUME TypeInv, NEW k \in Keys, NEW a, NEW dead, NEW map,
           \A j \in Keys : map[j] \in {sessions[j], NoSession},
           Create(k, a, map, dead)
    PROVE  /\ agent'[sessions'[k]] = a
           /\ \A j \in Keys \ {k} : sessions'[j] # NoSession =>
                 /\ sessions'[j] = sessions[j]
                 /\ agent'[sessions'[j]] = agent[sessions[j]]
<1>1. created + 1 \in Sids /\ created \in Nat
    BY BoundsAssumption DEF Create, TypeInv, StateTypeOK, ManagerTypeOK
<1>2. agent' = [agent EXCEPT ![created + 1] = a] /\ DOMAIN agent = Sids
    BY DEF Create, TypeInv, StateTypeOK, ObjectTypeOK
<1>3. \A j \in Keys : sessions[j] # NoSession =>
          sessions[j] \in Sids /\ sessions[j] # created + 1
    BY <1>1, BoundsAssumption
    DEF TypeInv, StateTypeOK, ManagerTypeOK, CreatedInOrder, Sids, NoSession
<1>4. PICK evicted \in Victims(map) :
         sessions' = [j \in Keys |-> IF j = k THEN created + 1
                                     ELSE IF j \in evicted THEN NoSession
                                     ELSE map[j]]
    BY DEF Create
<1>5. QED
    BY <1>1, <1>2, <1>3, <1>4

\* What was accounted for stays so while nobody is told anything.
LEMMA AgentsStayAccounted ==
    ASSUME AgentAsTold, KeepsAgents, UNCHANGED <<default, toldVars>>
    PROVE  AgentAsTold'
BY DEF AgentAsTold, KeepsAgents, toldVars

\* Being told of one's own agent, or of none for want of a session, accounts for
\* the session and for every handler that was under way.
LEMMA ToldAgentsAccounted ==
    ASSUME TypeInv, RouterTypes, AgentAsTold, RoutesAccounted, NEW k \in Keys, NEW a,
           Tell(k, a),
           UNCHANGED <<default, routing>>,
           \A j \in Keys \ {k} : sessions'[j] # NoSession =>
               sessions'[j] = sessions[j] /\ agent'[sessions'[j]] = agent[sessions[j]],
           sessions'[k] # NoSession => agent'[sessions'[k]] = a
    PROVE  AgentAsTold' /\ RoutesAccounted'
<1>1. /\ chosen'[k] = a /\ held'[k] = {r.agent : r \in {r \in routing : r.key = k}}
      /\ \A j \in Keys \ {k} : chosen'[j] = chosen[j] /\ held'[j] = held[j]
    BY DEF Tell, RouterTypes
<1>2. AgentAsTold'
    BY <1>1 DEF AgentAsTold
<1>3. RoutesAccounted'
    <2> SUFFICES ASSUME NEW r \in routing
                 PROVE  r.agent \in {chosen'[r.key], default'} \cup held'[r.key]
        BY DEF RoutesAccounted, Accounted
    <2>1. r.key \in Keys
        BY DEF RouterTypes, Routings
    <2>2. r.agent \in {chosen[r.key], default} \cup held[r.key]
        BY DEF RoutesAccounted, Accounted
    <2>3. CASE r.key = k
        BY <1>1, <2>3
    <2>4. CASE r.key # k
        BY <1>1, <2>1, <2>2, <2>4
    <2>5. QED
        BY <2>3, <2>4
<1>4. QED
    BY <1>2, <1>3

LEMMA NextAccounted ==
    ASSUME TypeInv, RouterTypes, AgentAsTold, RoutesAccounted,
           [RouterNext]_allVars
    PROVE  AgentAsTold' /\ RoutesAccounted'
<1> USE DEF routerVars, routeVars, toldVars
<1>1. CASE UNCHANGED allVars
    BY <1>1 DEF allVars, vars, objectVars, managerVars, AgentAsTold, RoutesAccounted,
                Accounted
<1>2. ASSUME NEW k \in Keys, NEW m \in Msgs, RouteLooksUp(k, m)
      PROVE  AgentAsTold' /\ RoutesAccounted'
    <2>1. AgentFor(k) \in Accounted(k)
        BY DEF AgentFor, AgentAsTold, Accounted
    <2>2. RoutesAccounted'
        BY <1>2, <2>1 DEF RouteLooksUp, RoutesAccounted, Accounted
    <2>3. KeepsAgents
        BY <1>2, ManagerKeepsAgents DEF RouteLooksUp
    <2>4. QED
        BY <1>2, <2>2, <2>3, AgentsStayAccounted DEF RouteLooksUp
<1>3. ASSUME NEW k \in Keys, RouteAsks(k)
      PROVE  AgentAsTold' /\ RoutesAccounted'
    <2>1. KeepsAgents
        BY <1>3, ManagerKeepsAgents DEF RouteAsks
    <2>2. sessions'[k] # NoSession => agent'[sessions'[k]] = None
        BY <1>3, <2>1 DEF RouteAsks, AgentFor, KeepsAgents
    <2>3. QED
        BY <1>3, <2>1, <2>2, ToldAgentsAccounted DEF RouteAsks, KeepsAgents
<1>4. ASSUME NEW k \in Keys, Status(k)
      PROVE  AgentAsTold' /\ RoutesAccounted'
    <2>1. KeepsAgents
        BY <1>4, ManagerKeepsAgents DEF Status
    <2>2. sessions'[k] # NoSession => agent'[sessions'[k]] = SessionAgent(k)
        BY <2>1 DEF SessionAgent, KeepsAgents
    <2>3. QED
        BY <1>4, <2>1, <2>2, ToldAgentsAccounted DEF Status, KeepsAgents
<1>5. ASSUME NEW k \in Keys, NEW a \in Registry, UseCompares(k, a)
      PROVE  AgentAsTold' /\ RoutesAccounted'
    <2>1. KeepsAgents
        BY <1>5, ManagerKeepsAgents DEF UseCompares
    <2>2. CASE InUse(k, a)
        <3>1. sessions'[k] # NoSession => agent'[sessions'[k]] = a
            BY <2>1, <2>2 DEF InUse, SessionAgent, KeepsAgents
        <3>2. QED
            BY <1>5, <2>1, <2>2, <3>1, ToldAgentsAccounted DEF UseCompares, KeepsAgents
    <2>3. CASE ~InUse(k, a)
        BY <1>5, <2>1, <2>3, AgentsStayAccounted
        DEF UseCompares, RoutesAccounted, Accounted
    <2>4. QED
        BY <2>2, <2>3
<1>6. ASSUME NEW k \in Keys, Cancel(k) \/ ClearChecks(k) \/ WebRemoves(k)
      PROVE  AgentAsTold' /\ RoutesAccounted'
    <2>1. KeepsAgents
        BY <1>6, ManagerKeepsAgents DEF Cancel, ClearChecks, WebRemoves
    <2>2. UNCHANGED <<default, routing, chosen, held>>
        BY <1>6 DEF Cancel, ClearChecks, WebRemoves
    <2>3. QED
        BY <2>1, <2>2, AgentsStayAccounted DEF RoutesAccounted, Accounted
<1>7. ASSUME NEW r \in routing, RouteDownloads(r)
      PROVE  AgentAsTold' /\ RoutesAccounted'
    <2>1. KeepsAgents
        BY <1>7, ManagerKeepsAgents DEF RouteDownloads
    <2>2. \A file \in {"saved", "failed"} :
            /\ [r EXCEPT !.file = file].key = r.key
            /\ [r EXCEPT !.file = file].agent = r.agent
        BY DEF RouterTypes, Routings
    <2>3. PICK file \in {"saved", "failed"} :
            routing' = (routing \ {r}) \cup {[r EXCEPT !.file = file]}
        BY <1>7 DEF RouteDownloads
    <2>4. RoutesAccounted'
        BY <1>7, <2>2, <2>3 DEF RouteDownloads, RoutesAccounted, Accounted
    <2>5. QED
        BY <1>7, <2>1, <2>4, AgentsStayAccounted DEF RouteDownloads
<1>8. ASSUME NEW r \in routing, RouteEnqueues(r)
      PROVE  AgentAsTold' /\ RoutesAccounted'
    <2>1. r.key \in Keys /\ r.msg \in Msgs /\ r.agent \in Agents
        BY DEF RouterTypes, Routings
    <2>2. RoutesAccounted'
        BY <1>8 DEF RouteEnqueues, RoutesAccounted, Accounted
    <2>3. AgentAsTold'
        <3>1. CASE EnqueueNew(r.key, r.msg, r.agent)
            <4>1. /\ agent'[sessions'[r.key]] = r.agent
                  /\ \A j \in Keys \ {r.key} : sessions'[j] # NoSession =>
                        /\ sessions'[j] = sessions[j]
                        /\ agent'[sessions'[j]] = agent[sessions[j]]
                BY <2>1, <3>1, CreateAgent DEF EnqueueNew
            <4>2. r.agent \in Accounted(r.key)
                BY DEF RoutesAccounted
            <4>3. QED
                BY <1>8, <4>1, <4>2 DEF RouteEnqueues, AgentAsTold, Accounted
        <3>2. CASE ~EnqueueNew(r.key, r.msg, r.agent)
            <4>1. KeepsAgents
                BY <1>8, <2>1, <3>2, ManagerKeepsAgents DEF RouteEnqueues
            <4>2. QED
                BY <1>8, <4>1, AgentsStayAccounted DEF RouteEnqueues
        <3>3. QED
            BY <3>1, <3>2
    <2>4. QED
        BY <2>2, <2>3
<1>9. ASSUME NEW u \in using, UseSwitches(u)
      PROVE  AgentAsTold' /\ RoutesAccounted'
    <2>1. u.key \in Keys
        BY DEF RouterTypes, Usings
    <2>2. \A j \in Keys :
            [sessions EXCEPT ![u.key] = NoSession][j] \in {sessions[j], NoSession}
        BY DEF TypeInv, StateTypeOK, ManagerTypeOK
    <2>3. /\ agent'[sessions'[u.key]] = u.agent
          /\ \A j \in Keys \ {u.key} : sessions'[j] # NoSession =>
                /\ sessions'[j] = sessions[j]
                /\ agent'[sessions'[j]] = agent[sessions[j]]
        BY <1>9, <2>1, <2>2, CreateAgent DEF UseSwitches, SwitchAgent
    <2>4. QED
        BY <1>9, <2>1, <2>3, ToldAgentsAccounted DEF UseSwitches
<1>10. ASSUME NEW r \in removing,
              ClearRemoves(r) \/ RemovalErases(r) \/ RemovalWipes(r)
       PROVE  AgentAsTold' /\ RoutesAccounted'
    <2>1. r.key \in Keys
        BY DEF RouterTypes, Removings
    <2>2. KeepsAgents
        BY <1>10, <2>1, ManagerKeepsAgents DEF ClearRemoves, RemovalErases, RemovalWipes
    <2>3. UNCHANGED <<default, routing, chosen, held>>
        BY <1>10 DEF ClearRemoves, RemovalErases, RemovalWipes
    <2>4. QED
        BY <2>2, <2>3, AgentsStayAccounted DEF RoutesAccounted, Accounted
<1>11. CASE Sweep \/ RouterEnds \/ ManagerStep
    <2>1. KeepsAgents
        BY <1>11, ManagerKeepsAgents DEF Sweep, RouterEnds, ManagerStep
    <2>2. UNCHANGED <<default, chosen, held>> /\ routing' \subseteq routing
        BY <1>11 DEF Sweep, RouterEnds, ManagerStep
    <2>3. QED
        BY <2>1, <2>2, AgentsStayAccounted DEF RoutesAccounted, Accounted
<1>12. QED
    BY <1>1, <1>2, <1>3, <1>4, <1>5, <1>6, <1>7, <1>8, <1>9, <1>10, <1>11
    DEF RouterNext, Handler

-----------------------------------------------------------------------------
(* The inductive invariant, and what follows. *)

RouterInv ==
    /\ ReadingInv
    /\ RouterTypes /\ AgentAsTold /\ RoutesAccounted

LEMMA RouterInvariant == RouterSpec => []RouterInv
<1>1. RouterInit => RouterInv
    BY InitReading, InitRouterTypes
    DEF RouterInit, RouterInv, AgentAsTold, RoutesAccounted, Init
<1>2. RouterInv /\ [RouterNext]_allVars => RouterInv'
    <2> SUFFICES ASSUME RouterInv, [RouterNext]_allVars PROVE RouterInv'
        OBVIOUS
    <2> USE DEF RouterInv
    <2>0. TypeInv /\ MapInv
        BY DEF ReadingInv
    <2>1. [Next]_vars
        BY <2>0, RouterStepIsManagers
    <2>2. ReadingInv'
        BY <2>1, NextReading
    <2>3. RouterTypes'
        BY <2>0, NextRouterTypes
    <2>4. AgentAsTold' /\ RoutesAccounted'
        BY <2>0, NextAccounted
    <2>5. QED
        BY <2>2, <2>3, <2>4
<1>3. QED
    BY <1>1, <1>2, PTL DEF RouterSpec

\* Message handlers, commands and the web server never take the manager where
\* SessionManager does not go: what is proved of its Spec holds beneath them.
THEOREM RouterUsesManager == RouterSpec => Spec
<1>1. RouterInit => Init
    BY DEF RouterInit
<1>2. RouterInv /\ [RouterNext]_allVars => [Next]_vars
    BY RouterStepIsManagers DEF RouterInv, ReadingInv
<1>3. QED
    BY <1>1, <1>2, RouterInvariant, PTL DEF RouterSpec, Spec

\* Every variable of the router and of the manager keeps its type, and no handler
\* goes to Enqueue without an agent.
THEOREM RouterTypeCorrect == RouterSpec => []RouterTypeOK
<1>1. RouterInv => RouterTypeOK
    BY DEF RouterInv, ReadingInv, RouterTypes, RouterTypeOK, TypeInv, TypeOK, SeenInv
<1>2. QED
    BY <1>1, RouterInvariant, PTL

\* The session of a user, whichever call created or restored it, has the agent
\* the user was last told of, the default one, or one that a handler under way at
\* that moment had already looked up.
THEOREM SessionsHaveToldAgent == RouterSpec => []AgentAsTold
<1>1. RouterInv => AgentAsTold
    BY DEF RouterInv
<1>2. QED
    BY <1>1, RouterInvariant, PTL

-----------------------------------------------------------------------------
(* The files of pending messages. *)

LEMMA FilesStep ==
    ASSUME RouterInv, RouterNext,
           NEW k \in Keys, sessions[k] # NoSession,
           NEW m \in Msgs, m \in Pending(k), m \in media[k], m \notin media'[k]
    PROVE  \/ \E r \in removing : r.key = k /\ r.at = "media"
           \/ now - enqueuedAt[m] > IdleTimeout
<1> USE DEF RouterInv
<1>1. media \in [Keys -> SUBSET Msgs]
    BY DEF RouterTypes
<1>2. media' # media
    OBVIOUS
<1>3. ASSUME NEW r \in removing, RemovalWipes(r)
      PROVE  \E d \in removing : d.key = k /\ d.at = "media"
    BY <1>1, <1>3 DEF RemovalWipes
<1>4. CASE Sweep
    <2>1. PICK gone \in IdleSets :
            sessions' = [j \in Keys |-> IF j \in gone THEN NoSession ELSE sessions[j]]
        BY <1>4 DEF Sweep, CleanupIdle
    <2>2. k \in gone
        BY <1>4, <2>1 DEF Sweep
    <2>3. Holds(sessions[k], m)
        BY DEF Pending, Holds
    <2>4. QED
        BY <2>1, <2>2, <2>3, IdleHeld
<1>5. ASSUME NEW r \in routing PROVE ~RouteDownloads(r)
    <2>1. r.key \in Keys
        BY DEF RouterTypes, Routings
    <2>2. ASSUME RouteDownloads(r) PROVE media[k] \subseteq media'[k]
        BY <1>1, <2>1, <2>2 DEF RouteDownloads
    <2>3. QED
        BY <2>2
<1>6. \A r \in routing : ~RouteEnqueues(r)
    BY <1>2 DEF RouteEnqueues
<1>7. ASSUME NEW j \in Keys PROVE ~Handler(j)
    BY <1>2
    DEF Handler, RouteLooksUp, RouteAsks, Status, Cancel, ClearChecks, WebRemoves,
        UseCompares, routerVars
<1>8. \A u \in using : ~UseSwitches(u)
    BY <1>2 DEF UseSwitches
<1>9. \A r \in removing : ~ClearRemoves(r) /\ ~RemovalErases(r)
    BY <1>2 DEF ClearRemoves, RemovalErases
<1>10. ~RouterEnds /\ ~ManagerStep
    BY <1>2 DEF RouterEnds, ManagerStep, routerVars
<1>11. QED
    BY <1>3, <1>4, <1>5, <1>6, <1>7, <1>8, <1>9, <1>10 DEF RouterNext

\* No picture or file is deleted under a message that came no longer ago than a
\* session may idle, but by a removal of its user's session: whatever moments the
\* idle sweep mixes, it reads no time of activity older than the messages held.
THEOREM FilesAreKept == RouterSpec => FilesKeptWhileNeeded
<1>1. RouterInv /\ [RouterNext]_allVars =>
        [\A k \in Keys : sessions[k] # NoSession =>
            \A m \in Pending(k) : m \in media[k] /\ m \notin media'[k] =>
                \/ \E r \in removing : r.key = k /\ r.at = "media"
                \/ now - enqueuedAt[m] > IdleTimeout]_allVars
    <2>1. \A k \in Keys : Pending(k) \subseteq Msgs
        BY DEF Pending
    <2>2. QED
        BY <2>1, FilesStep
<1>2. QED
    BY <1>1, RouterInvariant, PTL DEF RouterSpec, FilesKeptWhileNeeded
=============================================================================
