------------------------------ MODULE ChatRouter ------------------------------
(***************************************************************************)
(* The callers of the session manager: the message handlers of             *)
(* internal/router (Route and the commands) and the DELETE of              *)
(* internal/web, composed with SessionManager.  They look something up in  *)
(* one locked section of the manager and act on it in another, with a      *)
(* download of media in between; each section is a step.                   *)
(*                                                                         *)
(*   routing    Route has chosen an agent and not yet called Enqueue       *)
(*   using      handleUse has compared agents and not yet called           *)
(*              SwitchAgent                                                *)
(*   removing   calls of RemoveSession, of /clear or of the web server     *)
(*   media      the files in the media directory of each user, on disk     *)
(*   default    the agent given by configuration or flag, unresolved       *)
(*                                                                         *)
(* Two variables are there for the properties only: chosen, the agent that *)
(* the last command of a user reported as theirs, and held, the agents     *)
(* that handlers under way at that moment had already looked up for this   *)
(* user.  A report counts from the locked section it reports of: the reply *)
(* itself is sent later, and two commands of one user that are under way   *)
(* together may be answered in the other order.                            *)
(***************************************************************************)
EXTENDS SessionManager

CONSTANTS
    Defaults,   \* the default agents that may be configured, None included
    MediaMsgs   \* the messages that bring a picture or a file

ASSUME DefaultsAssumption == Defaults \subseteq Agents \cup {None}
ASSUME MediaAssumption == MediaMsgs \subseteq Msgs

VARIABLES default, routing, using, removing, media, chosen, held

routeVars == <<routing, using, removing>>
toldVars  == <<chosen, held>>
routerVars == <<default, routeVars, media, toldVars>>
allVars == <<vars, routerVars>>

Routings == [key : Keys, msg : Msgs, agent : Agents,
             file : {"none", "awaited", "saved", "failed"}]
Usings    == [key : Keys, agent : Registry, from : Agents \cup {None}]
Removings == [key : Keys, by : {"user", "web"}, at : {"checked", "erase", "media"}]

RouterInit ==
    /\ Init
    /\ default \in Defaults
    /\ routing = {} /\ using = {} /\ removing = {}
    /\ media = [k \in Keys |-> {}]
    /\ chosen = [k \in Keys |-> None]
    /\ held = [k \in Keys |-> {}]

\* GetSessionAgentID.
SessionAgent(k) == IF sessions[k] = NoSession THEN None ELSE agent[sessions[k]]

\* The agent Route gives to Enqueue; restoreAgentFromStore never finds one.
AgentFor(k) == IF sessions[k] = NoSession THEN default ELSE agent[sessions[k]]

\* A message handler starts: the bot runs MaxRoutes of them at a time.
HandlerStarts ==
    /\ Up
    /\ Cardinality(routing) + Cardinality(using) + Cardinality(sending)
         + Cardinality({r \in removing : r.by = "user"}) < MaxRoutes

\* The user of k is to be told that a, or no agent, is theirs.
Tell(k, a) ==
    /\ chosen' = [chosen EXCEPT ![k] = a]
    /\ held' = [held EXCEPT ![k] = {r.agent : r \in {r \in routing : r.key = k}}]

-----------------------------------------------------------------------------
(* Route, for a message that is no command. *)

\* Mutant: no test for a missing agent.
RouteLooksUpAny(k, m) ==
    /\ HandlerStarts
    /\ to[m] = None /\ \A r \in routing : r.msg # m
    /\ routing' = routing \cup
          {[key |-> k, msg |-> m, agent |-> AgentFor(k),
            file |-> IF m \in MediaMsgs THEN "awaited" ELSE "none"]}
    /\ UNCHANGED <<vars, default, using, removing, media, toldVars>>

\* The message is given an agent; what it brings has yet to be downloaded.
RouteLooksUp(k, m) ==
    /\ HandlerStarts
    /\ to[m] = None /\ \A r \in routing : r.msg # m
    /\ AgentFor(k) # None
    /\ routing' = routing \cup
          {[key |-> k, msg |-> m, agent |-> AgentFor(k),
            file |-> IF m \in MediaMsgs THEN "awaited" ELSE "none"]}
    /\ UNCHANGED <<vars, default, using, removing, media, toldVars>>

\* Without an agent the user is asked to choose one; the message is dropped.
RouteAsks(k) ==
    /\ HandlerStarts
    /\ AgentFor(k) = None
    /\ Tell(k, None)
    /\ UNCHANGED <<vars, default, routeVars, media>>

\* DownloadAndSave comes back, with the file saved or with an error that the
\* prompt mentions instead.
RouteDownloads(r) ==
    /\ r \in routing /\ r.file = "awaited"
    /\ \E file \in {"saved", "failed"} :
        /\ routing' = (routing \ {r}) \cup {[r EXCEPT !.file = file]}
        /\ media' = IF file = "saved" THEN [media EXCEPT ![r.key] = @ \cup {r.msg}]
                    ELSE media
    /\ UNCHANGED <<vars, default, using, removing, toldVars>>

\* Enqueue, whose locked part uses the agent only if the key has no session.
RouteEnqueues(r) ==
    /\ r \in routing /\ r.file # "awaited"
    /\ routing' = routing \ {r}
    /\ \/ EnqueueExisting(r.key, r.msg)
       \/ EnqueueNew(r.key, r.msg, r.agent)
       \/ EnqueueUnknown(r.key, r.msg, r.agent)
    /\ UNCHANGED <<default, using, removing, media, toldVars>>

-----------------------------------------------------------------------------
(* The commands.  /agents and a name that is not in the registry are answered *)
(* and change nothing.                                                        *)

\* Mutant: the name is compared with the default agent as well.
InUseOrDefault(k, a) == SessionAgent(k) = a \/ default = a

InUse(k, a) == SessionAgent(k) = a

\* handleUse, up to the comparison with the session's agent.
UseCompares(k, a) ==
    /\ HandlerStarts
    /\ IF InUse(k, a)
       THEN Tell(k, a) /\ UNCHANGED using
       ELSE /\ using' = using \cup {[key |-> k, agent |-> a, from |-> SessionAgent(k)]}
            /\ UNCHANGED toldVars
    /\ UNCHANGED <<vars, default, routing, removing, media>>

\* SwitchAgent and the reply; the agent has a factory, so it never fails.
UseSwitches(u) ==
    /\ u \in using
    /\ using' = using \ {u}
    /\ SwitchAgent(u.key, u.agent)
    /\ Tell(u.key, u.agent)
    /\ UNCHANGED <<default, routing, removing, media>>

Status(k) ==
    /\ HandlerStarts
    /\ Tell(k, SessionAgent(k))
    /\ UNCHANGED <<vars, default, routeVars, media>>

\* /cancel is one call of the manager.
Cancel(k) ==
    /\ HandlerStarts
    /\ CancelSession(k)
    /\ UNCHANGED routerVars

\* handleClear asks HasSession first: without a session nothing is deleted,
\* whatever the store holds of this user.  Bound: one /clear of a user, and one
\* DELETE of a key, are under way at a time.
ClearChecks(k) ==
    /\ HandlerStarts
    /\ sessions[k] # NoSession
    /\ \A r \in removing : r.by = "web" \/ r.key # k
    /\ removing' = removing \cup {[key |-> k, by |-> "user", at |-> "checked"]}
    /\ UNCHANGED <<vars, default, routing, using, media, toldVars>>

-----------------------------------------------------------------------------
(* RemoveSession, for /clear and for the DELETE of the web server. *)

MovesTo(r, at) == removing' = (removing \ {r}) \cup {[r EXCEPT !.at = at]}

ClearRemoves(r) ==
    /\ r \in removing /\ r.at = "checked"
    /\ RemoveSession(r.key)
    /\ MovesTo(r, "erase")
    /\ UNCHANGED <<default, routing, using, media, toldVars>>

\* deleteSession takes any key, with or without a session.
WebRemoves(k) ==
    /\ \A r \in removing : r.by = "user" \/ r.key # k
    /\ RemoveSession(k)
    /\ removing' = removing \cup {[key |-> k, by |-> "web", at |-> "erase"]}
    /\ UNCHANGED <<default, routing, using, media, toldVars>>

RemovalErases(r) ==
    /\ r \in removing /\ r.at = "erase"
    /\ EraseMessages(r.key)
    /\ MovesTo(r, "media")
    /\ UNCHANGED <<default, routing, using, media, toldVars>>

\* CleanupMedia, and the reply.
RemovalWipes(r) ==
    /\ r \in removing /\ r.at = "media"
    /\ removing' = removing \ {r}
    /\ media' = [media EXCEPT ![r.key] = {}]
    /\ UNCHANGED <<vars, default, routing, using, toldVars>>

\* cleanupIdleSessions removes the files of the sessions it ends.
Sweep ==
    /\ CleanupIdle
    /\ media' = [k \in Keys |-> IF sessions'[k] # sessions[k] THEN {} ELSE media[k]]
    /\ UNCHANGED <<default, routeVars, toldVars>>

\* Handlers and web requests end with the process; files stay on disk.
RouterEnds ==
    /\ ProcessEnds
    /\ routing' = {} /\ using' = {} /\ removing' = {}
    /\ UNCHANGED <<default, media, toldVars>>

\* The steps of the manager's own goroutines, and of the clock.
ManagerStep ==
    /\ \/ \E s \in Sids, m \in Msgs : Send(s, m)
       \/ \E s \in Sids : Consumer(s)
       \/ Start \/ StopCancel \/ StopKill \/ Tick
    /\ UNCHANGED routerVars

Handler(k) ==
    \/ \E m \in Msgs : RouteLooksUp(k, m)
    \/ RouteAsks(k) \/ Status(k) \/ Cancel(k) \/ ClearChecks(k) \/ WebRemoves(k)
    \/ \E a \in Registry : UseCompares(k, a)

RouterNext ==
    \/ \E k \in Keys : Handler(k)
    \/ \E r \in routing : RouteDownloads(r) \/ RouteEnqueues(r)
    \/ \E u \in using : UseSwitches(u)
    \/ \E r \in removing : ClearRemoves(r) \/ RemovalErases(r) \/ RemovalWipes(r)
    \/ Sweep \/ RouterEnds \/ ManagerStep

RouterSpec == RouterInit /\ [][RouterNext]_allVars

-----------------------------------------------------------------------------
(* Properties. *)

\* The variables of the router stay in their types, beside the manager's.
RouterTypeOK ==
    /\ TypeOK
    /\ default \in Defaults
    /\ routing \subseteq Routings /\ using \subseteq Usings
    /\ removing \subseteq Removings
    /\ media \in [Keys -> SUBSET Msgs]
    /\ chosen \in [Keys -> Agents \cup {None}]
    /\ held \in [Keys -> SUBSET Agents]

\* Whatever sessions were lost, restored or created by late handlers since, a
\* user's session has the agent that user was last told, or the default one;
\* only a handler that was already under way when the user was told may have
\* brought back an earlier choice.
AgentAsTold ==
    \A k \in Keys : sessions[k] # NoSession =>
        agent[sessions[k]] \in {chosen[k], default} \cup held[k]

Pending(k) ==
    {m \in Msgs : \/ cur[sessions[k]] = m
                  \/ \E i \in DOMAIN queue[sessions[k]] : queue[sessions[k]][i] = m}

\* The file of a message that waits or is in work at a user's session is
\* deleted under it by a removal of the same user's session that had already
\* begun, or when the message arrived longer ago than a session may idle: it is
\* in work since, or was sent to the queue after cleanup had looked there.
FilesKeptWhileNeeded ==
    [][\A k \in Keys : sessions[k] # NoSession =>
        \A m \in Pending(k) : m \in media[k] /\ m \notin media'[k] =>
            \/ \E r \in removing : r.key = k /\ r.at = "media"
            \/ now - enqueuedAt[m] > IdleTimeout]_allVars
=============================================================================
