------------------------------- MODULE Process -------------------------------
(***************************************************************************)
(* The life of the process: runStart of cmd/wechat-router/main.go, one     *)
(* goroutine with Bridge.Run per bot, Bridge.Stop, and the web server of a *)
(* bot, beside a consumer of the bot's session manager with its child, the *)
(* agent.  SessionManager and AgentBackend have the details of the last    *)
(* two; here they are what a shutdown meets: an agent that runs, a result  *)
(* that has still to be stored.  One exchange of a bot is in work at a     *)
(* time.                                                                   *)
(*                                                                         *)
(* Login and the long poll of the bot are code of a library: they return   *)
(* when they like, with or without an error, and must return only once     *)
(* their context is done or Bot.Stop was called.                           *)
(***************************************************************************)
EXTENDS Integers, Sequences

CONSTANTS
    NumBots,   \* the bots of the configuration, in its order: 1 .. NumBots
    WebBots,   \* those whose web server is enabled, all at one address
    BusyBots   \* bound: those with messages

Bots == 1 .. NumBots

ASSUME BotsAssumption == NumBots \in Nat
ASSUME WebAssumption == WebBots \subseteq Bots /\ BusyBots \subseteq Bots

VARIABLES
    signalled,  \* the context of main is done: SIGINT, or SIGTERM from "stop"
    main,       \* "waiting" in the select, "stopping", "exited"
    status,     \* what main exits with: "none" yet, "ok", "error"
    stopping,   \* the bridge main has got to, and the next call of its Stop
    errCh,      \* what the calls of Run have returned: whether with an error
    run,        \* Run of each bot
    failed,     \* Run is to return an error
    mgr,        \* "none", "running", "cancelled", "stopped"
    store,      \* "none", "open", "closed"
    web,        \* "none", "up", "failed" to listen, "closed" by Shutdown
    request,    \* a DELETE: "none", "erasing" after RemoveSession's locked part
    consumer,   \* "idle", "started" (no b.cmd yet), "prompt", "result", "asked"
    child,      \* the agent of the consumer: "none", "running"
    session,    \* the consumer's: "mapped" by the manager, "dropped" from the
                \* map with its context alive, "removed" with its context done
    overlooked  \* what a Stop did not reach of a bot: <<b, "manager">>, not
                \* there yet; <<b, "agent">>, not published yet; <<b, "session">>

mainVars == <<main, status, stopping>>
runVars == <<run, failed, errCh>>
exchangeVars == <<consumer, child, session>>
vars == <<signalled, mainVars, runVars, mgr, store, web, request,
          exchangeVars, overlooked>>

RunStates == {"login", "web", "serve", "cancel", "kill", "close", "report",
              "returned"}
Calls == {"bot", "cancel", "kill", "web", "wait"}

Init ==
    /\ signalled = FALSE
    /\ main = "waiting" /\ status = "none"
    /\ stopping = [bot |-> 1, call |-> "bot"]
    /\ errCh = << >>
    /\ run = [b \in Bots |-> "login"]
    /\ failed = [b \in Bots |-> FALSE]
    /\ mgr = [b \in Bots |-> "none"]
    /\ store = [b \in Bots |-> "none"]
    /\ web = [b \in Bots |-> "none"]
    /\ request = [b \in Bots |-> "none"]
    /\ consumer = [b \in Bots |-> "idle"]
    /\ child = [b \in Bots |-> "none"]
    /\ session = [b \in Bots |-> "mapped"]
    /\ overlooked = {}

Alive == main # "exited"

\* Every goroutine ends with the process; the children do not.
Signal ==
    /\ Alive /\ ~signalled
    /\ signalled' = TRUE
    /\ UNCHANGED <<mainVars, runVars, mgr, store, web, request, exchangeVars,
                   overlooked>>

-----------------------------------------------------------------------------
(* Manager.Stop of bot b, in its two sections: Run and main may both call it. *)

StopCancel(b) ==
    mgr' = [mgr EXCEPT ![b] = IF @ = "running" THEN "cancelled" ELSE @]

\* Mutant: the contexts are left to end the agents.
ChildLeftToContext(b) == child

\* The Kill of a session in the map; it finds the command once Prompt has
\* published it.
ChildAfterKill(b) ==
    IF session[b] = "mapped" /\ consumer[b] = "prompt"
    THEN [child EXCEPT ![b] = "none"] ELSE child

\* A session leaves the map, and Stop no longer kills for it.
LeavesMap(b, as) == session' = [session EXCEPT ![b] = IF @ = "mapped" THEN as ELSE @]

Overlooks(b, what) ==
    /\ child[b] = "running"
    /\ \/ what = "agent" /\ session[b] = "mapped" /\ consumer[b] = "started"
       \/ what = "session" /\ session[b] # "mapped"

StopKill(b) ==
    /\ mgr' = [mgr EXCEPT ![b] = "stopped"]
    /\ child' = ChildAfterKill(b)
    /\ LeavesMap(b, "removed")
    /\ overlooked' = overlooked \cup
        {miss \in {b} \X {"agent", "session"} : Overlooks(b, miss[2])}
    /\ UNCHANGED consumer

-----------------------------------------------------------------------------
(* Bridge.Run of bot b. *)

RunMoves(b, from, to) ==
    /\ Alive
    /\ run[b] = from
    /\ run' = [run EXCEPT ![b] = to]

Fails(b, from, to) ==
    /\ RunMoves(b, from, to)
    /\ failed' = [failed EXCEPT ![b] = TRUE]
    /\ UNCHANGED <<signalled, mainVars, errCh, mgr, store, web, request,
                   exchangeVars, overlooked>>

\* Mutant: the Close is not deferred.
OpensClosed(b) ==
    /\ RunMoves(b, "login", IF b \in WebBots THEN "web" ELSE "serve")
    /\ store' = [store EXCEPT ![b] = "closed"]
    /\ mgr' = [mgr EXCEPT ![b] = "running"]
    /\ UNCHANGED <<signalled, mainVars, failed, errCh, web, request,
                   exchangeVars, overlooked>>

\* Login, OpenStore, NewManager and Start; others see the manager only.
Opens(b) ==
    /\ RunMoves(b, "login", IF b \in WebBots THEN "web" ELSE "serve")
    /\ store' = [store EXCEPT ![b] = "open"]
    /\ mgr' = [mgr EXCEPT ![b] = "running"]
    /\ UNCHANGED <<signalled, mainVars, failed, errCh, web, request,
                   exchangeVars, overlooked>>

\* Login, MkdirAll or OpenStore returns an error.
OpenFails(b) == Fails(b, "login", "report")

\* Only one server listens at an address; the others log the failure.
StartWeb(b) ==
    /\ RunMoves(b, "web", "serve")
    /\ web' = [web EXCEPT ![b] =
                IF \E other \in Bots : web[other] = "up"
                THEN "failed" ELSE "up"]
    /\ UNCHANGED <<signalled, mainVars, failed, errCh, mgr, store, request,
                   exchangeVars, overlooked>>

\* Mutant: Run does not stop the manager.
StoreFirst == "close"

\* Once Bot.Run has returned: Manager.Stop.
AfterServe == "cancel"

\* main has called Bot.Stop.
BotStopped(b) ==
    \/ stopping.bot > b
    \/ stopping.bot = b /\ stopping.call # "bot"

\* Bot.Run returns: without an error only when it was told to.
BotReturns(b) ==
    /\ signalled \/ BotStopped(b)
    /\ RunMoves(b, "serve", AfterServe)
    /\ UNCHANGED <<signalled, mainVars, failed, errCh, mgr, store, web,
                   request, exchangeVars, overlooked>>

BotFails(b) == Fails(b, "serve", AfterServe)

RunCancels(b) ==
    /\ RunMoves(b, "cancel", "kill")
    /\ StopCancel(b)
    /\ UNCHANGED <<signalled, mainVars, failed, errCh, store, web, request,
                   exchangeVars, overlooked>>

RunKills(b) ==
    /\ RunMoves(b, "kill", "close")
    /\ StopKill(b)
    /\ UNCHANGED <<signalled, mainVars, failed, errCh, store, web, request>>

\* The deferred Close.
CloseStore(b) ==
    /\ RunMoves(b, "close", "report")
    /\ store' = [store EXCEPT ![b] = "closed"]
    /\ UNCHANGED <<signalled, mainVars, failed, errCh, mgr, web, request,
                   exchangeVars, overlooked>>

\* Mutant: what Run returns is sent again and again.
ReportsAgain(b) ==
    /\ RunMoves(b, "report", "report")
    /\ errCh' = Append(errCh, failed[b])
    /\ UNCHANGED <<signalled, mainVars, failed, mgr, store, web, request,
                   exchangeVars, overlooked>>

\* errCh has room for every bridge, so that no Run waits for main.
Report(b) ==
    /\ RunMoves(b, "report", "returned")
    /\ errCh' = Append(errCh, failed[b])
    /\ UNCHANGED <<signalled, mainVars, failed, mgr, store, web, request,
                   exchangeVars, overlooked>>

-----------------------------------------------------------------------------
(* main: the select, then Bridge.Stop of each bridge in turn. *)

NoticesSignal ==
    /\ main = "waiting" /\ signalled
    /\ main' = "stopping"
    /\ UNCHANGED <<signalled, status, stopping, runVars, mgr, store, web,
                   request, exchangeVars, overlooked>>

\* Mutant: main waits for every bot.
NoticesAllReturns ==
    /\ main = "waiting" /\ Len(errCh) = NumBots
    /\ errCh' = Tail(errCh)
    /\ IF Head(errCh)
       THEN main' = "exited" /\ status' = "error"
       ELSE main' = "stopping" /\ UNCHANGED status
    /\ UNCHANGED <<signalled, stopping, run, failed, mgr, store, web, request,
                   exchangeVars, overlooked>>

\* A bot that ended without an error stops the others; one that failed ends the
\* process, whatever the others do.
NoticesReturn ==
    /\ main = "waiting" /\ errCh # << >>
    /\ errCh' = Tail(errCh)
    /\ IF Head(errCh)
       THEN main' = "exited" /\ status' = "error"
       ELSE main' = "stopping" /\ UNCHANGED status
    /\ UNCHANGED <<signalled, stopping, run, failed, mgr, store, web, request,
                   exchangeVars, overlooked>>

Calling(call) ==
    main = "stopping" /\ stopping.bot \in Bots /\ stopping.call = call

NextCall(call) == stopping' = [stopping EXCEPT !.call = call]

StopsBot ==
    /\ Calling("bot")
    /\ NextCall("cancel")
    /\ UNCHANGED <<signalled, main, status, runVars, mgr, store, web, request,
                   exchangeVars, overlooked>>

StopsCancel ==
    /\ Calling("cancel")
    /\ IF mgr[stopping.bot] = "none"
       THEN /\ NextCall("web")
            /\ overlooked' = overlooked \cup {<<stopping.bot, "manager">>}
            /\ UNCHANGED mgr
       ELSE /\ NextCall("kill")
            /\ StopCancel(stopping.bot)
            /\ UNCHANGED overlooked
    /\ UNCHANGED <<signalled, main, status, runVars, store, web, request,
                   exchangeVars>>

StopsKill ==
    /\ Calling("kill")
    /\ StopKill(stopping.bot)
    /\ NextCall("web")
    /\ UNCHANGED <<signalled, main, status, runVars, store, web, request>>

\* Shutdown closes the listener, then waits for the request in work, for five
\* seconds at most: main goes on at the answer, or at any time.
WebCloses(b) == web' = [web EXCEPT ![b] = IF @ = "up" THEN "closed" ELSE @]

NextBridge == stopping' = [bot |-> stopping.bot + 1, call |-> "bot"]

StopsWeb ==
    /\ Calling("web")
    /\ WebCloses(stopping.bot)
    /\ IF web[stopping.bot] \in {"none", "failed"}
       THEN NextBridge ELSE NextCall("wait")
    /\ UNCHANGED <<signalled, main, status, runVars, mgr, store, request,
                   exchangeVars, overlooked>>

\* Mutant: without the timeout.
StopsWaitingForAnswer ==
    /\ Calling("wait") /\ request[stopping.bot] = "none"
    /\ NextBridge
    /\ UNCHANGED <<signalled, main, status, runVars, mgr, store, web, request,
                   exchangeVars, overlooked>>

StopsWaiting ==
    /\ Calling("wait")
    /\ NextBridge
    /\ UNCHANGED <<signalled, main, status, runVars, mgr, store, web, request,
                   exchangeVars, overlooked>>

\* Mutant: the return is in the loop.
FirstStopped == stopping.bot > 1

AllStopped == stopping.bot > NumBots

Exits ==
    /\ main = "stopping" /\ AllStopped
    /\ main' = "exited" /\ status' = "ok"
    /\ UNCHANGED <<signalled, stopping, runVars, mgr, store, web, request,
                   exchangeVars, overlooked>>

Main ==
    \/ NoticesSignal \/ NoticesReturn
    \/ StopsBot \/ StopsCancel \/ StopsKill \/ StopsWeb \/ StopsWaiting \/ Exits

-----------------------------------------------------------------------------
(* The web server of bot b. *)

\* The goroutine of Start that waits for the context of main.
ContextClosesWeb(b) ==
    /\ Alive /\ signalled /\ web[b] = "up"
    /\ WebCloses(b)
    /\ UNCHANGED <<signalled, mainVars, runVars, mgr, store, request,
                   exchangeVars, overlooked>>

\* deleteSession, past the locked section of RemoveSession.
Delete(b) ==
    /\ Alive /\ web[b] = "up" /\ request[b] = "none"
    /\ request' = [request EXCEPT ![b] = "erasing"]
    /\ UNCHANGED <<signalled, mainVars, runVars, mgr, store, web, exchangeVars,
                   overlooked>>

\* DeleteMessages, and the answer: "deleted", whether the store was open or not.
Answer(b) ==
    /\ Alive /\ request[b] = "erasing"
    /\ request' = [request EXCEPT ![b] = "none"]
    /\ UNCHANGED <<signalled, mainVars, runVars, mgr, store, web, exchangeVars,
                   overlooked>>

-----------------------------------------------------------------------------
(* A consumer of bot b and its child. *)

\* The agent of a message is started, by the consumer that was there or by the
\* one of a new session. exec starts none under a context that is done, but the
\* context may be done before Kill can find the agent.
Begins(b) ==
    /\ Alive /\ b \in BusyBots
    /\ mgr[b] = "running" /\ consumer[b] = "idle"
    /\ consumer' = [consumer EXCEPT ![b] = "started"]
    /\ child' = [child EXCEPT ![b] = "running"]
    /\ \/ session[b] # "removed" /\ UNCHANGED session
       \/ session' = [session EXCEPT ![b] = "mapped"]
    /\ UNCHANGED <<signalled, mainVars, runVars, mgr, store, web, request,
                   overlooked>>

Publishes(b) ==
    /\ Alive /\ consumer[b] = "started"
    /\ consumer' = [consumer EXCEPT ![b] = "prompt"]
    /\ UNCHANGED <<signalled, mainVars, runVars, mgr, store, web, request,
                   child, session, overlooked>>

\* By itself, with or without the process; or killed by the watcher of its
\* context, which ends with the process.
ChildEnds(b) ==
    /\ child[b] = "running"
    /\ child' = [child EXCEPT ![b] = "none"]
    /\ UNCHANGED <<signalled, mainVars, runVars, mgr, store, web, request,
                   consumer, session, overlooked>>

\* The session is replaced, evicted, cleaned up or deleted while its agent runs:
\* its context is done, and the agent is killed if Kill finds it.
Removed(b) ==
    /\ Alive /\ b \in BusyBots
    /\ child[b] = "running" /\ session[b] = "mapped"
    /\ LeavesMap(b, "removed")
    /\ child' = ChildAfterKill(b)
    /\ UNCHANGED <<signalled, mainVars, runVars, mgr, store, web, request,
                   consumer, overlooked>>

\* The consumer of an earlier session of the user ends, and deletes the session
\* that has replaced its own.
Dropped(b) ==
    /\ Alive /\ b \in BusyBots
    /\ child[b] = "running" /\ session[b] = "mapped"
    /\ LeavesMap(b, "dropped")
    /\ UNCHANGED <<signalled, mainVars, runVars, mgr, store, web, request,
                   consumer, child, overlooked>>

\* Prompt returns a result, or an error with which nothing is stored.
PromptReturns(b) ==
    /\ Alive /\ consumer[b] = "prompt" /\ child[b] = "none"
    /\ consumer' = [consumer EXCEPT ![b] = "result"]
    /\ UNCHANGED <<signalled, mainVars, runVars, mgr, store, web, request,
                   child, session, overlooked>>

PromptFails(b) ==
    /\ Alive /\ consumer[b] = "prompt" /\ child[b] = "none"
    /\ consumer' = [consumer EXCEPT ![b] = "idle"]
    /\ UNCHANGED <<signalled, mainVars, runVars, mgr, store, web, request,
                   child, session, overlooked>>

\* The errors of the store are dropped.
StoreQuestion(b) ==
    /\ Alive /\ consumer[b] = "result"
    /\ consumer' = [consumer EXCEPT ![b] = "asked"]
    /\ UNCHANGED <<signalled, mainVars, runVars, mgr, store, web, request,
                   child, session, overlooked>>

StoreReply(b) ==
    /\ Alive /\ consumer[b] = "asked"
    /\ consumer' = [consumer EXCEPT ![b] = "idle"]
    /\ UNCHANGED <<signalled, mainVars, runVars, mgr, store, web, request,
                   child, session, overlooked>>

-----------------------------------------------------------------------------
RunStep(b) ==
    \/ StartWeb(b) \/ RunCancels(b) \/ RunKills(b) \/ CloseStore(b) \/ Report(b)

Library(b) == Opens(b) \/ OpenFails(b) \/ BotReturns(b) \/ BotFails(b)

Exchange(b) ==
    \/ Begins(b) \/ Publishes(b) \/ ChildEnds(b) \/ Removed(b) \/ Dropped(b)
    \/ PromptReturns(b) \/ PromptFails(b) \/ StoreQuestion(b) \/ StoreReply(b)

Next ==
    \/ Signal \/ Main
    \/ \E b \in Bots :
        \/ RunStep(b) \/ Library(b) \/ Exchange(b)
        \/ ContextClosesWeb(b) \/ Delete(b) \/ Answer(b)

Spec == Init /\ [][Next]_vars

\* Goroutines that can run do run, and Shutdown gives up after its timeout.
\* Nothing is assumed of signals, agents, requests, Login or the long poll.
FairSpec == Spec /\ WF_vars(Main) /\ \A b \in Bots : WF_vars(RunStep(b))

-----------------------------------------------------------------------------
(* Properties. *)

\* Every variable stays in its type, and errCh within its capacity, so that no
\* Run waits for a main that no longer reads.
TypeOK ==
    /\ signalled \in BOOLEAN
    /\ main \in {"waiting", "stopping", "exited"}
    /\ status \in {"none", "ok", "error"}
    /\ stopping \in [bot : 1 .. NumBots + 1, call : Calls]
    /\ errCh \in Seq(BOOLEAN) /\ Len(errCh) <= NumBots
    /\ run \in [Bots -> RunStates]
    /\ failed \in [Bots -> BOOLEAN]
    /\ mgr \in [Bots -> {"none", "running", "cancelled", "stopped"}]
    /\ store \in [Bots -> {"none", "open", "closed"}]
    /\ web \in [Bots -> {"none", "up", "failed", "closed"}]
    /\ request \in [Bots -> {"none", "erasing"}]
    /\ consumer \in [Bots -> {"idle", "started", "prompt", "result", "asked"}]
    /\ child \in [Bots -> {"none", "running"}]
    /\ session \in [Bots -> {"mapped", "dropped", "removed"}]
    /\ overlooked \subseteq Bots \X {"manager", "agent", "session"}

\* No agent is asked while its store is closed: Run closes the store behind the
\* end of all contexts only, though Bridge.Stop and Run stop the manager together.
NoAnswerForNothing ==
    [][\A b \in Bots : (consumer[b] = "idle" /\ consumer'[b] # "idle")
                        => store[b] = "open"]_vars

\* A question, a reply or a deletion meets a closed store, and is lost without
\* a word, only after the process was told to stop, the bot failed, or main
\* stopped it because another had ended.
LostOnlyAtTheEnd ==
    [][\A b \in Bots :
        (store[b] = "closed" /\ (StoreQuestion(b) \/ StoreReply(b) \/ Answer(b)))
            => signalled \/ failed[b] \/ BotStopped(b)]_vars

\* An agent outlives the process only if it was starting when Stop looked for
\* it; if its session was no longer in the manager's map, where alone Stop looks;
\* or if its bridge was never stopped: main came too early for its manager, or
\* left because another bot had failed.
OutlivedOnlyIfOverlooked ==
    \A b \in Bots : (main = "exited" /\ child[b] = "running") =>
        \/ <<b, "agent">> \in overlooked
        \/ <<b, "session">> \in overlooked
        \/ <<b, "manager">> \in overlooked
        \/ status = "error" /\ mgr[b] # "stopped"

\* When main ends well, every manager that it could find is stopped.
GracefulStopsAll ==
    status = "ok" => \A b \in Bots :
        mgr[b] \in {"none", "stopped"} \/ <<b, "manager">> \in overlooked

\* A signal ends the process, whatever agents, bots and requests are doing; and
\* so does the end of any bot.
SignalEnds == signalled ~> main = "exited"

ReturnEnds == (\E b \in Bots : run[b] = "returned") ~> main = "exited"
=============================================================================
