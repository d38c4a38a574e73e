--------------------------- MODULE Process_proofs ---------------------------
(***************************************************************************)
(* What a shutdown leaves behind, for any number of bots: their managers   *)
(* are stopped, their stores are closed behind them, and an agent outlives *)
(* the process only where Stop could not find it.                          *)
(***************************************************************************)
EXTENDS Process, FiniteSets, FiniteSetTheorems, TLAPS

Returned == {b \in Bots : run[b] = "returned"}

\* errCh has at most one report of every call of Run that has returned.
Reported == Len(errCh) <= Cardinality(Returned)

\* The manager and the store of a bot follow its Run.
FollowsRun(b) ==
    /\ run[b] = "login" => mgr[b] = "none" /\ store[b] = "none"
    /\ run[b] \in {"web", "serve", "cancel", "kill", "close"} => store[b] = "open"
    /\ mgr[b] = "running" => run[b] \in {"web", "serve", "cancel"}
    /\ store[b] = "closed" => run[b] \in {"report", "returned"}

\* Run goes past the long poll only for a reason.
EndsForReason(b) ==
    run[b] \in {"cancel", "kill", "close"} \/ store[b] = "closed" =>
        signalled \/ failed[b] \/ BotStopped(b)

\* A child is the agent of a prompt, of a manager that was there.
ChildHasPrompt(b) ==
    /\ child[b] = "running" => consumer[b] \in {"started", "prompt"}
    /\ mgr[b] = "none" => child[b] = "none"

\* A manager that is stopped has left an agent only if it could not find it:
\* its command was not published, or its session not in the map.
StoppedLeavesNone(b) ==
    mgr[b] = "stopped" =>
        \/ child[b] = "none"
        \/ <<b, "agent">> \in overlooked \/ <<b, "session">> \in overlooked

\* main has stopped the managers of the bridges it has got past.
PassedStopped(b) ==
    stopping.bot > b \/ (stopping.bot = b /\ stopping.call \in {"web", "wait"}) =>
        mgr[b] = "stopped" \/ <<b, "manager">> \in overlooked

\* main kills through a manager it has found.
KillsFound(b) == stopping.bot = b /\ stopping.call = "kill" => mgr[b] # "none"

BotInv(b) ==
    /\ FollowsRun(b) /\ EndsForReason(b) /\ ChildHasPrompt(b)
    /\ StoppedLeavesNone(b) /\ PassedStopped(b) /\ KillsFound(b)

\* main leaves with a status, and well only behind the last bridge.
ExitInv ==
    /\ main = "exited" <=> status # "none"
    /\ status = "ok" => AllStopped

\* Without the capacity of errCh, which needs a count.
Types ==
    /\ signalled \in BOOLEAN
    /\ main \in {"waiting", "stopping", "exited"}
    /\ status \in {"none", "ok", "error"}
    /\ stopping \in [bot : 1 .. NumBots + 1, call : Calls]
    /\ errCh \in Seq(BOOLEAN)
    /\ run \in [Bots -> RunStates]
    /\ failed \in [Bots -> BOOLEAN]
    /\ mgr \in [Bots -> {"none", "running", "cancelled", "stopped"}]
    /\ store \in [Bots -> {"none", "open", "closed"}]
    /\ web \in [Bots -> {"none", "up", "failed", "closed"}]
    /\ request \in [Bots -> {"none", "erasing"}]
    /\ consumer \in [Bots -> {"idle", "started", "prompt", "result", "asked"}]
    /\ child \in [Bots -> {"none", "running"}]
    /\ session \in [Bots -> {"mapped", "dropped", "removed"}]
    /\ overlooked \subseteq Bots \X {"manager", "agent", "session"}

IInv == Types /\ ExitInv /\ \A b \in Bots : BotInv(b)

LEMMA InitIInv == Init => IInv
<1> SUFFICES ASSUME Init PROVE IInv
  OBVIOUS
<1>1. errCh \in Seq(BOOLEAN) /\ signalled \in BOOLEAN /\ failed \in [Bots -> BOOLEAN]
  <2>1. errCh \in Seq(BOOLEAN)
    BY DEF Init
  <2>2. signalled \in BOOLEAN /\ failed \in [Bots -> BOOLEAN]
    BY DEF Init
  <2>3. QED BY <2>1, <2>2
<1>2. stopping \in [bot : 1 .. NumBots + 1, call : Calls]
  BY BotsAssumption DEF Init, Calls
<1>3. overlooked \subseteq Bots \X {"manager", "agent", "session"}
  BY DEF Init
<1>4. Types
  BY <1>1, <1>2, <1>3 DEF Init, Types, RunStates
<1>5. ExitInv
  BY DEF Init, ExitInv
<1>6. ASSUME NEW b \in Bots PROVE BotInv(b)
  BY <1>6 DEF Init, BotInv, FollowsRun, EndsForReason, ChildHasPrompt,
              StoppedLeavesNone, PassedStopped, KillsFound, Bots
<1>7. QED BY <1>4, <1>5, <1>6 DEF IInv

LEMMA SignalIInv == ASSUME IInv, Signal PROVE IInv'
<1>1. Types'
  BY BotsAssumption DEF IInv, Types, Bots, RunStates, Calls, Signal,
                    mainVars, runVars, exchangeVars
<1>2. ExitInv'
  BY DEF IInv, Types, ExitInv, AllStopped, Signal,
         mainVars, runVars, exchangeVars
<1>3. ASSUME NEW c \in Bots PROVE BotInv(c)'
  <2>1. BotInv(c)
    BY DEF IInv
  <2>2. QED BY <1>1, <2>1 DEF IInv, Types, Bots, BotInv, FollowsRun, EndsForReason, ChildHasPrompt,
                    StoppedLeavesNone, PassedStopped, KillsFound, BotStopped, Signal,
                    mainVars, runVars, exchangeVars
<1>4. QED BY <1>1, <1>2, <1>3 DEF IInv

LEMMA NoticesSignalIInv == ASSUME IInv, NoticesSignal PROVE IInv'
<1>1. Types'
  BY BotsAssumption DEF IInv, Types, Bots, RunStates, Calls, NoticesSignal,
                    mainVars, runVars, exchangeVars
<1>2. ExitInv'
  BY DEF IInv, Types, ExitInv, AllStopped, NoticesSignal,
         mainVars, runVars, exchangeVars
<1>3. ASSUME NEW c \in Bots PROVE BotInv(c)'
  <2>1. BotInv(c)
    BY DEF IInv
  <2>2. QED BY <1>1, <2>1 DEF IInv, Types, Bots, BotInv, FollowsRun, EndsForReason, ChildHasPrompt,
                    StoppedLeavesNone, PassedStopped, KillsFound, BotStopped, NoticesSignal,
                    mainVars, runVars, exchangeVars
<1>4. QED BY <1>1, <1>2, <1>3 DEF IInv

LEMMA NoticesReturnIInv == ASSUME IInv, NoticesReturn PROVE IInv'
<1>1. Types'
  <2>1. errCh' \in Seq(BOOLEAN)
    <3>1. errCh \in Seq(BOOLEAN) /\ errCh # << >> /\ errCh' = Tail(errCh)
      BY DEF IInv, Types, NoticesReturn
    <3>2. QED BY <3>1
  <2>2. /\ main' \in {"waiting", "stopping", "exited"}
        /\ status' \in {"none", "ok", "error"}
    BY DEF IInv, Types, NoticesReturn
  <2>3. QED BY <2>1, <2>2 DEF IInv, Types, NoticesReturn, exchangeVars
<1>2. ExitInv'
  BY DEF IInv, Types, ExitInv, AllStopped, NoticesReturn,
         mainVars, runVars, exchangeVars
<1>3. ASSUME NEW c \in Bots PROVE BotInv(c)'
  <2>1. BotInv(c)
    BY DEF IInv
  <2>2. QED BY ZenonT(40), <1>1, <2>1 DEF IInv, Types, Bots, BotInv, FollowsRun, EndsForReason, ChildHasPrompt,
                    StoppedLeavesNone, PassedStopped, KillsFound, BotStopped, NoticesReturn,
                    mainVars, runVars, exchangeVars
<1>4. QED BY <1>1, <1>2, <1>3 DEF IInv

LEMMA StopsBotIInv == ASSUME IInv, StopsBot PROVE IInv'
<1>1. Types'
  BY BotsAssumption DEF IInv, Types, Bots, RunStates, Calls, StopsBot, Calling, NextCall,
                    mainVars, runVars, exchangeVars
<1>2. ExitInv'
  BY DEF IInv, Types, ExitInv, AllStopped, StopsBot, Calling, NextCall,
         mainVars, runVars, exchangeVars
<1>3. ASSUME NEW c \in Bots PROVE BotInv(c)'
  <2>1. BotInv(c)
    BY DEF IInv
  <2>2. QED BY <1>1, <2>1 DEF IInv, Types, Bots, BotInv, FollowsRun, EndsForReason, ChildHasPrompt,
                    StoppedLeavesNone, PassedStopped, KillsFound, BotStopped, StopsBot, Calling, NextCall,
                    mainVars, runVars, exchangeVars
<1>4. QED BY <1>1, <1>2, <1>3 DEF IInv

LEMMA StopsCancelIInv == ASSUME IInv, StopsCancel PROVE IInv'
<1>1. Types'
  <2>1. stopping' \in [bot : 1 .. NumBots + 1, call : Calls]
    BY DEF IInv, Types, Calls, StopsCancel, Calling, NextCall
  <2>2. mgr' \in [Bots -> {"none", "running", "cancelled", "stopped"}]
    BY DEF IInv, Types, StopsCancel, Calling, StopCancel
  <2>3. overlooked' \subseteq Bots \X {"manager", "agent", "session"}
    BY DEF IInv, Types, StopsCancel, Calling
  <2>4. QED BY <2>1, <2>2, <2>3 DEF IInv, Types, StopsCancel, runVars, exchangeVars
<1>2. ExitInv'
  BY DEF IInv, Types, ExitInv, AllStopped, StopsCancel, Calling, NextCall, StopCancel,
         mainVars, runVars, exchangeVars
<1>3. ASSUME NEW c \in Bots PROVE BotInv(c)'
  <2>1. BotInv(c)
    BY DEF IInv
  <2>2. QED BY <1>1, <2>1 DEF IInv, Types, Bots, BotInv, FollowsRun, EndsForReason, ChildHasPrompt,
                    StoppedLeavesNone, PassedStopped, KillsFound, BotStopped, StopsCancel, Calling, NextCall, StopCancel,
                    mainVars, runVars, exchangeVars
<1>4. QED BY <1>1, <1>2, <1>3 DEF IInv

\* StopKill(b) stops the manager, takes the agent it finds, and notes the other.
LEMMA StopKillProperties ==
    ASSUME Types, NEW b \in Bots, ChildHasPrompt(b), StopKill(b)
    PROVE  /\ mgr' \in [Bots -> {"none", "running", "cancelled", "stopped"}]
           /\ child' \in [Bots -> {"none", "running"}]
           /\ session' \in [Bots -> {"mapped", "dropped", "removed"}]
           /\ overlooked' \subseteq Bots \X {"manager", "agent", "session"}
           /\ overlooked \subseteq overlooked'
           /\ mgr'[b] = "stopped"
           /\ \A c \in Bots \ {b} : mgr'[c] = mgr[c] /\ child'[c] = child[c]
           /\ consumer' = consumer
           /\ child'[b] = "running" => child[b] = "running"
           /\ child'[b] = "running" =>
                 <<b, "agent">> \in overlooked' \/ <<b, "session">> \in overlooked'
<1>1. /\ mgr \in [Bots -> {"none", "running", "cancelled", "stopped"}]
      /\ child \in [Bots -> {"none", "running"}]
      /\ session \in [Bots -> {"mapped", "dropped", "removed"}]
      /\ overlooked \subseteq Bots \X {"manager", "agent", "session"}
  BY DEF Types
<1>2. /\ mgr' = [mgr EXCEPT ![b] = "stopped"]
      /\ session' = [session EXCEPT ![b] = IF @ = "mapped" THEN "removed" ELSE @]
      /\ consumer' = consumer
  BY DEF StopKill, LeavesMap
<1>3. child' = IF session[b] = "mapped" /\ consumer[b] = "prompt"
               THEN [child EXCEPT ![b] = "none"] ELSE child
  BY DEF StopKill, ChildAfterKill
<1>4. overlooked' = overlooked \cup
        {miss \in {b} \X {"agent", "session"} : Overlooks(b, miss[2])}
  BY DEF StopKill
<1>5. /\ mgr' \in [Bots -> {"none", "running", "cancelled", "stopped"}]
      /\ mgr'[b] = "stopped"
      /\ \A c \in Bots \ {b} : mgr'[c] = mgr[c]
      /\ session' \in [Bots -> {"mapped", "dropped", "removed"}]
  BY <1>1, <1>2
<1>6. /\ child' \in [Bots -> {"none", "running"}]
      /\ \A c \in Bots \ {b} : child'[c] = child[c]
      /\ child'[b] = "running" =>
            child[b] = "running" /\ ~(session[b] = "mapped" /\ consumer[b] = "prompt")
  BY <1>1, <1>3
<1>7. /\ overlooked' \subseteq Bots \X {"manager", "agent", "session"}
      /\ overlooked \subseteq overlooked'
      /\ \A what \in {"agent", "session"} :
            Overlooks(b, what) => <<b, what>> \in overlooked'
  BY <1>1, <1>4
<1>8. ASSUME child'[b] = "running"
      PROVE  <<b, "agent">> \in overlooked' \/ <<b, "session">> \in overlooked'
  <2>1. child[b] = "running" /\ consumer[b] \in {"started", "prompt"}
    BY <1>6, <1>8 DEF ChildHasPrompt
  <2>2. Overlooks(b, "agent") \/ Overlooks(b, "session")
    BY <1>6, <1>8, <2>1 DEF Overlooks
  <2>3. QED BY <1>7, <2>2
<1>9. QED BY <1>2, <1>5, <1>6, <1>7, <1>8

LEMMA StopsKillIInv == ASSUME IInv, StopsKill PROVE IInv'
<1> DEFINE b == stopping.bot
<1>1. /\ b \in Bots /\ StopKill(b) /\ main = "stopping"
      /\ stopping' = [stopping EXCEPT !.call = "web"]
      /\ UNCHANGED <<signalled, main, status, run, failed, errCh, store, web,
                     request>>
  BY DEF StopsKill, Calling, NextCall, runVars
<1>2. Types /\ BotInv(b)
  BY <1>1 DEF IInv
<1> HIDE DEF b
<1>3. /\ mgr' \in [Bots -> {"none", "running", "cancelled", "stopped"}]
      /\ child' \in [Bots -> {"none", "running"}]
      /\ session' \in [Bots -> {"mapped", "dropped", "removed"}]
      /\ overlooked' \subseteq Bots \X {"manager", "agent", "session"}
      /\ overlooked \subseteq overlooked'
      /\ mgr'[b] = "stopped"
      /\ \A c \in Bots \ {b} : mgr'[c] = mgr[c] /\ child'[c] = child[c]
      /\ consumer' = consumer
      /\ child'[b] = "running" => child[b] = "running"
      /\ child'[b] = "running" =>
            <<b, "agent">> \in overlooked' \/ <<b, "session">> \in overlooked'
  BY <1>1, <1>2, StopKillProperties DEF BotInv
<1>4. /\ stopping' \in [bot : 1 .. NumBots + 1, call : Calls]
      /\ stopping'.bot = b /\ stopping'.call = "web"
      /\ stopping.bot = b /\ stopping.call = "kill"
  BY <1>1, <1>2 DEF Types, Calls, b, StopsKill, Calling
<1>5. Types'
  BY <1>1, <1>2, <1>3, <1>4 DEF Types
<1>6. ExitInv'
  BY <1>1, <1>4 DEF IInv, ExitInv, AllStopped
<1>7. ASSUME NEW c \in Bots PROVE BotInv(c)'
  <2>1. BotInv(c)
    BY DEF IInv
  <2>2. FollowsRun(c)'
    BY <1>1, <1>2, <1>3, <1>4, <2>1 DEF BotInv, FollowsRun, KillsFound, Types
  <2>6. EndsForReason(c)'
    BY <1>1, <1>2, <1>4, <2>1 DEF BotInv, EndsForReason, BotStopped, Types
  <2>3. (ChildHasPrompt(c) /\ StoppedLeavesNone(c))'
    BY <1>1, <1>2, <1>3, <2>1
       DEF BotInv, Types, ChildHasPrompt, StoppedLeavesNone
  <2>4. PassedStopped(c)'
    BY <1>1, <1>2, <1>3, <1>4, <2>1 DEF BotInv, PassedStopped, Types, Bots
  <2>5. KillsFound(c)'
    BY <1>4 DEF KillsFound
  <2>7. QED BY <2>2, <2>3, <2>4, <2>5, <2>6 DEF BotInv
<1>8. QED BY <1>5, <1>6, <1>7 DEF IInv

LEMMA StopsWebIInv == ASSUME IInv, StopsWeb PROVE IInv'
<1>1. Types'
  <2>1. stopping' \in [bot : 1 .. NumBots + 1, call : Calls]
    BY BotsAssumption
       DEF IInv, Types, Bots, Calls, StopsWeb, Calling, NextCall, NextBridge
  <2>2. web' \in [Bots -> {"none", "up", "failed", "closed"}]
    BY DEF IInv, Types, StopsWeb, WebCloses
  <2>3. QED BY <2>1, <2>2 DEF IInv, Types, StopsWeb, runVars, exchangeVars
<1>2. ExitInv'
  BY DEF IInv, Types, ExitInv, AllStopped, StopsWeb, Calling, NextCall, NextBridge, WebCloses,
         mainVars, runVars, exchangeVars
<1>3. ASSUME NEW c \in Bots PROVE BotInv(c)'
  <2>1. BotInv(c)
    BY DEF IInv
  <2>2. QED BY <1>1, <2>1 DEF IInv, Types, Bots, BotInv, FollowsRun, EndsForReason, ChildHasPrompt,
                    StoppedLeavesNone, PassedStopped, KillsFound, BotStopped, StopsWeb, Calling, NextCall, NextBridge, WebCloses,
                    mainVars, runVars, exchangeVars
<1>4. QED BY <1>1, <1>2, <1>3 DEF IInv

LEMMA StopsWaitingIInv == ASSUME IInv, StopsWaiting PROVE IInv'
<1>1. Types'
  BY BotsAssumption DEF IInv, Types, Bots, RunStates, Calls, StopsWaiting, Calling, NextBridge,
                    mainVars, runVars, exchangeVars
<1>2. ExitInv'
  BY DEF IInv, Types, ExitInv, AllStopped, StopsWaiting, Calling, NextBridge,
         mainVars, runVars, exchangeVars
<1>3. ASSUME NEW c \in Bots PROVE BotInv(c)'
  <2>1. BotInv(c)
    BY DEF IInv
  <2>2. QED BY <1>1, <2>1 DEF IInv, Types, Bots, BotInv, FollowsRun, EndsForReason, ChildHasPrompt,
                    StoppedLeavesNone, PassedStopped, KillsFound, BotStopped, StopsWaiting, Calling, NextBridge,
                    mainVars, runVars, exchangeVars
<1>4. QED BY <1>1, <1>2, <1>3 DEF IInv

LEMMA ExitsIInv == ASSUME IInv, Exits PROVE IInv'
<1>1. Types'
  BY BotsAssumption DEF IInv, Types, Bots, RunStates, Calls, Exits, AllStopped,
                    mainVars, runVars, exchangeVars
<1>2. ExitInv'
  BY DEF IInv, Types, ExitInv, AllStopped, Exits, AllStopped,
         mainVars, runVars, exchangeVars
<1>3. ASSUME NEW c \in Bots PROVE BotInv(c)'
  <2>1. BotInv(c)
    BY DEF IInv
  <2>2. QED BY <1>1, <2>1 DEF IInv, Types, Bots, BotInv, FollowsRun, EndsForReason, ChildHasPrompt,
                    StoppedLeavesNone, PassedStopped, KillsFound, BotStopped, Exits, AllStopped,
                    mainVars, runVars, exchangeVars
<1>4. QED BY <1>1, <1>2, <1>3 DEF IInv

LEMMA StartWebIInv == ASSUME IInv, NEW b \in Bots, StartWeb(b) PROVE IInv'
<1>1. Types'
  BY BotsAssumption DEF IInv, Types, Bots, RunStates, Calls, StartWeb, RunMoves,
                    mainVars, runVars, exchangeVars
<1>2. ExitInv'
  BY DEF IInv, Types, ExitInv, AllStopped, StartWeb, RunMoves,
         mainVars, runVars, exchangeVars
<1>3. ASSUME NEW c \in Bots PROVE BotInv(c)'
  <2>1. BotInv(c)
    BY DEF IInv
  <2>2. QED BY <1>1, <2>1 DEF IInv, Types, Bots, BotInv, FollowsRun, EndsForReason, ChildHasPrompt,
                    StoppedLeavesNone, PassedStopped, KillsFound, BotStopped, StartWeb, RunMoves,
                    mainVars, runVars, exchangeVars
<1>4. QED BY <1>1, <1>2, <1>3 DEF IInv

LEMMA RunCancelsIInv == ASSUME IInv, NEW b \in Bots, RunCancels(b) PROVE IInv'
<1>1. Types'
  BY BotsAssumption DEF IInv, Types, Bots, RunStates, Calls, RunCancels, RunMoves, StopCancel,
                    mainVars, runVars, exchangeVars
<1>2. ExitInv'
  BY DEF IInv, Types, ExitInv, AllStopped, RunCancels, RunMoves, StopCancel,
         mainVars, runVars, exchangeVars
<1>3. ASSUME NEW c \in Bots PROVE BotInv(c)'
  <2>1. BotInv(c)
    BY DEF IInv
  <2>2. QED BY <1>1, <2>1 DEF IInv, Types, Bots, BotInv, FollowsRun, EndsForReason, ChildHasPrompt,
                    StoppedLeavesNone, PassedStopped, KillsFound, BotStopped, RunCancels, RunMoves, StopCancel,
                    mainVars, runVars, exchangeVars
<1>4. QED BY <1>1, <1>2, <1>3 DEF IInv

LEMMA RunKillsIInv == ASSUME IInv, NEW b \in Bots, RunKills(b) PROVE IInv'
<1>1. /\ StopKill(b)
      /\ run[b] = "kill" /\ run' = [run EXCEPT ![b] = "close"]
      /\ UNCHANGED <<signalled, main, status, stopping, failed, errCh, store,
                     web, request>>
  BY DEF RunKills, RunMoves, mainVars
<1>2. Types /\ BotInv(b)
  BY DEF IInv
<1>3. /\ mgr' \in [Bots -> {"none", "running", "cancelled", "stopped"}]
      /\ child' \in [Bots -> {"none", "running"}]
      /\ session' \in [Bots -> {"mapped", "dropped", "removed"}]
      /\ overlooked' \subseteq Bots \X {"manager", "agent", "session"}
      /\ overlooked \subseteq overlooked'
      /\ mgr'[b] = "stopped"
      /\ \A c \in Bots \ {b} : mgr'[c] = mgr[c] /\ child'[c] = child[c]
      /\ consumer' = consumer
      /\ child'[b] = "running" => child[b] = "running"
      /\ child'[b] = "running" =>
            <<b, "agent">> \in overlooked' \/ <<b, "session">> \in overlooked'
  BY <1>1, <1>2, StopKillProperties DEF BotInv
<1>4. run' \in [Bots -> RunStates]
  BY <1>1, <1>2 DEF Types, RunStates
<1>5. Types'
  BY <1>1, <1>2, <1>3, <1>4 DEF Types
<1>6. ExitInv'
  BY <1>1 DEF IInv, ExitInv, AllStopped
<1>7. ASSUME NEW c \in Bots PROVE BotInv(c)'
  <2>1. BotInv(c)
    BY DEF IInv
  <2>2. FollowsRun(c)'
    BY <1>1, <1>2, <1>3, <2>1 DEF BotInv, FollowsRun, Types
  <2>6. EndsForReason(c)'
    BY <1>1, <1>2, <2>1 DEF BotInv, EndsForReason, BotStopped, Types
  <2>3. (ChildHasPrompt(c) /\ StoppedLeavesNone(c))'
    BY <1>1, <1>2, <1>3, <2>1
       DEF BotInv, Types, ChildHasPrompt, StoppedLeavesNone
  <2>4. PassedStopped(c)'
    BY <1>1, <1>2, <1>3, <2>1 DEF BotInv, PassedStopped, Types, Bots
  <2>5. KillsFound(c)'
    BY <1>1, <1>2, <1>3, <2>1 DEF BotInv, KillsFound, Types
  <2>7. QED BY <2>2, <2>3, <2>4, <2>5, <2>6 DEF BotInv
<1>8. QED BY <1>5, <1>6, <1>7 DEF IInv

LEMMA CloseStoreIInv == ASSUME IInv, NEW b \in Bots, CloseStore(b) PROVE IInv'
<1>1. Types'
  BY BotsAssumption DEF IInv, Types, Bots, RunStates, Calls, CloseStore, RunMoves,
                    mainVars, runVars, exchangeVars
<1>2. ExitInv'
  BY DEF IInv, Types, ExitInv, AllStopped, CloseStore, RunMoves,
         mainVars, runVars, exchangeVars
<1>3. ASSUME NEW c \in Bots PROVE BotInv(c)'
  <2>1. BotInv(c)
    BY DEF IInv
  <2>2. QED BY <1>1, <2>1 DEF IInv, Types, Bots, BotInv, FollowsRun, EndsForReason, ChildHasPrompt,
                    StoppedLeavesNone, PassedStopped, KillsFound, BotStopped, CloseStore, RunMoves,
                    mainVars, runVars, exchangeVars
<1>4. QED BY <1>1, <1>2, <1>3 DEF IInv

LEMMA ReportIInv == ASSUME IInv, NEW b \in Bots, Report(b) PROVE IInv'
<1>1. Types'
  BY BotsAssumption DEF IInv, Types, Bots, RunStates, Calls, Report, RunMoves,
                    mainVars, runVars, exchangeVars
<1>2. ExitInv'
  BY DEF IInv, Types, ExitInv, AllStopped, Report, RunMoves,
         mainVars, runVars, exchangeVars
<1>3. ASSUME NEW c \in Bots PROVE BotInv(c)'
  <2>1. BotInv(c)
    BY DEF IInv
  <2>2. QED BY <1>1, <2>1 DEF IInv, Types, Bots, BotInv, FollowsRun, EndsForReason, ChildHasPrompt,
                    StoppedLeavesNone, PassedStopped, KillsFound, BotStopped, Report, RunMoves,
                    mainVars, runVars, exchangeVars
<1>4. QED BY <1>1, <1>2, <1>3 DEF IInv

LEMMA OpensIInv == ASSUME IInv, NEW b \in Bots, Opens(b) PROVE IInv'
<1>1. Types'
  BY BotsAssumption DEF IInv, Types, Bots, RunStates, Calls, Opens, RunMoves,
                    mainVars, runVars, exchangeVars
<1>2. ExitInv'
  BY DEF IInv, Types, ExitInv, AllStopped, Opens, RunMoves,
         mainVars, runVars, exchangeVars
<1>3. ASSUME NEW c \in Bots PROVE BotInv(c)'
  <2>1. BotInv(c)
    BY DEF IInv
  <2>2. QED BY <1>1, <2>1 DEF IInv, Types, Bots, BotInv, FollowsRun, EndsForReason, ChildHasPrompt,
                    StoppedLeavesNone, PassedStopped, KillsFound, BotStopped, Opens, RunMoves,
                    mainVars, runVars, exchangeVars
<1>4. QED BY <1>1, <1>2, <1>3 DEF IInv

LEMMA OpenFailsIInv == ASSUME IInv, NEW b \in Bots, OpenFails(b) PROVE IInv'
<1>1. Types'
  BY BotsAssumption DEF IInv, Types, Bots, RunStates, Calls, OpenFails, Fails, RunMoves,
                    mainVars, runVars, exchangeVars
<1>2. ExitInv'
  BY DEF IInv, Types, ExitInv, AllStopped, OpenFails, Fails, RunMoves,
         mainVars, runVars, exchangeVars
<1>3. ASSUME NEW c \in Bots PROVE BotInv(c)'
  <2>1. BotInv(c)
    BY DEF IInv
  <2>2. QED BY <1>1, <2>1 DEF IInv, Types, Bots, BotInv, FollowsRun, EndsForReason, ChildHasPrompt,
                    StoppedLeavesNone, PassedStopped, KillsFound, BotStopped, OpenFails, Fails, RunMoves,
                    mainVars, runVars, exchangeVars
<1>4. QED BY <1>1, <1>2, <1>3 DEF IInv

LEMMA BotReturnsIInv == ASSUME IInv, NEW b \in Bots, BotReturns(b) PROVE IInv'
<1>1. Types'
  BY BotsAssumption DEF IInv, Types, Bots, RunStates, Calls, BotReturns, RunMoves, AfterServe, BotStopped,
                    mainVars, runVars, exchangeVars
<1>2. ExitInv'
  BY DEF IInv, Types, ExitInv, AllStopped, BotReturns, RunMoves, AfterServe, BotStopped,
         mainVars, runVars, exchangeVars
<1>3. ASSUME NEW c \in Bots PROVE BotInv(c)'
  <2>1. BotInv(c)
    BY DEF IInv
  <2>2. QED BY <1>1, <2>1 DEF IInv, Types, Bots, BotInv, FollowsRun, EndsForReason, ChildHasPrompt,
                    StoppedLeavesNone, PassedStopped, KillsFound, BotStopped, BotReturns, RunMoves, AfterServe, BotStopped,
                    mainVars, runVars, exchangeVars
<1>4. QED BY <1>1, <1>2, <1>3 DEF IInv

LEMMA BotFailsIInv == ASSUME IInv, NEW b \in Bots, BotFails(b) PROVE IInv'
<1>1. Types'
  BY BotsAssumption DEF IInv, Types, Bots, RunStates, Calls, BotFails, Fails, RunMoves, AfterServe,
                    mainVars, runVars, exchangeVars
<1>2. ExitInv'
  BY DEF IInv, Types, ExitInv, AllStopped, BotFails, Fails, RunMoves, AfterServe,
         mainVars, runVars, exchangeVars
<1>3. ASSUME NEW c \in Bots PROVE BotInv(c)'
  <2>1. BotInv(c)
    BY DEF IInv
  <2>2. QED BY <1>1, <2>1 DEF IInv, Types, Bots, BotInv, FollowsRun, EndsForReason, ChildHasPrompt,
                    StoppedLeavesNone, PassedStopped, KillsFound, BotStopped, BotFails, Fails, RunMoves, AfterServe,
                    mainVars, runVars, exchangeVars
<1>4. QED BY <1>1, <1>2, <1>3 DEF IInv

LEMMA BeginsIInv == ASSUME IInv, NEW b \in Bots, Begins(b) PROVE IInv'
<1>1. Types'
  BY BotsAssumption DEF IInv, Types, Bots, RunStates, Calls, Begins,
                    mainVars, runVars, exchangeVars
<1>2. ExitInv'
  BY DEF IInv, Types, ExitInv, AllStopped, Begins,
         mainVars, runVars, exchangeVars
<1>3. ASSUME NEW c \in Bots PROVE BotInv(c)'
  <2>1. BotInv(c)
    BY DEF IInv
  <2>2. QED BY <1>1, <2>1 DEF IInv, Types, Bots, BotInv, FollowsRun, EndsForReason, ChildHasPrompt,
                    StoppedLeavesNone, PassedStopped, KillsFound, BotStopped, Begins,
                    mainVars, runVars, exchangeVars
<1>4. QED BY <1>1, <1>2, <1>3 DEF IInv

LEMMA PublishesIInv == ASSUME IInv, NEW b \in Bots, Publishes(b) PROVE IInv'
<1>1. Types'
  BY BotsAssumption DEF IInv, Types, Bots, RunStates, Calls, Publishes,
                    mainVars, runVars, exchangeVars
<1>2. ExitInv'
  BY DEF IInv, Types, ExitInv, AllStopped, Publishes,
         mainVars, runVars, exchangeVars
<1>3. ASSUME NEW c \in Bots PROVE BotInv(c)'
  <2>1. BotInv(c)
    BY DEF IInv
  <2>2. QED BY <1>1, <2>1 DEF IInv, Types, Bots, BotInv, FollowsRun, EndsForReason, ChildHasPrompt,
                    StoppedLeavesNone, PassedStopped, KillsFound, BotStopped, Publishes,
                    mainVars, runVars, exchangeVars
<1>4. QED BY <1>1, <1>2, <1>3 DEF IInv

LEMMA ChildEndsIInv == ASSUME IInv, NEW b \in Bots, ChildEnds(b) PROVE IInv'
<1>1. Types'
  BY BotsAssumption DEF IInv, Types, Bots, RunStates, Calls, ChildEnds,
                    mainVars, runVars, exchangeVars
<1>2. ExitInv'
  BY DEF IInv, Types, ExitInv, AllStopped, ChildEnds,
         mainVars, runVars, exchangeVars
<1>3. ASSUME NEW c \in Bots PROVE BotInv(c)'
  <2>1. BotInv(c)
    BY DEF IInv
  <2>2. QED BY <1>1, <2>1 DEF IInv, Types, Bots, BotInv, FollowsRun, EndsForReason, ChildHasPrompt,
                    StoppedLeavesNone, PassedStopped, KillsFound, BotStopped, ChildEnds,
                    mainVars, runVars, exchangeVars
<1>4. QED BY <1>1, <1>2, <1>3 DEF IInv

LEMMA RemovedIInv == ASSUME IInv, NEW b \in Bots, Removed(b) PROVE IInv'
<1>1. Types'
  BY BotsAssumption DEF IInv, Types, Bots, RunStates, Calls, Removed, LeavesMap, ChildAfterKill,
                    mainVars, runVars, exchangeVars
<1>2. ExitInv'
  BY DEF IInv, Types, ExitInv, AllStopped, Removed, LeavesMap, ChildAfterKill,
         mainVars, runVars, exchangeVars
<1>3. ASSUME NEW c \in Bots PROVE BotInv(c)'
  <2>1. BotInv(c)
    BY DEF IInv
  <2>2. QED BY <1>1, <2>1 DEF IInv, Types, Bots, BotInv, FollowsRun, EndsForReason, ChildHasPrompt,
                    StoppedLeavesNone, PassedStopped, KillsFound, BotStopped, Removed, LeavesMap, ChildAfterKill,
                    mainVars, runVars, exchangeVars
<1>4. QED BY <1>1, <1>2, <1>3 DEF IInv

LEMMA DroppedIInv == ASSUME IInv, NEW b \in Bots, Dropped(b) PROVE IInv'
<1>1. Types'
  BY BotsAssumption DEF IInv, Types, Bots, RunStates, Calls, Dropped, LeavesMap,
                    mainVars, runVars, exchangeVars
<1>2. ExitInv'
  BY DEF IInv, Types, ExitInv, AllStopped, Dropped, LeavesMap,
         mainVars, runVars, exchangeVars
<1>3. ASSUME NEW c \in Bots PROVE BotInv(c)'
  <2>1. BotInv(c)
    BY DEF IInv
  <2>2. QED BY <1>1, <2>1 DEF IInv, Types, Bots, BotInv, FollowsRun, EndsForReason, ChildHasPrompt,
                    StoppedLeavesNone, PassedStopped, KillsFound, BotStopped, Dropped, LeavesMap,
                    mainVars, runVars, exchangeVars
<1>4. QED BY <1>1, <1>2, <1>3 DEF IInv

LEMMA PromptReturnsIInv == ASSUME IInv, NEW b \in Bots, PromptReturns(b) PROVE IInv'
<1>1. Types'
  BY BotsAssumption DEF IInv, Types, Bots, RunStates, Calls, PromptReturns,
                    mainVars, runVars, exchangeVars
<1>2. ExitInv'
  BY DEF IInv, Types, ExitInv, AllStopped, PromptReturns,
         mainVars, runVars, exchangeVars
<1>3. ASSUME NEW c \in Bots PROVE BotInv(c)'
  <2>1. BotInv(c)
    BY DEF IInv
  <2>2. QED BY <1>1, <2>1 DEF IInv, Types, Bots, BotInv, FollowsRun, EndsForReason, ChildHasPrompt,
                    StoppedLeavesNone, PassedStopped, KillsFound, BotStopped, PromptReturns,
                    mainVars, runVars, exchangeVars
<1>4. QED BY <1>1, <1>2, <1>3 DEF IInv

LEMMA PromptFailsIInv == ASSUME IInv, NEW b \in Bots, PromptFails(b) PROVE IInv'
<1>1. Types'
  BY BotsAssumption DEF IInv, Types, Bots, RunStates, Calls, PromptFails,
                    mainVars, runVars, exchangeVars
<1>2. ExitInv'
  BY DEF IInv, Types, ExitInv, AllStopped, PromptFails,
         mainVars, runVars, exchangeVars
<1>3. ASSUME NEW c \in Bots PROVE BotInv(c)'
  <2>1. BotInv(c)
    BY DEF IInv
  <2>2. QED BY <1>1, <2>1 DEF IInv, Types, Bots, BotInv, FollowsRun, EndsForReason, ChildHasPrompt,
                    StoppedLeavesNone, PassedStopped, KillsFound, BotStopped, PromptFails,
                    mainVars, runVars, exchangeVars
<1>4. QED BY <1>1, <1>2, <1>3 DEF IInv

LEMMA StoreQuestionIInv == ASSUME IInv, NEW b \in Bots, StoreQuestion(b) PROVE IInv'
<1>1. Types'
  BY BotsAssumption DEF IInv, Types, Bots, RunStates, Calls, StoreQuestion,
                    mainVars, runVars, exchangeVars
<1>2. ExitInv'
  BY DEF IInv, Types, ExitInv, AllStopped, StoreQuestion,
         mainVars, runVars, exchangeVars
<1>3. ASSUME NEW c \in Bots PROVE BotInv(c)'
  <2>1. BotInv(c)
    BY DEF IInv
  <2>2. QED BY <1>1, <2>1 DEF IInv, Types, Bots, BotInv, FollowsRun, EndsForReason, ChildHasPrompt,
                    StoppedLeavesNone, PassedStopped, KillsFound, BotStopped, StoreQuestion,
                    mainVars, runVars, exchangeVars
<1>4. QED BY <1>1, <1>2, <1>3 DEF IInv

LEMMA StoreReplyIInv == ASSUME IInv, NEW b \in Bots, StoreReply(b) PROVE IInv'
<1>1. Types'
  BY BotsAssumption DEF IInv, Types, Bots, RunStates, Calls, StoreReply,
                    mainVars, runVars, exchangeVars
<1>2. ExitInv'
  BY DEF IInv, Types, ExitInv, AllStopped, StoreReply,
         mainVars, runVars, exchangeVars
<1>3. ASSUME NEW c \in Bots PROVE BotInv(c)'
  <2>1. BotInv(c)
    BY DEF IInv
  <2>2. QED BY <1>1, <2>1 DEF IInv, Types, Bots, BotInv, FollowsRun, EndsForReason, ChildHasPrompt,
                    StoppedLeavesNone, PassedStopped, KillsFound, BotStopped, StoreReply,
                    mainVars, runVars, exchangeVars
<1>4. QED BY <1>1, <1>2, <1>3 DEF IInv

LEMMA ContextClosesWebIInv == ASSUME IInv, NEW b \in Bots, ContextClosesWeb(b) PROVE IInv'
<1>1. Types'
  BY BotsAssumption DEF IInv, Types, Bots, RunStates, Calls, ContextClosesWeb, WebCloses,
                    mainVars, runVars, exchangeVars
<1>2. ExitInv'
  BY DEF IInv, Types, ExitInv, AllStopped, ContextClosesWeb, WebCloses,
         mainVars, runVars, exchangeVars
<1>3. ASSUME NEW c \in Bots PROVE BotInv(c)'
  <2>1. BotInv(c)
    BY DEF IInv
  <2>2. QED BY <1>1, <2>1 DEF IInv, Types, Bots, BotInv, FollowsRun, EndsForReason, ChildHasPrompt,
                    StoppedLeavesNone, PassedStopped, KillsFound, BotStopped, ContextClosesWeb, WebCloses,
                    mainVars, runVars, exchangeVars
<1>4. QED BY <1>1, <1>2, <1>3 DEF IInv

LEMMA DeleteIInv == ASSUME IInv, NEW b \in Bots, Delete(b) PROVE IInv'
<1>1. Types'
  BY BotsAssumption DEF IInv, Types, Bots, RunStates, Calls, Delete,
                    mainVars, runVars, exchangeVars
<1>2. ExitInv'
  BY DEF IInv, Types, ExitInv, AllStopped, Delete,
         mainVars, runVars, exchangeVars
<1>3. ASSUME NEW c \in Bots PROVE BotInv(c)'
  <2>1. BotInv(c)
    BY DEF IInv
  <2>2. QED BY <1>1, <2>1 DEF IInv, Types, Bots, BotInv, FollowsRun, EndsForReason, ChildHasPrompt,
                    StoppedLeavesNone, PassedStopped, KillsFound, BotStopped, Delete,
                    mainVars, runVars, exchangeVars
<1>4. QED BY <1>1, <1>2, <1>3 DEF IInv

LEMMA AnswerIInv == ASSUME IInv, NEW b \in Bots, Answer(b) PROVE IInv'
<1>1. Types'
  BY BotsAssumption DEF IInv, Types, Bots, RunStates, Calls, Answer,
                    mainVars, runVars, exchangeVars
<1>2. ExitInv'
  BY DEF IInv, Types, ExitInv, AllStopped, Answer,
         mainVars, runVars, exchangeVars
<1>3. ASSUME NEW c \in Bots PROVE BotInv(c)'
  <2>1. BotInv(c)
    BY DEF IInv
  <2>2. QED BY <1>1, <2>1 DEF IInv, Types, Bots, BotInv, FollowsRun, EndsForReason, ChildHasPrompt,
                    StoppedLeavesNone, PassedStopped, KillsFound, BotStopped, Answer,
                    mainVars, runVars, exchangeVars
<1>4. QED BY <1>1, <1>2, <1>3 DEF IInv

LEMMA StutterIInv == ASSUME IInv, UNCHANGED vars PROVE IInv'
BY DEF IInv, Types, ExitInv, AllStopped, BotInv, FollowsRun, EndsForReason,
       ChildHasPrompt, StoppedLeavesNone, PassedStopped, KillsFound, BotStopped, vars,
       mainVars, runVars, exchangeVars

LEMMA IInvHolds == Spec => []IInv
<1>1. IInv /\ [Next]_vars => IInv'
  BY SignalIInv, NoticesSignalIInv, NoticesReturnIInv, StopsBotIInv,
     StopsCancelIInv, StopsKillIInv, StopsWebIInv, StopsWaitingIInv,
     ExitsIInv, StartWebIInv, RunCancelsIInv, RunKillsIInv, CloseStoreIInv,
     ReportIInv, OpensIInv, OpenFailsIInv, BotReturnsIInv, BotFailsIInv,
     BeginsIInv, PublishesIInv, ChildEndsIInv, RemovedIInv, DroppedIInv, PromptReturnsIInv,
     PromptFailsIInv, StoreQuestionIInv, StoreReplyIInv,
     ContextClosesWebIInv, DeleteIInv, AnswerIInv, StutterIInv
     DEF Next, Main, RunStep, Library, Exchange
<1>2. QED BY InitIInv, <1>1, PTL DEF Spec

-----------------------------------------------------------------------------
(* The capacity of errCh. *)

LEMMA ReturnedFinite ==
    IsFiniteSet(Returned) /\ Cardinality(Returned) \in 0 .. NumBots
<1>1. IsFiniteSet(Bots) /\ Cardinality(Bots) = NumBots
  BY FS_Interval, BotsAssumption DEF Bots
<1>2. Returned \subseteq Bots
  BY DEF Returned
<1>3. IsFiniteSet(Returned) /\ Cardinality(Returned) <= Cardinality(Bots)
  BY <1>1, <1>2, FS_Subset
<1>4. QED BY <1>1, <1>3, FS_CardinalityType, BotsAssumption

LEMMA ReportedStep == ASSUME IInv, Reported, [Next]_vars PROVE Reported'
<1>1. /\ errCh \in Seq(BOOLEAN) /\ run \in [Bots -> RunStates]
      /\ failed \in [Bots -> BOOLEAN]
  BY DEF IInv, Types
<1>2. CASE \E b \in Bots : Report(b)
  <2>1. PICK b \in Bots : Report(b)
    BY <1>2
  <2>2. run[b] = "report" /\ run' = [run EXCEPT ![b] = "returned"]
    BY <2>1 DEF Report, RunMoves
  <2>3. b \notin Returned /\ Returned' = Returned \cup {b}
    BY <1>1, <2>2 DEF Returned
  <2>4. Cardinality(Returned') = Cardinality(Returned) + 1
    BY <2>3, ReturnedFinite, FS_AddElement
  <2>5. Len(errCh') = Len(errCh) + 1
    BY <1>1, <2>1 DEF Report
  <2>6. QED BY <1>1, <2>4, <2>5, ReturnedFinite DEF Reported
<1>3. CASE NoticesReturn
  <2>1. Returned' = Returned
    BY <1>3 DEF NoticesReturn, Returned
  <2>2. Len(errCh') = Len(errCh) - 1 /\ Len(errCh) \in Nat
    <3>1. errCh # << >> /\ errCh' = Tail(errCh)
      BY <1>3 DEF NoticesReturn
    <3>2. QED BY <1>1, <3>1
  <2>3. QED BY <2>1, <2>2, ReturnedFinite DEF Reported
<1>4. CASE ~NoticesReturn /\ ~\E b \in Bots : Report(b)
  <2>1. errCh' = errCh
    BY <1>4 DEF Next, Main, RunStep, Library, Exchange, Signal, NoticesSignal, StopsBot,
       StopsCancel, StopsKill, StopsWeb, StopsWaiting, Exits, StartWeb, RunCancels,
       RunKills, CloseStore, Opens, OpenFails, BotReturns, BotFails, Fails, Begins,
       Publishes, ChildEnds, Removed, Dropped, PromptReturns, PromptFails, StoreQuestion, StoreReply,
       ContextClosesWeb, Delete, Answer, vars, runVars
  <2>2. \A b \in Bots : run[b] = "returned" <=> run'[b] = "returned"
    BY <1>1, <1>4 DEF Next, Main, RunStep, Library, Exchange, Signal, NoticesSignal,
       StopsBot, StopsCancel, StopsKill, StopsWeb, StopsWaiting, Exits, StartWeb,
       RunCancels, RunKills, CloseStore, Opens, OpenFails, BotReturns, BotFails, Fails,
       RunMoves, AfterServe, Begins, Publishes, ChildEnds, Removed, Dropped, PromptReturns, PromptFails,
       StoreQuestion, StoreReply, ContextClosesWeb, Delete, Answer, vars, runVars
  <2>3. Returned' = Returned
    BY <2>2 DEF Returned
  <2>4. QED BY <2>1, <2>3 DEF Reported
<1>5. QED BY <1>2, <1>3, <1>4

LEMMA ReportedHolds == Spec => []Reported
<1>1. Init => Reported
  BY ReturnedFinite DEF Init, Reported
<1>2. QED BY <1>1, ReportedStep, IInvHolds, PTL DEF Spec

-----------------------------------------------------------------------------
(* The theorems. *)

\* Every variable keeps its type, and no Run waits to report what it returns:
\* errCh has room for one report of every bot.
THEOREM TypeCorrect == Spec => []TypeOK
<1>1. IInv /\ Reported => TypeOK
  BY ReturnedFinite, BotsAssumption DEF IInv, Types, Reported, TypeOK
<1>2. QED BY <1>1, IInvHolds, ReportedHolds, PTL

\* No agent is asked while the store of its bot is closed.
THEOREM AskedWithStoreOpen == Spec => NoAnswerForNothing
<1>1. IInv /\ [Next]_vars =>
        [\A b \in Bots : (consumer[b] = "idle" /\ consumer'[b] # "idle")
                            => store[b] = "open"]_vars
  <2> SUFFICES ASSUME IInv, Next, NEW b \in Bots,
                      consumer[b] = "idle", consumer'[b] # "idle"
               PROVE  store[b] = "open"
    OBVIOUS
  <2>1. consumer \in [Bots -> {"idle", "started", "prompt", "result", "asked"}]
    BY DEF IInv, Types
  <2>2. Begins(b)
    BY <2>1 DEF Next, Main, RunStep, Library, Exchange, Signal, NoticesSignal,
       NoticesReturn, StopsBot, StopsCancel, StopsKill, StopsWeb, StopsWaiting, Exits,
       StartWeb, RunCancels, RunKills, CloseStore, Report, Opens, OpenFails, BotReturns,
       BotFails, Fails, Begins, Publishes, ChildEnds, Removed, Dropped, PromptReturns, PromptFails,
       StoreQuestion, StoreReply, ContextClosesWeb, Delete, Answer, StopKill, exchangeVars
  <2>3. QED BY <2>2 DEF Begins, IInv, BotInv, FollowsRun
<1>2. QED BY <1>1, IInvHolds, PTL DEF Spec, NoAnswerForNothing

\* What is stored or deleted after the store was closed is lost only once the
\* process was told to stop, the bot has failed, or main has stopped it.
THEOREM LostAtTheEnd == Spec => LostOnlyAtTheEnd
<1>1. IInv /\ [Next]_vars =>
        [\A b \in Bots :
            (store[b] = "closed" /\ (StoreQuestion(b) \/ StoreReply(b) \/ Answer(b)))
                => signalled \/ failed[b] \/ BotStopped(b)]_vars
  BY DEF IInv, BotInv, EndsForReason
<1>2. QED BY <1>1, IInvHolds, PTL DEF Spec, LostOnlyAtTheEnd

\* An agent outlives the process only where Stop could not find it: it was just
\* starting, its session was not in the map, or its manager not there yet; or
\* where main left because of another bot.
THEOREM OutlivedOnlySo == Spec => []OutlivedOnlyIfOverlooked
<1>1. IInv => OutlivedOnlyIfOverlooked
  <2> SUFFICES ASSUME IInv, NEW b \in Bots, main = "exited", child[b] = "running"
               PROVE  \/ <<b, "agent">> \in overlooked
                      \/ <<b, "session">> \in overlooked
                      \/ <<b, "manager">> \in overlooked
                      \/ status = "error" /\ mgr[b] # "stopped"
    BY DEF OutlivedOnlyIfOverlooked
  <2>1. BotInv(b) /\ status \in {"ok", "error"} /\ (status = "ok" => AllStopped)
    BY DEF IInv, Types, ExitInv
  <2>2. mgr[b] = "stopped" =>
            <<b, "agent">> \in overlooked \/ <<b, "session">> \in overlooked
    BY <2>1 DEF BotInv, StoppedLeavesNone
  <2>3. CASE AllStopped
    BY <2>1, <2>2, <2>3, BotsAssumption
       DEF AllStopped, BotInv, PassedStopped, IInv, Types, Bots
  <2>4. QED BY <2>1, <2>2, <2>3
<1>2. QED BY <1>1, IInvHolds, PTL

\* When main ends well it has stopped every manager that it could find.
THEOREM GracefulStop == Spec => []GracefulStopsAll
<1>1. IInv => GracefulStopsAll
  <2> SUFFICES ASSUME IInv, status = "ok", NEW b \in Bots
               PROVE  mgr[b] \in {"none", "stopped"} \/ <<b, "manager">> \in overlooked
    BY DEF GracefulStopsAll
  <2>1. PassedStopped(b) /\ stopping.bot > NumBots
    BY DEF IInv, ExitInv, AllStopped, BotInv
  <2>2. stopping.bot \in Nat /\ NumBots \in Nat /\ b \in 1 .. NumBots
    BY BotsAssumption DEF IInv, Types, Bots
  <2>3. stopping.bot > b
    BY <2>1, <2>2
  <2>4. QED BY <2>1, <2>3 DEF PassedStopped
<1>2. QED BY <1>1, IInvHolds, PTL
=============================================================================
