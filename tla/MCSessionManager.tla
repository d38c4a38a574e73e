-------------------------- MODULE MCSessionManager --------------------------
(***************************************************************************)
(* Instances of SessionManager for TLC.  A run that asks about one part of *)
(* the manager leaves out the operations that part does not depend on, to  *)
(* afford more users, sessions or time.                                    *)
(***************************************************************************)
EXTENDS SessionManager, TLC

UserSymmetry == Permutations(Keys) \cup Permutations(Msgs)
                    \cup Permutations(Registry)

Enqueues(k) ==
    \E m \in Msgs : \/ EnqueueExisting(k, m)
                    \/ \E a \in Registry : EnqueueNew(k, m, a)
                    \/ \E a \in Agents \ Registry : EnqueueUnknown(k, m, a)

Switches(k) == \E a \in Registry : SwitchAgent(k, a)

Sends == \E s \in Sids, m \in Msgs : Send(s, m)

\* Conversations: messages and commands of users, until the manager is stopped.
NextTalk ==
    \/ \E k \in Keys : Enqueues(k) \/ Switches(k) \/ CancelSession(k)
    \/ Sends
    \/ \E s \in Sids : Consumer(s)
    \/ Start \/ StopCancel \/ StopKill \/ Tick

SpecTalk == Init /\ [][NextTalk]_vars

\* Room: sessions come, go idle and make way for others; nobody leaves, and no
\* agent has anything to say.
NextRoom ==
    \/ \E k \in Keys : Enqueues(k) \/ Switches(k)
    \/ Sends
    \/ \E s \in Sids : LoopStep(s) \/ PromptEnds(s)
    \/ CleanupIdle \/ Start \/ Tick

SpecRoom == Init /\ [][NextRoom]_vars

\* Liveness: everything but the ends of idle sessions and of the process, which
\* only end what could wait.
NextLive ==
    \/ NextTalk
    \/ \E k \in Keys : RemoveSession(k) \/ EraseMessages(k)

SpecLive == Init /\ [][NextLive]_vars /\ Fairness
=============================================================================
