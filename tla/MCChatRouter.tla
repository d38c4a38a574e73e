----------------------------- MODULE MCChatRouter -----------------------------
(***************************************************************************)
(* Instances of ChatRouter for TLC.                                        *)
(***************************************************************************)
EXTENDS ChatRouter, TLC

\* Conversations and commands while the manager is not being stopped.
NextChat ==
    \/ \E k \in Keys : Handler(k)
    \/ \E r \in routing : RouteDownloads(r) \/ RouteEnqueues(r)
    \/ \E u \in using : UseSwitches(u)
    \/ \E r \in removing : ClearRemoves(r) \/ RemovalErases(r) \/ RemovalWipes(r)
    \/ Sweep \/ RouterEnds
    \/ /\ \/ \E s \in Sids, m \in Msgs : Send(s, m)
          \/ \E s \in Sids : Consumer(s)
          \/ Start \/ Tick
       /\ UNCHANGED routerVars

SpecChat == RouterInit /\ [][NextChat]_allVars

\* A view for properties of what the code acts on: no guard and no other variable
\* depends on what users and agents were told.
WithoutReports ==
    <<managerVars, seen, objectVars, queue, pc, cur, buf, injected, sending, erasing,
      to, enqueuedAt, storeVars, envVars, default, routeVars, media>>
=============================================================================
