------------------------------ MODULE MCSwitch ------------------------------
(***************************************************************************)
(* ChatRouter with one variable added: the messages that were in a user's  *)
(* history when /use replaced their session.  The user reads that the      *)
(* history is cleared, unless there was no session to replace.             *)
(***************************************************************************)
EXTENDS ChatRouter

VARIABLE cleared

switchVars == <<allVars, cleared>>

InitSwitch == RouterInit /\ cleared = [k \in Keys |-> {}]

NextSwitch ==
    \/ \E u \in using :
        /\ UseSwitches(u)
        /\ cleared' = [cleared EXCEPT ![u.key] =
                         IF u.from = None THEN @
                         ELSE @ \cup {m \in Msgs : Mentions(log[u.key], m)}]
    \/ /\ \/ \E k \in Keys, m \in Msgs : RouteLooksUp(k, m)
          \/ \E k \in Keys, a \in Registry : UseCompares(k, a)
          \/ \E r \in routing : RouteEnqueues(r)
          \/ ManagerStep
       /\ UNCHANGED cleared

SpecSwitch == InitSwitch /\ [][NextSwitch]_switchVars

\* After "the conversation history is cleared" no agent of this user is given
\* an earlier message as history.  Violated: SwitchAgent deletes no message,
\* and the first prompt of the new session carries the old conversation.
SwitchedStartsFresh ==
    \A k \in Keys : sessions[k] # NoSession =>
        \A m \in cleared[k] : ~Mentions(context[sessions[k]], m)
=============================================================================
