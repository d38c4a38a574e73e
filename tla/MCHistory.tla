------------------------------ MODULE MCHistory ------------------------------
(***************************************************************************)
(* SessionManager with one variable added: the messages that had arrived   *)
(* for a key when the log of that key was last erased.  The user has been  *)
(* told that they are gone.                                                *)
(***************************************************************************)
EXTENDS SessionManager, TLC

VARIABLE forgotten

historyVars == <<vars, forgotten>>

UserSymmetry == Permutations(Msgs)

InitHistory == Init /\ forgotten = {}

Talk(k) ==
    \/ \E m \in Msgs : \/ EnqueueExisting(k, m)
                       \/ \E a \in Registry : EnqueueNew(k, m, a)
    \/ RemoveSession(k)

NextHistory ==
    \/ \E k \in Keys : /\ EraseMessages(k)
                       /\ forgotten' = forgotten \cup {m \in Msgs : to[m] = k}
    \/ /\ \/ \E k \in Keys : Talk(k)
          \/ \E s \in Sids, m \in Msgs : Send(s, m)
          \/ \E s \in Sids : Consumer(s)
          \/ CleanupIdle \/ Start \/ ProcessEnds \/ Tick
       /\ UNCHANGED forgotten

SpecHistory == InitHistory /\ [][NextHistory]_historyVars

\* A reply in a user's history stands behind the question it answers, even
\* when the process ended between the two statements that store them; only an
\* erasure between the two can part them.
ReplyFollowsQuestion ==
    \A k \in Keys : \A i \in DOMAIN log[k] :
        (log[k][i].role = "assistant" /\ log[k][i].msg \notin forgotten) =>
            \E j \in 1 .. i - 1 : log[k][j] = [role |-> "user", msg |-> log[k][i].msg]

\* "RemoveSession ... deletes its messages ... from store", and the user reads
\* that the history is deleted.  Violated: the consumer of the removed session
\* is still in Prompt, comes back with a result and stores the exchange.
ForgottenStaysForgotten ==
    \A k \in Keys, m \in forgotten : ~Mentions(log[k], m)
=============================================================================
