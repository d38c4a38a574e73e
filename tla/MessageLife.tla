----------------------------- MODULE MessageLife -----------------------------
(***************************************************************************)
(* What the session manager promises about one user message, with no       *)
(* session, queue or goroutine in it: a message is offered once, waits at  *)
(* most once, is given to an agent at most once, and every reply to it     *)
(* belongs to the stage the message is in.  A message told to be retried   *)
(* ("busy", "timeout") has had no other reply and never reaches an agent.  *)
(* A message may also be dropped without a word: at a cancellation, a      *)
(* replacement of its session, a shutdown or a crash, several at once.     *)
(***************************************************************************)
CONSTANT Msgs

VARIABLES stage, replied

lifeVars == <<stage, replied>>

Stages == {"new", "offered", "queued", "working", "settled"}

LifeInit ==
    /\ stage = [m \in Msgs |-> "new"]
    /\ replied = [m \in Msgs |-> {}]

Move(m, from, dest) ==
    /\ stage[m] = from
    /\ stage' = [stage EXCEPT ![m] = dest]

Tell(m, kinds) == replied' = [replied EXCEPT ![m] = @ \cup kinds]

Offer(m)  == Move(m, "new", "offered") /\ UNCHANGED replied
Refuse(m) == Move(m, "new", "settled") /\ UNCHANGED replied
Accept(m) == Move(m, "offered", "queued") /\ UNCHANGED replied
Busy(m)   == Move(m, "offered", "settled") /\ Tell(m, {"busy"})
Expire(m) == Move(m, "queued", "settled") /\ Tell(m, {"timeout"})
Take(m)   == Move(m, "queued", "working") /\ UNCHANGED replied

Stream(m) == stage[m] = "working" /\ Tell(m, {"text"}) /\ UNCHANGED stage

\* The end of the agent's work: at most one notice beside the text.
Finish(m) ==
    /\ Move(m, "working", "settled")
    /\ \E text \in SUBSET {"text"},
         notice \in {{}, {"cancelled"}, {"refusal"}, {"error"}} :
            Tell(m, text \cup notice)

Drop(ms) ==
    /\ \A m \in ms : stage[m] \in {"offered", "queued", "working"}
    /\ stage' = [m \in Msgs |-> IF m \in ms THEN "settled" ELSE stage[m]]
    /\ UNCHANGED replied

LifeNext ==
    \/ \E m \in Msgs : \/ Offer(m) \/ Refuse(m) \/ Accept(m) \/ Busy(m)
                       \/ Expire(m) \/ Take(m) \/ Stream(m) \/ Finish(m)
    \/ \E ms \in SUBSET Msgs : Drop(ms)

LifeSpec == LifeInit /\ [][LifeNext]_lifeVars
=============================================================================
