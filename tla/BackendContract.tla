--------------------------- MODULE BackendContract ---------------------------
(***************************************************************************)
(* What the session manager takes for granted of agent.Backend: one Prompt *)
(* at a time; no text before the agent was started or after Prompt is      *)
(* over; an agent is started only under a live context; and a call that    *)
(* fails has shown nothing, so that the manager, which then drops what its *)
(* stream buffer still holds, loses nothing.  Any result may say           *)
(* "cancelled", whether the context is done or not.                        *)
(***************************************************************************)
EXTENDS Naturals

VARIABLES phase, done, shown, outcome

contractVars == <<phase, done, shown, outcome>>

Results == {"end", "error", "refusal", "cancelled"}

ContractInit == phase = "idle" /\ done = FALSE /\ shown = 0 /\ outcome = "none"

Call ==
    /\ phase = "idle"
    /\ phase' = "called" /\ shown' = 0 /\ outcome' = "none"
    /\ UNCHANGED done

Open ==
    /\ phase = "called" /\ ~done
    /\ phase' = "prompting"
    /\ UNCHANGED <<done, shown, outcome>>

Stream ==
    /\ phase = "prompting"
    /\ shown' > shown
    /\ UNCHANGED <<phase, done, outcome>>

Fail ==
    /\ phase # "idle" /\ shown = 0
    /\ phase' = "idle" /\ outcome' = "failed"
    /\ UNCHANGED <<done, shown>>

\* The last of the text may come with the result.
Return ==
    /\ phase = "prompting"
    /\ phase' = "idle"
    /\ outcome' \in Results
    /\ shown' >= shown
    /\ UNCHANGED done

Cancel == ~done /\ done' = TRUE /\ UNCHANGED <<phase, shown, outcome>>

ContractNext == Call \/ Open \/ Stream \/ Fail \/ Return \/ Cancel

ContractSpec == ContractInit /\ [][ContractNext]_contractVars
=============================================================================
