---------------------------- MODULE SessionStore ----------------------------
(***************************************************************************)
(* The SQLite store of internal/session/store.go: one row per session key  *)
(* and one append-only message log per key.  Each statement of the code is *)
(* a pure operator on the table it writes, so that a caller composes the   *)
(* statements it executes into one step, or into several when other        *)
(* goroutines can run in between.                                          *)
(*                                                                         *)
(* Content is abstracted to the identity of the user message an entry      *)
(* belongs to: the entry of role "user" is that message, the entry of role *)
(* "assistant" is the reply to it.  A log is kept in insertion order: the  *)
(* index on (session_key, created_at) ends in the rowid, so two entries of *)
(* one millisecond keep their order in LoadRecentMessages.                 *)
(***************************************************************************)
EXTENDS Integers, Sequences

CONSTANTS
    Keys,          \* session keys, one per user ("u:" plus the user id)
    Agents,        \* agent ids
    Msgs,          \* incoming user messages
    HistoryLimit,  \* ManagerOpts.HistoryLimit
    MaxAge         \* what Start passes to DeleteExpiredSessions (7 days)

ASSUME HistoryLimitAssumption == HistoryLimit \in Int
ASSUME MaxAgeAssumption == MaxAge \in Nat

States == {"active", "suspended"}
Roles  == {"user", "assistant"}

\* A key with no row in the sessions table.
NoRow == [state |-> "absent"]

Rows    == [state : States, agent : Agents, lastActivity : Nat] \cup {NoRow}
Entries == [role : Roles, msg : Msgs]

StoreTypeOK(rows, log) ==
    /\ rows \in [Keys -> Rows]
    /\ log \in [Keys -> Seq(Entries)]

-----------------------------------------------------------------------------
(* Statements on the sessions table. *)

\* Mutant: an insert without the conflict clause, its error ignored.
InsertSession(rows, k, st, a, t) ==
    IF rows[k] # NoRow THEN rows
    ELSE [rows EXCEPT ![k] = [state |-> st, agent |-> a, lastActivity |-> t]]

UpsertSession(rows, k, st, a, t) ==
    [rows EXCEPT ![k] = [state |-> st, agent |-> a, lastActivity |-> t]]

\* UPDATE ... WHERE key = ? touches nothing when the key has no row.
UpdateActivity(rows, k, t) ==
    IF rows[k] = NoRow THEN rows
    ELSE [rows EXCEPT ![k] = [@ EXCEPT !.lastActivity = t]]

\* UpdateState executed once for every key of ks.
UpdateStates(rows, ks, st) ==
    [k \in Keys |->
        IF k \in ks /\ rows[k] # NoRow
        THEN [rows[k] EXCEPT !.state = st]
        ELSE rows[k]]

ListActiveSessions(rows) == {k \in Keys : rows[k].state = "active"}

-----------------------------------------------------------------------------
(* Statements on the session_messages table. *)

\* Mutant: the newest entry comes first.
PrependMessage(log, k, role, m) ==
    [log EXCEPT ![k] = <<[role |-> role, msg |-> m]>> \o @]

AppendMessage(log, k, role, m) ==
    [log EXCEPT ![k] = Append(@, [role |-> role, msg |-> m])]

\* formatHistory replaces a limit that is not positive by 20.
EffectiveLimit == IF HistoryLimit <= 0 THEN 20 ELSE HistoryLimit

\* Mutant: the condition on the key is missing.
LoadAnyMessages(log, k) ==
    IF \E j \in Keys : log[j] # << >> THEN log[CHOOSE j \in Keys : log[j] # << >>]
    ELSE << >>

\* The newest entries of the key, oldest of them first.
LoadRecentMessages(log, k) ==
    LET n == Len(log[k])
    IN  IF n <= EffectiveLimit THEN log[k]
        ELSE SubSeq(log[k], n - EffectiveLimit + 1, n)

DeleteMessages(log, k) == [log EXCEPT ![k] = << >>]

-----------------------------------------------------------------------------
(* DeleteExpiredSessions: the keys it deletes, from both tables. *)

\* Mutant: the age is not subtracted.
ExpiredAtOnce(rows, t) ==
    {k \in Keys : rows[k].state = "suspended" /\ rows[k].lastActivity < t}

ExpiredKeys(rows, t) ==
    {k \in Keys : /\ rows[k].state = "suspended"
                  /\ rows[k].lastActivity < t - MaxAge}

DeleteRows(rows, ks) == [k \in Keys |-> IF k \in ks THEN NoRow ELSE rows[k]]

DeleteLogs(log, ks) == [k \in Keys |-> IF k \in ks THEN << >> ELSE log[k]]
=============================================================================
