# Verification of wechat-router-go

wechat-router-go connects WeChat users to command line AI agents: a message of a user goes to
the user's session, the session's agent is run with it, and what the agent writes is sent back
while it is written. This directory models the parts of it that keep state, checks them with
TLC on small instances and proves the most important properties with TLAPS.

    tlc -workers 2 -config MCChatRouter_chat.cfg MCChatRouter
    tlapm SessionManager_proofs.tla

## The system

    WeChat --> ChatRouter --> Manager --> consumer goroutine --> Backend --> child process
    web UI ---------------->    |              |  ^                |
                                v              v  +---- text ------+
                              Store        StreamBuffer --> Bridge.sendReply --> WeChat

| Component | State | Operations | Correct when |
|---|---|---|---|
| **Session manager** (`internal/session/manager.go`) | the map from user to `UserSession`, each with a bounded queue, an agent, a context and a consumer goroutine | `Enqueue`, `SwitchAgent`, `CancelSession`, `RemoveSession`, idle cleanup, eviction, `Start`, `Stop`, the consumer loop | nothing of one user reaches another; a message lives one life; the map names live sessions only; a session seen with waiting messages is not taken away for others; consumers end when told to |
| **Session store** (`internal/session/store.go`) | two SQLite tables, sessions and messages | upsert, activity and state updates, append, load, delete, expiry | what is stored survives a crash; rows agree with the map; replies stand behind questions |
| **Stream buffer** (`internal/session/streambuf.go`) | text not yet sent, text sent | `Write`, `Flush`, `AllText` | text is sent once, in order, in segments that fit; blocks of code and characters stay whole |
| **Agent backends** (`internal/agent/`) | the running command, Claude's session id | `Prompt`, `Kill`, beside the child process, its pipe and the watcher of `exec.CommandContext` | a killed prompt returns; the answer is complete; one conversation is continued |
| **Chat router** (`internal/router/`) | the handlers under way | `Route` with the choice of the agent and the download of media, `/use`, `/status`, `/clear`, `/cancel`: each checks and acts on the manager in separate locked sections | a user's session has the agent the user was told of; files are there while messages need them; commands do what they report |
| **Bridge** (`internal/bridge/bridge.go`) | bot, manager, store, web server | `Run`, `Stop` beside it, `sendReply` in messages and files | no agent is asked while the store is closed; what is lost, is lost at the end only; a reply arrives whole |
| **Web server** (`internal/web/`) | the server, requests in work | lists sessions, deletes one, is shut down | a deletion is one of the manager's removals; a slow request does not hold the process |
| **Message adapter** (`internal/adapter/`) | files on disk | splitting, extraction of long code blocks, formatting, media | all of a reply is in its messages and files, in order, within the limits |
| **Command line** (`cmd/`) | bridges, `errCh` | start of all bots, the select over signal and results, the shutdown | a signal or the end of a bot ends the process; who is left behind is known |
| **Configuration** (`internal/config/`) | a parsed file | load, defaults, presets | - |

What is hard here: every message handler, every consumer, the cleanup ticker, the web server and
`Stop` are goroutines of their own, and most of them drop the manager's lock between looking
something up and using it. A session object that was replaced lives on beside its successor until
its goroutine notices. Agents are foreign processes that stream, hang, fail half way, leave
processes behind and are killed at any moment. The process may end between any two statements of
the store. `hazards` in `PROJECT.json` lists these places line by line, with the property that
covers each or the reason none does.

## Modules

| Module | What it is |
|---|---|
| `SessionStore` | the two tables as functions, one operator per SQL statement |
| `SessionManager` | the manager over the store: one action per operation, handler or statement |
| `MessageLife` | abstract: the life of one message, without sessions, queues or goroutines |
| `MCSessionManager`, `MCHistory` | instances for TLC; `MCHistory` adds the variable `forgotten` |
| `BackendContract` | abstract: what the manager takes for granted of a `Backend` |
| `AgentBackend` | the three command line backends beside their child process |
| `StreamBuffer` | the stream buffer on sequences of bytes |
| `Delivery`, `MCDelivery` | what `sendReply` and the adapter make of the buffer's segments, composed with `StreamBuffer`; its instance, with the variable `topic`: what an agent writes |
| `ChatRouter` | the handlers of the router and the web server's DELETE, composed with `SessionManager` |
| `MCChatRouter`, `MCSwitch` | instances of `ChatRouter`; `MCSwitch` adds the variable `cleared` |
| `Process` | the process: `runStart`, `Bridge.Run` and `Stop` of each bot, the web servers |
| `SessionManager_proofs` | theorems about the manager: its types, its map, and who makes way for others |
| `Messages_proofs` | theorems about its messages: whose they are, where they are, the life they live |
| `History_proofs` | theorems about the stored history |
| `ChatRouter_proofs` | the composition implements `SessionManager`; theorems about the callers |
| `AgentBackend_proofs`, `Process_proofs` | theorems about the backends and about the process |
| `Delivery_proofs` | theorems about the stream buffer and the messages `sendReply` makes of its segments |
| `Reply_proofs` | the theorem that a reply arrives whole |

### SessionManager and SessionStore

*State.* A `UserSession` object is a number, given in creation order and never reused, because an
object and its goroutine survive their place in the map; `sessions` is the map, the functions
`key`, `agent`, `queue`, `cancelled`, `lastActivity`, `injected` are the fields. `pc` and `cur` are
the consumer's place and message. `sending` holds the calls of `Enqueue` that have dropped the lock
and not yet sent to the channel, `erasing` those of `RemoveSession` that have not yet deleted the
messages. `rows` and `log` are the tables.

*Atomicity.* What the code does under `m.mu` is one action; each statement on the store outside
the lock is one (`StoreUser`, `StoreReply`, `Touch`, `EraseMessages`); the channel send of `Enqueue`
is one (`Send`), and so is each turn of the consumer's `select`. When several cases of the select
are ready any of them may be taken, as in Go: a cancelled consumer may still take messages.
A tie between equally old sessions is resolved by the map's order, that is, in any way.

The lock does not cover the channels, nor the store of `lastActivity` after a prompt. Eviction and
idle cleanup look at one session after the other, and between two looks a message may be sent or
taken and a time may change. The variable `seen` has, for each key, what its session was at every
moment since the lock was last held, that is, all that the section about to end may have read:
every locked action begins it anew (`Locked`), every change without the lock adds to it
(`Unlocked`). A section is one step, at its last cancellation, and what others do between its reads
are the steps before it; so a message may arrive after the queue was found empty and go with the
session. `Turns` is one turn of `evictOldestLocked`, in which the queue is looked at and
`lastActivity` is loaded twice; `Passes` is the loop over the map in any order, with any such turns,
and `Better` and `OldestOf` choose. `Idle` and `IdleSets` do the same for the cleanup, whose clock
was read before it waited for the lock. The moments of the reads of one session are in order; those
of different sessions are chosen independently of each other, which allows all that the code can
read and, perhaps, combinations that it cannot. The properties about who is evicted therefore speak of
what was seen, and hold of the code's reads among others.

*Abstractions.* A message is a model value, with the user it came from in `to` (its context
token). Its text is not modelled, and the stream buffer is three states: empty, holding text, text
sent; `StreamBuffer` has the rest. Times are small naturals. The statements of the store succeed:
the manager ignores their errors.

*Outside.* `PromptReturns` and `PromptFails` are what an agent may do, as `BackendContract` says.
Users send messages and commands in any order. By itself the module does not assume the guards of
the router: every call the router and the web server can make is made in every state, and more.
`ChatRouter` adds those guards, and `RouterUsesManager` proves that its steps are steps of the
manager.

### ChatRouter

A handler of the bot is a goroutine; the bot runs `MaxRoutes` of them at a time. What a handler
has read in one locked section of the manager, and uses in a later one, is a record: `routing` for
`Route` (the agent, and the file that is awaited, saved or failed), `using` for `handleUse` (the
agent compared with), `removing` for `RemoveSession` (checked, to erase, to wipe the files).
`RouteLooksUp` is the choice of the agent, `RouteDownloads` the return of `DownloadAndSave`, and
`RouteEnqueues` the locked part of `Enqueue`, which uses the agent only if the key has no session;
its channel send is `Send` of the manager. `restoreAgentFromStore` returns no agent, whatever the
store holds, and so the agent is the session's or the default one. `RemovalErases` and
`RemovalWipes` are the two ends of `RemoveSession`, for `/clear` and for DELETE alike; DELETE takes
any key. `Sweep` is the idle cleanup with the files it removes. `media` is what is on disk per user,
a message standing for its file. Replies are sent after the locked sections they report of;
`chosen` and `held` are set with those sections, so a property about what the user was told speaks
of the order of the sections, not of the order in which two replies may arrive.

### Process

`run` follows `Bridge.Run` of each bot: Login, OpenStore and the manager (one step, `Opens`: others
see the manager only), the web server, the long poll, the two sections of `Manager.Stop`, the
deferred `Close`, the report on `errCh`. `main` is the select, and `stopping` the place of the
shutdown in the loop over the bridges and in `Bridge.Stop`, which runs beside `Run` and may find no
manager yet. A consumer and its agent are what a shutdown can meet: started but not yet visible to
`Kill`, in a prompt, with a result or a question stored. `session` is where its session is:
in the manager's map, where alone `Manager.Stop` looks for agents to kill; removed from it with its
context done (`Removed`: replaced, evicted, cleaned up or deleted, with a `Kill` that finds the
agent only once it is published); or dropped from it with its context alive (`Dropped`, the late
delete of the `orphan` run). `overlooked` remembers what a `Stop` did not reach: a manager that was
not there, an agent that was starting, a session outside the map. Login and the long poll are library code and return when they like. One exchange and one
web request of a bot are in work at a time. Every goroutine ends with `main`; agents do not.

### Delivery

`Write` and `Flush` hand a segment to `sendReply` and wait: `pending` is what is still to be sent,
`chat` what was sent, arrived or not. `Extract`, `FormatForWeChat` and `SplitText` are operators on
the bytes of `StreamBuffer`, with all of the regular expressions: `Matches` is what
`ReplaceAllString` finds, leftmost first and without overlap, and one operator for each kind of
expression says where a match ends and which characters of it go (`PictureMarks`, `Links`,
`EmphasisMarks`, `HeadingMarks`, `ThirdBreak`). The placeholder of a file is two brackets with the
file and the underscore of its name between them: the formatting takes these for marks of the text,
and may strip them; and a placeholder that is cut in two by `SplitText` is noticed. `[]rune` makes one symbol of a whole wide character and "bad" of
half of one. A piece that fails to arrive is logged, up to `MaxFailures` in a reply. The loops of
`Extract` and `SplitText` are recursive functions over their turns, of which there are no more than
the text has places. `MaxRunes` is at least two (it is 4000): with one, a message could be a line
break and nothing else.

### AgentBackend and BackendContract

One backend serves one session. `pc` follows `Prompt` through `Call` (the command is built),
`Start`, `Publish` (`b.cmd` is set: only now can `Kill` find it), the reading of lines and `Wait`.
The child writes lines to a pipe with room for `PipeSize`, may close its output, may start a
process that inherits it, and ends, well or badly, whenever it likes. `Kill` reads `b.cmd` in one
step and signals in another. The watcher of `exec.CommandContext` kills the child when the context
is done. A line is what the code distinguishes: a session id, a text, a result, something to be
skipped, or a line longer than the scanner's buffer. The generic backend collects the output in a
buffer that a goroutine of `exec.Cmd` fills (`Copy`). `resultText` and `stdoutBuf` are counts of
pieces of text.

The contract: one prompt at a time, an agent is started only under a live context, text only
while it runs, and a prompt that fails has shown nothing. The manager needs the last because it
drops its buffer on an error without flushing it. Any result may say "cancelled", which the manager
passes on to the user ("[cancelled]") and then stores as any other: Claude's result line has a stop
reason of the child's choosing. `CancelledOnlySo` says who may say it.

### StreamBuffer

A text is a sequence of bytes: line breaks, other white space, backquotes, the two bytes of a wide
character, the marks that the formatting of `Delivery` looks for, and others. Each turn of the loop in `Write` is a step, though no one sees the
states between them. `findSplitPoint` is the predicate `SplitsAt`; `splitAt <= 0` never happens,
because the region is not empty, and TLC would report a `Write` that is stuck as a deadlock.
`strings.Count` of fences counts every third backquote of a run.

## The runs

| Run | Question | Instance |
|---|---|---|
| `all` | Does the map name live sessions only, does the store agree with it, and are files kept, whatever is interleaved? | one user, one message with a picture, two session objects, two agents and a default one, times 0 to 2, one handler and one web request at a time |
| `chat` | Is a user's agent the one they were told? | the same without the picture, two handlers at a time, no default agent, a known one or one without a factory, one end of the process, no time and no `Stop` |
| `room` | Who is evicted or suspended, who never is, when is the limit exceeded, do users stay apart? | three users with room for two, two messages, three objects, times 0 to 2 |
| `live` | Do cancelled consumers end, does `Stop` leave none behind, do queues drain, does each message live one life? | one user, two messages, two objects, no symmetry |
| `history` | What of the history survives crashes, restarts, expiry and erasure? | one user, two messages, two objects, times 0 to 2, one crash |
| `orphan` | Is a running session always the one in the map? **No** | |
| `clear` | Does a cleared history stay cleared? **No** | |
| `use` | Does the agent after `/use` start without the old history? **No** | two messages, two objects |
| `backend` | Is a backend what the manager takes it for, is its answer complete, does it return when killed? | each kind, two prompts, three lines of output, a pipe of two, two ids |
| `delivery` | Is all text given to the bridge, once, in order, in segments that fit, and what becomes of it? | three topics, threshold 6, messages of three characters, blocks of more than one line as files, one piece that fails: text, spaces and fences in chunks of up to three characters, up to eleven bytes; blocks of code, up to sixteen; and pictures, links, emphasis, headings and a long block, up to eleven |
| `runes` | Are characters kept whole? **No** | threshold 7, ten bytes |
| `process` | When is the store closed, who is left behind, does the process end? | two bots, the first with a web server and a request, the second with an exchange |

*Why the bounds are enough.* The manager's interesting situations need two objects under one key
(a replaced one and its successor), two messages of one user (one in work, one waiting, with a
queue of one: full), another user to be mixed up with or evicted for, and, for age, an object that
is older than another and a limit that is passed. The runs have these and not all of them at once:
`all` has every operation with one user, one message and time, `live` two messages of one user,
`room` three users and time, `history` time and crashes. A queue of one is enough for all that a
queue does here: it is empty, full, or drained in order. The races of the router are between a
handler that has looked something up and one other handler, request, cleanup or restart: two
handlers at a time have them all, and the theorems have any number. A third line lets output fill a
pipe of two, and a second prompt is resumed from the first. In `room`, two sessions are compared
while messages arrive, are taken and are answered, and an agent without a factory is asked for.
Eleven bytes are two segments and a rest at a threshold of six, cut at every place relative to a
fence, a line break or a wide character, and three messages. A block of code is held back to the
end, so that sixteen bytes are a segment with two blocks, long or short, and what is around them;
and eleven are a long block with an address or a mark of emphasis behind its placeholder, or a link,
a picture or a heading beside two marks. `ReplyRebuilt` and `MessagesFit` are about what is
made of each segment by itself, so that longer replies add segments and no cases. With two bots, one is stopped before, while and after the other fails, and
both could want the web address; the second never does, so that a server that fails to listen is
left to the proofs.

*Deadlock* is checked except in `room`, `orphan` and `use`, where the system stops when messages
and session objects are used up, in `backend`, when the prompts are over, and in `process`, when
the process has ended. *Symmetry* of users, messages and agents is used where no liveness is checked.
The *view* of `all` leaves out `chosen`, `held`, `replied` and `context`, what users and agents were
told, which no guard and no property of that run reads.
`live` leaves out the cleanup, the clock and the end of the process, which only end what could wait.

### The properties

Of the manager: `MappedIsLive` (who cancels a session must remove its entry in the same locked
section), `MappedIsStoredActive`, `UsersIsolated`, `ImplementsLife` (a refinement of `MessageLife`:
offered, queued and prompted at most once, and no reply that does not belong to the stage),
`RejectedLeavesNoTrace` ("send it again" is said of messages no agent has seen),
`HistoryDurable`, `ReplyFollowsQuestion`, `CancelledExits`, `StopQuiesces`, `QueueDrains`.

Of eviction and cleanup, whose reads are of several moments: `PendingSparedFromOthers` (a session
with waiting messages is ended by its user; or to make room, when its queue was seen empty; or as
idle, when those messages took longer from the locked part of `Enqueue` to the channel than the idle
timeout, since the cleanup cannot have read a `lastActivity` from before they came),
`OverLimitOnlyWhenAllBusy` (each session was seen busy, though perhaps never all at once), and
`EvictsLeastRecent` (a least recent one of those that were never seen busy, unless a prompt came back
while the sessions were compared).

Of the backends: `ImplementsContract` (a refinement), `AnswerComplete` (all text the agent wrote
was shown, whatever lines came between and however it ended, unless a line was too long),
`WedgedOnlyByLongLine` (after a line too long for the scanner nobody reads the pipe, the child
blocks on it and `Prompt` on the child, until the context is done), `OneConversation`,
`KilledReturns` (a process left behind that holds the output open is the one exception),
`CancelledOnlySo` ("cancelled" means that the context is done, or that Claude's child said so in its
result line and ended well).

Also of the backends, `UnshownOnlySo`: what a result has and the user was never shown is the text
of Claude's result line, or the output of a generic command that failed or was cancelled, and
nothing else.

Of the callers: `AgentAsTold` (sessions are lost to eviction, idleness, restarts and commands, and
created by whoever comes first, with an agent read long before; still it is the one last reported,
the default, or one that a handler had read before the report), `FilesKeptWhileNeeded` (the file of
a message that waits or is in work goes only with a removal that had already begun, or when the
prompt takes longer than the idle timeout: the cleanup judges by the last message, not by the work).

Of the process: `NoAnswerForNothing` and `LostOnlyAtTheEnd` (the store is closed behind the end of
all contexts, while consumers may still be storing; their errors are dropped, and only after the
process was told to stop, the bot failed or main stopped it), `OutlivedOnlyIfOverlooked` (the four
ways in which an agent is left behind: it was starting, its session was not in the map, its manager
was not there yet, another bot had failed), `GracefulStopsAll`, `SignalEnds`, `ReturnEnds`.

Of the delivery: `ReplyRebuilt`, in three parts: a reader who puts each extracted file in its
placeholder has the segment; what the stripping of Markdown leaves of the extracted segments is in
the messages, white space apart, in order and once; and the files are all sent, in order. And
`MessagesFit`: within the limit, and never of line breaks alone, which holds only because no more than
two line breaks follow one another when `SplitText` cuts. A message of other white space alone there
may be: where a line of spaces is followed by a long line, `SplitText` cuts before the long line.

Of the stream buffer: `NothingLost` (also of what `AllText` gives for the history), `SegmentsFit`,
`TurnsShorten`, and `HeldIsFinal`: the search for an open block looks at
the first `threshold` bytes, which do not change while text is held back, so that once the buffer
has waited for a block of code to be closed nothing more is sent until the agent is done, however
long it goes on after the block.

### Fairness

Assumed of goroutines that can run: a consumer takes its turns, a caller that has dropped the lock
goes on, `Stop` gets the lock, the scanner and the copier read, the watcher of a context kills.
Go's scheduler and mutexes justify this. Nothing is assumed of users, of the clock, of crashes, or
of an agent under a live context: it may be silent for ever, and `QueueDrains` therefore assumes
that prompts end. The fairness of `SessionManager` has a prompt return once its context is done.
`KilledReturns` shows when that is justified: `exec.CommandContext` kills the child, and `Prompt`
returns unless a process the agent left behind keeps its output open. Such a process is a gap: a
consumer and a shutdown may then wait for it.

Of the process: `main` and the goroutines of `Run` take their steps, and `Shutdown` gives up after
its timeout, which is why `StopsWaiting` needs no answer. Nothing is assumed of signals, agents,
requests, Login or the long poll: `SignalEnds` and `ReturnEnds` hold though all of them hang.

## The theorems

All hold for any number of users, messages, sessions and agents, any limits, any pipe, any
threshold and any text; the only assumptions are the named ones on the constants.

* `TypeCorrect` (manager): `TypeOK`, with every queue within its channel's capacity. The invariant
  proved adds `CreatedInOrder` (objects not created yet own nothing and are nowhere) and
  `WorkingOnMessage` (a goroutine has a message exactly while it processes one): without them the
  actions that take the message from `cur` or the session from `sending` could leave the types.
* `MapIsLive`, `MapIsStored`: the inductive invariant adds that an object not yet created has not
  been cancelled, since it would be put into the map cancelled, and that the map is empty while
  the process is down, since nothing runs then. The hard case is a new session: what is evicted
  leaves the map in the step that cancels it, and objects in the map are pairwise different.
* `UsersStayIsolated`: the argument follows ownership. An object has one key for life; a message
  has one sender; a message in a queue, in work, in `sending`, in a stored history or in the
  history put before a prompt is owned by the key of the place it is in, and every action moves it
  to a place of the same key.
* `ManagerImplementsLife`: every step of the manager is a step of `MessageLife` or leaves every
  message where it is in its life. The stage of a message is read off the places that hold it, so
  the argument rests on the invariant that a message is in one place at most: one call of `Enqueue`,
  one position of one queue, or one consumer. Each action moves one message from one place to the
  next; what a cancelled or removed session leaves in its queue has nobody who can take it up.
* `RejectedIsUnseen`: a message is rejected on its arrival, out of `sending` or, past its deadline,
  out of the queue. The same invariant adds that what waits in these places has no reply and no
  trace in a history, a prompt or the log (`WaitingUntouched`), so that, being nowhere else, it never
  gets one (`RejectedAlone`).
* `HistoryIsDurable`, and `RepliesFollowQuestions` of `MCHistory`: the log of a key only grows at its
  end, but for an erasure or the expiry, and the expiry comes with a start, before which no
  goroutine runs (`DownRunsNothing`). A consumer about to store a reply has stored the question,
  unless the history was erased in between (`StoringIsAsked`), and the question keeps its place when
  something is appended behind it.
* `OverLimitIsBusy`, `LeastRecentIsEvicted`: a creation evicts from the map without the entry it
  replaces, so the facts about it are stated once, for `EnqueueNew` and `SwitchAgent`. The choice is
  a loop whose turns read what they may: `Found` is its invariant (what has been found was seen idle,
  nothing was found only if everybody was seen busy, and, if no activity changed, no one seen idle up
  to here had gone longer without), and `VictimFacts` what follows for the evicted. That `seen` has at
  least what a session is now (`CurrentSeen`) relates what was read to the state in which the
  section ends; that the map is full rests on the cardinality of its domain.
* `PendingIsSpared`: the invariant `ActiveSince` (a message that a session holds arrived no later
  than the session's last activity, which is not in the future) ties the age of a message to that of
  its session; `ReadingsSince` says it of every activity that a section may have read, since without
  the lock no session comes to hold a message it did not (`NextHolds`): a message on its way to the
  channel is already held.
* `RouterUsesManager`: `RouterSpec => Spec`. `SessionsHaveToldAgent` needs that handlers on their
  way to `Enqueue` carry only agents that are accounted for (`RoutesAccounted`): told, the default,
  or held when the user was told. `FilesAreKept` splits on who deletes: a removal has begun, and a
  cleanup takes only sessions idle for longer than the timeout, so that by `ActiveSince` the message
  in work is at least as old; a queue that is not empty is not idle. `RouterTypeCorrect` comes along.
* `Process_proofs`: the invariant has, for each bot, how manager and store follow `Run`
  (`FollowsRun`), that `Run` passes the long poll only for a reason (`EndsForReason`), that a child
  belongs to a prompt of a manager (`ChildHasPrompt`), that a stopped manager has left no agent but
  one that it overlooked (`StoppedLeavesNone`), and that a bridge main has passed is stopped or was
  overlooked. The capacity of `errCh` is a count: there are at most as many reports as calls
  of `Run` that have returned.
* `BackendsKeepContract`: `AgentBackend` implements `BackendContract`, step by step. The invariant
  relates what was shown to what was collected (`ShownIsCollected`), so that an error without text
  is one that showed nothing. `ConversationKept`, `WedgedOnlySo`, `ShownUnlessSo`,
  `CancelledSo` and `TypeCorrect` come from the same invariant.
* `AnswersComplete`: until a line is too long, every text the child wrote is in the pipe or was taken
  by the reader (`TextsCounted`). The texts in the pipe are the cardinality of the set of their
  places, and lemmas say how it changes with the line that is written or read. A result comes
  when nothing is left in the pipe and nobody is left to write to it (`QuietPipe`).
* `SegmentsAlwaysFit`, `LoopEnds`, `HeldForGood`, `TypeCorrect` of the
  stream buffer. They rest on lemmas about `TrimSpace`, the region and the place of the cut, and
  on the existence of least elements, from the well-foundedness of the naturals.
* `NothingIsLost`: the visible text of a concatenation is the concatenation of the visible texts,
  and a segment differs from what was cut only by white space at its ends.
* `DeliveryUsesBuffer`: what is proved of the buffer holds in `Delivery`. `MessagesAlwaysFit`
  follows what the adapter makes of a segment: the extraction leaves a text (`ExtractType`), and so
  does the stripping, which only strikes characters out (`StrikeType`); the formatted text begins and
  ends with something that is not white space and has no three line breaks in a row
  (`FormatIsProper`); as characters it is the same in these respects (`RunesAreProper`); and a turn of
  the loop of `SplitText` makes a message that is not of line breaks alone and leaves a rest that
  begins with one line break at most (`ChopSplitsWell`), because the break at the cut is skipped.
* `ReplyIsRebuilt`, in three parts. That the files stand for the blocks they were taken from
  (`ExtractRebuilds`) is a fact about every text: the invariant of the extraction's loop is
  `Recovers`, that the text is a settled beginning, up to the last placeholder, from which the reader
  has all that it was, and bytes as the agent wrote them, with every fence behind the beginning; it
  would not hold if a turn could reach back over a placeholder (`NoFenceBefore`). No wide character
  is torn where a block is taken out, because blocks begin and end with backquotes (`BlockEnds`).
  That all messages and files are there is the invariant `Told`, which relates the pieces sent and
  still to be sent to the segments: `TellsFurther` adds a segment, and a piece that is sent, arrived
  or not, stays in its place (`SendPieceTold`). Of one segment, `PiecesShow` says that what the
  stripping leaves is in its messages: collapsing line breaks and trimming keep what a text shows
  (`ShownFormat`), and so does splitting (`ShownSplit`, with the invariant `Whole`): the messages and
  the rest show what the text showed, since only a line break is skipped at a cut
  (`VisibleSkipBreak`). What the stripping itself leaves is not characterised any further than by its
  definition, which the model checker runs.

*Induction over data.* The induction theorems of the library take an operator, which the provers
cannot instantiate. The proofs go around it with sets: the numbers for which a statement holds are
a set with 0 and with every successor of its members, and such a set is `Nat`, since otherwise what
it lacks would have a least element (`InductiveSet`, `LeastExists`). Recursive functions are shown
to exist in the same way, one turn at a time (`LoopRuns`, `JoinExists`), after which they have the
values that their definition says. `FoldExists` does it for the fold that the reader is, and
`AppendInduction` for texts, which grow by one byte.

Only model-checked: liveness under fairness, which the prover does not reach: `CancelledExits`,
`StopQuiesces`, `QueueDrains`, `KilledReturns`, `SignalEnds` and `ReturnEnds`. Every invariant and
every action property that a passing run checks is a theorem.

## Findings

* **orphan**: the exit of a consumer deletes the map entry of its key, whichever session the entry
  names. A late exit of a replaced session removes its replacement, which runs on outside the map:
  `/cancel` and `/use` no longer reach it, and the next message starts a third session.
* **clear**: a prompt that is in progress when the history is cleared returns "cancelled" and its
  exchange is stored after the erasure.
* **use**: `/use` tells the user that the history is cleared; the messages stay in the store, and
  the new agent is given them with its first prompt.
* **runes**: the threshold counts bytes; a long line of Chinese text is cut inside a character.

Observations, of behaviour the models have and no run refutes a text with:

* the text of Claude's result line, used when nothing was streamed, and the output of a generic
  command that fails are in the result only, which the manager does not send (`UnshownOnlySo` says
  that this is all);
* a block of code that opens and closes within the first `threshold` bytes is cut at a line of its
  own when no later line break is near, since only a block still open there is held back;
* `Stop` "terminates all sessions and agent processes" (manager.go:103), but kills only the published
  commands of the sessions in its map. An agent that is just starting, or whose session was dropped
  by the late delete of `orphan` or replaced before its command was published, is left to its
  context, which nobody watches once the process has ended (`OutlivedOnlyIfOverlooked` says that,
  beside two cases of a `Stop` that never came, this is all);
* `FormatForWeChat` "preserves code blocks" (outbound.go:22), but none of its expressions looks for
  fences: a comment in a block of code loses its sign, a program its asterisks;
* of the placeholder of an extracted file, the formatting may take the underscore, when another one
  follows on the line ("code_1.py" is then "code1.py"), and the brackets, when an address follows;
* `SplitText` may send a message of white space alone, where a line of spaces stands before a line
  longer than the limit;
* the extraction of long blocks ends at the first short one, and files are numbered from one in
  every segment;
* `/clear` without a live session deletes nothing, though the store may have a history; DELETE
  leaves the row of the session, which is then still listed;
* a default agent that is no preset has no factory: every message of a user without a session is
  dropped, with a line in the log;
* a bot that fails ends the process without stopping the others, so that their agents run on;
* a prompt that takes longer than the idle timeout is ended by the cleanup.

## Not modelled, and the plan

What the plan began with is built: the router and the web server over the manager, the bridge and
the process, the adapter over the stream buffer, and the proofs of all safety properties. What is
left, in order:

1. **Composition**: a manager over `BackendContract` with a stream buffer per prompt, instead of
   the three states of `buf`; several exchanges of a bot in `Process`.
2. **Several bots** that share a media directory, with one user at two of them.

Not modelled, and not planned: names of files, but for their underscore; the descriptions of
incoming messages; the parsing of commands; the pages and lists of the web server, which only read;
group triggers, which nothing calls. The statements of the store succeed, but for a closed store, in `Process`. The
daemon's second process and its PID file are used by the commands `stop` and `status` only; the
running program sees their signal, which is `Signal`.

Configuration is parsed once and its values are the constants here.
