# BetterClaw in TLA+

BetterClaw is an event-driven agent runtime: channels (web, Discord, Tidepool)
hand messages to a runtime that runs a model and its tools, keeps everything it
did in a libSQL database, and distils memories and observations from what was
said. This directory holds TLA+ models of its concurrent core and of the edges
where it meets other programs, the TLC runs that check them on small instances,
and TLAPS proofs for every size.

Paths below are relative to the crate: `runtime/internal.rs` is
`src/src/runtime/internal.rs` of the repository. `PROJECT.json` maps every
definition to the lines it stands for.

## The system

| Component | State | Operations | Hard part |
|---|---|---|---|
| Provider gate and throttle (`runtime/throttle.rs`, `run_and_record_exchange`) | a FIFO mutex, `blocked_until`, `next_backoff` | look at the window, sleep, lock, look again, send, arm, reset | the window is read before the lock is waited for; sleepers, holders and a bypassing engine share it |
| Turn lifecycle (`runtime/internal.rs`, `runtime/mod.rs`, `db/threads.rs`) | the turn's row, its timeline, traces, outbound table; the handler's locals | accept, exchange, run tools, settle, publish, fail, recover | every await is a point where another task, a crash or a failing write comes in; three writers of one row |
| Threads, history, events, traces (`db/threads.rs`, `db/events.rs`, `db/traces.rs`, `build_conversation_history`) | rows of threads, turns, events, blobs | find or create, update metadata, read history, append, store, prune | racing creation; concurrent turns of a thread; numbers and blobs in two statements |
| Memory distillation (`runtime/memory.rs`, `db/memory.rs`) | recall chunks, facts, invariants, drift items, wake packs | sync recall, exchange with a compressor, repair, persist, rebuild | a dozen separate writes; overlapping upkeeps of one namespace; works in the name of a finished turn |
| Observations (`runtime/routine.rs`, `db/routines.rs`) | observations | resolve by age, scan the ledger, look for open ones, store | runs of several turns overlap between a look and a write |
| Stream accumulator and decoders (`model/*`) | partial text, reasoning and tool calls | decode a frame, merge, end, split reasoning | fragments in several shapes and orders; several ways to end |
| Strict schemas (`model/schema_strict.rs`) | none | normalise, validate | recursion over nested schemas; optional becomes nullable |
| Tidepool channel and client (`channels/tidepool.rs`, `tidepool/client.rs`) | cursors, subscription cache, a queue of messages, a shared client slot | connect, seed cursors, receive, reply, reconnect | callbacks of another thread, backlog, duplicates and losses around a reconnect |
| Tidepool tools (`tool/tool_tidepool.rs`) | none of their own | post, subscribe, direct messages, claims, handoffs, polls, overviews | read a replica while it changes; calls are queued and may be lost; several agents on one task |
| Discord channel (`channels/discord.rs`) | gateway session, heartbeat, sequence | connect, identify, heartbeat, dispatch, reply | a turn is awaited inside the socket loop; tasks that outlive their connection |
| Self-update and start (`update.rs`, `main.rs`) | the working tree, the binary, processes, the port | pull, build, spawn, recover, connect channels, bind | requests overlap; two processes on one database |
| Database migrator (`tools/db_migrator`) | source and target files | read, plan, fill, validate, move files | several snapshots of a database in use; a crash between two renames |
| Web API (`web.rs`) | none | thin handlers; recovery and update on request | runs recovery beside live turns |
| Tools, settings, skills, evaluator, front end, generated code | files, configuration | | not modelled |

How they interact: a channel awaits `handle_inbound`, which creates a turn and
drives it to its end through the gate, the engine, the tools and the database.
At its end it spawns the *upkeep* (recall, distillation, observations), which
may go through the same gate. On startup `Runtime::with_model_engine` recovers
running turns before any channel exists; the web API can do so at any time, and
an update leaves a second process behind that does so as well. All writes go
through one write lock, so each write is atomic, and a sequence of writes is
not. The Tidepool channel and the Tidepool tools share one client, in a slot
that the channel clears and fills; everything else shares only the database.

## Modules

| Module | What it is |
|---|---|
| `ProviderAccess` | the promise to the provider: one request at a time, none in a blackout |
| `ProviderGate` | the exchange loop around the gate and the throttle |
| `StreamDecode` | what an engine reads of an answer, and what the accumulator makes of it |
| `ProviderProofs` | the gate and its windows; what passes for an answer, and what it says; what strict schemas keep |
| `SchemaStrict` | what becomes of a tool's parameters, and of the calls of it |
| `TurnContract` | the promise about a turn: it sends messages while it runs, settles once, stays settled, and what the channel is handed is what was recorded |
| `TurnLifecycle`, `TurnLifecycleProofs` | handler, upkeep, recovery and crashes of all turns, and that they implement `TurnContract` |
| `ThreadStore`, `ThreadStoreProofs` | threads, turns, numbered events and traces in the tables |
| `MemoryDistill` | the upkeep's distillation, one step per statement |
| `Observations` | the upkeep's observation routines, one step per statement |
| `UpkeepProofs` | laws and wake packs; who is caught up with; what routines store |
| `TidepoolChannel` | the channel's task, its client's cache and queue, and the server as they use it |
| `TidepoolChannelProofs` | repeats and replies; what a cursor steps over |
| `TidepoolWorkspace` | the tools of several agents on one server |
| `TidepoolViews` | the tools that read, over one replica that moves on |
| `TidepoolToolsProofs` | what waiting calls and reads may rely on; what an overview says |
| `DiscordGateway` | connections, their tasks, turns and replies of the Discord channel |
| `DbMigrator` | the migration of the previous program's database |
| `SelfUpdate` | update requests, builds, and the start of processes |
| `EdgesProofs` | dispatches and replies; the migrator's files; revisions, and who recovers whose turns |
| `Lists` | `Picked`, which the decoders and the migrator say of lists |
| `RecursionTheorems` | what is defined by recursion along a sequence, and where a list of moves leads |
| `MCProvider` | the gate, the decoders and the schemas, for TLC |
| `MCTurnLifecycle` | turns |
| `MCThreadStore` | tables |
| `MCUpkeep` | distillation and observations |
| `MCTidepool`, `MCTidepoolChannel` | the channel and the tools; the channel alone |
| `MCEdges` | Discord, Tidepool's overviews, the migrator and the update |

An MC module of several components has a variable `side`: the first state says
which of them moves, and the others stay in their first state. The components
of one such module share no state, so nothing is lost by checking them one
beside the other, and each gets the whole of its own state space.

### ProviderGate

A caller is a task in `run_and_record_exchange`. Its locations are the stretches
between two awaits: `check` (first `wait_for_provider_window`), `sleep`, `gate`
(`lock().await`), `held` (the second look), `sleepHeld`, `call`, `limited` (the
answer is being traced), `armed` (events are being appended). `direct` is a
compressor with an engine of its own. `gateQueue` is the tokio mutex: FIFO, and
its head holds it once past the lock. Time is relative: `window` is the number
of ticks to `blocked_until`, `left` what a sleeper has still to sleep, `owed` a
history variable with what the provider asked for. `Arm` is `ProviderThrottle::arm`
with the floor, the doubling and its saturation; `ArmOverflow` is the
`now + wait` that panics on a saturated wait, and the limit is forgotten with it.

### StreamDecode and SchemaStrict

A provider means to say some messages and calls (`Meant`). `Respond` turns them
into the frames of one of the two interfaces, streamed or as one JSON body, with
the repetitions that are usual there; `Disturb` breaks the stream off, closes it,
or puts an error, a failure or garbage into it. An error is *told* when its message
is a string at `error.message`, the one place where the decoders look; they pass
over any other, the Responses API's own `{"type": "error", "message": ..}`
included. `ReadPart` and
`ReadFrame` are the loop over chunks, with characters cut at a chunk's end
replaced as `from_utf8_lossy` does (the mark is "?", which nobody means:
`StreamAssumption`). `acc` is `ModelAccumulator`: calls under
keys and aliases, in order of appearance; `Stop` and `Ended` are the ends of the
loop with their grace period, and `result` what the engine returns. `harm` is
history: what went wrong on the way.

`SchemaStrict` has no concurrency: `Send` normalises a declared schema as
`normalize_schema_strict` does, `CallTool` picks a value that the strict schema
admits. A schema is a tree, a function from paths to what the schema says there.
The recursion of the code visits each place once, and what it does there depends on
the place and on the one above (whether it requires this property), so that
`Normalize` is a function over the places. `Validated` says which of them
`validate_object_schema` comes to. Values are trees as well, so that `Admits`
compares place by place; a list has at most one value, and the entries of an
`anyOf` have no properties of their own. `oneOf`, `allOf`, `not`, `if` and `$defs`,
which the code goes through but neither makes nullable (`model/schema_strict.rs:139`)
nor validates (`:205`), are in no tool's parameters and left out. `SchemaAssumption` says what the
parameters of a tool look like: an object, whose properties say what they are, and
which requires only what it declares.

### TurnLifecycle

One location per turn serves its handler and, after it, its upkeep
(`frame[t].role`); `frame` holds the locals of `handle_inbound_internal`. Rows
are `status` and `reply`; of the timeline only the kinds that a property needs
are in `log`, and `open` counts tool calls without result. Answers of the model
are abstracted to what the loop distinguishes: text, blank, tool calls (with or
without text), and an outcome that is not Ok. A tool's result either goes on, sends a
message, asks a question or carries a final message, blank or not. The messages of
a batch (the `message` tool) are recorded one by one when the batch is through,
while the turn runs (`RecordMessage`): `outbox` counts their rows and that of the
final response, and `handed` is what the channel gets, the messages with the
response or an error without them. A blank message is no message: it gets no
row, and channels skip it. `Crash` takes every task and the gate with it and leaves
the database; `Restart` is the startup listing of running turns, `StartChannels`
the point where `main` goes on to the channels.

The gate's timing is abstracted here to a lock (`gate`); that callers get
through it is `ProviderGate`'s `EveryExchangeEnds`.

### ThreadStore

Handlers go through the calls of `handle_inbound_internal` that touch these
tables: `FindThread`, `CreateThread` (INSERT OR IGNORE and a second look),
`CreateTurn`, `UpdateMetadata` (which compares with the row it was given, not
the row as it is), `Reread`, `ReadHistory`, then an exchange, its trace and the
end of the turn. An event takes two steps, `ReadNumber` and `InsertEvent`, under
the write lock; `todo` holds the turns a handler has events to append to, among
them the other running turns when a rate limit is told. `StoreBlobs` comes
before `RecordTrace`. `PruneBlobs` goes through all that are old, and stops at
one that fails. A failing call (`DbFailure`) ends the handler with what it had
written. Turns are numbered in the order of `created_at`; `before`, `rows`,
`seen`, `told` and `meta` are history of what a prompt was made from.

### MemoryDistill and Observations

In `MemoryDistill` a turn works, settles, and has its upkeep: `recalling`,
`checking` and `gathering` are the reads of `sync_memory_for_turn` and
`run_model_driven_distill`, `asking` the exchange with the compressor, and from
`storing` to `packing` it is `persist_compressor_output`. The functions of
`db/memory.rs` hold the write lock for a whole fact or invariant (a *law* here)
but use no transaction, so that each statement is a step: a fact and its
evidence (`citing`), a law, its facts, and for each law it supersedes a link and
an update (`deriving`, `linking`, `marking`). `frame` holds the locals, above
all `eligible`, the active laws as they were listed at the start of a list of
items, and `known`, the ids of stored facts. What the compressor says is chosen
where it is used. `cut` and `offered` are history: laws that a failure cut
short, and answers that were evidence for a compressor.

Several evidence rows of a fact, or several facts of a law, are one step, since
what a failure leaves is cut short either way. Recall chunks and drift items are
steps that can fail and have no contents. `Rebuild` is the command
`memory-rebuild` with no agent running: `clear_rebuilt_memory` stops with an
error at `memory_policies`, a table that the migrations drop at every start
(`db/memory.rs:89`), so facts, laws and links are gone, wake packs stay without
their laws, and the replay after it is never reached. The deletions are one
step, since nobody else reads or writes meanwhile.

In `Observations` a turn leaves entries in the ledger (its message, calls,
results, errors, answers). Its upkeep may fail the answered turn when the compressor
shares the engine of the turns (`FailAnswered`): the row loses its answer, the ledger
gets an error. The routine after it, which runs all the same, resolves what is too old,
reads a window of the ledger, and goes through the detectors one statement after
the other: what it stores at once, and what it stores only when a list of open
observations, cut off at its limit, has none of the same (`Asking`).

### The Tidepool modules

`TidepoolChannel`: the channel is one task: `resting` is the back-off of
`run_forever`, `joining` the connection up to `bootstrap_account`, `seeding` the
loop of `seed_attach_cursors`, `receiving` the wait for the next event, and the
others the awaits of `handle_message`. `queue` is the unbounded channel that the
callbacks of the SDK's thread fill and the task empties; `cached` is the
client's cache, which a callback fills at the same moment. The server's
snapshot has the rows of the subscribed domains in any order, as the client's
insert callback may see them. `baseline` is the map that `run_once` reads from
the cache, and a domain leaves it when its cursor is seeded. A turn is one step here,
`TurnLifecycle` has its inside; it gives any number of outbound messages (those
of the `message` tool and the response), or an error, which becomes a second
turn about the failure. `handle_message` posts the messages one by one, all as
replies to the same message, and goes on after one that fails (`failing`): the
first error is returned when the cursor is saved. `unposted` are the ones still
to come. `sent` holds the
posts that have not reached the server: `post_message` only
queues a reducer call, and nobody waits for its fate. The server is external, and only its
numbering of a domain's messages and what a subscriber is sent are modelled.

`TidepoolWorkspace`: agents, each with a runtime whose turns (`Workers`) are in
tool calls side by side. A tool keeps the clone of the client it began with
(`work[w].conn`); `slot` is the shared client, `line` the live connection with
the calls queued on it, `replica` what each connection has of the server. The
server takes the calls of a connection in order, refuses some, and brings
replicas up to date; a lost connection loses its queue. Tools that wait
(`tidepool_message_agent` waits for the domain it had created) look again until
they see it or give up. A body is what the parsers of claims and completions make
of it, with the handle in it, and which of the marks it quotes elsewhere; the tools
for claims write the handle of their account, or `NoHandle` ("unknown") when the
client does not know it (`KnownAs`), and `tidepool_post_message` anything.

`TidepoolViews`: one replica, whose rows come in any order, and the tools that
make several reads of it (`list_claims`, the dashboard) with messages arriving,
subscriptions changing and time passing in between; activity, health, mentions
and threads are operators over one read. Bodies are what the tools look for in
them: a claim or completion with its handle, the marks a text quotes, which a
search finds as well, and mentions character by character, since how they are
delimited is the property.

### DiscordGateway

Each connection has its frames (`inbox`), the sequence number its reader has,
and flags for its writer, its heartbeat task and its socket; `over` says how it
ended. The channel's task reads a frame, takes a turn on it, sends the reply in
chunks, and reads on. A text is its length and how much of each message of it is
posted (`texts`): a chunk is the next `Piece` of what is `Unsent`. A turn that fails is answered by a short text. Only the
end of the stream aborts the two tasks (`ReadEnd`); every other way out of
`run_once` leaves them, and the socket, as they are. Who is heard is the
configuration's filters with the mention rule. The gateway is external: it
dispatches to sessions it knows, among the rest the bot's own posts.

### DbMigrator

The migrator reads conversations, ledger, bare ledger names and messages in
statements of their own while the previous program may write (`Write`), plans
threads, turns and cursors, fills a temporary file (`Schema`, then `Filled`),
validates it, and replaces the target by two renames. `Crash` may come anywhere;
file names carry the second. A file is given by what it was filled from, and the
plan (`PlannedTurns`, `Cursor`, `ThreadOf`) is operators over that. The target is a
database in WAL mode (`db/mod.rs:67`), of which the migrator renames the main file
only: `log` says whether there is a log beside the target path, and whether it is of
the file there. Between migrations BetterClaw runs on that file (`Use`): it closes
it, which folds the log in, or is killed, which leaves one; a log that was left behind by
another file is taken for its own, and the file is then `Mixed`. The migrator's own
file is not in WAL mode. That BetterClaw does not run while the migrator does, nor
between the two renames, is assumed.

### SelfUpdate

Requests run `perform_update` in threads of the serving process: pull, wait for
cargo's lock, build, leave a child behind. `EndBuild` compiles any of the
revisions the tree held since the build began. A process goes through
`StartOrder`: `sleeping` (the child's two seconds), `recovering`, `connecting`,
`binding`, `serving`, or `ended` when the port is taken. Messages start turns of
a process that has its channels.

## Runs

| Run | Instance | Shows |
|---|---|---|
| `provider` | 3 callers, one with its own engine, Retry-After 0 or 3 ticks or none, 3 rate limits, cap 8 so that the back-off overflows, failing writes; 6 answers, two of them with malformed arguments, cut anywhere, over both interfaces; schemas of two properties, nested once, and with lists of objects | `GateKept`, `RateLimitsKept`, `ImplementsAccess`, `EveryExchangeEnds`; `AnswersAsSent`, `EndsAsReported`; `CallsSurvive` |
| `turn_safety` | 2 turns, batches of 2 calls, 2 answers that go on, 1 crash, failing writes | `BooksStraight`, `OnlyAbandonedRecovered`, `ImplementsContract` |
| `turn_shared` | 2 turns, upkeep on the main engine, recovery on request, 1 crash | `NoAbandonedTurn`; `FailureExplained`: until the process crashes, a failed turn says in its timeline why |
| `turn_liveness` | 2 turns, upkeep on the main engine, 1 crash | `EveryTurnSettles` |
| `turn_upkeep` | 1 turn, upkeep on the main engine | **violation** of `CompletedTurnStays` |
| `store` | 2 handlers, 3 turns, one id used by two channels, a replay, a rate limit or a failing call, 2 days | `EventsNumbered`, `PromptsOfThread`, `TracesKept` |
| `upkeep` | 2 turns of a thread, an old law, 3 laws and 3 facts, a failure, a crash, a rebuild; 2 chats of 3 tool results, a drift item, 2 observations, an hour | `LawsSound`, `StaleTurnsCaughtUp`; `ObservationsApt`, `AgeResolves` |
| `tidepool_safety` | 2 domains, a lost connection, a changed subscription, a failing call, late replies, an agent that does not hear itself; 3 agents, 3 tool calls, among them texts that read as completions, and claims under no handle, a lost connection each | `CursorsSound`; `ReadsSkipNothing`, `WorkReachesItsOwn` |
| `tidepool_liveness` | 1 domain of 3 messages, turns of up to 2 replies, an agent that hears its own posts, a lost connection, a changed subscription, a crash, a failing call | `RepliedOnce`, `ReconnectRepeatsNothing`; `NewestHandled`, `EveryMessageCovered` |
| `tidepool_lost` | 1 domain | **violation** of `NothingLostAfterCheckpoint` |
| `edges` | 2 messages on Discord and 2 faults; 3 posts of 2 agents; ledgers of 3 events and of 2 conversations, a crash of the migrator or of BetterClaw, a late write; 2 update requests, 2 revisions, a stop | `DispatchesHandled`, `ConnectionsApart`, `SessionComesBack`; `OverviewsTrue`; `MigratedAsSaid`, `FilesKept`; `UpdatesAreHonest` |
| `update` | 1 request, nobody stops the program | **violation** of `UpdateTakesEffect` |

`TypeOK`, `StTypeOK` and the `TypesOK` of the MC modules are the types, each of
which says beside the shapes what belongs together (the lock and its holder, the
port and the process that serves, a key and its place in the order).

A property in a run is often a conjunction of parts that are stated one by one
where they are defined:

| Property | Parts |
|---|---|
| `GateKept` | `GateHeldByHead`, `GateNeverOrphaned`, `NoRequestInsideWindow` |
| `RateLimitsKept` | `RateLimitHonoured`, `WindowNeverCutShort` |
| `AnswersAsSent` | `CompleteAnswers`, `CallsRunAsSent`, `TextFollowsSent`, `ReasoningStaysHidden` |
| `EndsAsReported` | `OnlyEndsPassForAnswers`, `LimitsAreReported` |
| `CallsSurvive` | `SentIsStrict`, `CallsStayCalls`, `NothingTakenAway` |
| `BooksStraight` | `EveryExchangeTraced`, `ToolCallsAnswered`, `PromptedOncePerBatch` |
| `PromptsOfThread` | `FiledUnderItsChannel`, `ContextOfThread`, `HistoryIsRecent` |
| `TracesKept` | `TracesReadable`, `PrunedOnce` |
| `LawsSound` | `LawsWhole`, `LawsRestOnEvidence`, `PackedLawsWhole` |
| `ObservationsApt` | `SecondOnlyByRace`, `NothingSeenGoesUnobserved`, `NoChainWhileAnswered` |
| `AgeResolves` | `OnlyAgeResolves` of every step, `AgedAreResolved` after it |
| `CursorsSound` | `CursorNeverRetreats`, `SavesSkipNothing` |
| `ReadsSkipNothing` | `PollsSkipNothing`, `StatusWithinLimit` |
| `WorkReachesItsOwn` | `ClaimsEndByOwner`, `DirectReachesBoth` |
| `DispatchesHandled` | `HandledInOrder`, `NothingDispatchedIsDropped`, `NoEcho`, `RepliesWhole` |
| `ConnectionsApart` | `HeartOfOwnConnection`, `LeakedOnlyByError` |
| `OverviewsTrue` | `ActivityIsOfNewest`, `ClaimsWereOpen`, `StaleClaimsAreOld`, `MentionsAsWritten`, `ThreadsFollowed` |
| `MigratedAsSaid` | `TurnsAsSpoken`, `NothingTwice`, `NothingLost`, `ThreadsAsChannels`, `CursorsAsSeen` |
| `FilesKept` | `TargetWhole`, `OriginalKept` |
| `UpdatesAreHonest` | `SuccessIsBuilt` always, `OwnTurnsKept` |

Several parts are weaker than one would like, because the code promises no more,
and say so: `RateLimitHonoured` excepts a limit whose trace could not be written
and one whose wait overflows; `CompleteAnswers` and
`CallsRunAsSent` except arguments that were malformed and that a piece which
repeats all before it mends (`Mended`: `{`, then `{1}`); `SecondOnlyByRace` excepts
routines that overlap and lists that were cut off; `NothingLost` excepts the messages of a conversation
of which the ledger has anything; `ClaimsEndByOwner`
texts that read as claims or completions, and claims under no account's handle;
`ClaimsWereOpen` a subscription that was given up between two reads, and more
bodies with the mark than a list looks at; `OriginalKept` two migrations in one
second; `TargetWhole` a log that a killed process left.

Bounds. Three callers are a holder, a waiter and a sleeper at once, which is
every role the loop has; three rate limits let the back-off double up to the cap
and overflow. Two turns are one that acts and one that is acted upon (told of a
limit, waiting for the gate, recovered); a batch of two calls has a first and a
last; one crash with a restart reaches every location as a crash point, and what
a second crash finds is again one of these states. `MaxMore` bounds how often a
turn goes on, not the code. Two handlers are all a race for a thread, its
metadata or a number takes, and the third turn comes after both, so that a
history of one turn leaves one out. Two upkeeps that overlap on one old law are
enough for every race between listing the active laws and superseding them; an
output of one fact and two laws, drift items or removals has a law that rests on
the fact, one that supersedes, and a removal of what the other supersedes; the
limits of 12 and 256 laws become 2, below the 3 laws there are. The limits of
observations, results and answers are lowered in the same way, below what the
instance has of them. Two Tidepool domains are one that a connection attached to
and one whose subscription changes under it; three messages of one domain are
one that is handled, its reply, and one that comes while the channel is away;
two replies of a turn are one posted and one that is due, fails or is lost. Of the three agents one reads, one takes over, and one only takes part in
direct messages. Two faults on
Discord leave a leaked connection while another is leaked. The ledgers of three
events are every order of a user's turn, an answer and a tool's result or error,
two of which fall into one turn (with a result or an empty answer, those that
begin with the user).
An agent that hears its own posts (`emit_self`) is in the run `tidepool_liveness`
and in the proofs, which are for both. Three processes are the one that serves and the
children of two requests. Everything but the gate may go idle, or comes to its
end, so deadlock is checked for the gate only (`provider`, where components that
have ended stutter).

Fairness. Tokio polls every task that can run, hence weak fairness of each step
of a task; a tokio mutex is FIFO, which the queue models; time passes; a request
ends at the latest by the HTTP client's timeout (`model/openai_compat.rs`). For
turns and the channel, somebody restarts a crashed process. That the model stops
calling tools and the provider stops limiting is assumed by `MaxMore` and
`MaxLimits`: the code bounds neither. The Tidepool channel's task is polled and
its turns end, which is `EveryTurnSettles`; a reply that was sent arrives or is
lost; that connections stop breaking is assumed by `MaxBreaks`, and by
`MaxFaults` for Discord, whose gateway moreover answers an identify. Update
requests and processes go on once they have begun; nobody has to push, ask or
stop. The fairness of a component is stated in `MCProvider` and `MCEdges` for its
own steps only.

## Findings

- `turn_upkeep`: without a compressor role the upkeep's exchange uses the
  handler's error path, which fails the completed turn and erases its reply
  (`runtime/internal.rs:663`).
- `tidepool_lost`: `docs/tidepool.md` has checkpoints per domain, and
  `docs/todo.md` seeds them below the baseline so as to lose nothing; a
  reconnect raises a cursor to the newest message but one, and what came before
  it while the channel was away is never handled.
- `update`: the answer to `POST /api/update` says that the process will exec
  into the new binary. The shell that it leaves behind runs it as a second
  process, whose start fails the running turns of the first, connects the
  channels a second time, cannot bind the port and ends; the old revision serves
  on, and what the loser's channels had begun stays running until the next start.

Seen while modelling, and not stated as properties of their own:

*Runtime.* `POST /api/runtime/recover` fails turns that are being worked on
(`web.rs:190`), and so does the command `memory-rebuild` beside a serving
process (`main.rs:28`). The row of a failing turn is written before the event
that explains it, so that a crash between the two leaves a failed turn without
explanation, which recovery does not look at. The turns that are told of a rate
limit are listed first and told one by one, so that a turn may be told that it
waits after it has settled. A turn that fails has recorded messages that its
channel is never handed. The `message` tool, which a comment calls disabled in the
default registry (`tool/tool_core.rs:163`), is registered in it
(`tool/mod.rs:148`). The tool loop has no bound (`runtime/internal.rs:158`).
A failing write after `create_turn` leaves a running row until the next start
(`internal.rs:91`). A compressor role with an engine of its own neither waits for
a window nor arms one (`runtime/memory.rs:626`), and a rate limit whose trace
cannot be written is never armed. `INSERT OR IGNORE` ignores a thread of another
channel with the same id, and the message is then refused.

*Memory.* The catch-up of an unsettled turn is skipped when any newer wake pack
of the namespace exists, also one that another thread's upkeep made without it
(`memory.rs:312`). `memory-rebuild` always ends in the error described above, and
removals of laws stay when the additions after them fail. The detector of tool
failure patterns reads keys that error events do not have, and never fires. A turn
that was answered and then failed by its own upkeep is reported, by the routines of
that same upkeep, as one that ended without a reply or in an error.
`upsert_observation` only inserts.

*Streams.* A character that is cut by a chunk becomes a replacement mark; a
stream that is closed cleanly in the middle passes for an answer, as do
`response.failed` and `response.incomplete`, and an error in the JSON body of a
chat completion. So does what was read before an error frame whose message is not
a string at `error.message`, as that of the Responses API's own `error` event or of
`{"error": "text"}`: no arm of the decoders takes it (`openai_responses/decode.rs:62`,
`openai_chatcompletions/decode.rs:116`), and only a limit
that its code or message speaks of is still seen, in the raw body. A first fragment of arguments that is repeated is taken for a
resend (`accumulator.rs:206`); of several messages of a response the last is
kept; a connection error within the grace period discards a complete answer; a
stray closing tag drops the text before it; an error that mentions a rate limit
is retried whatever its code.

*Schemas.* An optional property that is an enum, a `$ref` or a `oneOf`, or an
object without a type, does not become nullable, nor does an `anyOf` beside a type
(only the type does), although the comment says so of
all.

*Tidepool.* An overview looks at 500 messages, which a busy domain may take all
of; a group is matched by `contains`; the handle of `message_agent` is matched
with case; a handoff leaves the old claim listed; a claim is ended by
whatever names its handle, domain and task (`tool/tool_tidepool.rs:1583`), be it a posted text
`[DONE alice] task` or, of two claims made while their clients knew no account
("unknown", `:1660`), the completion of the other; a completed claim comes back once
200 newer bodies with the mark, among them texts that only quote it, hide its
completion; `agent_presence`, which "analyzes the last `window_size` messages" by its
comment (`client.rs:771`), counts all visible messages and cuts off the list of
agents; a thread is its direct replies
only; the tools that join, add, create or remove say that it is done when the
call is queued; `post_message` may be lost with the connection (`client.rs:330`);
rows of a new subscription come in no order and their cursor is not seeded
(`channels/tidepool.rs:118`). A poll of several domains after a message id is cut
off in the order of the domains, so that the next poll may step over messages of
a later one, although a comment speaks of the oldest new ones (`client.rs:658`).

*Discord.* A session is never resumed, so that what is posted while the channel
reconnects is not heard; a chunk that is refused takes the connection down; a
message that has attachments only is dropped.

*Migrator.* It reads in several snapshots; a ledger with anything of a
conversation suppresses all its stored messages; of several answers in a turn the
last is kept; a crash between the two renames leaves nothing at the target path
(a backup is there); two migrations in one second overwrite the backup. Only the
main file of the old database is renamed (`main.rs:1240`): what a killed BetterClaw
left in its `-wal` is missing from the backup, and lies beside the new file, as
whose log SQLite will read it.

*Web page.* A receiver of the broadcast channel that lags loses updates silently
(`web.rs:245`); the page reconnects without reloading and may show a thread whose
answer came late.

## Proofs

`ProviderProofs`, the gate. `GateInv` is `TypeOK`, `GateHeldByHead` and
`NoRequestInsideWindow`; together they are inductive: only the head of the queue
arms a window, and it is not sending when it does. `QueueInv` says who is in the
queue, and how often, which gives `GateNeverOrphaned`. `OwedInv` relates what the
provider asked for to the window: while something is owed, either the window
covers it, or the holder has still to arm it and nobody sends; `RateLimitHonoured`
follows. The only step that clears a running window is a success, which needs a
request out, which `NoRequestInsideWindow` excludes; `GateImplementsAccess`
likewise. Nothing is assumed but `GateAssumption`.

Same module, the answers. Whatever frames arrive, `Ordered` says of the
accumulator that every key has one call and every alias a key: `EnsureKeeps` for
one frame, `AppendKeeps` for all the calls of a body. `Marked` follows what went
wrong: an error that is told is the one frame on its way or counted, unless the body of a chat
completion was one; what cannot be read stays first on the wire. So nothing but
an end passes for an answer (`AnswersEndAsReported`), for everything of the shape
`StreamAssumption` gives it.

What an answer says (`AnswersAreAsSent`) is `AnswerInv`. A *point* is how far one
is in what the provider means: the text so far, the calls announced, the pieces of
the last one, the end. A frame leads from one point to others (`Leads`), and a
whole answer leads from `Beginning` to `Ending` over either interface, with its
repetitions (`StreamPath`). As long as nothing but a cut character went wrong, what
is on the wire is a path from the point that is reached to `Ending`; otherwise at
most one frame is left, and it is the one that ends the reading (`Replaced`). The
accumulator has what lies before the point (`Under`): the names, of every call the
pieces so far (`Got`), and of a whole one what it may have become by being told
again (`Final`). Or it is `Loose`: a piece whose frame said neither the
index nor the id of its call made a call without a name. Such an accumulator is
`Faulty` ever after, and no answer. `FrameRead` is the step: a frame that is read
moves the accumulator as it moves the point. Pieces are not simply joined, because
a piece that begins with all before it replaces it: what is lost by that is part
of the beginning, so that what still parses is what was sent, or was malformed
(`FinalParses`). The property was false without this exception (`Mended`), which
the proof found and two answers of the run now show. `SplitShows` is the reasoning,
for every text: `Split` walks over it, and what it has shown, holds back and hid
after i words is what the tags before them say.

What is defined by recursion along a sequence, by
`AppendCalls` or `FlattenSeq`, rests on two lemmas of `RecursionTheorems`:
`Recursion`, that the function exists, and `UpTo`, induction up to its length; from
them come what `FlattenSeq` and `Picked` have, and that paths can be joined.

Same module, the schemas (`CallsAllSurvive`). Since schemas are trees, nothing is by
induction, and every depth is covered. `NormalizeAt` says what becomes of a place.
What validation comes to is an object (`ValidatedObjects`), and what is an object is
closed and requires all it has; hence a second pass finds nothing optional and
nothing to add (`StrictIsLeft`). A null at an optional place is what the strict
schema admits there in addition and what `WithoutNulls` leaves out (`StrictCalls`);
the nulls that `WithNulls` puts in are such (`SealedCalls`, `NullsComeAndGo`).

`TurnLifecycleProofs`. The checked invariants are not inductive: that
a traced exchange is traced once needs to know where untraced ones can be, that
results match calls needs the handler's own count of pending calls, and both
need to know whose task is at a location. `TurnInv` says this per turn: `Books`
(exchanges and calls by location), `Roles` (who is where, and what its row may
be), `Prompting` (a prompt not yet paid for by a batch is possible only when the
flags allow one). It holds for both settings of `SharedCompressor`,
`LiveRecovery` and `DbFailures`. `NobodyLeftBehind` needs in addition that
writes succeed: a write that fails leaves a running row behind until a restart.

`FailuresExplained` follows `Accountable`: a failed row has its reason in the
timeline, or is the one recovery has marked and not yet told of, or its handler
is at the location between the two writes. Every other way to a failed row goes
through one of these.

Same module, the contract. `ContractInv` ties row, outbox and channel to the
location (the rows of messages are those the handler has counted), and says that recovery has something to do only when no task runs.
It holds when the compressor has its own engine and recovery runs only at
startup (`Separate`), and then every step is a step of the contract or a
stutter. `turn_upkeep` shows that the first condition cannot go, and recovery
beside live turns settles one twice.

`TidepoolChannelProofs`. `ChannelInv` says, beside the types, that the message at
hand is ahead of its cursor, and `Repeats`: once a message is covered by the
cursor or at hand it may have had one turn more than there were crashes and
failing database calls, otherwise none more. From it follow `CursorNeverRetreats` (the cursor is written
with the message at hand, and nothing else has written it since it was received)
and `RepeatsAreFaults`.
`NobodyRepliedToTwice` assumes that the server has every reply before it serves
the next connection (`~LateReplies`); the property itself speaks of runs in which
no subscription changes. A turn may well post several replies to one message
(`Spoken`: some post of the turn is on its way or arrived); what cannot be is that two turns
do. Its invariant is `ReplyInv`:
only the last turn of a message has posted anything, and a message that was replied to is shielded: it is
still at hand, or shielded by its cursor, or by the reply itself,
which is a later message of the same domain, is in the snapshot and so raises the
baseline above the message, even when the cursor was never saved.

Same module, what cursors step over. The rows of a snapshot come in any order, so that the
queue is in none. `DeliveryInv` is about the part of it above a *floor*: the
cursor as it is, or as it will be once its domain is seeded. Above the floor
nothing of a domain that stays subscribed is missing (`Complete`), and nothing
comes before its turn (`Ordered`): at most one row of the snapshot is above it,
and what arrives later arrives in order. So the message that a save covers steps
over nothing, which with `CursorNeverRetreats` is `CursorsAreSound`.

`UpkeepProofs`, the memory. `LawsWhole` and `PackedLawsWhole` are not inductive: that a
law is whole when its writer says so needs what the writer has already linked.
`WritesOK` says this by location (`Half`), and that what a pack names or is to
name is `Done`: whole, and out of every writer's hands. It rests on `OneWriter`
(the lock), on `TablesOK` (links lead to existing laws only, so that a new id is
new to them) and on `EvidenceOK` (what an item may rest on has its evidence).
Lists of active laws may be stale all along: a superseded law never becomes
active again, which is all that is needed. `CutBound` counts what failures
leave, one law each, because only one task is between two statements of a law.
`NobodyStaysStale` follows `FrontierOK`: settlings and packs have times of their
own (`ClockOK`), and an upkeep between its look at the packs and its own pack
either still has its turn ahead of it or in its prompt (`Covered`), so that
whoever's pack comes first, the answer was in some compressor's prompt or is
older than a pack. Nothing is assumed but `MemoryAssumption`.

Same module, the routines. `ObsInv` says what a routine may rely on at each
place. `AgesOK`: what was too old when it began is resolved, or still in its
list. `SightOK`: what it saw is stored, in hand, or still to be looked at, since a
routine drops an item only when there is one of the same. `HandOK` and
`LookedIn`: the check that precedes a store looked at all there was then, or at a
list that was cut off. A chain or an error is reported of no turn that stood
answered at the look, although the window of entries is cut off at its old end: an
answered turn's last entry is its answer (`AnswersLast`), so that a window with any
entry of the turn has its answer as well. A turn that its own upkeep failed loses
that entry and stands answered no longer; taking it out leaves the others in their
order (`EntryTakenOut`). `ObservationsAssumption` says that there are finitely many turns
and words, which is needed for the topics to be sequences.

`TidepoolToolsProofs`, the workspace. `WsInv` says that what the server stores is not taken
back, that no replica is ahead of the server (`ConnsOK`), that the calls queued on a
connection are well formed and what their callers saw (`QueueOK`), and what the
last poll left out (`PollOK`): a page is the lowest rows above what was seen, so
that the highest row of a page that is not full leaves nothing below it. Pages are
cut off by counting, which rests on finite cardinalities and on largest numbers.
`WorkOK` relates each call to who may have made it: what a tool for claims posts has
the handle of its agent or none, so that of two accounts only texts, or claims under
no handle, can have the same (`OwnBody`).

Same module, the overviews. `OverviewsTrue` has a part about one read and one
about several. One read: along any order of the rows the entry of an author is
`EntryOf` the rows so far (`ActivityIs`, by `UpTo`), so that it depends on their
set alone; a list leaves out only who has enough others above (`TopOf`); a word is
trimmed to what lies between its first and its last kept character
(`MentionsThe`, of handles that end in a kept one: the code would never find
another); replies come later than what they answer (`PostsInOrder`), which is why
the replies that are there bound the rounds of following them. Several reads, in
`ViewsInv`: while nothing is unsubscribed what was found stays there
(`FoundThere`), so that a claim which the completions, read after it, do not
contain was open when they were read (`OpenIfNotDone`, `OpenRemembered`), and the
health, read last, is no older than any claim that was found (`HealthOfNewest`).

`EdgesProofs`, the gateway. `DcInv` says of each connection (`ConnOK`) what its flags
may be for the way it ended and that its frames are what the gateway dispatched
and it has not read (`InboxOK`); of the dispatches, that the ones dealt with are a
prefix, in order, each once, and none the bot's own (`DealtOK`); of each text,
that what is posted is its pieces, whole up to the last (`TextsOK`). That nobody
answers the bot needs that posts of distinct dispatches are distinct.

Same module, the update. `CodeInv` is the chain of revisions: the binary is not newer
than the tree, nor the tree than the remote; one request builds at a time, what it
compiles is not older than what it found, and that not older than what it pulled
or than the binary there is. Hence no request that says so is ahead of the binary,
whoever overlaps with it. `ProcessInv` says of each running turn that the process
it was begun by has its channels, or had; a process that recovers has not, and so
fails no turn of its own.

Same module, the migrator. `FilesInv` adds to the property where the migrator is:
what it is about to install has been validated against what it read, the target
path is empty only between the two renames, and of the temporary file of its own
second nobody else writes. The original is at the target path until the first
rename, which moves it to the backup of that second; `replaced` remembers that a
backup of the same second was overwritten, and a backup the log it was parted from
(`Parted`). A foreign log lies at the target path only once that has happened, and
never beside the original.

What a filled file has (`MigrationsAreFaithful`) rests on `LoadedInv`, stage by
stage of the reading: rows have unique ids and come from a source or are what the
previous program wrote (`Sound`); the ledger read has the ledger as it was at the
start (`HasLedger`); a conversation is bare, or the ledger has an event under its
id by now (`HasBare`), and of the bare ones the messages are there (`HasMessages`).
Later writes append, so that none of these is lost again (`WholeStays`). The rest
is about operators. `Picked` of a list at a set of places has what the list has
there, in order (`PickedParts`, `PickedHas`, `PickedGrows`, by `Recursion`). The fold of the planner is
described along the list by `PlannedFrom`: after n events the turns that are closed
are those of the user turns before the last start, one each, and the open one is
`OpenFrom` that start (`TurnBegins`, `TurnGoesOn`, `TurnEnds`; together `TurnsFit`).
No message becomes two turns because ids of turns are a primary key of the target
(`Conflict` ends the migration), a synthetic id is a pair, and an event that has a
message is not known by its own id (`TurnIds`). A cursor is the maximum of a finite
set (`ShownIsFinite`). `MigratorAssumption` says of the sources what the old schema
and the makers of ids give: primary keys; the id of a conversation is not the
external id of a thread with another key, no name is that of two domains, and ids
of events, being random, are not ids of messages.

`ThreadStoreProofs`. Most of `StoreInv` is what a handler may rely on between two
of its statements (`HandlerInv`, by `Stage`: the call it comes to once its events
are appended): the turn it works for is running and has its message, the thread's
row has its channel, and what it copied of the metadata, or what is there by now,
is that of a message with a turn in the thread. A handler that waits keeps all
this because rows change in a few ways only, whoever writes (`Grows`); a turn is
settled by its one owner (`OneOwner`), which is why the statuses a prompt was made
from stay. That a history leaves no gap is a fact about counting (`Newest`), which
rests on finite cardinalities and on least numbers. Numbers of events need the
lock (`NumberInv`), traces the order of their two writes (`TraceInv`). All three
properties and the types of the run `store` follow, from `StoreAssumption` alone.

`TypesOK` of an MC module is the conjunction of the type invariants of the
components it runs side by side; each of these has its own theorem (`TypeCorrect`
in the module of the component's proofs, or `AnswerTypes`, `WorkspaceTypes`,
`OverviewTypes`, `GatewayTypes`, `UpdateTypes`, `MigrationTypes`, `ObservationTypes`).

Model-checked only is liveness (`EveryExchangeEnds`, `EveryTurnSettles`,
`NewestHandled`, `EveryMessageCovered`, `SessionComesBack`), which needs fairness
and ENABLED.

## Plan

Done: the gate, the turn, the tables, the upkeep, Tidepool with its tools, the
streams, the schemas, Discord, the migrator and the update.

1. Done: a proof of every safety invariant and action property that a run checks.
2. A composition of `TurnLifecycle` with `SelfUpdate`: recovery by a second process
   beside live turns, where here a turn is one of three states.
3. The broadcast channel of the web API with a page that reconnects, once the
   code says what a page may miss.
4. `tool_core` and `tool_fs`, where an edit reads a file and writes it later.

## Not modelled

- Tools other than Tidepool's (`tool/*`): files, child processes and HTTP behind a
  uniform result. `TurnLifecycle` lets a tool answer, send a message, fail softly,
  fail hard, ask or finish.
- Requests and prompts as data; the contents of messages beyond what a property
  looks at.
- The schema and the connections of the database (`db/mod.rs`, `db/internal.rs`):
  the single write lock is what makes each write one action. Settings and skills
  are read once.
- `update.rs`: `check_for_updates`, which only reads. Group creation, membership and
  the administration of Tidepool domains, which queue one call each. The length
  of the channels' back-offs.
- Compression and sizes of traces, contents of recall chunks and drift items, and
  the search in them.
- The evaluator, the generated Tidepool bindings, and the web front end.
