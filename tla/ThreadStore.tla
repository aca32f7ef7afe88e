---------------------------- MODULE ThreadStore ----------------------------
(***************************************************************************)
(* What the tables of the database hold of threads, turns, events and      *)
(* traces while several messages are being handled at once (db/threads.rs, *)
(* db/events.rs, db/traces.rs and their calls in runtime/internal.rs).     *)
(*                                                                         *)
(*   - Every write takes the write lock; a read does not.  An event takes  *)
(*     two statements under the lock.                                      *)
(*   - A thread has the external id of its channel as its primary key.     *)
(*   - A failing call leaves the handler at once, with what it had written.*)
(*                                                                         *)
(* Turns are numbered in the order of created_at, which create_turn takes  *)
(* under the lock.  TurnLifecycle has what a turn says and how it is asked *)
(* again; here an exchange answers, or is limited and tells other turns.   *)
(***************************************************************************)
EXTENDS Integers, Sequences, FiniteSets

CONSTANTS
    Handlers,       \* tasks that handle an inbound message
    NoHandler,      \* the write lock is free
    Inbound,        \* the messages: their channel, external id and channel metadata
                    \* (a replay has none)
    NoMeta,         \* metadata_json is NULL
    MaxHistory,     \* max_history_turns
    Retention,      \* trace_blob_retention_days, 0 when nothing is pruned
    MaxTurns,       \* bound: turns
    MaxUpsets,      \* bound: rate limits and failing calls
    MaxTime         \* bound: days

ASSUME StoreAssumption ==
    /\ NoHandler \notin Handlers
    /\ \A m \in Inbound : m.channel # "none"
    /\ {MaxHistory, Retention, MaxTurns, MaxUpsets, MaxTime} \subseteq Nat

Turns == 1..MaxTurns
Ids == {m.id : m \in Inbound}

VARIABLES
    threads,    \* the rows, by primary key: the channel and the metadata
    turns,      \* the rows, in order, and what their prompts contained
    events,     \* of each turn the sequence numbers, in order of insertion
    blobs,      \* trace_blobs, of each turn: the day, and how often a placeholder
                \* replaced it
    traces,     \* model_traces: the turns whose row names their blobs
    lock,       \* who has the write lock
    work,       \* what each handler is doing
    day, upsets

stVars == <<threads, turns, events, blobs, traces, lock, work, day, upsets>>
tables == <<threads, turns, events, blobs, traces>>
clocks == <<day, upsets>>

NoThread == [channel |-> "none", meta |-> NoMeta]
NoBlob == [day |-> -1, pruned |-> 0]
NoMessage == [channel |-> "none", id |-> "none", meta |-> NoMeta]

Idle == [at |-> "idle", msg |-> NoMessage, row |-> NoThread, turn |-> 0,
         todo |-> <<>>, then |-> "idle", number |-> 0]

StInit ==
    /\ threads = [id \in Ids |-> NoThread]
    /\ turns = <<>> /\ events = [t \in Turns |-> <<>>]
    /\ blobs = [t \in Turns |-> NoBlob] /\ traces = {}
    /\ lock = NoHandler
    /\ work = [h \in Handlers |-> Idle]
    /\ day = 0 /\ upsets = 0

At(h, place) == work[h].at = place
Goto(h, place) == work' = [work EXCEPT ![h].at = place]
Free == lock = NoHandler
Id(h) == work[h].msg.id

-----------------------------------------------------------------------------
(* append_event_and_publish, for the events a handler has to append, each    *)
(* to a turn; events that only follow one another are taken as one.         *)

Append1(h, list, place) ==
    [work EXCEPT ![h].todo = list, ![h].then = place,
                 ![h].at = IF list = <<>> THEN place ELSE "append"]

MaxNumber(t) ==
    IF events[t] = <<>> THEN 0
    ELSE CHOOSE n \in {events[t][i] : i \in DOMAIN events[t]} :
             \A i \in DOMAIN events[t] : events[t][i] <= n

MutReadNumber(h) ==                          \* the lock is not taken for the read
    /\ At(h, "append")
    /\ work' = [work EXCEPT ![h].number = MaxNumber(Head(work[h].todo)) + 1, ![h].at = "insert"]
    /\ UNCHANGED <<tables, lock, clocks>>

ReadNumber(h) ==
    /\ At(h, "append") /\ Free
    /\ lock' = h
    /\ work' = [work EXCEPT ![h].number = MaxNumber(Head(work[h].todo)) + 1, ![h].at = "insert"]
    /\ UNCHANGED <<tables, clocks>>

InsertEvent(h) ==
    /\ At(h, "insert")
    /\ events' = [events EXCEPT ![Head(work[h].todo)] = Append(@, work[h].number)]
    /\ lock' = NoHandler
    /\ work' = IF work[h].then = "idle" /\ Len(work[h].todo) = 1
               THEN [work EXCEPT ![h] = Idle]
               ELSE [Append1(h, Tail(work[h].todo), work[h].then) EXCEPT ![h].number = 0]
    /\ UNCHANGED <<threads, turns, blobs, traces, clocks>>

-----------------------------------------------------------------------------
(* handle_inbound_internal, up to the request.                              *)

\* find_thread asks for the agent, the channel and the external id.
FindThread(h, m) ==
    /\ At(h, "idle") /\ Len(turns) < MaxTurns
    /\ work' = [work EXCEPT ![h] =
                  IF threads[m.id].channel = m.channel
                  THEN [Idle EXCEPT !.msg = m, !.at = "turn", !.row = threads[m.id]]
                  ELSE [Idle EXCEPT !.msg = m, !.at = "create"]]
    /\ UNCHANGED <<tables, lock, clocks>>

\* INSERT OR IGNORE, then find_thread; no row for the channel: bail.
CreateThread(h) ==
    /\ At(h, "create") /\ Free
    /\ threads' = IF threads[Id(h)] = NoThread
                  THEN [threads EXCEPT ![Id(h)] = [channel |-> work[h].msg.channel, meta |-> NoMeta]]
                  ELSE threads
    /\ work' = IF threads'[Id(h)].channel = work[h].msg.channel
               THEN [work EXCEPT ![h].row = threads'[Id(h)], ![h].at = "turn"]
               ELSE [work EXCEPT ![h] = Idle]
    /\ UNCHANGED <<turns, events, blobs, traces, lock, clocks>>

SettledIn(id) == {t \in DOMAIN turns : turns[t].thread = id /\ turns[t].status # "running"}

CreateTurn(h) ==
    /\ At(h, "turn") /\ Free /\ Len(turns) < MaxTurns
    /\ LET t == Len(turns) + 1
       IN  /\ turns' = Append(turns, [thread |-> Id(h), status |-> "running", by |-> work[h].msg,
                                      before |-> SettledIn(Id(h)),
                                      rows |-> 0, seen |-> {}, told |-> {}, meta |-> NoMeta])
           /\ work' = [Append1(h, <<t>>, "metadata") EXCEPT ![h].turn = t]
    /\ UNCHANGED <<threads, events, blobs, traces, lock, clocks>>

\* The row the handler has been given decides, not the row as it is now.
UpdateMetadata(h) ==
    /\ At(h, "metadata")
    /\ IF work[h].row.meta # work[h].msg.meta
       THEN Free /\ threads' = [threads EXCEPT ![Id(h)].meta = work[h].msg.meta]
       ELSE UNCHANGED threads
    /\ Goto(h, "reread")
    /\ UNCHANGED <<turns, events, blobs, traces, lock, clocks>>

MutReread(h) ==                              \* the row it has is good enough
    /\ At(h, "reread")
    /\ Goto(h, "history")
    /\ UNCHANGED <<tables, lock, clocks>>

Reread(h) ==
    /\ At(h, "reread")
    /\ work' = [work EXCEPT ![h].row = threads[Id(h)], ![h].at = "history"]
    /\ UNCHANGED <<tables, lock, clocks>>

\* The turns of a thread but one; the newest of them make the history.
Prior(t) == {u \in DOMAIN turns : turns[u].thread = turns[t].thread /\ u # t}

HistoryOf(t) == {u \in Prior(t) : Cardinality({v \in Prior(t) : v > u}) < MaxHistory}

ReadHistory(h) ==
    LET t == work[h].turn IN
    /\ At(h, "history")
    /\ turns' = [turns EXCEPT ![t].rows = Len(turns), ![t].seen = HistoryOf(t), ![t].meta = work[h].row.meta,
                              ![t].told = {u \in HistoryOf(t) : turns[u].status = "succeeded"}]
    /\ work' = Append1(h, <<t>>, "exchange")
    /\ UNCHANGED <<threads, events, blobs, traces, lock, clocks>>

-----------------------------------------------------------------------------
(* The exchange, its trace, and the end of the turn.                        *)

\* A rate limit is told to the other turns that are running at the moment.
OtherRunning(t) == {u \in DOMAIN turns : turns[u].status = "running" /\ u # t}
InOrder(set) ==
    {list \in [1..Cardinality(set) -> set] : \A i, j \in DOMAIN list : i < j => list[i] < list[j]}

RateLimited(h) ==
    /\ At(h, "exchange") /\ upsets < MaxUpsets /\ upsets' = upsets + 1
    /\ work' = Append1(h, <<work[h].turn>>, "tell")
    /\ UNCHANGED <<tables, lock, day>>

TellOthers(h) ==
    /\ At(h, "tell")
    /\ \E list \in InOrder(OtherRunning(work[h].turn)) : work' = Append1(h, list, "exchange")
    /\ UNCHANGED <<tables, lock, clocks>>

MutStoreBlobs(h) ==                          \* the row first
    /\ At(h, "exchange") /\ Free
    /\ traces' = traces \cup {work[h].turn}
    /\ Goto(h, "tracing")
    /\ UNCHANGED <<threads, turns, events, blobs, lock, clocks>>

\* record_trace: the blobs of the request and the answer ...
StoreBlobs(h) ==
    /\ At(h, "exchange") /\ Free
    /\ blobs' = [blobs EXCEPT ![work[h].turn] = [day |-> day, pruned |-> 0]]
    /\ Goto(h, "tracing")
    /\ UNCHANGED <<threads, turns, events, traces, lock, clocks>>

\* ... then the row that names them.
RecordTrace(h) ==
    /\ At(h, "tracing") /\ Free
    /\ traces' = traces \cup {work[h].turn}
    /\ Goto(h, "settle")
    /\ UNCHANGED <<threads, turns, events, blobs, lock, clocks>>

Settle(h) ==
    /\ At(h, "settle") /\ Free
    /\ \E status \in {"succeeded", "failed"} :
          turns' = [turns EXCEPT ![work[h].turn].status = status]
    /\ work' = Append1(h, <<work[h].turn>>, "idle")
    /\ UNCHANGED <<threads, events, blobs, traces, lock, clocks>>

\* Any call to the database fails; a guard that is held is dropped.
DbFailure(h) ==
    /\ ~At(h, "idle") /\ upsets < MaxUpsets
    /\ (~At(h, "insert") => Free)
    /\ upsets' = upsets + 1
    /\ lock' = NoHandler
    /\ work' = [work EXCEPT ![h] = Idle]
    /\ UNCHANGED <<tables, day>>

-----------------------------------------------------------------------------
(* Retention.                                                               *)

Tomorrow ==
    /\ day < MaxTime /\ day' = day + 1
    /\ \A h \in Handlers : work[h].at \in {"idle", "tracing"}  \* bound: not at every step
    /\ UNCHANGED <<tables, lock, work, upsets>>

Stored == {t \in Turns : blobs[t] # NoBlob}

OldBlobs == {t \in Stored : blobs[t].day + Retention < day /\ blobs[t].pruned = 0}

\* prune_trace_blobs: one statement for each; one may fail and end it.
PruneBlobs ==
    /\ Free /\ Retention > 0 /\ OldBlobs # {}
    /\ \E done \in SUBSET OldBlobs :
          /\ blobs' = [t \in Turns |->
                          [blobs[t] EXCEPT !.pruned = IF t \in done THEN @ + 1 ELSE @]]
          /\ \/ done = OldBlobs /\ UNCHANGED upsets
             \/ done # OldBlobs /\ upsets < MaxUpsets /\ upsets' = upsets + 1
    /\ UNCHANGED <<threads, turns, events, traces, lock, work, day>>

Handle(h) ==
    \/ \E m \in Inbound : FindThread(h, m)
    \/ CreateThread(h) \/ CreateTurn(h) \/ UpdateMetadata(h) \/ Reread(h) \/ ReadHistory(h)
    \/ RateLimited(h) \/ TellOthers(h) \/ StoreBlobs(h) \/ RecordTrace(h) \/ Settle(h)
    \/ ReadNumber(h) \/ InsertEvent(h)

StNext ==
    \/ \E h \in Handlers : Handle(h) \/ DbFailure(h)
    \/ Tomorrow \/ PruneBlobs

StSpec == StInit /\ [][StNext]_stVars

-----------------------------------------------------------------------------
(* Properties.                                                              *)

\* Types; the lock is with the handler that is between the two statements of
\* an event.
StTypeOK ==
    /\ \A id \in Ids : threads[id].channel \in {m.channel : m \in Inbound} \cup {"none"}
    /\ Len(turns) <= MaxTurns
    /\ \A t \in DOMAIN turns : turns[t].status \in {"running", "succeeded", "failed"}
    /\ events \in [Turns -> Seq(Nat)]
    /\ \A t \in Turns : blobs[t].day \in -1..day /\ traces \subseteq Turns
    /\ lock \in Handlers \cup {NoHandler}
    /\ \A h \in Handlers : At(h, "insert") = (lock = h)
    /\ day \in 0..MaxTime /\ upsets \in 0..MaxUpsets

\* The events of a turn are numbered 1, 2, 3 ... in the order they were stored,
\* although its own handler and those of turns that hit a rate limit append to
\* it at the same time and numbers are read before they are used.
EventsNumbered ==
    \A t \in Turns : \A i \in DOMAIN events[t] : events[t][i] = i

\* A turn is filed under a thread of the channel its message came by, whatever
\* handlers race to create the thread and whoever has its id already.
FiledUnderItsChannel ==
    \A t \in DOMAIN turns : threads[turns[t].thread].channel = turns[t].by.channel

Prompted(t) == turns[t].rows > 0

\* The channel context of a prompt is that of a message of the same thread,
\* and the message's own unless one with other metadata was handled there.
ContextOfThread ==
    \A t \in DOMAIN turns : Prompted(t) =>
        \/ turns[t].meta = turns[t].by.meta
        \/ \E u \in DOMAIN turns : /\ u # t /\ turns[u].thread = turns[t].thread
                                   /\ turns[u].by.meta = turns[t].meta

\* The history of a prompt is the newest turns of the thread at that moment,
\* none left out between them, without the turn itself; the reply of a turn
\* that was answered before this one began is among it.
HistoryIsRecent ==
    \A t \in DOMAIN turns : Prompted(t) =>
        LET h == turns[t].seen
            others == {u \in 1..turns[t].rows : u # t /\ turns[u].thread = turns[t].thread}
        IN  /\ h \subseteq others /\ Cardinality(h) <= MaxHistory
            /\ \A u \in others \ h : Cardinality(h) = MaxHistory /\ \A v \in h : u < v
            /\ \A u \in h \cap turns[t].before :
                  turns[u].status = "succeeded" => u \in turns[t].told

\* Every trace can be shown: the blobs it names are there, and they are whole
\* until the retention has passed, whatever writes failed in between.
TracesReadable ==
    \A t \in traces :
        /\ blobs[t] # NoBlob
        /\ blobs[t].pruned > 0 => Retention > 0 /\ blobs[t].day + Retention < day

\* A placeholder is never replaced by another, which would lose what it says
\* of the original.
PrunedOnce == \A t \in Turns : blobs[t].pruned <= 1

\* What a prompt holds is of its thread: the row, the channel context, and the
\* history without gaps.
PromptsOfThread == FiledUnderItsChannel /\ ContextOfThread /\ HistoryIsRecent

\* Traces stay what they were, or say what they were.
TracesKept == TracesReadable /\ PrunedOnce
=============================================================================
