---------------------------- MODULE Observations ----------------------------
(***************************************************************************)
(* Observation routines: after a turn has been answered, its upkeep looks  *)
(* at the latest entries of the ledger, at the turns that wait for the     *)
(* user and at the drift items, and stores observations about them, which  *)
(* are shown to the model until they are resolved.                         *)
(*                                                                         *)
(*   - run_observation_routines and the detectors (runtime/routine.rs).    *)
(*   - The table (db/routines.rs).  upsert_observation always inserts; the *)
(*     detectors that want no second observation list the unresolved ones  *)
(*     first, in a statement of its own.                                   *)
(*                                                                         *)
(* Routines of several turns overlap: one step here is one statement of    *)
(* one routine, except that the ledger is read in one step.  Observations  *)
(* are numbered in the order of creation.  Of a message only the words     *)
(* count that are long enough and no stop words.                           *)
(***************************************************************************)
EXTENDS Integers, Sequences, FiniteSets, SequencesExt

CONSTANTS
    Chats,             \* turns, each with a routine after it
    Tools,             \* the tools the model may call
    Batches,           \* the calls of one answer: sequences of tools
    NoTool,            \* in an entry that names no tool
    WordsOf,           \* the words of each turn's message, in a sequence
    MaxEntries,        \* max_entries: 100 in the code
    PatternThreshold,  \* pattern_threshold: 3
    TopicThreshold,    \* messages a recurring word is in: 3
    ManyResults,       \* tool results that many must be exceeded: 10
    ManyAnswers,       \* answers that many must be exceeded: 5
    ObservationLimit,  \* observations a check lists: 64
    DriftLimit,        \* drift items of a kind that are listed: 16
    MaxAge,            \* max_age_hours: 48
    MaxHours,          \* bound: hours that pass
    MaxResults,        \* bound: tool calls of all turns
    MaxDrift,          \* bound: drift items
    MaxObservations    \* bound: observations

ASSUME ObservationsAssumption ==
    /\ NoTool \notin Tools /\ Batches \subseteq Seq(Tools)
    /\ IsFiniteSet(Chats) /\ \A t \in Chats : WordsOf[t] \in Seq(Range(WordsOf[t]))
    /\ {MaxEntries, PatternThreshold, TopicThreshold, ManyResults, ManyAnswers} \subseteq Nat
    /\ {ObservationLimit, DriftLimit, MaxAge, MaxHours} \subseteq Nat
    /\ {MaxResults, MaxDrift, MaxObservations} \subseteq Nat

VARIABLES
    chats,     \* the status of each turn
    ledger,    \* the entries that the turns' rows and events are read as
    drift,     \* the drift items the compressor has flagged, oldest first
    found,     \* the observations, oldest first
    routine,   \* the routine after each turn
    hour

obsVars == <<chats, ledger, drift, found, routine, hour>>

\* The keys of an entry's payload, as the runtime writes it.
PayloadKeys ==
    [user   |-> {"thread_id", "turn_id"},
     agent  |-> {"thread_id", "turn_id"},
     call   |-> {"invocation_id", "tool_name", "parameters", "raw_arguments"},
     result |-> {"invocation_id", "tool_name", "output"},
     error  |-> {"message"}]

Entry(t, kind, tool) == [turn |-> t, kind |-> kind, tool |-> tool]
Has(e, key) == key \in PayloadKeys[e.kind]

\* What a routine may store: a kind, what it is about, and its citations.
Item(kind, about, cites) == [kind |-> kind, about |-> about, cites |-> cites]
NoItemYet == Item("none", <<>>, {})

\* These detectors ask whether there is such an observation already.
Asking == {"awaiting_user", "tool_failure", "recurring_topic", "high_ratio", "drift"}

KindOf == [incomplete_tool_chain |-> "tension", awaiting_user |-> "tension",
           unresolved_error |-> "tension", tool_failure |-> "pattern",
           recurring_topic |-> "hypothesis", high_ratio |-> "hypothesis",
           drift |-> "contradiction"]

\* The order in which one routine goes through its detectors.
Detectors == <<"incomplete_tool_chain", "awaiting_user", "unresolved_error", "tool_failure",
               "recurring_topic", "high_ratio", "drift">>
Rank(item) == CHOOSE i \in DOMAIN Detectors : Detectors[i] = item.kind

\* Where a routine is and what it has in hand.  From seen on it is history: the
\* observations at its last check and whether the list was cut, the hour it
\* began, the turns that stood answered or waited for the user when it read the
\* ledger, and the drift items it has read.
NewRoutine == [at |-> "waiting", stale |-> {}, recent |-> <<>>, todo |-> {}, item |-> NoItemYet,
               seen |-> 0, full |-> FALSE, began |-> 0, answered |-> {}, asked |-> {}, flags |-> {}]

ObsInit ==
    /\ chats = [t \in Chats |-> "absent"]
    /\ ledger = <<>> /\ drift = <<>> /\ found = <<>>
    /\ routine = [t \in Chats |-> NewRoutine]
    /\ hour = 0

CiteTurn(t) == {<<"turn", t>>}
Answered == {t \in Chats : chats[t] \in {"succeeded", "awaiting_user"}}

-----------------------------------------------------------------------------
(* Turns and the compressor.                                                *)

TurnBegins(t) ==
    /\ chats[t] = "absent"
    /\ chats' = [chats EXCEPT ![t] = "running"]
    /\ ledger' = Append(ledger, Entry(t, "user", NoTool))
    /\ UNCHANGED <<drift, found, routine, hour>>

\* One call after the other, each before its result.  A tool that fails has a
\* result too; only a failed exchange is an error.
CallTools(t, batch) ==
    /\ chats[t] = "running"
    /\ Len(SelectSeq(ledger, LAMBDA e : e.kind = "result")) + Len(batch) <= MaxResults
    /\ ledger' = ledger \o [k \in 1..2 * Len(batch) |->
            Entry(t, IF k % 2 = 1 THEN "call" ELSE "result", batch[(k + 1) \div 2])]
    /\ UNCHANGED <<chats, drift, found, routine, hour>>

\* An answer or a question settles the turn, and its upkeep begins.
Reply(t, status) ==
    /\ chats[t] = "running"
    /\ chats' = [chats EXCEPT ![t] = status]
    /\ ledger' = Append(ledger, Entry(t, "agent", NoTool))
    /\ routine' = [routine EXCEPT ![t].at = "begun"]
    /\ UNCHANGED <<drift, found, hour>>

\* A failed exchange is logged as an error; the failure of an abandoned turn
\* at the next start is an event of another kind.
FailChat(t, logged) ==
    /\ chats[t] = "running"
    /\ chats' = [chats EXCEPT ![t] = "failed"]
    /\ ledger' = IF logged THEN Append(ledger, Entry(t, "error", NoTool)) ELSE ledger
    /\ UNCHANGED <<drift, found, routine, hour>>

\* A compressor that shares the engine of the turns works in the name of the
\* answered one: its failed exchange fails the turn, whose row loses the answer.
\* The routine comes after it all the same.
FailAnswered(t, logged) ==
    /\ t \in Answered /\ routine[t].at = "begun"
    /\ chats' = [chats EXCEPT ![t] = "failed"]
    /\ \E i \in DOMAIN ledger :
          /\ ledger[i].turn = t /\ ledger[i].kind = "agent"
          /\ ledger' = RemoveAt(ledger, i)
                          \o (IF logged THEN <<Entry(t, "error", NoTool)>> ELSE <<>>)
    /\ UNCHANGED <<drift, found, routine, hour>>

\* The upkeep's compressor flags what it found about an answered turn, before
\* the routine begins or in the upkeep of a later turn.
FlagDrift(kind, t) ==
    /\ Len(drift) < MaxDrift /\ routine[t].at # "waiting"
    /\ drift' = Append(drift, [kind |-> kind, cites |-> CiteTurn(t)])
    /\ UNCHANGED <<chats, ledger, found, routine, hour>>

HourPasses ==
    /\ hour < MaxHours
    /\ hour' = hour + 1
    /\ UNCHANGED <<chats, ledger, drift, found, routine>>

-----------------------------------------------------------------------------
(* What the detectors make of the entries of a routine.                     *)

Of(entries, kinds) == {entries[i] : i \in {j \in DOMAIN entries : entries[j].kind \in kinds}}
TurnsWith(entries, kinds) == {e.turn : e \in Of(entries, kinds)}

\* No payload has the control of a final message at its top.
Finals(entries) == {e.turn : e \in {r \in Of(entries, {"result"}) : Has(r, "__betterclaw_control")}}

Incomplete(entries) ==
    {Item("incomplete_tool_chain", <<t>>, CiteTurn(t)) :
        t \in TurnsWith(entries, {"call", "result"})
              \ (Finals(entries) \cup TurnsWith(entries, {"agent"}))}

Awaiting == {Item("awaiting_user", <<t>>, CiteTurn(t)) :
                t \in {u \in Chats : chats[u] = "awaiting_user"}}

\* An answer clears the errors logged before it.
Unrecovered(entries) ==
    {Item("unresolved_error", <<t>>, CiteTurn(t)) :
        t \in {u \in TurnsWith(entries, {"error"}) :
                  \E i \in DOMAIN entries :
                      /\ entries[i].turn = u /\ entries[i].kind = "error"
                      /\ \A j \in i + 1..Len(entries) :
                            ~(entries[j].turn = u /\ entries[j].kind = "agent")}}

Tensions(entries) == Incomplete(entries) \cup Awaiting \cup Unrecovered(entries)

\* Errors are counted by the tool they name.
Failures(entries, tool) ==
    {i \in DOMAIN entries : /\ entries[i].kind = "error" /\ Has(entries[i], "tool_name")
                            /\ entries[i].tool = tool}

Patterns(entries) ==
    {Item("tool_failure", <<tool>>, {}) :
        tool \in {x \in Tools : /\ Failures(entries, x) # {}
                                /\ Cardinality(Failures(entries, x)) >= PatternThreshold}}

\* The words of the latest six messages; equally frequent words come in the
\* order of a hash table, and the first three make the topic.
Asked(entries) == LET users == SelectSeq(entries, LAMBDA e : e.kind = "user")
                  IN  SubSeq(users, IF Len(users) > 6 THEN Len(users) - 5 ELSE 1, Len(users))

Frequency(entries, word) ==
    LET words == FlattenSeq([i \in DOMAIN Asked(entries) |-> WordsOf[Asked(entries)[i].turn]])
    IN  Cardinality({k \in DOMAIN words : words[k] = word})

Recurring(entries) == {w \in UNION {Range(WordsOf[t]) : t \in Chats} :
                          Frequency(entries, w) >= TopicThreshold}

Topics(entries) ==
    IF Cardinality(TurnsWith(entries, {"user"})) < TopicThreshold \/ Recurring(entries) = {}
    THEN {}
    ELSE {Item("recurring_topic", SubSeq(order, 1, IF Len(order) > 3 THEN 3 ELSE Len(order)), {}) :
             order \in {s \in SetToSeqs(Recurring(entries)) :
                           \A i, j \in DOMAIN s : i < j =>
                               Frequency(entries, s[i]) >= Frequency(entries, s[j])}}

Results(entries) == Len(SelectSeq(entries, LAMBDA e : e.kind = "result"))
Answers(entries) == Len(SelectSeq(entries, LAMBDA e : e.kind = "agent"))

HighRatio(entries) ==
    IF /\ Results(entries) > ManyResults /\ Answers(entries) > ManyAnswers
       /\ Results(entries) > 2 * Answers(entries)
    THEN {Item("high_ratio", <<>>, {})} ELSE {}

\* The newest drift items of each kind.
Listed(kind) ==
    LET ids == {i \in DOMAIN drift : drift[i].kind = kind}
    IN  {i \in ids : Cardinality({j \in ids : j > i}) < DriftLimit}

Drifts == {Item("drift", <<i>>, drift[i].cites) : i \in Listed("flag") \cup Listed("contradiction")}

-----------------------------------------------------------------------------
(* The table.                                                               *)

Open(kind) == {i \in DOMAIN found : KindOf[found[i].item.kind] = kind /\ ~found[i].resolved}

\* list_observations: the newest unresolved observations of a kind.
ListUnresolved(kind) ==
    {i \in Open(kind) : Cardinality({j \in Open(kind) : j > i}) < ObservationLimit}

\* A drift item is also known by one of its citations.
Same(old, item) ==
    \/ old.kind = item.kind /\ old.about = item.about
    \/ item.kind = "drift" /\ old.cites \cap item.cites # {}

MutLookElsewhere(item) ==                    \* the tensions, whatever the kind
    \E i \in ListUnresolved("tension") : Same(found[i].item, item)

AlreadyObserved(item) ==
    \E i \in ListUnresolved(KindOf[item.kind]) : Same(found[i].item, item)

\* upsert_observation: the history of the check goes with the row.
StoreObservation(t, item) ==
    /\ Len(found) < MaxObservations
    /\ found' = Append(found, [item |-> item, at |-> hour, resolved |-> FALSE,
                               seen |-> routine[t].seen, full |-> routine[t].full,
                               answered |-> routine[t].answered])

Stale == {i \in DOMAIN found : ~found[i].resolved /\ hour - found[i].at > MaxAge}

-----------------------------------------------------------------------------
(* The routine of one turn.                                                 *)

Mine(t, location) == routine[t].at = location

\* stale_observation_ids.
ReadStale(t) ==
    /\ Mine(t, "begun")
    /\ routine' = [routine EXCEPT ![t].at = "resolving", ![t].stale = Stale, ![t].began = hour]
    /\ UNCHANGED <<chats, ledger, drift, found, hour>>

\* resolve_observation, one by one.
ResolveStale(t) ==
    /\ Mine(t, "resolving")
    /\ \E i \in routine[t].stale :
          /\ found' = [found EXCEPT ![i].resolved = TRUE]
          /\ routine' = [routine EXCEPT ![t].stale = @ \ {i}]
    /\ UNCHANGED <<chats, ledger, drift, hour>>

MutReadLedger(t) ==                          \* the old ones are still being resolved
    /\ Mine(t, "resolving")
    /\ routine' = [routine EXCEPT ![t].at = "tensions", ![t].recent = ledger, ![t].stale = {},
                                  ![t].todo = Tensions(ledger), ![t].answered = Answered,
                                  ![t].asked = {u \in Chats : chats[u] = "awaiting_user"}]
    /\ UNCHANGED <<chats, ledger, drift, found, hour>>

\* The latest entries, and the turns that wait for the user.
ReadLedger(t) ==
    /\ Mine(t, "resolving") /\ routine[t].stale = {}
    /\ LET from == IF Len(ledger) > MaxEntries THEN Len(ledger) - MaxEntries + 1 ELSE 1
           entries == SubSeq(ledger, from, Len(ledger))
       IN  routine' = [routine EXCEPT ![t].at = "tensions", ![t].recent = entries,
                                      ![t].todo = Tensions(entries), ![t].answered = Answered,
                                      ![t].asked = {u \in Chats : chats[u] = "awaiting_user"}]
    /\ UNCHANGED <<chats, ledger, drift, found, hour>>

\* The next detectors, when nothing is left of the ones before.
Idle(t) == routine[t].todo = {} /\ routine[t].item = NoItemYet

DetectPatterns(t) ==
    /\ Mine(t, "tensions") /\ Idle(t)
    /\ \E topic \in {{x} : x \in Topics(routine[t].recent)}
                    \cup (IF Topics(routine[t].recent) = {} THEN {{}} ELSE {}) :
          routine' = [routine EXCEPT
              ![t].at = "patterns", ![t].recent = <<>>,
              ![t].todo = Patterns(routine[t].recent) \cup topic \cup HighRatio(routine[t].recent)]
    /\ UNCHANGED <<chats, ledger, drift, found, hour>>

DetectContradictions(t) ==
    /\ Mine(t, "patterns") /\ Idle(t)
    /\ routine' = [routine EXCEPT ![t].at = "drift", ![t].todo = Drifts,
                                  ![t].flags = {x.about[1] : x \in Drifts}]
    /\ UNCHANGED <<chats, ledger, drift, found, hour>>

FinishRoutine(t) ==
    /\ Mine(t, "drift") /\ Idle(t)
    /\ routine' = [routine EXCEPT ![t].at = "finished"]
    /\ UNCHANGED <<chats, ledger, drift, found, hour>>

\* One detector after the other; the order of its items is a hash table's.
IsDue(t, item) == item \in routine[t].todo /\ \A other \in routine[t].todo : Rank(item) <= Rank(other)

\* Tool chains and errors are stored each time they are seen.
StoreUnasked(t) ==
    /\ routine[t].item = NoItemYet
    /\ \E item \in routine[t].todo :
          /\ IsDue(t, item) /\ item.kind \notin Asking
          /\ StoreObservation(t, item)
          /\ routine' = [routine EXCEPT ![t].todo = @ \ {item}]
    /\ UNCHANGED <<chats, ledger, drift, hour>>

CheckExisting(t) ==
    /\ routine[t].item = NoItemYet
    /\ \E item \in routine[t].todo :
          /\ IsDue(t, item) /\ item.kind \in Asking
          /\ routine' = IF AlreadyObserved(item)
                        THEN [routine EXCEPT ![t].todo = @ \ {item}]
                        ELSE [routine EXCEPT
                                 ![t].todo = @ \ {item}, ![t].item = item, ![t].seen = Len(found),
                                 ![t].full = ListUnresolved(KindOf[item.kind])
                                                 # Open(KindOf[item.kind])]
    /\ UNCHANGED <<chats, ledger, drift, found, hour>>

StoreChecked(t) ==
    /\ routine[t].item # NoItemYet
    /\ StoreObservation(t, routine[t].item)
    /\ routine' = [routine EXCEPT ![t].item = NoItemYet, ![t].seen = 0, ![t].full = FALSE]
    /\ UNCHANGED <<chats, ledger, drift, hour>>

\* An error of the database ends the routine, and nobody hears of it.
RoutineFails(t) ==
    /\ routine[t].at \in {"begun", "resolving", "tensions", "patterns", "drift"}
    /\ routine' = [routine EXCEPT ![t] = [NewRoutine EXCEPT !.at = "failed"]]
    /\ UNCHANGED <<chats, ledger, drift, found, hour>>

Routine(t) ==
    \/ ReadStale(t) \/ ResolveStale(t) \/ ReadLedger(t)
    \/ DetectPatterns(t) \/ DetectContradictions(t) \/ FinishRoutine(t)
    \/ StoreUnasked(t) \/ CheckExisting(t) \/ StoreChecked(t) \/ RoutineFails(t)

Chat(t) ==
    \/ TurnBegins(t)
    \/ \E batch \in Batches : CallTools(t, batch)
    \/ \E status \in {"succeeded", "awaiting_user"} : Reply(t, status)
    \/ \E logged \in BOOLEAN : FailChat(t, logged) \/ FailAnswered(t, logged)

ObsNext ==
    \/ \E t \in Chats : Chat(t) \/ Routine(t)
    \/ \E kind \in {"flag", "contradiction"}, t \in Chats :
          FlagDrift(kind, t)
    \/ HourPasses

ObsSpec == ObsInit /\ [][ObsNext]_obsVars

-----------------------------------------------------------------------------
(* Properties.                                                              *)

\* The tables and the routines have their shape.
ObsTypeOK ==
    /\ chats \in [Chats -> {"absent", "running", "succeeded", "awaiting_user", "failed"}]
    /\ \A i \in DOMAIN ledger : ledger[i].turn \in Chats /\ ledger[i].kind \in DOMAIN PayloadKeys
    /\ \A i \in DOMAIN found :
          /\ found[i].item.kind \in DOMAIN KindOf /\ found[i].at \in 0..hour
          /\ found[i].item.kind \in Asking => found[i].seen < i
    /\ \A t \in Chats :
          /\ routine[t].stale \subseteq DOMAIN found
          /\ chats[t] \in {"absent", "running"} => routine[t].at = "waiting"
          /\ t \in Answered => routine[t].at # "waiting"

\* detect_contradictions, detect_hypotheses and the other detectors that look
\* first (already_observed, observation_exists): there is a second open
\* observation of the same only when the first was not there yet at the look,
\* which takes two routines at once, or when the list was cut off at its limit.
SecondOnlyByRace ==
    \A i, j \in DOMAIN found :
        (/\ i < j /\ ~found[i].resolved
         /\ found[j].item.kind \in Asking /\ KindOf[found[i].item.kind] = KindOf[found[j].item.kind]
         /\ Same(found[i].item, found[j].item))
            => i > found[j].seen \/ found[j].full

\* A routine that came to its end has left nothing of what it saw unobserved:
\* every turn that was waiting for the user, and every drift item, by its id or
\* by a citation it shares with another.
NothingSeenGoesUnobserved ==
    \A t \in Chats : Mine(t, "finished") =>
        /\ \A u \in routine[t].asked :
              \E i \in DOMAIN found : Same(found[i].item, Item("awaiting_user", <<u>>, CiteTurn(u)))
        /\ \A d \in routine[t].flags :
              \E i \in DOMAIN found : Same(found[i].item, Item("drift", <<d>>, drift[d].cites))

\* Although a routine looks at a window of the ledger, no turn that stood answered
\* when it looked is said to have ended without a reply (has_assistant_after), nor
\* with an error no answer came after.  One that was answered and then failed by
\* its own upkeep stands answered no longer, and is said to.
NoChainWhileAnswered ==
    \A i \in DOMAIN found : found[i].item.kind \in {"incomplete_tool_chain", "unresolved_error"} =>
        found[i].item.about[1] \notin found[i].answered

\* auto_resolve_stale: what was too old when a routine began is resolved before
\* the routine looks at what is open, whoever else resolves or stores meanwhile.
AgedAreResolved ==
    \A t \in Chats : routine[t].at \in {"tensions", "patterns", "drift", "finished"} =>
        \A i \in DOMAIN found : routine[t].began - found[i].at > MaxAge => found[i].resolved

\* An observation once resolved stays so, and only age resolves it: nothing the
\* user or the model does closes an observation before.
OnlyAgeResolves ==
    \A i \in DOMAIN found :
        /\ found'[i].item = found[i].item
        /\ found'[i].resolved # found[i].resolved =>
              found'[i].resolved /\ hour - found[i].at > MaxAge

\* What routines store is what there was to observe: nothing twice but by a
\* race, nothing left out, nothing that stood answered.
ObservationsApt == SecondOnlyByRace /\ NothingSeenGoesUnobserved /\ NoChainWhileAnswered

\* Age, and nothing else, resolves an observation, and does so in time for the
\* next look.
AgeResolves == [][OnlyAgeResolves /\ AgedAreResolved']_obsVars
=============================================================================
