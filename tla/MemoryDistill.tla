--------------------------- MODULE MemoryDistill ---------------------------
(***************************************************************************)
(* Memory distillation: when a turn has settled, its upkeep shows a        *)
(* compressor the thread so far and the active invariants, and writes what *)
(* comes back: facts with their evidence, invariants that rest on facts or *)
(* supersede others, and a wake pack.                                      *)
(*                                                                         *)
(*   - sync_memory_for_turn, run_model_driven_distill,                     *)
(*     persist_compressor_output and what they call (runtime/memory.rs).   *)
(*   - The tables they write (db/memory.rs).  Each write is a series of    *)
(*     statements under the write lock but outside any transaction, and    *)
(*     each statement is a step here.                                      *)
(*                                                                         *)
(* An invariant is called a law here.  Ids are uuids in the code; here     *)
(* they are numbers in the order of creation, by which the tables are      *)
(* listed.  Recall chunks and drift items are written and can fail, but    *)
(* nothing is said of their contents; drift items of the three kinds are   *)
(* one list.                                                               *)
(***************************************************************************)
EXTENDS Integers, Sequences, FiniteSets

CONSTANTS
    Threads,       \* the threads of the agent
    AutoDistill,   \* the values of the setting enable_auto_distill
    PromptLimit,   \* how many laws the compressor is shown: 12 in the code
    ListLimit,     \* how many laws an item may supersede: 256 in the code
    OldLaws,       \* laws that an earlier process has left
    MaxTurns,      \* bound: turns, which are numbered as they begin
    MaxLaws,       \* bound: laws at a time
    MaxFacts,      \* bound: facts at a time
    MaxNew,        \* bound: facts in an output
    MaxItems,      \* bound: laws and drift items in an output, and removals
    MaxFaults,     \* bound: upkeeps that end with an error
    MaxCrashes,    \* bound: crashes
    MaxRebuilds    \* bound: runs of the command memory-rebuild

ASSUME MemoryAssumption ==
    /\ AutoDistill \subseteq {"on", "off"}
    /\ PromptLimit \in Nat /\ ListLimit \in Nat
    /\ OldLaws \in 0..MaxLaws /\ (OldLaws > 0 => MaxFacts > 0)
    /\ MaxTurns \in Nat /\ MaxLaws \in Nat /\ MaxFacts \in Nat
    /\ MaxNew \in Nat /\ MaxItems \in Nat
    /\ MaxFaults \in Nat /\ MaxCrashes \in Nat /\ MaxRebuilds \in Nat

Turns == 1..MaxTurns
LawIds == 1..MaxLaws
FactIds == 1..MaxFacts

VARIABLES
    (* The database. *)
    facts, cited,            \* the facts, and those whose evidence is recorded
    laws, active,            \* the laws, and those that are not superseded
    rests, over,             \* the facts a law rests on, the laws it supersedes
    packs,                   \* the wake packs, the latest last
    begun, thread, settled,  \* turns, their threads, and when they settled
    (* Tasks. *)
    pc,                      \* where the handler or the upkeep of a turn is
    frame,                   \* the locals of its upkeep
    (* Time and history. *)
    now,                     \* a clock that ticks as turns settle and packs are made
    cut,                     \* laws whose writing was cut short
    offered,                 \* turns whose answer was evidence for a compressor
    faults, crashes, rebuilds

factTables == <<facts, cited>>
lawTables == <<laws, active, rests, over>>
turnTables == <<begun, thread, settled>>
history == <<cut, offered>>
bounds == <<faults, crashes, rebuilds>>
vars == <<factTables, lawTables, packs, turnTables, pc, frame, now, history, bounds>>

\* Locations between two statements of one write, under the write lock.
Locked == {"citing", "deriving", "linking", "marking"}

Upkeep == {"recalling", "checking", "gathering", "asking", "storing", "removing",
           "adding", "packing"} \cup Locked

Locations == {"absent", "working", "over"} \cup Upkeep

\* A law or a drift item of the output: whether it cites evidence of the
\* thread and names the output's facts, and what it would supersede.  All
\* have a support excerpt and a falsifier; an item without is no law.
Items(ids) == [basis : SUBSET {"cited", "derived"}, over : SUBSET ids]
NoItem == [basis |-> {}, over |-> {}]

\* What an output says is chosen where it is used: of the output itself the
\* frame has the laws it may name and how much more it may say.
Frame == [auto : {"on", "off"},          \* the setting of this turn
          shown : SUBSET LawIds,         \* laws in the prompt
          left : 0..MaxItems,            \* items and removals still allowed
          list : {"laws", "drift"},      \* the list that is being added
          known : SUBSET FactIds,        \* facts that were stored
          eligible : SUBSET LawIds,      \* laws an item may supersede
          item : Items(LawIds),          \* the item that becomes a law
          row : Nat,                     \* the fact or law being written
          promoted : SUBSET LawIds]      \* laws the wake pack will name

NewFrame == [auto |-> "on", shown |-> {}, left |-> MaxItems, list |-> "laws", known |-> {},
             eligible |-> {}, item |-> NoItem, row |-> 0, promoted |-> {}]

TypeOK ==
    /\ facts \in SUBSET FactIds /\ cited \in SUBSET facts
    /\ laws \in SUBSET LawIds /\ active \in SUBSET laws
    /\ rests \in [LawIds -> SUBSET FactIds]
    /\ over \in [LawIds -> SUBSET LawIds]
    /\ packs \in Seq([laws : SUBSET LawIds, at : Nat])
    /\ begun \in 0..MaxTurns
    /\ thread \in [Turns -> Threads]
    /\ settled \in [Turns -> Nat]
    /\ pc \in [Turns -> Locations]
    /\ frame \in [Turns -> Frame]
    /\ now \in Nat
    /\ cut \in SUBSET LawIds
    /\ offered \in SUBSET Turns
    /\ faults \in 0..MaxFaults /\ crashes \in 0..MaxCrashes
    /\ rebuilds \in 0..MaxRebuilds

\* What an earlier process has left rests on one fact.
Init ==
    /\ facts = (IF OldLaws > 0 THEN {1} ELSE {}) /\ cited = facts
    /\ laws = 1..OldLaws /\ active = laws
    /\ rests = [i \in LawIds |-> IF i \in laws THEN facts ELSE {}]
    /\ over = [i \in LawIds |-> {}]
    /\ packs = <<>>
    /\ begun = 0 /\ thread \in [Turns -> Threads]
    /\ settled = [t \in Turns |-> 0]
    /\ pc = [t \in Turns |-> "absent"]
    /\ frame = [t \in Turns |-> NewFrame]
    /\ now = 0 /\ cut = {} /\ offered = {}
    /\ faults = 0 /\ crashes = 0 /\ rebuilds = 0

At(t, location) == pc[t] = location
Goto(t, location) == pc' = [pc EXCEPT ![t] = location]
Ends(t) == Goto(t, "over") /\ frame' = [frame EXCEPT ![t] = NewFrame]

\* Nobody else holds the write lock.
MayWrite(t) == \A u \in Turns \ {t} : pc[u] \notin Locked

\* Ids are given in order.
IsNext(id, ids) == id \notin ids /\ \A earlier \in 1..id - 1 : earlier \in ids

\* list_active_memory_invariants: the newest ones, up to a limit.
ListActive(limit) == {i \in active : Cardinality({j \in active : j > i}) < limit}

\* What an item supersedes and rests on.
Supersedes(t, item) == item.over \cap frame[t].eligible
RestsOn(t, item) == IF "derived" \in item.basis THEN frame[t].known ELSE {}

\* Laws whose rows are there and whose links are not yet.
InFlight(t) == IF pc[t] \in {"deriving", "linking", "marking"} THEN {frame[t].row} ELSE {}

-----------------------------------------------------------------------------
(* Mutants: each is a plausible slip in the definition it is named after,  *)
(* and breaks one of the properties below.                                 *)

MutAnswersUpTo(t) ==                         \* the loop left before the frontier
    {u \in 1..t - 1 : thread[u] = thread[t] /\ settled[u] > 0}

MutMarkSuperseded(t) ==                      \* the update forgotten
    /\ At(t, "marking")
    /\ Goto(t, "linking")
    /\ UNCHANGED <<factTables, lawTables, packs, turnTables, frame, now, history, bounds>>

MutRebuild ==                                \* a table left out
    /\ rebuilds < MaxRebuilds /\ \A t \in Turns : pc[t] \in {"absent", "over"}
    /\ rebuilds' = rebuilds + 1
    /\ facts' = {} /\ laws' = {} /\ active' = {} /\ cut' = {}
    /\ rests' = [i \in LawIds |-> {}] /\ over' = [i \in LawIds |-> {}]
    /\ packs' = [n \in DOMAIN packs |-> [packs[n] EXCEPT !.laws = {}]]
    /\ UNCHANGED <<cited, turnTables, pc, frame, now, offered, faults, crashes>>

-----------------------------------------------------------------------------
(* Turns.                                                                  *)

Begin(t) ==
    /\ At(t, "absent") /\ t = begun + 1
    /\ begun' = t
    /\ Goto(t, "working")
    /\ UNCHANGED <<factTables, lawTables, packs, thread, settled, frame, now, history, bounds>>

\* The turn has its answer; spawn_post_turn_maintenance, with the settings
\* that the turn was given.
Settle(t) ==
    /\ At(t, "working")
    /\ now' = now + 1
    /\ settled' = [settled EXCEPT ![t] = now']
    /\ \E setting \in AutoDistill : frame' = [frame EXCEPT ![t].auto = setting]
    /\ Goto(t, "recalling")
    /\ UNCHANGED <<factTables, lawTables, packs, begun, thread, history, bounds>>

\* A turn that fails has no answer and no upkeep.
TurnFails(t) ==
    /\ At(t, "working")
    /\ Goto(t, "over")
    /\ UNCHANGED <<factTables, lawTables, packs, turnTables, frame, now, history, bounds>>

-----------------------------------------------------------------------------
(* What the compressor is shown.                                           *)

SyncRecall(t) ==
    /\ At(t, "recalling") /\ MayWrite(t)
    /\ Goto(t, "checking")
    /\ UNCHANGED <<factTables, lawTables, packs, turnTables, frame, now, history, bounds>>

\* frontier_needs_model_driven_catchup: no wake pack since the turn settled.
NeedsCatchup(t) == \A n \in DOMAIN packs : packs[n].at < settled[t]

StartDistill(t) ==
    /\ At(t, "checking") /\ (frame[t].auto = "on" \/ NeedsCatchup(t))
    /\ Goto(t, "gathering")
    /\ UNCHANGED <<factTables, lawTables, packs, turnTables, frame, now, history, bounds>>

SkipDistill(t) ==
    /\ At(t, "checking") /\ frame[t].auto = "off" /\ ~NeedsCatchup(t)
    /\ Ends(t)
    /\ UNCHANGED <<factTables, lawTables, packs, turnTables, now, history, bounds>>

\* thread_history_entries_up_to_frontier: the answers of the thread's turns,
\* down to this turn in the order of creation.
AnswersUpTo(t) == {u \in 1..t : thread[u] = thread[t] /\ settled[u] > 0}

\* The prompt shows active laws together with what they supersede.
InPrompt == LET listed == ListActive(PromptLimit)
            IN listed \cup UNION {over[i] : i \in listed}

\* The reads of run_model_driven_distill.
GatherPrompt(t) ==
    /\ At(t, "gathering")
    /\ offered' = offered \cup AnswersUpTo(t)
    /\ frame' = [frame EXCEPT ![t].shown = InPrompt]
    /\ Goto(t, "asking")
    /\ UNCHANGED <<factTables, lawTables, packs, turnTables, now, cut, bounds>>

\* One exchange, or two when the first output has to be repaired.
Answer(t) ==
    /\ At(t, "asking")
    /\ frame' = [frame EXCEPT ![t].auto = "on"]
    /\ Goto(t, "storing")
    /\ UNCHANGED <<factTables, lawTables, packs, turnTables, now, history, bounds>>

\* No output, even repaired.  persist_deterministic_distill writes a wake
\* pack from the last entries of the ledger; the catch-up writes none.
NoAnswer(t) ==
    /\ At(t, "asking")
    /\ frame' = [frame EXCEPT ![t] = NewFrame]
    /\ Goto(t, IF frame[t].auto = "on" THEN "packing" ELSE "over")
    /\ UNCHANGED <<factTables, lawTables, packs, turnTables, now, history, bounds>>

-----------------------------------------------------------------------------
(* persist_compressor_output.                                              *)

\* insert_memory_fact: the fact, then its evidence, then its id goes to the
\* items that name it.  A fact that cites no evidence is left out.
InsertFact(t, id) ==
    /\ At(t, "storing") /\ Cardinality(frame[t].known) < MaxNew /\ MayWrite(t)
    /\ id \in FactIds /\ IsNext(id, facts)
    /\ facts' = facts \cup {id}
    /\ frame' = [frame EXCEPT ![t].row = id]
    /\ Goto(t, "citing")
    /\ UNCHANGED <<cited, lawTables, packs, turnTables, now, history, bounds>>

CiteEvidence(t) ==
    /\ At(t, "citing")
    /\ cited' = cited \cup {frame[t].row}
    /\ frame' = [frame EXCEPT ![t].known = @ \cup {frame[t].row}, ![t].row = 0]
    /\ Goto(t, "storing")
    /\ UNCHANGED <<facts, lawTables, packs, turnTables, now, history, bounds>>

FactsStored(t) ==
    /\ At(t, "storing")
    /\ Goto(t, "removing")
    /\ UNCHANGED <<factTables, lawTables, packs, turnTables, frame, now, history, bounds>>

\* supersede_active_invariants, one law at a time.
RemoveLaw(t, id) ==
    /\ At(t, "removing") /\ frame[t].left > 0 /\ MayWrite(t)
    /\ id \in frame[t].shown
    /\ active' = active \ {id}
    /\ frame' = [frame EXCEPT ![t].left = @ - 1]
    /\ UNCHANGED <<factTables, laws, rests, over, packs, turnTables, pc, now, history, bounds>>

\* persist_compressor_artifact_list reads the active laws once for a list:
\* for the laws to add, and again for drift items.
StartList(t, list) ==
    /\ \/ At(t, "removing") /\ list = "laws"
       \/ At(t, "adding") /\ frame[t].list = "laws" /\ list = "drift"
    /\ frame' = [frame EXCEPT ![t].list = list, ![t].eligible = ListActive(ListLimit)]
    /\ Goto(t, "adding")
    /\ UNCHANGED <<factTables, lawTables, packs, turnTables, now, history, bounds>>

\* prepare_compressor_artifact: an item becomes a law when it supersedes an
\* active one, or cites evidence and derives from facts that were stored.
\* The kind of the list makes no difference.
IsPromoted(t, item) ==
    \/ Supersedes(t, item) # {}
    \/ "cited" \in item.basis /\ RestsOn(t, item) # {}

\* insert_memory_invariant: the row, its facts, and then for each superseded
\* law a link and an update.  An item that becomes no law changes nothing.
InsertLaw(t, id, item) ==
    /\ At(t, "adding") /\ frame[t].left > 0 /\ MayWrite(t)
    /\ IsPromoted(t, item)
    /\ id \in LawIds /\ IsNext(id, laws)
    /\ laws' = laws \cup {id} /\ active' = active \cup {id}
    /\ frame' = [frame EXCEPT ![t].left = @ - 1, ![t].row = id, ![t].item = item]
    /\ Goto(t, "deriving")
    /\ UNCHANGED <<factTables, rests, over, packs, turnTables, now, history, bounds>>

\* One step for all the facts: a law left with some of them is cut short.
LinkFacts(t) ==
    /\ At(t, "deriving")
    /\ rests' = [rests EXCEPT ![frame[t].row] = RestsOn(t, frame[t].item)]
    /\ Goto(t, "linking")
    /\ UNCHANGED <<factTables, laws, active, over, packs, turnTables, frame, now, history, bounds>>

LinkLaw(t, id) ==
    /\ At(t, "linking") /\ id \in Supersedes(t, frame[t].item) \ over[frame[t].row]
    /\ over' = [over EXCEPT ![frame[t].row] = @ \cup {id}]
    /\ Goto(t, "marking")
    /\ UNCHANGED <<factTables, laws, active, rests, packs, turnTables, frame, now, history, bounds>>

MarkSuperseded(t) ==
    /\ At(t, "marking")
    /\ active' = active \ over[frame[t].row]
    /\ Goto(t, "linking")
    /\ UNCHANGED <<factTables, laws, rests, over, packs, turnTables, frame, now, history, bounds>>

\* The wake pack will name the laws of the first list only.
LawWritten(t) ==
    /\ At(t, "linking") /\ Supersedes(t, frame[t].item) \subseteq over[frame[t].row]
    /\ frame' = [frame EXCEPT ![t].row = 0, ![t].item = NoItem,
                    ![t].promoted = @ \cup (IF frame[t].list = "laws"
                                            THEN {frame[t].row} ELSE {})]
    /\ Goto(t, "adding")
    /\ UNCHANGED <<factTables, lawTables, packs, turnTables, now, history, bounds>>

\* persist_compressor_drift_items.
StoreDrift(t) ==
    /\ At(t, "adding") /\ frame[t].list = "drift" /\ MayWrite(t)
    /\ frame' = [frame EXCEPT ![t] = [NewFrame EXCEPT !.promoted = frame[t].promoted]]
    /\ Goto(t, "packing")
    /\ UNCHANGED <<factTables, lawTables, packs, turnTables, now, history, bounds>>

InsertPack(t) ==
    /\ At(t, "packing") /\ MayWrite(t)
    /\ now' = now + 1
    /\ packs' = Append(packs, [laws |-> frame[t].promoted, at |-> now'])
    /\ Ends(t)
    /\ UNCHANGED <<factTables, lawTables, turnTables, history, bounds>>

-----------------------------------------------------------------------------
(* Failures, crashes and the rebuild.                                      *)

\* A statement or the exchange fails: the upkeep is over, which is logged.
UpkeepFails(t) ==
    /\ pc[t] \in Upkeep /\ faults < MaxFaults
    /\ faults' = faults + 1
    /\ cut' = cut \cup InFlight(t)
    /\ Ends(t)
    /\ UNCHANGED <<factTables, lawTables, packs, turnTables, now, offered, crashes, rebuilds>>

\* Turns and upkeeps are gone; what recovery does with the turns'
\* rows (TurnLifecycle) gives them no answer.
Crash ==
    /\ crashes < MaxCrashes
    /\ crashes' = crashes + 1
    /\ cut' = cut \cup UNION {InFlight(t) : t \in Turns}
    /\ pc' = [t \in Turns |-> IF pc[t] = "absent" THEN "absent" ELSE "over"]
    /\ frame' = [t \in Turns |-> NewFrame]
    /\ UNCHANGED <<factTables, lawTables, packs, turnTables, now, offered, faults, rebuilds>>

\* The command memory-rebuild, with no agent at work.  clear_rebuilt_memory
\* ends with an error at memory_policies, a table that every start drops:
\* facts, laws and links are gone, wake packs stay, no turn is replayed.
Rebuild ==
    /\ rebuilds < MaxRebuilds /\ \A t \in Turns : pc[t] \in {"absent", "over"}
    /\ rebuilds' = rebuilds + 1
    /\ facts' = {} /\ cited' = {} /\ laws' = {} /\ active' = {} /\ cut' = {}
    /\ rests' = [i \in LawIds |-> {}] /\ over' = [i \in LawIds |-> {}]
    /\ packs' = [n \in DOMAIN packs |-> [packs[n] EXCEPT !.laws = {}]]
    /\ UNCHANGED <<turnTables, pc, frame, now, offered, faults, crashes>>

-----------------------------------------------------------------------------
Turn(t) == Begin(t) \/ Settle(t) \/ TurnFails(t)

Ask(t) ==
    \/ SyncRecall(t) \/ StartDistill(t) \/ SkipDistill(t)
    \/ GatherPrompt(t) \/ Answer(t) \/ NoAnswer(t)

Persist(t) ==
    \/ \E id \in FactIds : InsertFact(t, id)
    \/ CiteEvidence(t) \/ FactsStored(t)
    \/ \E list \in {"laws", "drift"} : StartList(t, list)
    \/ \E id \in LawIds :
           \/ RemoveLaw(t, id) \/ LinkLaw(t, id)
           \/ \E item \in Items(frame[t].shown) : InsertLaw(t, id, item)
    \/ LinkFacts(t) \/ MarkSuperseded(t) \/ LawWritten(t)
    \/ StoreDrift(t) \/ InsertPack(t)

Next ==
    \/ \E t \in Turns : Turn(t) \/ Ask(t) \/ Persist(t) \/ UpkeepFails(t)
    \/ Crash \/ Rebuild

Spec == Init /\ [][Next]_vars

-----------------------------------------------------------------------------
(* Properties.                                                             *)

\* The law rests on facts or supersedes another, and what it supersedes is
\* no longer active.
Whole(i) == (rests[i] # {} \/ over[i] # {}) /\ over[i] \cap active = {}

\* Whichever statement fails, and however the upkeeps of several turns
\* overlap, every law is whole: written out, being written by the one holder
\* of the lock, or cut short by a failure, of which each leaves one at most.
LawsWhole ==
    /\ \A i \in laws \ cut : Whole(i) \/ \E t \in Turns : InFlight(t) = {i}
    /\ Cardinality(cut) <= faults + crashes

\* No law rests on a fact whose evidence was not recorded, although each
\* fact, its evidence and its laws are written in separate statements any
\* of which may fail.
LawsRestOnEvidence == \A i \in laws : rests[i] \subseteq cited

\* A wake pack names only laws that are whole, never one that a failure cut
\* short: it is written last, and only with ids of writes that succeeded.
PackedLawsWhole ==
    \A n \in DOMAIN packs : \A i \in packs[n].laws : i \in laws /\ Whole(i)

\* Laws are sound: whole, on recorded evidence, and so are those that wake
\* packs name.
LawsSound == LawsWhole /\ LawsRestOnEvidence /\ PackedLawsWhole

\* Unless something fails, the upkeep of a turn is over only when its answer
\* was evidence for a compressor or is older than some wake pack, whatever
\* the settings and whichever upkeep of the other turns was faster.
StaleTurnsCaughtUp ==
    \A t \in Turns :
        faults + crashes = 0 /\ At(t, "over") /\ settled[t] > 0 =>
            t \in offered \/ \E n \in DOMAIN packs : packs[n].at > settled[t]
=============================================================================
