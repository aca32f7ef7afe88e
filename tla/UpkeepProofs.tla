---------------------------- MODULE UpkeepProofs -----------------------------
(***************************************************************************)
(* Proofs about what follows a turn, each for any number of turns and of   *)
(* failures.                                                               *)
(*                                                                         *)
(* MemoryDistill: what a compressor has said is in the tables whole, rests *)
(* on recorded evidence, and is what wake packs name; and a turn that was  *)
(* stale when a compressor began is caught up with when it has ended.      *)
(*                                                                         *)
(* Observations: routines store nothing twice but by a race, leave nothing *)
(* out that they saw and store nothing that was answered, and age alone    *)
(* resolves what they stored.                                              *)
(***************************************************************************)
EXTENDS MemoryDistill, Observations, FiniteSetTheorems, SequenceTheorems, TLAPS

-----------------------------------------------------------------------------
(* The inductive invariant.                                                *)

\* A law has its row and not yet all of its links.
Writing == {"deriving", "linking", "marking"}

\* No upkeep, so that the locals are blank.
Resting == {"absent", "working", "over"}

\* The row a task is at exists: types alone are not inductive.
RowsOK ==
    \A t \in Turns :
        /\ At(t, "citing") => frame[t].row \in facts
        /\ pc[t] \in Writing => frame[t].row \in laws

Typed == TypeOK /\ RowsOK

\* What an item may come to rest on has its evidence.
EvidenceOK ==
    /\ \A t \in Turns : frame[t].known \subseteq cited
    /\ \A t \in Turns : pc[t] \in Resting => frame[t].known = {}
    /\ \A i \in LawIds : rests[i] \subseteq cited

\* The write lock.
OneWriter == \A t, u \in Turns : pc[t] \in Locked /\ pc[u] \in Locked => t = u

\* Links only lead to laws, so that an id which is given out is new to all
\* of them.
TablesOK ==
    /\ cut \subseteq laws
    /\ \A i \in LawIds : over[i] \subseteq laws
    /\ \A i \in LawIds \ laws : rests[i] = {} /\ over[i] = {}
    /\ \A t \in Turns : frame[t].eligible \subseteq laws
    /\ \A t \in Turns : pc[t] \in Resting => frame[t].eligible = {}

\* A law that has all its links, and whose writer is through with it.
Done(i) == i \in laws /\ Whole(i) /\ \A t \in Turns : i \notin InFlight(t)

\* A law that is being written, with the links that its location calls for.
Half(t) ==
    LET i == frame[t].row
        item == frame[t].item
    IN /\ i \in laws \ cut
       /\ IsPromoted(t, item)
       /\ At(t, "deriving") => rests[i] = {} /\ over[i] = {}
       /\ pc[t] # "deriving" =>
              rests[i] = RestsOn(t, item) /\ over[i] \subseteq Supersedes(t, item)
       /\ At(t, "linking") => over[i] \cap active = {}

\* What a wake pack names or is to name is done; and what no failure has cut
\* short is done or being written.
WritesOK ==
    /\ \A t \in Turns : pc[t] \in Writing => Half(t)
    /\ \A t \in Turns : \A i \in frame[t].promoted : Done(i)
    /\ \A n \in DOMAIN packs : \A i \in packs[n].laws : Done(i)
    /\ \A i \in laws \ cut : Done(i) \/ \E t \in Turns : i \in InFlight(t)
    /\ \A t \in Turns : pc[t] \in Resting => frame[t].promoted = {}

\* Each failure cuts one law short at most.
CutBound == IsFiniteSet(cut) /\ Cardinality(cut) <= faults + crashes
-----------------------------------------------------------------------------
(* Types.                                                                  *)

LEMMA NewFrameTyped == NewFrame \in Frame
  <1>1. MaxItems \in Nat
    BY MemoryAssumption
  <1>2. NoItem \in Items(LawIds)
    BY DEF NoItem, Items
  <1> QED BY <1>1, <1>2 DEF NewFrame, Frame

\* The shapes of a location table and of a table of frames after a step.
LEMMA LocationTyped ==
    ASSUME TypeOK, NEW t \in Turns, NEW location \in Locations
    PROVE  [pc EXCEPT ![t] = location] \in [Turns -> Locations]
  BY DEF TypeOK

LEMMA FrameTyped ==
    ASSUME TypeOK, NEW t \in Turns, NEW f \in Frame
    PROVE  [frame EXCEPT ![t] = f] \in [Turns -> Frame]
  BY DEF TypeOK

LEMMA FramesTyped == TypeOK => \A t \in Turns : frame[t] \in Frame
  BY DEF TypeOK

LEMMA EndsTyped ==
    ASSUME TypeOK, NEW t \in Turns, Ends(t)
    PROVE  pc' \in [Turns -> Locations] /\ frame' \in [Turns -> Frame]
  <1>1. "over" \in Locations
    BY DEF Locations
  <1> QED BY <1>1, LocationTyped, FrameTyped, NewFrameTyped DEF Ends, Goto

LEMMA PackTyped ==
    ASSUME TypeOK, NEW ids \in SUBSET LawIds
    PROVE  Append(packs, [laws |-> ids, at |-> now + 1])
               \in Seq([laws : SUBSET LawIds, at : Nat])
  BY AppendProperties DEF TypeOK

LEMMA BlankPacksTyped ==
    TypeOK => [n \in DOMAIN packs |-> [packs[n] EXCEPT !.laws = {}]]
                  \in Seq([laws : SUBSET LawIds, at : Nat])
  <1> SUFFICES ASSUME TypeOK
               PROVE  [n \in DOMAIN packs |-> [packs[n] EXCEPT !.laws = {}]]
                          \in Seq([laws : SUBSET LawIds, at : Nat])
    OBVIOUS
  <1> DEFINE Pack == [laws : SUBSET LawIds, at : Nat]
  <1>1. packs \in Seq(Pack)
    BY DEF TypeOK
  <1>2. DOMAIN packs = 1..Len(packs) /\ Len(packs) \in Nat
    BY <1>1
  <1>3. ASSUME NEW n \in 1..Len(packs)
        PROVE  [packs[n] EXCEPT !.laws = {}] \in Pack
    <2>1. packs[n] \in Pack
      BY <1>1, ElementOfSeq
    <2> QED BY <2>1
  <1>4. [n \in 1..Len(packs) |-> [packs[n] EXCEPT !.laws = {}]] \in Seq(Pack)
    <2> HIDE DEF Pack
    <2> QED BY <1>2, <1>3
  <1> QED BY <1>2, <1>4

\* Where no table is written, the locations and the frames are all there is
\* to type.
LEMMA OnlyTaskTyped ==
    ASSUME TypeOK, pc' \in [Turns -> Locations], frame' \in [Turns -> Frame],
           UNCHANGED <<factTables, lawTables, packs, turnTables, now, cut, bounds>>,
           offered' \in SUBSET Turns
    PROVE  TypeOK'
  BY DEF TypeOK, factTables, lawTables, turnTables, bounds

LEMMA TurnTyped == ASSUME TypeOK, NEW t \in Turns, Turn(t) PROVE TypeOK'
  <1>1. CASE Begin(t)
    <2>1. pc' \in [Turns -> Locations]
      BY <1>1, LocationTyped DEF Begin, Goto, Locations
    <2>2. begun' \in 0..MaxTurns
      BY <1>1, MemoryAssumption DEF Begin, Turns
    <2> QED BY <1>1, <2>1, <2>2
         DEF Begin, TypeOK, factTables, lawTables, history, bounds
  <1>2. CASE Settle(t)
    <2>1. pc' \in [Turns -> Locations]
      BY <1>2, LocationTyped DEF Settle, Goto, Locations, Upkeep
    <2>2. ASSUME NEW setting \in AutoDistill
          PROVE  [frame EXCEPT ![t].auto = setting] \in [Turns -> Frame]
      <3>1. [frame[t] EXCEPT !.auto = setting] \in Frame
        BY FramesTyped, MemoryAssumption DEF Frame
      <3>2. [frame EXCEPT ![t].auto = setting]
                = [frame EXCEPT ![t] = [frame[t] EXCEPT !.auto = setting]]
        BY DEF TypeOK
      <3> QED BY <3>1, <3>2, FrameTyped
    <2>3. frame' \in [Turns -> Frame]
      BY <1>2, <2>2 DEF Settle
    <2>4. now' \in Nat /\ settled' \in [Turns -> Nat]
      BY <1>2 DEF Settle, TypeOK
    <2> QED BY <1>2, <2>1, <2>3, <2>4
         DEF Settle, TypeOK, factTables, lawTables, history, bounds
  <1>3. CASE TurnFails(t)
    <2>1. pc' \in [Turns -> Locations]
      BY <1>3, LocationTyped DEF TurnFails, Goto, Locations
    <2> QED BY <1>3, <2>1, OnlyTaskTyped
         DEF TurnFails, TypeOK, turnTables, history
  <1> QED BY <1>1, <1>2, <1>3 DEF Turn

LEMMA AskTyped == ASSUME TypeOK, NEW t \in Turns, Ask(t) PROVE TypeOK'
  <1>0. frame \in [Turns -> Frame] /\ offered \in SUBSET Turns
    BY DEF TypeOK
  <1>1. CASE SyncRecall(t)
    <2>1. pc' \in [Turns -> Locations]
      BY <1>1, LocationTyped DEF SyncRecall, Goto, Locations, Upkeep
    <2> QED BY <1>0, <1>1, <2>1, OnlyTaskTyped DEF SyncRecall, history
  <1>2. CASE StartDistill(t)
    <2>1. pc' \in [Turns -> Locations]
      BY <1>2, LocationTyped DEF StartDistill, Goto, Locations, Upkeep
    <2> QED BY <1>0, <1>2, <2>1, OnlyTaskTyped DEF StartDistill, history
  <1>3. CASE SkipDistill(t)
    <2>1. pc' \in [Turns -> Locations] /\ frame' \in [Turns -> Frame]
      BY <1>3, EndsTyped DEF SkipDistill
    <2> QED BY <1>0, <1>3, <2>1, OnlyTaskTyped DEF SkipDistill, history
  <1>4. CASE GatherPrompt(t)
    <2>1. pc' \in [Turns -> Locations]
      BY <1>4, LocationTyped DEF GatherPrompt, Goto, Locations, Upkeep
    <2>2. InPrompt \in SUBSET LawIds
      <3>1. active \in SUBSET LawIds /\ over \in [LawIds -> SUBSET LawIds]
        BY DEF TypeOK
      <3>2. ListActive(PromptLimit) \in SUBSET LawIds
        BY <3>1 DEF ListActive
      <3>3. \A i \in ListActive(PromptLimit) : over[i] \in SUBSET LawIds
        BY <3>1, <3>2
      <3> HIDE DEF ListActive
      <3> QED BY <3>2, <3>3 DEF InPrompt
    <2>3. [frame[t] EXCEPT !.shown = InPrompt] \in Frame
      <3> HIDE DEF InPrompt
      <3> QED BY <2>2, FramesTyped DEF Frame
    <2>4. frame' = [frame EXCEPT ![t] = [frame[t] EXCEPT !.shown = InPrompt]]
      BY <1>0, <1>4 DEF GatherPrompt
    <2>5. frame' \in [Turns -> Frame]
      BY <2>3, <2>4, FrameTyped
    <2>6. offered' \in SUBSET Turns
      <3>1. 1..t \subseteq Turns
        BY MemoryAssumption DEF Turns
      <3>2. AnswersUpTo(t) \subseteq Turns
        BY <3>1 DEF AnswersUpTo
      <3> QED BY <1>0, <1>4, <3>2 DEF GatherPrompt
    <2> QED BY <1>4, <2>1, <2>5, <2>6, OnlyTaskTyped DEF GatherPrompt
  <1>5. CASE Answer(t)
    <2>1. pc' \in [Turns -> Locations]
      BY <1>5, LocationTyped DEF Answer, Goto, Locations, Upkeep
    <2>2. [frame[t] EXCEPT !.auto = "on"] \in Frame
      BY FramesTyped DEF Frame
    <2>3. frame' = [frame EXCEPT ![t] = [frame[t] EXCEPT !.auto = "on"]]
      BY <1>0, <1>5 DEF Answer
    <2> QED BY <1>0, <1>5, <2>1, <2>2, <2>3, FrameTyped, OnlyTaskTyped DEF Answer, history
  <1>6. CASE NoAnswer(t)
    <2>1. pc' \in [Turns -> Locations]
      <3>1. "packing" \in Locations /\ "over" \in Locations
        BY DEF Locations, Upkeep
      <3> QED BY <1>6, <3>1, LocationTyped DEF NoAnswer, Goto
    <2> QED BY <1>0, <1>6, <2>1, NewFrameTyped, FrameTyped, OnlyTaskTyped
         DEF NoAnswer, history
  <1> QED BY <1>1, <1>2, <1>3, <1>4, <1>5, <1>6 DEF Ask

LEMMA FactsTyped ==
    ASSUME TypeOK, RowsOK, NEW t \in Turns,
           \/ \E id \in FactIds : InsertFact(t, id)
           \/ CiteEvidence(t)
    PROVE  TypeOK'
  <1>0. frame \in [Turns -> Frame] /\ facts \in SUBSET FactIds /\ cited \in SUBSET FactIds
    BY DEF TypeOK
  <1>1. ASSUME NEW id \in FactIds, InsertFact(t, id) PROVE TypeOK'
    <2>1. pc' \in [Turns -> Locations]
      BY <1>1, LocationTyped DEF InsertFact, Goto, Locations, Upkeep, Locked
    <2>2. [frame[t] EXCEPT !.row = id] \in Frame
      BY FramesTyped DEF Frame, FactIds
    <2>3. frame' = [frame EXCEPT ![t] = [frame[t] EXCEPT !.row = id]]
      BY <1>0, <1>1 DEF InsertFact
    <2>4. frame' \in [Turns -> Frame]
      BY <2>2, <2>3, FrameTyped
    <2>5. facts' \in SUBSET FactIds /\ cited' \in SUBSET facts'
      BY <1>1 DEF InsertFact, TypeOK
    <2> QED BY <1>1, <2>1, <2>4, <2>5
         DEF InsertFact, TypeOK, lawTables, turnTables, history, bounds
  <1>2. ASSUME CiteEvidence(t) PROVE TypeOK'
    <2>0. frame[t].row \in facts
      BY <1>2 DEF CiteEvidence, RowsOK
    <2>1. pc' \in [Turns -> Locations]
      BY <1>2, LocationTyped DEF CiteEvidence, Goto, Locations, Upkeep
    <2>2. [frame[t] EXCEPT !.known = @ \cup {frame[t].row}, !.row = 0] \in Frame
      BY <1>0, <2>0, FramesTyped DEF Frame
    <2>3. frame' = [frame EXCEPT ![t] =
                       [frame[t] EXCEPT !.known = @ \cup {frame[t].row}, !.row = 0]]
      BY <1>0, <1>2 DEF CiteEvidence
    <2>4. frame' \in [Turns -> Frame]
      BY <2>2, <2>3, FrameTyped
    <2>5. facts' \in SUBSET FactIds /\ cited' \in SUBSET facts'
      BY <1>2, <2>0 DEF CiteEvidence, TypeOK
    <2> QED BY <1>2, <2>1, <2>4, <2>5
         DEF CiteEvidence, TypeOK, lawTables, turnTables, history, bounds
  <1> QED BY <1>1, <1>2

LEMMA RemovalsTyped ==
    ASSUME TypeOK, NEW t \in Turns,
           \/ FactsStored(t)
           \/ \E id \in LawIds : RemoveLaw(t, id)
           \/ \E list \in {"laws", "drift"} : StartList(t, list)
    PROVE  TypeOK'
  <1>0. frame \in [Turns -> Frame] /\ offered \in SUBSET Turns
    BY DEF TypeOK
  <1>1. CASE FactsStored(t)
    <2>1. pc' \in [Turns -> Locations]
      BY <1>1, LocationTyped DEF FactsStored, Goto, Locations, Upkeep
    <2> QED BY <1>0, <1>1, <2>1, OnlyTaskTyped DEF FactsStored, history
  <1>2. ASSUME NEW id \in LawIds, RemoveLaw(t, id) PROVE TypeOK'
    <2>1. frame[t].left \in 0..MaxItems /\ frame[t].left > 0
      BY <1>2, FramesTyped DEF RemoveLaw, Frame
    <2>2. frame[t].left - 1 \in 0..MaxItems
      BY <2>1, MemoryAssumption
    <2>3. [frame[t] EXCEPT !.left = @ - 1] \in Frame
      BY <2>2, FramesTyped DEF Frame
    <2>4. frame' = [frame EXCEPT ![t] = [frame[t] EXCEPT !.left = @ - 1]]
      BY <1>0, <1>2 DEF RemoveLaw
    <2>5. frame' \in [Turns -> Frame]
      BY <2>3, <2>4, FrameTyped
    <2>6. active' \in SUBSET laws
      BY <1>2 DEF RemoveLaw, TypeOK
    <2> QED BY <1>2, <2>5, <2>6
         DEF RemoveLaw, TypeOK, factTables, turnTables, history, bounds
  <1>3. ASSUME NEW list \in {"laws", "drift"}, StartList(t, list) PROVE TypeOK'
    <2>1. pc' \in [Turns -> Locations]
      BY <1>3, LocationTyped DEF StartList, Goto, Locations, Upkeep
    <2>2. ListActive(ListLimit) \in SUBSET LawIds
      BY DEF ListActive, TypeOK
    <2> DEFINE f == [frame[t] EXCEPT !.list = list]
               g == [f EXCEPT !.eligible = ListActive(ListLimit)]
    <2>3. f \in Frame
      BY FramesTyped DEF Frame
    <2>4. g \in Frame
      <3> HIDE DEF f, ListActive
      <3> QED BY <2>2, <2>3 DEF Frame
    <2>5. frame' = [frame EXCEPT ![t] = g]
      BY <1>0, <1>3 DEF StartList
    <2>6. frame' \in [Turns -> Frame]
      <3> HIDE DEF g
      <3> QED BY <2>4, <2>5, FrameTyped
    <2> QED BY <1>0, <1>3, <2>1, <2>6, OnlyTaskTyped DEF StartList, history
  <1> QED BY <1>1, <1>2, <1>3

LEMMA LawTyped ==
    ASSUME TypeOK, RowsOK, NEW t \in Turns,
           \/ \E id \in LawIds :
                 \/ LinkLaw(t, id)
                 \/ \E item \in Items(frame[t].shown) : InsertLaw(t, id, item)
           \/ LinkFacts(t) \/ MarkSuperseded(t)
    PROVE  TypeOK'
  <1>0. frame \in [Turns -> Frame] /\ laws \in SUBSET LawIds /\ active \in SUBSET laws
    BY DEF TypeOK
  <1>1. ASSUME NEW id \in LawIds, LinkLaw(t, id) PROVE TypeOK'
    <2>1. pc' \in [Turns -> Locations]
      BY <1>1, LocationTyped DEF LinkLaw, Goto, Locations, Upkeep, Locked
    <2>2. over' \in [LawIds -> SUBSET LawIds]
      BY <1>1 DEF LinkLaw, TypeOK
    <2> QED BY <1>1, <2>1, <2>2 DEF LinkLaw, TypeOK, factTables, turnTables, history, bounds
  <1>2. ASSUME NEW id \in LawIds, NEW item \in Items(frame[t].shown), InsertLaw(t, id, item)
        PROVE  TypeOK'
    <2>1. pc' \in [Turns -> Locations]
      BY <1>2, LocationTyped DEF InsertLaw, Goto, Locations, Upkeep, Locked
    <2>2. frame[t].left \in 0..MaxItems /\ frame[t].left > 0 /\ frame[t].shown \in SUBSET LawIds
      BY <1>2, FramesTyped DEF InsertLaw, Frame
    <2>3. frame[t].left - 1 \in 0..MaxItems
      BY <2>2, MemoryAssumption
    <2>4. item \in Items(LawIds) /\ id \in Nat
      BY <2>2 DEF Items, LawIds
    <2>5. [frame[t] EXCEPT !.left = @ - 1, !.row = id, !.item = item] \in Frame
      <3> HIDE DEF Items
      <3> QED BY <2>3, <2>4, FramesTyped DEF Frame
    <2>6. frame' = [frame EXCEPT ![t] =
                       [frame[t] EXCEPT !.left = @ - 1, !.row = id, !.item = item]]
      BY <1>0, <1>2 DEF InsertLaw
    <2>7. frame' \in [Turns -> Frame]
      BY <2>5, <2>6, FrameTyped
    <2>8. laws' \in SUBSET LawIds /\ active' \in SUBSET laws'
      BY <1>0, <1>2 DEF InsertLaw
    <2> QED BY <1>2, <2>1, <2>7, <2>8
         DEF InsertLaw, TypeOK, factTables, turnTables, history, bounds
  <1>3. CASE LinkFacts(t)
    <2>1. pc' \in [Turns -> Locations]
      BY <1>3, LocationTyped DEF LinkFacts, Goto, Locations, Upkeep, Locked
    <2>2. RestsOn(t, frame[t].item) \in SUBSET FactIds
      BY FramesTyped DEF RestsOn, Frame
    <2>3. rests' \in [LawIds -> SUBSET FactIds]
      BY <1>3, <2>2 DEF LinkFacts, TypeOK
    <2> QED BY <1>3, <2>1, <2>3 DEF LinkFacts, TypeOK, factTables, turnTables, history, bounds
  <1>4. CASE MarkSuperseded(t)
    <2>1. pc' \in [Turns -> Locations]
      BY <1>4, LocationTyped DEF MarkSuperseded, Goto, Locations, Upkeep, Locked
    <2>2. active' \in SUBSET laws
      BY <1>0, <1>4 DEF MarkSuperseded
    <2> QED BY <1>4, <2>1, <2>2
         DEF MarkSuperseded, TypeOK, factTables, turnTables, history, bounds
  <1> QED BY <1>1, <1>2, <1>3, <1>4

LEMMA PackingTyped ==
    ASSUME TypeOK, RowsOK, NEW t \in Turns,
           LawWritten(t) \/ StoreDrift(t) \/ InsertPack(t)
    PROVE  TypeOK'
  <1>0. /\ frame \in [Turns -> Frame] /\ offered \in SUBSET Turns
        /\ laws \in SUBSET LawIds /\ now \in Nat
    BY DEF TypeOK
  <1>1. CASE LawWritten(t)
    <2> DEFINE ids == frame[t].promoted \cup (IF frame[t].list = "laws"
                                              THEN {frame[t].row} ELSE {})
    <2>1. pc' \in [Turns -> Locations]
      BY <1>1, LocationTyped DEF LawWritten, Goto, Locations, Upkeep
    <2>2. frame[t].row \in laws
      BY <1>1 DEF LawWritten, At, RowsOK, Writing
    <2>3. ids \in SUBSET LawIds
      <3>1. frame[t].promoted \in SUBSET LawIds /\ frame[t].row \in LawIds
        BY <1>0, <2>2, FramesTyped DEF Frame
      <3> QED BY <3>1
    <2>4. NoItem \in Items(LawIds)
      BY DEF NoItem, Items
    <2>5. [frame[t] EXCEPT !.row = 0, !.item = NoItem, !.promoted = ids] \in Frame
      <3> HIDE DEF ids, NoItem, Items
      <3> QED BY <2>3, <2>4, FramesTyped DEF Frame
    <2>6. frame' = [frame EXCEPT ![t] =
                       [frame[t] EXCEPT !.row = 0, !.item = NoItem, !.promoted = ids]]
      BY <1>0, <1>1 DEF LawWritten
    <2>7. frame' \in [Turns -> Frame]
      <3> HIDE DEF ids
      <3> QED BY <2>5, <2>6, FrameTyped
    <2> QED BY <1>0, <1>1, <2>1, <2>7, OnlyTaskTyped DEF LawWritten, history
  <1>2. CASE StoreDrift(t)
    <2>1. pc' \in [Turns -> Locations]
      BY <1>2, LocationTyped DEF StoreDrift, Goto, Locations, Upkeep
    <2>2. [NewFrame EXCEPT !.promoted = frame[t].promoted] \in Frame
      BY NewFrameTyped, FramesTyped DEF Frame
    <2>3. frame' \in [Turns -> Frame]
      BY <1>2, <2>2, FrameTyped DEF StoreDrift
    <2> QED BY <1>0, <1>2, <2>1, <2>3, OnlyTaskTyped DEF StoreDrift, history
  <1>3. CASE InsertPack(t)
    <2>1. pc' \in [Turns -> Locations] /\ frame' \in [Turns -> Frame]
      BY <1>3, EndsTyped DEF InsertPack
    <2>2. frame[t].promoted \in SUBSET LawIds
      BY FramesTyped DEF Frame
    <2>3. packs' \in Seq([laws : SUBSET LawIds, at : Nat]) /\ now' \in Nat
      <3>1. now' = now + 1 /\ packs' = Append(packs, [laws |-> frame[t].promoted, at |-> now + 1])
        BY <1>3 DEF InsertPack
      <3>2. Append(packs, [laws |-> frame[t].promoted, at |-> now + 1])
                \in Seq([laws : SUBSET LawIds, at : Nat])
        BY <2>2, PackTyped
      <3>3. now + 1 \in Nat
        BY <1>0
      <3> QED BY <3>1, <3>2, <3>3
    <2> QED BY <1>3, <2>1, <2>3
         DEF InsertPack, TypeOK, factTables, lawTables, turnTables, history, bounds
  <1> QED BY <1>1, <1>2, <1>3

LEMMA FlightInLaws == ASSUME RowsOK, NEW t \in Turns PROVE InFlight(t) \subseteq laws
  BY DEF RowsOK, InFlight, Writing

LEMMA FailureTyped ==
    ASSUME TypeOK, RowsOK, \/ \E t \in Turns : UpkeepFails(t)
                           \/ Crash \/ Rebuild
    PROVE  TypeOK'
  <1>1. ASSUME NEW t \in Turns, UpkeepFails(t) PROVE TypeOK'
    <2>1. pc' \in [Turns -> Locations] /\ frame' \in [Turns -> Frame]
      BY <1>1, EndsTyped DEF UpkeepFails
    <2>2. cut' \in SUBSET LawIds
      BY <1>1, FlightInLaws DEF UpkeepFails, TypeOK
    <2>3. faults' \in 0..MaxFaults
      BY <1>1, MemoryAssumption DEF UpkeepFails, TypeOK
    <2> QED BY <1>1, <2>1, <2>2, <2>3
         DEF UpkeepFails, TypeOK, factTables, lawTables, turnTables
  <1>2. CASE Crash
    <2>1. pc' \in [Turns -> Locations]
      BY <1>2 DEF Crash, Locations
    <2>2. frame' \in [Turns -> Frame]
      BY <1>2, NewFrameTyped DEF Crash
    <2>3. UNION {InFlight(t) : t \in Turns} \subseteq laws
      BY FlightInLaws
    <2>4. cut' \in SUBSET LawIds
      BY <1>2, <2>3 DEF Crash, TypeOK
    <2>5. crashes' \in 0..MaxCrashes
      BY <1>2, MemoryAssumption DEF Crash, TypeOK
    <2> QED BY <1>2, <2>1, <2>2, <2>4, <2>5
         DEF Crash, TypeOK, factTables, lawTables, turnTables
  <1>3. CASE Rebuild
    <2>1. /\ facts' \in SUBSET FactIds /\ cited' \in SUBSET facts'
          /\ laws' \in SUBSET LawIds /\ active' \in SUBSET laws'
          /\ cut' \in SUBSET LawIds
      BY <1>3 DEF Rebuild
    <2>2. rests' \in [LawIds -> SUBSET FactIds] /\ over' \in [LawIds -> SUBSET LawIds]
      BY <1>3 DEF Rebuild
    <2>3. packs' \in Seq([laws : SUBSET LawIds, at : Nat])
      BY <1>3, BlankPacksTyped DEF Rebuild
    <2>4. rebuilds' \in 0..MaxRebuilds
      BY <1>3, MemoryAssumption DEF Rebuild, TypeOK
    <2> QED BY <1>3, <2>1, <2>2, <2>3, <2>4 DEF Rebuild, TypeOK, turnTables
  <1> QED BY <1>1, <1>2, <1>3

\* A step of one task leaves the others where they are.
LEMMA OneTask ==
    ASSUME TypeOK, NEW t \in Turns,
           Turn(t) \/ Ask(t) \/ Persist(t) \/ UpkeepFails(t)
    PROVE  \A u \in Turns \ {t} : pc'[u] = pc[u] /\ frame'[u] = frame[u]
  <1>0. pc \in [Turns -> Locations] /\ frame \in [Turns -> Frame]
    BY DEF TypeOK
  <1>1. CASE Turn(t)
    BY <1>0, <1>1 DEF Turn, Begin, Settle, TurnFails, Goto
  <1>2. CASE Ask(t)
    <2>1. CASE SyncRecall(t) \/ StartDistill(t) \/ SkipDistill(t) \/ NoAnswer(t)
      BY <1>0, <2>1 DEF SyncRecall, StartDistill, SkipDistill, NoAnswer, Ends, Goto
    <2>2. CASE GatherPrompt(t) \/ Answer(t)
      BY <1>0, <2>2 DEF GatherPrompt, Answer, Goto
    <2> QED BY <1>2, <2>1, <2>2 DEF Ask
  <1>3. CASE Persist(t)
    <2>1. ASSUME NEW id \in FactIds, InsertFact(t, id)
          PROVE  \A u \in Turns \ {t} : pc'[u] = pc[u] /\ frame'[u] = frame[u]
      BY <1>0, <2>1 DEF InsertFact, Goto
    <2>2. CASE CiteEvidence(t) \/ FactsStored(t)
      BY <1>0, <2>2 DEF CiteEvidence, FactsStored, Goto
    <2>3. ASSUME NEW list \in {"laws", "drift"}, StartList(t, list)
          PROVE  \A u \in Turns \ {t} : pc'[u] = pc[u] /\ frame'[u] = frame[u]
      BY <1>0, <2>3 DEF StartList, Goto
    <2>4. ASSUME NEW id \in LawIds, RemoveLaw(t, id) \/ LinkLaw(t, id)
          PROVE  \A u \in Turns \ {t} : pc'[u] = pc[u] /\ frame'[u] = frame[u]
      BY <1>0, <2>4 DEF RemoveLaw, LinkLaw, Goto
    <2>5. ASSUME NEW id \in LawIds, NEW item \in Items(frame[t].shown), InsertLaw(t, id, item)
          PROVE  \A u \in Turns \ {t} : pc'[u] = pc[u] /\ frame'[u] = frame[u]
      BY <1>0, <2>5 DEF InsertLaw, Goto
    <2>6. CASE LinkFacts(t) \/ MarkSuperseded(t)
      BY <1>0, <2>6 DEF LinkFacts, MarkSuperseded, Goto
    <2>7. CASE LawWritten(t)
      BY <1>0, <2>7 DEF LawWritten, Goto
    <2>8. CASE StoreDrift(t) \/ InsertPack(t)
      BY <1>0, <2>8 DEF StoreDrift, InsertPack, Ends, Goto
    <2> QED BY <1>3, <2>1, <2>2, <2>3, <2>4, <2>5, <2>6, <2>7, <2>8 DEF Persist
  <1>4. CASE UpkeepFails(t)
    BY <1>0, <1>4 DEF UpkeepFails, Ends, Goto
  <1> QED BY <1>1, <1>2, <1>3, <1>4

\* Nothing but a rebuild takes a fact or a law away, so that the rows the
\* other tasks are at stay.
LEMMA RowsKept ==
    ASSUME RowsOK, NEW t \in Turns, facts \subseteq facts', laws \subseteq laws',
           \A u \in Turns \ {t} : pc'[u] = pc[u] /\ frame'[u] = frame[u],
           pc'[t] = "citing" => frame'[t].row \in facts',
           pc'[t] \in Writing => frame'[t].row \in laws'
    PROVE  RowsOK'
  BY DEF RowsOK, At

LEMMA RowsStep ==
    ASSUME TypeOK, RowsOK, NEW t \in Turns,
           Turn(t) \/ Ask(t) \/ Persist(t) \/ UpkeepFails(t)
    PROVE  RowsOK'
  <1>0. pc \in [Turns -> Locations] /\ frame \in [Turns -> Frame]
    BY DEF TypeOK
  <1>1. \A u \in Turns \ {t} : pc'[u] = pc[u] /\ frame'[u] = frame[u]
    BY OneTask
  <1>2. CASE UNCHANGED <<facts, laws>> /\ pc'[t] \notin {"citing"} \cup Writing
    BY <1>1, <1>2, RowsKept
  <1>3. CASE Turn(t)
    BY <1>0, <1>2, <1>3
    DEF Turn, Begin, Settle, TurnFails, Goto, Writing, factTables, lawTables
  <1>4. CASE Ask(t)
    <2>1. CASE SyncRecall(t) \/ StartDistill(t) \/ SkipDistill(t) \/ NoAnswer(t)
      BY <1>0, <1>2, <2>1
      DEF SyncRecall, StartDistill, SkipDistill, NoAnswer, Ends, Goto, Writing,
          factTables, lawTables
    <2>2. CASE GatherPrompt(t) \/ Answer(t)
      BY <1>0, <1>2, <2>2 DEF GatherPrompt, Answer, Goto, Writing, factTables, lawTables
    <2> QED BY <1>4, <2>1, <2>2 DEF Ask
  <1>5. CASE Persist(t)
    <2>1. ASSUME NEW id \in FactIds, InsertFact(t, id) PROVE RowsOK'
      <3>1. pc'[t] = "citing" /\ frame'[t].row = id /\ id \in facts'
        BY <1>0, <2>1 DEF InsertFact, Goto
      <3>2. facts \subseteq facts' /\ laws \subseteq laws'
        BY <2>1 DEF InsertFact, lawTables
      <3> QED BY <1>1, <3>1, <3>2, RowsKept DEF Writing
    <2>2. CASE CiteEvidence(t) \/ FactsStored(t)
      BY <1>0, <1>2, <2>2 DEF CiteEvidence, FactsStored, Goto, Writing, factTables, lawTables
    <2>3. ASSUME NEW list \in {"laws", "drift"}, StartList(t, list) PROVE RowsOK'
      BY <1>0, <1>2, <2>3 DEF StartList, Goto, Writing, factTables, lawTables
    <2>4. ASSUME NEW id \in LawIds, RemoveLaw(t, id) PROVE RowsOK'
      BY <1>2, <2>4 DEF RemoveLaw, At, Writing, factTables
    <2>5. ASSUME NEW id \in LawIds, NEW item \in Items(frame[t].shown), InsertLaw(t, id, item)
          PROVE  RowsOK'
      <3>1. pc'[t] = "deriving" /\ frame'[t].row = id /\ id \in laws'
        BY <1>0, <2>5 DEF InsertLaw, Goto
      <3>2. facts \subseteq facts' /\ laws \subseteq laws'
        BY <2>5 DEF InsertLaw, factTables
      <3> QED BY <1>1, <3>1, <3>2, RowsKept
    <2>6. CASE LinkFacts(t) \/ (\E id \in LawIds : LinkLaw(t, id)) \/ MarkSuperseded(t)
      <3>1. frame'[t].row \in laws' /\ pc'[t] # "citing" /\ UNCHANGED <<facts, laws>>
        BY <1>0, <2>6
        DEF LinkFacts, LinkLaw, MarkSuperseded, RowsOK, Writing, At, Goto, factTables
      <3> QED BY <1>1, <3>1, RowsKept
    <2>7. CASE LawWritten(t)
      BY <1>0, <1>2, <2>7 DEF LawWritten, Goto, Writing, factTables, lawTables
    <2>8. CASE StoreDrift(t) \/ InsertPack(t)
      BY <1>0, <1>2, <2>8
      DEF StoreDrift, InsertPack, Ends, Goto, Writing, factTables, lawTables
    <2> QED BY <1>5, <2>1, <2>2, <2>3, <2>4, <2>5, <2>6, <2>7, <2>8 DEF Persist
  <1>6. CASE UpkeepFails(t)
    BY <1>0, <1>2, <1>6 DEF UpkeepFails, Ends, Goto, Writing, factTables, lawTables
  <1> QED BY <1>3, <1>4, <1>5, <1>6

LEMMA TypedInit == Init => Typed
  <1> SUFFICES ASSUME Init PROVE Typed
    OBVIOUS
  <1>1. facts \in SUBSET FactIds /\ cited = facts
    BY MemoryAssumption DEF Init, FactIds
  <1>2. laws \in SUBSET LawIds /\ active = laws
    BY MemoryAssumption DEF Init, LawIds
  <1>3. rests \in [LawIds -> SUBSET FactIds] /\ over \in [LawIds -> SUBSET LawIds]
    BY <1>1 DEF Init
  <1>4. packs \in Seq([laws : SUBSET LawIds, at : Nat])
    BY DEF Init
  <1>5. pc \in [Turns -> Locations] /\ frame \in [Turns -> Frame]
    BY NewFrameTyped DEF Init, Locations
  <1>6. begun \in 0..MaxTurns /\ thread \in [Turns -> Threads] /\ settled \in [Turns -> Nat]
    BY MemoryAssumption DEF Init
  <1>7. /\ now \in Nat /\ cut \in SUBSET LawIds /\ offered \in SUBSET Turns
        /\ faults \in 0..MaxFaults /\ crashes \in 0..MaxCrashes
        /\ rebuilds \in 0..MaxRebuilds
    BY MemoryAssumption DEF Init
  <1>8. TypeOK
    BY <1>1, <1>2, <1>3, <1>4, <1>5, <1>6, <1>7 DEF TypeOK
  <1>9. RowsOK
    BY DEF Init, RowsOK, At, Writing
  <1> QED BY <1>8, <1>9 DEF Typed

LEMMA TypedStep == Typed /\ [Next]_vars => Typed'
  <1> SUFFICES ASSUME Typed, [Next]_vars PROVE Typed'
    OBVIOUS
  <1>0. TypeOK /\ RowsOK
    BY DEF Typed
  <1>1. ASSUME NEW t \in Turns, Turn(t) \/ Ask(t) \/ Persist(t) \/ UpkeepFails(t)
        PROVE  Typed'
    <2>1. CASE Persist(t)
      BY <1>0, <2>1, FactsTyped, RemovalsTyped, LawTyped, PackingTyped, RowsStep
      DEF Persist, Typed
    <2> QED BY <1>0, <1>1, <2>1, TurnTyped, AskTyped, FailureTyped, RowsStep DEF Typed
  <1>2. CASE Crash \/ Rebuild
    <2>1. TypeOK'
      BY <1>0, <1>2, FailureTyped
    <2>2. RowsOK'
      BY <1>2 DEF Crash, Rebuild, RowsOK, At, Writing
    <2> QED BY <2>1, <2>2 DEF Typed
  <1>3. CASE UNCHANGED vars
    BY <1>0, <1>3
    DEF Typed, TypeOK, RowsOK, At, vars, factTables, lawTables, turnTables, history, bounds
  <1> QED BY <1>1, <1>2, <1>3 DEF Next

\* Every state has its type: with any number of turns and of laws, no step
\* of an upkeep leaves the tables out of shape.
THEOREM TypeCorrect == Spec => []TypeOK
  <1>1. Typed => TypeOK
    BY DEF Typed
  <1> QED BY <1>1, TypedInit, TypedStep, PTL DEF Spec

-----------------------------------------------------------------------------
(* Evidence.                                                               *)

LEMMA EvidenceKept ==
    ASSUME EvidenceOK, NEW t \in Turns, cited \subseteq cited',
           \A u \in Turns \ {t} : pc'[u] = pc[u] /\ frame'[u] = frame[u],
           frame'[t].known \subseteq cited',
           pc'[t] \in Resting => frame'[t].known = {},
           \A i \in LawIds : rests'[i] \subseteq cited'
    PROVE  EvidenceOK'
  <1>1. ASSUME NEW u \in Turns
        PROVE  /\ frame'[u].known \subseteq cited'
               /\ pc'[u] \in Resting => frame'[u].known = {}
    BY DEF EvidenceOK
  <1> QED BY <1>1 DEF EvidenceOK

LEMMA BlankKnown == NewFrame.known = {}
  BY DEF NewFrame

LEMMA EvidenceStep ==
    ASSUME TypeOK, EvidenceOK, NEW t \in Turns,
           Turn(t) \/ Ask(t) \/ Persist(t) \/ UpkeepFails(t)
    PROVE  EvidenceOK'
  <1>0. pc \in [Turns -> Locations] /\ frame \in [Turns -> Frame]
    BY DEF TypeOK
  <1>1. \A u \in Turns \ {t} : pc'[u] = pc[u] /\ frame'[u] = frame[u]
    BY OneTask
  <1>a. /\ frame[t].known \subseteq cited
        /\ pc[t] \in Resting => frame[t].known = {}
        /\ \A i \in LawIds : rests[i] \subseteq cited
    BY DEF EvidenceOK
  <1>2. CASE /\ UNCHANGED <<cited, rests>>
             /\ frame'[t].known = {} \/ (frame'[t].known = frame[t].known /\ pc'[t] \notin Resting)
    BY <1>1, <1>2, <1>a, EvidenceKept
  <1>3. CASE Turn(t)
    <2>1. frame'[t].known = {}
      <3>1. CASE Settle(t)
        <4>1. PICK setting \in AutoDistill : frame' = [frame EXCEPT ![t].auto = setting]
          BY <3>1 DEF Settle
        <4>2. frame'[t].known = frame[t].known
          BY <1>0, <4>1 DEF Frame
        <4> QED BY <1>a, <3>1, <4>2 DEF Settle, At, Resting
      <3> QED BY <1>3, <1>a, <3>1 DEF Turn, Begin, TurnFails, At, Resting
    <2> QED BY <1>2, <1>3, <2>1
         DEF Turn, Begin, Settle, TurnFails, factTables, lawTables
  <1>4. CASE Ask(t)
    <2>1. CASE SkipDistill(t) \/ NoAnswer(t)
      BY <1>0, <1>2, <2>1, BlankKnown
      DEF SkipDistill, NoAnswer, Ends, factTables, lawTables
    <2>2. CASE SyncRecall(t) \/ StartDistill(t)
      BY <1>0, <1>2, <2>2 DEF SyncRecall, StartDistill, Goto, Resting, factTables, lawTables
    <2>3. CASE GatherPrompt(t)
      <3>1. frame'[t].known = frame[t].known
        BY <1>0, <2>3 DEF GatherPrompt
      <3>2. UNCHANGED <<cited, rests>> /\ pc'[t] \notin Resting
        BY <1>0, <2>3 DEF GatherPrompt, Goto, Resting, factTables, lawTables
      <3> QED BY <1>2, <3>1, <3>2
    <2>4. CASE Answer(t)
      BY <1>0, <1>2, <2>4 DEF Answer, Goto, Resting, factTables, lawTables
    <2> QED BY <1>4, <2>1, <2>2, <2>3, <2>4 DEF Ask
  <1>5. CASE Persist(t)
    <2>1. ASSUME NEW id \in FactIds, InsertFact(t, id) PROVE EvidenceOK'
      BY <1>0, <1>2, <2>1 DEF InsertFact, Goto, Resting, lawTables
    <2>2. CASE CiteEvidence(t)
      <3>1. cited' = cited \cup {frame[t].row} /\ UNCHANGED rests /\ pc'[t] \notin Resting
        BY <1>0, <2>2 DEF CiteEvidence, Goto, Resting, lawTables
      <3>2. frame'[t].known = frame[t].known \cup {frame[t].row}
        BY <1>0, <2>2 DEF CiteEvidence
      <3> QED BY <1>1, <1>a, <3>1, <3>2, EvidenceKept
    <2>3. ASSUME NEW list \in {"laws", "drift"}, StartList(t, list) PROVE EvidenceOK'
      BY <1>0, <1>2, <2>3 DEF StartList, Goto, Resting, factTables, lawTables
    <2>4. ASSUME NEW id \in LawIds, RemoveLaw(t, id) PROVE EvidenceOK'
      BY <1>0, <1>2, <2>4 DEF RemoveLaw, At, Resting, factTables
    <2>5. ASSUME NEW id \in LawIds, NEW item \in Items(frame[t].shown), InsertLaw(t, id, item)
          PROVE  EvidenceOK'
      BY <1>0, <1>2, <2>5 DEF InsertLaw, Goto, Resting, factTables
    <2>6. CASE FactsStored(t) \/ (\E id \in LawIds : LinkLaw(t, id)) \/ MarkSuperseded(t)
      BY <1>0, <1>2, <2>6
      DEF FactsStored, LinkLaw, MarkSuperseded, Goto, Resting, factTables, lawTables
    <2>7. CASE LinkFacts(t)
      <3>1. UNCHANGED <<cited, frame>> /\ pc'[t] \notin Resting
        BY <1>0, <2>7 DEF LinkFacts, Goto, Resting, factTables
      <3>2. RestsOn(t, frame[t].item) \subseteq cited
        BY <1>a DEF RestsOn
      <3>3. \A i \in LawIds : rests'[i] \subseteq cited
        BY <1>a, <2>7, <3>2 DEF LinkFacts, TypeOK
      <3> QED BY <1>1, <1>a, <3>1, <3>3, EvidenceKept
    <2>8. CASE LawWritten(t)
      BY <1>0, <1>2, <2>8 DEF LawWritten, Goto, Resting, factTables, lawTables
    <2>9. CASE StoreDrift(t)
      <3>1. [NewFrame EXCEPT !.promoted = frame[t].promoted].known = {}
        BY DEF NewFrame
      <3>2. frame'[t].known = {}
        BY <1>0, <2>9, <3>1 DEF StoreDrift
      <3> QED BY <1>2, <2>9, <3>2 DEF StoreDrift, factTables, lawTables
    <2>10. CASE InsertPack(t)
      BY <1>0, <1>2, <2>10, BlankKnown DEF InsertPack, Ends, factTables, lawTables
    <2> QED BY <1>5, <2>1, <2>2, <2>3, <2>4, <2>5, <2>6, <2>7, <2>8, <2>9, <2>10 DEF Persist
  <1>6. CASE UpkeepFails(t)
    BY <1>0, <1>2, <1>6, BlankKnown DEF UpkeepFails, Ends, factTables, lawTables
  <1> QED BY <1>3, <1>4, <1>5, <1>6

LEMMA EvidenceCrash == ASSUME EvidenceOK, Crash PROVE EvidenceOK'
  BY BlankKnown DEF EvidenceOK, Crash, factTables, lawTables

LEMMA EvidenceRebuild == ASSUME EvidenceOK, Rebuild PROVE EvidenceOK'
  BY DEF EvidenceOK, Rebuild, Resting

LEMMA EvidenceInvariant == Spec => []EvidenceOK
  <1>1. Init => EvidenceOK
    BY BlankKnown DEF Init, EvidenceOK
  <1>2. ASSUME TypeOK, EvidenceOK, [Next]_vars PROVE EvidenceOK'
    <2>1. CASE UNCHANGED vars
      BY <1>2, <2>1 DEF EvidenceOK, vars, factTables, lawTables
    <2> QED BY <1>2, <2>1, EvidenceStep, EvidenceCrash, EvidenceRebuild DEF Next
  <1> QED BY <1>1, <1>2, TypeCorrect, PTL DEF Spec

\* No law ever rests on a fact whose evidence is not recorded, however many
\* upkeeps overlap and whichever statement fails.
THEOREM LawsRest == Spec => []LawsRestOnEvidence
  <1>1. TypeOK /\ EvidenceOK => LawsRestOnEvidence
    BY DEF TypeOK, EvidenceOK, LawsRestOnEvidence
  <1> QED BY <1>1, TypeCorrect, EvidenceInvariant, PTL

-----------------------------------------------------------------------------
(* The write lock.                                                         *)

LEMMA LockKept ==
    ASSUME OneWriter, NEW t \in Turns,
           \A u \in Turns \ {t} : pc'[u] = pc[u] /\ frame'[u] = frame[u],
           pc'[t] \in Locked => pc[t] \in Locked \/ MayWrite(t)
    PROVE  OneWriter'
  BY DEF OneWriter, MayWrite

LEMMA LockStep ==
    ASSUME TypeOK, OneWriter, NEW t \in Turns,
           Turn(t) \/ Ask(t) \/ Persist(t) \/ UpkeepFails(t)
    PROVE  OneWriter'
  <1>0. pc \in [Turns -> Locations]
    BY DEF TypeOK
  <1>1. \A u \in Turns \ {t} : pc'[u] = pc[u] /\ frame'[u] = frame[u]
    BY OneTask
  <1>2. pc'[t] \in Locked => pc[t] \in Locked \/ MayWrite(t)
    <2>1. CASE Turn(t)
      BY <1>0, <2>1 DEF Turn, Begin, Settle, TurnFails, Goto, Locked
    <2>2. CASE Ask(t)
      BY <1>0, <2>2
      DEF Ask, SyncRecall, StartDistill, SkipDistill, GatherPrompt, Answer, NoAnswer,
          Ends, Goto, Locked
    <2>3. CASE UpkeepFails(t)
      BY <1>0, <2>3 DEF UpkeepFails, Ends, Goto, Locked
    <2>4. ASSUME NEW id \in FactIds, InsertFact(t, id) PROVE MayWrite(t)
      BY <2>4 DEF InsertFact
    <2>5. ASSUME NEW id \in LawIds, NEW item \in Items(frame[t].shown), InsertLaw(t, id, item)
          PROVE  MayWrite(t)
      BY <2>5 DEF InsertLaw
    <2>6. CASE \/ CiteEvidence(t) \/ FactsStored(t) \/ LinkFacts(t) \/ MarkSuperseded(t)
               \/ LawWritten(t) \/ StoreDrift(t) \/ InsertPack(t)
      BY <1>0, <2>6
      DEF CiteEvidence, FactsStored, LinkFacts, MarkSuperseded, LawWritten, StoreDrift,
          InsertPack, Ends, Goto, Locked, At
    <2>7. ASSUME NEW list \in {"laws", "drift"}, StartList(t, list)
          PROVE  pc'[t] \notin Locked
      BY <1>0, <2>7 DEF StartList, Goto, Locked
    <2>8. ASSUME NEW id \in LawIds, RemoveLaw(t, id) \/ LinkLaw(t, id)
          PROVE  pc'[t] \in Locked => pc[t] \in Locked
      BY <1>0, <2>8 DEF RemoveLaw, LinkLaw, Goto, Locked, At
    <2> QED BY <2>1, <2>2, <2>3, <2>4, <2>5, <2>6, <2>7, <2>8 DEF Persist
  <1> QED BY <1>1, <1>2, LockKept

LEMMA LockInvariant == Spec => []OneWriter
  <1>1. Init => OneWriter
    BY DEF Init, OneWriter, Locked
  <1>2. ASSUME TypeOK, OneWriter, [Next]_vars PROVE OneWriter'
    <2>1. CASE Crash \/ Rebuild
      BY <1>2, <2>1 DEF Crash, Rebuild, OneWriter, Locked
    <2>2. CASE UNCHANGED vars
      BY <1>2, <2>2 DEF OneWriter, vars
    <2> QED BY <1>2, <2>1, <2>2, LockStep DEF Next
  <1> QED BY <1>1, <1>2, TypeCorrect, PTL DEF Spec

-----------------------------------------------------------------------------
(* Links.                                                                  *)

LEMMA TablesKept ==
    ASSUME TypeOK, TablesOK, NEW t \in Turns,
           laws \subseteq laws', cut' \subseteq laws', UNCHANGED <<rests, over>>,
           \A u \in Turns \ {t} : pc'[u] = pc[u] /\ frame'[u] = frame[u],
           frame'[t].eligible \subseteq laws',
           pc'[t] \in Resting => frame'[t].eligible = {}
    PROVE  TablesOK'
  <1>1. ASSUME NEW u \in Turns
        PROVE  /\ frame'[u].eligible \subseteq laws'
               /\ pc'[u] \in Resting => frame'[u].eligible = {}
    BY DEF TablesOK
  <1>2. /\ \A i \in LawIds : over[i] \subseteq laws'
        /\ \A i \in LawIds \ laws' : rests[i] = {} /\ over[i] = {}
    BY DEF TablesOK
  <1> QED BY <1>1, <1>2 DEF TablesOK

LEMMA BlankEligible == NewFrame.eligible = {}
  BY DEF NewFrame

LEMMA TablesStep ==
    ASSUME TypeOK, RowsOK, TablesOK, NEW t \in Turns,
           Turn(t) \/ Ask(t) \/ Persist(t) \/ UpkeepFails(t)
    PROVE  TablesOK'
  <1>0. pc \in [Turns -> Locations] /\ frame \in [Turns -> Frame]
    BY DEF TypeOK
  <1>1. \A u \in Turns \ {t} : pc'[u] = pc[u] /\ frame'[u] = frame[u]
    BY OneTask
  <1>a. /\ frame[t].eligible \subseteq laws
        /\ pc[t] \in Resting => frame[t].eligible = {}
        /\ cut \subseteq laws
    BY DEF TablesOK
  <1>2. CASE /\ UNCHANGED <<laws, cut, rests, over>>
             /\ \/ frame'[t].eligible = {}
                \/ frame'[t].eligible = frame[t].eligible /\ pc'[t] \notin Resting
    BY <1>1, <1>2, <1>a, TablesKept
  <1>3. CASE Turn(t)
    <2>1. frame'[t].eligible = {}
      <3>1. CASE Settle(t)
        <4>1. PICK setting \in AutoDistill : frame' = [frame EXCEPT ![t].auto = setting]
          BY <3>1 DEF Settle
        <4>2. frame'[t].eligible = frame[t].eligible
          BY <1>0, <4>1 DEF Frame
        <4> QED BY <1>a, <3>1, <4>2 DEF Settle, At, Resting
      <3> QED BY <1>3, <1>a, <3>1 DEF Turn, Begin, TurnFails, At, Resting
    <2> QED BY <1>2, <1>3, <2>1 DEF Turn, Begin, Settle, TurnFails, lawTables, history
  <1>4. CASE Ask(t)
    <2>1. CASE SkipDistill(t) \/ NoAnswer(t)
      BY <1>0, <1>2, <2>1, BlankEligible DEF SkipDistill, NoAnswer, Ends, lawTables, history
    <2>2. CASE SyncRecall(t) \/ StartDistill(t)
      BY <1>0, <1>2, <2>2 DEF SyncRecall, StartDistill, Goto, Resting, lawTables, history
    <2>3. CASE GatherPrompt(t)
      <3>1. frame'[t].eligible = frame[t].eligible
        BY <1>0, <2>3 DEF GatherPrompt
      <3>2. UNCHANGED <<laws, cut, rests, over>> /\ pc'[t] \notin Resting
        BY <1>0, <2>3 DEF GatherPrompt, Goto, Resting, lawTables
      <3> QED BY <1>2, <3>1, <3>2
    <2>4. CASE Answer(t)
      BY <1>0, <1>2, <2>4 DEF Answer, Goto, Resting, lawTables, history
    <2> QED BY <1>4, <2>1, <2>2, <2>3, <2>4 DEF Ask
  <1>5. CASE Persist(t)
    <2>1. ASSUME NEW id \in FactIds, InsertFact(t, id) PROVE TablesOK'
      BY <1>0, <1>2, <2>1 DEF InsertFact, Goto, Resting, lawTables, history
    <2>2. CASE CiteEvidence(t)
      <3>1. frame'[t].eligible = frame[t].eligible
        BY <1>0, <2>2 DEF CiteEvidence
      <3> QED BY <1>0, <1>2, <2>2, <3>1 DEF CiteEvidence, Goto, Resting, lawTables, history
    <2>3. ASSUME NEW list \in {"laws", "drift"}, StartList(t, list) PROVE TablesOK'
      <3>1. ListActive(ListLimit) \subseteq laws
        BY DEF ListActive, TypeOK
      <3>2. frame'[t].eligible = ListActive(ListLimit)
        BY <1>0, <2>3 DEF StartList
      <3>3. UNCHANGED <<laws, cut, rests, over>> /\ pc'[t] \notin Resting
        BY <1>0, <2>3 DEF StartList, Goto, Resting, lawTables, history
      <3> HIDE DEF ListActive
      <3> QED BY <1>1, <1>a, <3>1, <3>2, <3>3, TablesKept
    <2>4. ASSUME NEW id \in LawIds, RemoveLaw(t, id) PROVE TablesOK'
      BY <1>0, <1>2, <2>4 DEF RemoveLaw, At, Resting, history
    <2>5. ASSUME NEW id \in LawIds, NEW item \in Items(frame[t].shown), InsertLaw(t, id, item)
          PROVE  TablesOK'
      <3>1. laws' = laws \cup {id} /\ UNCHANGED <<cut, rests, over>> /\ pc'[t] \notin Resting
        BY <1>0, <2>5 DEF InsertLaw, Goto, Resting, history
      <3>2. frame'[t].eligible = frame[t].eligible
        BY <1>0, <2>5 DEF InsertLaw
      <3> QED BY <1>1, <1>a, <3>1, <3>2, TablesKept
    <2>6. CASE FactsStored(t) \/ MarkSuperseded(t)
      BY <1>0, <1>2, <2>6 DEF FactsStored, MarkSuperseded, Goto, Resting, lawTables, history
    <2>7. CASE LinkFacts(t) \/ \E id \in LawIds : LinkLaw(t, id)
      <3>1. /\ UNCHANGED <<laws, cut, frame>>
            /\ \A u \in Turns : pc'[u] \in Resting => pc[u] \in Resting
        BY <1>0, <1>1, <2>7 DEF LinkFacts, LinkLaw, Goto, Resting, history
      <3>2. frame[t].row \in laws
        BY <2>7 DEF LinkFacts, LinkLaw, RowsOK, At, Writing
      <3>3. Supersedes(t, frame[t].item) \subseteq laws
        BY <1>a DEF Supersedes
      <3>4. \A i \in LawIds : over'[i] \subseteq laws
        BY <2>7, <3>3 DEF LinkFacts, LinkLaw, TypeOK, TablesOK
      <3>5. \A i \in LawIds \ laws : rests'[i] = rests[i] /\ over'[i] = over[i]
        BY <2>7, <3>2 DEF LinkFacts, LinkLaw, TypeOK
      <3> QED BY <3>1, <3>4, <3>5 DEF TablesOK
    <2>8. CASE LawWritten(t)
      <3>1. frame'[t].eligible = frame[t].eligible
        BY <1>0, <2>8 DEF LawWritten
      <3> QED BY <1>0, <1>2, <2>8, <3>1 DEF LawWritten, Goto, Resting, lawTables, history
    <2>9. CASE StoreDrift(t)
      <3>1. [NewFrame EXCEPT !.promoted = frame[t].promoted].eligible = {}
        BY DEF NewFrame
      <3>2. frame'[t].eligible = {}
        BY <1>0, <2>9, <3>1 DEF StoreDrift
      <3> QED BY <1>2, <2>9, <3>2 DEF StoreDrift, lawTables, history
    <2>10. CASE InsertPack(t)
      BY <1>0, <1>2, <2>10, BlankEligible DEF InsertPack, Ends, lawTables, history
    <2> QED BY <1>5, <2>1, <2>2, <2>3, <2>4, <2>5, <2>6, <2>7, <2>8, <2>9, <2>10 DEF Persist
  <1>6. CASE UpkeepFails(t)
    <2>1. frame'[t].eligible = {} /\ UNCHANGED <<laws, rests, over>>
      BY <1>0, <1>6, BlankEligible DEF UpkeepFails, Ends, lawTables
    <2>2. cut' \subseteq laws
      BY <1>6, <1>a, FlightInLaws DEF UpkeepFails
    <2> QED BY <1>1, <2>1, <2>2, TablesKept
  <1> QED BY <1>3, <1>4, <1>5, <1>6

LEMMA TablesInvariant == Spec => [](RowsOK /\ TablesOK)
  <1>1. Init => TablesOK
    BY BlankEligible DEF Init, TablesOK
  <1>2. ASSUME TypeOK, RowsOK, TablesOK, [Next]_vars PROVE TablesOK'
    <2>1. CASE Crash
      <3>1. UNION {InFlight(t) : t \in Turns} \subseteq laws
        BY <1>2, FlightInLaws
      <3>2. cut' \subseteq laws
        BY <1>2, <2>1, <3>1 DEF Crash, TablesOK
      <3> QED BY <1>2, <2>1, <3>2, BlankEligible DEF Crash, TablesOK, lawTables
    <2>2. CASE Rebuild
      BY <1>2, <2>2 DEF Rebuild, TablesOK, Resting
    <2>3. CASE UNCHANGED vars
      BY <1>2, <2>3 DEF TablesOK, vars, lawTables, history
    <2> QED BY <1>2, <2>1, <2>2, <2>3, TablesStep DEF Next
  <1>3. Typed => TypeOK /\ RowsOK
    BY DEF Typed
  <1> QED BY <1>1, <1>2, <1>3, TypedInit, TypedStep, PTL DEF Spec

-----------------------------------------------------------------------------
(* Writes.                                                                 *)

\* Steps at which no law is being written.  Laws may lose their place among
\* the active ones, which never undoes a law.
LEMMA OutsideWrites ==
    ASSUME TypeOK, WritesOK, NEW t \in Turns,
           \A u \in Turns \ {t} : pc'[u] = pc[u] /\ frame'[u] = frame[u],
           pc[t] \notin Writing, pc'[t] \notin Writing,
           UNCHANGED <<laws, rests, over, cut>>, active' \subseteq active,
           frame'[t].promoted \subseteq frame[t].promoted,
           pc'[t] \in Resting => frame'[t].promoted = {},
           \A n \in DOMAIN packs' :
               \/ n \in DOMAIN packs /\ packs'[n] = packs[n]
               \/ packs'[n].laws \subseteq frame[t].promoted
    PROVE  WritesOK'
  <1>1. \A u \in Turns : InFlight(u)' = InFlight(u)
    BY DEF InFlight, Writing
  <1>2. ASSUME NEW i, Done(i) PROVE Done(i)'
    BY <1>1, <1>2 DEF Done, Whole
  <1>3. ASSUME NEW u \in Turns, pc'[u] \in Writing PROVE Half(u)'
    <2>1. u # t /\ pc'[u] = pc[u] /\ frame'[u] = frame[u] /\ Half(u)
      BY <1>3 DEF WritesOK
    <2> QED BY <2>1 DEF Half, IsPromoted, RestsOn, Supersedes, At
  <1>4. ASSUME NEW u \in Turns, NEW i \in frame'[u].promoted PROVE Done(i)'
    BY <1>2, <1>4 DEF WritesOK
  <1>5. ASSUME NEW n \in DOMAIN packs', NEW i \in packs'[n].laws PROVE Done(i)'
    BY <1>2, <1>5 DEF WritesOK
  <1>6. ASSUME NEW i \in laws' \ cut'
        PROVE  Done(i)' \/ \E u \in Turns : i \in InFlight(u)'
    BY <1>1, <1>2, <1>6 DEF WritesOK
  <1>b. \A u \in Turns : pc'[u] \in Resting => frame'[u].promoted = {}
    BY DEF WritesOK
  <1> QED BY <1>b, <1>3, <1>4, <1>5, <1>6 DEF WritesOK

\* Steps of the one task that writes a law, at the links of that law.
LEMMA InsideWrite ==
    ASSUME TypeOK, OneWriter, WritesOK, NEW t \in Turns,
           \A u \in Turns \ {t} : pc'[u] = pc[u] /\ frame'[u] = frame[u],
           pc[t] \in Writing, pc'[t] \in Writing,
           UNCHANGED <<laws, packs, frame, cut>>, active' \subseteq active,
           \A i \in laws \ {frame[t].row} : rests'[i] = rests[i] /\ over'[i] = over[i],
           Half(t)'
    PROVE  WritesOK'
  <1>1. \A u \in Turns : InFlight(u)' = InFlight(u)
    BY DEF InFlight, Writing
  <1>2. ASSUME NEW i, Done(i) PROVE Done(i)'
    <2>1. i \in laws \ {frame[t].row}
      BY <1>2 DEF Done, InFlight, Writing
    <2>2. rests'[i] = rests[i] /\ over'[i] = over[i]
      BY <2>1
    <2> QED BY <1>1, <1>2, <2>2 DEF Done, Whole
  <1>3. \A u \in Turns : pc'[u] \in Writing => u = t
    BY DEF OneWriter, Writing, Locked
  <1>4. ASSUME NEW u \in Turns, NEW i \in frame'[u].promoted PROVE Done(i)'
    BY <1>2, <1>4 DEF WritesOK
  <1>5. ASSUME NEW n \in DOMAIN packs', NEW i \in packs'[n].laws PROVE Done(i)'
    BY <1>2, <1>5 DEF WritesOK
  <1>6. ASSUME NEW i \in laws' \ cut'
        PROVE  Done(i)' \/ \E u \in Turns : i \in InFlight(u)'
    BY <1>1, <1>2, <1>6 DEF WritesOK
  <1>7. \A u \in Turns : pc'[u] \in Writing => Half(u)'
    BY <1>3
  <1>b. \A u \in Turns : pc'[u] \in Resting => frame'[u].promoted = {}
    BY <1>3 DEF WritesOK, Resting, Writing
  <1> QED BY <1>b, <1>4, <1>5, <1>6, <1>7 DEF WritesOK

LEMMA InsertLawWrites ==
    ASSUME TypeOK, TablesOK, WritesOK, NEW t \in Turns, NEW id \in LawIds,
           NEW item \in Items(frame[t].shown), InsertLaw(t, id, item)
    PROVE  WritesOK'
  <1>0. /\ pc \in [Turns -> Locations] /\ frame \in [Turns -> Frame]
        /\ laws \in SUBSET LawIds /\ active \in SUBSET laws
    BY DEF TypeOK
  <1>1. /\ \A u \in Turns \ {t} : pc'[u] = pc[u] /\ frame'[u] = frame[u]
        /\ pc[t] = "adding" /\ pc'[t] = "deriving"
    BY <1>0 DEF InsertLaw, Goto, At
  <1>2. /\ frame'[t].row = id /\ frame'[t].item = item
        /\ frame'[t].known = frame[t].known /\ frame'[t].eligible = frame[t].eligible
        /\ frame'[t].promoted = frame[t].promoted
    BY <1>0 DEF InsertLaw
  <1>3. /\ id \notin laws /\ laws' = laws \cup {id} /\ active' = active \cup {id}
        /\ UNCHANGED <<rests, over, cut, packs>>
    BY DEF InsertLaw, IsNext, history
  <1>4. \A u \in Turns : pc[u] \notin Writing
    BY <1>1 DEF InsertLaw, MayWrite, Writing, Locked
  <1>5. ASSUME NEW i, Done(i) PROVE Done(i)'
    <2>1. i \in laws /\ i # id /\ over[i] \subseteq laws
      BY <1>0, <1>3, <1>5 DEF Done, TablesOK
    <2>2. Whole(i)'
      BY <1>3, <1>5, <2>1 DEF Done, Whole
    <2>3. ASSUME NEW u \in Turns PROVE i \notin InFlight(u)'
      BY <1>1, <1>2, <1>4, <2>1 DEF InFlight, Writing
    <2> QED BY <1>3, <2>1, <2>2, <2>3 DEF Done
  <1>6. Half(t)'
    <2>1. id \in laws' \ cut'
      BY <1>3 DEF TablesOK
    <2>2. rests'[id] = {} /\ over'[id] = {}
      BY <1>3 DEF TablesOK
    <2>3. IsPromoted(t, item)
      BY DEF InsertLaw
    <2>4. IsPromoted(t, item)'
      BY <1>2, <2>3 DEF IsPromoted, RestsOn, Supersedes
    <2> QED BY <1>1, <1>2, <2>1, <2>2, <2>4 DEF Half, At
  <1>7. \A u \in Turns : pc'[u] \in Writing => Half(u)'
    BY <1>1, <1>4, <1>6
  <1>8. ASSUME NEW u \in Turns, NEW i \in frame'[u].promoted PROVE Done(i)'
    BY <1>1, <1>2, <1>5, <1>8 DEF WritesOK
  <1>9. ASSUME NEW n \in DOMAIN packs', NEW i \in packs'[n].laws PROVE Done(i)'
    BY <1>3, <1>5, <1>9 DEF WritesOK
  <1>10. ASSUME NEW i \in laws' \ cut'
         PROVE  Done(i)' \/ \E u \in Turns : i \in InFlight(u)'
    <2>1. CASE i = id
      <3>1. id \in InFlight(t)'
        BY <1>1, <1>2 DEF InFlight
      <3> QED BY <2>1, <3>1
    <2>2. CASE i # id
      <3>1. i \in laws \ cut /\ \A u \in Turns : i \notin InFlight(u)
        BY <1>3, <1>4, <1>10, <2>2 DEF InFlight, Writing
      <3> QED BY <1>5, <3>1 DEF WritesOK
    <2> QED BY <2>1, <2>2
  <1>b. \A u \in Turns : pc'[u] \in Resting => frame'[u].promoted = {}
    BY <1>1 DEF WritesOK, Resting
  <1> QED BY <1>b, <1>7, <1>8, <1>9, <1>10 DEF WritesOK

LEMMA LinkWrites ==
    ASSUME TypeOK, RowsOK, OneWriter, WritesOK, NEW t \in Turns,
           LinkFacts(t) \/ (\E id \in LawIds : LinkLaw(t, id)) \/ MarkSuperseded(t)
    PROVE  WritesOK'
  <1> DEFINE row == frame[t].row
             item == frame[t].item
  <1>0. /\ pc \in [Turns -> Locations] /\ laws \in SUBSET LawIds
        /\ rests \in [LawIds -> SUBSET FactIds] /\ over \in [LawIds -> SUBSET LawIds]
    BY DEF TypeOK
  <1>1. /\ \A u \in Turns \ {t} : pc'[u] = pc[u] /\ frame'[u] = frame[u]
        /\ pc[t] \in Writing /\ pc'[t] \in Writing
        /\ UNCHANGED <<laws, packs, frame, cut>> /\ active' \subseteq active
    BY <1>0 DEF LinkFacts, LinkLaw, MarkSuperseded, Goto, At, Writing, history
  <1>2. Half(t) /\ row \in LawIds
    BY <1>0, <1>1 DEF WritesOK, Half
  <1>3. IsPromoted(t, item)' /\ (row \in laws \ cut)'
    BY <1>1, <1>2 DEF Half, IsPromoted, RestsOn, Supersedes
  <1>4. RestsOn(t, item)' = RestsOn(t, item) /\ Supersedes(t, item)' = Supersedes(t, item)
    BY <1>1 DEF RestsOn, Supersedes
  <1>5. CASE LinkFacts(t)
    <2>1. /\ rests' = [rests EXCEPT ![row] = RestsOn(t, item)] /\ over' = over
          /\ pc[t] = "deriving" /\ pc'[t] = "linking"
      BY <1>0, <1>5 DEF LinkFacts, Goto, At
    <2>2. \A i \in laws \ {row} : rests'[i] = rests[i] /\ over'[i] = over[i]
      BY <1>0, <2>1
    <2>3. rests'[row] = RestsOn(t, item) /\ over'[row] = {}
      BY <1>0, <1>2, <2>1 DEF Half, At
    <2>4. Half(t)'
      BY <1>1, <1>3, <1>4, <2>1, <2>3 DEF Half, At
    <2> QED BY <1>1, <2>2, <2>4, InsideWrite
  <1>6. ASSUME NEW id \in LawIds, LinkLaw(t, id) PROVE WritesOK'
    <2>1. /\ over' = [over EXCEPT ![row] = @ \cup {id}] /\ rests' = rests
          /\ id \in Supersedes(t, item) /\ pc[t] = "linking" /\ pc'[t] = "marking"
      BY <1>0, <1>6 DEF LinkLaw, Goto, At
    <2>2. \A i \in laws \ {row} : rests'[i] = rests[i] /\ over'[i] = over[i]
      BY <1>0, <2>1
    <2>3. rests'[row] = RestsOn(t, item) /\ over'[row] \subseteq Supersedes(t, item)
      BY <1>0, <1>2, <2>1 DEF Half
    <2>4. Half(t)'
      BY <1>1, <1>3, <1>4, <2>1, <2>3 DEF Half, At
    <2> QED BY <1>1, <2>2, <2>4, InsideWrite
  <1>7. CASE MarkSuperseded(t)
    <2>1. /\ UNCHANGED <<rests, over>> /\ active' = active \ over[row]
          /\ pc[t] = "marking" /\ pc'[t] = "linking"
      BY <1>0, <1>7 DEF MarkSuperseded, Goto, At
    <2>2. /\ rests'[row] = RestsOn(t, item) /\ over'[row] \subseteq Supersedes(t, item)
          /\ over'[row] \cap active' = {}
      BY <1>2, <2>1 DEF Half
    <2>3. Half(t)'
      BY <1>1, <1>3, <1>4, <2>1, <2>2 DEF Half, At
    <2> QED BY <1>1, <2>1, <2>3, InsideWrite
  <1> QED BY <1>5, <1>6, <1>7

\* The law is done: what was promised of it is there.
LEMMA LawWrittenWrites ==
    ASSUME TypeOK, OneWriter, WritesOK, NEW t \in Turns, LawWritten(t)
    PROVE  WritesOK'
  <1> DEFINE row == frame[t].row
             item == frame[t].item
  <1>0. pc \in [Turns -> Locations] /\ frame \in [Turns -> Frame]
    BY DEF TypeOK
  <1>1. /\ \A u \in Turns \ {t} : pc'[u] = pc[u] /\ frame'[u] = frame[u]
        /\ pc[t] = "linking" /\ pc'[t] = "adding"
        /\ UNCHANGED <<laws, active, rests, over, packs, cut>>
    BY <1>0 DEF LawWritten, Goto, At, lawTables, history
  <1>2. frame'[t].promoted \subseteq frame[t].promoted \cup {row}
    BY <1>0 DEF LawWritten
  <1>3. Half(t)
    BY <1>1 DEF WritesOK, Writing
  <1>4. \A u \in Turns : pc[u] \in Writing => u = t
    BY <1>1 DEF OneWriter, Writing, Locked
  <1>5. \A u \in Turns : InFlight(u)' = {}
    BY <1>1, <1>4 DEF InFlight, Writing
  <1>6. Whole(row)
    <2>1. over[row] = Supersedes(t, item) /\ rests[row] = RestsOn(t, item)
      BY <1>1, <1>3 DEF Half, LawWritten
    <2>2. rests[row] # {} \/ over[row] # {}
      BY <1>3, <2>1 DEF Half, IsPromoted
    <2> QED BY <1>1, <1>3, <2>2 DEF Half, Whole, At
  <1>7. ASSUME NEW i, Done(i) \/ i = row PROVE Done(i)'
    <2>1. i \in laws /\ Whole(i)
      BY <1>3, <1>6, <1>7 DEF Done, Half
    <2> QED BY <1>1, <1>5, <2>1 DEF Done, Whole
  <1>8. ASSUME NEW u \in Turns, pc'[u] \in Writing PROVE Half(u)'
    BY <1>1, <1>4, <1>8 DEF Writing
  <1>9. ASSUME NEW u \in Turns, NEW i \in frame'[u].promoted PROVE Done(i)'
    BY <1>1, <1>2, <1>7, <1>9 DEF WritesOK
  <1>10. ASSUME NEW n \in DOMAIN packs', NEW i \in packs'[n].laws PROVE Done(i)'
    BY <1>1, <1>7, <1>10 DEF WritesOK
  <1>11. ASSUME NEW i \in laws' \ cut' PROVE Done(i)'
    <2>1. CASE \E u \in Turns : i \in InFlight(u)
      BY <1>4, <1>7, <2>1 DEF InFlight, Writing
    <2> QED BY <1>1, <1>7, <1>11, <2>1 DEF WritesOK
  <1>b. \A u \in Turns : pc'[u] \in Resting => frame'[u].promoted = {}
    BY <1>1 DEF WritesOK, Resting
  <1> QED BY <1>b, <1>8, <1>9, <1>10, <1>11 DEF WritesOK

\* A failure at a law cuts it short, which leaves nobody at work on it.
LEMMA FailureWrites ==
    ASSUME TypeOK, OneWriter, WritesOK, NEW t \in Turns, UpkeepFails(t)
    PROVE  WritesOK'
  <1>0. pc \in [Turns -> Locations] /\ frame \in [Turns -> Frame]
    BY DEF TypeOK
  <1>1. /\ \A u \in Turns \ {t} : pc'[u] = pc[u] /\ frame'[u] = frame[u]
        /\ pc'[t] = "over" /\ frame'[t] = NewFrame
        /\ UNCHANGED <<laws, active, rests, over, packs>> /\ cut' = cut \cup InFlight(t)
    BY <1>0 DEF UpkeepFails, Ends, Goto, lawTables
  <1>2. NewFrame.promoted = {}
    BY DEF NewFrame
  <1>3. \A u \in Turns \ {t} : InFlight(u)' = InFlight(u)
    BY <1>1 DEF InFlight
  <1>4. InFlight(t)' = {}
    BY <1>1 DEF InFlight
  <1>5. ASSUME NEW i, Done(i) PROVE Done(i)'
    BY <1>1, <1>3, <1>4, <1>5 DEF Done, Whole
  <1>6. ASSUME NEW u \in Turns, pc'[u] \in Writing PROVE Half(u)'
    <2>1. u # t /\ pc'[u] = pc[u] /\ frame'[u] = frame[u]
      BY <1>1, <1>6 DEF Writing
    <2>2. Half(u)
      BY <1>6, <2>1 DEF WritesOK
    <2>3. InFlight(t) = {}
      BY <1>6, <2>1 DEF InFlight, OneWriter, Writing, Locked
    <2> QED BY <1>1, <2>1, <2>2, <2>3 DEF Half, IsPromoted, RestsOn, Supersedes, At
  <1>7. ASSUME NEW u \in Turns, NEW i \in frame'[u].promoted PROVE Done(i)'
    BY <1>1, <1>2, <1>5, <1>7 DEF WritesOK
  <1>8. ASSUME NEW n \in DOMAIN packs', NEW i \in packs'[n].laws PROVE Done(i)'
    BY <1>1, <1>5, <1>8 DEF WritesOK
  <1>9. ASSUME NEW i \in laws' \ cut'
        PROVE  Done(i)' \/ \E u \in Turns : i \in InFlight(u)'
    BY <1>1, <1>3, <1>5, <1>9 DEF WritesOK
  <1>b. \A u \in Turns : pc'[u] \in Resting => frame'[u].promoted = {}
    BY <1>1, <1>2 DEF WritesOK
  <1> QED BY <1>b, <1>6, <1>7, <1>8, <1>9 DEF WritesOK

LEMMA CrashWrites == ASSUME WritesOK, Crash PROVE WritesOK'
  <1>1. \A t \in Turns : pc'[t] \notin Writing /\ frame'[t].promoted = {}
    BY DEF Crash, Writing, NewFrame
  <1>2. \A t \in Turns : InFlight(t)' = {}
    BY <1>1 DEF InFlight, Writing
  <1>3. /\ UNCHANGED <<laws, active, rests, over, packs>>
        /\ cut' = cut \cup UNION {InFlight(t) : t \in Turns}
    BY DEF Crash, lawTables
  <1>4. ASSUME NEW i, Done(i) PROVE Done(i)'
    BY <1>2, <1>3, <1>4 DEF Done, Whole
  <1>5. ASSUME NEW i \in laws' \ cut' PROVE Done(i)'
    BY <1>3, <1>4, <1>5 DEF WritesOK
  <1>6. ASSUME NEW n \in DOMAIN packs', NEW i \in packs'[n].laws PROVE Done(i)'
    BY <1>3, <1>4, <1>6 DEF WritesOK
  <1>b. \A u \in Turns : pc'[u] \in Resting => frame'[u].promoted = {}
    BY <1>1 DEF WritesOK
  <1> QED BY <1>b, <1>1, <1>5, <1>6 DEF WritesOK

LEMMA BlankPromoted == NewFrame.promoted = {}
  BY DEF NewFrame

LEMMA WritesStep ==
    ASSUME TypeOK, RowsOK, OneWriter, TablesOK, WritesOK, NEW t \in Turns,
           Turn(t) \/ Ask(t) \/ Persist(t) \/ UpkeepFails(t)
    PROVE  WritesOK'
  <1>0. pc \in [Turns -> Locations] /\ frame \in [Turns -> Frame]
    BY DEF TypeOK
  <1>1. \A u \in Turns \ {t} : pc'[u] = pc[u] /\ frame'[u] = frame[u]
    BY OneTask
  <1>a. pc[t] \in Resting => frame[t].promoted = {}
    BY DEF WritesOK
  <1>2. CASE /\ UNCHANGED <<laws, rests, over, cut, packs>> /\ active' \subseteq active
             /\ pc[t] \notin Writing /\ pc'[t] \notin Writing
             /\ \/ frame'[t].promoted = {}
                \/ frame'[t].promoted = frame[t].promoted /\ pc'[t] \notin Resting
    <2>1. \A n \in DOMAIN packs' : n \in DOMAIN packs /\ packs'[n] = packs[n]
      BY <1>2
    <2> QED BY <1>1, <1>2, <2>1, OutsideWrites
  <1>3. CASE Turn(t)
    <2>1. frame'[t].promoted = {}
      <3>1. CASE Settle(t)
        <4>1. PICK setting \in AutoDistill : frame' = [frame EXCEPT ![t].auto = setting]
          BY <3>1 DEF Settle
        <4>2. frame'[t].promoted = frame[t].promoted
          BY <1>0, <4>1 DEF Frame
        <4> QED BY <1>a, <3>1, <4>2 DEF Settle, At, Resting
      <3> QED BY <1>3, <1>a, <3>1 DEF Turn, Begin, TurnFails, At, Resting
    <2>2. pc[t] \notin Writing /\ pc'[t] \notin Writing
      BY <1>0, <1>3 DEF Turn, Begin, Settle, TurnFails, Goto, At, Writing
    <2> QED BY <1>2, <1>3, <2>1, <2>2 DEF Turn, Begin, Settle, TurnFails, lawTables, history
  <1>4. CASE Ask(t)
    <2>1. CASE SkipDistill(t) \/ NoAnswer(t)
      BY <1>0, <1>2, <2>1, BlankPromoted
      DEF SkipDistill, NoAnswer, Ends, Goto, At, Writing, lawTables, history
    <2>2. CASE SyncRecall(t) \/ StartDistill(t)
      BY <1>0, <1>2, <2>2
      DEF SyncRecall, StartDistill, Goto, At, Writing, Resting, lawTables, history
    <2>3. CASE GatherPrompt(t)
      <3>1. frame'[t].promoted = frame[t].promoted
        BY <1>0, <2>3 DEF GatherPrompt
      <3>2. UNCHANGED <<laws, rests, over, cut, packs, active>>
        BY <2>3 DEF GatherPrompt, lawTables
      <3>3. pc[t] = "gathering" /\ pc'[t] = "asking"
        BY <1>0, <2>3 DEF GatherPrompt, Goto, At
      <3> QED BY <1>2, <3>1, <3>2, <3>3 DEF Writing, Resting
    <2>4. CASE Answer(t)
      BY <1>0, <1>2, <2>4 DEF Answer, Goto, At, Writing, Resting, lawTables, history
    <2> QED BY <1>4, <2>1, <2>2, <2>3, <2>4 DEF Ask
  <1>5. CASE Persist(t)
    <2>1. ASSUME NEW id \in FactIds, InsertFact(t, id) PROVE WritesOK'
      BY <1>0, <1>2, <2>1 DEF InsertFact, Goto, At, Writing, Resting, lawTables, history
    <2>2. CASE CiteEvidence(t)
      <3>1. frame'[t].promoted = frame[t].promoted
        BY <1>0, <2>2 DEF CiteEvidence
      <3> QED BY <1>0, <1>2, <2>2, <3>1
           DEF CiteEvidence, Goto, At, Writing, Resting, lawTables, history
    <2>3. ASSUME NEW list \in {"laws", "drift"}, StartList(t, list) PROVE WritesOK'
      <3>1. frame'[t].promoted = frame[t].promoted
        BY <1>0, <2>3 DEF StartList
      <3>2. pc[t] \in {"removing", "adding"} /\ pc'[t] = "adding"
        BY <1>0, <2>3 DEF StartList, Goto, At
      <3>3. UNCHANGED <<laws, rests, over, cut, packs, active>>
        BY <2>3 DEF StartList, lawTables, history
      <3> QED BY <1>2, <3>1, <3>2, <3>3 DEF Writing, Resting
    <2>4. ASSUME NEW id \in LawIds, RemoveLaw(t, id) PROVE WritesOK'
      BY <1>0, <1>2, <2>4 DEF RemoveLaw, At, Writing, Resting, history
    <2>5. ASSUME NEW id \in LawIds, NEW item \in Items(frame[t].shown), InsertLaw(t, id, item)
          PROVE  WritesOK'
      BY <2>5, InsertLawWrites
    <2>6. CASE FactsStored(t)
      BY <1>0, <1>2, <2>6 DEF FactsStored, Goto, At, Writing, Resting, lawTables, history
    <2>7. CASE LinkFacts(t) \/ (\E id \in LawIds : LinkLaw(t, id)) \/ MarkSuperseded(t)
      BY <2>7, LinkWrites
    <2>8. CASE LawWritten(t)
      BY <2>8, LawWrittenWrites
    <2>9. CASE StoreDrift(t)
      <3>1. [NewFrame EXCEPT !.promoted = frame[t].promoted].promoted = frame[t].promoted
        BY DEF NewFrame
      <3>2. frame'[t].promoted = frame[t].promoted
        BY <1>0, <2>9, <3>1 DEF StoreDrift
      <3> QED BY <1>0, <1>2, <2>9, <3>2
           DEF StoreDrift, Goto, At, Writing, Resting, lawTables, history
    <2>10. CASE InsertPack(t)
      <3> DEFINE pack == [laws |-> frame[t].promoted, at |-> now + 1]
      <3>1. packs' = Append(packs, pack)
        BY <2>10 DEF InsertPack
      <3>2. frame'[t].promoted = {} /\ pc[t] = "packing" /\ pc'[t] = "over"
        BY <1>0, <2>10, BlankPromoted DEF InsertPack, Ends, Goto, At
      <3>3. UNCHANGED <<laws, rests, over, cut, active>>
        BY <2>10 DEF InsertPack, lawTables, history
      <3>4. packs \in Seq([laws : SUBSET LawIds, at : Nat]) /\ pack.laws = frame[t].promoted
        BY DEF TypeOK
      <3>5. ASSUME NEW n \in DOMAIN packs'
            PROVE  \/ n \in DOMAIN packs /\ packs'[n] = packs[n]
                   \/ packs'[n].laws \subseteq frame[t].promoted
        <4> HIDE DEF pack
        <4> QED BY <3>1, <3>4, <3>5
      <3> QED BY <1>1, <3>2, <3>3, <3>5, OutsideWrites DEF Writing
    <2> QED BY <1>5, <2>1, <2>2, <2>3, <2>4, <2>5, <2>6, <2>7, <2>8, <2>9, <2>10 DEF Persist
  <1>6. CASE UpkeepFails(t)
    BY <1>6, FailureWrites
  <1> QED BY <1>3, <1>4, <1>5, <1>6

LEMMA RebuildWrites == ASSUME TypeOK, WritesOK, Rebuild PROVE WritesOK'
  <1>1. \A t \in Turns : pc'[t] \in Resting /\ frame'[t] = frame[t] /\ frame[t].promoted = {}
    BY DEF Rebuild, Resting, WritesOK
  <1>2. \A t \in Turns : pc'[t] \notin Writing
    BY <1>1 DEF Resting, Writing
  <1>3. ASSUME NEW n \in DOMAIN packs' PROVE packs'[n].laws = {}
    <2>1. n \in DOMAIN packs /\ packs'[n] = [packs[n] EXCEPT !.laws = {}]
      BY <1>3 DEF Rebuild
    <2>2. packs \in Seq([laws : SUBSET LawIds, at : Nat])
      BY DEF TypeOK
    <2>3. packs[n] \in [laws : SUBSET LawIds, at : Nat]
      <3>1. DOMAIN packs = 1..Len(packs)
        BY <2>2
      <3> QED BY <2>1, <2>2, <3>1, ElementOfSeq
    <2> QED BY <2>1, <2>3
  <1>4. laws' = {}
    BY DEF Rebuild
  <1> QED BY <1>1, <1>2, <1>3, <1>4 DEF WritesOK

LEMMA WritesInvariant == Spec => [](OneWriter /\ WritesOK)
  <1>1. Init => WritesOK
    <2> SUFFICES ASSUME Init PROVE WritesOK
      OBVIOUS
    <2>1. \A t \in Turns : pc[t] = "absent" /\ frame[t].promoted = {}
      BY BlankPromoted DEF Init
    <2>2. \A t \in Turns : InFlight(t) = {}
      BY <2>1 DEF InFlight
    <2>3. ASSUME NEW i \in laws PROVE Done(i)
      <3>1. OldLaws \in Nat /\ OldLaws <= MaxLaws /\ i \in 1..OldLaws
        BY <2>3, MemoryAssumption DEF Init
      <3>2. i \in LawIds /\ facts = {1}
        BY <3>1, MemoryAssumption DEF Init, LawIds
      <3>3. rests[i] # {} /\ over[i] = {}
        BY <2>3, <3>2 DEF Init
      <3> QED BY <2>2, <2>3, <3>3 DEF Done, Whole
    <2>4. packs = <<>>
      BY DEF Init
    <2> QED BY <2>1, <2>3, <2>4 DEF WritesOK, Writing
  <1>2. ASSUME TypeOK, RowsOK, OneWriter, TablesOK, WritesOK, [Next]_vars PROVE WritesOK'
    <2>1. CASE UNCHANGED vars
      <3>1. \A t \in Turns : InFlight(t)' = InFlight(t)
        BY <2>1 DEF vars, InFlight
      <3>2. \A i : Done(i)' <=> Done(i)
        BY <2>1, <3>1 DEF vars, lawTables, Done, Whole
      <3>3. \A t \in Turns : Half(t)' <=> Half(t)
        BY <2>1 DEF vars, lawTables, history, Half, IsPromoted, RestsOn, Supersedes, At
      <3> QED BY <1>2, <2>1, <3>1, <3>2, <3>3 DEF vars, lawTables, history, WritesOK
    <2> QED BY <1>2, <2>1, WritesStep, CrashWrites, RebuildWrites DEF Next
  <1> QED BY <1>1, <1>2, TypeCorrect, TablesInvariant, LockInvariant, PTL DEF Spec

-----------------------------------------------------------------------------
(* What failures leave.                                                    *)

LEMMA CutGrowsByOne ==
    ASSUME TypeOK, CutBound, NEW i
    PROVE  /\ IsFiniteSet(cut \cup {i})
           /\ Cardinality(cut \cup {i}) <= faults + crashes + 1
  <1>1. faults \in Nat /\ crashes \in Nat
    BY MemoryAssumption DEF TypeOK
  <1>2. IsFiniteSet(cut) /\ Cardinality(cut) \in Nat /\ Cardinality(cut) <= faults + crashes
    BY FS_CardinalityType DEF CutBound
  <1>3. /\ IsFiniteSet(cut \cup {i})
        /\ \/ Cardinality(cut \cup {i}) = Cardinality(cut)
           \/ Cardinality(cut \cup {i}) = Cardinality(cut) + 1
    BY <1>2, FS_AddElement
  <1> QED BY <1>1, <1>2, <1>3

LEMMA CutStep ==
    ASSUME TypeOK, OneWriter, CutBound, [Next]_vars
    PROVE  CutBound'
  <1>0. faults \in Nat /\ crashes \in Nat /\ Cardinality(cut) \in Nat
    BY MemoryAssumption, FS_CardinalityType DEF TypeOK, CutBound
  <1>1. ASSUME NEW flight, flight = {} \/ \E i : flight = {i}, cut' = cut \cup flight,
               faults' + crashes' = faults + crashes + 1
        PROVE  CutBound'
    <2>1. CASE flight = {}
      BY <1>0, <1>1, <2>1 DEF CutBound
    <2>2. ASSUME NEW i, flight = {i} PROVE CutBound'
      BY <1>1, <2>2, CutGrowsByOne DEF CutBound
    <2> QED BY <1>1, <2>1, <2>2
  <1>2. CASE UNCHANGED <<cut, faults, crashes>>
    BY <1>2 DEF CutBound
  <1>3. ASSUME NEW t \in Turns, UpkeepFails(t) PROVE CutBound'
    <2>1. cut' = cut \cup InFlight(t) /\ faults' = faults + 1 /\ crashes' = crashes
      BY <1>3 DEF UpkeepFails
    <2>2. InFlight(t) = {} \/ \E i : InFlight(t) = {i}
      BY DEF InFlight
    <2>3. faults' + crashes' = faults + crashes + 1
      BY <1>0, <2>1
    <2> HIDE DEF InFlight
    <2> QED BY <1>1, <2>1, <2>2, <2>3
  <1>4. CASE Crash
    <2> DEFINE flight == UNION {InFlight(t) : t \in Turns}
    <2>1. cut' = cut \cup flight /\ crashes' = crashes + 1 /\ faults' = faults
      BY <1>4 DEF Crash
    <2>2. flight = {} \/ \E i : flight = {i}
      <3>1. CASE \A t \in Turns : pc[t] \notin Writing
        BY <3>1 DEF InFlight, Writing
      <3>2. ASSUME NEW t \in Turns, pc[t] \in Writing PROVE flight = {frame[t].row}
        <4>1. \A u \in Turns : pc[u] \in Writing => u = t
          BY <3>2 DEF OneWriter, Writing, Locked
        <4>2. InFlight(t) = {frame[t].row}
          BY <3>2 DEF InFlight, Writing
        <4>3. \A u \in Turns \ {t} : InFlight(u) = {}
          BY <4>1 DEF InFlight, Writing
        <4> HIDE DEF InFlight
        <4> QED BY <4>2, <4>3
      <3> QED BY <3>1, <3>2
    <2>3. faults' + crashes' = faults + crashes + 1
      BY <1>0, <2>1
    <2> HIDE DEF flight
    <2> QED BY <1>1, <2>1, <2>2, <2>3
  <1>5. CASE Rebuild
    <2>1. cut' = {} /\ UNCHANGED <<faults, crashes>>
      BY <1>5 DEF Rebuild
    <2> QED BY <1>0, <2>1, FS_EmptySet DEF CutBound
  <1>6. ASSUME NEW t \in Turns, Turn(t) \/ Ask(t) \/ Persist(t)
        PROVE  UNCHANGED <<cut, faults, crashes>>
    <2>1. CASE Turn(t)
      BY <2>1 DEF Turn, Begin, Settle, TurnFails, history, bounds
    <2>2. CASE Ask(t)
      BY <2>2
      DEF Ask, SyncRecall, StartDistill, SkipDistill, GatherPrompt, Answer, NoAnswer,
          history, bounds
    <2>3. CASE Persist(t)
      BY <2>3
      DEF Persist, InsertFact, CiteEvidence, FactsStored, StartList, RemoveLaw, LinkLaw,
          InsertLaw, LinkFacts, MarkSuperseded, LawWritten, StoreDrift, InsertPack,
          history, bounds
    <2> QED BY <1>6, <2>1, <2>2, <2>3
  <1>7. CASE UNCHANGED vars
    BY <1>2, <1>7 DEF vars, history, bounds
  <1> QED BY <1>2, <1>3, <1>4, <1>5, <1>6, <1>7 DEF Next

LEMMA CutInvariant == Spec => []CutBound
  <1>1. Init => CutBound
    BY FS_EmptySet DEF Init, CutBound
  <1> QED BY <1>1, CutStep, TypeCorrect, LockInvariant, PTL DEF Spec

-----------------------------------------------------------------------------
(* The theorems.                                                           *)

\* Every law is whole, or the one holder of the lock is writing it, or a
\* failure has cut it short, each failure one law at most.
THEOREM LawsAreWhole == Spec => []LawsWhole
  <1>1. ASSUME TypeOK, WritesOK, CutBound PROVE LawsWhole
    <2>1. ASSUME NEW i \in laws \ cut PROVE Whole(i) \/ \E t \in Turns : InFlight(t) = {i}
      <3>1. CASE Done(i)
        BY <3>1 DEF Done
      <3>2. ASSUME NEW t \in Turns, i \in InFlight(t) PROVE InFlight(t) = {i}
        BY <3>2 DEF InFlight
      <3> QED BY <1>1, <3>1, <3>2 DEF WritesOK
    <2> QED BY <1>1, <2>1 DEF LawsWhole, CutBound
  <1> QED BY <1>1, TypeCorrect, WritesInvariant, CutInvariant, PTL

\* A wake pack never names a law that is missing, unfinished or cut short.
THEOREM PacksNameWholeLaws == Spec => []PackedLawsWhole
  <1>1. WritesOK => PackedLawsWhole
    BY DEF WritesOK, PackedLawsWhole, Done
  <1> QED BY <1>1, WritesInvariant, PTL

\* Laws are whole, rest on recorded evidence, and so do those wake packs name.
THEOREM LawsAreSound == Spec => []LawsSound
BY LawsAreWhole, LawsRest, PacksNameWholeLaws, PTL DEF LawsSound

-----------------------------------------------------------------------------
(* Turns that are caught up with.                                          *)

\* The clock ticks for each settling and for each pack, which makes their
\* times distinct: a pack that is not older than a turn is later.
ClockOK ==
    /\ \A t \in Turns : settled[t] <= now
    /\ \A n \in DOMAIN packs : packs[n].at <= now
    /\ \A t \in Turns, n \in DOMAIN packs : packs[n].at # settled[t]

\* Where an upkeep has not looked at its turn's answer yet.
Behind == {"absent", "working", "recalling", "checking", "gathering"}

Covered(t) == t \in offered \/ \E n \in DOMAIN packs : packs[n].at > settled[t]

\* Turns have no time before they settle, and if nothing has failed those past
\* the reading of their answers are covered.
FrontierOK ==
    /\ ClockOK
    /\ \A t \in Turns : pc[t] \in {"absent", "working"} => settled[t] = 0
    /\ faults + crashes = 0 =>
          \A t \in Turns : pc[t] \notin Behind /\ settled[t] > 0 => Covered(t)

LEMMA ClocksTyped ==
    TypeOK => /\ now \in Nat /\ faults \in Nat /\ crashes \in Nat
              /\ \A t \in Turns : settled[t] \in Nat
              /\ \A n \in DOMAIN packs : packs[n] \in [laws : SUBSET LawIds, at : Nat]
  <1> SUFFICES ASSUME TypeOK
               PROVE  /\ now \in Nat /\ faults \in Nat /\ crashes \in Nat
                      /\ \A t \in Turns : settled[t] \in Nat
                      /\ \A n \in DOMAIN packs : packs[n] \in [laws : SUBSET LawIds, at : Nat]
    OBVIOUS
  <1>1. faults \in 0..MaxFaults /\ crashes \in 0..MaxCrashes
    BY DEF TypeOK
  <1>2. faults \in Nat /\ crashes \in Nat
    BY <1>1, MemoryAssumption
  <1>3. packs \in Seq([laws : SUBSET LawIds, at : Nat])
    BY DEF TypeOK
  <1> DEFINE Pack == [laws : SUBSET LawIds, at : Nat]
  <1>4. \A n \in DOMAIN packs : packs[n] \in Pack
    <2> HIDE DEF Pack
    <2>1. packs \in Seq(Pack)
      BY <1>3 DEF Pack
    <2> QED BY <2>1, ElementOfSeq
  <1> QED BY <1>2, <1>4 DEF TypeOK

\* What is covered stays covered, and whoever moves on has been covered.
LEMMA FrontierKept ==
    ASSUME TypeOK, FrontierOK, NEW t \in Turns,
           \A u \in Turns \ {t} : pc'[u] = pc[u],
           offered \subseteq offered', UNCHANGED <<packs, settled, now, crashes>>,
           faults' = faults \/ faults' = faults + 1,
           pc'[t] \in {"absent", "working"} => pc[t] \in {"absent", "working"},
           faults' + crashes' = 0 /\ pc'[t] \notin Behind /\ settled[t] > 0
               => pc[t] \notin Behind \/ Covered(t)'
    PROVE  FrontierOK'
  <1>1. ClockOK'
    BY DEF FrontierOK, ClockOK
  <1>2. \A u \in Turns : pc'[u] \in {"absent", "working"} => settled'[u] = 0
    BY DEF FrontierOK
  <1>3. ASSUME faults' + crashes' = 0, NEW u \in Turns, pc'[u] \notin Behind, settled'[u] > 0
        PROVE  Covered(u)'
    <2>1. faults + crashes = 0
      BY <1>3, ClocksTyped
    <2>2. Covered(u) => Covered(u)'
      BY DEF Covered
    <2>3. CASE pc[u] \notin Behind
      BY <1>3, <2>1, <2>2, <2>3 DEF FrontierOK
    <2>4. CASE pc[u] \in Behind
      <3>1. u = t
        BY <1>3, <2>4
      <3> QED BY <1>3, <2>4, <3>1
    <2> QED BY <2>3, <2>4
  <1> QED BY <1>1, <1>2, <1>3 DEF FrontierOK

LEMMA FrontierStep ==
    ASSUME TypeOK, FrontierOK, NEW t \in Turns,
           Turn(t) \/ Ask(t) \/ Persist(t) \/ UpkeepFails(t)
    PROVE  FrontierOK'
  <1>0. pc \in [Turns -> Locations] /\ settled \in [Turns -> Nat] /\ now \in Nat
    BY DEF TypeOK
  <1>1. \A u \in Turns \ {t} : pc'[u] = pc[u] /\ frame'[u] = frame[u]
    BY OneTask
  <1>2. CASE /\ UNCHANGED <<packs, settled, now, faults, crashes, offered>>
             /\ pc'[t] \in {"absent", "working"} => pc[t] \in {"absent", "working"}
             /\ pc[t] \in Behind => pc'[t] \in Behind
    BY <1>1, <1>2, FrontierKept
  <1>3. CASE Begin(t)
    BY <1>0, <1>2, <1>3 DEF Begin, At, Goto, Behind, bounds, history
  <1>4. CASE Settle(t)
    <2>1. settled'[t] = now + 1 /\ \A u \in Turns \ {t} : settled'[u] = settled[u]
      BY <1>0, <1>4 DEF Settle
    <2>2. pc'[t] = "recalling" /\ now' = now + 1
      BY <1>0, <1>4 DEF Settle, Goto
    <2>3. UNCHANGED <<packs, offered, faults, crashes>>
      BY <1>4 DEF Settle, history, bounds
    <2>4. \A n \in DOMAIN packs : packs[n].at \in Nat
      BY ClocksTyped
    <2>5. ClockOK'
      BY <1>0, <2>1, <2>2, <2>3, <2>4 DEF FrontierOK, ClockOK
    <2>6. \A u \in Turns : pc'[u] \in {"absent", "working"} => settled'[u] = 0
      BY <1>1, <2>1, <2>2 DEF FrontierOK
    <2>7. \A u \in Turns : pc'[u] \notin Behind => u # t
      BY <2>2 DEF Behind
    <2>8. \A u \in Turns \ {t} : Covered(u) => Covered(u)'
      BY <2>1, <2>3 DEF Covered
    <2> QED BY <1>1, <2>1, <2>3, <2>5, <2>6, <2>7, <2>8 DEF FrontierOK
  <1>5. CASE TurnFails(t)
    <2>1. settled[t] = 0 /\ pc'[t] = "over"
      BY <1>0, <1>5 DEF TurnFails, At, Goto, FrontierOK
    <2>2. UNCHANGED <<packs, settled, now, faults, crashes, offered>>
      BY <1>5 DEF TurnFails, turnTables, history, bounds
    <2> QED BY <1>1, <2>1, <2>2, FrontierKept
  <1>6. CASE SyncRecall(t) \/ StartDistill(t) \/ Answer(t)
    BY <1>0, <1>2, <1>6
    DEF SyncRecall, StartDistill, Answer, At, Goto, Behind, turnTables, history, bounds
  <1>7. CASE SkipDistill(t)
    <2>1. PICK n \in DOMAIN packs : ~(packs[n].at < settled[t])
      BY <1>7 DEF SkipDistill, NeedsCatchup
    <2>2. packs[n].at \in Nat /\ settled[t] \in Nat
      BY <2>1, ClocksTyped
    <2>3. packs[n].at > settled[t]
      BY <2>1, <2>2 DEF FrontierOK, ClockOK
    <2>4. UNCHANGED <<packs, settled, now, faults, crashes, offered>> /\ pc'[t] = "over"
      BY <1>0, <1>7 DEF SkipDistill, Ends, Goto, turnTables, history, bounds
    <2>5. Covered(t)'
      BY <2>1, <2>3, <2>4 DEF Covered
    <2> QED BY <1>1, <2>4, <2>5, FrontierKept
  <1>8. CASE GatherPrompt(t)
    <2>1. UNCHANGED <<packs, settled, now, faults, crashes>> /\ pc'[t] = "asking"
      BY <1>0, <1>8 DEF GatherPrompt, Goto, turnTables, bounds
    <2>2. offered \subseteq offered'
      BY <1>8 DEF GatherPrompt
    <2>3. settled[t] > 0 => t \in AnswersUpTo(t)
      BY MemoryAssumption DEF AnswersUpTo, Turns
    <2>4. settled[t] > 0 => Covered(t)'
      BY <1>8, <2>3 DEF GatherPrompt, Covered
    <2> QED BY <1>1, <2>1, <2>2, <2>4, FrontierKept
  <1>9. CASE NoAnswer(t)
    BY <1>0, <1>2, <1>9 DEF NoAnswer, At, Goto, Behind, turnTables, history, bounds
  <1>10. CASE InsertPack(t)
    <2>1. now' = now + 1 /\ packs' = Append(packs, [laws |-> frame[t].promoted, at |-> now + 1])
      BY <1>10 DEF InsertPack
    <2>2. UNCHANGED <<settled, faults, crashes, offered>> /\ pc'[t] = "over" /\ pc[t] = "packing"
      BY <1>0, <1>10 DEF InsertPack, Ends, At, Goto, turnTables, history, bounds
    <2>3. packs \in Seq([laws : SUBSET LawIds, at : Nat])
      BY DEF TypeOK
    <2>4. /\ DOMAIN packs' = 1..(Len(packs) + 1) /\ DOMAIN packs = 1..Len(packs)
          /\ Len(packs) \in Nat
          /\ \A n \in 1..Len(packs) : packs'[n] = packs[n]
          /\ packs'[Len(packs) + 1] = [laws |-> frame[t].promoted, at |-> now + 1]
      BY <2>1, <2>3, AppendProperties
    <2>5. \A n \in DOMAIN packs' : n \in DOMAIN packs \/ packs'[n].at = now + 1
      BY <2>4
    <2>6. ClockOK'
      <3>1. \A u \in Turns : settled'[u] <= now' /\ settled'[u] # now + 1
        BY <1>0, <2>1, <2>2 DEF FrontierOK, ClockOK
      <3>2. \A n \in DOMAIN packs : packs'[n].at = packs[n].at /\ packs[n].at \in Nat
        BY <2>4, ClocksTyped
      <3>3. \A n \in DOMAIN packs' : packs'[n].at <= now'
        BY <1>0, <2>1, <2>5, <3>2 DEF FrontierOK, ClockOK
      <3>4. \A u \in Turns, n \in DOMAIN packs' : packs'[n].at # settled'[u]
        BY <2>2, <2>5, <3>1, <3>2 DEF FrontierOK, ClockOK
      <3> QED BY <3>1, <3>3, <3>4 DEF ClockOK
    <2>7. \A u \in Turns : pc'[u] \in {"absent", "working"} => settled'[u] = 0
      BY <1>1, <2>2 DEF FrontierOK
    <2>8. \A u \in Turns : Covered(u) => Covered(u)'
      BY <2>2, <2>4 DEF Covered
    <2>9. \A u \in Turns : pc'[u] \notin Behind => pc[u] \notin Behind
      BY <1>1, <2>2 DEF Behind
    <2> QED BY <2>2, <2>6, <2>7, <2>8, <2>9 DEF FrontierOK
  <1>11. CASE Persist(t) /\ ~InsertPack(t)
    <2>1. UNCHANGED <<packs, settled, now, faults, crashes, offered>>
      BY <1>11
      DEF Persist, InsertFact, CiteEvidence, FactsStored, StartList, RemoveLaw, LinkLaw,
          InsertLaw, LinkFacts, MarkSuperseded, LawWritten, StoreDrift, turnTables, history,
          bounds
    <2>2. pc[t] \notin Behind
      BY <1>11
      DEF Persist, InsertFact, CiteEvidence, FactsStored, StartList, RemoveLaw, LinkLaw,
          InsertLaw, LinkFacts, MarkSuperseded, LawWritten, StoreDrift, At, Behind
    <2>3. pc'[t] \notin Behind
      <3>1. CASE \E id \in LawIds : RemoveLaw(t, id)
        BY <2>2, <3>1 DEF RemoveLaw
      <3>2. CASE ~\E id \in LawIds : RemoveLaw(t, id)
        BY <1>0, <1>11, <3>2
        DEF Persist, InsertFact, CiteEvidence, FactsStored, StartList, LinkLaw, InsertLaw,
            LinkFacts, MarkSuperseded, LawWritten, StoreDrift, Goto, Behind
      <3> QED BY <3>1, <3>2
    <2> QED BY <1>2, <2>1, <2>2, <2>3 DEF Behind
  <1>12. CASE UpkeepFails(t)
    <2>1. UNCHANGED <<packs, settled, now, crashes, offered>> /\ pc'[t] = "over"
      BY <1>0, <1>12 DEF UpkeepFails, Ends, Goto, turnTables
    <2>2. faults' = faults + 1 /\ faults \in Nat /\ crashes \in Nat
      BY <1>12, ClocksTyped DEF UpkeepFails
    <2> QED BY <1>1, <2>1, <2>2, FrontierKept
  <1> QED BY <1>3, <1>4, <1>5, <1>6, <1>7, <1>8, <1>9, <1>10, <1>11, <1>12 DEF Turn, Ask

LEMMA FrontierOutside ==
    ASSUME TypeOK, FrontierOK, Crash \/ Rebuild
    PROVE  FrontierOK'
  <1>0. pc \in [Turns -> Locations] /\ faults \in Nat /\ crashes \in Nat
    BY ClocksTyped DEF TypeOK
  <1>1. CASE Crash
    <2>1. crashes' = crashes + 1 /\ UNCHANGED <<packs, settled, now, faults>>
      BY <1>1 DEF Crash, turnTables
    <2>2. \A t \in Turns : pc'[t] \in {"absent", "working"} => pc[t] = "absent"
      BY <1>1 DEF Crash
    <2> QED BY <1>0, <2>1, <2>2 DEF FrontierOK, ClockOK
  <1>2. CASE Rebuild
    <2>1. UNCHANGED <<pc, settled, now, faults, crashes, offered>>
      BY <1>2 DEF Rebuild, turnTables
    <2>2. DOMAIN packs' = DOMAIN packs
      BY <1>2 DEF Rebuild
    <2>3. \A n \in DOMAIN packs : packs'[n].at = packs[n].at
      <3>1. packs' = [n \in DOMAIN packs |-> [packs[n] EXCEPT !.laws = {}]]
        BY <1>2 DEF Rebuild
      <3>2. \A n \in DOMAIN packs : packs[n] \in [laws : SUBSET LawIds, at : Nat]
        BY ClocksTyped
      <3> QED BY <3>1, <3>2
    <2>4. ClockOK'
      BY <2>1, <2>2, <2>3 DEF FrontierOK, ClockOK
    <2>5. \A t \in Turns : Covered(t) => Covered(t)'
      BY <2>1, <2>2, <2>3 DEF Covered
    <2> QED BY <2>1, <2>4, <2>5 DEF FrontierOK
  <1> QED BY <1>1, <1>2

\* While nothing has failed, no upkeep ends without that its turn's answer was
\* shown to a compressor or is older than a wake pack, whichever upkeep was
\* faster and whatever the setting was when it looked.
THEOREM NobodyStaysStale == Spec => []StaleTurnsCaughtUp
  <1>1. Init => FrontierOK
    BY DEF Init, FrontierOK, ClockOK
  <1>2. ASSUME TypeOK, FrontierOK, [Next]_vars PROVE FrontierOK'
    <2>1. CASE UNCHANGED vars
      BY <1>2, <2>1
      DEF FrontierOK, ClockOK, Covered, vars, turnTables, history, bounds
    <2> QED BY <1>2, <2>1, FrontierStep, FrontierOutside DEF Next
  <1>3. FrontierOK => StaleTurnsCaughtUp
    BY DEF FrontierOK, StaleTurnsCaughtUp, Covered, At, Behind
  <1> QED BY <1>1, <1>2, <1>3, TypeCorrect, PTL DEF Spec
-----------------------------------------------------------------------------
(* Observation routines: types.                                            *)

Kinds == {"incomplete_tool_chain", "awaiting_user", "unresolved_error", "tool_failure",
          "recurring_topic", "high_ratio", "drift"}
Words == UNION {Range(WordsOf[t]) : t \in Chats}
Subjects == Chats \cup Tools \cup Words \cup Nat
Citations == SUBSET ({"turn"} \X Chats)
Notes == [kind : Kinds, about : Seq(Subjects), cites : Citations]
Entries == [turn : Chats, kind : {"user", "agent", "call", "result", "error"},
            tool : Tools \cup {NoTool}]
Flags == [kind : {"flag", "contradiction"}, cites : Citations]
Rows == [item : Notes, at : Nat, resolved : BOOLEAN, seen : Nat, full : BOOLEAN,
         answered : SUBSET Chats]
Looking == {"tensions", "patterns", "drift"}
Routines == [at : {"waiting", "begun", "resolving", "finished", "failed"} \cup Looking,
             stale : SUBSET Nat, recent : Seq(Entries), todo : SUBSET Notes,
             item : Notes \cup {NoItemYet}, seen : Nat, full : BOOLEAN, began : Nat,
             answered : SUBSET Chats, asked : SUBSET Chats, flags : SUBSET Nat]

TablesTyped ==
    /\ chats \in [Chats -> {"absent", "running", "succeeded", "awaiting_user", "failed"}]
    /\ ledger \in Seq(Entries) /\ drift \in Seq(Flags) /\ found \in Seq(Rows)
    /\ routine \in [Chats -> Routines]
    /\ hour \in Nat

-----------------------------------------------------------------------------
(* Observation routines: the inductive invariant.                          *)

\* What an answered turn has in the ledger ends with its answer.
EndsWithAnswer(entries, t) ==
    \E k \in 1..Len(entries) :
        /\ entries[k].turn = t /\ entries[k].kind = "agent"
        /\ \A m \in 1..Len(entries) : entries[m].turn = t => m <= k
AnswersLast == \A t \in Answered : EndsWithAnswer(ledger, t)

\* The turn that the item is about is none of those that stood answered.
Unanswered(item, answered) ==
    item.kind \in {"incomplete_tool_chain", "unresolved_error"} => item.about[1] \notin answered

Waits(u) == Item("awaiting_user", <<u>>, CiteTurn(u))
Flagged(d) == Item("drift", <<d>>, drift[d].cites)

ObservedIn(rows, item) == \E i \in 1..Len(rows) : Same(rows[i].item, item)
Pending(t, item) ==
    item \in routine[t].todo \/ routine[t].item = item \/ ObservedIn(found, item)

\* An item in hand has been looked for among what there was at the look.
LookedIn(rows, item, seen, full) ==
    /\ item.kind \in Asking /\ seen <= Len(rows)
    /\ \A i \in 1..seen :
          /\ ~rows[i].resolved /\ KindOf[rows[i].item.kind] = KindOf[item.kind]
          /\ Same(rows[i].item, item)
          => full

\* Where a routine is, and what it may have there.
PlaceOK(t) ==
    LET r == routine[t] IN
    /\ chats[t] \in {"absent", "running"} => r.at = "waiting"
    /\ t \in Answered => r.at # "waiting"
    /\ r.at \notin Looking => r.todo = {} /\ r.item = NoItemYet
    /\ r.stale \subseteq 1..Len(found) /\ r.began <= hour
    /\ r.flags \subseteq 1..Len(drift)

\* What was too old when it began is resolved, or in its list.
AgesOK(t) ==
    LET r == routine[t] IN
    /\ \A i \in r.stale : hour - found[i].at > MaxAge
    /\ r.at \in {"resolving", "finished"} \cup Looking =>
          \A i \in 1..Len(found) : r.began - found[i].at > MaxAge
              => found[i].resolved \/ (r.at = "resolving" /\ i \in r.stale)

\* What it has in hand.
HandOK(t) ==
    LET r == routine[t] IN
    /\ \A x \in r.todo : Unanswered(x, r.answered)
    /\ r.item # NoItemYet => LookedIn(found, r.item, r.seen, r.full)

\* What it saw is stored or still to be.
SightOK(t) ==
    LET r == routine[t] IN
    /\ r.at = "tensions" => \A u \in r.asked : Pending(t, Waits(u))
    /\ r.at \in {"patterns", "drift", "finished"} =>
          \A u \in r.asked : ObservedIn(found, Waits(u))
    /\ r.at = "drift" => \A d \in r.flags : Pending(t, Flagged(d))
    /\ r.at = "finished" => \A d \in r.flags : ObservedIn(found, Flagged(d))

RoutineOK(t) == PlaceOK(t) /\ AgesOK(t) /\ HandOK(t) /\ SightOK(t)

RowOK(i) ==
    /\ found[i].at <= hour
    /\ Unanswered(found[i].item, found[i].answered)
    /\ found[i].item.kind \in Asking => found[i].seen < i

ObsInv ==
    /\ TablesTyped /\ AnswersLast /\ SecondOnlyByRace
    /\ \A i \in 1..Len(found) : RowOK(i)
    /\ \A t \in Chats : RoutineOK(t)

-----------------------------------------------------------------------------
(* Observation routines: what the detectors give.                          *)

LEMMA KindsOfNotes == Kinds = DOMAIN KindOf
BY DEF Kinds, KindOf

LEMMA EntryKinds == {"user", "agent", "call", "result", "error"} = DOMAIN PayloadKeys
BY DEF PayloadKeys

LEMMA NoteOfTurn ==
    ASSUME NEW kind \in Kinds, NEW t \in Chats
    PROVE  Item(kind, <<t>>, CiteTurn(t)) \in Notes
<1>1. <<t>> \in Seq(Subjects)
  BY DEF Subjects
<1>2. CiteTurn(t) \in Citations
  BY DEF CiteTurn, Citations
<1>3. QED
  BY <1>1, <1>2 DEF Item, Notes

LEMMA EntriesHave ==
    ASSUME NEW entries \in Seq(Entries), NEW kinds
    PROVE  TurnsWith(entries, kinds) \subseteq Chats
<1>1. \A i \in DOMAIN entries : entries[i] \in Entries
  BY ElementOfSeq, LenProperties
<1>2. QED
  BY <1>1 DEF TurnsWith, Of, Entries

LEMMA TensionsTyped ==
    ASSUME NEW entries \in Seq(Entries)
    PROVE  Tensions(entries) \subseteq Notes
<1>1. Incomplete(entries) \subseteq Notes
  BY EntriesHave, NoteOfTurn DEF Incomplete, Kinds
<1>2. Awaiting \subseteq Notes
  BY NoteOfTurn DEF Awaiting, Kinds
<1>3. Unrecovered(entries) \subseteq Notes
  BY EntriesHave, NoteOfTurn DEF Unrecovered, Kinds
<1>4. QED
  BY <1>1, <1>2, <1>3 DEF Tensions

LEMMA PatternsTyped ==
    ASSUME NEW entries
    PROVE  \A x \in Patterns(entries) : x \in Notes /\ x.kind = "tool_failure"
<1>1. \A tool \in Tools : <<tool>> \in Seq(Subjects)
  BY DEF Subjects
<1>2. {} \in Citations /\ "tool_failure" \in Kinds
  BY DEF Citations, Kinds
<1>3. \A tool \in Tools : /\ Item("tool_failure", <<tool>>, {}) \in Notes
                        /\ Item("tool_failure", <<tool>>, {}).kind = "tool_failure"
  BY <1>1, <1>2 DEF Item, Notes
<1>4. QED
  BY <1>3 DEF Patterns

LEMMA RatioTyped ==
    ASSUME NEW entries
    PROVE  \A x \in HighRatio(entries) : x \in Notes /\ x.kind = "high_ratio"
<1>1. <<>> \in Seq(Subjects) /\ {} \in Citations /\ "high_ratio" \in Kinds
  BY EmptySeq DEF Citations, Kinds
<1>2. Item("high_ratio", <<>>, {}) \in Notes /\ Item("high_ratio", <<>>, {}).kind = "high_ratio"
  BY <1>1 DEF Item, Notes
<1>3. QED
  BY <1>2 DEF HighRatio

LEMMA RangeFinite ==
    ASSUME NEW D, IsFiniteSet(D), NEW f, f = [x \in D |-> f[x]]
    PROVE  IsFiniteSet(Range(f))
<1>1. f \in Surjection(D, Range(f))
  BY DEF Surjection, Range
<1>2. QED
  BY <1>1, FS_Surjection

\* There are finitely many words.
LEMMA WordsFinite == IsFiniteSet(Words)
<1> DEFINE ranges == [t \in Chats |-> Range(WordsOf[t])]
<1>1. IsFiniteSet(Range(ranges)) /\ Range(ranges) = {Range(WordsOf[t]) : t \in Chats}
  <2>1. Range(ranges) = {Range(WordsOf[t]) : t \in Chats}
    BY DEF Range
  <2>2. ranges = [t \in Chats |-> ranges[t]] /\ IsFiniteSet(Chats)
    BY ObservationsAssumption
  <2> HIDE DEF ranges
  <2>3. QED
    BY <2>1, <2>2, RangeFinite
<1>2. ASSUME NEW t \in Chats PROVE IsFiniteSet(Range(WordsOf[t]))
  <2>1. WordsOf[t] \in Seq(Range(WordsOf[t]))
    BY ObservationsAssumption
  <2>2. /\ Len(WordsOf[t]) \in Nat
        /\ WordsOf[t] = [i \in 1..Len(WordsOf[t]) |-> WordsOf[t][i]]
    BY <2>1, LenProperties
  <2>3. IsFiniteSet(1..Len(WordsOf[t]))
    BY <2>2, FS_Interval
  <2>4. QED
    BY <2>2, <2>3, RangeFinite
<1>3. QED
  BY <1>1, <1>2, FS_UNION DEF Words

LEMMA TopicsTyped ==
    ASSUME NEW entries
    PROVE  \A x \in Topics(entries) : x \in Notes /\ x.kind = "recurring_topic"
<1> DEFINE S == Recurring(entries)
<1>1. S \subseteq Words /\ IsFiniteSet(S)
  BY WordsFinite, FS_Subset DEF Recurring, Words
<1>2. Cardinality(S) \in Nat
  BY <1>1, FS_CardinalityType
<1> HIDE DEF S
<1>3. ASSUME NEW order \in SetToSeqs(S)
      PROVE  SubSeq(order, 1, IF Len(order) > 3 THEN 3 ELSE Len(order)) \in Seq(Subjects)
  <2>1. order \in [1..Cardinality(S) -> S]
    BY DEF SetToSeqs
  <2>2. Len(order) = Cardinality(S) /\ \A i \in 1..Cardinality(S) : order[i] \in Subjects
    BY <1>1, <1>2, <2>1 DEF Subjects
  <2> DEFINE last == IF Len(order) > 3 THEN 3 ELSE Len(order)
  <2>3. last \in Int /\ \A i \in 1..last : order[i] \in Subjects
    BY <1>2, <2>2
  <2> HIDE DEF last
  <2>4. SubSeq(order, 1, last) \in Seq(Subjects)
    BY <2>3, SubSeqProperties
  <2>5. QED
    BY <2>4 DEF last
<1>4. {} \in Citations /\ "recurring_topic" \in Kinds
  BY DEF Citations, Kinds
<1>5. ASSUME NEW about \in Seq(Subjects)
      PROVE  /\ Item("recurring_topic", about, {}) \in Notes
             /\ Item("recurring_topic", about, {}).kind = "recurring_topic"
  BY <1>4 DEF Item, Notes
<1>6. QED
  BY <1>3, <1>5 DEF Topics, S

LEMMA DriftsTyped ==
    ASSUME drift \in Seq(Flags)
    PROVE  \A x \in Drifts : x \in Notes /\ x.about[1] \in 1..Len(drift) /\ x = Flagged(x.about[1])
<1>1. Len(drift) \in Nat /\ DOMAIN drift = 1..Len(drift)
  BY LenProperties
<1>2. \A i \in 1..Len(drift) : drift[i] \in Flags
  BY ElementOfSeq
<1>3. Listed("flag") \cup Listed("contradiction") \subseteq 1..Len(drift)
  BY <1>1 DEF Listed
<1>4. ASSUME NEW i \in 1..Len(drift)
      PROVE  /\ Flagged(i) \in Notes /\ Flagged(i).about[1] = i
             /\ Item("drift", <<i>>, drift[i].cites) = Flagged(i)
  <2>1. <<i>> \in Seq(Subjects) /\ <<i>>[1] = i
    BY <1>1 DEF Subjects
  <2>2. drift[i].cites \in Citations
    BY <1>2 DEF Flags
  <2>3. QED
    BY <2>1, <2>2 DEF Flagged, Item, Notes, Kinds
<1>5. ASSUME NEW x \in Drifts PROVE \E i \in 1..Len(drift) : x = Flagged(i)
  BY <1>3, <1>4 DEF Drifts
<1>6. QED
  BY <1>4, <1>5

\* The window of the ledger that a routine reads.
LEMMA WindowOfLedger ==
    ASSUME ledger \in Seq(Entries), NEW from \in 1..Len(ledger) + 1
    PROVE  LET entries == SubSeq(ledger, from, Len(ledger))
           IN  /\ entries \in Seq(Entries)
               /\ DOMAIN entries = 1..(Len(ledger) - from + 1)
               /\ \A i \in DOMAIN entries : entries[i] = ledger[from + i - 1]
<1>1. Len(ledger) \in Nat /\ \A i \in from..Len(ledger) : ledger[i] \in Entries
  BY LenProperties, ElementOfSeq
<1> DEFINE entries == SubSeq(ledger, from, Len(ledger))
<1>2. /\ entries \in Seq(Entries)
      /\ Len(entries) = IF from <= Len(ledger) THEN Len(ledger) - from + 1 ELSE 0
      /\ \A i \in 1..(Len(ledger) - from + 1) : entries[i] = ledger[from + i - 1]
  BY <1>1, SubSeqProperties
<1>3. DOMAIN entries = 1..Len(entries)
  BY <1>2, LenProperties
<1>4. Len(entries) = Len(ledger) - from + 1
  BY <1>1, <1>2
<1>5. QED
  BY <1>2, <1>3, <1>4

-----------------------------------------------------------------------------
(* Observation routines: what a step leaves to the others.                 *)

\* The drift items and the observations only grow, but for an observation that
\* is resolved.
DriftGrows ==
    Len(drift') >= Len(drift) /\ \A d \in 1..Len(drift) : drift'[d] = drift[d]
FoundGrows ==
    /\ Len(found') \in {Len(found), Len(found) + 1}
    /\ \A i \in 1..Len(found) :
          /\ found'[i].item = found[i].item /\ found'[i].at = found[i].at
          /\ found'[i].seen = found[i].seen /\ found'[i].full = found[i].full
          /\ found'[i].answered = found[i].answered
          /\ found[i].resolved => found'[i].resolved

\* A turn may be failed, and one that stands answered has been answered.
StillAnswered(u) ==
    /\ chats'[u] \in {"absent", "running"} => chats[u] \in {"absent", "running"}
    /\ u \in Answered' => u \in Answered

\* A row that is added: of this hour, unanswered, and looked for if one asks.
NewRowOK ==
    Len(found') = Len(found) + 1 =>
        LET row == found'[Len(found) + 1] IN
        /\ row.at = hour /\ hour' = hour
        /\ Unanswered(row.item, row.answered)
        /\ row.item.kind \in Asking => LookedIn(found, row.item, row.seen, row.full)

LEMMA Lengths ==
    ASSUME TablesTyped
    PROVE  /\ Len(ledger) \in Nat /\ DOMAIN ledger = 1..Len(ledger)
           /\ Len(drift) \in Nat /\ DOMAIN drift = 1..Len(drift)
           /\ Len(found) \in Nat /\ DOMAIN found = 1..Len(found)
           /\ hour \in Nat /\ MaxAge \in Nat
           /\ \A i \in 1..Len(found) : found[i] \in Rows
           /\ \A k \in 1..Len(ledger) : ledger[k] \in Entries
           /\ \A d \in 1..Len(drift) : drift[d] \in Flags
           /\ \A t \in Chats : routine[t] \in Routines
<1>1. ledger \in Seq(Entries) /\ drift \in Seq(Flags) /\ found \in Seq(Rows)
  BY DEF TablesTyped
<1>2. MaxAge \in Nat
  BY ObservationsAssumption
<1>3. QED
  BY <1>1, <1>2, LenProperties, ElementOfSeq DEF TablesTyped

LEMMA StaysObserved ==
    ASSUME TablesTyped, TablesTyped', FoundGrows, NEW item, ObservedIn(found, item)
    PROVE  ObservedIn(found', item)
<1>1. Len(found) \in Nat /\ Len(found') \in Nat
  BY LenProperties DEF TablesTyped
<1>2. QED
  BY <1>1 DEF ObservedIn, FoundGrows

LEMMA StaysLooked ==
    ASSUME TablesTyped, TablesTyped', FoundGrows, NEW item, NEW seen \in Nat, NEW full,
           LookedIn(found, item, seen, full)
    PROVE  LookedIn(found', item, seen, full)
<1>1. Len(found) \in Nat /\ Len(found') \in Nat
  BY LenProperties DEF TablesTyped
<1>2. QED
  BY <1>1 DEF LookedIn, FoundGrows

\* A routine that does not move notices nothing of the others.
LEMMA OthersUndisturbed ==
    ASSUME TablesTyped, TablesTyped', DriftGrows, FoundGrows, NewRowOK,
           hour' >= hour, NEW u \in Chats, RoutineOK(u), routine'[u] = routine[u],
           StillAnswered(u)
    PROVE  RoutineOK(u)'
<1> DEFINE r == routine[u]
<1>1. /\ Len(ledger) \in Nat /\ Len(drift) \in Nat /\ Len(found) \in Nat
      /\ hour \in Nat /\ MaxAge \in Nat /\ r \in Routines
      /\ \A i \in 1..Len(found) : found[i] \in Rows
  BY Lengths
<1>2. /\ Len(ledger') \in Nat /\ Len(drift') \in Nat /\ Len(found') \in Nat /\ hour' \in Nat
      /\ \A i \in 1..Len(found') : found'[i] \in Rows
  BY LenProperties, ElementOfSeq DEF TablesTyped
<1>3. r.seen \in Nat /\ r.began \in Nat
  BY <1>1 DEF Routines
<1>4. PlaceOK(u)'
  BY <1>1, <1>2, <1>3 DEF RoutineOK, PlaceOK, FoundGrows, DriftGrows, StillAnswered
<1>5. AgesOK(u)'
  <2>1. \A i \in 1..Len(found) : found[i].at \in Nat /\ found'[i].at = found[i].at
    BY <1>1 DEF Rows, FoundGrows
  <2>2. \A i \in r.stale : hour' - found'[i].at > MaxAge
    <3>1. \A i \in r.stale : i \in 1..Len(found) /\ hour - found[i].at > MaxAge
      BY DEF RoutineOK, AgesOK, PlaceOK
    <3>2. ASSUME NEW i \in r.stale PROVE hour' - found'[i].at > MaxAge
      <4>1. /\ found'[i].at = found[i].at /\ found[i].at \in Nat
            /\ hour - found[i].at > MaxAge
        BY <2>1, <3>1
      <4>2. QED
        BY <1>1, <1>2, <4>1
    <3>3. QED
      BY <3>2
  <2>3. \A i \in 1..Len(found') : i \in 1..Len(found) \/ r.began - found'[i].at <= 0
    BY <1>1, <1>2, <1>3 DEF FoundGrows, NewRowOK, RoutineOK, PlaceOK
  <2>4. \A i \in 1..Len(found') : r.began - found'[i].at > MaxAge => i \in 1..Len(found)
    <3>1. \A i \in 1..Len(found') : found'[i].at \in Nat
      BY <1>2 DEF Rows
    <3>2. QED
      BY <1>1, <1>3, <2>3, <3>1
  <2>5. QED
    BY <2>1, <2>2, <2>4 DEF RoutineOK, AgesOK, FoundGrows
<1>6. HandOK(u)'
  <2>1. r.item # NoItemYet => LookedIn(found', r.item, r.seen, r.full)
    BY <1>3, StaysLooked DEF RoutineOK, HandOK
  <2>2. QED
    BY <2>1 DEF RoutineOK, HandOK
<1>7. SightOK(u)'
  <2>1. \A d \in r.flags : Flagged(d)' = Flagged(d)
    BY DEF Flagged, DriftGrows, RoutineOK, PlaceOK
  <2>2. \A v : Pending(u, Waits(v)) => Pending(u, Waits(v))'
    BY StaysObserved DEF Pending, Waits
  <2>3. \A v : ObservedIn(found, Waits(v)) => ObservedIn(found, Waits(v))'
    BY StaysObserved DEF Waits
  <2>4. \A d \in r.flags : Pending(u, Flagged(d)) => Pending(u, Flagged(d))'
    BY <2>1, StaysObserved DEF Pending
  <2>5. \A d \in r.flags : ObservedIn(found, Flagged(d)) => ObservedIn(found, Flagged(d))'
    BY <2>1, StaysObserved
  <2>6. QED
    BY <2>2, <2>3, <2>4, <2>5 DEF RoutineOK, SightOK
<1>8. QED
  BY <1>4, <1>5, <1>6, <1>7 DEF RoutineOK

\* Rows stay as they are, and a new one is no second by itself.
LEMMA RowsUndisturbed ==
    ASSUME ObsInv, TablesTyped', FoundGrows, NewRowOK, hour' >= hour
    PROVE  SecondOnlyByRace' /\ \A i \in 1..Len(found') : RowOK(i)'
<1>1. /\ Len(ledger) \in Nat /\ Len(found) \in Nat /\ hour \in Nat
      /\ \A i \in 1..Len(found) : found[i] \in Rows
  BY Lengths DEF ObsInv
<1>2. /\ Len(ledger') \in Nat /\ Len(found') \in Nat /\ hour' \in Nat
      /\ DOMAIN found' = 1..Len(found') /\ DOMAIN found = 1..Len(found)
      /\ \A i \in 1..Len(found') : found'[i] \in Rows
  BY LenProperties, ElementOfSeq DEF TablesTyped, ObsInv
<1>3. /\ \A i \in 1..Len(found') :
            i \in 1..Len(found) \/ (i = Len(found) + 1 /\ Len(found') = Len(found) + 1)
      /\ \A i, j \in 1..Len(found') : i < j => i \in 1..Len(found)
  <2>1. Len(found') \in {Len(found), Len(found) + 1}
    BY DEF FoundGrows
  <2>2. CASE Len(found') = Len(found)
    BY <1>1, <2>2
  <2>3. CASE Len(found') = Len(found) + 1
    <3>1. 1..(Len(found) + 1) = 1..Len(found) \cup {Len(found) + 1}
      BY <1>1
    <3>2. \A i, j \in 1..(Len(found) + 1) : i < j => i \in 1..Len(found)
      BY <1>1
    <3>3. QED
      BY <2>3, <3>1, <3>2
  <2>4. QED
    BY <2>1, <2>2, <2>3
<1>4. ASSUME NEW i \in 1..Len(found') PROVE RowOK(i)'
  <2>1. CASE i \in 1..Len(found)
    <3>1. RowOK(i) /\ found[i].at \in Nat
      BY <1>1, <2>1 DEF ObsInv, Rows
    <3>2. Unanswered(found[i].item, found[i].answered)
      BY <3>1 DEF RowOK
    <3>3. /\ found'[i].item = found[i].item /\ found'[i].at = found[i].at
          /\ found'[i].seen = found[i].seen /\ found'[i].answered = found[i].answered
      BY <2>1 DEF FoundGrows
    <3>4. found[i].at <= hour'
      BY <1>1, <1>2, <3>1 DEF RowOK
    <3>5. QED
      BY <3>1, <3>2, <3>3, <3>4 DEF RowOK
  <2>2. CASE i = Len(found) + 1 /\ Len(found') = Len(found) + 1
    <3>1. found'[i].seen \in Nat
      BY <1>2 DEF Rows
    <3>2. Unanswered(found'[i].item, found'[i].answered)
      BY <2>2 DEF NewRowOK
    <3>3. found'[i].item.kind \in Asking => found'[i].seen < i
      BY <1>1, <2>2, <3>1 DEF NewRowOK, LookedIn
    <3>4. QED
      BY <1>1, <2>2, <3>2, <3>3 DEF RowOK, NewRowOK
  <2>3. QED
    BY <1>3, <2>1, <2>2
<1>5. ASSUME NEW i \in 1..Len(found'), NEW j \in 1..Len(found'), i < j, ~found'[i].resolved,
             found'[j].item.kind \in Asking,
             KindOf[found'[i].item.kind] = KindOf[found'[j].item.kind],
             Same(found'[i].item, found'[j].item)
      PROVE  i > found'[j].seen \/ found'[j].full
  <2>1. i \in 1..Len(found)
    BY <1>3, <1>5
  <2>2. found'[i].item = found[i].item /\ ~found[i].resolved
    BY <1>5, <2>1 DEF FoundGrows
  <2>3. CASE j \in 1..Len(found)
    BY <1>2, <1>5, <2>1, <2>2, <2>3 DEF FoundGrows, SecondOnlyByRace, ObsInv
  <2>4. CASE j = Len(found) + 1 /\ Len(found') = Len(found) + 1
    <3>1. LookedIn(found, found'[j].item, found'[j].seen, found'[j].full)
      BY <1>5, <2>4 DEF NewRowOK
    <3>2. found'[j].seen \in Nat
      BY <1>2 DEF Rows
    <3>3. CASE i \in 1..found'[j].seen
      BY <1>5, <2>2, <3>1, <3>3 DEF LookedIn
    <3>4. CASE ~(i \in 1..found'[j].seen)
      BY <1>1, <2>1, <3>2, <3>4
    <3>5. QED
      BY <3>3, <3>4
  <2>5. QED
    BY <1>3, <2>3, <2>4
<1>6. SecondOnlyByRace'
  BY <1>2, <1>5 DEF SecondOnlyByRace
<1>7. QED
  BY <1>4, <1>6

-----------------------------------------------------------------------------
(* Observation routines: the steps of a routine.                           *)

\* What a step of one routine has to show.
LEMMA RoutineStep ==
    ASSUME ObsInv, NEW t \in Chats, UNCHANGED <<chats, ledger, drift, hour>>,
           found' \in Seq(Rows), FoundGrows, NewRowOK, routine' \in [Chats -> Routines],
           \A u \in Chats \ {t} : routine'[u] = routine[u], RoutineOK(t)'
    PROVE  ObsInv'
<1>1. TablesTyped /\ TablesTyped'
  BY DEF ObsInv, TablesTyped
<1>2. Len(ledger) \in Nat /\ Len(drift) \in Nat /\ hour \in Nat
  BY <1>1, Lengths
<1>3. DriftGrows /\ hour' >= hour /\ \A u \in Chats : StillAnswered(u)
  BY <1>2 DEF DriftGrows, StillAnswered, Answered
<1>4. \A u \in Chats \ {t} : RoutineOK(u)'
  BY <1>1, <1>3, OthersUndisturbed DEF ObsInv
<1>5. AnswersLast'
  BY DEF ObsInv, AnswersLast, Answered, EndsWithAnswer
<1>6. QED
  BY <1>1, <1>3, <1>4, <1>5, RowsUndisturbed DEF ObsInv

\* What such a step has to show if it adds no observation.
LEMMA LookStep ==
    ASSUME ObsInv, NEW t \in Chats, UNCHANGED <<chats, ledger, drift, found, hour>>,
           routine' \in [Chats -> Routines],
           \A u \in Chats \ {t} : routine'[u] = routine[u], RoutineOK(t)'
    PROVE  ObsInv'
<1>1. TablesTyped /\ found' \in Seq(Rows)
  BY DEF ObsInv, TablesTyped
<1>2. Len(found) \in Nat
  BY <1>1, Lengths
<1>3. FoundGrows /\ NewRowOK
  BY <1>2 DEF FoundGrows, NewRowOK
<1>4. QED
  BY <1>1, <1>3, RoutineStep

\* With an observation more.
LEMMA StoreGrows ==
    ASSUME ObsInv, NEW t \in Chats, NEW item \in Notes, StoreObservation(t, item),
           UNCHANGED hour, Unanswered(item, routine[t].answered),
           item.kind \in Asking => LookedIn(found, item, routine[t].seen, routine[t].full)
    PROVE  /\ found' \in Seq(Rows) /\ FoundGrows /\ NewRowOK
           /\ ObservedIn(found', item)
<1> DEFINE row == [item |-> item, at |-> hour, resolved |-> FALSE, seen |-> routine[t].seen,
                   full |-> routine[t].full, answered |-> routine[t].answered]
<1>1. found \in Seq(Rows) /\ Len(found) \in Nat /\ hour \in Nat /\ routine[t] \in Routines
  BY Lengths DEF ObsInv, TablesTyped
<1>2. row \in Rows
  BY <1>1 DEF Rows, Routines
<1>3. /\ row.item = item /\ row.at = hour /\ row.seen = routine[t].seen
      /\ row.full = routine[t].full /\ row.answered = routine[t].answered
  OBVIOUS
<1>4. found' = Append(found, row)
  BY DEF StoreObservation
<1> HIDE DEF row
<1>5. /\ found' \in Seq(Rows) /\ Len(found') = Len(found) + 1
      /\ \A i \in 1..Len(found) : found'[i] = found[i]
      /\ found'[Len(found) + 1] = row
  BY <1>1, <1>2, <1>4, AppendProperties
<1>6. FoundGrows
  BY <1>5 DEF FoundGrows
<1>7. NewRowOK
  BY <1>3, <1>5 DEF NewRowOK
<1>8. ObservedIn(found', item)
  <2>1. Same(row.item, item)
    BY <1>3 DEF Same
  <2>2. Len(found) + 1 \in 1..Len(found')
    BY <1>1, <1>5
  <2>3. QED
    BY <1>5, <2>1, <2>2 DEF ObservedIn
<1>9. QED
  BY <1>5, <1>6, <1>7, <1>8

\* The entries of a window leave out no answer that would tell against them.
LEMMA TensionsUnanswered ==
    ASSUME ledger \in Seq(Entries), AnswersLast, NEW from \in 1..Len(ledger) + 1,
           NEW x \in Tensions(SubSeq(ledger, from, Len(ledger)))
    PROVE  Unanswered(x, Answered)
<1> DEFINE entries == SubSeq(ledger, from, Len(ledger))
<1>1. Len(ledger) \in Nat
  BY LenProperties
<1>2. /\ entries \in Seq(Entries)
      /\ DOMAIN entries = 1..(Len(ledger) - from + 1)
      /\ \A i \in DOMAIN entries : entries[i] = ledger[from + i - 1]
  BY WindowOfLedger
<1> HIDE DEF entries
\* The answer of a turn with an entry in the window comes after it in the window.
<1>3. ASSUME NEW t \in Answered, NEW i \in DOMAIN entries, entries[i].turn = t
      PROVE  \E j \in DOMAIN entries : entries[j].turn = t /\ entries[j].kind = "agent" /\ i <= j
  <2>1. PICK k \in 1..Len(ledger) :
            /\ ledger[k].turn = t /\ ledger[k].kind = "agent"
            /\ \A m \in 1..Len(ledger) : ledger[m].turn = t => m <= k
    BY DEF AnswersLast, EndsWithAnswer
  <2>2. from + i - 1 \in 1..Len(ledger) /\ entries[i] = ledger[from + i - 1]
    BY <1>1, <1>2
  <2>3. from + i - 1 <= k
    BY <1>3, <2>1, <2>2
  <2>4. k - from + 1 \in 1..(Len(ledger) - from + 1) /\ i <= k - from + 1
    BY <1>1, <1>2, <2>1, <2>2, <2>3
  <2>5. from + (k - from + 1) - 1 = k
    BY <1>1, <2>1
  <2>6. entries[k - from + 1] = ledger[k]
    BY <1>2, <2>4, <2>5
  <2>7. QED
    BY <1>2, <2>1, <2>4, <2>6
<1>4. CASE x \in Incomplete(entries)
  <2>1. PICK t \in TurnsWith(entries, {"call", "result"}) \ TurnsWith(entries, {"agent"}) :
            x = Item("incomplete_tool_chain", <<t>>, CiteTurn(t))
    BY <1>4 DEF Incomplete
  <2>2. x.about[1] = t
    BY <2>1 DEF Item
  <2>3. PICK i \in DOMAIN entries : entries[i].turn = t
    BY <2>1 DEF TurnsWith, Of
  <2>4. ASSUME t \in Answered PROVE FALSE
    <3>1. PICK j \in DOMAIN entries : entries[j].turn = t /\ entries[j].kind = "agent"
      BY <1>3, <2>3, <2>4
    <3>2. entries[j] \in Of(entries, {"agent"})
      BY <3>1 DEF Of
    <3>3. QED
      BY <2>1, <3>1, <3>2 DEF TurnsWith
  <2>5. QED
    BY <2>2, <2>4 DEF Unanswered
<1>5. CASE x \in Unrecovered(entries)
  <2>1. PICK t \in TurnsWith(entries, {"error"}) :
            /\ x = Item("unresolved_error", <<t>>, CiteTurn(t))
            /\ \E i \in DOMAIN entries :
                  /\ entries[i].turn = t /\ entries[i].kind = "error"
                  /\ \A j \in i + 1..Len(entries) :
                        ~(entries[j].turn = t /\ entries[j].kind = "agent")
    BY <1>5 DEF Unrecovered
  <2>2. x.about[1] = t
    BY <2>1 DEF Item
  <2>3. PICK i \in DOMAIN entries :
            /\ entries[i].turn = t /\ entries[i].kind = "error"
            /\ \A j \in i + 1..Len(entries) : ~(entries[j].turn = t /\ entries[j].kind = "agent")
    BY <2>1
  <2>4. Len(entries) = Len(ledger) - from + 1
    <3>1. Len(entries) \in Nat /\ DOMAIN entries = 1..Len(entries)
      BY <1>2, LenProperties
    <3>2. QED
      BY <1>1, <1>2, <3>1
  <2>5. ASSUME t \in Answered PROVE FALSE
    <3>1. PICK j \in DOMAIN entries :
              entries[j].turn = t /\ entries[j].kind = "agent" /\ i <= j
      BY <1>3, <2>3, <2>5
    <3>2. i # j
      BY <2>3, <3>1
    <3>3. j \in i + 1..Len(entries)
      BY <1>1, <1>2, <2>3, <2>4, <3>1, <3>2
    <3>4. QED
      BY <2>3, <3>1, <3>3
  <2>6. QED
    BY <2>2, <2>5 DEF Unanswered
<1>6. CASE x \in Awaiting
  <2>1. x.kind = "awaiting_user"
    BY <1>6 DEF Awaiting, Item
  <2>2. QED
    BY <2>1 DEF Unanswered
<1>7. QED
  BY <1>4, <1>5, <1>6 DEF Tensions, entries

LEMMA ReadStaleStep == ASSUME ObsInv, NEW t \in Chats, ReadStale(t) PROVE ObsInv'
<1> DEFINE r == routine[t]
<1>1. /\ routine \in [Chats -> Routines] /\ r \in Routines /\ Len(found) \in Nat /\ hour \in Nat
      /\ DOMAIN found = 1..Len(found) /\ RoutineOK(t)
  BY Lengths DEF ObsInv, TablesTyped
<1>2. UNCHANGED <<chats, ledger, drift, found, hour>> /\ r.at = "begun"
  BY DEF ReadStale, Mine
<1>3. Stale \in SUBSET Nat
  BY <1>1 DEF Stale
<1>4. /\ routine'[t] = [r EXCEPT !.at = "resolving", !.stale = Stale, !.began = hour]
      /\ \A u \in Chats \ {t} : routine'[u] = routine[u]
      /\ routine' \in [Chats -> Routines]
  BY <1>1, <1>3 DEF ReadStale, Routines
<1>5. /\ routine'[t].at = "resolving" /\ routine'[t].stale = Stale /\ routine'[t].began = hour
      /\ routine'[t].todo = r.todo /\ routine'[t].item = r.item /\ routine'[t].seen = r.seen
      /\ routine'[t].full = r.full /\ routine'[t].answered = r.answered /\ routine'[t].flags = r.flags
  BY <1>1, <1>4 DEF Routines
<1>6. PlaceOK(t)'
  BY <1>1, <1>2, <1>5 DEF RoutineOK, PlaceOK, Looking, Stale
<1>7. AgesOK(t)'
  BY <1>1, <1>2, <1>5 DEF AgesOK, Stale
<1>8. HandOK(t)'
  BY <1>1, <1>2, <1>5 DEF RoutineOK, HandOK
<1>9. SightOK(t)'
  BY <1>5 DEF SightOK
<1>10. QED
  BY <1>2, <1>4, <1>6, <1>7, <1>8, <1>9, LookStep DEF RoutineOK

LEMMA ResolveStaleStep == ASSUME ObsInv, NEW t \in Chats, ResolveStale(t) PROVE ObsInv'
<1> DEFINE r == routine[t]
<1>1. /\ routine \in [Chats -> Routines] /\ r \in Routines /\ Len(found) \in Nat
      /\ found \in Seq(Rows) /\ RoutineOK(t)
      /\ \A j \in 1..Len(found) : found[j] \in Rows
  BY Lengths DEF ObsInv, TablesTyped
<1>2. UNCHANGED <<chats, ledger, drift, hour>> /\ r.at = "resolving"
  BY DEF ResolveStale, Mine
<1>3. PICK i \in r.stale : /\ found' = [found EXCEPT ![i].resolved = TRUE]
                           /\ routine' = [routine EXCEPT ![t].stale = @ \ {i}]
  BY DEF ResolveStale
<1>4. i \in 1..Len(found)
  BY <1>1 DEF RoutineOK, PlaceOK
<1> DEFINE row == [found[i] EXCEPT !.resolved = TRUE]
<1>5. row \in Rows /\ row.item = found[i].item /\ row.at = found[i].at /\ row.seen = found[i].seen
      /\ row.full = found[i].full /\ row.answered = found[i].answered /\ row.resolved
  BY <1>1, <1>4 DEF Rows
<1>6. found' = [found EXCEPT ![i] = row]
  BY <1>3
<1> HIDE DEF row
<1>7. /\ found' \in Seq(Rows) /\ Len(found') = Len(found)
      /\ \A j \in 1..Len(found) : found'[j] = IF j = i THEN row ELSE found[j]
  BY <1>1, <1>4, <1>5, <1>6, ExceptSeq
<1>8. FoundGrows /\ NewRowOK
  BY <1>1, <1>5, <1>7 DEF FoundGrows, NewRowOK
<1>9. /\ routine'[t] = [r EXCEPT !.stale = r.stale \ {i}]
      /\ \A u \in Chats \ {t} : routine'[u] = routine[u]
      /\ routine' \in [Chats -> Routines]
  BY <1>1, <1>3 DEF Routines
<1>10. /\ routine'[t].at = "resolving" /\ routine'[t].stale = r.stale \ {i}
       /\ routine'[t].began = r.began
       /\ routine'[t].todo = r.todo /\ routine'[t].item = r.item /\ routine'[t].seen = r.seen
       /\ routine'[t].full = r.full /\ routine'[t].answered = r.answered /\ routine'[t].flags = r.flags
  BY <1>1, <1>2, <1>9 DEF Routines
<1>11. PlaceOK(t)'
  BY <1>1, <1>2, <1>7, <1>10 DEF RoutineOK, PlaceOK, Looking
<1>12. AgesOK(t)'
  <2>1. \A j \in 1..Len(found) : found'[j].at = found[j].at
    BY <1>5, <1>7
  <2>2. \A j \in r.stale \ {i} : hour - found'[j].at > MaxAge
    BY <1>1, <2>1 DEF RoutineOK, AgesOK, PlaceOK
  <2>3. ASSUME NEW j \in 1..Len(found), r.began - found'[j].at > MaxAge
        PROVE  found'[j].resolved \/ j \in r.stale \ {i}
    BY <1>1, <1>2, <1>5, <1>7, <2>1, <2>3 DEF RoutineOK, AgesOK
  <2>4. QED
    BY <1>2, <1>7, <1>10, <2>2, <2>3 DEF AgesOK
<1>13. HandOK(t)'
  <2>1. r.item = NoItemYet
    BY <1>1, <1>2 DEF RoutineOK, PlaceOK, Looking
  <2>2. QED
    BY <1>1, <1>2, <1>10, <2>1 DEF RoutineOK, HandOK
<1>14. SightOK(t)'
  BY <1>10 DEF SightOK
<1>15. QED
  BY <1>2, <1>7, <1>8, <1>9, <1>11, <1>12, <1>13, <1>14, RoutineStep DEF RoutineOK

LEMMA ReadLedgerStep == ASSUME ObsInv, NEW t \in Chats, ReadLedger(t) PROVE ObsInv'
<1> DEFINE r == routine[t]
           from == IF Len(ledger) > MaxEntries THEN Len(ledger) - MaxEntries + 1 ELSE 1
           entries == SubSeq(ledger, from, Len(ledger))
           asked == {u \in Chats : chats[u] = "awaiting_user"}
<1>1. /\ routine \in [Chats -> Routines] /\ r \in Routines /\ RoutineOK(t) /\ AnswersLast
      /\ Len(ledger) \in Nat /\ ledger \in Seq(Entries)
  BY Lengths DEF ObsInv, TablesTyped
<1>2. UNCHANGED <<chats, ledger, drift, found, hour>> /\ r.at = "resolving" /\ r.stale = {}
  BY DEF ReadLedger, Mine
<1>3. from \in 1..Len(ledger) + 1
  <2>1. MaxEntries \in Nat
    BY ObservationsAssumption
  <2>2. QED
    BY <1>1, <2>1
<1>4. routine' = [routine EXCEPT ![t].at = "tensions", ![t].recent = entries,
                                 ![t].todo = Tensions(entries), ![t].answered = Answered,
                                 ![t].asked = asked]
  BY DEF ReadLedger
<1> HIDE DEF from
<1>5. entries \in Seq(Entries)
  BY <1>1, <1>3, WindowOfLedger
<1>6. \A x \in Tensions(entries) : Unanswered(x, Answered)
  BY <1>1, <1>3, TensionsUnanswered
<1> HIDE DEF entries
<1>7. Tensions(entries) \in SUBSET Notes
  BY <1>5, TensionsTyped
<1>8. \A u \in asked : Waits(u) \in Tensions(entries)
  BY DEF Tensions, Awaiting, Waits
<1> HIDE DEF asked
<1>9. asked \in SUBSET Chats /\ Answered \in SUBSET Chats
  BY DEF asked, Answered
<1>10. /\ routine'[t] = [r EXCEPT !.at = "tensions", !.recent = entries,
                            !.todo = Tensions(entries), !.answered = Answered, !.asked = asked]
       /\ \A u \in Chats \ {t} : routine'[u] = routine[u]
       /\ routine' \in [Chats -> Routines]
  BY <1>1, <1>4, <1>5, <1>7, <1>9 DEF Routines, Looking
<1>11. /\ routine'[t].at = "tensions" /\ routine'[t].stale = r.stale
       /\ routine'[t].began = r.began /\ routine'[t].asked = asked
       /\ routine'[t].todo = Tensions(entries) /\ routine'[t].item = r.item
       /\ routine'[t].seen = r.seen /\ routine'[t].full = r.full
       /\ routine'[t].answered = Answered /\ routine'[t].flags = r.flags
  BY <1>1, <1>10 DEF Routines
<1>12. PlaceOK(t)'
  BY <1>1, <1>2, <1>11 DEF RoutineOK, PlaceOK, Looking
<1>13. AgesOK(t)'
  BY <1>1, <1>2, <1>11 DEF RoutineOK, AgesOK
<1>14. HandOK(t)'
  <2>1. r.item = NoItemYet
    BY <1>1, <1>2 DEF RoutineOK, PlaceOK, Looking
  <2>2. QED
    BY <1>1, <1>2, <1>6, <1>11, <2>1 DEF HandOK
<1>15. SightOK(t)'
  BY <1>8, <1>11 DEF SightOK, Pending, Waits
<1>16. QED
  BY <1>2, <1>10, <1>12, <1>13, <1>14, <1>15, LookStep DEF RoutineOK

\* A look at what is left of a detector's items: one that moves on from place to
\* place with nothing in hand.
LEMMA MoveOnStep ==
    ASSUME ObsInv, NEW t \in Chats, NEW to \in {"patterns", "drift", "finished"},
           NEW notes \in SUBSET Notes, NEW flags \in SUBSET (1..Len(drift)),
           NEW recent \in Seq(Entries),
           routine[t].at \in {"tensions", "patterns", "drift"}, Idle(t),
           UNCHANGED <<chats, ledger, drift, found, hour>>,
           routine' = [routine EXCEPT ![t].at = to, ![t].recent = recent, ![t].todo = notes,
                                      ![t].flags = flags],
           \A x \in notes : x.kind \notin {"incomplete_tool_chain", "unresolved_error"},
           to = "finished" => notes = {} /\ routine[t].at = "drift" /\ flags = routine[t].flags,
           to = "drift" => \A d \in flags : Flagged(d) \in notes
    PROVE  ObsInv'
<1> DEFINE r == routine[t]
<1>1. /\ routine \in [Chats -> Routines] /\ r \in Routines /\ RoutineOK(t)
      /\ Len(drift) \in Nat
  BY Lengths DEF ObsInv, TablesTyped
<1>2. r.todo = {} /\ r.item = NoItemYet
  BY DEF Idle
<1>3. flags \in SUBSET Nat
  BY <1>1
<1>4. /\ routine'[t] = [r EXCEPT !.at = to, !.recent = recent, !.todo = notes, !.flags = flags]
      /\ \A u \in Chats \ {t} : routine'[u] = routine[u]
      /\ routine' \in [Chats -> Routines]
  BY <1>1, <1>3 DEF Routines, Looking
<1>5. /\ routine'[t].at = to /\ routine'[t].stale = r.stale
      /\ routine'[t].began = r.began /\ routine'[t].asked = r.asked
      /\ routine'[t].todo = notes /\ routine'[t].item = r.item
      /\ routine'[t].seen = r.seen /\ routine'[t].full = r.full
      /\ routine'[t].answered = r.answered /\ routine'[t].flags = flags
  BY <1>1, <1>4 DEF Routines
<1>6. PlaceOK(t)'
  BY <1>1, <1>2, <1>5 DEF RoutineOK, PlaceOK, Looking
<1>7. AgesOK(t)'
  BY <1>1, <1>5 DEF RoutineOK, AgesOK, Looking
<1>8. HandOK(t)'
  <2>1. \A x \in notes : Unanswered(x, r.answered)
    BY DEF Unanswered
  <2>2. QED
    BY <1>2, <1>5, <2>1 DEF HandOK
<1>9. SightOK(t)'
  <2>1. \A item : item # NoItemYet /\ Pending(t, item) => ObservedIn(found, item)
    BY <1>2 DEF Pending
  <2>2. \A u : Waits(u) # NoItemYet /\ \A d : Flagged(d) # NoItemYet
    BY DEF Waits, Flagged, NoItemYet, Item
  <2>3. \A u \in r.asked : ObservedIn(found, Waits(u))
    BY <1>1, <2>1, <2>2 DEF RoutineOK, SightOK
  <2>4. r.at = "drift" => \A d \in r.flags : ObservedIn(found, Flagged(d))
    BY <1>1, <2>1, <2>2 DEF RoutineOK, SightOK
  <2>5. \A u : ObservedIn(found, Waits(u))' = ObservedIn(found, Waits(u))
    BY DEF ObservedIn, Waits
  <2>6. \A d : /\ Flagged(d)' = Flagged(d)
               /\ ObservedIn(found, Flagged(d))' = ObservedIn(found, Flagged(d))
    BY DEF ObservedIn, Flagged
  <2>7. to = "finished" => \A d \in flags : ObservedIn(found, Flagged(d))'
    BY <2>4, <2>6
  <2>8. to = "drift" => \A d \in flags : Pending(t, Flagged(d))'
    BY <1>5, <2>6 DEF Pending
  <2>9. QED
    BY <1>5, <2>3, <2>5, <2>7, <2>8 DEF SightOK
<1>10. QED
  BY <1>4, <1>6, <1>7, <1>8, <1>9, LookStep DEF RoutineOK

LEMMA DetectStep ==
    ASSUME ObsInv, NEW t \in Chats,
           DetectPatterns(t) \/ DetectContradictions(t) \/ FinishRoutine(t)
    PROVE  ObsInv'
<1> DEFINE r == routine[t]
<1>1. /\ routine \in [Chats -> Routines] /\ r \in Routines /\ RoutineOK(t)
      /\ drift \in Seq(Flags) /\ r.recent \in Seq(Entries) /\ r.flags \subseteq 1..Len(drift)
  BY Lengths DEF ObsInv, TablesTyped, RoutineOK, PlaceOK, Routines
<1>2. \A u \in Chats : routine[u] \in Routines
  BY <1>1
<1>3. CASE DetectPatterns(t)
  <2>1. PICK topic \in {{x} : x \in Topics(r.recent)}
                       \cup (IF Topics(r.recent) = {} THEN {{}} ELSE {}) :
            routine' = [routine EXCEPT
                ![t].at = "patterns", ![t].recent = <<>>,
                ![t].todo = Patterns(r.recent) \cup topic \cup HighRatio(r.recent)]
    BY <1>3 DEF DetectPatterns
  <2>2. UNCHANGED <<chats, ledger, drift, found, hour>> /\ r.at = "tensions" /\ Idle(t)
    BY <1>3 DEF DetectPatterns, Mine
  <2> DEFINE notes == Patterns(r.recent) \cup topic \cup HighRatio(r.recent)
  <2>3. topic \subseteq Topics(r.recent)
    BY <2>1
  <2>4. \A x \in notes : x \in Notes /\ x.kind \in {"tool_failure", "recurring_topic", "high_ratio"}
    BY <2>3, PatternsTyped, RatioTyped, TopicsTyped
  <2> HIDE DEF notes
  <2>5. routine' = [routine EXCEPT ![t].at = "patterns", ![t].recent = <<>>, ![t].todo = notes,
                                   ![t].flags = r.flags]
    BY <1>1, <1>2, <2>1 DEF Routines, notes
  <2>6. notes \in SUBSET Notes /\ <<>> \in Seq(Entries)
    BY <2>4, EmptySeq
  <2>7. QED
    BY <1>1, <2>2, <2>4, <2>5, <2>6, MoveOnStep
<1>4. CASE DetectContradictions(t)
  <2> DEFINE flags == {x.about[1] : x \in Drifts}
  <2>1. UNCHANGED <<chats, ledger, drift, found, hour>> /\ r.at = "patterns" /\ Idle(t)
    BY <1>4 DEF DetectContradictions, Mine
  <2>2. Drifts \in SUBSET Notes /\ flags \in SUBSET (1..Len(drift))
        /\ \A d \in flags : Flagged(d) \in Drifts
    BY <1>1, DriftsTyped
  <2>3. \A x \in Drifts : x.kind = "drift"
    BY DEF Drifts, Item
  <2>4. routine' = [routine EXCEPT ![t].at = "drift", ![t].todo = Drifts, ![t].flags = flags]
    BY <1>4 DEF DetectContradictions
  <2> HIDE DEF flags
  <2>5. routine' = [routine EXCEPT ![t].at = "drift", ![t].recent = r.recent, ![t].todo = Drifts,
                                   ![t].flags = flags]
    BY <1>1, <1>2, <2>4 DEF Routines
  <2>6. QED
    BY <1>1, <2>1, <2>2, <2>3, <2>5, MoveOnStep
<1>5. CASE FinishRoutine(t)
  <2>1. UNCHANGED <<chats, ledger, drift, found, hour>> /\ r.at = "drift" /\ Idle(t)
    BY <1>5 DEF FinishRoutine, Mine
  <2>2. r.todo = {}
    BY <2>1 DEF Idle
  <2>3. routine' = [routine EXCEPT ![t].at = "finished", ![t].recent = r.recent, ![t].todo = {},
                                   ![t].flags = r.flags]
    BY <1>1, <1>2, <1>5, <2>2 DEF FinishRoutine, Routines
  <2>4. {} \in SUBSET Notes
    OBVIOUS
  <2>5. QED
    BY <1>1, <2>1, <2>3, <2>4, MoveOnStep
<1>6. QED
  BY <1>3, <1>4, <1>5

\* Routines with something to store are looking.
LEMMA BusyLooks ==
    ASSUME NEW t \in Chats, RoutineOK(t), routine[t].todo # {} \/ routine[t].item # NoItemYet
    PROVE  routine[t].at \in Looking
BY DEF RoutineOK, PlaceOK

\* One item less to look at: stored, in hand, or observed already.
LEMMA SightKept ==
    ASSUME TablesTyped, TablesTyped', NEW t \in Chats, RoutineOK(t), UNCHANGED drift, FoundGrows,
           routine'[t].at = routine[t].at, routine'[t].asked = routine[t].asked,
           routine'[t].flags = routine[t].flags,
           \A x : x \in routine[t].todo \/ routine[t].item = x =>
               \/ x \in routine'[t].todo \/ routine'[t].item = x \/ ObservedIn(found', x)
               \/ x.kind \notin Asking
    PROVE  SightOK(t)'
<1>1. \A u : Waits(u).kind \in Asking /\ Waits(u)' = Waits(u)
  BY DEF Waits, Item, Asking
<1>2. \A d : Flagged(d).kind \in Asking /\ Flagged(d)' = Flagged(d)
  BY DEF Flagged, Item, Asking
<1>3. \A x : ObservedIn(found, x) => ObservedIn(found', x)
  BY StaysObserved
<1>4. \A u : Pending(t, Waits(u)) => Pending(t, Waits(u))'
  BY <1>1, <1>3 DEF Pending
<1>5. \A d : Pending(t, Flagged(d)) => Pending(t, Flagged(d))'
  BY <1>2, <1>3 DEF Pending
<1>6. QED
  BY <1>1, <1>2, <1>3, <1>4, <1>5 DEF RoutineOK, SightOK

\* A routine that stays where it is, whatever is added to the observations.
LEMMA StaysPlaced ==
    ASSUME TablesTyped, TablesTyped', NEW t \in Chats, RoutineOK(t),
           UNCHANGED <<chats, drift, hour>>, FoundGrows, NewRowOK,
           routine[t].at \in Looking, routine'[t].at = routine[t].at,
           routine'[t].stale = routine[t].stale, routine'[t].began = routine[t].began,
           routine'[t].flags = routine[t].flags
    PROVE  PlaceOK(t)' /\ AgesOK(t)'
<1> DEFINE r == routine[t]
<1>1. /\ Len(found) \in Nat /\ hour \in Nat /\ MaxAge \in Nat /\ r \in Routines
      /\ \A i \in 1..Len(found) : found[i] \in Rows
  BY Lengths
<1>2. Len(found') \in Nat /\ r.began \in Nat
  BY <1>1, LenProperties DEF TablesTyped, Routines
<1>3. /\ Len(found') \in {Len(found), Len(found) + 1}
      /\ \A i \in 1..Len(found) : found'[i].at = found[i].at /\ found[i].at \in Nat
  BY <1>1 DEF FoundGrows, Rows
<1>4. /\ chats[t] \in {"absent", "running"} => r.at = "waiting"
      /\ t \in Answered => r.at # "waiting"
      /\ r.stale \subseteq 1..Len(found) /\ r.began <= hour /\ r.flags \subseteq 1..Len(drift)
  BY DEF RoutineOK, PlaceOK
<1>5. 1..Len(found) \subseteq 1..Len(found')
  BY <1>1, <1>2, <1>3
<1>6. PlaceOK(t)'
  BY <1>4, <1>5 DEF PlaceOK, Answered
<1>7. \A i \in r.stale : hour - found'[i].at > MaxAge
  BY <1>3, <1>4 DEF RoutineOK, AgesOK
<1>8. ASSUME NEW i \in 1..Len(found'), r.began - found'[i].at > MaxAge
      PROVE  found'[i].resolved
  <2>1. CASE i \in 1..Len(found)
    BY <1>3, <1>8, <2>1 DEF RoutineOK, AgesOK, FoundGrows, Looking
  <2>2. CASE i \notin 1..Len(found)
    <3>1. i = Len(found) + 1 /\ Len(found') = Len(found) + 1
      BY <1>1, <1>2, <1>3, <2>2
    <3>2. found'[i].at = hour
      BY <3>1 DEF NewRowOK
    <3>3. QED
      BY <1>1, <1>2, <1>4, <1>8, <3>2
  <2>3. QED
    BY <2>1, <2>2
<1>9. AgesOK(t)'
  BY <1>7, <1>8 DEF AgesOK
<1>10. QED
  BY <1>6, <1>9

LEMMA StoreUnaskedStep == ASSUME ObsInv, NEW t \in Chats, StoreUnasked(t) PROVE ObsInv'
<1> DEFINE r == routine[t]
<1>1. /\ routine \in [Chats -> Routines] /\ r \in Routines /\ RoutineOK(t) /\ TablesTyped
      /\ Len(found) \in Nat
  BY Lengths DEF ObsInv, TablesTyped
<1>2. UNCHANGED <<chats, ledger, drift, hour>> /\ r.item = NoItemYet
  BY DEF StoreUnasked
<1>3. PICK item \in r.todo : /\ item.kind \notin Asking /\ StoreObservation(t, item)
                             /\ routine' = [routine EXCEPT ![t].todo = @ \ {item}]
  BY DEF StoreUnasked
<1>4. item \in Notes /\ Unanswered(item, r.answered)
  BY <1>1 DEF Routines, RoutineOK, HandOK
<1>5. found' \in Seq(Rows) /\ FoundGrows /\ NewRowOK
  BY <1>2, <1>3, <1>4, StoreGrows
<1>6. /\ routine'[t] = [r EXCEPT !.todo = r.todo \ {item}]
      /\ \A u \in Chats \ {t} : routine'[u] = routine[u]
      /\ routine' \in [Chats -> Routines]
  BY <1>1, <1>3 DEF Routines
<1>7. /\ routine'[t].at = r.at /\ routine'[t].stale = r.stale
      /\ routine'[t].began = r.began /\ routine'[t].asked = r.asked
      /\ routine'[t].todo = r.todo \ {item} /\ routine'[t].item = r.item
      /\ routine'[t].seen = r.seen /\ routine'[t].full = r.full
      /\ routine'[t].answered = r.answered /\ routine'[t].flags = r.flags
  BY <1>1, <1>6 DEF Routines
<1>8. TablesTyped'
  BY <1>1, <1>2, <1>5, <1>6 DEF TablesTyped
<1>9. r.at \in Looking
  BY <1>1, <1>3, BusyLooks
<1>10. PlaceOK(t)' /\ AgesOK(t)'
  BY <1>1, <1>2, <1>5, <1>7, <1>8, <1>9, StaysPlaced
<1>11. HandOK(t)'
  BY <1>1, <1>2, <1>7 DEF RoutineOK, HandOK
<1>12. SightOK(t)'
  BY <1>1, <1>2, <1>3, <1>5, <1>7, <1>8, SightKept
<1>13. QED
  BY <1>2, <1>5, <1>6, <1>10, <1>11, <1>12, RoutineStep DEF RoutineOK

LEMMA CheckExistingStep == ASSUME ObsInv, NEW t \in Chats, CheckExisting(t) PROVE ObsInv'
<1> DEFINE r == routine[t]
<1>1. /\ routine \in [Chats -> Routines] /\ r \in Routines /\ RoutineOK(t) /\ TablesTyped
      /\ Len(found) \in Nat /\ DOMAIN found = 1..Len(found)
  BY Lengths DEF ObsInv, TablesTyped
<1>2. UNCHANGED <<chats, ledger, drift, found, hour>> /\ r.item = NoItemYet
  BY DEF CheckExisting
<1>3. FoundGrows /\ NewRowOK
  <2>1. Len(found) \in Nat /\ found' = found
    BY <1>1, <1>2
  <2>2. QED
    BY <2>1 DEF FoundGrows, NewRowOK
<1>4. PICK item \in r.todo :
          /\ item.kind \in Asking
          /\ routine' = IF AlreadyObserved(item)
                        THEN [routine EXCEPT ![t].todo = @ \ {item}]
                        ELSE [routine EXCEPT
                                 ![t].todo = @ \ {item}, ![t].item = item, ![t].seen = Len(found),
                                 ![t].full = ListUnresolved(KindOf[item.kind])
                                                 # Open(KindOf[item.kind])]
  BY DEF CheckExisting
<1>5. item \in Notes
  BY <1>1 DEF Routines
<1>6. r.at \in Looking
  BY <1>1, <1>4, BusyLooks
<1>7. CASE AlreadyObserved(item)
  <2>1. /\ routine'[t] = [r EXCEPT !.todo = r.todo \ {item}]
        /\ \A u \in Chats \ {t} : routine'[u] = routine[u]
        /\ routine' \in [Chats -> Routines]
    BY <1>1, <1>4, <1>7 DEF Routines
  <2>2. /\ routine'[t].at = r.at /\ routine'[t].stale = r.stale
        /\ routine'[t].began = r.began /\ routine'[t].asked = r.asked
        /\ routine'[t].todo = r.todo \ {item} /\ routine'[t].item = r.item
        /\ routine'[t].seen = r.seen /\ routine'[t].full = r.full
        /\ routine'[t].answered = r.answered /\ routine'[t].flags = r.flags
    BY <1>1, <2>1 DEF Routines
  <2>3. TablesTyped'
    BY <1>1, <1>2, <2>1 DEF TablesTyped
  <2>4. ObservedIn(found', item)
    BY <1>1, <1>2, <1>7 DEF AlreadyObserved, ListUnresolved, Open, ObservedIn
  <2>5. PlaceOK(t)' /\ AgesOK(t)'
    BY <1>1, <1>2, <1>3, <1>6, <2>2, <2>3, StaysPlaced
  <2>6. HandOK(t)'
    BY <1>1, <1>2, <2>2 DEF RoutineOK, HandOK
  <2>7. SightOK(t)'
    BY <1>1, <1>2, <1>3, <2>2, <2>3, <2>4, SightKept
  <2>8. QED
    BY <1>2, <2>1, <2>5, <2>6, <2>7, LookStep DEF RoutineOK
<1>8. CASE ~AlreadyObserved(item)
  <2> DEFINE full == ListUnresolved(KindOf[item.kind]) # Open(KindOf[item.kind])
  <2>1. full \in BOOLEAN
    OBVIOUS
  <2>2. \A i \in 1..Len(found) :
           /\ ~found[i].resolved /\ KindOf[found[i].item.kind] = KindOf[item.kind]
           /\ Same(found[i].item, item)
           => full
    BY <1>1, <1>8 DEF AlreadyObserved, Open
  <2>3. routine' = [routine EXCEPT ![t].todo = @ \ {item}, ![t].item = item,
                                   ![t].seen = Len(found), ![t].full = full]
    BY <1>4, <1>8
  <2> HIDE DEF full
  <2>4. /\ routine'[t] = [r EXCEPT !.todo = r.todo \ {item}, !.item = item,
                             !.seen = Len(found), !.full = full]
        /\ \A u \in Chats \ {t} : routine'[u] = routine[u]
        /\ routine' \in [Chats -> Routines]
    <3> DEFINE s == [r EXCEPT !.todo = r.todo \ {item}, !.item = item,
                              !.seen = Len(found), !.full = full]
    <3>1. s \in Routines
      BY <1>1, <1>5, <2>1 DEF Routines
    <3>2. routine' = [routine EXCEPT ![t] = s]
      BY <2>3
    <3> HIDE DEF s
    <3>3. /\ routine'[t] = s /\ routine' \in [Chats -> Routines]
          /\ \A u \in Chats \ {t} : routine'[u] = routine[u]
      BY <1>1, <3>1, <3>2
    <3>4. QED
      BY <3>3 DEF s
  <2>5. /\ routine'[t].at = r.at /\ routine'[t].stale = r.stale
        /\ routine'[t].began = r.began /\ routine'[t].asked = r.asked
        /\ routine'[t].todo = r.todo \ {item} /\ routine'[t].item = item
        /\ routine'[t].seen = Len(found) /\ routine'[t].full = full
        /\ routine'[t].answered = r.answered /\ routine'[t].flags = r.flags
    BY <1>1, <2>4 DEF Routines
  <2>6. TablesTyped'
    BY <1>1, <1>2, <2>4 DEF TablesTyped
  <2>7. PlaceOK(t)' /\ AgesOK(t)'
    BY <1>1, <1>2, <1>3, <1>6, <2>5, <2>6, StaysPlaced
  <2>8. LookedIn(found, item, Len(found), full)
    BY <1>1, <1>4, <2>2 DEF LookedIn
  <2>9. HandOK(t)'
    BY <1>1, <1>2, <2>5, <2>8 DEF RoutineOK, HandOK
  <2>10. SightOK(t)'
    <3>1. r.item # item
      BY <1>2, <1>5 DEF NoItemYet, Item, Notes, Kinds
    <3>2. \A x : x \in r.todo \/ r.item = x =>
             \/ x \in routine'[t].todo \/ routine'[t].item = x \/ x.kind \notin Asking
      BY <1>2, <2>5 DEF NoItemYet, Item, Asking
    <3>3. QED
      BY <1>1, <1>2, <1>3, <2>5, <2>6, <3>2, SightKept
  <2>11. QED
    BY <1>2, <2>4, <2>7, <2>9, <2>10, LookStep DEF RoutineOK
<1>9. QED
  BY <1>7, <1>8

LEMMA StoreCheckedStep == ASSUME ObsInv, NEW t \in Chats, StoreChecked(t) PROVE ObsInv'
<1> DEFINE r == routine[t]
<1>1. /\ routine \in [Chats -> Routines] /\ r \in Routines /\ RoutineOK(t) /\ TablesTyped
      /\ Len(found) \in Nat
  BY Lengths DEF ObsInv, TablesTyped
<1>2. UNCHANGED <<chats, ledger, drift, hour>> /\ r.item # NoItemYet
  BY DEF StoreChecked
<1>3. StoreObservation(t, r.item)
  BY DEF StoreChecked
<1>4. r.item \in Notes
  BY <1>1, <1>2 DEF Routines
<1>5. LookedIn(found, r.item, r.seen, r.full)
  BY <1>1, <1>2 DEF RoutineOK, HandOK
<1>6. Unanswered(r.item, r.answered)
  BY <1>5 DEF Unanswered, LookedIn, Asking
<1>7. found' \in Seq(Rows) /\ FoundGrows /\ NewRowOK /\ ObservedIn(found', r.item)
  BY <1>2, <1>3, <1>4, <1>5, <1>6, StoreGrows
<1>8. /\ routine'[t] = [r EXCEPT !.item = NoItemYet, !.seen = 0, !.full = FALSE]
      /\ \A u \in Chats \ {t} : routine'[u] = routine[u]
      /\ routine' \in [Chats -> Routines]
  BY <1>1 DEF StoreChecked, Routines
<1>9. /\ routine'[t].at = r.at /\ routine'[t].stale = r.stale
      /\ routine'[t].began = r.began /\ routine'[t].asked = r.asked
      /\ routine'[t].todo = r.todo /\ routine'[t].item = NoItemYet
      /\ routine'[t].answered = r.answered /\ routine'[t].flags = r.flags
  BY <1>1, <1>8 DEF Routines
<1>10. TablesTyped'
  BY <1>1, <1>2, <1>7, <1>8 DEF TablesTyped
<1>11. r.at \in Looking
  BY <1>1, <1>2, BusyLooks
<1>12. PlaceOK(t)' /\ AgesOK(t)'
  BY <1>1, <1>2, <1>7, <1>9, <1>10, <1>11, StaysPlaced
<1>13. HandOK(t)'
  BY <1>1, <1>2, <1>9 DEF RoutineOK, HandOK
<1>14. SightOK(t)'
  BY <1>1, <1>2, <1>7, <1>9, <1>10, SightKept
<1>15. QED
  BY <1>2, <1>7, <1>8, <1>12, <1>13, <1>14, RoutineStep DEF RoutineOK

LEMMA RoutineFailsStep == ASSUME ObsInv, NEW t \in Chats, RoutineFails(t) PROVE ObsInv'
<1> DEFINE r == routine[t]
           blank == [NewRoutine EXCEPT !.at = "failed"]
<1>1. /\ routine \in [Chats -> Routines] /\ RoutineOK(t) /\ Len(found) \in Nat
      /\ Len(ledger) \in Nat /\ hour \in Nat
  BY Lengths DEF ObsInv, TablesTyped
<1>2. UNCHANGED <<chats, ledger, drift, found, hour>> /\ r.at # "waiting"
  BY DEF RoutineFails
<1>3. /\ blank.at = "failed" /\ blank.stale = {} /\ blank.began = 0
      /\ blank.todo = {} /\ blank.item = NoItemYet /\ blank.flags = {}
  BY DEF NewRoutine
<1>4. blank \in Routines
  BY EmptySeq DEF NewRoutine, Routines
<1>5. routine' = [routine EXCEPT ![t] = blank]
  BY DEF RoutineFails
<1> HIDE DEF blank
<1>6. /\ routine'[t] = blank /\ routine' \in [Chats -> Routines]
      /\ \A u \in Chats \ {t} : routine'[u] = routine[u]
  BY <1>1, <1>4, <1>5
<1>7. PlaceOK(t)'
  BY <1>1, <1>2, <1>3, <1>6 DEF RoutineOK, PlaceOK
<1>8. AgesOK(t)' /\ HandOK(t)' /\ SightOK(t)'
  BY <1>1, <1>2, <1>3, <1>6 DEF AgesOK, HandOK, SightOK, Looking
<1>9. QED
  BY <1>2, <1>6, <1>7, <1>8, LookStep DEF RoutineOK

-----------------------------------------------------------------------------
(* Observation routines: the steps of turns, the compressor and time.      *)

\* What such a step has to show: observations and routines stay, or one turn's
\* routine begins.
LEMMA WorldStep ==
    ASSUME ObsInv, UNCHANGED found, TablesTyped', DriftGrows, hour' >= hour,
           AnswersLast',
           \A u \in Chats : \/ RoutineOK(u)'
                            \/ /\ routine'[u] = routine[u]
                               /\ StillAnswered(u)
    PROVE  ObsInv'
<1>1. TablesTyped
  BY DEF ObsInv
<1>2. Len(found) \in Nat /\ found' = found
  BY <1>1, Lengths
<1>3. FoundGrows /\ NewRowOK
  BY <1>2 DEF FoundGrows, NewRowOK
<1>4. \A u \in Chats : RoutineOK(u)'
  BY <1>1, <1>3, OthersUndisturbed DEF ObsInv
<1>5. QED
  BY <1>3, <1>4, RowsUndisturbed DEF ObsInv

LEMMA EntryTyped ==
    ASSUME NEW t \in Chats, NEW kind \in {"user", "agent", "call", "result", "error"},
           NEW tool \in Tools \cup {NoTool}
    PROVE  Entry(t, kind, tool) \in Entries
BY DEF Entry, Entries

\* What is added for other turns leaves an answer the last of its own.
LEMMA AnswerStaysLast ==
    ASSUME NEW old \in Seq(Entries), NEW new \in Seq(Entries), NEW t, EndsWithAnswer(old, t),
           Len(new) >= Len(old), \A k \in 1..Len(old) : new[k] = old[k],
           \A k \in 1..Len(new) : k \in 1..Len(old) \/ new[k].turn # t
    PROVE  EndsWithAnswer(new, t)
<1>1. Len(old) \in Nat /\ Len(new) \in Nat
  BY LenProperties
<1>2. PICK k \in 1..Len(old) : /\ old[k].turn = t /\ old[k].kind = "agent"
                             /\ \A m \in 1..Len(old) : old[m].turn = t => m <= k
  BY DEF EndsWithAnswer
<1>3. k \in 1..Len(new) /\ new[k] = old[k]
  BY <1>1, <1>2
<1>4. QED
  BY <1>2, <1>3 DEF EndsWithAnswer

\* An entry more for a turn that has got no answer.
LEMMA EntryAdded ==
    ASSUME ObsInv, NEW t \in Chats, t \notin Answered,
           NEW e \in Entries, e.turn = t, ledger' = Append(ledger, e),
           t \in Answered' => e.kind = "agent",
           \A u \in Chats \ {t} : chats'[u] = chats[u]
    PROVE  ledger' \in Seq(Entries) /\ AnswersLast'
<1>1. /\ ledger \in Seq(Entries) /\ Len(ledger) \in Nat
      /\ \A k \in 1..Len(ledger) : ledger[k] \in Entries
  BY Lengths DEF ObsInv, TablesTyped
<1>2. /\ ledger' \in Seq(Entries) /\ Len(ledger') = Len(ledger) + 1
      /\ \A k \in 1..Len(ledger) : ledger'[k] = ledger[k]
      /\ ledger'[Len(ledger) + 1] = e
  BY <1>1, AppendProperties
<1>3. 1..Len(ledger') = 1..Len(ledger) \cup {Len(ledger) + 1}
  BY <1>1, <1>2
<1>4. ASSUME NEW u \in Answered' PROVE EndsWithAnswer(ledger', u)
  <2>1. CASE u = t
    <3>1. Len(ledger) + 1 \in 1..Len(ledger') /\ \A m \in 1..Len(ledger') : m <= Len(ledger) + 1
      BY <1>1, <1>2
    <3>2. QED
      BY <1>2, <1>4, <2>1, <3>1 DEF EndsWithAnswer
  <2>2. CASE u # t
    <3>1. u \in Answered
      BY <1>4, <2>2 DEF Answered
    <3>2. EndsWithAnswer(ledger, u)
      BY <3>1 DEF ObsInv, AnswersLast
    <3>3. Len(ledger') >= Len(ledger)
      BY <1>1, <1>2
    <3>4. \A k \in 1..Len(ledger') : k \in 1..Len(ledger) \/ ledger'[k].turn # u
      BY <1>2, <1>3, <2>2
    <3>5. QED
      BY <1>1, <1>2, <3>2, <3>3, <3>4, AnswerStaysLast
  <2>3. QED
    BY <2>1, <2>2
<1>5. AnswersLast'
  BY <1>4 DEF AnswersLast
<1>6. QED
  BY <1>2, <1>5

\* One entry less leaves the others in their order.
LEMMA EntryTakenOut ==
    ASSUME NEW old \in Seq(Entries), NEW i \in 1..Len(old)
    PROVE  /\ RemoveAt(old, i) \in Seq(Entries) /\ Len(RemoveAt(old, i)) = Len(old) - 1
           /\ \A k \in 1..Len(old) - 1 :
                 RemoveAt(old, i)[k] = IF k < i THEN old[k] ELSE old[k + 1]
<1>1. Len(old) \in Nat /\ \A k \in 1..Len(old) : old[k] \in Entries
  BY LenProperties, ElementOfSeq
<1> DEFINE before == SubSeq(old, 1, i - 1)
           after == SubSeq(old, i + 1, Len(old))
<1>2. before \in Seq(Entries) /\ Len(before) = i - 1 /\ \A k \in 1..i - 1 : before[k] = old[k]
  <2>1. 1 \in Int /\ i - 1 \in Int /\ \A k \in 1..i - 1 : old[k] \in Entries
    BY <1>1
  <2>2. /\ before \in Seq(Entries) /\ Len(before) = IF 1 <= i - 1 THEN i - 1 - 1 + 1 ELSE 0
        /\ \A k \in 1..(i - 1 - 1 + 1) : before[k] = old[1 + k - 1]
    BY <2>1, SubSeqProperties
  <2>3. QED
    BY <1>1, <2>2
<1>3. /\ after \in Seq(Entries) /\ Len(after) = Len(old) - i
      /\ \A k \in 1..Len(old) - i : after[k] = old[i + k]
  <2>1. i + 1 \in Int /\ Len(old) \in Int /\ \A k \in i + 1..Len(old) : old[k] \in Entries
    BY <1>1
  <2>2. /\ after \in Seq(Entries)
        /\ Len(after) = IF i + 1 <= Len(old) THEN Len(old) - (i + 1) + 1 ELSE 0
        /\ \A k \in 1..(Len(old) - (i + 1) + 1) : after[k] = old[i + 1 + k - 1]
    BY <2>1, SubSeqProperties
  <2>3. Len(old) - (i + 1) + 1 = Len(old) - i /\ \A k \in 1..Len(old) - i : i + 1 + k - 1 = i + k
    BY <1>1
  <2>4. Len(after) = Len(old) - i
    BY <1>1, <2>2
  <2>5. \A k \in 1..Len(old) - i : after[k] = old[i + k]
    BY <2>2, <2>3
  <2>6. QED
    BY <2>2, <2>4, <2>5
<1>4. RemoveAt(old, i) = before \o after
  BY DEF RemoveAt
<1> HIDE DEF before, after
<1>5. /\ before \o after \in Seq(Entries) /\ Len(before \o after) = Len(before) + Len(after)
      /\ \A k \in 1..(Len(before) + Len(after)) :
            (before \o after)[k] = IF k <= Len(before) THEN before[k] ELSE after[k - Len(before)]
  BY <1>2, <1>3, ConcatProperties
<1>6. Len(before) + Len(after) = Len(old) - 1
  BY <1>1, <1>2, <1>3
<1>7. ASSUME NEW k \in 1..Len(old) - 1
      PROVE  (before \o after)[k] = IF k < i THEN old[k] ELSE old[k + 1]
  <2>1. CASE k < i
    <3>1. k <= Len(before) /\ k \in 1..i - 1
      BY <1>1, <1>2, <2>1
    <3>2. QED
      BY <1>2, <1>5, <1>6, <2>1, <3>1
  <2>2. CASE ~(k < i)
    <3>1. ~(k <= Len(before)) /\ k - Len(before) \in 1..Len(old) - i
          /\ i + (k - Len(before)) = k + 1
      BY <1>1, <1>2, <2>2
    <3>2. QED
      BY <1>3, <1>5, <1>6, <2>2, <3>1
  <2>3. QED
    BY <2>1, <2>2
<1>8. QED
  BY <1>4, <1>5, <1>6, <1>7

LEMMA TurnBeginsStep == ASSUME ObsInv, NEW t \in Chats, TurnBegins(t) PROVE ObsInv'
<1>1. /\ TablesTyped /\ Len(drift) \in Nat /\ hour \in Nat
      /\ UNCHANGED <<drift, found, routine, hour>>
  BY Lengths DEF ObsInv, TurnBegins
<1>2. Entry(t, "user", NoTool) \in Entries
  BY EntryTyped
<1>3. /\ chats' \in [Chats -> {"absent", "running", "succeeded", "awaiting_user", "failed"}]
      /\ chats[t] = "absent" /\ chats'[t] = "running"
      /\ \A u \in Chats \ {t} : chats'[u] = chats[u]
  BY <1>1 DEF TurnBegins, TablesTyped
<1>4. Entry(t, "user", NoTool).turn = t /\ Entry(t, "user", NoTool).kind = "user"
  BY DEF Entry
<1>5. ledger' \in Seq(Entries) /\ AnswersLast'
  BY <1>2, <1>3, <1>4, EntryAdded DEF TurnBegins, Answered
<1>6. TablesTyped'
  BY <1>1, <1>3, <1>5 DEF TablesTyped
<1>7. DriftGrows /\ hour' >= hour /\ \A u \in Chats : StillAnswered(u)
  BY <1>1, <1>3 DEF DriftGrows, StillAnswered, Answered
<1>8. QED
  BY <1>1, <1>3, <1>5, <1>6, <1>7, WorldStep

LEMMA FailChatStep ==
    ASSUME ObsInv, NEW t \in Chats, NEW logged \in BOOLEAN, FailChat(t, logged) PROVE ObsInv'
<1>1. /\ TablesTyped /\ Len(drift) \in Nat /\ Len(ledger) \in Nat /\ hour \in Nat
      /\ UNCHANGED <<drift, found, routine, hour>>
  BY Lengths DEF ObsInv, FailChat
<1>2. Entry(t, "error", NoTool) \in Entries
  BY EntryTyped
<1>3. /\ chats' \in [Chats -> {"absent", "running", "succeeded", "awaiting_user", "failed"}]
      /\ chats[t] = "running" /\ chats'[t] = "failed"
      /\ \A u \in Chats \ {t} : chats'[u] = chats[u]
  BY <1>1 DEF FailChat, TablesTyped
<1>4. t \notin Answered /\ Answered' = Answered
  BY <1>3 DEF Answered
<1>5. ledger' \in Seq(Entries) /\ AnswersLast'
  <2>1. CASE logged
    <3>1. Entry(t, "error", NoTool).turn = t /\ ledger' = Append(ledger, Entry(t, "error", NoTool))
      BY <2>1 DEF Entry, FailChat
    <3>2. QED
      BY <1>2, <1>3, <1>4, <3>1, EntryAdded
  <2>2. CASE ~logged
    <3>1. ledger' = ledger
      BY <2>2 DEF FailChat
    <3>2. QED
      BY <1>4, <3>1 DEF ObsInv, TablesTyped, AnswersLast, EndsWithAnswer
  <2>3. QED
    BY <2>1, <2>2
<1>6. TablesTyped'
  BY <1>1, <1>3, <1>5 DEF TablesTyped
<1>7. DriftGrows /\ hour' >= hour /\ \A u \in Chats : StillAnswered(u)
  BY <1>1, <1>3, <1>4 DEF DriftGrows, StillAnswered
<1>8. QED
  BY <1>1, <1>5, <1>6, <1>7, WorldStep

\* The answer that its own upkeep takes away is no other turn's.
LEMMA FailAnsweredStep ==
    ASSUME ObsInv, NEW t \in Chats, NEW logged \in BOOLEAN, FailAnswered(t, logged) PROVE ObsInv'
<1> DEFINE error == IF logged THEN <<Entry(t, "error", NoTool)>> ELSE <<>>
<1>1. /\ TablesTyped /\ Len(drift) \in Nat /\ Len(ledger) \in Nat /\ hour \in Nat
      /\ ledger \in Seq(Entries) /\ DOMAIN ledger = 1..Len(ledger)
      /\ UNCHANGED <<drift, found, routine, hour>>
  BY Lengths DEF ObsInv, TablesTyped, FailAnswered
<1>2. Entry(t, "error", NoTool) \in Entries /\ Entry(t, "error", NoTool).turn = t
  BY EntryTyped DEF Entry
<1>3. /\ chats' \in [Chats -> {"absent", "running", "succeeded", "awaiting_user", "failed"}]
      /\ chats[t] \in {"succeeded", "awaiting_user"} /\ chats'[t] = "failed"
      /\ \A u \in Chats \ {t} : chats'[u] = chats[u]
  BY <1>1 DEF FailAnswered, TablesTyped, Answered
<1>4. Answered' = Answered \ {t}
  BY <1>3 DEF Answered
<1>5. PICK i \in 1..Len(ledger) : ledger[i].turn = t /\ ledger' = RemoveAt(ledger, i) \o error
  BY <1>1 DEF FailAnswered
<1> DEFINE rest == RemoveAt(ledger, i)
<1>6. /\ rest \in Seq(Entries) /\ Len(rest) = Len(ledger) - 1
      /\ \A k \in 1..Len(ledger) - 1 : rest[k] = IF k < i THEN ledger[k] ELSE ledger[k + 1]
  BY <1>1, EntryTakenOut
<1>7. /\ error \in Seq(Entries) /\ Len(error) \in Nat
      /\ \A k \in 1..Len(error) : error[k].turn = t
  BY <1>2
<1> HIDE DEF rest, error
<1>8. /\ ledger' \in Seq(Entries) /\ Len(ledger') = Len(rest) + Len(error)
      /\ \A k \in 1..(Len(rest) + Len(error)) :
            ledger'[k] = IF k <= Len(rest) THEN rest[k] ELSE error[k - Len(rest)]
  BY <1>5, <1>6, <1>7, ConcatProperties DEF rest
<1>9. ASSUME NEW u \in Answered' PROVE EndsWithAnswer(ledger', u)
  <2>1. u \in Answered /\ u # t
    BY <1>4, <1>9
  <2>2. PICK k \in 1..Len(ledger) :
            /\ ledger[k].turn = u /\ ledger[k].kind = "agent"
            /\ \A m \in 1..Len(ledger) : ledger[m].turn = u => m <= k
    BY <2>1 DEF ObsInv, AnswersLast, EndsWithAnswer
  <2> DEFINE n == IF k < i THEN k ELSE k - 1
  <2>3. k # i
    BY <1>5, <2>1, <2>2
  <2>4. n \in 1..Len(ledger) - 1 /\ k = IF n < i THEN n ELSE n + 1
    BY <1>1, <2>3
  <2>5. rest[n] = ledger[k] /\ n \in 1..Len(rest)
    BY <1>6, <2>4
  <2>6. EndsWithAnswer(rest, u)
    <3>1. ASSUME NEW m \in 1..Len(rest), rest[m].turn = u PROVE m <= n
      <4> DEFINE o == IF m < i THEN m ELSE m + 1
      <4>1. m \in 1..Len(ledger) - 1 /\ o \in 1..Len(ledger)
        BY <1>1, <1>6
      <4>2. ledger[o].turn = u
        BY <1>6, <3>1, <4>1
      <4>3. o <= k
        BY <2>2, <4>1, <4>2
      <4>4. QED
        BY <1>1, <2>3, <4>1, <4>3
    <3> HIDE DEF n
    <3>2. QED
      BY <2>2, <2>5, <3>1 DEF EndsWithAnswer
  <2>7. Len(ledger') >= Len(rest) /\ \A m \in 1..Len(rest) : ledger'[m] = rest[m]
    <3>1. Len(rest) \in Nat
      BY <1>6, LenProperties
    <3>2. Len(ledger') >= Len(rest)
      BY <1>7, <1>8, <3>1
    <3>3. \A m \in 1..Len(rest) : m \in 1..(Len(rest) + Len(error)) /\ m <= Len(rest)
      BY <1>7, <3>1
    <3>4. QED
      BY <1>8, <3>2, <3>3
  <2>8. ASSUME NEW m \in 1..Len(ledger'), m \notin 1..Len(rest) PROVE ledger'[m].turn # u
    <3>1. ~(m <= Len(rest)) /\ m - Len(rest) \in 1..Len(error)
      BY <1>1, <1>6, <1>7, <1>8, <2>8
    <3>2. QED
      BY <1>7, <1>8, <2>1, <3>1
  <2>9. QED
    BY <1>6, <1>8, <2>6, <2>7, <2>8, AnswerStaysLast
<1>10. AnswersLast'
  BY <1>9 DEF AnswersLast
<1>11. TablesTyped'
  BY <1>1, <1>3, <1>8 DEF TablesTyped
<1>12. DriftGrows /\ hour' >= hour /\ \A u \in Chats : StillAnswered(u)
  BY <1>1, <1>3, <1>4 DEF DriftGrows, StillAnswered
<1>13. QED
  BY <1>1, <1>10, <1>11, <1>12, WorldStep

LEMMA ReplyStep ==
    ASSUME ObsInv, NEW t \in Chats, NEW status \in {"succeeded", "awaiting_user"},
           Reply(t, status)
    PROVE  ObsInv'
<1> DEFINE r == routine[t]
<1>1. /\ TablesTyped /\ Len(drift) \in Nat /\ Len(ledger) \in Nat /\ Len(found) \in Nat
      /\ hour \in Nat /\ UNCHANGED <<drift, found, hour>>
      /\ routine \in [Chats -> Routines] /\ r \in Routines /\ RoutineOK(t)
  BY Lengths DEF ObsInv, Reply, TablesTyped
<1>2. Entry(t, "agent", NoTool) \in Entries
  BY EntryTyped
<1>3. /\ chats' \in [Chats -> {"absent", "running", "succeeded", "awaiting_user", "failed"}]
      /\ chats[t] = "running" /\ chats'[t] = status
      /\ \A u \in Chats \ {t} : chats'[u] = chats[u]
  BY <1>1 DEF Reply, TablesTyped
<1>4. Entry(t, "agent", NoTool).turn = t /\ Entry(t, "agent", NoTool).kind = "agent"
  BY DEF Entry
<1>5. ledger' \in Seq(Entries) /\ AnswersLast'
  BY <1>2, <1>3, <1>4, EntryAdded DEF Reply, Answered
<1>6. /\ routine'[t] = [r EXCEPT !.at = "begun"]
      /\ \A u \in Chats \ {t} : routine'[u] = routine[u]
      /\ routine' \in [Chats -> Routines]
  BY <1>1 DEF Reply, Routines
<1>7. TablesTyped'
  BY <1>1, <1>3, <1>5, <1>6 DEF TablesTyped
<1>8. DriftGrows /\ hour' >= hour /\ \A u \in Chats \ {t} : StillAnswered(u)
  BY <1>1, <1>3 DEF DriftGrows, StillAnswered, Answered
<1>9. /\ routine'[t].at = "begun" /\ routine'[t].stale = r.stale
      /\ routine'[t].began = r.began
      /\ routine'[t].todo = r.todo /\ routine'[t].item = r.item /\ routine'[t].seen = r.seen
      /\ routine'[t].full = r.full /\ routine'[t].answered = r.answered /\ routine'[t].flags = r.flags
  BY <1>1, <1>6 DEF Routines
<1>10. r.at = "waiting" /\ r.todo = {} /\ r.item = NoItemYet
  BY <1>1, <1>3 DEF RoutineOK, PlaceOK, Looking
<1>11. PlaceOK(t)'
  BY <1>1, <1>3, <1>9, <1>10 DEF RoutineOK, PlaceOK, Looking
<1>12. AgesOK(t)'
  BY <1>1, <1>9 DEF RoutineOK, AgesOK, Looking
<1>13. HandOK(t)'
  BY <1>9, <1>10 DEF HandOK
<1>14. SightOK(t)'
  BY <1>9 DEF SightOK
<1>15. RoutineOK(t)'
  BY <1>11, <1>12, <1>13, <1>14 DEF RoutineOK
<1>16. QED
  BY <1>1, <1>3, <1>5, <1>6, <1>7, <1>8, <1>15, WorldStep

LEMMA CallToolsStep ==
    ASSUME ObsInv, NEW t \in Chats, NEW batch \in Batches, CallTools(t, batch) PROVE ObsInv'
<1> DEFINE part == [k \in 1..2 * Len(batch) |->
                       Entry(t, IF k % 2 = 1 THEN "call" ELSE "result", batch[(k + 1) \div 2])]
<1>1. /\ TablesTyped /\ Len(drift) \in Nat /\ Len(ledger) \in Nat /\ hour \in Nat
      /\ ledger \in Seq(Entries) /\ UNCHANGED <<chats, drift, found, routine, hour>>
      /\ chats[t] = "running"
      /\ \A k \in 1..Len(ledger) : ledger[k] \in Entries
  BY Lengths DEF ObsInv, CallTools, TablesTyped
<1>2. batch \in Seq(Tools)
  BY ObservationsAssumption
<1>3. Len(batch) \in Nat /\ \A j \in 1..Len(batch) : batch[j] \in Tools
  BY <1>2, LenProperties, ElementOfSeq
<1>4. ASSUME NEW k \in 1..2 * Len(batch)
      PROVE  part[k] \in Entries /\ part[k].turn = t /\ part[k].kind # "agent"
  <2>1. (k + 1) \div 2 \in 1..Len(batch)
    BY <1>3
  <2>2. part[k] = Entry(t, IF k % 2 = 1 THEN "call" ELSE "result", batch[(k + 1) \div 2])
    OBVIOUS
  <2>3. batch[(k + 1) \div 2] \in Tools \cup {NoTool}
    BY <1>3, <2>1
  <2>4. QED
    BY <2>2, <2>3, EntryTyped DEF Entry
<1>5. ledger' = ledger \o part
  BY DEF CallTools
<1>6. /\ DOMAIN part = 1..2 * Len(batch) /\ 2 * Len(batch) \in Nat
      /\ part = [k \in 1..2 * Len(batch) |-> part[k]]
  BY <1>3
<1> HIDE DEF part
<1>7. part \in Seq(Entries) /\ Len(part) = 2 * Len(batch)
  <2>1. part \in [1..2 * Len(batch) -> Entries]
    BY <1>4, <1>6
  <2>2. part \in Seq(Entries)
    BY <1>6, <2>1
  <2>3. QED
    BY <1>6, <2>2, LenProperties
<1>8. /\ ledger' \in Seq(Entries) /\ Len(ledger') = Len(ledger) + Len(part)
      /\ \A k \in 1..(Len(ledger) + Len(part)) :
            ledger'[k] = IF k <= Len(ledger) THEN ledger[k] ELSE part[k - Len(ledger)]
  BY <1>1, <1>5, <1>7, ConcatProperties
<1>9. Len(part) \in Nat
  BY <1>6, <1>7
<1>10. Len(ledger') >= Len(ledger) /\ \A k \in 1..Len(ledger) : ledger'[k] = ledger[k]
  <2>1. \A k \in 1..Len(ledger) : k \in 1..(Len(ledger) + Len(part)) /\ k <= Len(ledger)
    BY <1>1, <1>9
  <2>2. QED
    BY <1>1, <1>8, <1>9, <2>1
<1>11. \A k \in 1..Len(ledger') : \/ k \in 1..Len(ledger)
                                  \/ ledger'[k].turn = t /\ ledger'[k].kind # "agent"
  <2>1. \A k \in 1..(Len(ledger) + Len(part)) :
           k \in 1..Len(ledger) \/ (~(k <= Len(ledger)) /\ k - Len(ledger) \in 1..2 * Len(batch))
    BY <1>1, <1>7, <1>9
  <2>2. QED
    BY <1>4, <1>8, <2>1
<1>12. AnswersLast'
  <2>1. ASSUME NEW u \in Answered PROVE EndsWithAnswer(ledger', u)
    <3>1. EndsWithAnswer(ledger, u) /\ u # t
      BY <1>1 DEF ObsInv, AnswersLast, Answered
    <3>2. \A k \in 1..Len(ledger') : k \in 1..Len(ledger) \/ ledger'[k].turn # u
      BY <1>11, <3>1
    <3>3. QED
      BY <1>1, <1>8, <1>10, <3>1, <3>2, AnswerStaysLast
  <2>2. Answered' = Answered
    BY <1>1 DEF Answered
  <2>3. QED
    BY <2>1, <2>2 DEF AnswersLast
<1>13. DriftGrows /\ hour' >= hour /\ \A u \in Chats : StillAnswered(u)
  BY <1>1 DEF DriftGrows, StillAnswered, Answered
<1>14. TablesTyped'
  BY <1>1, <1>8 DEF TablesTyped
<1>15. QED
  BY <1>1, <1>12, <1>13, <1>14, WorldStep

LEMMA FlagDriftStep ==
    ASSUME ObsInv, NEW kind \in {"flag", "contradiction"}, NEW t \in Chats, FlagDrift(kind, t)
    PROVE  ObsInv'
<1> DEFINE flag == [kind |-> kind, cites |-> CiteTurn(t)]
<1>1. /\ TablesTyped /\ Len(drift) \in Nat /\ Len(ledger) \in Nat /\ hour \in Nat
      /\ drift \in Seq(Flags) /\ UNCHANGED <<chats, ledger, found, routine, hour>>
  BY Lengths DEF ObsInv, FlagDrift, TablesTyped
<1>2. flag \in Flags
  BY DEF Flags, Citations, CiteTurn
<1>3. drift' = Append(drift, flag)
  BY DEF FlagDrift
<1> HIDE DEF flag
<1>4. /\ drift' \in Seq(Flags) /\ Len(drift') = Len(drift) + 1
      /\ \A d \in 1..Len(drift) : drift'[d] = drift[d]
  BY <1>1, <1>2, <1>3, AppendProperties
<1>5. DriftGrows /\ hour' >= hour /\ \A u \in Chats : StillAnswered(u)
  BY <1>1, <1>4 DEF DriftGrows, StillAnswered, Answered
<1>6. TablesTyped' /\ AnswersLast'
  BY <1>1, <1>4 DEF TablesTyped, ObsInv, AnswersLast, Answered, EndsWithAnswer
<1>7. QED
  BY <1>1, <1>5, <1>6, WorldStep

LEMMA HourPassesStep == ASSUME ObsInv, HourPasses PROVE ObsInv'
<1>1. /\ TablesTyped /\ Len(drift) \in Nat /\ Len(ledger) \in Nat /\ hour \in Nat
      /\ UNCHANGED <<chats, ledger, drift, found, routine>> /\ hour' = hour + 1
  BY Lengths DEF ObsInv, HourPasses
<1>2. DriftGrows /\ hour' >= hour /\ \A u \in Chats : StillAnswered(u)
  BY <1>1 DEF DriftGrows, StillAnswered, Answered
<1>3. TablesTyped' /\ AnswersLast'
  BY <1>1 DEF TablesTyped, ObsInv, AnswersLast, Answered, EndsWithAnswer
<1>4. QED
  BY <1>1, <1>2, <1>3, WorldStep

LEMMA ObsInitially == ASSUME ObsInit PROVE ObsInv
<1>1. NewRoutine \in Routines /\ NewRoutine.at = "waiting" /\ NewRoutine.stale = {}
      /\ NewRoutine.todo = {} /\ NewRoutine.item = NoItemYet /\ NewRoutine.began = 0
      /\ NewRoutine.flags = {} /\ NewRoutine.asked = {}
  BY EmptySeq DEF NewRoutine, Routines
<1>2. Len(ledger) = 0 /\ Len(drift) = 0 /\ Len(found) = 0 /\ 1..0 = {} /\ hour = 0
      /\ DOMAIN found = 1..0
  BY EmptySeq DEF ObsInit
<1>3. TablesTyped
  BY <1>1, EmptySeq DEF ObsInit, TablesTyped
<1>4. AnswersLast /\ SecondOnlyByRace /\ \A i \in 1..Len(found) : RowOK(i)
  BY <1>2 DEF ObsInit, AnswersLast, Answered, SecondOnlyByRace
<1>5. ASSUME NEW t \in Chats PROVE RoutineOK(t)
  <2>1. routine[t] = NewRoutine /\ chats[t] = "absent"
    BY DEF ObsInit
  <2>2. PlaceOK(t) /\ HandOK(t)
    BY <1>1, <1>2, <2>1 DEF PlaceOK, HandOK, Answered
  <2>3. AgesOK(t) /\ SightOK(t)
    BY <1>1, <2>1 DEF AgesOK, SightOK, Looking
  <2>4. QED
    BY <2>2, <2>3 DEF RoutineOK
<1>6. QED
  BY <1>3, <1>4, <1>5 DEF ObsInv

LEMMA ObsStutter == ASSUME ObsInv, UNCHANGED obsVars PROVE ObsInv'
BY DEF ObsInv, obsVars, TablesTyped, AnswersLast, Answered, EndsWithAnswer, SecondOnlyByRace, RowOK,
       Unanswered, RoutineOK, PlaceOK, AgesOK, HandOK, LookedIn, SightOK, Pending, ObservedIn, Waits, Flagged

LEMMA ObsInductive == ASSUME ObsInv, [ObsNext]_obsVars PROVE ObsInv'
<1>1. ASSUME NEW t \in Chats, Chat(t) PROVE ObsInv'
  BY <1>1, TurnBeginsStep, CallToolsStep, ReplyStep, FailChatStep, FailAnsweredStep DEF Chat
<1>2. ASSUME NEW t \in Chats, Routine(t) PROVE ObsInv'
  BY <1>2, ReadStaleStep, ResolveStaleStep, ReadLedgerStep, DetectStep, StoreUnaskedStep,
     CheckExistingStep, StoreCheckedStep, RoutineFailsStep DEF Routine
<1>3. CASE UNCHANGED obsVars
  BY <1>3, ObsStutter
<1>4. QED
  BY <1>1, <1>2, <1>3, FlagDriftStep, HourPassesStep DEF ObsNext

-----------------------------------------------------------------------------
(* Observation routines: what follows.                                     *)

\* The tables and the routines have their shape.
THEOREM ObservationTypes == ObsSpec => []ObsTypeOK
<1>1. ASSUME ObsInv PROVE ObsTypeOK
  <2>1. /\ TablesTyped /\ DOMAIN ledger = 1..Len(ledger)
        /\ Len(found) \in Nat /\ DOMAIN found = 1..Len(found) /\ hour \in Nat
        /\ \A k \in 1..Len(ledger) : ledger[k] \in Entries
        /\ \A i \in 1..Len(found) : found[i] \in Rows
    BY <1>1, Lengths DEF ObsInv
  <2>2. \A k \in DOMAIN ledger : ledger[k].turn \in Chats /\ ledger[k].kind \in DOMAIN PayloadKeys
    BY <2>1, EntryKinds DEF Entries
  <2>3. ASSUME NEW i \in DOMAIN found
        PROVE  /\ found[i].item.kind \in DOMAIN KindOf /\ found[i].at \in 0..hour
               /\ found[i].item.kind \in Asking => found[i].seen < i
    <3>1. RowOK(i) /\ found[i] \in Rows
      BY <1>1, <2>1 DEF ObsInv
    <3>2. found[i].item.kind \in Kinds /\ found[i].at \in Nat
      BY <3>1 DEF Rows, Notes
    <3>3. found[i].at \in 0..hour
      BY <2>1, <3>1, <3>2 DEF RowOK
    <3>4. QED
      BY <3>1, <3>2, <3>3, KindsOfNotes DEF RowOK
  <2>4. ASSUME NEW t \in Chats
        PROVE  /\ routine[t].stale \subseteq DOMAIN found
               /\ chats[t] \in {"absent", "running"} => routine[t].at = "waiting"
               /\ t \in Answered => routine[t].at # "waiting"
    BY <1>1, <2>1 DEF ObsInv, RoutineOK, PlaceOK
  <2>5. QED
    BY <2>1, <2>2, <2>3, <2>4 DEF ObsTypeOK, TablesTyped
<1>2. ObsSpec => []ObsInv
  BY ObsInitially, ObsInductive, PTL DEF ObsSpec
<1>3. QED
  BY <1>1, <1>2, PTL

\* Nothing is stored twice but by a race or past the list's limit; a routine
\* that came to its end has left none of the waiting turns and drift items it
\* saw unobserved; no turn that stood answered at the look is said to have ended
\* without an answer, or in an error (run_observation_routines).
THEOREM RoutinesObserveAptly == ObsSpec => []ObservationsApt
<1>1. ASSUME ObsInv PROVE ObservationsApt
  <2>1. /\ DOMAIN found = 1..Len(found) /\ \A i \in 1..Len(found) : RowOK(i)
    BY <1>1, Lengths DEF ObsInv
  <2>2. NothingSeenGoesUnobserved
    BY <1>1, <2>1
       DEF ObsInv, RoutineOK, SightOK, ObservedIn, Waits, Flagged, Mine, NothingSeenGoesUnobserved
  <2>3. NoChainWhileAnswered
    BY <2>1 DEF RowOK, Unanswered, NoChainWhileAnswered
  <2>4. QED
    BY <1>1, <2>2, <2>3 DEF ObsInv, ObservationsApt
<1>2. ObsSpec => []ObsInv
  BY ObsInitially, ObsInductive, PTL DEF ObsSpec
<1>3. QED
  BY <1>1, <1>2, PTL

\* A step that adds at most one observation resolves none.
LEMMA AddedResolvesNone ==
    ASSUME ObsInv, NEW row, found' = Append(found, row)
    PROVE  OnlyAgeResolves
<1>1. found \in Seq(Rows) /\ Len(found) \in Nat /\ DOMAIN found = 1..Len(found)
  BY Lengths DEF ObsInv, TablesTyped
<1>2. \A i \in 1..Len(found) : found'[i] = found[i]
  BY <1>1
<1>3. QED
  BY <1>1, <1>2 DEF OnlyAgeResolves

LEMMA AgeAlone == ASSUME ObsInv, [ObsNext]_obsVars PROVE OnlyAgeResolves
<1>1. CASE UNCHANGED found
  BY <1>1 DEF OnlyAgeResolves
<1>2. ASSUME NEW t \in Chats, NEW item, StoreObservation(t, item) PROVE OnlyAgeResolves
  BY <1>2, AddedResolvesNone DEF StoreObservation
<1>3. ASSUME NEW t \in Chats, ResolveStale(t) PROVE OnlyAgeResolves
  <2>1. /\ found \in Seq(Rows) /\ DOMAIN found = 1..Len(found)
        /\ \A i \in 1..Len(found) : found[i] \in Rows
    BY Lengths DEF ObsInv, TablesTyped
  <2>2. PICK i \in routine[t].stale : found' = [found EXCEPT ![i].resolved = TRUE]
    BY <1>3 DEF ResolveStale
  <2>3. i \in 1..Len(found) /\ hour - found[i].at > MaxAge
    BY DEF ObsInv, RoutineOK, PlaceOK, AgesOK
  <2>4. /\ \A j \in DOMAIN found : j # i => found'[j] = found[j]
        /\ found'[i].item = found[i].item /\ found'[i].resolved
    BY <2>1, <2>2, <2>3 DEF Rows
  <2>5. QED
    BY <2>3, <2>4 DEF OnlyAgeResolves
<1>4. ASSUME NEW t \in Chats, Routine(t) PROVE OnlyAgeResolves
  BY <1>1, <1>2, <1>3, <1>4
     DEF Routine, ReadStale, ReadLedger, DetectPatterns, DetectContradictions, FinishRoutine,
         StoreUnasked, CheckExisting, StoreChecked, RoutineFails
<1>5. ASSUME NEW t \in Chats, Chat(t) PROVE OnlyAgeResolves
  BY <1>1, <1>5 DEF Chat, TurnBegins, CallTools, Reply, FailChat, FailAnswered
<1>6. QED
  BY <1>1, <1>4, <1>5 DEF ObsNext, FlagDrift, HourPasses, obsVars

\* Age, and nothing else, resolves an observation, and does so before the
\* routine that found it too old looks at what is open (auto_resolve_stale).
THEOREM AgeAloneResolves == ObsSpec => AgeResolves
<1>1. ASSUME ObsInv PROVE AgedAreResolved
  <2>1. DOMAIN found = 1..Len(found)
    BY <1>1, Lengths DEF ObsInv
  <2>2. QED
    BY <1>1, <2>1 DEF ObsInv, RoutineOK, AgesOK, Looking, AgedAreResolved
<1>2. ASSUME ObsInv, [ObsNext]_obsVars PROVE OnlyAgeResolves /\ AgedAreResolved'
  <2>1. ObsInv'
    BY <1>2, ObsInductive
  <2>2. AgedAreResolved'
    BY <1>1, <2>1, PTL
  <2>3. QED
    BY <1>2, <2>2, AgeAlone
<1>3. QED
  BY <1>2, ObsInitially, ObsInductive, PTL DEF ObsSpec, AgeResolves
=============================================================================
