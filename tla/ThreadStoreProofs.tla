------------------------- MODULE ThreadStoreProofs -------------------------
(***************************************************************************)
(* ThreadStore for any number of handlers, messages, turns, failures and   *)
(* days.                                                                   *)
(*                                                                         *)
(* Most of the argument is about what a handler may rely on between its    *)
(* statements, while others write the same rows: HandlerInv says it for    *)
(* each stage.  It survives because rows only change in a few ways, which  *)
(* Grows collects: a turn keeps its thread and its message, a thread its   *)
(* channel, and its metadata becomes that of a message handled there.      *)
(***************************************************************************)
EXTENDS ThreadStore, SequenceTheorems, FiniteSetTheorems, WellFoundedInduction, TLAPS

Nexts == {"metadata", "exchange", "tell", "idle"}
Owned == {"metadata", "reread", "history", "exchange", "tell", "tracing", "settle"}
Places == Owned \cup {"idle", "create", "turn", "append", "insert"}
Statuses == {"running", "succeeded", "failed"}

Channels == {m.channel : m \in Inbound} \cup {"none"}
Metas == {m.meta : m \in Inbound} \cup {NoMeta}
Threads == [channel : Channels, meta : Metas]
TurnRows == [thread : Ids, status : Statuses, by : Inbound, before : SUBSET Nat, rows : Nat,
             seen : SUBSET Nat, told : SUBSET Nat, meta : Metas]
Works == [at : Places, msg : Inbound \cup {NoMessage}, row : Threads, turn : Nat,
          todo : Seq(Turns), then : Nexts, number : Nat]

Shape ==
    /\ threads \in [Ids -> Threads]
    /\ turns \in Seq(TurnRows) /\ Len(turns) <= MaxTurns
    /\ events \in [Turns -> Seq(Nat)]
    /\ blobs \in [Turns -> [day : Int, pruned : {0, 1}]]
    /\ traces \subseteq Turns
    /\ lock \in Handlers \cup {NoHandler}
    /\ work \in [Handlers -> Works]
    /\ day \in 0..MaxTime /\ upsets \in 0..MaxUpsets

-----------------------------------------------------------------------------
\* What a handler is about to do, the events it has to append first apart.
Stage(h) == IF work[h].at \in {"append", "insert"} THEN work[h].then ELSE work[h].at

\* A message with this metadata has a turn in the thread.
Handled(id, meta) == \E t \in DOMAIN turns : turns[t].thread = id /\ turns[t].by.meta = meta

\* A turn whose handler is at work is running, whatever other handlers do.
OwnerInv(h) ==
    Stage(h) \in Owned =>
        /\ work[h].turn \in DOMAIN turns
        /\ turns[work[h].turn].status = "running" /\ turns[work[h].turn].by = work[h].msg

\* What the thread's row and the handler's copy of it are good for.
RowInv(h) ==
    /\ Stage(h) # "idle" => work[h].msg \in Inbound
    /\ Stage(h) = "turn" => threads[Id(h)].channel = work[h].msg.channel
    /\ Stage(h) \in {"turn", "metadata"} /\ work[h].row.meta # NoMeta =>
          Handled(Id(h), threads[Id(h)].meta)
    /\ Stage(h) = "reread" => Handled(Id(h), threads[Id(h)].meta)
    /\ Stage(h) = "history" => Handled(Id(h), work[h].row.meta)

HandlerInv(h) == OwnerInv(h) /\ RowInv(h) /\ (Stage(h) = "tracing" => blobs[work[h].turn].day >= 0)

OneOwner == \A h, q \in Handlers :
    h # q /\ Stage(h) \in Owned /\ Stage(q) \in Owned => work[h].turn # work[q].turn

\* Between the two statements of an event its handler has the lock, and the
\* number is the next.
NumberInv ==
    /\ EventsNumbered
    /\ \A h \in Handlers :
          /\ (work[h].at = "insert") = (lock = h)
          /\ work[h].at \in {"append", "insert"} => work[h].todo # <<>>
          /\ work[h].at = "insert" => work[h].number = Len(events[Head(work[h].todo)]) + 1

ThreadInv ==
    /\ \A id \in Ids : threads[id].meta = NoMeta \/ Handled(id, threads[id].meta)
    /\ \A t \in DOMAIN turns :
          /\ turns[t].thread = turns[t].by.id
          /\ threads[turns[t].thread].channel = turns[t].by.channel
          /\ Prompted(t) => Handled(turns[t].thread, turns[t].meta)

HistoryInv ==
    \A t \in DOMAIN turns :
        /\ turns[t].before \subseteq {u \in DOMAIN turns : turns[u].status # "running"}
        /\ turns[t].rows <= Len(turns)

TraceInv ==
    /\ \A t \in Turns :
          /\ blobs[t].day \in -1..day
          /\ blobs[t].pruned > 0 => Retention > 0 /\ blobs[t].day >= 0 /\ blobs[t].day + Retention < day
    /\ \A t \in traces : blobs[t].day >= 0

StoreInv ==
    /\ Shape /\ NumberInv /\ TraceInv /\ OneOwner /\ (\A h \in Handlers : HandlerInv(h))
    /\ ThreadInv /\ HistoryInv /\ HistoryIsRecent

-----------------------------------------------------------------------------
\* Small facts.
LEMMA WorkShape ==
    ASSUME Shape, NEW h \in Handlers
    PROVE  /\ work[h] \in Works
           /\ work[h].at \in Places /\ work[h].msg \in Inbound \cup {NoMessage}
           /\ work[h].row \in Threads /\ work[h].turn \in Nat /\ work[h].todo \in Seq(Turns)
           /\ work[h].then \in Nexts /\ work[h].number \in Nat
BY DEF Shape, Works

LEMMA TurnShape ==
    ASSUME Shape
    PROVE  /\ Len(turns) \in Nat /\ DOMAIN turns = 1..Len(turns) /\ DOMAIN turns \subseteq Turns
           /\ \A t \in DOMAIN turns : turns[t] \in TurnRows
           /\ \A t \in DOMAIN turns :
                 /\ turns[t].thread \in Ids /\ turns[t].by \in Inbound /\ turns[t].status \in Statuses
                 /\ turns[t].before \in SUBSET Nat /\ turns[t].rows \in Nat /\ turns[t].meta \in Metas
                 /\ turns[t].seen \in SUBSET Nat /\ turns[t].told \in SUBSET Nat
<1>1. Len(turns) \in Nat /\ DOMAIN turns = 1..Len(turns) /\ Len(turns) <= MaxTurns BY DEF Shape
<1>2. DOMAIN turns \subseteq Turns BY <1>1, StoreAssumption DEF Turns
<1>3. \A t \in DOMAIN turns : turns[t] \in TurnRows BY <1>1, ElementOfSeq DEF Shape
<1> QED BY <1>1, <1>2, <1>3 DEF TurnRows

LEMMA TodoEnds ==
    ASSUME NEW todo \in Seq(Turns), todo # <<>>
    PROVE  /\ Head(todo) \in Turns /\ Tail(todo) \in Seq(Turns)
           /\ Len(todo) = 1 <=> Tail(todo) = <<>>
<1>1. Head(todo) \in Turns /\ Tail(todo) \in Seq(Turns) /\ Len(Tail(todo)) = Len(todo) - 1 /\ Len(todo) \in Nat
  BY HeadTailProperties, LenProperties
<1>2. Len(todo) = 1 <=> Len(Tail(todo)) = 0 BY <1>1
<1>3. Len(Tail(todo)) = 0 <=> Tail(todo) = <<>> BY <1>1, EmptySeq
<1> QED BY <1>1, <1>2, <1>3

LEMMA OneToDo ==
    ASSUME NEW t \in Turns
    PROVE  <<t>> \in Seq(Turns) /\ <<t>> # <<>>
OBVIOUS

LEMMA IdleShape == Idle \in Works
<1>1. <<>> \in Seq(Turns) OBVIOUS
<1> HIDE DEF Turns
<1> QED BY <1>1 DEF Idle, Works, Places, Owned, NoMessage, NoThread, Threads, Channels, Metas, Nexts

\* A handler that moves leaves the work of the others alone.
LEMMA Moves ==
    ASSUME Shape, NEW h \in Handlers, NEW new \in Works, work' = [work EXCEPT ![h] = new]
    PROVE  /\ work' \in [Handlers -> Works] /\ work'[h] = new
           /\ \A q \in Handlers : q # h => work'[q] = work[q]
BY DEF Shape

\* Events to append, and what comes after them.
Appending(h, list, place, turn, number) ==
    work' = [work EXCEPT ![h] = [work[h] EXCEPT !.todo = list, !.then = place, !.turn = turn, !.number = number,
                                                !.at = IF list = <<>> THEN place ELSE "append"]]

LEMMA Appends ==
    ASSUME Shape, NEW h \in Handlers, NEW list \in Seq(Turns), NEW place \in Nexts,
           NEW turn \in Nat, NEW number \in Nat,
           Appending(h, list, place, turn, number)
    PROVE  /\ work' \in [Handlers -> Works]
           /\ \A q \in Handlers : q # h => work'[q] = work[q]
           /\ work'[h].msg = work[h].msg /\ work'[h].row = work[h].row /\ work'[h].turn = turn
           /\ Stage(h)' = place /\ work'[h].at # "insert"
           /\ work'[h].at = "append" => work'[h].todo # <<>>
<1> DEFINE new == [work[h] EXCEPT !.todo = list, !.then = place, !.turn = turn, !.number = number,
                                  !.at = IF list = <<>> THEN place ELSE "append"]
<1>1. place \in Places /\ place \notin {"append", "insert"} /\ "append" \in Places BY DEF Nexts, Places, Owned
<1>2. work[h] \in Works BY WorkShape
<1>3. /\ new \in Works /\ new.at = (IF list = <<>> THEN place ELSE "append")
      /\ new.msg = work[h].msg /\ new.row = work[h].row /\ new.turn = turn /\ new.todo = list /\ new.then = place
  BY <1>1, <1>2 DEF Works
<1>4. work' = [work EXCEPT ![h] = new] BY DEF Appending
<1> HIDE DEF new
<1>5. /\ work' \in [Handlers -> Works] /\ work'[h] = new
      /\ \A q \in Handlers : q # h => work'[q] = work[q]
  BY <1>3, <1>4, Moves
<1> QED BY <1>1, <1>3, <1>5 DEF Stage

-----------------------------------------------------------------------------
\* The ways in which the rows change, whoever writes them.
Grows ==
    /\ DOMAIN turns \subseteq DOMAIN turns'
    /\ \A t \in DOMAIN turns : turns'[t].thread = turns[t].thread /\ turns'[t].by = turns[t].by
    /\ \A id \in Ids :
          /\ threads[id].channel # "none" => threads'[id].channel = threads[id].channel
          /\ threads'[id].meta = threads[id].meta \/ Handled(id, threads'[id].meta)
    /\ \A t \in Turns : blobs[t].day >= 0 => blobs'[t].day >= 0

LEMMA SameGrows == UNCHANGED <<threads, turns, blobs>> => Grows
BY DEF Grows

LEMMA HandledStays ==
    ASSUME Grows, NEW id, NEW meta, Handled(id, meta)
    PROVE  \E t \in DOMAIN turns' : turns'[t].thread = id /\ turns'[t].by.meta = meta
BY DEF Handled, Grows

LEMMA HandledRow ==
    ASSUME Grows, NEW id \in Ids, threads[id].meta = NoMeta \/ Handled(id, threads[id].meta)
    PROVE  threads'[id].meta = NoMeta
             \/ \E t \in DOMAIN turns' : turns'[t].thread = id /\ turns'[t].by.meta = threads'[id].meta
<1>1. CASE threads'[id].meta = threads[id].meta BY <1>1, HandledStays
<1>2. CASE Handled(id, threads'[id].meta) BY <1>2, HandledStays
<1> QED BY <1>1, <1>2 DEF Grows

LEMMA HandledRowStays ==
    ASSUME Grows, NEW id \in Ids, Handled(id, threads[id].meta)
    PROVE  \E t \in DOMAIN turns' : turns'[t].thread = id /\ turns'[t].by.meta = threads'[id].meta
<1>1. CASE threads'[id].meta = threads[id].meta BY <1>1, HandledStays
<1>2. CASE Handled(id, threads'[id].meta) BY <1>2, HandledStays
<1> QED BY <1>1, <1>2 DEF Grows

\* A handler that does nothing can still rely on what it relied on.
LEMMA Waits ==
    ASSUME StoreInv, Grows, NEW q \in Handlers, work'[q] = work[q],
           Stage(q) \in Owned => turns'[work[q].turn].status = "running"
    PROVE  HandlerInv(q)'
<1>1. HandlerInv(q) BY DEF StoreInv
<1>2. Stage(q)' = Stage(q) BY DEF Stage
<1>3. OwnerInv(q)' BY <1>1, <1>2 DEF HandlerInv, OwnerInv, Grows
<1>4. Stage(q) # "idle" => Id(q) \in Ids /\ work[q].msg.channel # "none"
  BY <1>1, StoreAssumption DEF HandlerInv, RowInv, Id, Ids
<1>5. RowInv(q)'
  <2>1. Stage(q) = "turn" => threads'[work[q].msg.id].channel = work[q].msg.channel
    BY <1>1, <1>4 DEF HandlerInv, RowInv, Grows, Id
  <2>2. Stage(q) \in {"turn", "metadata"} /\ work[q].row.meta # NoMeta =>
          \E t \in DOMAIN turns' : turns'[t].thread = Id(q) /\ turns'[t].by.meta = threads'[Id(q)].meta
    BY <1>1, <1>4, HandledRowStays DEF HandlerInv, RowInv
  <2>3. Stage(q) = "reread" =>
          \E t \in DOMAIN turns' : turns'[t].thread = Id(q) /\ turns'[t].by.meta = threads'[Id(q)].meta
    BY <1>1, <1>4, HandledRowStays DEF HandlerInv, RowInv
  <2>4. Stage(q) = "history" =>
          \E t \in DOMAIN turns' : turns'[t].thread = Id(q) /\ turns'[t].by.meta = work[q].row.meta
    BY <1>1, HandledStays DEF HandlerInv, RowInv
  <2> QED BY <1>1, <1>2, <2>1, <2>2, <2>3, <2>4 DEF HandlerInv, RowInv, Handled, Id
<1>6. Stage(q) = "tracing" => blobs'[work[q].turn].day >= 0
  <2>1. Stage(q) = "tracing" => work[q].turn \in Turns
    BY <1>1, TurnShape DEF HandlerInv, OwnerInv, Owned, StoreInv
  <2> QED BY <1>1, <2>1 DEF HandlerInv, Grows
<1> QED BY <1>2, <1>3, <1>5, <1>6 DEF HandlerInv

\* A step of one handler: the others wait.
LEMMA OneMoves ==
    ASSUME StoreInv, Grows, NEW h \in Handlers, HandlerInv(h)',
           \A q \in Handlers : q # h => work'[q] = work[q],
           \A q \in Handlers : q # h /\ Stage(q) \in Owned => turns'[work[q].turn].status = "running",
           Stage(h)' \in Owned =>
               \/ Stage(h) \in Owned /\ work'[h].turn = work[h].turn
               \/ work'[h].turn \notin DOMAIN turns
    PROVE  (\A q \in Handlers : HandlerInv(q)') /\ OneOwner'
<1>1. \A q \in Handlers : q # h => Stage(q)' = Stage(q) /\ work'[q].turn = work[q].turn BY DEF Stage
<1>2. \A q \in Handlers : Stage(q) \in Owned => work[q].turn \in DOMAIN turns
  BY DEF StoreInv, HandlerInv, OwnerInv
<1>3. \A q \in Handlers : q # h => HandlerInv(q)' BY Waits
<1>4. ASSUME NEW p \in Handlers, NEW q \in Handlers, p # q, Stage(p)' \in Owned, Stage(q)' \in Owned
      PROVE  work'[p].turn # work'[q].turn
  <2>1. CASE p # h /\ q # h BY <1>1, <1>4, <2>1 DEF StoreInv, OneOwner
  <2>2. CASE p = h BY <1>1, <1>2, <1>4, <2>2 DEF StoreInv, OneOwner
  <2>3. CASE q = h BY <1>1, <1>2, <1>4, <2>3 DEF StoreInv, OneOwner
  <2> QED BY <2>1, <2>2, <2>3
<1> QED BY <1>3, <1>4 DEF OneOwner

-----------------------------------------------------------------------------
\* What the tables keep of each other.
LEMMA ThreadsKept ==
    ASSUME StoreInv, Grows,
           \A t \in DOMAIN turns' : t \notin DOMAIN turns =>
               /\ turns'[t].thread = turns'[t].by.id /\ turns'[t].rows = 0
               /\ threads'[turns'[t].thread].channel = turns'[t].by.channel,
           \A t \in DOMAIN turns :
               \/ turns'[t].rows = turns[t].rows /\ turns'[t].meta = turns[t].meta
               \/ Handled(turns[t].thread, turns'[t].meta)
    PROVE  ThreadInv'
<1>1. ASSUME NEW id \in Ids
      PROVE  threads'[id].meta = NoMeta
             \/ \E t \in DOMAIN turns' : turns'[t].thread = id /\ turns'[t].by.meta = threads'[id].meta
  BY HandledRow DEF StoreInv, ThreadInv
<1>2. ASSUME NEW t \in DOMAIN turns'
      PROVE  /\ turns'[t].thread = turns'[t].by.id
             /\ threads'[turns'[t].thread].channel = turns'[t].by.channel
             /\ turns'[t].rows > 0 =>
                   \E u \in DOMAIN turns' : turns'[u].thread = turns'[t].thread /\ turns'[u].by.meta = turns'[t].meta
  <2>1. CASE t \notin DOMAIN turns BY <2>1
  <2>2. CASE t \in DOMAIN turns
    <3>1. /\ turns[t].thread \in Ids /\ turns[t].by \in Inbound /\ turns[t].by.channel # "none"
          /\ turns'[t].thread = turns[t].thread /\ turns'[t].by = turns[t].by
      BY <2>2, TurnShape, StoreAssumption DEF StoreInv, Grows
    <3>2. /\ turns[t].thread = turns[t].by.id /\ threads[turns[t].thread].channel = turns[t].by.channel
          /\ turns[t].rows > 0 => Handled(turns[t].thread, turns[t].meta)
      BY <2>2 DEF StoreInv, ThreadInv, Prompted
    <3>3. threads'[turns'[t].thread].channel = turns'[t].by.channel BY <3>1, <3>2 DEF Grows
    <3>4. turns'[t].rows > 0 => Handled(turns[t].thread, turns'[t].meta) BY <2>2, <3>2
    <3> QED BY <3>1, <3>2, <3>3, <3>4, HandledStays
  <2> QED BY <2>1, <2>2
<1> QED BY <1>1, <1>2 DEF ThreadInv, Handled, Prompted

\* No turn but a running one changes its status; what a prompt held stays.
LEMMA HistoryKept ==
    ASSUME StoreInv, DOMAIN turns' = DOMAIN turns, Len(turns') = Len(turns),
           \A t \in DOMAIN turns :
               /\ turns'[t].thread = turns[t].thread /\ turns'[t].before = turns[t].before
               /\ turns'[t].rows = turns[t].rows /\ turns'[t].seen = turns[t].seen /\ turns'[t].told = turns[t].told
               /\ \/ turns'[t].status = turns[t].status
                  \/ turns[t].status = "running" /\ turns'[t].status # "running"
    PROVE  HistoryInv' /\ HistoryIsRecent'
<1>1. HistoryInv' BY DEF StoreInv, HistoryInv
<1>2. ASSUME NEW t \in DOMAIN turns, turns[t].rows > 0
      PROVE  LET h == turns'[t].seen
                 others == {u \in 1..turns'[t].rows : u # t /\ turns'[u].thread = turns'[t].thread}
             IN  /\ h \subseteq others /\ Cardinality(h) <= MaxHistory
                 /\ \A u \in others \ h : Cardinality(h) = MaxHistory /\ \A v \in h : u < v
                 /\ \A u \in h \cap turns'[t].before :
                       turns'[u].status = "succeeded" => u \in turns'[t].told
  <2> DEFINE h == turns[t].seen
             others == {u \in 1..turns[t].rows : u # t /\ turns[u].thread = turns[t].thread}
  <2>1. /\ h \subseteq others /\ Cardinality(h) <= MaxHistory
        /\ \A u \in others \ h : Cardinality(h) = MaxHistory /\ \A v \in h : u < v
        /\ \A u \in h \cap turns[t].before : turns[u].status = "succeeded" => u \in turns[t].told
    BY <1>2 DEF StoreInv, HistoryIsRecent, Prompted
  <2>2. turns[t].rows \in Nat /\ turns[t].rows <= Len(turns) /\ DOMAIN turns = 1..Len(turns) /\ Len(turns) \in Nat
    BY TurnShape DEF StoreInv, HistoryInv
  <2>3. 1..turns[t].rows \subseteq DOMAIN turns BY <2>2
  <2>4. others = {u \in 1..turns'[t].rows : u # t /\ turns'[u].thread = turns'[t].thread} BY <2>3
  <2>5. \A u \in h \cap turns[t].before : u \in DOMAIN turns /\ turns[u].status # "running"
    BY DEF StoreInv, HistoryInv
  <2>6. \A u \in h \cap turns[t].before : turns'[u].status = "succeeded" => u \in turns[t].told
    BY <2>1, <2>5
  <2> HIDE DEF others
  <2> QED BY <2>1, <2>4, <2>6
<1> QED BY <1>1, <1>2 DEF HistoryIsRecent, Prompted

\* Numbers of events, for a step that has nothing to do with them.
LEMMA NumbersKept ==
    ASSUME StoreInv, NEW h \in Handlers, UNCHANGED <<events, lock>>,
           work'[h].at # "insert", work[h].at # "insert",
           work'[h].at = "append" => work'[h].todo # <<>>,
           \A q \in Handlers : q # h => work'[q] = work[q]
    PROVE  NumberInv'
BY DEF StoreInv, NumberInv, EventsNumbered

LEMMA TracesUntouched ==
    ASSUME StoreInv, UNCHANGED <<blobs, traces, day>>
    PROVE  TraceInv'
BY DEF StoreInv, TraceInv

\* A step of a handler that writes nothing but its events.
LEMMA WritesNothing ==
    ASSUME StoreInv, NEW h \in Handlers, UNCHANGED <<threads, turns, blobs, traces, day>>,
           Shape', NumberInv', HandlerInv(h)',
           \A q \in Handlers : q # h => work'[q] = work[q],
           Stage(h)' \in Owned => Stage(h) \in Owned /\ work'[h].turn = work[h].turn
    PROVE  StoreInv'
<1>1. Grows BY SameGrows
<1>2. \A q \in Handlers : q # h /\ Stage(q) \in Owned => turns'[work[q].turn].status = "running"
  BY DEF StoreInv, HandlerInv, OwnerInv
<1>3. (\A q \in Handlers : HandlerInv(q)') /\ OneOwner' BY <1>1, <1>2, OneMoves
<1>4. ThreadInv' /\ HistoryInv' /\ HistoryIsRecent'
  BY DEF StoreInv, ThreadInv, Handled, Prompted, HistoryInv, HistoryIsRecent
<1>5. TraceInv' BY TracesUntouched
<1> QED BY <1>3, <1>4, <1>5 DEF StoreInv

-----------------------------------------------------------------------------
\* The two statements of an event.
LEMMA MaxIsLength ==
    ASSUME Shape, EventsNumbered, NEW t \in Turns
    PROVE  MaxNumber(t) = Len(events[t]) /\ Len(events[t]) \in Nat
<1>1. events[t] \in Seq(Nat) /\ Len(events[t]) \in Nat /\ DOMAIN events[t] = 1..Len(events[t])
  BY DEF Shape
<1>2. \A i \in DOMAIN events[t] : events[t][i] = i BY DEF EventsNumbered
<1>3. {events[t][i] : i \in DOMAIN events[t]} = 1..Len(events[t]) BY <1>1, <1>2
<1>4. CASE events[t] = <<>> BY <1>4, <1>1 DEF MaxNumber
<1>5. CASE events[t] # <<>>
  <2>1. Len(events[t]) > 0 BY <1>1, <1>5, EmptySeq
  <2>2. \A n \in 1..Len(events[t]) :
            (\A i \in DOMAIN events[t] : events[t][i] <= n) <=> n = Len(events[t])
    BY <1>1, <1>2, <2>1
  <2>3. Len(events[t]) \in 1..Len(events[t]) BY <1>1, <2>1
  <2> DEFINE Last(n) == \A i \in DOMAIN events[t] : events[t][i] <= n
  <2>4. (CHOOSE n \in 1..Len(events[t]) : Last(n)) = Len(events[t]) BY <2>2, <2>3
  <2> QED BY <1>3, <1>5, <2>4 DEF MaxNumber
<1> QED BY <1>1, <1>4, <1>5

LEMMA ReadNumberSteps ==
    ASSUME StoreInv, NEW h \in Handlers, ReadNumber(h)
    PROVE  StoreInv'
<1>0. Shape /\ EventsNumbered BY DEF StoreInv, NumberInv
<1>1. /\ work[h].at = "append" /\ lock = NoHandler /\ lock' = h
      /\ UNCHANGED <<threads, turns, events, blobs, traces, day, upsets>>
      /\ work' = [work EXCEPT ![h].number = MaxNumber(Head(work[h].todo)) + 1, ![h].at = "insert"]
  BY DEF ReadNumber, At, Free, tables, clocks
<1>2. work[h] \in Works /\ work[h].todo \in Seq(Turns) /\ work[h].todo # <<>>
  BY <1>0, <1>1, WorkShape DEF StoreInv, NumberInv
<1>3. Head(work[h].todo) \in Turns BY <1>2, TodoEnds
<1> DEFINE next == MaxNumber(Head(work[h].todo)) + 1
           new == [work[h] EXCEPT !.number = next, !.at = "insert"]
<1>4. next = Len(events[Head(work[h].todo)]) + 1 /\ next \in Nat
  BY <1>0, <1>3, MaxIsLength
<1>5. work' = [work EXCEPT ![h] = new] BY <1>1
<1> HIDE DEF next
<1>6. /\ new \in Works /\ new.at = "insert" /\ new.number = next /\ new.todo = work[h].todo
      /\ new.then = work[h].then /\ new.msg = work[h].msg /\ new.row = work[h].row /\ new.turn = work[h].turn
  BY <1>2, <1>4, "insert" \in Places DEF Works, Places
<1> HIDE DEF new
<1>7. /\ work' \in [Handlers -> Works] /\ work'[h] = new
      /\ \A q \in Handlers : q # h => work'[q] = work[q]
  BY <1>0, <1>5, <1>6, Moves
<1>8. Stage(h)' = Stage(h) BY <1>1, <1>6, <1>7 DEF Stage
<1>9. HandlerInv(h)'
  BY <1>1, <1>6, <1>7, <1>8 DEF StoreInv, HandlerInv, OwnerInv, RowInv, Handled, Id
<1>10. NumberInv'
  BY <1>0, <1>1, <1>2, <1>4, <1>6, <1>7, StoreAssumption DEF StoreInv, NumberInv, EventsNumbered
<1>11. Shape' BY <1>0, <1>1, <1>7 DEF Shape
<1> QED BY <1>1, <1>6, <1>7, <1>8, <1>9, <1>10, <1>11, WritesNothing

LEMMA InsertEventSteps ==
    ASSUME StoreInv, NEW h \in Handlers, InsertEvent(h)
    PROVE  StoreInv'
<1>0. Shape /\ EventsNumbered BY DEF StoreInv, NumberInv
<1> DEFINE t == Head(work[h].todo)
<1>1. /\ work[h].at = "insert" /\ lock = h /\ lock' = NoHandler
      /\ UNCHANGED <<threads, turns, blobs, traces, day, upsets>>
      /\ events' = [events EXCEPT ![t] = Append(@, work[h].number)]
  BY DEF InsertEvent, At, StoreInv, NumberInv, clocks
<1>2. /\ work[h].todo \in Seq(Turns) /\ work[h].todo # <<>> /\ work[h].turn \in Nat /\ work[h].then \in Nexts
      /\ work[h].number = Len(events[t]) + 1 /\ work[h] \in Works
  BY <1>0, <1>1, WorkShape DEF StoreInv, NumberInv
<1>3. t \in Turns /\ Tail(work[h].todo) \in Seq(Turns) BY <1>2, TodoEnds
<1> HIDE DEF t
<1>4. events' \in [Turns -> Seq(Nat)] /\ EventsNumbered'
  <2>1. events[t] \in Seq(Nat) /\ Len(events[t]) \in Nat BY <1>0, <1>3 DEF Shape
  <2>2. work[h].number \in Nat BY <1>2, <2>1
  <2>3. Append(events[t], work[h].number) \in Seq(Nat)
        /\ Len(Append(events[t], work[h].number)) = Len(events[t]) + 1
        /\ DOMAIN Append(events[t], work[h].number) = 1..(Len(events[t]) + 1)
        /\ \A i \in 1..Len(events[t]) : Append(events[t], work[h].number)[i] = events[t][i]
        /\ Append(events[t], work[h].number)[Len(events[t]) + 1] = work[h].number
    BY <2>1, <2>2, AppendProperties
  <2>4. events' \in [Turns -> Seq(Nat)] /\ events'[t] = Append(events[t], work[h].number)
        /\ \A u \in Turns : u # t => events'[u] = events[u]
    BY <1>0, <1>1, <1>3, <2>3 DEF Shape
  <2>5. \A i \in 1..Len(events[t]) : events[t][i] = i BY <1>0, <1>3, <2>1 DEF EventsNumbered
  <2>6. \A i \in DOMAIN events'[t] : events'[t][i] = i BY <1>2, <2>1, <2>3, <2>4, <2>5
  <2> QED BY <1>0, <2>4, <2>6 DEF EventsNumbered
<1>5. /\ work' \in [Handlers -> Works]
      /\ \A q \in Handlers : q # h => work'[q] = work[q]
      /\ work'[h].at # "insert" /\ (work'[h].at = "append" => work'[h].todo # <<>>)
      /\ Stage(h)' = Stage(h)
      /\ \/ Stage(h)' = "idle"
         \/ work'[h].msg = work[h].msg /\ work'[h].row = work[h].row /\ work'[h].turn = work[h].turn
  <2>1. CASE work[h].then = "idle" /\ Len(work[h].todo) = 1
    <3>1. work' = [work EXCEPT ![h] = Idle] BY <2>1 DEF InsertEvent
    <3>2. work' \in [Handlers -> Works] /\ work'[h] = Idle /\ \A q \in Handlers : q # h => work'[q] = work[q]
      BY <1>0, <3>1, IdleShape, Moves
    <3> QED BY <1>1, <2>1, <3>2 DEF Stage, Idle
  <2>2. CASE ~(work[h].then = "idle" /\ Len(work[h].todo) = 1)
    <3> DEFINE list == Tail(work[h].todo)
               place == work[h].then
               turn == work[h].turn
    <3>1. Appending(h, list, place, turn, 0)
      BY <1>0, <1>2, <2>2 DEF InsertEvent, Append1, Appending, Shape, Works
    <3> HIDE DEF list, turn
    <3>2. list \in Seq(Turns) /\ place \in Nexts /\ turn \in Nat /\ 0 \in Nat BY <1>2, <1>3 DEF list, turn
    <3>3. /\ work' \in [Handlers -> Works]
          /\ \A q \in Handlers : q # h => work'[q] = work[q]
          /\ work'[h].msg = work[h].msg /\ work'[h].row = work[h].row /\ work'[h].turn = turn
          /\ Stage(h)' = place /\ work'[h].at # "insert"
          /\ work'[h].at = "append" => work'[h].todo # <<>>
      BY <1>0, <3>1, <3>2, Appends
    <3> QED BY <1>1, <3>3 DEF Stage, turn
  <2> QED BY <2>1, <2>2
<1>6. HandlerInv(h)'
  BY <1>1, <1>5 DEF StoreInv, HandlerInv, OwnerInv, RowInv, Handled, Id, Owned
<1>7. NumberInv'
  BY <1>1, <1>4, <1>5, StoreAssumption DEF StoreInv, NumberInv
<1>8. Shape' BY <1>0, <1>1, <1>4, <1>5 DEF Shape
<1> QED BY <1>1, <1>5, <1>6, <1>7, <1>8, WritesNothing DEF Owned

-----------------------------------------------------------------------------
\* The steps that only read, or only have events to append.
LEMMA FindThreadSteps ==
    ASSUME StoreInv, NEW h \in Handlers, NEW m \in Inbound, FindThread(h, m)
    PROVE  StoreInv'
<1>0. Shape BY DEF StoreInv
<1> DEFINE found == threads[m.id].channel = m.channel
           new == IF found THEN [Idle EXCEPT !.msg = m, !.at = "turn", !.row = threads[m.id]]
                  ELSE [Idle EXCEPT !.msg = m, !.at = "create"]
<1>1. /\ work[h].at = "idle" /\ UNCHANGED <<threads, turns, events, blobs, traces, lock, day, upsets>>
      /\ work' = [work EXCEPT ![h] = new]
  BY DEF FindThread, At, tables, clocks
<1>2. m.id \in Ids /\ threads[m.id] \in Threads BY <1>0 DEF Ids, Shape
<1>3. /\ new \in Works /\ new.msg = m
      /\ new.at = (IF found THEN "turn" ELSE "create") /\ (found => new.row = threads[m.id])
  BY <1>2, IdleShape, "turn" \in Places, "create" \in Places DEF Idle, Works, Places
<1> HIDE DEF new
<1>4. /\ work' \in [Handlers -> Works] /\ work'[h] = new
      /\ \A q \in Handlers : q # h => work'[q] = work[q]
  BY <1>0, <1>1, <1>3, Moves
<1>5. Stage(h)' = (IF found THEN "turn" ELSE "create") BY <1>3, <1>4 DEF Stage
<1>6. threads[m.id].meta # NoMeta => Handled(m.id, threads[m.id].meta)
  BY <1>2 DEF StoreInv, ThreadInv
<1>7. HandlerInv(h)'
  <2>1. OwnerInv(h)' BY <1>5 DEF OwnerInv, Owned
  <2>2. RowInv(h)' BY <1>1, <1>3, <1>4, <1>5, <1>6 DEF RowInv, Handled, Id
  <2> QED BY <1>5, <2>1, <2>2 DEF HandlerInv
<1>8. NumberInv' BY <1>1, <1>3, <1>4, NumbersKept
<1>9. Shape' BY <1>0, <1>1, <1>4 DEF Shape
<1> QED BY <1>1, <1>4, <1>5, <1>7, <1>8, <1>9, WritesNothing DEF Owned

LEMMA RereadSteps ==
    ASSUME StoreInv, NEW h \in Handlers, Reread(h)
    PROVE  StoreInv'
<1>0. Shape BY DEF StoreInv
<1> DEFINE row == threads[Id(h)]
           new == [work[h] EXCEPT !.row = row, !.at = "history"]
<1>1. /\ work[h].at = "reread" /\ UNCHANGED <<threads, turns, events, blobs, traces, lock, day, upsets>>
      /\ work' = [work EXCEPT ![h] = new]
  BY DEF Reread, At, tables, clocks
<1>2. Stage(h) = "reread" /\ work[h] \in Works /\ work[h].msg \in Inbound
  BY <1>0, <1>1, WorkShape DEF Stage, StoreInv, HandlerInv, RowInv
<1>3. row \in Threads BY <1>0, <1>2 DEF Ids, Id, Shape
<1> HIDE DEF row
<1>4. /\ new \in Works /\ new.at = "history" /\ new.row = row /\ new.msg = work[h].msg /\ new.turn = work[h].turn
  BY <1>2, <1>3, "history" \in Places DEF Works, Places, Owned
<1> HIDE DEF new
<1>5. /\ work' \in [Handlers -> Works] /\ work'[h] = new
      /\ \A q \in Handlers : q # h => work'[q] = work[q]
  BY <1>0, <1>1, <1>4, Moves
<1>6. Stage(h)' = "history" BY <1>4, <1>5 DEF Stage
<1>7. HandlerInv(h)'
  <2>1. OwnerInv(h)' BY <1>1, <1>2, <1>4, <1>5, <1>6 DEF StoreInv, HandlerInv, OwnerInv, Owned
  <2>2. Handled(work[h].msg.id, row.meta) BY <1>2 DEF StoreInv, HandlerInv, RowInv, Id, row
  <2>3. RowInv(h)' BY <1>1, <1>2, <1>4, <1>5, <1>6, <2>2 DEF RowInv, Handled, Id
  <2> QED BY <1>6, <2>1, <2>3 DEF HandlerInv
<1>8. NumberInv' BY <1>1, <1>4, <1>5, NumbersKept
<1>9. Shape' BY <1>0, <1>1, <1>5 DEF Shape
<1> QED BY <1>1, <1>2, <1>4, <1>5, <1>6, <1>7, <1>8, <1>9, WritesNothing DEF Owned

\* Events to append, with the stage that comes after them.
LEMMA OnlyAppends ==
    ASSUME StoreInv, NEW h \in Handlers, NEW list \in Seq(Turns), NEW place \in Nexts,
           place \in {"exchange", "tell"}, Stage(h) \in Owned, work[h].at # "insert",
           work' = Append1(h, list, place),
           UNCHANGED <<tables, lock, day>>, upsets' \in 0..MaxUpsets
    PROVE  StoreInv'
<1>0. Shape BY DEF StoreInv
<1> DEFINE turn == work[h].turn
           number == work[h].number
<1>1. Appending(h, list, place, turn, number)
  BY <1>0 DEF Append1, Appending, Shape, Works
<1>2. turn \in Nat /\ number \in Nat BY <1>0, WorkShape
<1> HIDE DEF turn, number
<1>3. /\ work' \in [Handlers -> Works]
      /\ \A q \in Handlers : q # h => work'[q] = work[q]
      /\ work'[h].msg = work[h].msg /\ work'[h].row = work[h].row /\ work'[h].turn = turn
      /\ Stage(h)' = place /\ work'[h].at # "insert"
      /\ work'[h].at = "append" => work'[h].todo # <<>>
  BY <1>0, <1>1, <1>2, Appends
<1>4. HandlerInv(h)'
  BY <1>3 DEF StoreInv, HandlerInv, OwnerInv, RowInv, Owned, tables, turn
<1>5. NumberInv' BY <1>3, NumbersKept DEF tables
<1>6. Shape' BY <1>0, <1>3 DEF Shape, tables
<1> QED BY <1>3, <1>4, <1>5, <1>6, WritesNothing DEF Owned, tables, turn

LEMMA RateLimitedSteps ==
    ASSUME StoreInv, NEW h \in Handlers, RateLimited(h)
    PROVE  StoreInv'
<1>1. /\ work[h].at = "exchange" /\ work' = Append1(h, <<work[h].turn>>, "tell")
      /\ UNCHANGED <<tables, lock, day>> /\ upsets < MaxUpsets /\ upsets' = upsets + 1
  BY DEF RateLimited, At
<1>2. Stage(h) \in Owned BY <1>1 DEF Stage, Owned
<1>3. upsets' \in 0..MaxUpsets BY <1>1, StoreAssumption DEF StoreInv, Shape
<1>4. work[h].turn \in Turns BY <1>2, TurnShape DEF StoreInv, HandlerInv, OwnerInv
<1>5. <<work[h].turn>> \in Seq(Turns) BY <1>4, OneToDo
<1> QED BY <1>1, <1>2, <1>3, <1>5, OnlyAppends DEF Nexts

LEMMA TellOthersSteps ==
    ASSUME StoreInv, NEW h \in Handlers, TellOthers(h)
    PROVE  StoreInv'
<1> DEFINE others == OtherRunning(work[h].turn)
<1>1. PICK list \in InOrder(others) : work' = Append1(h, list, "exchange")
  BY DEF TellOthers
<1>2. work[h].at = "tell" /\ UNCHANGED <<tables, lock, day, upsets>> BY DEF TellOthers, At, clocks
<1>3. others \subseteq DOMAIN turns BY DEF OtherRunning
<1> HIDE DEF others
<1>4. Cardinality(others) \in Nat /\ others \subseteq Turns
  <2>1. Shape BY DEF StoreInv
  <2>2. IsFiniteSet(DOMAIN turns) BY <2>1, TurnShape, FS_Interval
  <2>3. IsFiniteSet(others) BY <1>3, <2>2, FS_Subset
  <2> QED BY <1>3, <2>1, <2>3, TurnShape, FS_CardinalityType
<1>5. list \in [1..Cardinality(others) -> others] BY <1>1 DEF InOrder
<1>6. list \in Seq(Turns) BY <1>4, <1>5, SeqDef
<1>7. Stage(h) \in Owned BY <1>2 DEF Stage, Owned
<1>8. upsets' \in 0..MaxUpsets BY <1>2 DEF StoreInv, Shape
<1> QED BY <1>1, <1>2, <1>6, <1>7, <1>8, OnlyAppends DEF Nexts

LEMMA DbFailureSteps ==
    ASSUME StoreInv, NEW h \in Handlers, DbFailure(h)
    PROVE  StoreInv'
<1>0. Shape BY DEF StoreInv
<1>1. /\ UNCHANGED <<threads, turns, events, blobs, traces, day>>
      /\ lock' = NoHandler /\ upsets < MaxUpsets /\ upsets' = upsets + 1
      /\ work' = [work EXCEPT ![h] = Idle]
  BY DEF DbFailure, tables
<1>2. /\ work' \in [Handlers -> Works] /\ work'[h] = Idle
      /\ \A q \in Handlers : q # h => work'[q] = work[q]
  BY <1>0, <1>1, IdleShape, Moves
<1>3. Idle.at = "idle" BY DEF Idle
<1>4. Stage(h)' = "idle" BY <1>2, <1>3 DEF Stage
<1>5. HandlerInv(h)' BY <1>4 DEF HandlerInv, OwnerInv, RowInv, Owned
<1>6. NumberInv'
  <2>1. \A q \in Handlers : q # h => work[q].at # "insert"
    BY StoreAssumption DEF StoreInv, NumberInv, DbFailure, At, Free
  <2> QED BY <1>1, <1>2, <1>3, <2>1, StoreAssumption DEF StoreInv, NumberInv, EventsNumbered
<1>7. upsets' \in 0..MaxUpsets BY <1>0, <1>1, StoreAssumption DEF Shape
<1>8. Shape' BY <1>0, <1>1, <1>2, <1>7 DEF Shape
<1> QED BY <1>1, <1>2, <1>4, <1>5, <1>6, <1>8, WritesNothing DEF Owned

-----------------------------------------------------------------------------
\* The newest of a set of numbers.
LEMMA Least ==
    ASSUME NEW T \in SUBSET Nat, T # {}
    PROVE  \E n \in T : \A k \in T : n <= k
<1> DEFINE R == {ss \in Nat \X Nat : ss[1] < ss[2]}
<1>1. R = OpToRel(<, Nat) BY DEF OpToRel
<1>2. IsWellFoundedOn(R, Nat) BY <1>1, NatLessThanWellFounded
<1> HIDE DEF R
<1>3. PICK n \in T : \A k \in T : ~(<<k, n>> \in R) BY <1>2, WFMin
<1>4. \A k \in T : ~(k < n) BY <1>3 DEF R
<1> QED BY <1>4

After(P, u) == {v \in P : v > u}

LEMMA Newest ==
    ASSUME NEW n \in Nat, NEW P \in SUBSET (1..n), NEW max \in Nat, NEW H \in SUBSET P,
           \A u \in P : u \in H <=> Cardinality(After(P, u)) < max
    PROVE  /\ Cardinality(H) <= max
           /\ \A u \in P \ H : Cardinality(H) = max /\ \A v \in H : u < v
<1>1. IsFiniteSet(P) /\ \A S \in SUBSET P : IsFiniteSet(S) /\ Cardinality(S) \in Nat
  <2>1. IsFiniteSet(1..n) BY FS_Interval
  <2> QED BY <2>1, FS_Subset, FS_CardinalityType
<1>2. /\ \A u \in P : u \in Nat /\ u <= n
      /\ \A u \in P : After(P, u) \in SUBSET P
  BY DEF After
<1>3. \A u \in P : Cardinality(After(P, u)) \in Nat BY <1>1, <1>2
<1>4. Cardinality(H) <= max
  <2>0. Cardinality({}) = 0 BY FS_EmptySet
  <2>1. CASE H = {} BY <2>0, <2>1
  <2>2. CASE H # {}
    <3>1. PICK m \in H : \A k \in H : m <= k BY <1>2, <2>2, Least
    <3>2. \A k \in H \ {m} : k \in P /\ k > m BY <1>2, <3>1
    <3>3. H \ {m} \in SUBSET After(P, m) BY <3>2 DEF After
    <3>4. Cardinality(H \ {m}) <= Cardinality(After(P, m)) BY <1>1, <1>2, <3>1, <3>3, FS_Subset
    <3>5. Cardinality(H \ {m}) = Cardinality(H) - 1 BY <1>1, <3>1, FS_RemoveElement
    <3>6. Cardinality(H) \in Nat /\ Cardinality(After(P, m)) < max /\ Cardinality(After(P, m)) \in Nat
      BY <1>1, <1>3, <3>1
    <3> QED BY <3>4, <3>5, <3>6
  <2> QED BY <2>1, <2>2
<1>5. ASSUME NEW u \in P \ H, NEW v \in H
      PROVE  u < v
  <2>1. ASSUME v < u PROVE FALSE
    <3>1. \A w \in P : w > u => w > v BY <1>2, <2>1
    <3>2. After(P, u) \in SUBSET After(P, v) BY <3>1 DEF After
    <3>3. IsFiniteSet(After(P, v)) BY <1>1, <1>2
    <3>4. Cardinality(After(P, u)) <= Cardinality(After(P, v)) BY <3>2, <3>3, FS_Subset
    <3>5. Cardinality(After(P, v)) < max /\ ~(Cardinality(After(P, u)) < max) OBVIOUS
    <3>6. Cardinality(After(P, v)) \in Nat /\ Cardinality(After(P, u)) \in Nat BY <1>3
    <3> QED BY <3>4, <3>5, <3>6
  <2>2. u \in Nat /\ v \in Nat /\ u # v BY <1>2
  <2> QED BY <2>1, <2>2
<1>6. ASSUME NEW u \in P \ H
      PROVE  Cardinality(H) = max
  <2> DEFINE T == {n - w : w \in P \ H}
  <2>1. \A w \in P \ H : n - w \in Nat BY <1>2
  <2>2. T \in SUBSET Nat /\ n - u \in T BY <2>1
  <2>3. PICK k \in T : \A j \in T : k <= j BY <2>2, Least
  <2>4. PICK m \in P \ H : k = n - m OBVIOUS
  <2>5. \A w \in P \ H : n - w \in T OBVIOUS
  <2> HIDE DEF T
  <2>6. \A w \in P \ H : w <= m
    <3> TAKE w \in P \ H
    <3>1. n - m <= n - w BY <2>3, <2>4, <2>5
    <3> QED BY <1>2, <3>1
  <2>7. \A w \in P : w > m => w \in H BY <1>2, <2>6
  <2>8. After(P, m) \in SUBSET H BY <2>7 DEF After
  <2>9. Cardinality(After(P, m)) <= Cardinality(H) BY <1>1, <2>8, FS_Subset
  <2>10. ~(Cardinality(After(P, m)) < max) OBVIOUS
  <2>11. Cardinality(After(P, m)) \in Nat /\ Cardinality(H) \in Nat BY <1>1, <1>3
  <2> QED BY <1>4, <2>9, <2>10, <2>11
<1> QED BY <1>4, <1>5, <1>6

-----------------------------------------------------------------------------
\* The steps that write.
LEMMA GoesTo ==
    ASSUME Shape, NEW h \in Handlers, NEW place \in Places \ {"append", "insert"},
           work' = [work EXCEPT ![h].at = place]
    PROVE  /\ work' \in [Handlers -> Works]
           /\ \A q \in Handlers : q # h => work'[q] = work[q]
           /\ work'[h].msg = work[h].msg /\ work'[h].row = work[h].row /\ work'[h].turn = work[h].turn
           /\ Stage(h)' = place /\ work'[h].at \notin {"append", "insert"}
<1> DEFINE new == [work[h] EXCEPT !.at = place]
<1>1. work[h] \in Works BY WorkShape
<1>2. new \in Works /\ new.at = place /\ new.msg = work[h].msg /\ new.row = work[h].row /\ new.turn = work[h].turn
  BY <1>1 DEF Works
<1>3. work' = [work EXCEPT ![h] = new] OBVIOUS
<1> HIDE DEF new
<1>4. /\ work' \in [Handlers -> Works] /\ work'[h] = new
      /\ \A q \in Handlers : q # h => work'[q] = work[q]
  BY <1>2, <1>3, Moves
<1> QED BY <1>2, <1>4 DEF Stage

\* A step of a handler that changes rows.
LEMMA Writes ==
    ASSUME StoreInv, Grows, NEW h \in Handlers, UNCHANGED <<events, lock, day>>,
           Shape', ThreadInv', HistoryInv', HistoryIsRecent', TraceInv', HandlerInv(h)',
           work[h].at # "insert", work'[h].at # "insert",
           work'[h].at = "append" => work'[h].todo # <<>>,
           \A q \in Handlers : q # h => work'[q] = work[q],
           \A q \in Handlers : q # h /\ Stage(q) \in Owned => turns'[work[q].turn].status = "running",
           Stage(h)' \in Owned =>
               \/ Stage(h) \in Owned /\ work'[h].turn = work[h].turn
               \/ work'[h].turn \notin DOMAIN turns
    PROVE  StoreInv'
<1>1. NumberInv' BY NumbersKept
<1>2. (\A q \in Handlers : HandlerInv(q)') /\ OneOwner' BY OneMoves
<1> QED BY <1>1, <1>2 DEF StoreInv

LEMMA CreateThreadSteps ==
    ASSUME StoreInv, NEW h \in Handlers, CreateThread(h)
    PROVE  StoreInv'
<1>0. Shape BY DEF StoreInv
<1> DEFINE id == Id(h)
           channel == work[h].msg.channel
           new == IF threads'[id].channel = channel
                  THEN [work[h] EXCEPT !.row = threads'[id], !.at = "turn"] ELSE Idle
<1>1. /\ work[h].at = "create" /\ UNCHANGED <<turns, events, blobs, traces, lock, day, upsets>>
      /\ threads' = IF threads[id] = NoThread
                    THEN [threads EXCEPT ![id] = [channel |-> channel, meta |-> NoMeta]] ELSE threads
  BY DEF CreateThread, At, clocks
<1>2. work' = [work EXCEPT ![h] = new]
  <2>1. work' = IF threads'[id].channel = channel
                THEN [work EXCEPT ![h].row = threads'[id], ![h].at = "turn"] ELSE [work EXCEPT ![h] = Idle]
    BY DEF CreateThread
  <2> HIDE DEF id, channel
  <2>2. work \in [Handlers -> Works] BY <1>0 DEF Shape
  <2>3. CASE threads'[id].channel = channel
    BY <2>1, <2>2, <2>3
  <2>4. CASE threads'[id].channel # channel
    BY <2>1, <2>4
  <2> QED BY <2>3, <2>4
<1>3. Stage(h) = "create" /\ work[h].msg \in Inbound /\ id \in Ids /\ work[h] \in Works
  BY <1>0, <1>1, WorkShape DEF Stage, StoreInv, HandlerInv, RowInv, Ids, Id
<1>4. /\ threads' \in [Ids -> Threads]
      /\ \A i \in Ids : threads'[i].meta = threads[i].meta
      /\ \A i \in Ids : threads[i].channel # "none" => threads'[i].channel = threads[i].channel
  <2> HIDE DEF id
  <2>1. channel \in Channels /\ NoMeta \in Metas BY <1>3 DEF Channels, Metas
  <2> HIDE DEF channel
  <2>2. [channel |-> channel, meta |-> NoMeta] \in Threads BY <2>1 DEF Threads
  <2> QED BY <1>0, <1>1, <1>3, <2>2 DEF Shape, NoThread, Threads
<1>5. Grows BY <1>1, <1>4 DEF Grows
<1>6. threads'[id].meta # NoMeta => \E t \in DOMAIN turns : turns[t].thread = id /\ turns[t].by.meta = threads'[id].meta
  BY <1>3, <1>4 DEF StoreInv, ThreadInv, Handled
<1>7. new \in Works /\ \/ new = Idle
                       \/ /\ threads'[id].channel = channel
                          /\ new.at = "turn" /\ new.row = threads'[id] /\ new.msg = work[h].msg
  BY <1>3, <1>4, IdleShape, "turn" \in Places DEF Works, Places
<1> HIDE DEF new
<1>8. /\ work' \in [Handlers -> Works] /\ work'[h] = new
      /\ \A q \in Handlers : q # h => work'[q] = work[q]
  BY <1>0, <1>2, <1>7, Moves
<1>9. /\ Stage(h)' \in {"idle", "turn"} /\ work'[h].at \notin {"append", "insert"}
      /\ Stage(h)' = "turn" => /\ work'[h].msg = work[h].msg /\ work'[h].row = threads'[id]
                               /\ threads'[id].channel = channel
  BY <1>7, <1>8 DEF Stage, Idle
<1>10. HandlerInv(h)'
  <2>1. OwnerInv(h)' BY <1>9 DEF OwnerInv, Owned
  <2>2. RowInv(h)' BY <1>1, <1>3, <1>6, <1>9 DEF RowInv, Handled, Id
  <2> QED BY <1>9, <2>1, <2>2 DEF HandlerInv
<1>11. Shape' BY <1>0, <1>1, <1>4, <1>8 DEF Shape
<1>12. ThreadInv' BY <1>1, <1>5, ThreadsKept
<1>13. HistoryInv' /\ HistoryIsRecent' BY <1>1, HistoryKept
<1>14. TraceInv' BY <1>1, TracesUntouched
<1>15. \A q \in Handlers : Stage(q) \in Owned => turns'[work[q].turn].status = "running"
  BY <1>1 DEF StoreInv, HandlerInv, OwnerInv
<1> QED BY <1>1, <1>5, <1>8, <1>9, <1>10, <1>11, <1>12, <1>13, <1>14, <1>15, Writes DEF Owned

LEMMA CreateTurnSteps ==
    ASSUME StoreInv, NEW h \in Handlers, CreateTurn(h)
    PROVE  StoreInv'
<1>0. Shape BY DEF StoreInv
<1> DEFINE t == Len(turns) + 1
           row == [thread |-> Id(h), status |-> "running", by |-> work[h].msg, before |-> SettledIn(Id(h)),
                   rows |-> 0, seen |-> {}, told |-> {}, meta |-> NoMeta]
           number == work[h].number
           list == <<t>>
<1>1. /\ work[h].at = "turn" /\ UNCHANGED <<threads, events, blobs, traces, lock, day, upsets>>
      /\ Len(turns) < MaxTurns /\ turns' = Append(turns, row)
  BY DEF CreateTurn, At, clocks
<1>2. Appending(h, list, "metadata", t, number)
  BY <1>0 DEF CreateTurn, Append1, Appending, Shape, Works
<1>3. Stage(h) = "turn" /\ work[h].msg \in Inbound /\ Id(h) \in Ids /\ number \in Nat
  BY <1>0, <1>1, WorkShape DEF Stage, StoreInv, HandlerInv, RowInv, Ids, Id
<1>4. Len(turns) \in Nat /\ DOMAIN turns = 1..Len(turns) /\ DOMAIN turns \subseteq Nat BY <1>0, TurnShape
<1>5. t \in Turns /\ t \in Nat /\ t \notin DOMAIN turns BY <1>1, <1>4, StoreAssumption DEF Turns
<1>6. list \in Seq(Turns) BY <1>5, OneToDo
<1> HIDE DEF number, list
<1>7. /\ row \in TurnRows /\ row.thread = Id(h) /\ row.status = "running" /\ row.by = work[h].msg
      /\ row.before = SettledIn(Id(h)) /\ row.rows = 0
  <2>1. SettledIn(Id(h)) \in SUBSET Nat BY <1>4 DEF SettledIn
  <2>2. NoMeta \in Metas /\ "running" \in Statuses BY DEF Metas, Statuses
  <2> QED BY <1>3, <2>1, <2>2 DEF TurnRows
<1> HIDE DEF row
<1>8. /\ turns' \in Seq(TurnRows) /\ Len(turns') = t /\ DOMAIN turns' = DOMAIN turns \cup {t}
      /\ turns'[t] = row /\ \A u \in DOMAIN turns : turns'[u] = turns[u]
  BY <1>0, <1>1, <1>4, <1>7 DEF Shape
<1>n. "metadata" \in Nexts BY DEF Nexts
<1>9. /\ work' \in [Handlers -> Works]
      /\ \A q \in Handlers : q # h => work'[q] = work[q]
      /\ work'[h].msg = work[h].msg /\ work'[h].row = work[h].row /\ work'[h].turn = t
      /\ Stage(h)' = "metadata" /\ work'[h].at # "insert"
      /\ work'[h].at = "append" => work'[h].todo # <<>>
  BY <1>0, <1>2, <1>3, <1>5, <1>6, <1>n, Appends
<1> HIDE DEF t
<1>10. Grows BY <1>1, <1>8 DEF Grows
<1>11. HandlerInv(h)'
  <2>1. OwnerInv(h)' BY <1>7, <1>8, <1>9 DEF OwnerInv
  <2>2. work[h].row.meta # NoMeta => Handled(Id(h), threads[Id(h)].meta)
    BY <1>3 DEF StoreInv, HandlerInv, RowInv
  <2>3. work[h].row.meta # NoMeta =>
            \E u \in DOMAIN turns' : turns'[u].thread = Id(h) /\ turns'[u].by.meta = threads'[Id(h)].meta
    BY <1>1, <1>10, <2>2, HandledStays
  <2>4. RowInv(h)' BY <1>3, <1>9, <2>3 DEF RowInv, Handled, Id
  <2> QED BY <1>9, <2>1, <2>4 DEF HandlerInv
<1>12. Shape' BY <1>0, <1>1, <1>5, <1>8, <1>9 DEF Shape, Turns
<1>13. ThreadInv'
  <2>1. threads'[Id(h)].channel = work[h].msg.channel BY <1>1, <1>3 DEF StoreInv, HandlerInv, RowInv
  <2>2. Id(h) = work[h].msg.id BY DEF Id
  <2> QED BY <1>7, <1>8, <1>10, <2>1, <2>2, ThreadsKept
<1>14. HistoryInv' /\ HistoryIsRecent'
  <2>1. \A u \in DOMAIN turns :
            /\ turns[u].before \subseteq {v \in DOMAIN turns : turns[v].status # "running"}
            /\ turns[u].rows \in Nat /\ turns[u].rows <= Len(turns)
    BY <1>0, TurnShape DEF StoreInv, HistoryInv
  <2>2. row.before \subseteq {v \in DOMAIN turns : turns[v].status # "running"}
    BY <1>7 DEF SettledIn
  <2>3. HistoryInv'
    BY <1>4, <1>7, <1>8, <2>1, <2>2 DEF HistoryInv, t
  <2>4. ASSUME NEW w \in DOMAIN turns, turns[w].rows > 0
        PROVE  LET new == turns'[w].seen
                   others == {u \in 1..turns'[w].rows : u # w /\ turns'[u].thread = turns'[w].thread}
               IN  /\ new \subseteq others /\ Cardinality(new) <= MaxHistory
                   /\ \A u \in others \ new : Cardinality(new) = MaxHistory /\ \A v \in new : u < v
                   /\ \A u \in new \cap turns'[w].before :
                         turns'[u].status = "succeeded" => u \in turns'[w].told
    <3>1. 1..turns[w].rows \subseteq DOMAIN turns BY <1>4, <2>1
    <3>2. {u \in 1..turns'[w].rows : u # w /\ turns'[u].thread = turns'[w].thread}
            = {u \in 1..turns[w].rows : u # w /\ turns[u].thread = turns[w].thread}
      BY <1>8, <3>1
    <3>3. \A u \in turns[w].before : turns'[u] = turns[u] BY <1>8, <2>1
    <3>4. turns'[w] = turns[w] BY <1>8
    <3> QED BY <2>4, <3>2, <3>3, <3>4 DEF StoreInv, HistoryIsRecent, Prompted
  <2> QED BY <1>7, <1>8, <2>3, <2>4 DEF HistoryIsRecent, Prompted
<1>15. TraceInv' BY <1>1, TracesUntouched
<1>16. \A q \in Handlers : Stage(q) \in Owned => turns'[work[q].turn].status = "running"
  BY <1>8 DEF StoreInv, HandlerInv, OwnerInv
<1> QED BY <1>1, <1>5, <1>9, <1>10, <1>11, <1>12, <1>13, <1>14, <1>15, <1>16, Writes

LEMMA UpdateMetadataSteps ==
    ASSUME StoreInv, NEW h \in Handlers, UpdateMetadata(h)
    PROVE  StoreInv'
<1>0. Shape BY DEF StoreInv
<1> DEFINE id == Id(h)
           meta == work[h].msg.meta
<1>1. /\ work[h].at = "metadata" /\ UNCHANGED <<turns, events, blobs, traces, lock, day, upsets>>
      /\ work' = [work EXCEPT ![h].at = "reread"]
      /\ \/ work[h].row.meta # meta /\ threads' = [threads EXCEPT ![id].meta = meta]
         \/ work[h].row.meta = meta /\ threads' = threads
  BY DEF UpdateMetadata, At, Goto, clocks
<1>2. /\ Stage(h) = "metadata" /\ Stage(h) \in Owned
      /\ work[h].msg \in Inbound /\ id \in Ids /\ meta \in Metas
  BY <1>1 DEF Stage, Owned, StoreInv, HandlerInv, RowInv, Ids, Id, Metas
<1>3. Handled(id, meta)
  <2>1. work[h].turn \in DOMAIN turns /\ turns[work[h].turn].by = work[h].msg
    BY <1>2 DEF StoreInv, HandlerInv, OwnerInv
  <2>2. turns[work[h].turn].thread = id BY <2>1 DEF StoreInv, ThreadInv, Id
  <2> QED BY <2>1, <2>2 DEF Handled
<1>4. work[h].row.meta # NoMeta => Handled(id, threads[id].meta)
  BY <1>2 DEF StoreInv, HandlerInv, RowInv
<1>5. threads[id].meta = NoMeta \/ Handled(id, threads[id].meta) BY <1>2 DEF StoreInv, ThreadInv
<1> HIDE DEF id, meta
<1>6. /\ threads' \in [Ids -> Threads]
      /\ \A i \in Ids : threads'[i].channel = threads[i].channel
      /\ \A i \in Ids : i # id => threads'[i].meta = threads[i].meta
      /\ threads'[id].meta = meta \/ (threads'[id].meta = threads[id].meta /\ work[h].row.meta = meta)
  BY <1>0, <1>1, <1>2 DEF Shape, Threads
<1>7. Grows BY <1>1, <1>3, <1>6 DEF Grows
<1>8. "reread" \in Places \ {"append", "insert"} BY DEF Places, Owned
<1>9. /\ work' \in [Handlers -> Works]
      /\ \A q \in Handlers : q # h => work'[q] = work[q]
      /\ work'[h].msg = work[h].msg /\ work'[h].row = work[h].row /\ work'[h].turn = work[h].turn
      /\ Stage(h)' = "reread" /\ work'[h].at \notin {"append", "insert"}
  BY <1>0, <1>1, <1>8, GoesTo
<1>10. Handled(id, threads'[id].meta)
  BY <1>3, <1>4, <1>5, <1>6
<1>11. HandlerInv(h)'
  <2>1. OwnerInv(h)' BY <1>1, <1>2, <1>9 DEF StoreInv, HandlerInv, OwnerInv
  <2>2. RowInv(h)' BY <1>1, <1>2, <1>9, <1>10 DEF RowInv, Handled, Id, id
  <2> QED BY <1>9, <2>1, <2>2 DEF HandlerInv
<1>12. Shape' BY <1>0, <1>1, <1>6, <1>9 DEF Shape
<1>13. ThreadInv' BY <1>1, <1>7, ThreadsKept
<1>14. HistoryInv' /\ HistoryIsRecent' BY <1>1, HistoryKept
<1>15. TraceInv' BY <1>1, TracesUntouched
<1>16. \A q \in Handlers : Stage(q) \in Owned => turns'[work[q].turn].status = "running"
  BY <1>1 DEF StoreInv, HandlerInv, OwnerInv
<1> QED BY <1>1, <1>2, <1>7, <1>9, <1>11, <1>12, <1>13, <1>14, <1>15, <1>16, Writes

\* What a prompt is given of the history when it is read.
LEMMA ReadHistorySteps ==
    ASSUME StoreInv, NEW h \in Handlers, ReadHistory(h)
    PROVE  StoreInv'
<1>0. Shape BY DEF StoreInv
<1> DEFINE t == work[h].turn
           seen == HistoryOf(t)
           told == {u \in seen : turns[u].status = "succeeded"}
           meta == work[h].row.meta
           new == [turns[t] EXCEPT !.rows = Len(turns), !.seen = seen, !.meta = meta, !.told = told]
           number == work[h].number
           list == <<t>>
<1>1. /\ work[h].at = "history" /\ UNCHANGED <<threads, events, blobs, traces, lock, day, upsets>>
  BY DEF ReadHistory, At, clocks
<1>2. /\ Stage(h) = "history" /\ Stage(h) \in Owned /\ t \in DOMAIN turns /\ turns[t].by = work[h].msg
      /\ work[h].msg \in Inbound /\ Handled(Id(h), meta) /\ turns[t].status = "running"
  BY <1>1 DEF Stage, Owned, StoreInv, HandlerInv, OwnerInv, RowInv
<1>3. turns[t].thread = Id(h) BY <1>2 DEF StoreInv, ThreadInv, Id
<1>4. /\ Len(turns) \in Nat /\ DOMAIN turns = 1..Len(turns) /\ DOMAIN turns \subseteq Turns
      /\ turns[t] \in TurnRows /\ t \in Nat
  BY <1>0, <1>2, TurnShape
<1>5. meta \in Metas /\ number \in Nat BY <1>0, WorkShape DEF Threads
<1>6. turns' = [turns EXCEPT ![t] = new]
  BY <1>0, <1>2 DEF ReadHistory, Shape
<1>7. Appending(h, list, "exchange", t, number)
  BY <1>0 DEF ReadHistory, Append1, Appending, Shape, Works
<1>8. list \in Seq(Turns) BY <1>2, <1>4, OneToDo
<1>9. seen \in SUBSET Prior(t) /\ Prior(t) \in SUBSET (1..Len(turns)) /\ told \in SUBSET Nat /\ seen \in SUBSET Nat
  BY <1>4 DEF HistoryOf, Prior
<1>10. /\ Cardinality(seen) <= MaxHistory
       /\ \A u \in Prior(t) \ seen : Cardinality(seen) = MaxHistory /\ \A v \in seen : u < v
  <2>1. \A u \in Prior(t) : u \in seen <=> Cardinality(After(Prior(t), u)) < MaxHistory
    BY DEF HistoryOf, After
  <2> DEFINE prior == Prior(t)
             n == Len(turns)
  <2>2. MaxHistory \in Nat /\ n \in Nat /\ prior \in SUBSET (1..n) /\ seen \in SUBSET prior
    BY <1>4, <1>9, StoreAssumption
  <2>3. \A u \in prior : u \in seen <=> Cardinality(After(prior, u)) < MaxHistory BY <2>1
  <2> HIDE DEF seen, prior, n
  <2>4. /\ Cardinality(seen) <= MaxHistory
        /\ \A u \in prior \ seen : Cardinality(seen) = MaxHistory /\ \A v \in seen : u < v
    BY ONLY <2>2, <2>3, Newest
  <2> QED BY <2>4 DEF prior
<1>11. \A u \in seen : turns[u].status = "succeeded" => u \in told OBVIOUS
<1> HIDE DEF seen, told, meta, number, list
<1>12. /\ new \in TurnRows /\ new.rows = Len(turns) /\ new.seen = seen /\ new.told = told /\ new.meta = meta
       /\ new.thread = turns[t].thread /\ new.by = turns[t].by /\ new.status = turns[t].status
       /\ new.before = turns[t].before
  BY <1>4, <1>5, <1>9 DEF TurnRows
<1> HIDE DEF new, t
<1>13. /\ turns' \in Seq(TurnRows) /\ Len(turns') = Len(turns) /\ DOMAIN turns' = DOMAIN turns
       /\ turns'[t] = new /\ \A u \in DOMAIN turns : u # t => turns'[u] = turns[u]
  BY <1>0, <1>2, <1>6, <1>12 DEF Shape
<1>14. \A u \in DOMAIN turns : /\ turns'[u].thread = turns[u].thread /\ turns'[u].by = turns[u].by
                               /\ turns'[u].status = turns[u].status /\ turns'[u].before = turns[u].before
  BY <1>12, <1>13
<1>15. Grows BY <1>1, <1>13, <1>14 DEF Grows
<1>n. "exchange" \in Nexts BY DEF Nexts
<1>16. /\ work' \in [Handlers -> Works]
       /\ \A q \in Handlers : q # h => work'[q] = work[q]
       /\ work'[h].msg = work[h].msg /\ work'[h].row = work[h].row /\ work'[h].turn = t
       /\ Stage(h)' = "exchange" /\ work'[h].at # "insert"
       /\ work'[h].at = "append" => work'[h].todo # <<>>
  BY <1>0, <1>7, <1>4, <1>5, <1>8, <1>n, Appends
<1>17. HandlerInv(h)'
  BY <1>2, <1>13, <1>14, <1>16 DEF HandlerInv, OwnerInv, RowInv
<1>18. Shape' BY <1>0, <1>1, <1>13, <1>16 DEF Shape
<1>19. ThreadInv'
  <2>1. \A u \in DOMAIN turns : \/ turns'[u].rows = turns[u].rows /\ turns'[u].meta = turns[u].meta
                                \/ Handled(turns[u].thread, turns'[u].meta)
    BY <1>2, <1>3, <1>12, <1>13 DEF meta
  <2> QED BY <1>13, <1>15, <2>1, ThreadsKept
<1>20. HistoryInv'
  BY <1>4, <1>12, <1>13, <1>14 DEF StoreInv, HistoryInv
<1>21. ASSUME NEW w \in DOMAIN turns, turns'[w].rows > 0
       PROVE  LET had == turns'[w].seen
                  others == {u \in 1..turns'[w].rows : u # w /\ turns'[u].thread = turns'[w].thread}
              IN  /\ had \subseteq others /\ Cardinality(had) <= MaxHistory
                  /\ \A u \in others \ had : Cardinality(had) = MaxHistory /\ \A v \in had : u < v
                  /\ \A u \in had \cap turns'[w].before :
                        turns'[u].status = "succeeded" => u \in turns'[w].told
  <2>1. turns[w].rows \in Nat /\ turns[w].rows <= Len(turns) BY <1>0, TurnShape DEF StoreInv, HistoryInv
  <2>2. turns[w].before \subseteq DOMAIN turns BY DEF StoreInv, HistoryInv
  <2>3. CASE w = t
    <3>1. {u \in 1..turns'[w].rows : u # w /\ turns'[u].thread = turns'[w].thread} = Prior(t)
      BY <1>4, <1>12, <1>13, <1>14, <2>3 DEF Prior
    <3>2. \A u \in seen : u \in DOMAIN turns BY <1>4, <1>9
    <3>3. \A u \in seen : turns'[u].status = "succeeded" => u \in told BY <1>11, <1>14, <3>2
    <3> QED BY <1>9, <1>10, <1>12, <1>13, <2>3, <3>1, <3>3
  <2>4. CASE w # t
    <3>1. turns'[w] = turns[w] BY <1>13, <2>4
    <3>2. 1..turns[w].rows \subseteq DOMAIN turns BY <1>4, <2>1
    <3>3. {u \in 1..turns'[w].rows : u # w /\ turns'[u].thread = turns'[w].thread}
            = {u \in 1..turns[w].rows : u # w /\ turns[u].thread = turns[w].thread}
      BY <1>14, <3>1, <3>2
    <3>4. \A u \in turns[w].before : turns'[u].status = turns[u].status BY <1>14, <2>2
    <3> QED BY <1>21, <3>1, <3>3, <3>4 DEF StoreInv, HistoryIsRecent, Prompted
  <2> QED BY <2>3, <2>4
<1>22. HistoryIsRecent' BY <1>13, <1>21 DEF HistoryIsRecent, Prompted
<1>23. TraceInv' BY <1>1, TracesUntouched
<1>24. \A q \in Handlers : Stage(q) \in Owned => turns'[work[q].turn].status = "running"
  BY <1>14 DEF StoreInv, HandlerInv, OwnerInv
<1> QED BY <1>1, <1>2, <1>15, <1>16, <1>17, <1>18, <1>19, <1>20, <1>22, <1>23, <1>24, Writes DEF t

LEMMA StoreBlobsSteps ==
    ASSUME StoreInv, NEW h \in Handlers, StoreBlobs(h)
    PROVE  StoreInv'
<1>0. Shape /\ TraceInv BY DEF StoreInv
<1> DEFINE t == work[h].turn
           blob == [day |-> day, pruned |-> 0]
<1>1. /\ work[h].at = "exchange" /\ UNCHANGED <<threads, turns, events, traces, lock, day, upsets>>
      /\ blobs' = [blobs EXCEPT ![t] = blob] /\ work' = [work EXCEPT ![h].at = "tracing"]
  BY DEF StoreBlobs, At, Goto, clocks
<1>2. Stage(h) = "exchange" /\ Stage(h) \in Owned BY <1>1 DEF Stage, Owned
<1>3. t \in DOMAIN turns /\ t \in Turns BY <1>0, <1>2, TurnShape DEF StoreInv, HandlerInv, OwnerInv
<1>4. day \in Nat /\ day \in Int /\ blob \in [day : Int, pruned : {0, 1}] /\ blob.day = day /\ blob.pruned = 0
  BY <1>0, StoreAssumption DEF Shape
<1> HIDE DEF t, blob
<1>5. /\ blobs' \in [Turns -> [day : Int, pruned : {0, 1}]] /\ blobs'[t] = blob
      /\ \A u \in Turns : u # t => blobs'[u] = blobs[u]
  BY <1>0, <1>1, <1>3, <1>4 DEF Shape
<1>6. Grows BY <1>1, <1>4, <1>5 DEF Grows
<1>7. TraceInv' BY <1>0, <1>1, <1>4, <1>5 DEF TraceInv, Shape
<1>8. "tracing" \in Places \ {"append", "insert"} BY DEF Places, Owned
<1>9. /\ work' \in [Handlers -> Works]
      /\ \A q \in Handlers : q # h => work'[q] = work[q]
      /\ work'[h].msg = work[h].msg /\ work'[h].row = work[h].row /\ work'[h].turn = work[h].turn
      /\ Stage(h)' = "tracing" /\ work'[h].at \notin {"append", "insert"}
  BY <1>0, <1>1, <1>8, GoesTo
<1>10. HandlerInv(h)'
  <2>1. OwnerInv(h)' BY <1>1, <1>2, <1>9 DEF StoreInv, HandlerInv, OwnerInv
  <2>2. RowInv(h)' BY <1>2, <1>9 DEF RowInv, StoreInv, HandlerInv
  <2> QED BY <1>4, <1>5, <1>9, <2>1, <2>2 DEF HandlerInv, t
<1>11. Shape' BY <1>0, <1>1, <1>5, <1>9 DEF Shape
<1>12. ThreadInv' BY <1>1, <1>6, ThreadsKept
<1>13. HistoryInv' /\ HistoryIsRecent' BY <1>1, HistoryKept
<1>14. \A q \in Handlers : Stage(q) \in Owned => turns'[work[q].turn].status = "running"
  BY <1>1 DEF StoreInv, HandlerInv, OwnerInv
<1> QED BY <1>1, <1>2, <1>6, <1>7, <1>9, <1>10, <1>11, <1>12, <1>13, <1>14, Writes

LEMMA RecordTraceSteps ==
    ASSUME StoreInv, NEW h \in Handlers, RecordTrace(h)
    PROVE  StoreInv'
<1>0. Shape /\ TraceInv BY DEF StoreInv
<1> DEFINE t == work[h].turn
<1>1. /\ work[h].at = "tracing" /\ UNCHANGED <<threads, turns, events, blobs, lock, day, upsets>>
      /\ traces' = traces \cup {t} /\ work' = [work EXCEPT ![h].at = "settle"]
  BY DEF RecordTrace, At, Goto, clocks
<1>2. Stage(h) = "tracing" /\ Stage(h) \in Owned BY <1>1 DEF Stage, Owned
<1>3. t \in DOMAIN turns /\ t \in Turns /\ blobs[t].day >= 0
  BY <1>0, <1>2, TurnShape DEF StoreInv, HandlerInv, OwnerInv
<1>4. Grows BY <1>1, SameGrows
<1>5. TraceInv' BY <1>0, <1>1, <1>3 DEF TraceInv
<1>6. "settle" \in Places \ {"append", "insert"} BY DEF Places, Owned
<1>7. /\ work' \in [Handlers -> Works]
      /\ \A q \in Handlers : q # h => work'[q] = work[q]
      /\ work'[h].msg = work[h].msg /\ work'[h].row = work[h].row /\ work'[h].turn = work[h].turn
      /\ Stage(h)' = "settle" /\ work'[h].at \notin {"append", "insert"}
  BY <1>0, <1>1, <1>6, GoesTo
<1>8. HandlerInv(h)'
  <2>1. OwnerInv(h)' BY <1>1, <1>2, <1>7 DEF StoreInv, HandlerInv, OwnerInv
  <2>2. RowInv(h)' BY <1>2, <1>7 DEF RowInv, StoreInv, HandlerInv
  <2> QED BY <1>7, <2>1, <2>2 DEF HandlerInv
<1>9. Shape' BY <1>0, <1>1, <1>3, <1>7 DEF Shape
<1>10. ThreadInv' BY <1>1, <1>4, ThreadsKept
<1>11. HistoryInv' /\ HistoryIsRecent' BY <1>1, HistoryKept
<1>12. \A q \in Handlers : Stage(q) \in Owned => turns'[work[q].turn].status = "running"
  BY <1>1 DEF StoreInv, HandlerInv, OwnerInv
<1> QED BY <1>1, <1>2, <1>4, <1>5, <1>7, <1>8, <1>9, <1>10, <1>11, <1>12, Writes

LEMMA SettleSteps ==
    ASSUME StoreInv, NEW h \in Handlers, Settle(h)
    PROVE  StoreInv'
<1>0. Shape BY DEF StoreInv
<1> DEFINE t == work[h].turn
           number == work[h].number
           list == <<t>>
<1>1. work[h].at = "settle" /\ UNCHANGED <<threads, events, blobs, traces, lock, day, upsets>>
  BY DEF Settle, At, clocks
<1>2. PICK status \in {"succeeded", "failed"} : turns' = [turns EXCEPT ![t].status = status]
  BY DEF Settle
<1>3. Stage(h) = "settle" /\ Stage(h) \in Owned BY <1>1 DEF Stage, Owned
<1>4. /\ t \in DOMAIN turns /\ turns[t].status = "running" /\ t \in Nat /\ turns[t] \in TurnRows
      /\ DOMAIN turns \subseteq Turns /\ number \in Nat
  BY <1>0, <1>3, TurnShape, WorkShape DEF StoreInv, HandlerInv, OwnerInv
<1>5. Appending(h, list, "idle", t, number)
  BY <1>0 DEF Settle, Append1, Appending, Shape, Works
<1>6. list \in Seq(Turns) /\ list # <<>> BY <1>4, OneToDo
<1> DEFINE new == [turns[t] EXCEPT !.status = status]
<1>7. turns' = [turns EXCEPT ![t] = new] BY <1>2
<1>8. /\ new \in TurnRows /\ new.status = status /\ new.rows = turns[t].rows /\ new.seen = turns[t].seen
      /\ new.told = turns[t].told /\ new.meta = turns[t].meta /\ new.before = turns[t].before
      /\ new.thread = turns[t].thread /\ new.by = turns[t].by
  BY <1>4 DEF TurnRows, Statuses
<1> HIDE DEF new, t, number, list
<1>9. /\ turns' \in Seq(TurnRows) /\ Len(turns') = Len(turns) /\ DOMAIN turns' = DOMAIN turns
      /\ turns'[t] = new /\ \A u \in DOMAIN turns : u # t => turns'[u] = turns[u]
  BY <1>0, <1>4, <1>7, <1>8 DEF Shape
<1>10. \A u \in DOMAIN turns :
          /\ turns'[u].thread = turns[u].thread /\ turns'[u].by = turns[u].by
          /\ turns'[u].before = turns[u].before /\ turns'[u].rows = turns[u].rows
          /\ turns'[u].seen = turns[u].seen /\ turns'[u].told = turns[u].told /\ turns'[u].meta = turns[u].meta
          /\ \/ turns'[u].status = turns[u].status
             \/ turns[u].status = "running" /\ turns'[u].status # "running"
  BY <1>4, <1>8, <1>9
<1>11. Grows BY <1>1, <1>9, <1>10 DEF Grows
<1>n. "idle" \in Nexts BY DEF Nexts
<1>12. /\ work' \in [Handlers -> Works]
       /\ \A q \in Handlers : q # h => work'[q] = work[q]
       /\ Stage(h)' = "idle" /\ work'[h].at # "insert"
       /\ work'[h].at = "append" => work'[h].todo # <<>>
  BY <1>0, <1>4, <1>5, <1>6, <1>n, Appends
<1>13. HandlerInv(h)' BY <1>12 DEF HandlerInv, OwnerInv, RowInv, Owned
<1>14. Shape' BY <1>0, <1>1, <1>9, <1>12 DEF Shape
<1>15. ThreadInv' BY <1>9, <1>10, <1>11, ThreadsKept
<1>16. HistoryInv' /\ HistoryIsRecent' BY <1>9, <1>10, HistoryKept
<1>17. TraceInv' BY <1>1, TracesUntouched
<1>18. ASSUME NEW q \in Handlers, q # h, Stage(q) \in Owned
       PROVE  turns'[work[q].turn].status = "running"
  <2>1. work[q].turn \in DOMAIN turns /\ turns[work[q].turn].status = "running"
    BY <1>18 DEF StoreInv, HandlerInv, OwnerInv
  <2>2. work[q].turn # t BY <1>3, <1>18 DEF StoreInv, OneOwner, t
  <2> QED BY <1>9, <2>1, <2>2
<1> QED BY <1>1, <1>11, <1>12, <1>13, <1>14, <1>15, <1>16, <1>17, <1>18, Writes DEF Owned

-----------------------------------------------------------------------------
\* The days, and what they prune: nobody moves.
LEMMA NobodyMoves ==
    ASSUME StoreInv, Shape', TraceInv', UNCHANGED <<threads, turns, events, lock, work>>,
           \A t \in Turns : blobs[t].day >= 0 => blobs'[t].day >= 0
    PROVE  StoreInv'
<1>1. Grows BY DEF Grows
<1>2. \A q \in Handlers : Stage(q) \in Owned => turns'[work[q].turn].status = "running"
  BY DEF StoreInv, HandlerInv, OwnerInv
<1>3. \A q \in Handlers : HandlerInv(q)' BY <1>1, <1>2, Waits
<1>4. OneOwner' BY DEF StoreInv, OneOwner, Stage
<1>5. NumberInv' BY DEF StoreInv, NumberInv, EventsNumbered
<1>6. ThreadInv' /\ HistoryInv' /\ HistoryIsRecent'
  BY DEF StoreInv, ThreadInv, Handled, Prompted, HistoryInv, HistoryIsRecent
<1> QED BY <1>3, <1>4, <1>5, <1>6 DEF StoreInv

LEMMA TomorrowSteps == StoreInv /\ Tomorrow => StoreInv'
<1> SUFFICES ASSUME StoreInv, Tomorrow PROVE StoreInv' OBVIOUS
<1>1. day < MaxTime /\ day' = day + 1 /\ UNCHANGED <<threads, turns, events, blobs, traces, lock, work, upsets>>
  BY DEF Tomorrow, tables
<1>2. day \in 0..MaxTime /\ MaxTime \in Nat /\ Retention \in Nat BY StoreAssumption DEF StoreInv, Shape
<1>3. Shape' BY <1>1, <1>2 DEF StoreInv, Shape
<1>4. ASSUME NEW t \in Turns
      PROVE  /\ blobs'[t].day \in -1..day'
             /\ blobs'[t].pruned > 0 => Retention > 0 /\ blobs'[t].day >= 0 /\ blobs'[t].day + Retention < day'
  <2>1. /\ blobs[t].day \in -1..day
        /\ blobs[t].pruned > 0 => Retention > 0 /\ blobs[t].day >= 0 /\ blobs[t].day + Retention < day
    BY DEF StoreInv, TraceInv
  <2> QED BY <1>1, <1>2, <2>1
<1>5. TraceInv' BY <1>1, <1>4 DEF StoreInv, TraceInv
<1> QED BY <1>1, <1>3, <1>5, NobodyMoves

LEMMA PruneSteps == StoreInv /\ PruneBlobs => StoreInv'
<1> SUFFICES ASSUME StoreInv, PruneBlobs PROVE StoreInv' OBVIOUS
<1>0. Shape BY DEF StoreInv
<1>1. PICK done \in SUBSET OldBlobs :
          /\ blobs' = [t \in Turns |-> [blobs[t] EXCEPT !.pruned = IF t \in done THEN @ + 1 ELSE @]]
          /\ upsets' = upsets \/ (upsets < MaxUpsets /\ upsets' = upsets + 1)
  BY DEF PruneBlobs
<1>2. Retention > 0 /\ UNCHANGED <<threads, turns, events, traces, lock, work, day>> BY DEF PruneBlobs
<1>3. upsets' \in 0..MaxUpsets BY <1>0, <1>1, StoreAssumption DEF Shape
<1>4. ASSUME NEW t \in Turns
      PROVE  /\ blobs'[t] \in [day : Int, pruned : {0, 1}] /\ blobs'[t].day = blobs[t].day
             /\ blobs'[t].pruned > 0 => Retention > 0 /\ blobs[t].day >= 0 /\ blobs[t].day + Retention < day
  <2>1. /\ blobs[t] \in [day : Int, pruned : {0, 1}] /\ blobs[t].day \in -1..day
        /\ blobs[t].pruned > 0 => Retention > 0 /\ blobs[t].day >= 0 /\ blobs[t].day + Retention < day
    BY <1>0 DEF Shape, StoreInv, TraceInv
  <2>2. CASE t \notin done
    <3>1. blobs'[t] = blobs[t] BY <1>1, <2>1, <2>2
    <3> QED BY <2>1, <3>1
  <2>3. CASE t \in done
    <3>1. blobs[t] # NoBlob /\ blobs[t].day + Retention < day /\ blobs[t].pruned = 0
      BY <2>3 DEF OldBlobs, Stored
    <3>2. blobs[t].day # -1
      <4>1. blobs[t] = [day |-> blobs[t].day, pruned |-> blobs[t].pruned] BY <2>1
      <4> QED BY <3>1, <4>1 DEF NoBlob
    <3>3. blobs'[t] = [blobs[t] EXCEPT !.pruned = 1] BY <1>1, <2>3, <3>1
    <3>4. blobs'[t] \in [day : Int, pruned : {0, 1}] /\ blobs'[t].day = blobs[t].day BY <2>1, <3>3
    <3>5. day \in Int /\ blobs[t].day >= 0 BY <1>0, <2>1, <3>2, StoreAssumption DEF Shape
    <3> QED BY <1>2, <3>1, <3>4, <3>5
  <2> QED BY <2>2, <2>3
<1>5. blobs' \in [Turns -> [day : Int, pruned : {0, 1}]] BY <1>1, <1>4
<1>6. Shape' BY <1>0, <1>2, <1>3, <1>5 DEF Shape
<1>7. TraceInv' BY <1>0, <1>2, <1>4 DEF StoreInv, TraceInv, Shape
<1> QED BY <1>2, <1>4, <1>6, <1>7, NobodyMoves

-----------------------------------------------------------------------------
LEMMA StoreInit == StInit => StoreInv
<1> SUFFICES ASSUME StInit PROVE StoreInv OBVIOUS
<1>1. turns \in Seq(TurnRows) /\ Len(turns) = 0 /\ DOMAIN turns = {} BY DEF StInit
<1>2. events \in [Turns -> Seq(Nat)] /\ EventsNumbered
  <2>1. <<>> \in Seq(Nat) /\ DOMAIN <<>> = {} OBVIOUS
  <2> QED BY <2>1 DEF StInit, EventsNumbered
<1>3. NoThread \in Threads /\ NoBlob \in [day : Int, pruned : {0, 1}] /\ NoBlob.day = -1 /\ NoBlob.pruned = 0
      /\ NoThread.meta = NoMeta
  BY DEF NoThread, Threads, Channels, Metas, NoBlob
<1>4. \A h \in Handlers : work[h] = Idle /\ work[h].at = "idle" /\ Stage(h) = "idle" BY DEF StInit, Idle, Stage
<1>5. Shape BY <1>1, <1>2, <1>3, IdleShape, StoreAssumption DEF StInit, Shape
<1>6. NumberInv BY <1>2, <1>4, StoreAssumption DEF StInit, NumberInv
<1>7. TraceInv BY <1>3, StoreAssumption DEF StInit, TraceInv
<1>8. OneOwner /\ \A h \in Handlers : HandlerInv(h)
  BY <1>4 DEF OneOwner, HandlerInv, OwnerInv, RowInv, Owned
<1>9. ThreadInv BY <1>1, <1>3 DEF StInit, ThreadInv
<1>10. HistoryInv /\ HistoryIsRecent BY <1>1 DEF HistoryInv, HistoryIsRecent
<1> QED BY <1>5, <1>6, <1>7, <1>8, <1>9, <1>10 DEF StoreInv

LEMMA StoreStep == StoreInv /\ [StNext]_stVars => StoreInv'
<1> SUFFICES ASSUME StoreInv, [StNext]_stVars PROVE StoreInv' OBVIOUS
<1>1. CASE UNCHANGED stVars
  <2>1. UNCHANGED <<threads, turns, events, blobs, traces, lock, work, day, upsets>> BY <1>1 DEF stVars
  <2>2. Shape' /\ TraceInv' BY <2>1 DEF StoreInv, Shape, TraceInv
  <2> QED BY <2>1, <2>2, NobodyMoves
<1>2. ASSUME NEW h \in Handlers, Handle(h) PROVE StoreInv'
  BY <1>2, FindThreadSteps, CreateThreadSteps, CreateTurnSteps, UpdateMetadataSteps, RereadSteps,
     ReadHistorySteps, RateLimitedSteps, TellOthersSteps, StoreBlobsSteps, RecordTraceSteps, SettleSteps,
     ReadNumberSteps, InsertEventSteps
  DEF Handle
<1> QED BY <1>1, <1>2, DbFailureSteps, TomorrowSteps, PruneSteps DEF StNext

-----------------------------------------------------------------------------
\* Types; the lock is with the handler between the two statements of an event.
THEOREM TypeCorrect == StSpec => []StTypeOK
<1>1. ASSUME StoreInv PROVE StTypeOK
  <2>0. Shape BY <1>1 DEF StoreInv
  <2>1. \A id \in Ids : threads[id].channel \in {m.channel : m \in Inbound} \cup {"none"}
    BY <2>0 DEF Shape, Threads, Channels
  <2>2. Len(turns) <= MaxTurns /\ \A t \in DOMAIN turns : turns[t].status \in Statuses
    BY <2>0, TurnShape DEF Shape
  <2>3. \A t \in Turns : blobs[t].day \in -1..day /\ traces \subseteq Turns
    BY <2>0, <1>1 DEF Shape, StoreInv, TraceInv
  <2>4. \A h \in Handlers : At(h, "insert") = (lock = h) BY <1>1 DEF StoreInv, NumberInv, At
  <2> QED BY <2>0, <2>1, <2>2, <2>3, <2>4 DEF Shape, StTypeOK, Statuses
<1> QED BY <1>1, StoreInit, StoreStep, PTL DEF StSpec

\* However many handlers append to a turn, its events are numbered without
\* gaps and in the order they were stored.
THEOREM EventsInOrder == StSpec => []EventsNumbered
<1>1. StoreInv => EventsNumbered BY DEF StoreInv, NumberInv
<1> QED BY <1>1, StoreInit, StoreStep, PTL DEF StSpec

\* Whatever handlers race on a thread, a turn is filed under a thread of its
\* channel, the channel context of its prompt is that of a message handled in
\* the thread, and its history is the newest of the thread, without gaps.
THEOREM PromptsHoldTogether == StSpec => []PromptsOfThread
<1>1. ASSUME StoreInv PROVE PromptsOfThread
  <2>1. FiledUnderItsChannel BY <1>1 DEF StoreInv, ThreadInv, FiledUnderItsChannel
  <2>2. ASSUME NEW t \in DOMAIN turns, Prompted(t)
        PROVE  \/ turns[t].meta = turns[t].by.meta
               \/ \E u \in DOMAIN turns : /\ u # t /\ turns[u].thread = turns[t].thread
                                          /\ turns[u].by.meta = turns[t].meta
    <3>1. PICK u \in DOMAIN turns : turns[u].thread = turns[t].thread /\ turns[u].by.meta = turns[t].meta
      BY <1>1, <2>2 DEF StoreInv, ThreadInv, Handled
    <3> QED BY <3>1
  <2> QED BY <1>1, <2>1, <2>2 DEF PromptsOfThread, ContextOfThread, StoreInv
<1> QED BY <1>1, StoreInit, StoreStep, PTL DEF StSpec

\* Traces stay readable until the retention has passed, and a placeholder is
\* never replaced, whichever writes fail.
THEOREM TracesStay == StSpec => []TracesKept
<1>1. ASSUME StoreInv PROVE TracesKept
  <2>1. \A t \in traces : t \in Turns /\ blobs[t].day >= 0
    BY <1>1 DEF StoreInv, Shape, TraceInv
  <2>2. TracesReadable
    <3>1. NoBlob.day = -1 BY DEF NoBlob
    <3> QED BY <1>1, <2>1, <3>1 DEF StoreInv, TraceInv, TracesReadable
  <2>3. PrunedOnce BY <1>1 DEF StoreInv, Shape, PrunedOnce
  <2> QED BY <2>2, <2>3 DEF TracesKept
<1> QED BY <1>1, StoreInit, StoreStep, PTL DEF StSpec
=============================================================================
