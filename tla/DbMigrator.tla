----------------------------- MODULE DbMigrator -----------------------------
(***************************************************************************)
(* The one-shot migrator of the previous program's database                *)
(* (tools/db_migrator/src/main.rs).                                        *)
(*                                                                         *)
(*   - It fills a temporary file in one transaction, validates it, moves   *)
(*     the file at the target path away, and moves the new one in.         *)
(*   - What was at the target path is a database that BetterClaw keeps in  *)
(*     WAL mode (src/db/mod.rs): killed, it leaves a log beside the file,  *)
(*     which the migrator does not move.                                   *)
(*   - It reads the source in several statements, each with a snapshot of  *)
(*     its own; nothing keeps the previous program from writing meanwhile. *)
(*   - File names carry the time to the second.                            *)
(*                                                                         *)
(* Rows have what decides where they go: ids, kinds, and of texts whether  *)
(* they are there.  Timestamps are the order of the sequences.             *)
(***************************************************************************)
EXTENDS Lists, FiniteSets, SequencesExt

CONSTANTS
    Sources,     \* the databases to migrate
    Later,       \* what the previous program may write meanwhile
    MaxSeconds, MaxCrashes, MaxWrites   \* bounds

Seconds == 0..MaxSeconds
None == "none"                  \* NULL, or a key that is not there

-----------------------------------------------------------------------------
(* The rows of the old tables.  The columns "message" and "thread" of an     *)
(* event are in its payload, "domain" is in the user of a conversation, and  *)
(* "seqs" are the sequence numbers that a text shows.                        *)

Ids == STRING \ {None}
Numbers == {S \in SUBSET Nat : IsFiniteSet(S)}
Conversations == [id : Ids, thread : STRING, channel : STRING, domain : Nat]
Events == [id : Ids, kind : STRING, thread : STRING, message : STRING, text : STRING, seqs : Numbers]
MessageRows == [id : Ids, conversation : STRING, role : STRING, seqs : Numbers]
Broadcasts == [domain : Nat, seq : Nat]
Databases ==
    [conversations : Seq(Conversations), ledger : Seq(Events), messages : Seq(MessageRows),
     documents : SUBSET [id : STRING, path : STRING],
     chunks : SUBSET [document : STRING, index : Nat], broadcast : SUBSET Broadcasts]

IsKey(rows) == \A i, j \in DOMAIN rows : rows[i].id = rows[j].id => i = j

IsDomain(c) == c.domain > 0
Key(c) ==
    IF IsDomain(c) THEN <<"tidepool", <<"domain", c.domain>>>>
    ELSE <<c.channel, IF c.thread # None THEN <<c.thread>> ELSE <<c.id>>>>

Names(c) == {c.id, c.thread} \ {None}

EventsEver == (UNION {ToSet(s.ledger) : s \in Sources}) \cup {w.event : w \in Later}
MessagesEver == (UNION {ToSet(s.messages) : s \in Sources}) \cup {w.message : w \in Later}

\* The old tables have primary keys.  A conversation's id is no name of another
\* thread, a name is not that of two domains, and ids of events, which are random,
\* are none of messages.
ASSUME MigratorAssumption ==
    /\ {MaxSeconds, MaxCrashes, MaxWrites} \subseteq Nat
    /\ \A s \in Sources :
          /\ s \in Databases /\ IsFiniteSet(s.broadcast)
          /\ IsKey(s.conversations) /\ IsKey(s.ledger) /\ IsKey(s.messages)
          /\ \A c, d \in ToSet(s.conversations) :
                /\ c.id \in Names(d) => Key(c) = Key(d)
                /\ IsDomain(c) /\ IsDomain(d) /\ Names(c) \cap Names(d) # {} => c.domain = d.domain
    /\ \A w \in Later : w.event \in Events /\ w.message \in MessageRows
    /\ \A e, f \in EventsEver : f.message # e.id
    /\ \A e \in EventsEver, m \in MessagesEver : e.id # m.id

VARIABLES
    source,     \* conversations, ledger, messages, documents, chunks, broadcast
    loaded,     \* what the migrator has read of it
    doing,      \* what the migrator is doing
    stamp,      \* the second in the name of its temporary file
    temps, backups, target,     \* the files, by their second
    log,        \* beside the target path: "none", of the file there ("own"), or "foreign"
    second, crashes, writes,
    replaced    \* history: a backup had the name of an earlier one

files == <<temps, backups, target, log>>
mgVars == <<source, loaded, doing, stamp, files, second, crashes, writes, replaced>>

Unread == [conversations |-> <<>>, ledger |-> <<>>, bare |-> {}, messages |-> <<>>,
           documents |-> {}, chunks |-> {}, broadcast |-> {}]

\* A file is missing, the original, an empty schema, filled from what was read, or
\* mixed with the log of another; "left" is the log that it was moved away from.
File(state, l) == [state |-> state, from |-> l, left |-> "none"]
Leaving(f, l) == [f EXCEPT !.left = l]
NoFile == File("missing", Unread)
Original == File("original", Unread)
Schema == File("schema", Unread)
Filled(l) == File("filled", l)
Mixed == File("mixed", Unread)

-----------------------------------------------------------------------------
(* Threads: the conversations of a channel with the same external id are    *)
(* one, under the id of the first.                                          *)

Canonical(l, c) ==
    l.conversations[Min({i \in DOMAIN l.conversations : Key(l.conversations[i]) = Key(c)})].id

\* The conversation a name stands for: a later one replaces an earlier.
Named(l, name) == {i \in DOMAIN l.conversations : name \in Names(l.conversations[i])}
Planned(l, name) == Named(l, name) # {}
ThreadOf(l, name) == Canonical(l, l.conversations[Max(Named(l, name))])

-----------------------------------------------------------------------------
(* Turns: a fold over the ledger of a thread, or over the messages of a     *)
(* conversation that has none.                                              *)

LedgerKinds == {"user_turn", "agent_turn", "tool_call", "tool_result", "tool_error"}

TurnId(e) == <<IF e.message # None THEN e.message ELSE e.id>>
NoTurn == [id |-> <<>>, thread |-> None, answer |-> None, outbound |-> FALSE,
           error |-> FALSE, synthetic |-> FALSE, status |-> "running", events |-> <<>>]

Synthetic(thread, e) == [NoTurn EXCEPT !.id = <<e.id, "synthetic-turn">>,
                                       !.thread = thread, !.synthetic = TRUE]

Finalize(turn) ==
    [turn EXCEPT !.status = IF turn.error /\ ~(turn.synthetic /\ turn.answer # None)
                            THEN "failed" ELSE "succeeded"]

Closed(acc) == IF acc.current = NoTurn THEN acc.turns
               ELSE Append(acc.turns, Finalize(acc.current))

Take(thread, acc, e) ==
    LET open == IF acc.current = NoTurn THEN Synthetic(thread, e) ELSE acc.current IN
    IF e.kind = "user_turn"
    THEN [turns |-> Closed(acc),
          current |-> [NoTurn EXCEPT !.id = TurnId(e), !.thread = thread]]
    ELSE [acc EXCEPT !.current =
             CASE e.kind = "agent_turn" -> [open EXCEPT !.answer = e.text, !.outbound = TRUE]
               [] e.kind = "tool_error" -> [open EXCEPT !.error = TRUE, !.events = Append(@, e.id)]
               [] OTHER -> [open EXCEPT !.events = Append(@, e.id)]]

TurnsOf(thread, list) ==
    LET after[i \in 0..Len(list)] ==
            IF i = 0 THEN [turns |-> <<>>, current |-> NoTurn]
            ELSE Take(thread, after[i - 1], list[i])
    IN  Closed(after[Len(list)])

\* The ledger events of a name, in order.
LedgerOf(l, name) ==
    Picked(l.ledger, {i \in DOMAIN l.ledger :
                         l.ledger[i].kind \in LedgerKinds /\ l.ledger[i].thread = name})

\* Roles of conversation_messages as kinds; what was called is kept as a result.
KindOf(role) == CASE role = "user" -> "user_turn" [] role = "assistant" -> "agent_turn"
                  [] role = "tool_calls" -> "tool_result" [] OTHER -> None

AsEvents(messages) ==
    [i \in DOMAIN messages |-> [id |-> messages[i].id, kind |-> KindOf(messages[i].role),
                                thread |-> messages[i].conversation, message |-> None,
                                text |-> "said", seqs |-> messages[i].seqs]]

MessagesOf(l, id) ==
    LET events == AsEvents(l.messages)
    IN  Picked(events, {i \in DOMAIN events : events[i].kind # None /\ events[i].thread = id})

LedgerNames(l) == {n \in {e.thread : e \in ToSet(l.ledger)} \ {None} : Planned(l, n)}

\* Who is planned from what: the names of the ledger, and bare conversations.
Groups(l) ==
    {<<ThreadOf(l, n), LedgerOf(l, n)>> : n \in LedgerNames(l)} \cup
    {<<ThreadOf(l, c), MessagesOf(l, c)>> : c \in l.bare}

\* The rows of the turns, each with its group and its number there.
TurnRows(l) ==
    UNION {{<<g, i, TurnsOf(g[1], g[2])[i]>> : i \in DOMAIN TurnsOf(g[1], g[2])} : g \in Groups(l)}
PlannedTurns(l) == {r[3] : r \in TurnRows(l)}

-----------------------------------------------------------------------------
(* Cursors of Tidepool's domains: the highest sequence number that a user's  *)
(* turn shows, or that the channel's settings have.                          *)

\* Only conversations of domains are looked at here.
DomainOf(l, name) ==
    LET found == {i \in Named(l, name) : IsDomain(l.conversations[i])}
    IN  IF found = {} THEN 0 ELSE l.conversations[Max(found)].domain

Shown(l, d) ==
    (UNION {e.seqs : e \in {f \in ToSet(l.ledger) :
                               f.kind = "user_turn" /\ DomainOf(l, f.thread) = d}}) \cup
    (UNION {m.seqs : m \in {f \in ToSet(l.messages) : f.role = "user" /\
               \E c \in ToSet(l.conversations) : c.id = f.conversation /\ c.domain = d}}) \cup
    {b.seq : b \in {x \in l.broadcast : x.domain = d}}

\* 0: no row.
Cursor(l, d) == Max(Shown(l, d) \cup {0})

-----------------------------------------------------------------------------
(* Recall chunks of documents; a document's path is unique in the target.   *)

PathOf(l, chunk) == (CHOOSE d \in l.documents : d.id = chunk.document).path
WithDocument(l) == {c \in l.chunks : \E d \in l.documents : d.id = c.document}

\* A primary key or a UNIQUE is hit twice.
Conflict(l) ==
    \/ \E q, r \in TurnRows(l) : q # r /\ q[3].id = r[3].id
    \/ \E c, d \in WithDocument(l) :
          c # d /\ PathOf(l, c) = PathOf(l, d) /\ c.index = d.index

\* validate_migration; the chunks without a document have been counted, and the
\* user turns are those of the source as it is now.
Valid(l) ==
    /\ l.chunks = WithDocument(l)
    /\ Cardinality(TurnRows(l)) >=
          Cardinality({i \in DOMAIN source.ledger : source.ledger[i].kind = "user_turn"})

-----------------------------------------------------------------------------
(* migrate_database, from the temporary file to the new one in its place.   *)

MgInit ==
    /\ source \in Sources
    /\ loaded = Unread /\ doing = "idle" /\ stamp = 0
    /\ temps = [s \in Seconds |-> NoFile] /\ backups = temps
    /\ target = Original /\ log = "none"
    /\ second = 0 /\ crashes = 0 /\ writes = 0 /\ replaced = FALSE

\* A file of this second is removed first.
Create ==
    /\ doing = "idle"
    /\ stamp' = second
    /\ temps' = [temps EXCEPT ![second] = Schema]
    /\ loaded' = Unread
    /\ doing' = "conversations"
    /\ UNCHANGED <<source, backups, target, log, second, crashes, writes, replaced>>

Read(from, to, l) ==
    /\ doing = from /\ doing' = to /\ loaded' = l
    /\ UNCHANGED <<source, stamp, files, second, crashes, writes, replaced>>

LoadConversations ==
    Read("conversations", "ledger",
         [loaded EXCEPT !.conversations = source.conversations, !.documents = source.documents,
                        !.chunks = source.chunks, !.broadcast = source.broadcast])

LoadLedger == Read("ledger", "bare", [loaded EXCEPT !.ledger = source.ledger])

MutFindBare ==                               \* whatever name the ledger has for it
    Read("bare", "messages",
         [loaded EXCEPT !.bare = {c.id : c \in {x \in ToSet(loaded.conversations) :
             ~\E e \in ToSet(source.ledger) : e.kind \in LedgerKinds /\ e.thread \in Names(x)}}])

\* conversations_without_ledger: no event at all has the conversation's id.
FindBare ==
    Read("bare", "messages",
         [loaded EXCEPT !.bare = {c.id : c \in {x \in ToSet(loaded.conversations) :
             ~\E e \in ToSet(source.ledger) : e.thread = x.id}}])

LoadMessages ==
    Read("messages", "fill",
         [loaded EXCEPT !.messages =
             Picked(source.messages, {i \in DOMAIN source.messages :
                                     source.messages[i].conversation \in loaded.bare})])

\* One transaction; an error ends the program and leaves the file.
Fill ==
    /\ doing = "fill"
    /\ IF Conflict(loaded) THEN doing' = "idle" /\ UNCHANGED temps
       ELSE /\ temps' = [temps EXCEPT ![stamp] = Filled(loaded)]
            /\ doing' = "validate"
    /\ UNCHANGED <<source, loaded, stamp, backups, target, log, second, crashes, writes, replaced>>

Validate ==
    /\ doing = "validate"
    /\ doing' = IF Valid(loaded) THEN "replace" ELSE "idle"
    /\ UNCHANGED <<source, loaded, stamp, files, second, crashes, writes, replaced>>

MutMoveAway ==                               \* the old one is removed
    /\ doing = "replace"
    /\ target' = NoFile
    /\ doing' = "install"
    /\ UNCHANGED <<source, loaded, stamp, temps, backups, log, second, crashes, writes, replaced>>

\* rename replaces what has the name already, and moves no log.
MoveAway ==
    /\ doing = "replace"
    /\ IF target = NoFile THEN UNCHANGED <<backups, target, log, replaced>>
       ELSE /\ backups' = [backups EXCEPT ![second] = Leaving(target, log)]
            /\ replaced' = (replaced \/ backups[second] # NoFile)
            /\ target' = NoFile
            /\ log' = IF log = "none" THEN "none" ELSE "foreign"
    /\ doing' = "install"
    /\ UNCHANGED <<source, loaded, stamp, temps, second, crashes, writes>>

Install ==
    /\ doing = "install"
    /\ target' = temps[stamp]
    /\ temps' = [temps EXCEPT ![stamp] = NoFile]
    /\ doing' = "idle"
    /\ UNCHANGED <<source, loaded, stamp, backups, log, second, crashes, writes, replaced>>

Crash ==
    /\ doing # "idle" /\ crashes < MaxCrashes
    /\ crashes' = crashes + 1 /\ doing' = "idle"
    /\ UNCHANGED <<source, loaded, stamp, files, second, writes, replaced>>

Tick ==
    /\ second < MaxSeconds /\ second' = second + 1
    /\ UNCHANGED <<source, loaded, doing, stamp, files, crashes, writes, replaced>>

\* The previous program stores a message and what its ledger says of it; both
\* have new ids.
Write ==
    /\ writes < MaxWrites /\ writes' = writes + 1
    /\ \E w \in Later :
       /\ \A e \in ToSet(source.ledger) : e.id # w.event.id
       /\ \A m \in ToSet(source.messages) : m.id # w.message.id
       /\ source' = [source EXCEPT !.ledger = Append(@, w.event),
                                   !.messages = Append(@, w.message)]
    /\ UNCHANGED <<loaded, doing, stamp, files, second, crashes, replaced>>

\* Between two migrations BetterClaw runs on the file at the path: SQLite takes the
\* log it finds there for the file's, and a process that is killed leaves one.
Use ==
    /\ doing = "idle" /\ target # NoFile
    /\ target' = IF log = "foreign" THEN Mixed ELSE target
    /\ \/ log' = "none" /\ UNCHANGED crashes
       \/ log' = "own" /\ crashes < MaxCrashes /\ crashes' = crashes + 1
    /\ UNCHANGED <<source, loaded, doing, stamp, temps, backups, second, writes, replaced>>

Migrate ==
    \/ Create \/ LoadConversations \/ LoadLedger \/ FindBare \/ LoadMessages
    \/ Fill \/ Validate \/ MoveAway \/ Install

MgNext == Migrate \/ Crash \/ Tick \/ Write \/ Use

MgSpec == MgInit /\ [][MgNext]_mgVars

-----------------------------------------------------------------------------
(* Properties.                                                              *)

Places == {"idle", "conversations", "ledger", "bare", "messages", "fill", "validate",
           "replace", "install"}
Files == {temps[s] : s \in Seconds} \cup {backups[s] : s \in Seconds} \cup {target}

\* Types; the migrator's temporary file is there while it works on it, with
\* what it has read once it is filled.
MgTypeOK ==
    /\ doing \in Places /\ {stamp, second} \subseteq Seconds /\ stamp <= second
    /\ \A f \in Files : f.state \in {"missing", "original", "schema", "filled", "mixed"}
    /\ log \in {"none", "own", "foreign"}
    /\ crashes \in 0..MaxCrashes /\ writes \in 0..MaxWrites
    /\ doing \in {"validate", "replace", "install"} => temps[stamp] = Filled(loaded)
    /\ doing \in Places \ {"idle", "validate", "replace", "install"} => temps[stamp] = Schema

\* A backup was made of a file without its log, or in the place of another.
Parted == replaced \/ \E s \in Seconds : backups[s].left # "none"

\* Wherever the migrator stops, the target path has the original, or a database
\* that was filled whole and validated; or nothing, between the two renames, and
\* then what it had is a backup.  A log of another file lies beside it, to be taken
\* for its own, only if a backup was parted from it.
TargetWhole ==
    /\ \/ target = Original
       \/ /\ target.state = "filled" /\ ~Conflict(target.from)
          /\ target.from.chunks = WithDocument(target.from)
       \/ target = NoFile /\ \E s \in Seconds : backups[s].state \in {"original", "filled"}
       \/ target \in {NoFile, Mixed} /\ Parted
    /\ log = "foreign" => Parted

\* The turns of a list of events: each begins with a user turn, or with the first
\* event, and goes on up to the next user turn.
Starts(list) == {i \in DOMAIN list : i = 1 \/ list[i].kind = "user_turn"}
Span(list, i) == {j \in i..Len(list) : \A k \in (i + 1)..j : list[k].kind # "user_turn"}
Within(list, i, kinds) == {j \in Span(list, i) : list[j].kind \in kinds}

\* It has the last answer, the tools' events in their order, one outbound message
\* if there is an answer, and has failed if a tool has, unless nobody asked.
IsTurnFrom(thread, list, i, t) ==
    LET answers == Within(list, i, {"agent_turn"})
        tools == Within(list, i, LedgerKinds \ {"user_turn", "agent_turn"})
        failed == \E j \in tools : list[j].kind = "tool_error"
    IN  /\ t.id = IF list[i].kind = "user_turn" THEN TurnId(list[i])
                  ELSE <<list[i].id, "synthetic-turn">>
        /\ t.thread = thread
        /\ t.synthetic = (list[i].kind # "user_turn")
        /\ t.outbound = (answers # {})
        /\ t.answer = IF answers = {} THEN None ELSE list[Max(answers)].text
        /\ t.events = Picked([k \in DOMAIN list |-> list[k].id], tools)
        /\ t.status \in {"failed", "succeeded"}
        /\ t.status = "failed" => failed
        /\ t.status = "succeeded" => t.synthetic \/ ~failed

\* The events of a name make these turns and no other.
TurnsAsSpoken ==
    \A f \in {x \in Files : x.state = "filled"} : \A g \in Groups(f.from) :
        LET turns == TurnsOf(g[1], g[2])
        IN  /\ Len(turns) = Cardinality(Starts(g[2]))
            /\ \A i \in Starts(g[2]) : \E t \in ToSet(turns) : IsTurnFrom(g[1], g[2], i, t)
            /\ \A t \in ToSet(turns) : \E i \in Starts(g[2]) : IsTurnFrom(g[1], g[2], i, t)

\* A message that the ledger has as well does not become two turns, although a
\* ledger under the external id does not keep it from being read again.
NothingTwice ==
    \A f \in {x \in Files : x.state = "filled"} :
        LET planned == PlannedTurns(f.from)
        IN  \A m \in {x \in ToSet(source.messages) : x.role = "user"} :
                Cardinality({t \in planned :
                    t.id = <<m.id>> \/ \E e \in ToSet(f.from.ledger) :
                                           e.message = m.id /\ t.id = <<e.id>>}) <= 1

\* What a user had said when the migration began, in a conversation it knows, is
\* in the database it put in place, whatever is written meanwhile; but for the
\* messages of a conversation of which the ledger has anything at all.
NothingLost ==
    target.state = "filled" =>
        LET planned == PlannedTurns(target.from)
        IN  /\ \A i \in 1..(Len(source.ledger) - writes) :
                  LET e == source.ledger[i]
                  IN  e.kind = "user_turn" /\ Planned(target.from, e.thread)
                      => \E t \in planned : t.id = TurnId(e)
            /\ \A i \in 1..(Len(source.messages) - writes) :
                  LET m == source.messages[i]
                  IN  /\ m.role = "user"
                      /\ \E c \in ToSet(target.from.conversations) : c.id = m.conversation
                      => \/ \E t \in planned : t.id = <<m.id>>
                         \/ \E e \in ToSet(source.ledger) : e.thread = m.conversation

\* Turns lie in one thread exactly if their conversations are the same to the
\* channel; the thread is one of the target's.
ThreadsAsChannels ==
    \A f \in {x \in Files : x.state = "filled"} :
    \A c, d \in ToSet(f.from.conversations) :
        (ThreadOf(f.from, c.id) = ThreadOf(f.from, d.id)) = (Key(c) = Key(d))

\* A migrated cursor covers every message that a user turn of the domain showed,
\* and none that no turn or setting has: the channel neither repeats nor skips.
CursorsAsSeen ==
    \A f \in {x \in Files : x.state = "filled"} : \A c \in ToSet(f.from.conversations) :
        IsDomain(c) =>
            LET shown == (UNION {m.seqs : m \in ToSet(f.from.messages)}) \cup
                         (UNION {e.seqs : e \in ToSet(f.from.ledger)}) \cup
                         {b.seq : b \in f.from.broadcast} \cup {0}
            IN  /\ Cursor(f.from, c.domain) \in shown
                /\ \A m \in ToSet(f.from.messages) : m.conversation = c.id /\ m.role = "user"
                      => \A n \in m.seqs : n <= Cursor(f.from, c.domain)
                /\ \A e \in ToSet(f.from.ledger) : e.thread \in Names(c) /\ e.kind = "user_turn"
                      => \A n \in e.seqs : n <= Cursor(f.from, c.domain)

\* The original is still a file, but for what its log had if BetterClaw had not
\* closed it; unless two migrations in one second took the same name for their
\* backups.
OriginalKept ==
    \/ replaced \/ target = Original
    \/ \E s \in Seconds : Leaving(backups[s], "none") = Original

\* A migrated database has what was said, once, in its turns and threads, and
\* the channel's place in it.
MigratedAsSaid ==
    TurnsAsSpoken /\ NothingTwice /\ NothingLost /\ ThreadsAsChannels /\ CursorsAsSeen

\* Wherever the migrator stops, the original is there, and a database that is
\* whole if what BetterClaw had used was closed when it was moved away.
FilesKept == TargetWhole /\ OriginalKept
=============================================================================
