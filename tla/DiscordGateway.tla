--------------------------- MODULE DiscordGateway ---------------------------
(***************************************************************************)
(* The Discord channel (channels/discord.rs): one task that connects to    *)
(* the gateway, reads its frames, takes a turn on every message it should  *)
(* hear and posts the reply, and starts over when anything fails; a writer *)
(* task and a heartbeat task for every connection.                         *)
(*                                                                         *)
(*   - A turn blocks the reading: frames wait meanwhile.                   *)
(*   - Only the end of the stream aborts the two tasks; any other way out  *)
(*     of run_once leaves them, and the socket with them.                  *)
(*   - No session is resumed: what is posted before the new connection has *)
(*     identified itself never reaches the channel.                        *)
(*   - External: the gateway, which starts with hello, dispatches messages *)
(*     to sessions it knows, asks for heartbeats or a reconnect.           *)
(*                                                                         *)
(* A reply is a sequence of visible messages, each given by its length; a  *)
(* blank one has none.                                                     *)
(***************************************************************************)
EXTENDS Integers, Sequences, FiniteSets, SequencesExt

CONSTANTS
    Self,          \* the bot's own user
    Bots,          \* other bots
    NoGuild,       \* the guild of a direct message
    Posts,         \* the messages others may post
    AllowedGuilds, AllowedChannels, AllowedDmUsers, AllowedGuildUsers,
    MentionOnly,   \* the configuration; an empty list allows everyone
    MaxLen,        \* DISCORD_MAX_MESSAGE_LEN
    Replies,       \* what a turn may answer
    Failure,       \* the text that tells of a failed turn
    MaxHeard,      \* bound: messages of others
    MaxFaults      \* bound: connections that fail, frames that end one, failing sends

ASSUME DiscordAssumption ==
    /\ MentionOnly \in BOOLEAN /\ MaxLen \in Nat \ {0}
    /\ Replies \subseteq Seq(Nat) /\ Failure \in Seq(Nat)
    /\ MaxHeard \in Nat /\ MaxFaults \in Nat
    /\ \A m \in Posts : m.author # Self

VARIABLES
    posted,     \* the messages of Discord, in order
    conns,      \* every connection so far, with its tasks
    mode,       \* where the channel's task is
    taken,      \* the message it takes a turn on, by number
    dealt,      \* history: the messages turns were taken on
    texts,      \* of each of them the reply, and what of it is posted; the last
                \* one is where the task is
    troubles

dcVars == <<posted, conns, mode, taken, dealt, texts, troubles>>

-----------------------------------------------------------------------------
(* parse_inbound_message, split_for_discord.                                *)

Allows(list, x) == list = {} \/ x \in list

\* "text": something is left of the content without the mentions of the bot.
Heard(m) ==
    /\ m.author \notin Bots \cup {Self}
    /\ m.guild # NoGuild => Allows(AllowedGuilds, m.guild) /\ Allows(AllowedChannels, m.channel)
    /\ Allows(IF m.guild = NoGuild THEN AllowedDmUsers ELSE AllowedGuildUsers, m.author)
    /\ (m.guild # NoGuild /\ MentionOnly) => m.mentions
    /\ m.text

\* A reply is cut into pieces that fit; blank messages of it are not sent.
Piece(rest) == IF rest < MaxLen THEN rest ELSE MaxLen
Unsent(t) == {p \in DOMAIN t.reply : t.sent[p] < t.reply[p]}

NewText == [reply |-> <<>>,      \* the lengths of its messages
            sent |-> <<>>,       \* how much of each is posted
            longest |-> 0,       \* history: the longest piece posted
            cut |-> FALSE]       \* history: a piece could not be posted

-----------------------------------------------------------------------------

NewConn ==
    [up |-> TRUE,                        \* the socket is open
     session |-> FALSE,                  \* the gateway has taken the identify
     asked |-> FALSE,                    \* the identify is with the writer
     sent |-> 0,                         \* dispatches so far
     inbox |-> <<[op |-> "hello"]>>,     \* frames yet to be read
     seq |-> 0,                          \* the last sequence number read
     acked |-> 0,                        \* the number in its last heartbeat
     writer |-> TRUE, heart |-> FALSE,   \* the two tasks
     over |-> "no"]                      \* how run_once ended, if it did

DcInit ==
    /\ posted = <<>> /\ conns = <<>>
    /\ mode = "down" /\ taken = 0
    /\ dealt = <<>> /\ texts = <<>>
    /\ troubles = 0

Here == Len(conns)
Conn == conns[Here]

Fault == troubles < MaxFaults /\ troubles' = troubles + 1

\* A message reaches the open sessions; of those that nobody reads it is left out.
Dispatched(n) ==
    [c \in DOMAIN conns |->
        IF conns[c].session /\ conns[c].over = "no"
        THEN [conns[c] EXCEPT !.sent = @ + 1,
                 !.inbox = Append(@, [op |-> "dispatch", s |-> conns[c].sent + 1, n |-> n])]
        ELSE conns[c]]

Arrives(m) == posted' = Append(posted, m) /\ conns' = Dispatched(Len(posted) + 1)

\* run_once is left through an error: the tasks and the socket stay.
LeaveByError(from) ==
    /\ mode' = "down" /\ taken' = 0
    /\ conns' = [from EXCEPT ![Here].over = "error", ![Here].inbox = <<>>]

-----------------------------------------------------------------------------
(* The gateway and the people.                                              *)

SomeonePosts ==
    /\ Cardinality({n \in DOMAIN posted : posted[n].author # Self}) < MaxHeard
    /\ \E m \in Posts : Arrives(m)
    /\ UNCHANGED <<mode, taken, dealt, texts, troubles>>

Frame(c, frame) ==
    /\ conns[c].up /\ conns[c].over = "no"
    /\ conns' = [conns EXCEPT ![c].inbox = Append(@, frame)]
    /\ Fault
    /\ UNCHANGED <<posted, mode, taken, dealt, texts>>

GatewayAsks(c) ==
    \E op \in {"beat", "reconnect", "garbage"} : Frame(c, [op |-> op])

GatewayCloses(c) ==
    /\ conns[c].up
    /\ conns' = [conns EXCEPT ![c].up = FALSE, ![c].session = FALSE]
    /\ Fault
    /\ UNCHANGED <<posted, mode, taken, dealt, texts>>

GatewayIdentifies(c) ==
    /\ conns[c].up /\ conns[c].writer /\ conns[c].asked
    /\ conns' = [conns EXCEPT ![c].session = TRUE, ![c].asked = FALSE]
    /\ UNCHANGED <<posted, mode, taken, dealt, texts, troubles>>

-----------------------------------------------------------------------------
(* The heartbeat and writer tasks of a connection.                          *)

Beat(c) ==
    /\ conns[c].heart /\ conns[c].writer
    /\ conns' = IF conns[c].up
                THEN [conns EXCEPT ![c].acked = conns[c].seq]
                ELSE [conns EXCEPT ![c].writer = FALSE]        \* its send fails
    /\ UNCHANGED <<posted, mode, taken, dealt, texts, troubles>>

HeartStops(c) ==
    /\ conns[c].heart /\ ~conns[c].writer
    /\ conns' = [conns EXCEPT ![c].heart = FALSE]
    /\ UNCHANGED <<posted, mode, taken, dealt, texts, troubles>>

\* Its last sender is gone, and with the writer the socket.
WriterStops(c) ==
    /\ conns[c].writer /\ conns[c].over # "no" /\ ~conns[c].heart
    /\ conns' = [conns EXCEPT ![c].writer = FALSE, ![c].up = FALSE, ![c].session = FALSE]
    /\ UNCHANGED <<posted, mode, taken, dealt, texts, troubles>>

-----------------------------------------------------------------------------
(* The channel's task.                                                      *)

MutOpenGatewaySeq ==                             \* the sequence number lives on
    /\ mode = "down"
    /\ conns' = Append(conns, [NewConn EXCEPT !.seq = IF conns = <<>> THEN 0 ELSE Last(conns).seq])
    /\ mode' = "reading"
    /\ UNCHANGED <<posted, taken, dealt, texts, troubles>>

\* run_forever, and run_once up to its loop; an attempt that fails is repeated.
OpenGateway ==
    /\ mode = "down"
    /\ conns' = Append(conns, NewConn)
    /\ mode' = "reading"
    /\ UNCHANGED <<posted, taken, dealt, texts, troubles>>

NextFrame == Head(Conn.inbox)
Reads(op) == mode = "reading" /\ Conn.inbox # <<>> /\ NextFrame.op = op
Rest == [conns EXCEPT ![Here].inbox = Tail(@)]

MutReadHello ==                              \* only the first session identifies itself
    /\ Reads("hello")
    /\ conns' = [Rest EXCEPT ![Here].asked = Here = 1, ![Here].heart = TRUE]
    /\ UNCHANGED <<posted, mode, taken, dealt, texts, troubles>>

ReadHello ==
    /\ Reads("hello")
    /\ conns' = [Rest EXCEPT ![Here].asked = TRUE, ![Here].heart = TRUE]
    /\ UNCHANGED <<posted, mode, taken, dealt, texts, troubles>>

ReadBeat ==
    /\ Reads("beat")
    /\ IF Conn.writer
       THEN conns' = [Rest EXCEPT ![Here].acked = Conn.seq] /\ UNCHANGED <<mode, taken>>
       ELSE LeaveByError(conns)
    /\ UNCHANGED <<posted, dealt, texts, troubles>>

ReadLeave ==
    /\ Reads("reconnect") \/ Reads("garbage")
    /\ LeaveByError(conns)
    /\ UNCHANGED <<posted, dealt, texts, troubles>>

ReadMessage ==
    /\ Reads("dispatch")
    /\ conns' = [Rest EXCEPT ![Here].seq = NextFrame.s]
    /\ IF Heard(posted[NextFrame.n])
       THEN /\ mode' = "turn" /\ taken' = NextFrame.n
            /\ dealt' = Append(dealt, NextFrame.n)
            /\ texts' = Append(texts, NewText)
       ELSE UNCHANGED <<mode, taken, dealt, texts>>
    /\ UNCHANGED <<posted, troubles>>

\* The stream ends, or ends with an error.
ReadEnd ==
    /\ mode = "reading" /\ Conn.inbox = <<>> /\ ~Conn.up
    /\ \/ /\ mode' = "down"
          /\ conns' = [conns EXCEPT ![Here].over = "ended",
                                    ![Here].writer = FALSE, ![Here].heart = FALSE]
          /\ UNCHANGED taken
       \/ LeaveByError(conns)
    /\ UNCHANGED <<posted, dealt, texts, troubles>>

Text == texts[Len(texts)]
Tells(replies) ==
    \E r \in replies : texts' = [texts EXCEPT ![Len(texts)] =
        [Text EXCEPT !.reply = r, !.sent = [p \in DOMAIN r |-> 0]]]

MutTurnDone ==                               \* what came meanwhile is dropped
    /\ mode = "turn"
    /\ Tells(Replies \cup {Failure})
    /\ mode' = "sending"
    /\ conns' = [conns EXCEPT ![Here].inbox = <<>>]
    /\ UNCHANGED <<posted, taken, dealt, troubles>>

\* The turn ends; a failed one is told of.
TurnDone ==
    /\ mode = "turn"
    /\ Tells(Replies \cup {Failure})
    /\ mode' = "sending"
    /\ UNCHANGED <<posted, conns, taken, dealt, troubles>>

Answer(m) ==
    [author |-> Self, guild |-> m.guild, channel |-> m.channel, mentions |-> TRUE, text |-> TRUE]

SendChunk ==
    /\ mode = "sending"
    /\ \E p \in Unsent(Text) :
          LET piece == Piece(Text.reply[p] - Text.sent[p])
          IN  /\ \A q \in Unsent(Text) : p <= q
              /\ texts' = [texts EXCEPT ![Len(texts)] =
                    [Text EXCEPT !.sent[p] = @ + piece,
                                 !.longest = IF @ < piece THEN piece ELSE @]]
    /\ Arrives(Answer(posted[taken]))
    /\ UNCHANGED <<mode, taken, dealt, troubles>>

SendFails ==
    /\ mode = "sending" /\ Unsent(Text) # {}
    /\ Fault
    /\ texts' = [texts EXCEPT ![Len(texts)].cut = TRUE]
    /\ LeaveByError(conns)
    /\ UNCHANGED <<posted, dealt>>

Replied ==
    /\ mode = "sending" /\ Unsent(Text) = {}
    /\ mode' = "reading" /\ taken' = 0
    /\ UNCHANGED <<posted, conns, dealt, texts, troubles>>

Channel ==
    \/ OpenGateway \/ ReadHello \/ ReadBeat \/ ReadLeave \/ ReadMessage \/ ReadEnd
    \/ TurnDone \/ SendChunk \/ Replied

Tasks(c) == Beat(c) \/ HeartStops(c) \/ WriterStops(c)

DcNext ==
    \/ Channel \/ SendFails \/ SomeonePosts
    \/ \E c \in DOMAIN conns :
          Tasks(c) \/ GatewayAsks(c) \/ GatewayCloses(c) \/ GatewayIdentifies(c)

DcSpec == DcInit /\ [][DcNext]_dcVars

\* The task runs; its turns end and the gateway answers an identify.
DcFairSpec ==
    /\ DcSpec /\ WF_dcVars(Channel)
    /\ WF_dcVars(\E c \in DOMAIN conns : GatewayIdentifies(c))

-----------------------------------------------------------------------------
(* Properties.                                                              *)

Signals == [op : {"hello", "beat", "reconnect", "garbage"}]
Dispatches == [op : {"dispatch"}, s : Nat, n : Nat]
Connections ==
    [up : BOOLEAN, session : BOOLEAN, asked : BOOLEAN, sent : Nat,
     inbox : Seq(Signals \cup Dispatches), seq : Nat, acked : Nat,
     writer : BOOLEAN, heart : BOOLEAN, over : {"no", "error", "ended"}]

\* Types; a connection that is not over is the last one.
DcTypeOK ==
    /\ mode \in {"down", "reading", "turn", "sending"}
    /\ posted \in Seq(Posts \cup {Answer(m) : m \in Posts})
    /\ conns \in Seq(Connections)
    /\ taken \in 0..Len(posted) /\ (taken # 0) = (mode \in {"turn", "sending"})
    /\ \A c \in DOMAIN conns : (conns[c].over = "no") = (c = Here /\ mode # "down")
    /\ dealt \in Seq(Nat)
    /\ texts \in Seq([reply : Seq(Nat), sent : Seq(Nat), longest : Nat, cut : BOOLEAN])
    /\ Len(texts) = Len(dealt)
    /\ troubles \in 0..MaxFaults

\* Turns are taken on messages in the order they were posted, and on none
\* twice, across reconnects.
HandledInOrder ==
    \A i, j \in DOMAIN dealt : i < j => dealt[i] < dealt[j]

\* The connection that is read holds every dispatch that has not been read,
\* in order, whatever came while a turn was running: only the end of a
\* connection loses messages.
NothingDispatchedIsDropped ==
    mode # "down" =>
        LET inbox == Conn.inbox
            waiting == {i \in DOMAIN inbox : inbox[i].op = "dispatch"}
        IN  /\ {inbox[i].s : i \in waiting} = (Conn.seq + 1)..Conn.sent
            /\ \A i, j \in waiting : i < j => inbox[i].s < inbox[j].s

\* What Discord gets of a reply is a beginning of it, in pieces that fit: no
\* message of it before the earlier ones are out, and all of them unless
\* sending failed.
RepliesWhole ==
    \A k \in DOMAIN texts :
        LET t == texts[k]
        IN  /\ t.longest <= MaxLen
            /\ \A p \in DOMAIN t.reply : t.sent[p] <= t.reply[p]
            /\ \A p, q \in DOMAIN t.reply : p < q /\ t.sent[q] > 0 => t.sent[p] = t.reply[p]
            /\ t.cut = (Unsent(t) # {}) \/ (k = Len(texts) /\ mode \in {"turn", "sending"})

\* The bot's own posts come back as dispatches; they never lead to a turn, so
\* there are no more turns than messages of others.
NoEcho ==
    Len(dealt) <= Cardinality({n \in DOMAIN posted : posted[n].author # Self})

\* A heartbeat acknowledges what its own connection has dispatched.
HeartOfOwnConnection == \A c \in DOMAIN conns : conns[c].acked <= conns[c].sent

\* Heartbeats of an earlier connection go on only after one that was left
\* through an error (a reconnect asked for, a malformed frame, a failed send).
LeakedOnlyByError == \A c \in DOMAIN conns : conns[c].heart /\ c # Here => conns[c].over = "error"

\* When connections have stopped failing, the channel is in a session for good.
EndsUpInSession == <>[](mode # "down" /\ Conn.session)

\* Each dispatch leads to one turn at most, in order, and to its whole reply,
\* though a turn blocks the reading.
DispatchesHandled ==
    HandledInOrder /\ NothingDispatchedIsDropped /\ NoEcho /\ RepliesWhole

\* The tasks of one connection do not work for another.
ConnectionsApart == HeartOfOwnConnection /\ LeakedOnlyByError
=============================================================================
