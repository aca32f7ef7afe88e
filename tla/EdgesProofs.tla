------------------------------ MODULE EdgesProofs -----------------------------
(***************************************************************************)
(* Proofs about the edges of the process: Discord's gateway, the update    *)
(* and the old database's migration.                                       *)
(*                                                                         *)
(* DiscordGateway, for every set of messages people may post, every        *)
(* configuration and every limit of a message's length, and however many   *)
(* connections fail.                                                       *)
(*                                                                         *)
(* SelfUpdate, for any number of requests, messages, revisions, processes  *)
(* and stops, whatever does not compile.  That a success is built rests on *)
(* cargo's lock: a binary is as new as what any request before had pulled, *)
(* because only one build is under way, and what it compiles is not older  *)
(* than the tree was at its start.  That a process recovers no turn of its *)
(* own rests on the order of its start, which the turns' owners have       *)
(* behind them.                                                            *)
(*                                                                         *)
(* DbMigrator, for any conversations and any number of crashes: the        *)
(* exchange of the files.  It rests on where the migrator is: what it      *)
(* moves away is what it read or what a migration before installed, and    *)
(* what it installs has been validated.                                    *)
(***************************************************************************)
EXTENDS DiscordGateway, SelfUpdate, DbMigrator, RecursionTheorems, FiniteSetTheorems, SequenceTheorems,
        TLAPS

-----------------------------------------------------------------------------
(* The gateway.                                                            *)

\* The frames of an inbox that are dispatches.
Waiting(inbox) == {i \in DOMAIN inbox : inbox[i].op = "dispatch"}

\* What holds of every connection, whoever still works for it: it has heard of
\* no more than it was sent, and if it ended its heartbeat did as well.
ConnOK(conn) ==
    /\ conn.acked <= conn.seq /\ conn.seq <= conn.sent
    /\ conn.over = "ended" => ~conn.heart

\* An inbox holds what was dispatched and not read, in the order of posting.
InboxOK(conn) ==
    /\ {conn.inbox[i].s : i \in Waiting(conn.inbox)} = (conn.seq + 1)..conn.sent
    /\ \A i \in Waiting(conn.inbox) : conn.inbox[i].n \in 1..Len(posted)
    /\ \A i, j \in Waiting(conn.inbox) : i < j =>
          conn.inbox[i].s < conn.inbox[j].s /\ conn.inbox[i].n < conn.inbox[j].n

\* Turns were taken on messages of others, in order, and before any of those
\* that wait.
DealtOK ==
    /\ \A i \in DOMAIN dealt : dealt[i] \in 1..Len(posted) /\ posted[dealt[i]].author # Self
    /\ \A i, j \in DOMAIN dealt : i < j => dealt[i] < dealt[j]
    /\ mode # "down" =>
          \A i \in DOMAIN dealt, k \in Waiting(Conn.inbox) : dealt[i] < Conn.inbox[k].n
    /\ mode \in {"turn", "sending"} => taken \in 1..Len(posted) /\ posted[taken].author # Self

\* A reply is posted from its beginning, in pieces that fit.
TextOK(t) ==
    /\ DOMAIN t.sent = DOMAIN t.reply
    /\ t.longest <= MaxLen
    /\ \A p \in DOMAIN t.reply : t.sent[p] <= t.reply[p]
    /\ \A p, q \in DOMAIN t.reply : p < q /\ t.sent[q] > 0 => t.sent[p] = t.reply[p]

Current == mode \in {"turn", "sending"}

TextsOK ==
    /\ \A k \in DOMAIN texts : TextOK(texts[k])
    /\ \A k \in DOMAIN texts : texts[k].cut = (Unsent(texts[k]) # {}) \/ (k = Len(texts) /\ Current)
    /\ Current => texts # <<>> /\ ~Text.cut

DcInv ==
    /\ DcTypeOK
    /\ \A c \in DOMAIN conns : ConnOK(conns[c])
    /\ mode # "down" => conns # <<>> /\ InboxOK(Conn)
    /\ DealtOK
    /\ TextsOK

\* Posts that come back have the bot for their author, no others have.
LEMMA AuthorTells ==
    ASSUME NEW m \in Posts \cup {Answer(p) : p \in Posts}, m.author # Self
    PROVE  m \in Posts
BY DEF Answer

LEMMA InitDcInv == DcInit => DcInv
<1> SUFFICES ASSUME DcInit PROVE DcInv
  OBVIOUS
<1> USE DEF DcInit
<1>1. DcTypeOK
  BY DiscordAssumption DEF DcTypeOK, Here
<1>2. QED
  BY <1>1 DEF DcInv, DealtOK, TextsOK, Current

\* A signal put into an inbox is not a dispatch.
LEMMA SignalWaits ==
    ASSUME NEW inbox \in Seq(Signals \cup Dispatches), NEW frame \in Signals
    PROVE  /\ Append(inbox, frame) \in Seq(Signals \cup Dispatches)
           /\ Waiting(Append(inbox, frame)) = Waiting(inbox)
           /\ \A i \in Waiting(inbox) : Append(inbox, frame)[i] = inbox[i]
<1>1. /\ Append(inbox, frame) \in Seq(Signals \cup Dispatches)
      /\ Len(Append(inbox, frame)) = Len(inbox) + 1
      /\ \A i \in 1..Len(inbox) : Append(inbox, frame)[i] = inbox[i]
      /\ Append(inbox, frame)[Len(inbox) + 1] = frame
  BY AppendProperties
<1>2. DOMAIN inbox = 1..Len(inbox) /\ Len(inbox) \in Nat
  BY LenProperties
<1>3. DOMAIN Append(inbox, frame) = 1..(Len(inbox) + 1)
  BY <1>1, LenProperties
<1>4. frame.op # "dispatch"
  BY DEF Signals
<1>5. QED
  BY <1>1, <1>2, <1>3, <1>4 DEF Waiting

\* Every connection is one.
LEMMA ConnectionType ==
    ASSUME DcTypeOK, NEW c \in DOMAIN conns
    PROVE  /\ conns[c] \in Connections
           /\ conns[c].inbox \in Seq(Signals \cup Dispatches)
           /\ {conns[c].sent, conns[c].seq, conns[c].acked} \subseteq Nat
           /\ {conns[c].up, conns[c].session, conns[c].asked, conns[c].writer,
               conns[c].heart} \subseteq BOOLEAN
<1>1. conns[c] \in Connections
  BY ElementOfSeq, LenProperties DEF DcTypeOK
<1>2. QED
  BY <1>1 DEF Connections

\* A step of a connection's tasks, or of the gateway on it, that neither
\* dispatches nor reads keeps the invariant.
LEMMA ConnectionStep ==
    ASSUME DcInv, NEW c \in DOMAIN conns, NEW r \in Connections,
           conns' = [conns EXCEPT ![c] = r],
           r.over = conns[c].over, r.sent = conns[c].sent, r.seq = conns[c].seq,
           r.acked <= r.seq, r.heart => conns[c].heart,
           \/ r.inbox = conns[c].inbox
           \/ \E frame \in Signals : r.inbox = Append(conns[c].inbox, frame),
           UNCHANGED <<posted, mode, taken, dealt, texts>>, troubles' \in 0..MaxFaults
    PROVE  DcInv'
<1> USE DEF DcInv
<1>1. /\ conns \in Seq(Connections) /\ conns' \in Seq(Connections)
      /\ Len(conns') = Len(conns) /\ DOMAIN conns' = DOMAIN conns
      /\ conns'[c] = r /\ \A d \in DOMAIN conns \ {c} : conns'[d] = conns[d]
  BY ExceptSeq, LenProperties DEF DcTypeOK
<1>2. DcTypeOK'
  BY <1>1 DEF DcTypeOK, Here
<1>3. \A d \in DOMAIN conns' : ConnOK(conns[d])'
  BY <1>1 DEF ConnOK
<1>4. /\ Waiting(r.inbox) = Waiting(conns[c].inbox)
      /\ \A i \in Waiting(conns[c].inbox) : r.inbox[i] = conns[c].inbox[i]
  <2>1. conns[c].inbox \in Seq(Signals \cup Dispatches)
    BY ConnectionType
  <2>2. ASSUME NEW frame \in Signals, r.inbox = Append(conns[c].inbox, frame)
        PROVE  /\ Waiting(r.inbox) = Waiting(conns[c].inbox)
               /\ \A i \in Waiting(conns[c].inbox) : r.inbox[i] = conns[c].inbox[i]
    <3>1. /\ Waiting(Append(conns[c].inbox, frame)) = Waiting(conns[c].inbox)
          /\ \A i \in Waiting(conns[c].inbox) : Append(conns[c].inbox, frame)[i] = conns[c].inbox[i]
      BY <2>1, SignalWaits
    <3>2. QED
      BY <2>2, <3>1
  <2>3. QED
    BY <2>2
<1>5. ASSUME mode' # "down"
      PROVE  /\ conns' # <<>> /\ InboxOK(Conn)'
             /\ Waiting(Conn'.inbox) = Waiting(Conn.inbox)
             /\ \A i \in Waiting(Conn.inbox) : Conn'.inbox[i] = Conn.inbox[i]
  <2>1. Here \in DOMAIN conns /\ Here' = Here /\ conns' # <<>>
    BY <1>1, <1>5, LenProperties, EmptySeq DEF Here
  <2>2. /\ Conn'.seq = Conn.seq /\ Conn'.sent = Conn.sent
        /\ Waiting(Conn'.inbox) = Waiting(Conn.inbox)
        /\ \A i \in Waiting(Conn.inbox) : Conn'.inbox[i] = Conn.inbox[i]
    BY <1>1, <1>4, <2>1 DEF Conn
  <2>3. InboxOK(Conn)'
    BY <1>5, <2>2 DEF InboxOK
  <2>4. QED
    BY <2>1, <2>2, <2>3
<1>6. DealtOK'
  BY <1>5 DEF DealtOK
<1>7. TextsOK'
  BY DEF TextsOK, TextOK, Current, Text, Unsent
<1>8. QED
  BY <1>2, <1>3, <1>5, <1>6, <1>7

\* The tasks of a connection, and what the gateway does on it.
LEMMA TasksKeep ==
    ASSUME DcInv, NEW c \in DOMAIN conns,
           Tasks(c) \/ GatewayAsks(c) \/ GatewayCloses(c) \/ GatewayIdentifies(c)
    PROVE  DcInv'
<1> DEFINE old == conns[c]
<1> USE DEF DcInv
<1>1. /\ old \in Connections /\ old.acked <= old.seq
      /\ DcTypeOK /\ troubles \in 0..MaxFaults
  BY ConnectionType DEF ConnOK, DcTypeOK
<1>2. ASSUME GatewayAsks(c) PROVE DcInv'
  <2>1. PICK frame \in Signals : Frame(c, frame)
    BY <1>2 DEF GatewayAsks, Signals
  <2> DEFINE r == [old EXCEPT !.inbox = Append(@, frame)]
  <2>2. old.inbox \in Seq(Signals \cup Dispatches) /\ Append(old.inbox, frame) \in Seq(Signals \cup Dispatches)
    BY <1>1, ConnectionType, SignalWaits
  <2>3. /\ r \in Connections /\ r.over = old.over /\ r.sent = old.sent /\ r.seq = old.seq
        /\ r.acked <= r.seq /\ r.heart = old.heart /\ r.inbox = Append(old.inbox, frame)
    BY <1>1, <2>2 DEF Connections
  <2>4. /\ conns' = [conns EXCEPT ![c] = r] /\ UNCHANGED <<posted, mode, taken, dealt, texts>>
        /\ troubles' \in 0..MaxFaults
    BY <1>1, <2>1, DiscordAssumption DEF Frame, Fault
  <2> HIDE DEF r, old
  <2>5. QED
    BY <2>3, <2>4, ConnectionStep DEF old
<1>3. ASSUME NEW r \in Connections, conns' = [conns EXCEPT ![c] = r],
             r.over = old.over, r.sent = old.sent, r.seq = old.seq, r.acked <= r.seq,
             r.heart => old.heart, r.inbox = old.inbox,
             UNCHANGED <<posted, mode, taken, dealt, texts>>, troubles' \in 0..MaxFaults
      PROVE  DcInv'
  BY <1>3, ConnectionStep
<1>4. CASE GatewayCloses(c)
  <2> DEFINE r == [old EXCEPT !.up = FALSE, !.session = FALSE]
  <2>1. conns' = [conns EXCEPT ![c] = r]
    BY <1>4 DEF GatewayCloses
  <2>2. troubles' \in 0..MaxFaults
    BY <1>1, <1>4, DiscordAssumption DEF GatewayCloses, Fault
  <2>3. /\ r \in Connections /\ r.over = old.over /\ r.sent = old.sent /\ r.seq = old.seq
        /\ r.acked = old.acked /\ r.heart = old.heart /\ r.inbox = old.inbox
    BY <1>1 DEF Connections
  <2>4. QED
    BY <1>1, <1>3, <1>4, <2>2, <2>1, <2>3 DEF GatewayCloses
<1>5. CASE GatewayIdentifies(c)
  <2> DEFINE r == [old EXCEPT !.session = TRUE, !.asked = FALSE]
  <2>1. conns' = [conns EXCEPT ![c] = r]
    BY <1>5 DEF GatewayIdentifies
  <2>2. /\ r \in Connections /\ r.over = old.over /\ r.sent = old.sent /\ r.seq = old.seq
        /\ r.acked = old.acked /\ r.heart = old.heart /\ r.inbox = old.inbox
    BY <1>1 DEF Connections
  <2>3. QED
    BY <1>1, <1>3, <1>5, <2>1, <2>2 DEF GatewayIdentifies
<1>6. CASE Beat(c)
  <2>1. CASE old.up
    <3> DEFINE r == [old EXCEPT !.acked = old.seq]
    <3>1. conns' = [conns EXCEPT ![c] = r]
      BY <1>6, <2>1 DEF Beat
    <3>2. /\ r \in Connections /\ r.over = old.over /\ r.sent = old.sent /\ r.seq = old.seq
          /\ r.acked = r.seq /\ r.seq \in Nat /\ r.heart = old.heart /\ r.inbox = old.inbox
      BY <1>1 DEF Connections
    <3>3. r.acked <= r.seq
      BY <3>2
    <3> HIDE DEF r
    <3>4. QED
      BY <1>1, <1>3, <1>6, <3>1, <3>2, <3>3 DEF Beat
  <2>2. CASE ~old.up
    <3> DEFINE r == [old EXCEPT !.writer = FALSE]
    <3>1. conns' = [conns EXCEPT ![c] = r]
      BY <1>6, <2>2 DEF Beat
    <3>2. /\ r \in Connections /\ r.over = old.over /\ r.sent = old.sent /\ r.seq = old.seq
          /\ r.acked = old.acked /\ r.heart = old.heart /\ r.inbox = old.inbox
      BY <1>1 DEF Connections
    <3>3. QED
      BY <1>1, <1>3, <1>6, <3>1, <3>2 DEF Beat
  <2>3. QED
    BY <2>1, <2>2
<1>7. CASE HeartStops(c)
  <2> DEFINE r == [old EXCEPT !.heart = FALSE]
  <2>1. conns' = [conns EXCEPT ![c] = r]
    BY <1>7 DEF HeartStops
  <2>2. /\ r \in Connections /\ r.over = old.over /\ r.sent = old.sent /\ r.seq = old.seq
        /\ r.acked = old.acked /\ ~r.heart /\ r.inbox = old.inbox
    BY <1>1 DEF Connections
  <2>3. QED
    BY <1>1, <1>3, <1>7, <2>1, <2>2 DEF HeartStops
<1>8. CASE WriterStops(c)
  <2> DEFINE r == [old EXCEPT !.writer = FALSE, !.up = FALSE, !.session = FALSE]
  <2>1. conns' = [conns EXCEPT ![c] = r]
    BY <1>8 DEF WriterStops
  <2>2. /\ r \in Connections /\ r.over = old.over /\ r.sent = old.sent /\ r.seq = old.seq
        /\ r.acked = old.acked /\ r.heart = old.heart /\ r.inbox = old.inbox
    BY <1>1 DEF Connections
  <2>3. QED
    BY <1>1, <1>3, <1>8, <2>1, <2>2 DEF WriterStops
<1>9. QED
  BY <1>2, <1>4, <1>5, <1>6, <1>7, <1>8 DEF Tasks

-----------------------------------------------------------------------------
(* Posting: the dispatch that it leads to is the last of every inbox.       *)

\* What a dispatch puts into an inbox waits behind all the rest.
LEMMA DispatchWaits ==
    ASSUME NEW inbox \in Seq(Signals \cup Dispatches), NEW frame \in Dispatches
    PROVE  /\ Append(inbox, frame) \in Seq(Signals \cup Dispatches)
           /\ Waiting(Append(inbox, frame)) = Waiting(inbox) \cup {Len(inbox) + 1}
           /\ \A i \in Waiting(inbox) : Append(inbox, frame)[i] = inbox[i] /\ i \in 1..Len(inbox)
           /\ Append(inbox, frame)[Len(inbox) + 1] = frame
           /\ Len(inbox) \in Nat
<1>1. /\ Append(inbox, frame) \in Seq(Signals \cup Dispatches)
      /\ Len(Append(inbox, frame)) = Len(inbox) + 1
      /\ \A i \in 1..Len(inbox) : Append(inbox, frame)[i] = inbox[i]
      /\ Append(inbox, frame)[Len(inbox) + 1] = frame
  BY AppendProperties
<1>2. DOMAIN inbox = 1..Len(inbox) /\ Len(inbox) \in Nat
  BY LenProperties
<1>3. DOMAIN Append(inbox, frame) = 1..(Len(inbox) + 1)
  BY <1>1, LenProperties
<1>4. frame.op = "dispatch"
  BY DEF Dispatches
<1>5. QED
  BY <1>1, <1>2, <1>3, <1>4 DEF Waiting

\* A message that arrives keeps everything but what is about replies, which it
\* does not touch.
LEMMA ArrivesKeeps ==
    ASSUME DcInv, NEW m \in Posts \cup {Answer(p) : p \in Posts}, Arrives(m),
           UNCHANGED <<mode, taken, dealt>>
    PROVE  /\ posted' \in Seq(Posts \cup {Answer(p) : p \in Posts})
           /\ Len(posted') = Len(posted) + 1
           /\ conns' \in Seq(Connections)
           /\ \A c \in DOMAIN conns' : (conns'[c].over = "no") = (c = Here' /\ mode' # "down")
           /\ \A c \in DOMAIN conns' : ConnOK(conns[c])'
           /\ mode' # "down" => conns' # <<>> /\ InboxOK(Conn)'
           /\ DealtOK'
<1> USE DEF DcInv
<1> DEFINE n == Len(posted) + 1
           Into(conn) == [conn EXCEPT !.sent = @ + 1,
                              !.inbox = Append(@, [op |-> "dispatch", s |-> conn.sent + 1, n |-> n])]
<1>1. /\ posted \in Seq(Posts \cup {Answer(p) : p \in Posts}) /\ conns \in Seq(Connections)
      /\ Len(posted) \in Nat /\ Len(conns) \in Nat /\ DOMAIN conns = 1..Len(conns)
  BY LenProperties DEF DcTypeOK
<1>2. /\ posted' \in Seq(Posts \cup {Answer(p) : p \in Posts})
      /\ Len(posted') = n
      /\ \A i \in 1..Len(posted) : posted'[i] = posted[i]
  BY <1>1, AppendProperties DEF Arrives
<1>3. ASSUME NEW c \in DOMAIN conns
      PROVE  /\ Into(conns[c]) \in Connections
             /\ Into(conns[c]).over = conns[c].over /\ Into(conns[c]).heart = conns[c].heart
             /\ Into(conns[c]).acked = conns[c].acked /\ Into(conns[c]).seq = conns[c].seq
             /\ Into(conns[c]).sent = conns[c].sent + 1
             /\ Into(conns[c]).inbox
                    = Append(conns[c].inbox, [op |-> "dispatch", s |-> conns[c].sent + 1, n |-> n])
  <2>1. [op |-> "dispatch", s |-> conns[c].sent + 1, n |-> n] \in Dispatches
    BY <1>1, ConnectionType DEF Dispatches
  <2>2. Append(conns[c].inbox, [op |-> "dispatch", s |-> conns[c].sent + 1, n |-> n])
            \in Seq(Signals \cup Dispatches)
    BY <2>1, ConnectionType, DispatchWaits
  <2>3. conns[c] \in Connections /\ conns[c].sent + 1 \in Nat
    BY ConnectionType
  <2> DEFINE longer == Append(conns[c].inbox, [op |-> "dispatch", s |-> conns[c].sent + 1, n |-> n])
  <2>4. longer \in Seq(Signals \cup Dispatches)
    BY <2>2
  <2>5. Into(conns[c]) = [conns[c] EXCEPT !.sent = conns[c].sent + 1, !.inbox = longer]
    BY <2>3 DEF Connections
  <2> HIDE DEF longer, Into
  <2>6. QED
    BY <2>3, <2>4, <2>5 DEF Connections, longer
<1>4. /\ DOMAIN conns' = DOMAIN conns
      /\ \A c \in DOMAIN conns : conns'[c] \in {conns[c], Into(conns[c])}
  BY DEF Arrives, Dispatched
<1>5. \A c \in DOMAIN conns : conns'[c] \in Connections
  BY <1>3, <1>4, ConnectionType
<1>6. conns' \in Seq(Connections) /\ Len(conns') = Len(conns)
  <2>1. conns' = [c \in 1..Len(conns) |-> conns'[c]]
    BY <1>1, <1>4 DEF Arrives, Dispatched
  <2>2. conns' \in Seq(Connections)
    BY <1>1, <1>5, <2>1
  <2>3. QED
    <3>1. Len(conns') \in Nat /\ 1..Len(conns') = 1..Len(conns)
      BY <1>1, <1>4, <2>2, LenProperties
    <3>2. ~(Len(conns') < Len(conns)) /\ ~(Len(conns) < Len(conns'))
      BY <1>1, <3>1
    <3>3. QED
      BY <1>1, <2>2, <3>1, <3>2
<1>7. \A c \in DOMAIN conns' :
         /\ (conns'[c].over = "no") = (c = Here' /\ mode' # "down")
         /\ ConnOK(conns[c])'
  <2> SUFFICES ASSUME NEW c \in DOMAIN conns
      PROVE  (conns'[c].over = "no") = (c = Here' /\ mode' # "down") /\ ConnOK(conns[c])'
    BY <1>4
  <2>1. ConnOK(conns[c]) /\ conns[c].seq \in Nat /\ conns[c].sent \in Nat /\ conns[c].acked \in Nat
    BY ConnectionType
  <2>2. /\ conns'[c].over = conns[c].over /\ conns'[c].heart = conns[c].heart
        /\ conns'[c].acked = conns[c].acked /\ conns'[c].seq = conns[c].seq
        /\ conns'[c].sent \in {conns[c].sent, conns[c].sent + 1}
    BY <1>3, <1>4
  <2>3. ConnOK(conns[c])'
    BY <2>1, <2>2 DEF ConnOK
  <2>4. QED
    BY <1>6, <2>2, <2>3 DEF DcTypeOK, Here
<1> HIDE DEF Into
<1>8. ASSUME mode' # "down"
      PROVE  /\ conns' # <<>> /\ InboxOK(Conn)'
             /\ \A k \in Waiting(Conn'.inbox) :
                   \/ k \in Waiting(Conn.inbox) /\ Conn'.inbox[k] = Conn.inbox[k]
                   \/ Conn'.inbox[k].n = n
  <2> DEFINE frame == [op |-> "dispatch", s |-> Conn.sent + 1, n |-> n]
             inbox == Conn.inbox
  <2>1. Here \in DOMAIN conns /\ Here' = Here /\ conns' # <<>>
    BY <1>1, <1>4, <1>6, <1>8, LenProperties, EmptySeq DEF Here
  <2>2. /\ Conn'.seq = Conn.seq
        /\ \/ Conn'.sent = Conn.sent /\ Conn'.inbox = inbox
           \/ Conn'.sent = Conn.sent + 1 /\ Conn'.inbox = Append(inbox, frame)
    BY <1>3, <1>4, <2>1 DEF Conn
  <2>3. /\ Conn.sent \in Nat /\ Conn.seq \in Nat /\ Conn.seq <= Conn.sent
        /\ inbox \in Seq(Signals \cup Dispatches)
    BY <2>1, ConnectionType DEF Conn, ConnOK
  <2>4. frame \in Dispatches /\ frame.n = n /\ frame.s = Conn.sent + 1
    BY <1>1, <2>3 DEF Dispatches
  <2> HIDE DEF frame, inbox
  <2>5. /\ Waiting(Append(inbox, frame)) = Waiting(inbox) \cup {Len(inbox) + 1}
        /\ \A i \in Waiting(inbox) : Append(inbox, frame)[i] = inbox[i] /\ i \in 1..Len(inbox)
        /\ Append(inbox, frame)[Len(inbox) + 1] = frame
        /\ Len(inbox) \in Nat
    BY <2>3, <2>4, DispatchWaits
  <2>6. /\ {inbox[i].s : i \in Waiting(inbox)} = (Conn.seq + 1)..Conn.sent
        /\ \A i \in Waiting(inbox) : inbox[i].n \in 1..Len(posted)
        /\ \A i, j \in Waiting(inbox) : i < j => inbox[i].s < inbox[j].s /\ inbox[i].n < inbox[j].n
    BY <1>8 DEF InboxOK, inbox
  <2>7. CASE Conn'.sent = Conn.sent /\ Conn'.inbox = inbox
    BY <1>1, <1>2, <2>1, <2>2, <2>6, <2>7 DEF InboxOK, inbox
  <2>8. CASE Conn'.sent = Conn.sent + 1 /\ Conn'.inbox = Append(inbox, frame)
    <3>1. {Append(inbox, frame)[i].s : i \in Waiting(Append(inbox, frame))}
             = {inbox[i].s : i \in Waiting(inbox)} \cup {Conn.sent + 1}
      BY <2>4, <2>5
    <3>2. (Conn.seq + 1)..(Conn.sent + 1) = ((Conn.seq + 1)..Conn.sent) \cup {Conn.sent + 1}
      BY <2>3
    <3>3. \A i \in Waiting(inbox) : inbox[i].s \in (Conn.seq + 1)..Conn.sent
      BY <2>6
    <3>4. {Conn'.inbox[i].s : i \in Waiting(Conn'.inbox)} = (Conn'.seq + 1)..Conn'.sent
      BY <2>2, <2>6, <2>8, <3>1, <3>2
    <3>5. Len(posted) \in Nat /\ Len(posted') = n /\ n = Len(posted) + 1
      BY <1>1, <1>2, LenProperties
    <3>6. \A i \in Waiting(inbox) : /\ inbox[i].s < frame.s /\ inbox[i].n < frame.n
                                   /\ inbox[i].n \in 1..Len(posted') /\ i < Len(inbox) + 1
      BY <2>3, <2>4, <2>5, <2>6, <3>3, <3>5
    <3>7. frame.n \in 1..Len(posted')
      BY <2>4, <3>5
    <3>8. \A i \in Waiting(Conn'.inbox) : Conn'.inbox[i].n \in 1..Len(posted')
      BY <2>5, <2>8, <3>6, <3>7
    <3>9. ASSUME NEW i \in Waiting(Conn'.inbox), NEW j \in Waiting(Conn'.inbox), i < j
          PROVE  Conn'.inbox[i].s < Conn'.inbox[j].s /\ Conn'.inbox[i].n < Conn'.inbox[j].n
      <4>1. i \in Waiting(inbox)
        BY <2>5, <2>8, <3>6, <3>9
      <4>2. CASE j \in Waiting(inbox)
        BY <2>5, <2>6, <2>8, <3>9, <4>1, <4>2
      <4>3. CASE j = Len(inbox) + 1
        BY <2>5, <2>8, <3>6, <4>1, <4>3
      <4>4. QED
        BY <2>5, <2>8, <4>2, <4>3
    <3>10. InboxOK(Conn)'
      BY <3>4, <3>8, <3>9 DEF InboxOK
    <3>11. QED
      BY <2>1, <2>4, <2>5, <2>8, <3>10 DEF inbox
  <2>9. QED
    BY <2>2, <2>7, <2>8
<1>9. DealtOK'
  BY <1>1, <1>2, <1>8 DEF DealtOK
<1>10. QED
  BY <1>2, <1>6, <1>7, <1>8, <1>9

-----------------------------------------------------------------------------
(* Reading.                                                                 *)

\* What waits in an inbox whose first frame has been read.
LEMMA TailWaits ==
    ASSUME NEW inbox \in Seq(Signals \cup Dispatches), inbox # <<>>
    PROVE  /\ Tail(inbox) \in Seq(Signals \cup Dispatches)
           /\ Head(inbox) = inbox[1] /\ Head(inbox) \in Signals \cup Dispatches
           /\ 1 \in Waiting(inbox) <=> Head(inbox).op = "dispatch"
           /\ \A i \in Waiting(inbox) : i \in Nat \ {0} /\ (i # 1 => i - 1 \in Waiting(Tail(inbox)))
           /\ \A i \in Waiting(Tail(inbox)) :
                  i \in Nat \ {0} /\ i + 1 \in Waiting(inbox) /\ Tail(inbox)[i] = inbox[i + 1]
<1>1. /\ Tail(inbox) \in Seq(Signals \cup Dispatches) /\ Len(Tail(inbox)) = Len(inbox) - 1
      /\ \A i \in 1..Len(Tail(inbox)) : Tail(inbox)[i] = inbox[i + 1]
      /\ Head(inbox) \in Signals \cup Dispatches
  BY HeadTailProperties
<1>2. /\ DOMAIN inbox = 1..Len(inbox) /\ Len(inbox) \in Nat \ {0}
      /\ DOMAIN Tail(inbox) = 1..Len(Tail(inbox))
  BY <1>1, LenProperties, EmptySeq
<1>3. Head(inbox) = inbox[1]
  OBVIOUS
<1>4. QED
  BY <1>1, <1>2, <1>3 DEF Waiting

\* The connection that is read, and its types.
LEMMA Reading ==
    ASSUME DcInv, mode # "down"
    PROVE  /\ Here \in DOMAIN conns /\ Here = Len(conns) /\ conns \in Seq(Connections)
           /\ Conn = conns[Here] /\ Conn \in Connections /\ Conn.over = "no"
           /\ Conn.inbox \in Seq(Signals \cup Dispatches)
           /\ Conn.sent \in Nat /\ Conn.seq \in Nat /\ Conn.acked \in Nat
           /\ Conn.acked <= Conn.seq /\ Conn.seq <= Conn.sent
<1>1. conns # <<>> /\ conns \in Seq(Connections) /\ DcTypeOK
  BY DEF DcInv, DcTypeOK
<1>2. Here \in DOMAIN conns /\ Here = Len(conns)
  BY <1>1, LenProperties, EmptySeq DEF Here
<1>3. QED
  BY <1>1, <1>2, ConnectionType DEF Conn, DcInv, ConnOK, DcTypeOK

\* The connection that is read is replaced by one that the task still reads.
LEMMA ReplaceConn ==
    ASSUME DcInv, mode # "down", mode' # "down", NEW r \in Connections,
           conns' = [conns EXCEPT ![Here] = r], r.over = Conn.over,
           r.acked <= r.seq, r.seq <= r.sent
    PROVE  /\ conns' \in Seq(Connections) /\ Conn' = r /\ conns' # <<>>
           /\ \A c \in DOMAIN conns' : (conns'[c].over = "no") = (c = Here' /\ mode' # "down")
           /\ \A c \in DOMAIN conns' : ConnOK(conns[c])'
<1>1. /\ Here \in 1..Len(conns) /\ conns \in Seq(Connections)
      /\ Conn = conns[Here] /\ Conn.over = "no" /\ DOMAIN conns = 1..Len(conns)
  BY Reading, LenProperties
<1>2. /\ conns' \in Seq(Connections) /\ Len(conns') = Len(conns) /\ DOMAIN conns' = DOMAIN conns
      /\ conns'[Here] = r /\ \A c \in DOMAIN conns \ {Here} : conns'[c] = conns[c]
  BY <1>1, ExceptSeq
<1>3. Here' = Here
  BY <1>2 DEF Here
<1>4. Conn' = r /\ conns' # <<>>
  BY <1>1, <1>2, <1>3 DEF Conn
<1>5. \A c \in DOMAIN conns' : (conns'[c].over = "no") = (c = Here' /\ mode' # "down")
  BY <1>1, <1>2, <1>3 DEF DcInv, DcTypeOK
<1>6. \A c \in DOMAIN conns' : ConnOK(conns[c])'
  BY <1>1, <1>2 DEF DcInv, ConnOK
<1>7. QED
  BY <1>2, <1>4, <1>5, <1>6

\* A signal that is read leaves the dispatches where they are.
LEMMA SignalStep ==
    ASSUME DcInv, mode = "reading", Conn.inbox # <<>>, NextFrame.op # "dispatch",
           NEW r \in Connections, conns' = [conns EXCEPT ![Here] = r],
           r.over = Conn.over, r.sent = Conn.sent, r.seq = Conn.seq, r.acked <= r.seq,
           r.inbox = Tail(Conn.inbox),
           UNCHANGED <<posted, mode, taken, dealt, texts, troubles>>
    PROVE  DcInv'
<1> DEFINE inbox == Conn.inbox
<1>1. /\ inbox \in Seq(Signals \cup Dispatches) /\ Conn.seq <= Conn.sent
      /\ Conn.seq \in Nat /\ Conn.sent \in Nat
  BY Reading
<1>2. /\ Head(inbox).op # "dispatch"
      /\ 1 \in Waiting(inbox) <=> Head(inbox).op = "dispatch"
      /\ \A i \in Waiting(inbox) : i \in Nat \ {0} /\ (i # 1 => i - 1 \in Waiting(Tail(inbox)))
      /\ \A i \in Waiting(Tail(inbox)) :
            i \in Nat \ {0} /\ i + 1 \in Waiting(inbox) /\ Tail(inbox)[i] = inbox[i + 1]
  BY <1>1, TailWaits DEF NextFrame
<1>3. /\ conns' \in Seq(Connections) /\ Conn' = r /\ conns' # <<>>
      /\ \A c \in DOMAIN conns' : (conns'[c].over = "no") = (c = Here' /\ mode' # "down")
      /\ \A c \in DOMAIN conns' : ConnOK(conns[c])'
  BY <1>1, ReplaceConn
<1>4. DcTypeOK'
  BY <1>3 DEF DcInv, DcTypeOK
<1>5. /\ {inbox[i].s : i \in Waiting(inbox)} = (Conn.seq + 1)..Conn.sent
      /\ \A i \in Waiting(inbox) : inbox[i].n \in 1..Len(posted)
      /\ \A i, j \in Waiting(inbox) : i < j => inbox[i].s < inbox[j].s /\ inbox[i].n < inbox[j].n
      /\ \A i \in DOMAIN dealt, k \in Waiting(inbox) : dealt[i] < inbox[k].n
  BY DEF DcInv, InboxOK, DealtOK
<1> HIDE DEF inbox
<1>6. {Tail(inbox)[i].s : i \in Waiting(Tail(inbox))} = {inbox[i].s : i \in Waiting(inbox)}
  <2>1. ASSUME NEW i \in Waiting(inbox)
        PROVE  \E k \in Waiting(Tail(inbox)) : Tail(inbox)[k].s = inbox[i].s
    <3>1. i - 1 \in Waiting(Tail(inbox)) /\ (i - 1) + 1 = i
      BY <1>2
    <3>2. QED
      BY <1>2, <3>1
  <2>2. QED
    BY <1>2, <2>1
<1>7. InboxOK(Conn)'
  <2>1. \A i \in Waiting(Tail(inbox)) : Tail(inbox)[i].n \in 1..Len(posted)
    BY <1>2, <1>5
  <2>2. \A i, j \in Waiting(Tail(inbox)) : i < j =>
          Tail(inbox)[i].s < Tail(inbox)[j].s /\ Tail(inbox)[i].n < Tail(inbox)[j].n
    <3> TAKE i, j \in Waiting(Tail(inbox))
    <3> HAVE i < j
    <3>1. i + 1 \in Waiting(inbox) /\ j + 1 \in Waiting(inbox) /\ i + 1 < j + 1
      BY <1>2
    <3>2. QED
      BY <1>2, <1>5, <3>1
  <2>3. Conn'.inbox = Tail(inbox) /\ Conn'.seq = Conn.seq /\ Conn'.sent = Conn.sent
    BY <1>3 DEF inbox
  <2>4. QED
    BY <1>5, <1>6, <2>1, <2>2, <2>3 DEF InboxOK
<1>8. DealtOK'
  <2>1. \A i \in DOMAIN dealt, k \in Waiting(Tail(inbox)) : dealt[i] < Tail(inbox)[k].n
    BY <1>2, <1>5
  <2>2. QED
    BY <1>3, <2>1 DEF DcInv, DealtOK, inbox
<1>9. TextsOK'
  BY DEF DcInv, TextsOK, TextOK, Current, Text, Unsent
<1>10. QED
  BY <1>3, <1>4, <1>7, <1>8, <1>9 DEF DcInv

\* A connection that ends leaves nothing to be read; what is said of replies is
\* said by the callers.
LEMMA EndStep ==
    ASSUME DcInv, mode # "down", mode' = "down", taken' = 0, NEW r \in Connections,
           conns' = [conns EXCEPT ![Here] = r], r.over # "no",
           r.acked = Conn.acked, r.seq = Conn.seq, r.sent = Conn.sent,
           r.over = "ended" => ~r.heart,
           UNCHANGED <<posted, dealt>>, troubles' \in 0..MaxFaults,
           texts' \in Seq([reply : Seq(Nat), sent : Seq(Nat), longest : Nat, cut : BOOLEAN]),
           Len(texts') = Len(texts), TextsOK'
    PROVE  DcInv'
<1>1. /\ Here \in 1..Len(conns) /\ conns \in Seq(Connections)
      /\ Conn = conns[Here] /\ DOMAIN conns = 1..Len(conns)
      /\ Conn.acked <= Conn.seq /\ Conn.seq <= Conn.sent
  BY Reading, LenProperties
<1>2. /\ conns' \in Seq(Connections) /\ Len(conns') = Len(conns) /\ DOMAIN conns' = DOMAIN conns
      /\ conns'[Here] = r /\ \A c \in DOMAIN conns \ {Here} : conns'[c] = conns[c]
  BY <1>1, ExceptSeq, LenProperties
<1>3. Len(posted) \in Nat
  BY LenProperties DEF DcInv, DcTypeOK
<1>4. DcTypeOK'
  BY <1>1, <1>2, <1>3 DEF DcInv, DcTypeOK, Here
<1>5. \A c \in DOMAIN conns' : ConnOK(conns[c])'
  BY <1>1, <1>2 DEF DcInv, ConnOK
<1>6. DealtOK'
  BY DEF DcInv, DealtOK
<1>7. QED
  BY <1>4, <1>5, <1>6 DEF DcInv

\* What leaves a connection through an error.
LEMMA LeaveStep ==
    ASSUME DcInv, mode # "down", LeaveByError(conns), UNCHANGED <<posted, dealt>>,
           troubles' \in 0..MaxFaults,
           texts' \in Seq([reply : Seq(Nat), sent : Seq(Nat), longest : Nat, cut : BOOLEAN]),
           Len(texts') = Len(texts), TextsOK'
    PROVE  DcInv'
<1> DEFINE r == [Conn EXCEPT !.over = "error", !.inbox = <<>>]
<1>1. Conn \in Connections /\ Conn = conns[Here]
  BY Reading
<1>2. conns' = [conns EXCEPT ![Here] = r]
  BY <1>1 DEF LeaveByError
<1>3. <<>> \in Seq(Signals \cup Dispatches)
  BY EmptySeq
<1>4. /\ r \in Connections /\ r.over = "error" /\ r.acked = Conn.acked
      /\ r.seq = Conn.seq /\ r.sent = Conn.sent
  BY <1>1, <1>3 DEF Connections
<1> HIDE DEF r
<1>5. QED
  BY <1>2, <1>4, EndStep DEF LeaveByError

\* Frames that are no dispatches, and the end of the stream.
LEMMA ReadStep ==
    ASSUME DcInv, ReadHello \/ ReadBeat \/ ReadLeave \/ ReadEnd
    PROVE  DcInv'
<1>1. /\ mode = "reading" /\ Conn \in Connections /\ Conn = conns[Here]
      /\ Conn.acked \in Nat /\ Conn.seq \in Nat /\ Conn.acked <= Conn.seq
  BY Reading DEF ReadHello, ReadBeat, ReadLeave, ReadEnd, Reads
<1>2. /\ troubles \in 0..MaxFaults /\ TextsOK
      /\ texts \in Seq([reply : Seq(Nat), sent : Seq(Nat), longest : Nat, cut : BOOLEAN])
  BY DEF DcInv, DcTypeOK
<1>3. ASSUME Conn.inbox # <<>>
      PROVE  Tail(Conn.inbox) \in Seq(Signals \cup Dispatches)
  BY <1>1, <1>3, Reading, TailWaits
<1>4. ASSUME UNCHANGED texts, mode' = "down" PROVE TextsOK'
  BY <1>1, <1>2, <1>4 DEF TextsOK, TextOK, Current, Unsent
<1>5. ASSUME LeaveByError(conns), UNCHANGED <<posted, dealt, texts, troubles>> PROVE DcInv'
  BY <1>1, <1>2, <1>4, <1>5, LeaveStep DEF LeaveByError
<1>6. CASE ReadHello
  <2> DEFINE r == [Conn EXCEPT !.inbox = Tail(@), !.asked = TRUE, !.heart = TRUE]
  <2>1. conns' = [conns EXCEPT ![Here] = r] /\ NextFrame.op # "dispatch" /\ Conn.inbox # <<>>
    BY <1>1, <1>6 DEF ReadHello, Reads, Rest
  <2>2. /\ r \in Connections /\ r.over = Conn.over /\ r.sent = Conn.sent /\ r.seq = Conn.seq
        /\ r.acked = Conn.acked /\ r.inbox = Tail(Conn.inbox)
    BY <1>1, <1>3, <2>1 DEF Connections
  <2> HIDE DEF r
  <2>3. QED
    BY <1>1, <1>6, <2>1, <2>2, SignalStep DEF ReadHello
<1>7. CASE ReadBeat /\ Conn.writer
  <2> DEFINE r == [Conn EXCEPT !.inbox = Tail(@), !.acked = Conn.seq]
  <2>1. conns' = [conns EXCEPT ![Here] = r] /\ NextFrame.op # "dispatch" /\ Conn.inbox # <<>>
    BY <1>1, <1>7 DEF ReadBeat, Reads, Rest
  <2>2. /\ r \in Connections /\ r.over = Conn.over /\ r.sent = Conn.sent /\ r.seq = Conn.seq
        /\ r.acked = Conn.seq /\ r.inbox = Tail(Conn.inbox)
    BY <1>1, <1>3, <2>1 DEF Connections
  <2> HIDE DEF r
  <2>3. r.acked <= r.seq /\ UNCHANGED <<posted, mode, taken, dealt, texts, troubles>>
    BY <1>1, <1>7, <2>2 DEF ReadBeat
  <2>4. QED
    BY <1>1, <2>1, <2>2, <2>3, SignalStep
<1>8. CASE ReadBeat /\ ~Conn.writer
  BY <1>5, <1>8 DEF ReadBeat
<1>9. CASE ReadLeave
  BY <1>5, <1>9 DEF ReadLeave
<1>10. CASE ReadEnd
  <2>1. CASE LeaveByError(conns)
    BY <1>5, <1>10, <2>1 DEF ReadEnd
  <2>2. CASE /\ mode' = "down" /\ UNCHANGED taken
             /\ conns' = [conns EXCEPT ![Here].over = "ended",
                                       ![Here].writer = FALSE, ![Here].heart = FALSE]
    <3> DEFINE r == [Conn EXCEPT !.over = "ended", !.writer = FALSE, !.heart = FALSE]
    <3>1. conns' = [conns EXCEPT ![Here] = r]
      BY <1>1, <2>2
    <3>2. /\ r \in Connections /\ r.over = "ended" /\ r.acked = Conn.acked
          /\ r.seq = Conn.seq /\ r.sent = Conn.sent /\ ~r.heart
      BY <1>1 DEF Connections
    <3> HIDE DEF r
    <3>3. taken' = 0
      BY <1>1, <2>2 DEF DcInv, DcTypeOK
    <3>4. QED
      BY <1>1, <1>2, <1>4, <1>10, <2>2, <3>1, <3>2, <3>3, EndStep DEF ReadEnd
  <2>3. QED
    BY <1>10, <2>1, <2>2 DEF ReadEnd
<1>11. QED
  BY <1>6, <1>7, <1>8, <1>9, <1>10

\* A new connection has nothing that waits.
LEMMA OpenStep == ASSUME DcInv, OpenGateway PROVE DcInv'
<1> USE DEF DcInv, OpenGateway
<1>1. <<[op |-> "hello"]>> \in Seq(Signals \cup Dispatches)
  BY DEF Signals
<1>2. NewConn \in Connections
  BY <1>1 DEF NewConn, Connections
<1>3. conns \in Seq(Connections) /\ Len(conns) \in Nat /\ DOMAIN conns = 1..Len(conns)
  BY LenProperties DEF DcTypeOK
<1>4. /\ conns' \in Seq(Connections) /\ Len(conns') = Len(conns) + 1
      /\ \A c \in 1..Len(conns) : conns'[c] = conns[c]
      /\ conns'[Len(conns) + 1] = NewConn
  BY <1>2, <1>3, AppendProperties
<1>5. DOMAIN conns' = 1..(Len(conns) + 1) /\ Here' = Len(conns) + 1 /\ Conn' = NewConn
  BY <1>4, LenProperties DEF Here, Conn
<1>6. DcTypeOK'
  BY <1>3, <1>4, <1>5 DEF DcTypeOK, NewConn
<1>7. \A c \in DOMAIN conns' : ConnOK(conns[c])'
  BY <1>3, <1>4, <1>5 DEF ConnOK, NewConn
<1>8. Waiting(Conn'.inbox) = {}
  BY <1>5 DEF NewConn, Waiting
<1>9. Conn'.seq = 0 /\ Conn'.sent = 0
  BY <1>5 DEF NewConn
<1>10. conns' # <<>> /\ InboxOK(Conn)'
  BY <1>3, <1>4, <1>8, <1>9 DEF InboxOK
<1>11. DealtOK'
  BY <1>8 DEF DealtOK
<1>12. TextsOK'
  BY DEF TextsOK, TextOK, Current, Unsent, Text
<1>13. QED
  BY <1>6, <1>7, <1>10, <1>11, <1>12

\* A dispatch that is read is the first of those that wait, and everything
\* that turns were taken on came before it.
LEMMA MessageStep == ASSUME DcInv, ReadMessage PROVE DcInv'
<1> DEFINE inbox == Conn.inbox
           frame == Head(inbox)
           r == [Conn EXCEPT !.inbox = Tail(inbox), !.seq = frame.s]
<1>1. /\ mode = "reading" /\ Conn \in Connections /\ Conn = conns[Here]
      /\ inbox \in Seq(Signals \cup Dispatches) /\ inbox # <<>> /\ frame.op = "dispatch"
      /\ Conn.seq \in Nat /\ Conn.sent \in Nat /\ Conn.acked \in Nat
      /\ Conn.acked <= Conn.seq /\ Conn.seq <= Conn.sent
  BY Reading DEF ReadMessage, Reads, NextFrame
<1>2. conns' = [conns EXCEPT ![Here] = r]
  BY <1>1 DEF ReadMessage, Rest, NextFrame
<1>3. /\ Tail(inbox) \in Seq(Signals \cup Dispatches)
      /\ frame = inbox[1] /\ frame \in Signals \cup Dispatches
      /\ 1 \in Waiting(inbox)
      /\ \A i \in Waiting(inbox) : i \in Nat \ {0} /\ (i # 1 => i - 1 \in Waiting(Tail(inbox)))
      /\ \A i \in Waiting(Tail(inbox)) :
            i \in Nat \ {0} /\ i + 1 \in Waiting(inbox) /\ Tail(inbox)[i] = inbox[i + 1]
  BY <1>1, TailWaits
<1>4. /\ {inbox[i].s : i \in Waiting(inbox)} = (Conn.seq + 1)..Conn.sent
      /\ \A i \in Waiting(inbox) : inbox[i].n \in 1..Len(posted)
      /\ \A i, j \in Waiting(inbox) : i < j => inbox[i].s < inbox[j].s /\ inbox[i].n < inbox[j].n
      /\ \A i \in DOMAIN dealt, k \in Waiting(inbox) : dealt[i] < inbox[k].n
  BY <1>1 DEF DcInv, InboxOK, DealtOK
<1>5. frame.s \in Nat /\ frame.n \in Nat
  BY <1>1, <1>3 DEF Signals, Dispatches
<1>6. /\ r \in Connections /\ r.over = Conn.over /\ r.sent = Conn.sent /\ r.seq = frame.s
      /\ r.acked = Conn.acked /\ r.inbox = Tail(inbox)
  BY <1>1, <1>3, <1>5 DEF Connections
<1> HIDE DEF r, frame, inbox
\* The first that waits has the number after the last one read.
<1>7. frame.s = Conn.seq + 1 /\ frame.s <= Conn.sent
  <2>1. frame.s \in (Conn.seq + 1)..Conn.sent
    BY <1>3, <1>4
  <2>2. Conn.seq + 1 \in (Conn.seq + 1)..Conn.sent
    BY <1>1, <1>5, <2>1
  <2>3. PICK i \in Waiting(inbox) : inbox[i].s = Conn.seq + 1
    BY <1>4, <2>2
  <2>4. i = 1 \/ 1 < i
    BY <1>3
  <2>5. i # 1 => frame.s < inbox[i].s
    BY <1>3, <1>4, <2>4
  <2>6. QED
    BY <1>1, <1>3, <1>5, <2>1, <2>3, <2>5
<1>8. {Tail(inbox)[i].s : i \in Waiting(Tail(inbox))} = (frame.s + 1)..Conn.sent
  <2>1. ASSUME NEW i \in Waiting(Tail(inbox))
        PROVE  Tail(inbox)[i].s \in (frame.s + 1)..Conn.sent
    <3>1. i \in Nat \ {0} /\ i + 1 \in Waiting(inbox) /\ Tail(inbox)[i] = inbox[i + 1]
      BY <1>3
    <3>2. 1 < i + 1
      BY <3>1
    <3>3. frame.s < inbox[i + 1].s /\ inbox[i + 1].s \in (Conn.seq + 1)..Conn.sent
      BY <1>3, <1>4, <3>1, <3>2
    <3>4. inbox[i + 1].s \in (frame.s + 1)..Conn.sent
      BY <1>1, <1>5, <3>3
    <3>5. QED
      BY <3>1, <3>4
  <2>2. ASSUME NEW s \in (frame.s + 1)..Conn.sent
        PROVE  \E i \in Waiting(Tail(inbox)) : Tail(inbox)[i].s = s
    <3>1. s \in (Conn.seq + 1)..Conn.sent /\ s # frame.s
      BY <1>1, <1>7, <2>2
    <3>2. PICK k \in Waiting(inbox) : inbox[k].s = s
      BY <1>4, <3>1
    <3>3. k # 1 /\ k - 1 \in Waiting(Tail(inbox)) /\ (k - 1) + 1 = k
      BY <1>3, <3>1, <3>2
    <3>4. QED
      BY <1>3, <3>2, <3>3
  <2>3. QED
    BY <2>1, <2>2
<1>9. /\ conns' \in Seq(Connections) /\ Conn' = r /\ conns' # <<>> /\ mode' # "down"
      /\ \A c \in DOMAIN conns' : (conns'[c].over = "no") = (c = Here' /\ mode' # "down")
      /\ \A c \in DOMAIN conns' : ConnOK(conns[c])'
  <2>1. mode' # "down"
    BY <1>1 DEF ReadMessage
  <2>2. r.acked <= r.seq /\ r.seq <= r.sent
    BY <1>1, <1>6, <1>7
  <2>3. QED
    BY <1>1, <1>2, <1>6, <2>1, <2>2, ReplaceConn
<1>10. InboxOK(Conn)'
  <2>1. \A i \in Waiting(Tail(inbox)) : Tail(inbox)[i].n \in 1..Len(posted)
    BY <1>3, <1>4
  <2>2. \A i, j \in Waiting(Tail(inbox)) : i < j =>
          Tail(inbox)[i].s < Tail(inbox)[j].s /\ Tail(inbox)[i].n < Tail(inbox)[j].n
    <3> TAKE i, j \in Waiting(Tail(inbox))
    <3> HAVE i < j
    <3>1. i + 1 \in Waiting(inbox) /\ j + 1 \in Waiting(inbox) /\ i + 1 < j + 1
      BY <1>3
    <3>2. QED
      BY <1>3, <1>4, <3>1
  <2>3. Conn'.inbox = Tail(inbox) /\ Conn'.seq = frame.s /\ Conn'.sent = Conn.sent
    BY <1>6, <1>9
  <2>4. posted' = posted
    BY DEF ReadMessage
  <2>5. QED
    BY <1>8, <2>1, <2>2, <2>3, <2>4 DEF InboxOK
<1>11. \A k \in Waiting(Conn'.inbox) : frame.n < Conn'.inbox[k].n
  <2> SUFFICES ASSUME NEW k \in Waiting(Tail(inbox)) PROVE frame.n < Tail(inbox)[k].n
    BY <1>6, <1>9
  <2>1. k \in Nat \ {0} /\ k + 1 \in Waiting(inbox) /\ Tail(inbox)[k] = inbox[k + 1]
    BY <1>3
  <2>2. 1 < k + 1
    BY <2>1
  <2>3. QED
    BY <1>3, <1>4, <2>1, <2>2
<1>12. \A i \in DOMAIN dealt, k \in Waiting(Conn'.inbox) : dealt[i] < Conn'.inbox[k].n
  <2> SUFFICES ASSUME NEW i \in DOMAIN dealt, NEW k \in Waiting(Tail(inbox))
      PROVE  dealt[i] < Tail(inbox)[k].n
    BY <1>6, <1>9
  <2>1. k + 1 \in Waiting(inbox) /\ Tail(inbox)[k] = inbox[k + 1]
    BY <1>3
  <2>2. QED
    BY <1>4, <2>1
<1>13. \A i \in DOMAIN dealt : dealt[i] < frame.n
  BY <1>3, <1>4
<1>14. /\ posted \in Seq(Posts \cup {Answer(m) : m \in Posts}) /\ Len(posted) \in Nat
       /\ dealt \in Seq(Nat) /\ DOMAIN dealt = 1..Len(dealt) /\ Len(dealt) \in Nat
       /\ texts \in Seq([reply : Seq(Nat), sent : Seq(Nat), longest : Nat, cut : BOOLEAN])
       /\ DOMAIN texts = 1..Len(texts) /\ Len(texts) = Len(dealt)
       /\ frame.n \in 1..Len(posted)
  BY <1>3, <1>4, LenProperties DEF DcInv, DcTypeOK
<1>15. CASE ~Heard(posted[frame.n])
  <2>1. UNCHANGED <<posted, mode, taken, dealt, texts, troubles>>
    BY <1>15 DEF ReadMessage, NextFrame, frame, inbox
  <2>2. DcTypeOK'
    BY <1>9, <2>1 DEF DcInv, DcTypeOK
  <2>3. DealtOK'
    BY <1>1, <1>12, <2>1 DEF DcInv, DealtOK
  <2>4. TextsOK'
    BY <2>1 DEF DcInv, TextsOK, TextOK, Current, Text, Unsent
  <2>5. QED
    BY <1>9, <1>10, <2>2, <2>3, <2>4 DEF DcInv
<1>16. CASE Heard(posted[frame.n])
  <2>1. /\ mode' = "turn" /\ taken' = frame.n /\ UNCHANGED <<posted, troubles>>
        /\ dealt' = Append(dealt, frame.n) /\ texts' = Append(texts, NewText)
    BY <1>16 DEF ReadMessage, NextFrame, frame, inbox
  <2>2. posted[frame.n].author # Self
    BY <1>16 DEF Heard
  <2>3. /\ dealt' \in Seq(Nat) /\ Len(dealt') = Len(dealt) + 1 /\ DOMAIN dealt' = 1..(Len(dealt) + 1)
        /\ \A i \in 1..Len(dealt) : dealt'[i] = dealt[i]
        /\ dealt'[Len(dealt) + 1] = frame.n
    BY <1>14, <1>5, <2>1, AppendProperties, LenProperties
  <2>4. NewText \in [reply : Seq(Nat), sent : Seq(Nat), longest : Nat, cut : BOOLEAN]
    BY EmptySeq DEF NewText
  <2>5. /\ texts' \in Seq([reply : Seq(Nat), sent : Seq(Nat), longest : Nat, cut : BOOLEAN])
        /\ Len(texts') = Len(texts) + 1 /\ DOMAIN texts' = 1..(Len(texts) + 1)
        /\ \A i \in 1..Len(texts) : texts'[i] = texts[i]
        /\ texts'[Len(texts) + 1] = NewText
    BY <1>14, <2>1, <2>4, AppendProperties, LenProperties
  <2>6. DcTypeOK'
    BY <1>9, <1>14, <2>1, <2>3, <2>5 DEF DcInv, DcTypeOK
  <2>7. /\ 1..(Len(dealt) + 1) = 1..Len(dealt) \cup {Len(dealt) + 1}
         /\ 1..(Len(texts) + 1) = 1..Len(texts) \cup {Len(texts) + 1}
         /\ \A i, j \in 1..(Len(dealt) + 1) : i < j => i \in 1..Len(dealt)
    BY <1>14
  <2>8. DealtOK'
    <3>1. \A i \in DOMAIN dealt' : dealt'[i] \in 1..Len(posted') /\ posted'[dealt'[i]].author # Self
      <4>1. \A i \in 1..Len(dealt) : dealt[i] \in 1..Len(posted) /\ posted[dealt[i]].author # Self
        BY <1>14 DEF DcInv, DealtOK
      <4>2. posted' = posted
        BY <2>1
      <4>3. QED
        BY <1>14, <2>2, <2>3, <2>7, <4>1, <4>2
    <3>2. \A i, j \in DOMAIN dealt' : i < j => dealt'[i] < dealt'[j]
      BY <1>13, <1>14, <2>3, <2>7 DEF DcInv, DealtOK
    <3>3. \A i \in DOMAIN dealt', k \in Waiting(Conn'.inbox) : dealt'[i] < Conn'.inbox[k].n
      BY <1>11, <1>12, <1>14, <2>3, <2>7
    <3>4. QED
      BY <1>14, <2>1, <2>2, <3>1, <3>2, <3>3 DEF DealtOK
  <2>9. TextsOK'
    <3>1. TextOK(NewText) /\ ~NewText.cut
      BY DiscordAssumption DEF TextOK, NewText
    <3>2. \A k \in DOMAIN texts' : TextOK(texts'[k])
      <4>1. \A k \in 1..Len(texts) : TextOK(texts[k])
        BY <1>14 DEF DcInv, TextsOK
      <4>2. ASSUME NEW k \in 1..(Len(texts) + 1)
            PROVE  texts'[k] = NewText \/ (k \in 1..Len(texts) /\ texts'[k] = texts[k])
        <5>1. k \in 1..Len(texts) \/ k = Len(texts) + 1
          BY <2>7
        <5>2. QED
          BY <2>5, <5>1
      <4>3. QED
        BY <2>5, <3>1, <4>1, <4>2
    <3>3. \A k \in 1..Len(texts) : texts[k].cut = (Unsent(texts[k]) # {})
      BY <1>1, <1>14 DEF DcInv, TextsOK, Current
    <3>4. Current' /\ Text' = NewText /\ texts' # <<>>
      <4>1. Len(texts') # 0
        BY <1>14, <2>5
      <4>2. QED
        BY <2>1, <2>5, <4>1 DEF Current, Text
    <3>5. \A k \in DOMAIN texts' : texts'[k].cut = (Unsent(texts'[k]) # {}) \/ k = Len(texts')
      BY <1>14, <2>5, <2>7, <3>3
    <3>6. \A k \in DOMAIN texts' : TextOK(texts[k])' /\ Unsent(texts[k])' = Unsent(texts'[k])
      BY <3>2 DEF TextOK, Unsent
    <3>7. QED
      BY <3>1, <3>4, <3>5, <3>6 DEF TextsOK
  <2>10. QED
    BY <1>9, <1>10, <2>6, <2>8, <2>9 DEF DcInv
<1>17. QED
  BY <1>15, <1>16

-----------------------------------------------------------------------------
(* Replies.                                                                 *)

TextType == [reply : Seq(Nat), sent : Seq(Nat), longest : Nat, cut : BOOLEAN]

\* The reply that the task is at.
LEMMA CurrentText ==
    ASSUME DcInv, Current
    PROVE  /\ texts \in Seq(TextType) /\ Len(texts) \in DOMAIN texts /\ DOMAIN texts = 1..Len(texts)
           /\ Len(texts) \in Nat \ {0}
           /\ Text = texts[Len(texts)] /\ Text \in TextType /\ TextOK(Text) /\ ~Text.cut
           /\ \A k \in 1..Len(texts) : k # Len(texts) =>
                 TextOK(texts[k]) /\ texts[k].cut = (Unsent(texts[k]) # {})
<1>1. texts \in Seq(TextType) /\ texts # <<>>
  BY DEF DcInv, DcTypeOK, TextsOK, TextType
<1>2. DOMAIN texts = 1..Len(texts) /\ Len(texts) \in Nat \ {0}
  BY <1>1, LenProperties, EmptySeq
<1>3. Len(texts) \in 1..Len(texts)
  BY <1>2
<1>4. Text \in TextType
  BY <1>1, <1>3, ElementOfSeq DEF Text
<1>5. QED
  BY <1>1, <1>2, <1>3, <1>4 DEF DcInv, TextsOK, Text

\* Replacing the current reply by one that is in order.
LEMMA ReplaceText ==
    ASSUME DcInv, Current, NEW t \in TextType, texts' = [texts EXCEPT ![Len(texts)] = t],
           TextOK(t), t.cut = (Unsent(t) # {}) \/ Current', Current' => ~t.cut
    PROVE  texts' \in Seq(TextType) /\ Len(texts') = Len(texts) /\ TextsOK'
<1>1. /\ texts \in Seq(TextType) /\ Len(texts) \in 1..Len(texts) /\ DOMAIN texts = 1..Len(texts)
      /\ Len(texts) \in Nat \ {0}
      /\ \A k \in 1..Len(texts) : k # Len(texts) =>
            TextOK(texts[k]) /\ texts[k].cut = (Unsent(texts[k]) # {})
  BY CurrentText
<1>2. /\ texts' \in Seq(TextType) /\ Len(texts') = Len(texts) /\ DOMAIN texts' = 1..Len(texts)
      /\ \A k \in 1..Len(texts) : texts'[k] = IF k = Len(texts) THEN t ELSE texts[k]
  <2>1. /\ texts' \in Seq(TextType) /\ Len(texts') = Len(texts)
        /\ \A k \in 1..Len(texts) : texts'[k] = IF k = Len(texts) THEN t ELSE texts[k]
    <3>1. texts \in Seq(TextType) /\ Len(texts) \in 1..Len(texts)
      BY <1>1
    <3>2. QED
      BY <3>1, ExceptSeq
  <2>2. QED
    BY <2>1, LenProperties
<1>3. \A k \in DOMAIN texts' : TextOK(texts'[k])
  BY <1>1, <1>2
<1>4. \A k \in DOMAIN texts' :
         texts'[k].cut = (Unsent(texts'[k]) # {}) \/ (k = Len(texts') /\ Current')
  BY <1>1, <1>2
<1>5. Text' = t /\ texts' # <<>>
  <2>1. Text' = texts'[Len(texts)]
    BY <1>2 DEF Text
  <2>2. Len(texts') # 0
    BY <1>1, <1>2
  <2>3. QED
    BY <1>1, <1>2, <2>1, <2>2
<1>6. \A k \in DOMAIN texts' : TextOK(texts[k])' /\ Unsent(texts[k])' = Unsent(texts'[k])
  BY <1>3 DEF TextOK, Unsent
<1>7. QED
  BY <1>2, <1>4, <1>5, <1>6 DEF TextsOK

\* The reply of a turn begins with nothing sent.
LEMMA DoneStep == ASSUME DcInv, TurnDone PROVE DcInv'
<1>1. mode = "turn" /\ mode' = "sending" /\ Current /\ Current'
      /\ UNCHANGED <<posted, conns, taken, dealt, troubles>>
  BY DEF TurnDone, Current
<1>2. PICK r \in Replies \cup {Failure} :
          texts' = [texts EXCEPT ![Len(texts)] = [Text EXCEPT !.reply = r, !.sent = [p \in DOMAIN r |-> 0]]]
  BY DEF TurnDone, Tells
<1>3. r \in Seq(Nat)
  BY DiscordAssumption
<1> DEFINE none == [p \in DOMAIN r |-> 0]
           t == [Text EXCEPT !.reply = r, !.sent = none]
<1>4. none \in Seq(Nat) /\ DOMAIN none = DOMAIN r /\ \A p \in DOMAIN r : none[p] = 0
  BY <1>3, LenProperties
<1>5. /\ Text \in TextType /\ TextOK(Text) /\ ~Text.cut /\ Text = texts[Len(texts)]
      /\ Len(texts) \in DOMAIN texts
  BY <1>1, CurrentText
<1>6. texts' = [texts EXCEPT ![Len(texts)] = t]
  BY <1>2, <1>5
<1> HIDE DEF none
<1>7. /\ t \in TextType /\ t.reply = r /\ t.sent = none /\ t.longest = Text.longest /\ ~t.cut
  BY <1>3, <1>4, <1>5 DEF TextType
<1> HIDE DEF t
<1>8. \A p \in DOMAIN r : r[p] \in Nat
  BY <1>3, LenProperties
<1>9. TextOK(t)
  BY <1>4, <1>5, <1>7, <1>8 DEF TextOK
<1>10. texts' \in Seq(TextType) /\ Len(texts') = Len(texts) /\ TextsOK'
  BY <1>1, <1>6, <1>7, <1>9, ReplaceText
<1>11. DcTypeOK'
  BY <1>1, <1>10 DEF DcInv, DcTypeOK, Here, TextType
<1>12. DealtOK'
  BY <1>1 DEF DcInv, DealtOK, Conn, Here, Waiting
<1>13. \A c \in DOMAIN conns' : ConnOK(conns[c])'
  BY <1>1 DEF DcInv, ConnOK
<1>14. conns' # <<>> /\ InboxOK(Conn)'
  BY <1>1 DEF DcInv, InboxOK, Conn, Here, Waiting
<1>15. QED
  BY <1>10, <1>11, <1>12, <1>13, <1>14 DEF DcInv

\* The reply is out.
LEMMA RepliedStep == ASSUME DcInv, Replied PROVE DcInv'
<1>1. /\ mode = "sending" /\ mode' = "reading" /\ taken' = 0 /\ Current /\ ~Current'
      /\ UNCHANGED <<posted, conns, dealt, texts, troubles>> /\ Unsent(Text) = {}
  BY DEF Replied, Current
<1>2. Len(posted) \in Nat
  BY LenProperties DEF DcInv, DcTypeOK
<1>3. DcTypeOK'
  BY <1>1, <1>2 DEF DcInv, DcTypeOK, Here
<1>4. DealtOK'
  BY <1>1 DEF DcInv, DealtOK, Conn, Here, Waiting
<1>5. \A c \in DOMAIN conns' : ConnOK(conns[c])'
  BY <1>1 DEF DcInv, ConnOK
<1>6. conns' # <<>> /\ InboxOK(Conn)'
  BY <1>1 DEF DcInv, InboxOK, Conn, Here, Waiting
<1>7. TextsOK'
  <2>1. \A k \in DOMAIN texts : texts[k].cut = (Unsent(texts[k]) # {})
    <3>1. /\ ~Text.cut /\ Text = texts[Len(texts)] /\ DOMAIN texts = 1..Len(texts)
          /\ \A k \in 1..Len(texts) : k # Len(texts) => texts[k].cut = (Unsent(texts[k]) # {})
          /\ Text \in TextType
      BY <1>1, CurrentText
    <3>2. texts[Len(texts)].cut = (Unsent(texts[Len(texts)]) # {})
      BY <1>1, <3>1 DEF TextType
    <3>3. QED
      BY <3>1, <3>2
  <2>2. QED
    BY <1>1, <2>1 DEF DcInv, TextsOK, TextOK, Unsent
<1>8. QED
  BY <1>3, <1>4, <1>5, <1>6, <1>7 DEF DcInv

\* A piece of it cannot be sent.
LEMMA SendFailsStep == ASSUME DcInv, SendFails PROVE DcInv'
<1> DEFINE t == [Text EXCEPT !.cut = TRUE]
<1>1. mode = "sending" /\ mode' = "down" /\ Current /\ ~Current' /\ Unsent(Text) # {}
  BY DEF SendFails, Current, LeaveByError
<1>2. /\ Text \in TextType /\ TextOK(Text) /\ Text = texts[Len(texts)]
  BY <1>1, CurrentText
<1>3. texts' = [texts EXCEPT ![Len(texts)] = t]
  BY <1>2 DEF SendFails
<1>4. /\ t \in TextType /\ t.reply = Text.reply /\ t.sent = Text.sent /\ t.longest = Text.longest
      /\ t.cut
  BY <1>2 DEF TextType
<1> HIDE DEF t
<1>5. TextOK(t) /\ Unsent(t) # {}
  BY <1>1, <1>2, <1>4 DEF TextOK, Unsent
<1>6. texts' \in Seq(TextType) /\ Len(texts') = Len(texts) /\ TextsOK'
  BY <1>1, <1>3, <1>4, <1>5, ReplaceText
<1>7. troubles' \in 0..MaxFaults
  BY DiscordAssumption DEF SendFails, Fault, DcInv, DcTypeOK
<1>8. QED
  BY <1>1, <1>6, <1>7, LeaveStep DEF SendFails, TextType

\* The next piece is the beginning of what is left of the first message that
\* is not out.
LEMMA ChunkStep == ASSUME DcInv, SendChunk PROVE DcInv'
<1>1. /\ mode = "sending" /\ Current /\ Current' /\ UNCHANGED <<mode, taken, dealt, troubles>>
      /\ Arrives(Answer(posted[taken]))
  BY DEF SendChunk, Current
<1>2. PICK p \in Unsent(Text) :
         LET piece == Piece(Text.reply[p] - Text.sent[p])
         IN  /\ \A q \in Unsent(Text) : p <= q
             /\ texts' = [texts EXCEPT ![Len(texts)] =
                   [Text EXCEPT !.sent[p] = @ + piece,
                                !.longest = IF @ < piece THEN piece ELSE @]]
  BY DEF SendChunk
<1> DEFINE piece == Piece(Text.reply[p] - Text.sent[p])
           t == [Text EXCEPT !.sent = [Text.sent EXCEPT ![p] = @ + piece],
                             !.longest = IF @ < piece THEN piece ELSE @]
<1>3. /\ Text \in TextType /\ TextOK(Text) /\ ~Text.cut /\ Text = texts[Len(texts)]
  BY <1>1, CurrentText
<1>4. /\ Text.reply \in Seq(Nat) /\ Text.sent \in Seq(Nat) /\ Text.longest \in Nat
      /\ DOMAIN Text.sent = DOMAIN Text.reply /\ DOMAIN Text.reply = 1..Len(Text.reply)
      /\ DOMAIN Text.sent = 1..Len(Text.sent) /\ Len(Text.reply) \in Nat
      /\ \A q \in DOMAIN Text.reply : Text.reply[q] \in Nat /\ Text.sent[q] \in Nat
  BY <1>3, LenProperties DEF TextType, TextOK
<1>5. /\ p \in DOMAIN Text.reply /\ Text.sent[p] < Text.reply[p]
      /\ piece \in 1..MaxLen /\ Text.sent[p] + piece <= Text.reply[p]
      /\ \A q \in DOMAIN Text.reply : q < p => ~(Text.sent[q] < Text.reply[q])
  <2>1. p \in DOMAIN Text.reply /\ Text.sent[p] < Text.reply[p]
    BY <1>2 DEF Unsent
  <2>2. piece \in 1..MaxLen /\ Text.sent[p] + piece <= Text.reply[p]
    <3> DEFINE sent == Text.sent[p]
               reply == Text.reply[p]
    <3>1. sent \in Nat /\ reply \in Nat /\ sent < reply /\ MaxLen \in Nat \ {0}
      BY <1>4, <2>1, DiscordAssumption
    <3>2. piece = IF reply - sent < MaxLen THEN reply - sent ELSE MaxLen
      BY DEF Piece
    <3> HIDE DEF piece, sent, reply
    <3>3. piece \in 1..MaxLen /\ sent + piece <= reply
      BY <3>1, <3>2
    <3>4. QED
      BY <3>3 DEF sent, reply
  <2>3. \A q \in DOMAIN Text.reply : q < p => q \notin Unsent(Text)
    <3>1. \A q \in Unsent(Text) : p <= q
      BY <1>2
    <3>2. \A q \in DOMAIN Text.reply : q \in Nat /\ p \in Nat
      BY <1>4, <2>1
    <3>3. QED
      BY <3>1, <3>2
  <2>4. QED
    BY <2>1, <2>2, <2>3 DEF Unsent
<1>6. texts' = [texts EXCEPT ![Len(texts)] =
          [Text EXCEPT !.sent[p] = @ + piece, !.longest = IF @ < piece THEN piece ELSE @]]
  BY <1>2
<1> HIDE DEF piece
<1> DEFINE longer == IF Text.longest < piece THEN piece ELSE Text.longest
<1>7. texts' = [texts EXCEPT ![Len(texts)] = t]
  <2>1. texts' = [texts EXCEPT ![Len(texts)] =
            [Text EXCEPT !.sent[p] = @ + piece, !.longest = longer]]
    BY <1>3, <1>6
  <2>2. [Text EXCEPT !.sent[p] = @ + piece, !.longest = longer] = t
    BY <1>3
  <2>3. QED
    BY <2>1, <2>2
<1>8. longer \in Nat /\ longer \in {piece, Text.longest}
  BY <1>4, <1>5
<1> DEFINE more == [Text.sent EXCEPT ![p] = @ + piece]
<1>9. /\ more \in Seq(Nat) /\ DOMAIN more = DOMAIN Text.reply /\ more[p] = Text.sent[p] + piece
      /\ \A q \in DOMAIN Text.reply : q # p => more[q] = Text.sent[q]
  <2>1. /\ DOMAIN more = DOMAIN Text.sent /\ more[p] = Text.sent[p] + piece
        /\ \A q \in DOMAIN Text.reply : q # p => more[q] = Text.sent[q]
    BY <1>4, <1>5, LenProperties
  <2>2. more \in Seq(Nat)
    BY <1>4, <1>5, ExceptSeq, LenProperties
  <2>3. QED
    BY <1>4, <1>5, <2>1, <2>2
<1> HIDE DEF more
<1>10. t = [Text EXCEPT !.sent = more, !.longest = longer]
  BY <1>3 DEF more
<1> HIDE DEF t, longer
<1>11. /\ t \in TextType /\ t.reply = Text.reply /\ t.sent = more /\ ~t.cut
      /\ t.longest \in {piece, Text.longest}
  BY <1>3, <1>9, <1>8, <1>10 DEF TextType
<1>12. TextOK(t)
  <2>1. t.longest <= MaxLen
    BY <1>3, <1>5, <1>11, DiscordAssumption DEF TextOK
  <2>2. \A q \in DOMAIN t.reply : t.sent[q] <= t.reply[q]
    BY <1>3, <1>5, <1>9, <1>11 DEF TextOK
  <2>3. ASSUME NEW i \in DOMAIN t.reply, NEW j \in DOMAIN t.reply, i < j, t.sent[j] > 0
        PROVE  t.sent[i] = t.reply[i]
    <3>1. CASE j = p
      <4>1. i \in DOMAIN Text.reply /\ ~(Text.sent[i] < Text.reply[i]) /\ i # p
        BY <1>4, <1>5, <1>11, <2>3, <3>1
      <4>2. Text.sent[i] = Text.reply[i]
        BY <1>3, <1>4, <4>1 DEF TextOK
      <4>3. QED
        BY <1>9, <1>11, <4>1, <4>2
    <3>2. CASE j # p
      <4>1. Text.sent[i] = Text.reply[i]
        BY <1>3, <1>4, <1>9, <1>11, <2>3, <3>2 DEF TextOK
      <4>2. i # p
        BY <1>4, <1>5, <4>1
      <4>3. QED
        BY <1>9, <1>11, <2>3, <4>1, <4>2
    <3>3. QED
      BY <3>1, <3>2
  <2>4. QED
    BY <1>9, <1>11, <2>1, <2>2, <2>3 DEF TextOK
<1>13. texts' \in Seq(TextType) /\ Len(texts') = Len(texts) /\ TextsOK'
  BY <1>1, <1>7, <1>11, <1>12, ReplaceText
<1>14. Answer(posted[taken]) \in Posts \cup {Answer(m) : m \in Posts}
  <2>1. taken \in 1..Len(posted) /\ posted[taken].author # Self
    BY <1>1 DEF DcInv, DealtOK
  <2>2. posted[taken] \in Posts \cup {Answer(m) : m \in Posts}
    BY <2>1, ElementOfSeq DEF DcInv, DcTypeOK
  <2>3. QED
    BY <2>1, <2>2, AuthorTells
<1>15. /\ posted' \in Seq(Posts \cup {Answer(m) : m \in Posts})
       /\ Len(posted') = Len(posted) + 1
       /\ conns' \in Seq(Connections)
       /\ \A c \in DOMAIN conns' : (conns'[c].over = "no") = (c = Here' /\ mode' # "down")
       /\ \A c \in DOMAIN conns' : ConnOK(conns[c])'
       /\ mode' # "down" => conns' # <<>> /\ InboxOK(Conn)'
       /\ DealtOK'
  BY <1>1, <1>14, ArrivesKeeps
<1>16. Len(posted) \in Nat
  BY LenProperties DEF DcInv, DcTypeOK
<1>17. DcTypeOK'
  BY <1>1, <1>13, <1>15, <1>16 DEF DcInv, DcTypeOK, TextType
<1>18. QED
  BY <1>13, <1>15, <1>17 DEF DcInv

\* Somebody posts.
LEMMA PostStep == ASSUME DcInv, SomeonePosts PROVE DcInv'
<1>1. PICK m \in Posts : Arrives(m)
  BY DEF SomeonePosts
<1>2. UNCHANGED <<mode, taken, dealt, texts, troubles>>
  BY DEF SomeonePosts
<1>3. /\ posted' \in Seq(Posts \cup {Answer(p) : p \in Posts})
      /\ Len(posted') = Len(posted) + 1
      /\ conns' \in Seq(Connections)
      /\ \A c \in DOMAIN conns' : (conns'[c].over = "no") = (c = Here' /\ mode' # "down")
      /\ \A c \in DOMAIN conns' : ConnOK(conns[c])'
      /\ mode' # "down" => conns' # <<>> /\ InboxOK(Conn)'
      /\ DealtOK'
  BY <1>1, <1>2, ArrivesKeeps
<1>4. Len(posted) \in Nat
  BY LenProperties DEF DcInv, DcTypeOK
<1>5. DcTypeOK'
  BY <1>2, <1>3, <1>4 DEF DcInv, DcTypeOK
<1>6. TextsOK'
  BY <1>2 DEF DcInv, TextsOK, TextOK, Current, Text, Unsent
<1>7. QED
  BY <1>3, <1>5, <1>6 DEF DcInv

-----------------------------------------------------------------------------
(* The invariant, and what it says.                                         *)

LEMMA DcStep == DcInv /\ [DcNext]_dcVars => DcInv'
<1> SUFFICES ASSUME DcInv, [DcNext]_dcVars PROVE DcInv'
  OBVIOUS
<1>1. CASE Channel
  BY <1>1, OpenStep, ReadStep, MessageStep, DoneStep, ChunkStep, RepliedStep DEF Channel
<1>2. CASE SendFails \/ SomeonePosts
  BY <1>2, SendFailsStep, PostStep
<1>3. ASSUME NEW c \in DOMAIN conns,
             Tasks(c) \/ GatewayAsks(c) \/ GatewayCloses(c) \/ GatewayIdentifies(c)
      PROVE  DcInv'
  BY <1>3, TasksKeep
<1>4. CASE UNCHANGED dcVars
  <2> USE <1>4 DEF dcVars, DcInv
  <2>1. DcTypeOK'
    BY DEF DcTypeOK, Here
  <2>2. \A c \in DOMAIN conns' : ConnOK(conns[c])'
    BY DEF ConnOK
  <2>3. DealtOK' /\ (mode' # "down" => conns' # <<>> /\ InboxOK(Conn)')
    BY DEF DealtOK, InboxOK, Conn, Here, Waiting
  <2>4. TextsOK'
    BY DEF TextsOK, TextOK, Current, Text, Unsent
  <2>5. QED
    BY <2>1, <2>2, <2>3, <2>4
<1>5. QED
  BY <1>1, <1>2, <1>3, <1>4 DEF DcNext

THEOREM DcInvariant == DcSpec => []DcInv
BY InitDcInv, DcStep, PTL DEF DcSpec

\* Types: connections and their frames, what turns were taken on, what is posted
\* of their replies; the one connection that is not over is the one that is read.
THEOREM GatewayTypes == DcSpec => []DcTypeOK
<1>1. DcInv => DcTypeOK
  BY DEF DcInv
<1>2. QED
  BY <1>1, DcInvariant, PTL

\* The tasks of a connection never work for another one: heartbeats name what
\* their own connection dispatched, and those of an earlier connection go on only
\* if it was left through an error.
THEOREM ConnectionsStayApart == DcSpec => []ConnectionsApart
<1>1. DcInv => ConnectionsApart
  <2> SUFFICES ASSUME DcInv PROVE ConnectionsApart
    OBVIOUS
  <2>1. ASSUME NEW c \in DOMAIN conns
        PROVE  /\ conns[c].acked <= conns[c].sent
               /\ conns[c].heart /\ c # Here => conns[c].over = "error"
    <3>1. /\ conns[c].acked <= conns[c].seq /\ conns[c].seq <= conns[c].sent
          /\ conns[c].over = "ended" => ~conns[c].heart
          /\ (conns[c].over = "no") = (c = Here /\ mode # "down")
          /\ DcTypeOK
      BY DEF DcInv, ConnOK, DcTypeOK
    <3>2. /\ {conns[c].sent, conns[c].seq, conns[c].acked} \subseteq Nat
          /\ conns[c].over \in {"no", "error", "ended"}
      BY <3>1, ConnectionType DEF Connections
    <3>3. QED
      BY <3>1, <3>2
  <2>2. QED
    BY <2>1 DEF ConnectionsApart, HeartOfOwnConnection, LeakedOnlyByError
<1>2. QED
  BY <1>1, DcInvariant, PTL

\* As many numbers as the last one says.
LEMMA IntervalSize ==
    ASSUME NEW n \in Nat
    PROVE  IsFiniteSet(1..n) /\ Cardinality(1..n) = n
<1>1. IsFiniteSet(1..n) /\ Cardinality(1..n) = IF 1 > n THEN 0 ELSE n - 1 + 1
  BY FS_Interval
<1>2. QED
  BY <1>1

\* Messages of others, each dealt with once at most, are at least as many as the
\* turns.
LEMMA NoEchoHolds == ASSUME DcInv PROVE NoEcho
<1> DEFINE others == {n \in DOMAIN posted : posted[n].author # Self}
<1>1. /\ DOMAIN posted = 1..Len(posted) /\ Len(posted) \in Nat
      /\ dealt \in Seq(Nat) /\ DOMAIN dealt = 1..Len(dealt) /\ Len(dealt) \in Nat
  BY LenProperties DEF DcInv, DcTypeOK
<1>2. \A i \in 1..Len(dealt) : dealt[i] \in others
  BY <1>1 DEF DcInv, DealtOK
<1>3. \A i, j \in 1..Len(dealt) : dealt[i] = dealt[j] => i = j
  <2> TAKE i, j \in 1..Len(dealt)
  <2>1. i < j \/ j < i \/ i = j
    BY <1>1
  <2>2. dealt[i] \in Nat /\ dealt[j] \in Nat
    BY <1>1, LenProperties
  <2>3. QED
    BY <1>1, <2>1, <2>2 DEF DcInv, DealtOK
<1>4. dealt \in Injection(1..Len(dealt), others)
  <2>1. dealt \in [1..Len(dealt) -> others]
    BY <1>1, <1>2, LenProperties
  <2>2. QED
    BY <1>3, <2>1 DEF Injection, IsInjective
<1>5. IsFiniteSet(others)
  <2>1. others \subseteq 1..Len(posted)
    BY <1>1
  <2>2. QED
    BY <1>1, <2>1, IntervalSize, FS_Subset
<1>6. Len(dealt) <= Cardinality(others)
  <2>1. Cardinality(1..Len(dealt)) = Len(dealt)
    BY <1>1, IntervalSize
  <2>2. Cardinality(1..Len(dealt)) <= Cardinality(others)
    BY <1>4, <1>5, FS_Injection
  <2>3. QED
    BY <2>1, <2>2
<1>7. QED
  BY <1>6 DEF NoEcho

\* Each dispatch leads to one turn at most, in the order of posting and none on
\* the bot's own posts; a turn that blocks the reading loses none; and what is
\* posted of its reply is the beginning of it, in pieces that fit, all of it
\* unless sending failed.
THEOREM DispatchesAreHandled == DcSpec => []DispatchesHandled
<1>1. DcInv => HandledInOrder
  BY DEF DcInv, DealtOK, HandledInOrder
<1>2. DcInv => NothingDispatchedIsDropped
  BY DEF DcInv, InboxOK, Waiting, NothingDispatchedIsDropped
<1>3. DcInv => RepliesWhole
  BY DEF DcInv, TextsOK, TextOK, Current, RepliesWhole
<1>4. DcInv => NoEcho
  BY NoEchoHolds
<1>5. QED
  BY <1>1, <1>2, <1>3, <1>4, DcInvariant, PTL DEF DispatchesHandled

-----------------------------------------------------------------------------
(* The update, and the migration.                                          *)

Steps == {"sleeping", "recovering", "connecting", "binding", "serving", "ended"}
Revisions == 0..MaxRevision
Stages == {"new", "pulling", "pulled", "refused", "building", "built", "answered"}
RequestRecords == [at : Stages, had : Int, pulled : Int, started : Int]

Shape ==
    /\ {remote, tree, binary} \subseteq Revisions
    /\ broken \subseteq Revisions
    /\ request \in [Requests -> RequestRecords]
    /\ builder \in Requests \cup {NoRequest}
    /\ procs \in Seq([at : Steps, revision : Int])
    /\ port \in 0..Len(procs)
    /\ begun \in [Messages -> [status : {"none", "running", "failed", "succeeded"}, owner : Int]]

\* What is built is no newer than the tree, and the tree than the remote; a
\* build does not go back behind what it found, nor any request behind what it
\* pulled.
CodeInv ==
    /\ binary <= tree /\ tree <= remote
    /\ \A r \in Requests :
          /\ request[r].pulled <= tree
          /\ Asked(r, "building") = (builder = r)
          /\ Asked(r, "building") =>
                /\ request[r].pulled <= request[r].started
                /\ binary <= request[r].started /\ request[r].started <= tree
          /\ request[r].at \in {"built", "answered"} => request[r].pulled <= binary

\* The port is with the process that serves, and a turn that runs was begun by
\* a process that had started its channels.
ProcessInv ==
    /\ \A p \in DOMAIN procs : (procs[p].at = "serving") = (port = p)
    /\ \A t \in Messages : begun[t].status = "running" =>
          /\ begun[t].owner \in DOMAIN procs
          /\ procs[begun[t].owner].at \in {"binding", "serving", "ended"}

UpdateInv == Shape /\ CodeInv /\ ProcessInv

-----------------------------------------------------------------------------
\* The places of a process and what follows them.
LEMMA Order ==
    /\ Place("sleeping") = 1 /\ Place("recovering") = 2 /\ Place("connecting") = 3
    /\ Place("binding") = 4 /\ Place("serving") = 5
    /\ StartOrder[2] = "recovering" /\ StartOrder[3] = "connecting"
    /\ StartOrder[4] = "binding" /\ StartOrder[5] = "serving"
    /\ StartOrder[Place("recovering") + 1] = "connecting"
    /\ StartOrder[Place("connecting") + 1] = "binding"
    /\ StartOrder[Place("binding") + 1] = "serving"
<1>1. /\ DOMAIN StartOrder = 1..5 /\ StartOrder[1] = "sleeping" /\ StartOrder[2] = "recovering"
      /\ StartOrder[3] = "connecting" /\ StartOrder[4] = "binding" /\ StartOrder[5] = "serving"
  BY DEF StartOrder
<1>2. /\ \A i \in 1..5 : StartOrder[i] = "sleeping" <=> i = 1
      /\ \A i \in 1..5 : StartOrder[i] = "recovering" <=> i = 2
      /\ \A i \in 1..5 : StartOrder[i] = "connecting" <=> i = 3
      /\ \A i \in 1..5 : StartOrder[i] = "binding" <=> i = 4
      /\ \A i \in 1..5 : StartOrder[i] = "serving" <=> i = 5
  BY <1>1
<1> HIDE DEF StartOrder
<1>3. Place("sleeping") = 1 BY <1>1, <1>2 DEF Place
<1>4. Place("recovering") = 2 BY <1>1, <1>2 DEF Place
<1>5. Place("connecting") = 3 BY <1>1, <1>2 DEF Place
<1>6. Place("binding") = 4 BY <1>1, <1>2 DEF Place
<1>7. Place("serving") = 5 BY <1>1, <1>2 DEF Place
<1> QED BY <1>1, <1>3, <1>4, <1>5, <1>6, <1>7

\* A request that moves on leaves the others alone, and what it pulled.
LEMMA Advances ==
    ASSUME UpdateInv, NEW r \in Requests, NEW at \in Stages, request' = [request EXCEPT ![r].at = at]
    PROVE  /\ request' \in [Requests -> RequestRecords] /\ request'[r].at = at
           /\ request'[r].pulled = request[r].pulled /\ request'[r].started = request[r].started
           /\ \A q \in Requests : q # r => request'[q] = request[q]
BY DEF UpdateInv, Shape, RequestRecords

\* What a process is, and which one serves.
LEMMA ProcessRecord ==
    ASSUME UpdateInv, NEW p \in DOMAIN procs
    PROVE  procs[p] \in [at : Steps, revision : Int] /\ (procs[p].at = "serving") = (port = p)
<1>1. procs \in Seq([at : Steps, revision : Int]) /\ p \in 1..Len(procs) BY DEF UpdateInv, Shape
<1>2. procs[p] \in [at : Steps, revision : Int] BY <1>1, ElementOfSeq
<1>3. (procs[p].at = "serving") = (port = p) BY DEF UpdateInv, ProcessInv
<1> QED BY <1>2, <1>3

\* A process that enters the place that follows the one it is at.
LEMMA Enters ==
    ASSUME NEW p, NEW at, Enter(p), StartOrder[Place(procs[p].at) + 1] = at
    PROVE  procs' = [procs EXCEPT ![p].at = at]
BY DEF Enter

\* A process that moves leaves the others where they are.
LEMMA ProcessMoves ==
    ASSUME UpdateInv, NEW p \in DOMAIN procs, NEW new \in [at : Steps, revision : Int],
           procs' = [procs EXCEPT ![p] = new]
    PROVE  /\ procs' \in Seq([at : Steps, revision : Int])
           /\ Len(procs') = Len(procs) /\ DOMAIN procs' = DOMAIN procs
           /\ procs'[p] = new
           /\ \A q \in DOMAIN procs : q # p => procs'[q] = procs[q]
BY DEF UpdateInv, Shape

\* The same for a process that goes on to another place.
LEMMA ProcessAdvances ==
    ASSUME UpdateInv, NEW p \in DOMAIN procs, NEW at \in Steps, procs' = [procs EXCEPT ![p].at = at]
    PROVE  /\ procs' \in Seq([at : Steps, revision : Int])
           /\ Len(procs') = Len(procs) /\ DOMAIN procs' = DOMAIN procs
           /\ procs'[p].at = at
           /\ \A q \in DOMAIN procs : q # p => procs'[q] = procs[q]
<1> DEFINE new == [procs[p] EXCEPT !.at = at]
<1>1. procs[p] \in [at : Steps, revision : Int] BY ProcessRecord
<1>2. new \in [at : Steps, revision : Int] /\ new.at = at BY <1>1
<1>3. procs' = [procs EXCEPT ![p] = new] OBVIOUS
<1> HIDE DEF new
<1> QED BY <1>2, <1>3, ProcessMoves

LEMMA ProcessJoins ==
    ASSUME UpdateInv, NEW new \in [at : Steps, revision : Int], procs' = Append(procs, new)
    PROVE  /\ procs' \in Seq([at : Steps, revision : Int])
           /\ Len(procs') = Len(procs) + 1 /\ DOMAIN procs' = DOMAIN procs \cup {Len(procs) + 1}
           /\ procs'[Len(procs) + 1] = new
           /\ \A q \in DOMAIN procs : procs'[q] = procs[q]
BY DEF UpdateInv, Shape

-----------------------------------------------------------------------------
LEMMA UpdateInit == SuInit => UpdateInv
<1> SUFFICES ASSUME SuInit PROVE UpdateInv OBVIOUS
<1>0. procs \in Seq([at : Steps, revision : Int]) /\ Len(procs) = 1 /\ procs[1].at = "recovering"
  BY Order DEF SuInit, Steps
<1>1. Shape
  BY <1>0, UpdateAssumption DEF SuInit, Shape, Unasked, RequestRecords, Stages, Revisions, NoRequest
<1>2. CodeInv
  BY UpdateAssumption DEF SuInit, CodeInv, Asked, Unasked, NoRequest
<1>3. ProcessInv
  BY <1>0 DEF SuInit, ProcessInv
<1> QED BY <1>1, <1>2, <1>3 DEF UpdateInv

\* The steps of a request.
LEMMA RequestSteps ==
    ASSUME UpdateInv, NEW r \in Requests, Update(r)
    PROVE  UpdateInv'
<1> USE DEF Asked
<1>0. request[r] \in RequestRecords /\ \A q \in Requests : request[q] \in RequestRecords
  BY DEF UpdateInv, Shape
<1>i. {remote, tree, binary} \subseteq Int /\ \A n \in Revisions : n \in Int
  BY UpdateAssumption DEF UpdateInv, Shape, Revisions
<1>1. CASE Ask(r)
  <2>1. /\ request' \in [Requests -> RequestRecords] /\ request'[r].at = "pulling"
        /\ request'[r].pulled = request[r].pulled
        /\ \A q \in Requests : q # r => request'[q] = request[q]
    BY <1>1, <1>i DEF Ask, UpdateInv, Shape, RequestRecords, Stages
  <2>2. CodeInv' BY <1>1, <2>1 DEF Ask, UpdateInv, CodeInv, code
  <2> QED BY <1>1, <2>1, <2>2 DEF Ask, UpdateInv, Shape, ProcessInv, code
<1>2. CASE GitPull(r)
  <2>0. UNCHANGED <<remote, binary, broken, builder, procs, port, begun, stops>> BY <1>2 DEF GitPull
  <2>1. CASE /\ tree' = remote
             /\ request' = [request EXCEPT ![r].at = "pulled", ![r].had = tree, ![r].pulled = remote]
    <3>1. /\ request' \in [Requests -> RequestRecords]
          /\ request'[r].at = "pulled" /\ request'[r].pulled = remote
          /\ \A q \in Requests : q # r => request'[q] = request[q]
      BY <2>1, <1>i DEF UpdateInv, Shape, RequestRecords, Stages
    <3>2. request[r].at # "building" BY <1>2 DEF GitPull
    <3>3. CodeInv' BY <1>0, <1>i, <2>0, <2>1, <3>1, <3>2 DEF UpdateInv, CodeInv, RequestRecords
    <3> QED BY <2>0, <2>1, <3>1, <3>3 DEF UpdateInv, Shape, ProcessInv
  <2>2. CASE Advance(r, "refused") /\ UNCHANGED tree
    <3>1. /\ request' \in [Requests -> RequestRecords] /\ request'[r].at = "refused"
          /\ request'[r].pulled = request[r].pulled
          /\ \A q \in Requests : q # r => request'[q] = request[q]
      BY <2>2, Advances DEF Advance, Stages
    <3>2. CodeInv' BY <1>2, <2>0, <2>2, <3>1 DEF GitPull, UpdateInv, CodeInv
    <3> QED BY <2>0, <2>2, <3>1, <3>2 DEF UpdateInv, Shape, ProcessInv
  <2> QED BY <1>2, <2>1, <2>2 DEF GitPull
<1>3. CASE StartBuild(r)
  <2>1. /\ request' \in [Requests -> RequestRecords]
        /\ request'[r].at = "building" /\ request'[r].started = tree
        /\ request'[r].pulled = request[r].pulled
        /\ \A q \in Requests : q # r => request'[q] = request[q]
    BY <1>3, <1>i DEF StartBuild, UpdateInv, Shape, RequestRecords, Stages
  <2>2. CodeInv'
    BY <1>0, <1>i, <1>3, <2>1, UpdateAssumption DEF StartBuild, UpdateInv, CodeInv, code
  <2> QED BY <1>3, <2>1, <2>2 DEF StartBuild, UpdateInv, Shape, ProcessInv, code
<1>4. CASE EndBuild(r)
  <2> PICK revision \in request[r].started..tree :
            IF revision \in broken THEN Advance(r, "refused") /\ UNCHANGED binary
            ELSE binary' = revision /\ Advance(r, "built")
    BY <1>4 DEF EndBuild
  <2>0. /\ request[r].at = "building" /\ builder = r /\ builder' = NoRequest
        /\ UNCHANGED <<remote, tree, broken, procs, port, begun, stops>>
    BY <1>4 DEF EndBuild, UpdateInv, CodeInv
  <2>n. NoRequest \notin Requests BY UpdateAssumption
  <2>1. /\ request[r].pulled <= request[r].started /\ binary <= request[r].started
        /\ request[r].started <= revision /\ revision <= tree /\ revision \in Int
    BY <2>0, <1>0, <1>i DEF UpdateInv, CodeInv
  <2>2. PICK at \in {"refused", "built"} :
            /\ request' = [request EXCEPT ![r].at = at]
            /\ \/ at = "refused" /\ binary' = binary
               \/ at = "built" /\ binary' = revision
    BY DEF Advance
  <2>4. /\ request' \in [Requests -> RequestRecords] /\ request'[r].at = at
        /\ request'[r].pulled = request[r].pulled
        /\ \A q \in Requests : q # r => request'[q] = request[q]
    BY <2>2, Advances DEF Stages
  <2>3. /\ binary \in 0..MaxRevision /\ tree \in 0..MaxRevision /\ MaxRevision \in Nat
        /\ request[r].started \in Int /\ binary <= tree
    BY <1>0, UpdateAssumption DEF UpdateInv, CodeInv, Shape, Revisions, RequestRecords
  <2>5. binary <= binary' /\ binary' <= tree /\ binary' \in Revisions
    <3>1. CASE binary' = binary BY <3>1, <2>3 DEF Revisions
    <3>2. CASE binary' = revision BY <3>2, <2>1, <2>3 DEF Revisions
    <3> QED BY <2>2, <3>1, <3>2
  <2>6. Shape' BY <2>0, <2>4, <2>5 DEF UpdateInv, Shape
  <2>7. \A q \in Requests : q # r => request'[q].at # "building"
    BY <2>0, <2>4 DEF UpdateInv, CodeInv
  <2>8. ASSUME NEW q \in Requests
        PROVE  /\ request'[q].pulled <= tree'
               /\ (request'[q].at = "building") = (builder' = q)
               /\ request'[q].at = "building" =>
                     /\ request'[q].pulled <= request'[q].started
                     /\ binary' <= request'[q].started /\ request'[q].started <= tree'
               /\ request'[q].at \in {"built", "answered"} => request'[q].pulled <= binary'
    <3>1. CASE q = r
      <4>1. request[r].pulled <= tree /\ request[r].pulled \in Int
        BY <1>0 DEF UpdateInv, CodeInv, RequestRecords
      <4>2. at = "built" => request[r].pulled <= binary'
        BY <2>1, <2>2, <2>3, <4>1
      <4> QED BY <3>1, <2>0, <2>n, <2>2, <2>4, <4>1, <4>2
    <3>2. CASE q # r
      <4>1. request'[q] = request[q] /\ request[q].at # "building" /\ builder' # q
        BY <3>2, <2>0, <2>n, <2>4, <2>7
      <4>2. /\ request[q].pulled <= tree /\ request[q].pulled \in Int
            /\ request[q].at \in {"built", "answered"} => request[q].pulled <= binary
        BY <1>0 DEF UpdateInv, CodeInv, RequestRecords
      <4>3. request[q].at \in {"built", "answered"} => request[q].pulled <= binary'
        BY <2>3, <2>5, <4>2 DEF Revisions
      <4> QED BY <2>0, <4>1, <4>2, <4>3
    <3> QED BY <3>1, <3>2
  <2>9. CodeInv' BY <2>8, <2>5, <2>0 DEF UpdateInv, CodeInv
  <2> QED BY <2>0, <2>6, <2>9 DEF UpdateInv, ProcessInv
<1>5. CASE SpawnChild(r)
  <2>3. /\ request' \in [Requests -> RequestRecords] /\ request'[r].at = "answered"
        /\ request'[r].pulled = request[r].pulled
        /\ \A q \in Requests : q # r => request'[q] = request[q]
    BY <1>5, Advances DEF SpawnChild, Advance, Stages
  <2>4. CodeInv' BY <1>5, <2>3 DEF SpawnChild, UpdateInv, CodeInv, code
  <2>5. CASE UNCHANGED procs
    BY <1>5, <2>3, <2>4, <2>5 DEF SpawnChild, UpdateInv, Shape, ProcessInv, code
  <2>6. CASE procs' = Append(procs, [at |-> "sleeping", revision |-> binary])
    <3> DEFINE child == [at |-> "sleeping", revision |-> binary]
    <3>1. child \in [at : Steps, revision : Int] /\ child.at = "sleeping" BY <1>i DEF Steps
    <3> HIDE DEF child
    <3>a. procs' = Append(procs, child) BY <2>6 DEF child
    <3>2. /\ procs' \in Seq([at : Steps, revision : Int])
          /\ Len(procs') = Len(procs) + 1 /\ DOMAIN procs' = DOMAIN procs \cup {Len(procs) + 1}
          /\ procs'[Len(procs) + 1].at = "sleeping"
          /\ \A q \in DOMAIN procs : procs'[q] = procs[q]
      BY <3>a, <3>1, ProcessJoins
    <3>3. port' = port /\ port \in 0..Len(procs) /\ Len(procs) \in Nat /\ begun' = begun
      BY <1>5 DEF SpawnChild, UpdateInv, Shape
    <3>4. Shape' BY <1>5, <2>3, <3>2, <3>3 DEF SpawnChild, UpdateInv, Shape, code
    <3>5. ProcessInv' BY <3>2, <3>3 DEF UpdateInv, ProcessInv
    <3> QED BY <2>4, <3>4, <3>5 DEF UpdateInv
  <2> QED BY <1>5, <2>5, <2>6 DEF SpawnChild
<1> QED BY <1>1, <1>2, <1>3, <1>4, <1>5 DEF Update

\* A process that moves, without the port or with it; no turn that runs is at
\* a process that has not started its channels.
LEMMA ProcessKeeps ==
    ASSUME UpdateInv, NEW p \in DOMAIN procs,
           procs' \in Seq([at : Steps, revision : Int]),
           Len(procs') = Len(procs), DOMAIN procs' = DOMAIN procs,
           \A q \in DOMAIN procs : q # p => procs'[q] = procs[q],
           UNCHANGED <<code, request, builder>>,
           \/ begun' = begun
           \/ begun' = [t \in Messages |->
                  IF begun[t].status = "running" THEN [begun[t] EXCEPT !.status = "failed"] ELSE begun[t]],
           procs[p].at \in {"binding", "serving", "ended"} => procs'[p].at \in {"binding", "serving", "ended"},
           port' \in 0..Len(procs),
           \A q \in DOMAIN procs : (procs'[q].at = "serving") = (port' = q)
    PROVE  UpdateInv'
<1>1. /\ begun' \in [Messages -> [status : {"none", "running", "failed", "succeeded"}, owner : Int]]
      /\ \A t \in Messages : begun'[t].status = "running" => begun'[t] = begun[t]
  <2>1. CASE begun' = begun BY <2>1 DEF UpdateInv, Shape
  <2>2. CASE begun' = [t \in Messages |->
                IF begun[t].status = "running" THEN [begun[t] EXCEPT !.status = "failed"] ELSE begun[t]]
    BY <2>2 DEF UpdateInv, Shape
  <2> QED BY <2>1, <2>2
<1>2. Shape' BY <1>1 DEF UpdateInv, Shape, code
<1>3. CodeInv' BY DEF UpdateInv, CodeInv, Asked, code
<1>4. ASSUME NEW t \in Messages, begun'[t].status = "running"
      PROVE  /\ begun'[t].owner \in DOMAIN procs'
             /\ procs'[begun'[t].owner].at \in {"binding", "serving", "ended"}
  <2>1. begun'[t] = begun[t] /\ begun[t].owner \in DOMAIN procs
        /\ procs[begun[t].owner].at \in {"binding", "serving", "ended"}
    BY <1>1, <1>4 DEF UpdateInv, ProcessInv
  <2>2. procs'[begun[t].owner].at \in {"binding", "serving", "ended"}
    <3>1. CASE begun[t].owner = p BY <2>1, <3>1
    <3>2. CASE begun[t].owner # p BY <2>1, <3>2
    <3> QED BY <3>1, <3>2
  <2> QED BY <2>1, <2>2
<1>5. ProcessInv' BY <1>4 DEF ProcessInv
<1> QED BY <1>2, <1>3, <1>5 DEF UpdateInv

-----------------------------------------------------------------------------
\* The steps of a process.
LEMMA ProcessSteps ==
    ASSUME UpdateInv, NEW p \in DOMAIN procs, Process(p)
    PROVE  UpdateInv'
<1>0. /\ procs[p] \in [at : Steps, revision : Int] /\ p \in 1..Len(procs) /\ Len(procs) \in Nat
      /\ port \in 0..Len(procs) /\ binary \in Int /\ DOMAIN procs = 1..Len(procs)
      /\ \A q \in DOMAIN procs : (procs[q].at = "serving") = (port = q)
  <2>1. procs[p] \in [at : Steps, revision : Int] BY ProcessRecord
  <2>2. \A q \in DOMAIN procs : (procs[q].at = "serving") = (port = q) BY DEF UpdateInv, ProcessInv
  <2>3. /\ p \in 1..Len(procs) /\ Len(procs) \in Nat /\ DOMAIN procs = 1..Len(procs)
        /\ port \in 0..Len(procs) /\ binary \in Int
    BY UpdateAssumption DEF UpdateInv, Shape, Revisions
  <2> QED BY <2>1, <2>2, <2>3
<1>1. CASE ExecBinary(p)
  <2> DEFINE new == [at |-> "recovering", revision |-> binary]
  <2>1. new \in [at : Steps, revision : Int] /\ new.at = "recovering" BY <1>0 DEF Steps
  <2>2. procs' = [procs EXCEPT ![p] = new] BY <1>1, Order DEF ExecBinary
  <2> HIDE DEF new
  <2>3. procs[p].at = "sleeping" /\ UNCHANGED <<code, request, builder, port, begun>>
    BY <1>1 DEF ExecBinary, Stands
  <2>4. /\ procs' \in Seq([at : Steps, revision : Int])
        /\ Len(procs') = Len(procs) /\ DOMAIN procs' = DOMAIN procs /\ procs'[p].at = "recovering"
        /\ \A q \in DOMAIN procs : q # p => procs'[q] = procs[q]
    BY <2>1, <2>2, ProcessMoves
  <2>5. \A q \in DOMAIN procs : (procs'[q].at = "serving") = (port' = q)
    BY <2>3, <2>4, <1>0
  <2> QED BY <2>3, <2>4, <2>5, <1>0, ProcessKeeps
<1>2. CASE RecoverAtStart(p)
  <2>1. procs[p].at = "recovering" /\ UNCHANGED <<code, request, builder, port>>
    BY <1>2 DEF RecoverAtStart, Stands
  <2>2. procs' = [procs EXCEPT ![p].at = "connecting"]
    BY <1>2, <2>1, Order, Enters DEF RecoverAtStart
  <2>3. /\ procs' \in Seq([at : Steps, revision : Int])
        /\ Len(procs') = Len(procs) /\ DOMAIN procs' = DOMAIN procs /\ procs'[p].at = "connecting"
        /\ \A q \in DOMAIN procs : q # p => procs'[q] = procs[q]
    BY <2>2, ProcessAdvances DEF Steps
  <2>4. \A q \in DOMAIN procs : (procs'[q].at = "serving") = (port' = q)
    BY <2>1, <2>3, <1>0
  <2> QED BY <1>2, <2>1, <2>3, <2>4, <1>0, ProcessKeeps DEF RecoverAtStart
<1>3. CASE StartChannels(p)
  <2>1. procs[p].at = "connecting" /\ UNCHANGED <<code, request, builder, port, begun>>
    BY <1>3 DEF StartChannels, Stands
  <2>2. procs' = [procs EXCEPT ![p].at = "binding"]
    BY <1>3, <2>1, Order, Enters DEF StartChannels
  <2>3. /\ procs' \in Seq([at : Steps, revision : Int])
        /\ Len(procs') = Len(procs) /\ DOMAIN procs' = DOMAIN procs /\ procs'[p].at = "binding"
        /\ \A q \in DOMAIN procs : q # p => procs'[q] = procs[q]
    BY <2>2, ProcessAdvances DEF Steps
  <2>4. \A q \in DOMAIN procs : (procs'[q].at = "serving") = (port' = q)
    BY <2>1, <2>3, <1>0
  <2> QED BY <2>1, <2>3, <2>4, <1>0, ProcessKeeps
<1>4. CASE Bind(p)
  <2>1. procs[p].at = "binding" /\ UNCHANGED <<code, request, builder, begun>>
    BY <1>4 DEF Bind, Stands
  <2>2. CASE port = 0 /\ port' = p /\ Enter(p)
    <3>1. procs' = [procs EXCEPT ![p].at = "serving"]
      BY <2>1, <2>2, Order, Enters
    <3>2. /\ procs' \in Seq([at : Steps, revision : Int])
          /\ Len(procs') = Len(procs) /\ DOMAIN procs' = DOMAIN procs /\ procs'[p].at = "serving"
          /\ \A q \in DOMAIN procs : q # p => procs'[q] = procs[q]
      BY <3>1, ProcessAdvances DEF Steps
    <3>3. \A q \in DOMAIN procs : (procs'[q].at = "serving") = (port' = q)
      BY <2>2, <3>2, <1>0
    <3>4. port' \in 0..Len(procs) BY <2>2, <1>0
    <3> QED BY <2>1, <3>2, <3>3, <3>4, ProcessKeeps
  <2>3. CASE procs' = [procs EXCEPT ![p].at = "ended"] /\ UNCHANGED port
    <3>1. /\ procs' \in Seq([at : Steps, revision : Int])
          /\ Len(procs') = Len(procs) /\ DOMAIN procs' = DOMAIN procs /\ procs'[p].at = "ended"
          /\ \A q \in DOMAIN procs : q # p => procs'[q] = procs[q]
      BY <2>3, ProcessAdvances DEF Steps
    <3>2. \A q \in DOMAIN procs : (procs'[q].at = "serving") = (port' = q)
      BY <2>1, <2>3, <3>1, <1>0
    <3>3. port' \in 0..Len(procs) BY <2>3, <1>0
    <3> QED BY <2>1, <3>1, <3>2, <3>3, ProcessKeeps
  <2> QED BY <1>4, <2>2, <2>3 DEF Bind
<1>5. ASSUME NEW t \in Messages, TakeMessage(p, t)
      PROVE  UpdateInv'
  <2>1. procs[p].at \in {"binding", "serving"}
    <3>1. procs[p].at \in Steps /\ procs[p].at # "ended" /\ Place(procs[p].at) > 3
      BY <1>0, <1>5, Order DEF TakeMessage, HasChannels
    <3> QED BY <3>1, Order DEF Steps
  <2>2. /\ begun' = [begun EXCEPT ![t] = [status |-> "running", owner |-> p]]
        /\ UNCHANGED <<code, request, builder, procs, port>>
    BY <1>5 DEF TakeMessage
  <2>3. Shape' BY <1>0, <2>2 DEF UpdateInv, Shape, code
  <2>4. ProcessInv' BY <2>1, <2>2 DEF UpdateInv, Shape, ProcessInv
  <2> QED BY <2>2, <2>3, <2>4 DEF UpdateInv, CodeInv, Asked, code
<1>6. ASSUME NEW t \in Messages, FinishTurn(p, t)
      PROVE  UpdateInv'
  <2>1. /\ begun' = [begun EXCEPT ![t] = [status |-> "succeeded", owner |-> 0]]
        /\ UNCHANGED <<code, request, builder, procs, port>>
    BY <1>6 DEF FinishTurn
  <2>2. Shape' BY <2>1 DEF UpdateInv, Shape, code
  <2>3. ProcessInv' BY <2>1 DEF UpdateInv, Shape, ProcessInv
  <2> QED BY <2>1, <2>2, <2>3 DEF UpdateInv, CodeInv, Asked, code
<1> QED BY <1>1, <1>2, <1>3, <1>4, <1>5, <1>6 DEF Process

\* What is done from outside.
LEMMA OutsideSteps ==
    ASSUME UpdateInv, Push \/ Stop \/ StartByHand
    PROVE  UpdateInv'
<1>0. /\ Len(procs) \in Nat /\ port \in 0..Len(procs) /\ DOMAIN procs = 1..Len(procs)
      /\ binary \in Int /\ procs \in Seq([at : Steps, revision : Int])
      /\ \A q \in DOMAIN procs : (procs[q].at = "serving") = (port = q)
  BY UpdateAssumption DEF UpdateInv, Shape, ProcessInv, Revisions
<1>1. CASE Push
  <2>1. remote' = remote + 1 /\ remote < MaxRevision
        /\ UNCHANGED <<tree, binary, broken, request, builder, procs, port, begun>>
    BY <1>1 DEF Push
  <2>2. remote \in 0..MaxRevision /\ tree \in 0..MaxRevision /\ MaxRevision \in Nat /\ tree <= remote
    BY UpdateAssumption DEF UpdateInv, Shape, CodeInv, Revisions
  <2>3. remote' \in Revisions /\ tree' <= remote' BY <2>1, <2>2 DEF Revisions
  <2>4. Shape' BY <2>1, <2>3 DEF UpdateInv, Shape
  <2>5. CodeInv' BY <2>1, <2>3 DEF UpdateInv, CodeInv, Asked
  <2> QED BY <2>1, <2>4, <2>5 DEF UpdateInv, ProcessInv
<1>2. CASE Stop
  <2>1. /\ port \in DOMAIN procs /\ port' = 0 /\ UNCHANGED <<code, request, builder, begun>>
        /\ procs' = [procs EXCEPT ![port].at = "ended"]
    BY <1>2, <1>0 DEF Stop
  <2>2. /\ procs' \in Seq([at : Steps, revision : Int])
        /\ Len(procs') = Len(procs) /\ DOMAIN procs' = DOMAIN procs /\ procs'[port].at = "ended"
        /\ \A q \in DOMAIN procs : q # port => procs'[q] = procs[q]
    BY <2>1, ProcessAdvances DEF Steps
  <2>3. \A q \in DOMAIN procs : (procs'[q].at = "serving") = (port' = q)
    BY <2>1, <2>2, <1>0
  <2>4. port' \in 0..Len(procs) BY <2>1, <1>0
  <2> QED BY <2>1, <2>2, <2>3, <2>4, ProcessKeeps
<1>3. CASE StartByHand
  <2> DEFINE new == [at |-> "recovering", revision |-> binary]
  <2>1. new \in [at : Steps, revision : Int] /\ new.at = "recovering" BY <1>0 DEF Steps
  <2>2. procs' = Append(procs, new) /\ UNCHANGED <<code, request, builder, port, begun>>
    BY <1>3, Order DEF StartByHand
  <2> HIDE DEF new
  <2>3. /\ procs' \in Seq([at : Steps, revision : Int])
        /\ Len(procs') = Len(procs) + 1 /\ DOMAIN procs' = DOMAIN procs \cup {Len(procs) + 1}
        /\ procs'[Len(procs) + 1].at = "recovering"
        /\ \A q \in DOMAIN procs : procs'[q] = procs[q]
    BY <2>1, <2>2, ProcessJoins
  <2>4. Shape' BY <1>0, <2>2, <2>3 DEF UpdateInv, Shape, code
  <2>5. ProcessInv' BY <1>0, <2>2, <2>3 DEF UpdateInv, ProcessInv
  <2> QED BY <2>2, <2>4, <2>5 DEF UpdateInv, CodeInv, Asked, code
<1> QED BY <1>1, <1>2, <1>3

LEMMA UpdateStep == UpdateInv /\ [SuNext]_suVars => UpdateInv'
<1> SUFFICES ASSUME UpdateInv, [SuNext]_suVars PROVE UpdateInv' OBVIOUS
<1>1. CASE UNCHANGED suVars
  BY <1>1 DEF suVars, code, UpdateInv, Shape, CodeInv, ProcessInv, Asked
<1>2. CASE SuNext
  BY <1>2, RequestSteps, ProcessSteps, OutsideSteps DEF SuNext
<1> QED BY <1>1, <1>2

-----------------------------------------------------------------------------
\* Types of the update and of the processes: the one that has the port is the
\* one that serves, and cargo's lock is with the request that builds.
THEOREM UpdateTypes == SuSpec => []SuTypeOK
<1>1. ASSUME UpdateInv PROVE SuTypeOK
  <2>1. {remote, tree, binary} \subseteq 0..MaxRevision /\ tree <= remote /\ binary <= tree
    BY <1>1 DEF UpdateInv, Shape, CodeInv, Revisions
  <2>2. ASSUME NEW p \in DOMAIN procs
        PROVE  procs[p].at \in Steps /\ (procs[p].at = "serving") = (port = p)
    BY <1>1, ProcessRecord
  <2>3. \A r \in Requests : Asked(r, "building") = (builder = r)
    BY <1>1 DEF UpdateInv, CodeInv
  <2>4. \A t \in Messages : begun[t].status \in {"none", "running", "failed", "succeeded"}
    BY <1>1 DEF UpdateInv, Shape
  <2> QED BY <2>1, <2>2, <2>3, <2>4 DEF SuTypeOK, Steps
<1> QED BY <1>1, UpdateInit, UpdateStep, PTL DEF SuSpec

\* Only the start of a process fails a turn, and the process that the turn is
\* of is not the one that starts.
LEMMA OthersRecover ==
    ASSUME UpdateInv, SuNext, NEW t \in Messages, begun[t].status = "running", begun'[t].status = "failed"
    PROVE  procs'[begun[t].owner] = procs[begun[t].owner]
<1>1. \A r \in Requests : Update(r) => begun' = begun
  BY DEF Update, Ask, GitPull, StartBuild, EndBuild, SpawnChild
<1>2. Push \/ Stop \/ StartByHand => begun' = begun BY DEF Push, Stop, StartByHand
<1>3. begun' # begun OBVIOUS
<1>4. PICK p \in DOMAIN procs : Process(p) BY <1>1, <1>2, <1>3 DEF SuNext
<1>5. RecoverAtStart(p)
  <2>1. ~ExecBinary(p) /\ ~StartChannels(p) /\ ~Bind(p)
    BY <1>3 DEF ExecBinary, StartChannels, Bind
  <2>2. \A u \in Messages : ~TakeMessage(p, u) /\ ~FinishTurn(p, u)
    BY DEF TakeMessage, FinishTurn, UpdateInv, Shape
  <2> QED BY <1>4, <2>1, <2>2 DEF Process
<1>6. procs[p].at = "recovering" /\ begun[t].owner # p
  BY <1>5 DEF RecoverAtStart, Stands, UpdateInv, ProcessInv
<1>7. begun[t].owner \in DOMAIN procs /\ procs \in Seq([at : Steps, revision : Int])
  BY DEF UpdateInv, Shape, ProcessInv
<1> QED BY <1>5, <1>6, <1>7 DEF RecoverAtStart, Enter

\* An update that is told to have worked has been built, however requests
\* overlap and whatever the tree became meanwhile; and no start of a process
\* fails a turn that its own channels began.
THEOREM UpdatesAreKept == SuSpec => UpdatesAreHonest
<1>1. UpdateInv => SuccessIsBuilt
  BY DEF UpdateInv, CodeInv, SuccessIsBuilt
<1>2. UpdateInv /\ [SuNext]_suVars =>
        [\A t \in Messages :
              begun[t].status = "running" /\ begun'[t].status = "failed" =>
                  procs'[begun[t].owner] = procs[begun[t].owner]]_suVars
  BY OthersRecover
<1> QED BY <1>1, <1>2, UpdateInit, UpdateStep, PTL DEF SuSpec, UpdatesAreHonest, OwnTurnsKept

-----------------------------------------------------------------------------
(* The files of the migrator.                                              *)

States == {"missing", "original", "schema", "filled", "mixed"}

\* While the migrator validates and installs, its temporary file is what it has
\* read, and that fits the tables; nothing is at the target path in between.
FilesInv ==
    /\ MgTypeOK /\ DOMAIN temps = Seconds /\ DOMAIN backups = Seconds
    /\ doing \in {"validate", "replace", "install"} => ~Conflict(loaded)
    /\ doing \in {"replace", "install"} => loaded.chunks = WithDocument(loaded)
    /\ doing = "install" => target = NoFile
    /\ target \in {NoFile, Original, Mixed} \/ target = Filled(target.from)
    /\ log = "foreign" => target # Original
    /\ TargetWhole /\ OriginalKept

LEMMA FilesDiffer ==
    /\ NoFile.state = "missing" /\ Original.state = "original" /\ Schema.state = "schema"
    /\ \A l : Filled(l).state = "filled" /\ Filled(l).from = l
    /\ Original # NoFile /\ Mixed.state = "mixed"
BY DEF NoFile, Original, Schema, Filled, Mixed, File

\* A file keeps what it has, whatever log it was moved away from.
LEMMA FileShapes ==
    /\ \A f, l : f \in {NoFile, Original, Mixed} \/ f = Filled(f.from) =>
          /\ Leaving(f, l).state = f.state /\ Leaving(f, l).from = f.from
          /\ Leaving(f, l).left = l /\ Leaving(Leaving(f, l), "none") = f
    /\ Leaving(NoFile, "none") = NoFile /\ NoFile.left = "none"
<1>1. ASSUME NEW state, NEW from, NEW l
      PROVE  /\ File(state, from).state = state /\ File(state, from).from = from
             /\ Leaving(File(state, from), l).state = state
             /\ Leaving(File(state, from), l).from = from
             /\ Leaving(File(state, from), l).left = l
             /\ Leaving(Leaving(File(state, from), l), "none") = File(state, from)
  <2>1. Leaving(File(state, from), l) = [state |-> state, from |-> from, left |-> l]
    BY DEF File, Leaving
  <2>2. Leaving([state |-> state, from |-> from, left |-> l], "none") = File(state, from)
    BY DEF File, Leaving
  <2>3. QED
    BY <2>1, <2>2 DEF File
<1>2. ASSUME NEW f, f \in {NoFile, Original, Mixed} \/ f = Filled(f.from)
      PROVE  \E state, from : f = File(state, from)
  BY <1>2 DEF NoFile, Original, Mixed, Filled
<1>3. ASSUME NEW f, NEW l, f \in {NoFile, Original, Mixed} \/ f = Filled(f.from)
      PROVE  /\ Leaving(f, l).state = f.state /\ Leaving(f, l).from = f.from
             /\ Leaving(f, l).left = l /\ Leaving(Leaving(f, l), "none") = f
  <2>1. PICK state, from : f = File(state, from)
    BY <1>2, <1>3
  <2>2. QED
    BY <1>1, <2>1
<1>4. Leaving(NoFile, "none") = NoFile /\ NoFile.left = "none"
  BY DEF NoFile, File, Leaving
<1>5. QED
  BY <1>3, <1>4

LEMMA FilesHaveStates ==
    ASSUME MgTypeOK
    PROVE  /\ \A s \in Seconds : temps[s].state \in States /\ backups[s].state \in States
           /\ target.state \in States
BY DEF MgTypeOK, Files, States

LEMMA FilesInit == MgInit => FilesInv
<1> SUFFICES ASSUME MgInit PROVE FilesInv
  OBVIOUS
<1>1. {MaxSeconds, MaxCrashes, MaxWrites} \subseteq Nat
  BY MigratorAssumption
<1>2. 0 \in Seconds /\ 0 \in 0..MaxCrashes /\ 0 \in 0..MaxWrites
  BY <1>1 DEF Seconds
<1>3. \A f \in Files : f.state \in {"missing", "original", "schema", "filled", "mixed"}
  BY FilesDiffer DEF MgInit, Files
<1>4. MgTypeOK
  BY <1>2, <1>3 DEF MgInit, MgTypeOK, Places, Seconds
<1>5. QED
  BY <1>4 DEF MgInit, FilesInv, TargetWhole, OriginalKept

\* Nothing that concerns the files but what the migrator is at.
LEMMA FilesStay ==
    ASSUME FilesInv, UNCHANGED <<stamp, files, replaced>>, doing' \in Places,
           second' \in Seconds, stamp <= second',
           crashes' \in 0..MaxCrashes, writes' \in 0..MaxWrites,
           \/ doing' = "idle"
           \/ doing' = doing /\ UNCHANGED loaded
           \/ /\ doing \in Places \ {"idle", "validate", "replace", "install"}
              /\ doing' \in Places \ {"idle", "validate", "replace", "install"}
    PROVE  FilesInv'
<1>1. temps' = temps /\ backups' = backups /\ target' = target /\ log' = log
  BY DEF files
<1>2. Files' = Files
  BY <1>1 DEF Files
<1>3. MgTypeOK'
  BY <1>1, <1>2 DEF FilesInv, MgTypeOK
<1>4. TargetWhole' /\ OriginalKept'
  BY <1>1 DEF FilesInv, TargetWhole, OriginalKept, Parted
<1>5. QED
  BY <1>1, <1>3, <1>4 DEF FilesInv, Places

LEMMA ReadSteps ==
    ASSUME FilesInv, LoadConversations \/ LoadLedger \/ FindBare \/ LoadMessages
    PROVE  FilesInv'
<1>1. UNCHANGED <<stamp, files, replaced, second, crashes, writes>>
  BY DEF LoadConversations, LoadLedger, FindBare, LoadMessages, Read
<1>2. /\ doing \in {"conversations", "ledger", "bare", "messages"}
      /\ doing' \in {"ledger", "bare", "messages", "fill"}
  BY DEF LoadConversations, LoadLedger, FindBare, LoadMessages, Read
<1>3. second' \in Seconds /\ stamp <= second' /\ crashes' \in 0..MaxCrashes
      /\ writes' \in 0..MaxWrites
  BY <1>1 DEF FilesInv, MgTypeOK
<1>4. QED
  BY <1>1, <1>2, <1>3, FilesStay DEF Places

\* Whatever it finds there, a temporary file is made anew.
LEMMA TempSteps ==
    ASSUME FilesInv, stamp' \in Seconds, stamp' <= second, DOMAIN temps' = Seconds,
           \A s \in Seconds \ {stamp'} : temps'[s] = temps[s],
           UNCHANGED <<backups, target, log, second, crashes, writes, replaced>>,
           \/ doing' = "conversations" /\ temps'[stamp'] = Schema
           \/ /\ doing' = "validate" /\ temps'[stamp'] = Filled(loaded)
              /\ ~Conflict(loaded) /\ loaded' = loaded
    PROVE  FilesInv'
<1>1. Files' \subseteq Files \cup {temps'[stamp']}
  BY DEF Files
<1>2. temps'[stamp'].state \in {"schema", "filled"}
  BY FilesDiffer
<1>3. \A f \in Files' : f.state \in {"missing", "original", "schema", "filled", "mixed"}
  BY <1>1, <1>2 DEF FilesInv, MgTypeOK
<1>4. MgTypeOK'
  BY <1>3 DEF FilesInv, MgTypeOK, Places
<1>5. TargetWhole' /\ OriginalKept'
  BY DEF FilesInv, TargetWhole, OriginalKept, Parted
<1>6. QED
  BY <1>4, <1>5 DEF FilesInv

LEMMA FillSteps ==
    ASSUME FilesInv, Create \/ Fill \/ Validate
    PROVE  FilesInv'
<1>0. {stamp, second} \subseteq Seconds /\ stamp <= second /\ doing \in Places
  BY DEF FilesInv, MgTypeOK
<1>1. CASE Create
  <2>1. second <= second
    BY <1>0, MigratorAssumption DEF Seconds
  <2>2. /\ stamp' = second /\ doing' = "conversations"
        /\ UNCHANGED <<backups, target, log, second, crashes, writes, replaced>>
    BY <1>1 DEF Create
  <2>3. /\ DOMAIN temps' = Seconds /\ temps'[second] = Schema
        /\ \A s \in Seconds \ {second} : temps'[s] = temps[s]
    BY <1>0, <1>1 DEF Create, FilesInv
  <2>4. QED
    BY <1>0, <2>1, <2>2, <2>3, TempSteps
<1>2. CASE Fill
  <2>1. CASE Conflict(loaded)
    BY <1>0, <1>2, <2>1, FilesStay DEF Fill, Places, files, FilesInv, MgTypeOK
  <2>2. CASE ~Conflict(loaded)
    <3>1. stamp' = stamp /\ loaded' = loaded
      BY <1>2 DEF Fill
    <3>2. /\ doing' = "validate" /\ DOMAIN temps' = Seconds /\ temps'[stamp] = Filled(loaded)
          /\ \A s \in Seconds \ {stamp} : temps'[s] = temps[s]
      BY <1>0, <1>2, <2>2 DEF Fill, FilesInv
    <3>3. UNCHANGED <<backups, target, log, second, crashes, writes, replaced>>
      BY <1>2 DEF Fill
    <3>4. QED
      BY <1>0, <2>2, <3>1, <3>2, <3>3, TempSteps
  <2>3. QED
    BY <2>1, <2>2
<1>3. CASE Validate
  <2>1. UNCHANGED <<loaded, stamp, files, second, crashes, writes, replaced>>
    BY <1>3 DEF Validate
  <2>2. CASE ~Valid(loaded)
    BY <1>0, <1>3, <2>1, <2>2, FilesStay DEF Validate, Places, FilesInv, MgTypeOK
  <2>3. CASE Valid(loaded)
    <3>1. doing = "validate" /\ doing' = "replace" /\ loaded.chunks = WithDocument(loaded)
      BY <1>3, <2>3 DEF Validate, Valid
    <3>2. temps' = temps /\ backups' = backups /\ target' = target /\ log' = log
      BY <2>1 DEF files
    <3>3. Files' = Files
      BY <3>2 DEF Files
    <3>4. MgTypeOK'
      BY <2>1, <3>1, <3>2, <3>3 DEF FilesInv, MgTypeOK, Places
    <3>5. TargetWhole' /\ OriginalKept'
      BY <2>1, <3>2 DEF FilesInv, TargetWhole, OriginalKept, Parted
    <3>6. QED
      BY <2>1, <3>1, <3>2, <3>4, <3>5 DEF FilesInv
  <2>4. QED
    BY <2>2, <2>3
<1>4. QED
  BY <1>1, <1>2, <1>3

\* A backup may take the name of another, which is what replaced says.
LEMMA MoveAwayStep ==
    ASSUME FilesInv, MoveAway
    PROVE  FilesInv'
<1>0. {stamp, second} \subseteq Seconds /\ DOMAIN backups = Seconds
  BY DEF FilesInv, MgTypeOK
<1>1. UNCHANGED <<loaded, stamp, temps, second, crashes, writes>>
  BY DEF MoveAway
<1>2. doing = "replace" /\ doing' = "install" /\ target' = NoFile
  BY DEF MoveAway
<1>3. CASE target = NoFile
  <2>1. UNCHANGED <<backups, target, log, replaced>>
    BY <1>3 DEF MoveAway
  <2>2. Files' = Files
    BY <1>1, <2>1 DEF Files
  <2>3. MgTypeOK'
    BY <1>1, <1>2, <2>1, <2>2 DEF FilesInv, MgTypeOK, Places
  <2>4. QED
    BY <1>1, <1>2, <1>3, <2>1, <2>3 DEF FilesInv, TargetWhole, OriginalKept, Parted
<1>4. CASE target # NoFile
  <2> DEFINE moved == Leaving(target, log)
  <2>1. /\ backups' = [backups EXCEPT ![second] = moved]
        /\ replaced' = (replaced \/ backups[second] # NoFile)
        /\ log' = IF log = "none" THEN "none" ELSE "foreign"
    BY <1>4 DEF MoveAway
  <2>2. backups'[second] = moved /\ DOMAIN backups' = Seconds
    BY <1>0, <2>1
  <2>3. \A s \in Seconds \ {second} : backups'[s] = backups[s]
    BY <1>0, <2>1
  <2>4. target \in {NoFile, Original, Mixed} \/ target = Filled(target.from)
    BY DEF FilesInv
  <2>5. /\ moved.state = target.state /\ moved.left = log
        /\ target = Original => Leaving(moved, "none") = Original
    BY <2>4, FileShapes
  <2> HIDE DEF moved
  <2>6. Files' \subseteq Files \cup {NoFile, moved}
    BY <1>0, <1>1, <1>2, <2>2, <2>3 DEF Files
  <2>7. \A f \in Files' : f.state \in States
    BY <2>5, <2>6, FilesDiffer, FilesHaveStates DEF FilesInv, MgTypeOK, States
  <2>8. MgTypeOK'
    BY <1>1, <1>2, <2>1, <2>7 DEF FilesInv, MgTypeOK, Places, States
  <2>9. (Parted \/ log # "none") => Parted'
    <3>1. CASE replaced \/ \E s \in Seconds \ {second} : backups[s].left # "none"
      BY <2>1, <2>3, <3>1 DEF Parted
    <3>2. CASE backups[second].left # "none"
      BY <2>1, <3>2, FileShapes DEF Parted
    <3>3. CASE log # "none"
      BY <1>0, <2>2, <2>5, <3>3 DEF Parted
    <3>4. QED
      BY <3>1, <3>2, <3>3 DEF Parted
  <2>10. TargetWhole'
    <3>1. CASE target = Mixed
      BY <1>2, <1>4, <2>1, <2>9, <3>1, FilesDiffer DEF FilesInv, TargetWhole
    <3>2. CASE target # Mixed
      <4>1. target.state \in {"original", "filled"}
        BY <1>4, <3>2, FilesDiffer DEF FilesInv, TargetWhole
      <4>2. backups'[second].state \in {"original", "filled"}
        BY <2>2, <2>5, <4>1
      <4>3. log' = "foreign" => Parted'
        BY <2>1, <2>9
      <4>4. QED
        BY <1>0, <1>1, <1>2, <4>2, <4>3 DEF TargetWhole
    <3>3. QED
      BY <3>1, <3>2
  <2>11. OriginalKept'
    <3>1. CASE replaced
      BY <2>1, <3>1 DEF OriginalKept
    <3>2. CASE target = Original
      BY <1>0, <2>2, <2>5, <3>2 DEF OriginalKept
    <3>3. ASSUME NEW s \in Seconds, Leaving(backups[s], "none") = Original
          PROVE  OriginalKept'
      <4>1. CASE s = second
        BY <2>1, <3>3, <4>1, FileShapes, FilesDiffer DEF OriginalKept
      <4>2. CASE s # second
        BY <2>3, <3>3, <4>2 DEF OriginalKept
      <4>3. QED
        BY <4>1, <4>2
    <3>4. QED
      BY <3>1, <3>2, <3>3 DEF FilesInv, OriginalKept
  <2>12. QED
    BY <1>1, <1>2, <2>2, <2>8, <2>10, <2>11, FilesDiffer DEF FilesInv
<1>5. QED
  BY <1>3, <1>4

LEMMA InstallStep ==
    ASSUME FilesInv, Install
    PROVE  FilesInv'
<1>0. {stamp, second} \subseteq Seconds /\ DOMAIN temps = Seconds
  BY DEF FilesInv, MgTypeOK
<1>1. UNCHANGED <<loaded, stamp, backups, log, second, crashes, writes, replaced>>
  BY DEF Install
<1>2. doing = "install" /\ doing' = "idle"
  BY DEF Install
<1>3. target' = Filled(loaded) /\ target = NoFile
  BY <1>2 DEF Install, FilesInv, MgTypeOK
<1>4. temps' = [temps EXCEPT ![stamp] = NoFile]
  BY DEF Install
<1>5. DOMAIN temps' = Seconds /\ \A s \in Seconds : temps'[s] = NoFile \/ temps'[s] = temps[s]
  BY <1>0, <1>4
<1>6. Files' \subseteq Files \cup {NoFile, Filled(loaded)}
  BY <1>1, <1>3, <1>5 DEF Files
<1>7. \A f \in Files' : f.state \in {"missing", "original", "schema", "filled", "mixed"}
  BY <1>6, FilesDiffer DEF FilesInv, MgTypeOK
<1>8. MgTypeOK'
  BY <1>1, <1>2, <1>7 DEF FilesInv, MgTypeOK, Places
<1>9. ~Conflict(loaded) /\ loaded.chunks = WithDocument(loaded)
  BY <1>2 DEF FilesInv
<1>10. TargetWhole'
  BY <1>1, <1>3, <1>9, FilesDiffer DEF FilesInv, TargetWhole, Parted
<1>11. OriginalKept'
  BY <1>1, <1>3, FilesDiffer DEF FilesInv, OriginalKept
<1>12. QED
  BY <1>1, <1>2, <1>3, <1>5, <1>8, <1>10, <1>11, FilesDiffer DEF FilesInv

\* What BetterClaw opens is mixed only if its log was left behind.
LEMMA UseStep ==
    ASSUME FilesInv, Use
    PROVE  FilesInv'
<1>1. UNCHANGED <<loaded, doing, stamp, temps, backups, second, writes, replaced>>
  BY DEF Use
<1>2. doing = "idle" /\ target # NoFile /\ log' \in {"none", "own"} /\ target' \in {target, Mixed}
  BY DEF Use
<1>3. log # "foreign" => target' = target
  BY DEF Use
<1>4. crashes' \in 0..MaxCrashes
  BY MigratorAssumption DEF Use, FilesInv, MgTypeOK
<1>5. \A f \in Files' : f.state \in States
  BY <1>1, <1>2, FilesDiffer, FilesHaveStates DEF Files, FilesInv, MgTypeOK, States
<1>6. MgTypeOK'
  BY <1>1, <1>2, <1>4, <1>5 DEF FilesInv, MgTypeOK, States
<1>7. Parted' = Parted
  BY <1>1 DEF Parted
<1>8. TargetWhole'
  <2>1. CASE target' = target
    BY <1>1, <1>2, <1>7, <2>1 DEF FilesInv, TargetWhole
  <2>2. CASE log = "foreign" /\ target' = Mixed
    BY <1>2, <1>7, <2>2 DEF FilesInv, TargetWhole
  <2>3. QED
    BY <1>2, <1>3, <2>1, <2>2
<1>9. OriginalKept'
  BY <1>1, <1>2, <1>3 DEF FilesInv, OriginalKept, TargetWhole
<1>10. QED
  BY <1>1, <1>2, <1>6, <1>8, <1>9 DEF FilesInv

LEMMA OutsideFiles ==
    ASSUME FilesInv, Crash \/ Tick \/ Write
    PROVE  FilesInv'
<1>0. /\ doing \in Places /\ {stamp, second} \subseteq Seconds /\ stamp <= second
      /\ crashes \in 0..MaxCrashes /\ writes \in 0..MaxWrites
  BY DEF FilesInv, MgTypeOK
<1>1. MaxSeconds \in Nat /\ MaxCrashes \in Nat /\ MaxWrites \in Nat
  BY MigratorAssumption
<1>2. CASE Crash
  <2>1. crashes' \in 0..MaxCrashes
    BY <1>0, <1>1, <1>2 DEF Crash
  <2>2. QED
    BY <1>0, <1>2, <2>1, FilesStay DEF Crash, Places
<1>3. CASE Tick
  <2>1. second' \in Seconds /\ stamp <= second'
    BY <1>0, <1>1, <1>3 DEF Tick, Seconds
  <2>2. QED
    BY <1>0, <1>3, <2>1, FilesStay DEF Tick
<1>4. CASE Write
  <2>1. writes < MaxWrites /\ writes' = writes + 1
    BY <1>4 DEF Write
  <2>2. writes' \in 0..MaxWrites
    BY <1>0, <1>1, <2>1
  <2>3. QED
    BY <1>0, <1>4, <2>2, FilesStay DEF Write
<1>5. QED
  BY <1>2, <1>3, <1>4

LEMMA FilesInvariant == MgSpec => []FilesInv
<1>1. FilesInv /\ [MgNext]_mgVars => FilesInv'
  <2> SUFFICES ASSUME FilesInv, [MgNext]_mgVars PROVE FilesInv'
    OBVIOUS
  <2>1. CASE UNCHANGED mgVars
    <3>1. /\ second' \in Seconds /\ stamp <= second' /\ doing' \in Places
          /\ crashes' \in 0..MaxCrashes /\ writes' \in 0..MaxWrites
      BY <2>1 DEF mgVars, FilesInv, MgTypeOK
    <3>2. QED
      BY <2>1, <3>1, FilesStay DEF mgVars
  <2>2. CASE MgNext
    BY <2>2, ReadSteps, FillSteps, MoveAwayStep, InstallStep, OutsideFiles, UseStep DEF MgNext, Migrate
  <2>3. QED
    BY <2>1, <2>2
<1>2. QED
  BY <1>1, FilesInit, PTL DEF MgSpec

\* The migrator's files, what it has read and where it is have their types, wherever
\* it is stopped and however often it is started again.
THEOREM MigrationTypes == MgSpec => []MgTypeOK
<1>1. FilesInv => MgTypeOK
  BY DEF FilesInv
<1>2. QED
  BY <1>1, FilesInvariant, PTL

\* Wherever the migrator is stopped, and whatever the previous program writes
\* meanwhile, the target path has the original, a whole database that was
\* validated, or for a moment nothing, and no log of another file beside it,
\* unless a backup was parted from its log or replaced; and the original's file is
\* still somewhere, unless two backups had one name.
THEOREM FilesAreKept == MgSpec => []FilesKept
<1>1. FilesInv => FilesKept
  BY DEF FilesInv, FilesKept
<1>2. QED
  BY <1>1, FilesInvariant, PTL

-----------------------------------------------------------------------------
(* The turns of a list of events.                                           *)

\* STRING, spelled so that the provers see in it what the migrator writes itself.
Texts == STRING \cup {None, "said", "synthetic-turn", "running", "failed", "succeeded",
                      "user_turn", "agent_turn", "tool_result"}
Notes == [id : Texts, kind : Texts, thread : Texts, message : Texts, text : Texts, seqs : Numbers]

LEMMA TextTypes ==
    /\ {None, "said", "synthetic-turn", "running", "failed", "succeeded", "user_turn", "agent_turn",
        "tool_result"} \subseteq Texts
    /\ STRING \subseteq Texts /\ Events \subseteq Notes
    /\ <<>> \in Seq(Texts) /\ \A x, y \in Texts : <<x>> \in Seq(Texts) /\ <<x, y>> \in Seq(Texts)
<1>1. STRING \subseteq Texts /\ Events \subseteq Notes
  BY DEF Texts, Events, Ids, Notes
<1>2. {None, "said", "synthetic-turn", "running", "failed", "succeeded", "user_turn", "agent_turn",
       "tool_result"} \subseteq Texts
  BY DEF Texts
<1>3. <<>> \in Seq(Texts) /\ \A x, y \in Texts : <<x>> \in Seq(Texts) /\ <<x, y>> \in Seq(Texts)
  BY EmptySeq
<1>4. QED
  BY <1>1, <1>2, <1>3

Turns == [id : Seq(Texts), thread : Texts, answer : Texts, outbound : BOOLEAN, error : BOOLEAN,
          synthetic : BOOLEAN, status : Texts, events : Seq(Texts)]
Plans == [turns : Seq(Turns), current : Turns]
NoPlan == [turns |-> <<>>, current |-> NoTurn]
FirstId(e) == IF e.kind = "user_turn" THEN TurnId(e) ELSE <<e.id, "synthetic-turn">>

LEMMA TurnTypes ==
    /\ NoTurn \in Turns /\ NoPlan \in Plans
    /\ \A t \in Turns : Finalize(t) \in Turns
    /\ \A e \in Notes : FirstId(e) \in Seq(Texts) /\ FirstId(e) # <<>>
    /\ \A thread \in Texts, e \in Notes : Synthetic(thread, e) \in Turns
<1>0. <<>> \in Seq(Turns) /\ <<>> \in Seq(Texts)
  BY EmptySeq
<1>1. NoTurn \in Turns
  BY <1>0, TextTypes DEF NoTurn, Turns
<1>2. NoPlan \in Plans
  BY <1>0, <1>1 DEF NoPlan, Plans
<1>3. ASSUME NEW t \in Turns PROVE Finalize(t) \in Turns
  <2> DEFINE status == IF t.error /\ ~(t.synthetic /\ t.answer # None) THEN "failed" ELSE "succeeded"
  <2>1. status \in Texts
    BY TextTypes
  <2>2. Finalize(t) = [t EXCEPT !.status = status]
    BY DEF Finalize
  <2> HIDE DEF status
  <2>3. QED
    BY <2>1, <2>2 DEF Turns
<1>4. ASSUME NEW e \in Notes PROVE FirstId(e) \in Seq(Texts) /\ FirstId(e) # <<>>
  <2>1. e.id \in Texts /\ e.message \in Texts
    BY DEF Notes
  <2>2. <<e.id, "synthetic-turn">> \in Seq(Texts) /\ <<e.id, "synthetic-turn">> # <<>>
    BY <2>1, TextTypes
  <2>3. TurnId(e) \in Seq(Texts) /\ TurnId(e) # <<>>
    BY <2>1, TextTypes DEF TurnId
  <2>4. QED
    BY <2>2, <2>3 DEF FirstId
<1>5. ASSUME NEW thread \in Texts, NEW e \in Notes PROVE Synthetic(thread, e) \in Turns
  <2>1. <<e.id, "synthetic-turn">> \in Seq(Texts)
    <3>1. e.id \in Texts
      BY DEF Notes
    <3>2. QED
      BY <3>1, TextTypes
  <2>2. QED
    BY <1>1, <2>1 DEF Synthetic, Turns
<1>7. QED
  BY <1>1, <1>2, <1>3, <1>4, <1>5

\* What is open when an event comes that is not a user's.
Open(thread, acc, e) == IF acc.current = NoTurn THEN Synthetic(thread, e) ELSE acc.current

\* What an event that is not a user's makes of the open turn.
Goes(o, t, e) ==
    /\ t.id = o.id /\ t.thread = o.thread /\ t.synthetic = o.synthetic /\ t.status = o.status
    /\ e.kind = "agent_turn" =>
          t.answer = e.text /\ t.outbound /\ t.error = o.error /\ t.events = o.events
    /\ e.kind # "agent_turn" =>
          /\ t.answer = o.answer /\ t.outbound = o.outbound
          /\ t.events = Append(o.events, e.id)
          /\ t.error = (o.error \/ e.kind = "tool_error")

LEMMA TakeSteps ==
    ASSUME NEW thread \in Texts, NEW acc \in Plans, NEW e \in Notes
    PROVE  /\ Take(thread, acc, e) \in Plans
           /\ Closed(acc) \in Seq(Turns)
           /\ e.kind = "user_turn" =>
                 /\ Take(thread, acc, e).turns = Closed(acc)
                 /\ LET t == Take(thread, acc, e).current
                    IN  /\ t.id = TurnId(e) /\ t.thread = thread /\ ~t.synthetic /\ ~t.outbound
                        /\ t.answer = None /\ ~t.error /\ t.events = <<>> /\ t.status = "running"
           /\ e.kind # "user_turn" =>
                 /\ Take(thread, acc, e).turns = acc.turns
                 /\ Goes(Open(thread, acc, e), Take(thread, acc, e).current, e)
<1>1. /\ acc.turns \in Seq(Turns) /\ acc.current \in Turns
      /\ e.id \in Texts /\ e.text \in Texts /\ e.kind \in Texts
  BY DEF Plans, Notes
<1>2. Closed(acc) \in Seq(Turns)
  BY <1>1, TurnTypes, AppendProperties DEF Closed
<1>3. Open(thread, acc, e) \in Turns
  BY <1>1, TurnTypes DEF Open
<1>4. CASE e.kind = "user_turn"
  <2> DEFINE t == [NoTurn EXCEPT !.id = TurnId(e), !.thread = thread]
  <2>1. Take(thread, acc, e) = [turns |-> Closed(acc), current |-> t]
    BY <1>4 DEF Take
  <2>2. TurnId(e) \in Seq(Texts)
    BY <1>4, TurnTypes DEF FirstId
  <2>3. /\ t.id = TurnId(e) /\ t.thread = thread /\ ~t.synthetic /\ ~t.outbound
        /\ t.answer = None /\ ~t.error /\ t.events = <<>> /\ t.status = "running"
    BY DEF NoTurn
  <2>4. t \in Turns
    BY <2>2, TurnTypes DEF Turns
  <2> HIDE DEF t
  <2>5. /\ Take(thread, acc, e) \in Plans /\ Take(thread, acc, e).turns = Closed(acc)
        /\ Take(thread, acc, e).current = t
    BY <1>2, <2>1, <2>4 DEF Plans
  <2>6. QED
    BY <1>2, <1>4, <2>3, <2>5
<1>5. CASE e.kind # "user_turn"
  <2> DEFINE o == Open(thread, acc, e)
             said == [o EXCEPT !.answer = e.text, !.outbound = TRUE]
             erred == [o EXCEPT !.error = TRUE, !.events = Append(@, e.id)]
             told == [o EXCEPT !.events = Append(@, e.id)]
             t == IF e.kind = "agent_turn" THEN said ELSE IF e.kind = "tool_error" THEN erred ELSE told
  <2>1. Take(thread, acc, e) = [acc EXCEPT !.current = t]
    <3>1. (CASE e.kind = "agent_turn" -> said [] e.kind = "tool_error" -> erred [] OTHER -> told) = t
      BY <1>1
    <3>2. QED
      BY <1>5, <3>1 DEF Take, Open
  <2> HIDE DEF o
  <2>2. o \in Turns
    BY <1>3 DEF o
  <2>3. Append(o.events, e.id) \in Seq(Texts)
    <3>1. o.events \in Seq(Texts)
      BY <2>2 DEF Turns
    <3>2. QED
      BY <1>1, <3>1, AppendProperties
  <2>4. said \in Turns /\ erred \in Turns /\ told \in Turns
    BY <1>1, <2>2, <2>3 DEF Turns
  <2>5. Goes(o, t, e)
    <3>1. CASE e.kind = "agent_turn"
      BY <2>2, <3>1 DEF Turns, Goes
    <3>2. CASE e.kind = "tool_error"
      BY <2>2, <3>2 DEF Turns, Goes
    <3>3. CASE e.kind # "agent_turn" /\ e.kind # "tool_error"
      BY <2>2, <3>3 DEF Turns, Goes
    <3>4. QED
      BY <3>1, <3>2, <3>3
  <2>6. t \in Turns
    BY <2>4
  <2> HIDE DEF t
  <2>7. /\ Take(thread, acc, e) \in Plans /\ Take(thread, acc, e).turns = acc.turns
        /\ Take(thread, acc, e).current = t
    BY <1>1, <2>1, <2>6 DEF Plans
  <2>8. QED
    BY <1>2, <1>5, <2>5, <2>7 DEF o
<1>6. QED
  BY <1>4, <1>5

\* The plans of TurnsOf, one for each beginning of the list.
RunsOf(thread, list) ==
    {w \in [0..Len(list) -> Plans] :
        w[0] = NoPlan /\ \A i \in 1..Len(list) : w[i] = Take(thread, w[i - 1], list[i])}

LEMMA TurnsParts ==
    ASSUME NEW thread \in Texts, NEW list \in Seq(Notes)
    PROVE  \E w \in RunsOf(thread, list) : TurnsOf(thread, list) = Closed(w[Len(list)])
<1> DEFINE n == Len(list)
           Defines(w) == w = [i \in 0..n |-> IF i = 0 THEN [turns |-> <<>>, current |-> NoTurn]
                                             ELSE Take(thread, w[i - 1], list[i])]
           after == CHOOSE w : Defines(w)
           step == [p \in Plans \X (1..n) |-> Take(thread, p[1], list[p[2]])]
<1>1. n \in Nat /\ \A i \in 1..n : list[i] \in Notes
  BY LenProperties, ElementOfSeq
<1>2. TurnsOf(thread, list) = Closed(after[n])
  BY DEF TurnsOf
<1>3. step \in StepsOn(Plans, n) /\ NoPlan \in Plans
  <2>1. \A x \in Plans, i \in 1..n : Take(thread, x, list[i]) \in Plans
    BY <1>1, TakeSteps
  <2>2. QED
    BY <2>1, TurnTypes DEF StepsOn
<1>4. \A x \in Plans, i \in 1..n : step[<<x, i>>] = Take(thread, x, list[i])
  OBVIOUS
<1> HIDE DEF n, step, Defines, after
<1>5. PICK w \in [0..n -> Plans] : w[0] = NoPlan /\ \A i \in 1..n : w[i] = step[<<w[i - 1], i>>]
  BY <1>1, <1>3, Recursion DEF RunOf
<1>6. \A i \in 1..n : i - 1 \in 0..n /\ i # 0 /\ i \in 0..n
  BY <1>1
<1>7. \A i \in 1..n : w[i] = Take(thread, w[i - 1], list[i])
  BY <1>4, <1>5, <1>6
<1>8. Defines(w)
  <2>1. \A i \in 0..n : w[i] = IF i = 0 THEN [turns |-> <<>>, current |-> NoTurn]
                               ELSE Take(thread, w[i - 1], list[i])
    <3>1. \A i \in 0..n : i # 0 => i \in 1..n
      BY <1>1
    <3>2. QED
      BY <1>5, <1>7, <3>1 DEF NoPlan
  <2>2. QED
    BY <2>1 DEF Defines
<1>9. Defines(after)
  BY <1>8 DEF after
<1>10. after[0] = NoPlan /\ \A i \in 1..n : after[i] = Take(thread, after[i - 1], list[i])
  <2>1. 0 \in 0..n
    BY <1>1
  <2>2. QED
    BY <1>6, <1>9, <2>1 DEF Defines, NoPlan
<1> DEFINE T == {i \in 0..n : after[i] = w[i]}
<1>11. \A i \in 0..n : i \in T
  <2>1. 0 \in T
    BY <1>1, <1>5, <1>10
  <2>2. \A i \in 1..n : i - 1 \in T => i \in T
    BY <1>6, <1>7, <1>10
  <2> HIDE DEF T
  <2>3. QED
    BY <1>1, <2>1, <2>2, UpTo
<1>12. TurnsOf(thread, list) = Closed(w[n])
  BY <1>1, <1>2, <1>11
<1>13. QED
  BY <1>5, <1>7, <1>12 DEF n, RunsOf

\* What is known of the turn that is open after the events from s to n.
ToolKinds == LedgerKinds \ {"user_turn", "agent_turn"}
Part(list, s, n, kinds) == {j \in s..n : list[j].kind \in kinds}
IdsOf(list) == [k \in DOMAIN list |-> list[k].id]
Answers(list, s, n) == Part(list, s, n, {"agent_turn"})
Tools(list, s, n) == Part(list, s, n, ToolKinds)
Erred(list, s, n) == \E j \in Tools(list, s, n) : list[j].kind = "tool_error"

OpenFrom(thread, list, s, n, t) ==
    /\ t.id = FirstId(list[s]) /\ t.thread = thread /\ t.synthetic = (list[s].kind # "user_turn")
    /\ t.outbound = (Answers(list, s, n) # {})
    /\ t.answer = IF Answers(list, s, n) = {} THEN None ELSE list[Max(Answers(list, s, n))].text
    /\ t.events = Picked(IdsOf(list), Tools(list, s, n))
    /\ t.error = Erred(list, s, n)
    /\ t.status = "running"

LEMMA IdsTyped ==
    ASSUME NEW list \in Seq(Notes)
    PROVE  /\ IdsOf(list) \in Seq(Texts) /\ Len(IdsOf(list)) = Len(list)
           /\ \A i \in 1..Len(list) : IdsOf(list)[i] = list[i].id
<1>1. DOMAIN list = 1..Len(list) /\ Len(list) \in Nat /\ \A i \in 1..Len(list) : list[i] \in Notes
  BY LenProperties, ElementOfSeq
<1>2. \A i \in 1..Len(list) : list[i].id \in Texts
  BY <1>1 DEF Notes
<1>3. IdsOf(list) = [i \in 1..Len(list) |-> list[i].id]
  BY <1>1 DEF IdsOf
<1>4. QED
  BY <1>1, <1>2, <1>3

\* One event more.
LEMMA PartGrows ==
    ASSUME NEW list, NEW s \in Nat, NEW n \in Nat, s <= n, 1 <= s, NEW kinds
    PROVE  Part(list, s, n, kinds) = IF list[n].kind \in kinds THEN Part(list, s, n - 1, kinds) \cup {n}
                                     ELSE Part(list, s, n - 1, kinds)
<1>1. s..n = s..(n - 1) \cup {n}
  OBVIOUS
<1>2. QED
  BY <1>1 DEF Part

LEMMA PartEmpty ==
    ASSUME NEW list, NEW s \in Nat, NEW n \in Int, n < s, NEW kinds
    PROVE  Part(list, s, n, kinds) = {}
BY DEF Part

LEMMA OpenGrows ==
    ASSUME NEW thread, NEW list \in Seq(Notes), NEW n \in 1..Len(list), NEW s \in 1..n,
           list[n].kind \in LedgerKinds, list[n].kind # "user_turn",
           NEW o \in Turns, OpenFrom(thread, list, s, n - 1, o), NEW t \in Turns,
           Goes(o, t, list[n])
    PROVE  OpenFrom(thread, list, s, n, t)
<1>1. Len(list) \in Nat /\ n \in Nat /\ s \in Nat /\ 1 <= s /\ s <= n /\ n <= Len(list)
  BY LenProperties
<1>2. Part(list, s, n - 1, {"agent_turn"}) \subseteq s..(n - 1) /\ Part(list, s, n - 1, ToolKinds) \subseteq s..(n - 1)
  BY DEF Part
<1>3. t.id = FirstId(list[s]) /\ t.thread = thread /\ t.synthetic = (list[s].kind # "user_turn")
      /\ t.status = "running"
  BY DEF OpenFrom, Goes
<1>4. CASE list[n].kind = "agent_turn"
  <2>1. /\ Answers(list, s, n) = Answers(list, s, n - 1) \cup {n}
        /\ Tools(list, s, n) = Tools(list, s, n - 1)
    BY <1>1, <1>4, PartGrows DEF Answers, Tools, ToolKinds
  <2>2. Max(Answers(list, s, n)) = n
    <3> DEFINE M == Answers(list, s, n)
    <3>1. M \in SUBSET (0..n) /\ n \in M /\ \A y \in M : y <= n
      BY <1>1, <1>2, <2>1 DEF Answers
    <3> HIDE DEF M
    <3>2. QED
      BY <1>1, <3>1, MaxIs DEF M
  <2>3. t.outbound = (Answers(list, s, n) # {})
    <3>1. t.outbound /\ t.outbound \in BOOLEAN /\ Answers(list, s, n) # {}
      BY <1>4, <2>1 DEF Turns, Goes
    <3>2. QED
      BY <3>1
  <2>4. t.answer = IF Answers(list, s, n) = {} THEN None ELSE list[Max(Answers(list, s, n))].text
    BY <1>4, <2>1, <2>2 DEF Goes
  <2>5. t.events = Picked(IdsOf(list), Tools(list, s, n)) /\ t.error = Erred(list, s, n)
    BY <1>4, <2>1 DEF OpenFrom, Erred, Goes
  <2>6. QED
    BY <1>3, <2>3, <2>4, <2>5 DEF OpenFrom
<1>5. CASE list[n].kind # "agent_turn"
  <2>0. list[n].kind \in ToolKinds
    BY <1>5 DEF ToolKinds
  <2>1. /\ Answers(list, s, n) = Answers(list, s, n - 1)
        /\ Tools(list, s, n) = Tools(list, s, n - 1) \cup {n}
    <3>1. list[n].kind \notin {"agent_turn"}
      BY <1>5
    <3>2. /\ Part(list, s, n, {"agent_turn"}) = Part(list, s, n - 1, {"agent_turn"})
          /\ Part(list, s, n, ToolKinds) = Part(list, s, n - 1, ToolKinds) \cup {n}
      BY <1>1, <2>0, <3>1, PartGrows
    <3>3. QED
      BY <3>2 DEF Answers, Tools
  <2>2. t.events = Picked(IdsOf(list), Tools(list, s, n))
    <3> DEFINE places == Tools(list, s, n - 1)
               ids == IdsOf(list)
    <3>1. places \in SUBSET (1..(n - 1))
      BY <1>1, <1>2 DEF Tools
    <3>2. ids \in Seq(Texts) /\ n \in 1..Len(ids) /\ ids[n] = list[n].id
      BY <1>1, IdsTyped
    <3>3. o.events = Picked(ids, places)
      BY DEF OpenFrom
    <3> HIDE DEF places, ids
    <3>4. Picked(ids, places \cup {n}) = Append(Picked(ids, places), ids[n])
      BY <3>1, <3>2, PickedGrows
    <3>5. QED
      BY <1>5, <2>1, <3>2, <3>3, <3>4 DEF places, ids, Goes
  <2>3. t.error = Erred(list, s, n)
    <3>1. Erred(list, s, n) <=> Erred(list, s, n - 1) \/ list[n].kind = "tool_error"
      BY <2>1 DEF Erred
    <3>2. t.error = (o.error \/ list[n].kind = "tool_error") /\ o.error = Erred(list, s, n - 1)
      BY <1>5 DEF OpenFrom, Goes
    <3>3. t.error \in BOOLEAN /\ o.error \in BOOLEAN
      BY DEF Turns
    <3>4. Erred(list, s, n) \in BOOLEAN /\ Erred(list, s, n - 1) \in BOOLEAN
      BY DEF Erred
    <3>5. QED
      BY <3>1, <3>2, <3>3, <3>4
  <2>4. /\ t.outbound = (Answers(list, s, n) # {})
        /\ t.answer = IF Answers(list, s, n) = {} THEN None ELSE list[Max(Answers(list, s, n))].text
    BY <1>5, <2>1 DEF OpenFrom, Goes
  <2>5. QED
    BY <1>3, <2>2, <2>3, <2>4 DEF OpenFrom
<1>6. QED
  BY <1>4, <1>5

LEMMA OpenBegins ==
    ASSUME NEW thread, NEW list \in Seq(Notes), NEW n \in 1..Len(list), NEW t \in Turns,
           t.id = FirstId(list[n]), t.thread = thread, t.synthetic = (list[n].kind # "user_turn"),
           ~t.outbound, t.answer = None, ~t.error, t.events = <<>>, t.status = "running",
           NEW m \in {n - 1, n}, m = n => list[n].kind = "user_turn"
    PROVE  OpenFrom(thread, list, n, m, t)
<1>1. Len(list) \in Nat /\ n \in Nat /\ 1 <= n /\ n - 1 < n /\ n - 1 \in Int
  BY LenProperties
<1>2. Answers(list, n, n - 1) = {} /\ Tools(list, n, n - 1) = {}
  BY <1>1, PartEmpty DEF Answers, Tools
<1>3. Answers(list, n, m) = {} /\ Tools(list, n, m) = {}
  <2>1. CASE m = n
    <3>1. list[n].kind \notin {"agent_turn"} /\ list[n].kind \notin ToolKinds
      BY <2>1 DEF ToolKinds
    <3>2. /\ Part(list, n, n, {"agent_turn"}) = Part(list, n, n - 1, {"agent_turn"})
          /\ Part(list, n, n, ToolKinds) = Part(list, n, n - 1, ToolKinds)
      BY <1>1, <3>1, PartGrows
    <3>3. QED
      BY <1>2, <2>1, <3>2 DEF Answers, Tools
  <2>2. CASE m = n - 1
    BY <1>2, <2>2
  <2>3. QED
    BY <2>1, <2>2
<1>4. Picked(IdsOf(list), Tools(list, n, m)) = <<>>
  BY <1>3, IdsTyped, PickedNothing
<1>5. t.outbound = (Answers(list, n, m) # {}) /\ t.error = Erred(list, n, m)
  BY <1>3 DEF Turns, Erred
<1>6. QED
  BY <1>3, <1>4, <1>5 DEF OpenFrom

LEMMA OpenEnds ==
    ASSUME NEW thread, NEW list \in Seq(Notes), NEW s \in 1..Len(list), NEW n \in s..Len(list),
           Span(list, s) = s..n, NEW t \in Turns, OpenFrom(thread, list, s, n, t)
    PROVE  IsTurnFrom(thread, list, s, Finalize(t))
<1> DEFINE status == IF t.error /\ ~(t.synthetic /\ t.answer # None) THEN "failed" ELSE "succeeded"
           f == Finalize(t)
<1>1. /\ f.id = t.id /\ f.thread = t.thread /\ f.synthetic = t.synthetic /\ f.outbound = t.outbound
      /\ f.answer = t.answer /\ f.events = t.events /\ f.status = status
  BY DEF Finalize, Turns
<1> HIDE DEF f
<1>2. /\ Within(list, s, {"agent_turn"}) = Answers(list, s, n)
      /\ Within(list, s, LedgerKinds \ {"user_turn", "agent_turn"}) = Tools(list, s, n)
  BY DEF Within, Answers, Tools, Part, ToolKinds
<1>3. /\ status \in {"failed", "succeeded"} /\ (status = "failed" => t.error)
      /\ (status = "succeeded" => t.synthetic \/ ~t.error)
  OBVIOUS
<1>4. t.error = Erred(list, s, n) /\ t.error \in BOOLEAN
  BY DEF OpenFrom, Turns
<1> HIDE DEF status
<1>5. /\ f.id = IF list[s].kind = "user_turn" THEN TurnId(list[s]) ELSE <<list[s].id, "synthetic-turn">>
      /\ f.thread = thread /\ f.synthetic = (list[s].kind # "user_turn")
  BY <1>1 DEF OpenFrom, FirstId
<1>6. /\ f.outbound = (Answers(list, s, n) # {})
      /\ f.answer = IF Answers(list, s, n) = {} THEN None ELSE list[Max(Answers(list, s, n))].text
      /\ f.events = Picked([k \in DOMAIN list |-> list[k].id], Tools(list, s, n))
  BY <1>1 DEF OpenFrom, IdsOf
<1>7. /\ f.status \in {"failed", "succeeded"} /\ (f.status = "failed" => Erred(list, s, n))
      /\ (f.status = "succeeded" => f.synthetic \/ ~Erred(list, s, n))
  BY <1>1, <1>3, <1>4
<1>8. QED
  BY <1>2, <1>5, <1>6, <1>7 DEF IsTurnFrom, Erred, f

\* What TurnsOf has planned after n events, the last turn being from s on.
PlannedFrom(thread, list, s, n, acc) ==
    /\ \A k \in (s + 1)..n : list[k].kind # "user_turn"
    /\ acc.current # NoTurn /\ OpenFrom(thread, list, s, n, acc.current)
    /\ \A i \in Starts(list) : i < s => \E t \in ToSet(acc.turns) : IsTurnFrom(thread, list, i, t)
    /\ \A t \in ToSet(acc.turns) : \E i \in Starts(list) : i < s /\ IsTurnFrom(thread, list, i, t)
    /\ Len(acc.turns) = Cardinality({i \in Starts(list) : i < s})

LEMMA AppendSet ==
    ASSUME NEW S, NEW q \in Seq(S), NEW x \in S
    PROVE  ToSet(Append(q, x)) = ToSet(q) \cup {x} /\ Len(Append(q, x)) = Len(q) + 1
<1>1. /\ Len(q) \in Nat /\ DOMAIN q = 1..Len(q)
      /\ Append(q, x) \in Seq(S) /\ Len(Append(q, x)) = Len(q) + 1
      /\ \A i \in 1..Len(q) : Append(q, x)[i] = q[i]
      /\ Append(q, x)[Len(q) + 1] = x
  BY LenProperties, AppendProperties
<1>2. DOMAIN Append(q, x) = 1..(Len(q) + 1)
  BY <1>1, LenProperties
<1>3. 1..(Len(q) + 1) = 1..Len(q) \cup {Len(q) + 1}
  BY <1>1
<1>4. QED
  BY <1>1, <1>2, <1>3 DEF ToSet

\* A turn may end with its n-th event.
EndsAt(list, n) == n = Len(list) \/ list[n + 1].kind = "user_turn"

LEMMA Beyond ==
    ASSUME NEW s \in Nat, NEW n \in Nat, NEW j \in Nat, NEW m \in Nat, s <= n, j <= m, n + 1 <= j
    PROVE  n + 1 \in (s + 1)..j /\ n # m
OBVIOUS

\* The last turn is finished: with it, the turns are those of the starts up to its own.
LEMMA TurnEnds ==
    ASSUME NEW thread, NEW list \in Seq(Notes), NEW s \in 1..Len(list), s \in Starts(list),
           NEW n \in s..Len(list), EndsAt(list, n),
           NEW acc \in Plans, PlannedFrom(thread, list, s, n, acc)
    PROVE  /\ \A i \in Starts(list) : i <= s =>
                 \E t \in ToSet(Closed(acc)) : IsTurnFrom(thread, list, i, t)
           /\ \A t \in ToSet(Closed(acc)) :
                 \E i \in Starts(list) : i <= s /\ IsTurnFrom(thread, list, i, t)
           /\ Len(Closed(acc)) = Cardinality({i \in Starts(list) : i <= s})
           /\ \A i \in Starts(list) : i <= n => i <= s
<1> DEFINE f == Finalize(acc.current)
<1>1. /\ DOMAIN list = 1..Len(list) /\ Len(list) \in Nat /\ Starts(list) \subseteq 1..Len(list)
      /\ s \in 1..Len(list) /\ s \in Nat /\ n \in Nat /\ s <= n /\ n <= Len(list)
  BY LenProperties DEF Starts
<1>2. acc.turns \in Seq(Turns) /\ acc.current \in Turns /\ f \in Turns
  BY TurnTypes DEF Plans
<1>3. Span(list, s) = s..n
  <2>1. ASSUME NEW j \in s..n PROVE j \in Span(list, s)
    <3>1. j \in s..Len(list) /\ \A k \in (s + 1)..j : k \in (s + 1)..n
      BY <1>1
    <3>2. QED
      BY <3>1 DEF Span, PlannedFrom
  <2>2. ASSUME NEW j \in Span(list, s) PROVE j \in s..n
    <3>1. j \in s..Len(list) /\ \A k \in (s + 1)..j : list[k].kind # "user_turn"
      BY DEF Span
    <3>2. ~(n + 1 <= j)
      <4>1. SUFFICES ASSUME n + 1 <= j PROVE FALSE
        OBVIOUS
      <4>2. n + 1 \in (s + 1)..j /\ n # Len(list)
        <5>1. j \in Nat /\ j <= Len(list)
          BY <1>1, <3>1
        <5>2. QED
          BY <1>1, <4>1, <5>1, Beyond
      <4>3. QED
        BY <3>1, <4>2 DEF EndsAt
    <3>3. QED
      BY <1>1, <3>1, <3>2
  <2>3. QED
    BY <2>1, <2>2, <1>1 DEF Span
<1>4. IsTurnFrom(thread, list, s, f)
  <2>1. n \in s..Len(list)
    OBVIOUS
  <2>2. OpenFrom(thread, list, s, n, acc.current)
    BY DEF PlannedFrom
  <2>3. QED
    BY <1>1, <1>2, <1>3, <2>2, OpenEnds
<1> HIDE DEF f
<1>5. ToSet(Closed(acc)) = ToSet(acc.turns) \cup {f} /\ Len(Closed(acc)) = Len(acc.turns) + 1
  <2>1. Closed(acc) = Append(acc.turns, f)
    BY DEF Closed, PlannedFrom, f
  <2>2. QED
    BY <1>2, <2>1, AppendSet
<1>6. \A i \in Starts(list) : i \in Nat /\ (i <= s <=> i < s \/ i = s)
  BY <1>1
<1>7. Len(Closed(acc)) = Cardinality({i \in Starts(list) : i <= s})
  <2> DEFINE before == {i \in Starts(list) : i < s}
             upto == {i \in Starts(list) : i <= s}
  <2>1. upto = before \cup {s} /\ s \notin before
    BY <1>1, <1>6
  <2>2. IsFiniteSet(before)
    <3>1. IsFiniteSet(1..Len(list)) /\ before \subseteq 1..Len(list)
      BY <1>1, FS_Interval
    <3>2. QED
      BY <3>1, FS_Subset
  <2>3. Len(acc.turns) = Cardinality(before)
    BY DEF PlannedFrom
  <2> HIDE DEF before, upto
  <2>4. Cardinality(upto) = Cardinality(before) + 1
    BY <2>1, <2>2, FS_AddElement
  <2>5. QED
    BY <1>5, <2>3, <2>4 DEF upto
<1>8. ASSUME NEW i \in Starts(list), i <= n PROVE i <= s
  <2>1. i \in 1..Len(list) /\ (i = 1 \/ list[i].kind = "user_turn")
    BY <1>1 DEF Starts
  <2>2. ~(s + 1 <= i)
    <3>1. SUFFICES ASSUME s + 1 <= i PROVE FALSE
      OBVIOUS
    <3>2. i \in (s + 1)..n /\ i # 1
      BY <1>1, <1>8, <2>1, <3>1
    <3>3. QED
      BY <2>1, <3>2 DEF PlannedFrom
  <2>3. QED
    BY <1>1, <2>1, <2>2
<1>9. \A i \in Starts(list) : i <= s => \E t \in ToSet(Closed(acc)) : IsTurnFrom(thread, list, i, t)
  BY <1>4, <1>5, <1>6 DEF PlannedFrom
<1>10. \A t \in ToSet(Closed(acc)) : \E i \in Starts(list) : i <= s /\ IsTurnFrom(thread, list, i, t)
  <2>1. s <= s
    BY <1>1
  <2>2. QED
    BY <1>4, <1>5, <1>6, <2>1 DEF PlannedFrom
<1>11. QED
  BY <1>7, <1>8, <1>9, <1>10

\* Before the first event.
LEMMA NoneBefore ==
    ASSUME NEW list \in Seq(Notes)
    PROVE  /\ {i \in Starts(list) : i < 1} = {} /\ Cardinality({i \in Starts(list) : i < 1}) = 0
           /\ ToSet(NoPlan.turns) = {} /\ Len(NoPlan.turns) = 0 /\ Closed(NoPlan) = <<>>
           /\ NoPlan.current = NoTurn /\ ToSet(<<>>) = {} /\ Len(<<>>) = 0
           /\ \A i \in Starts(list) : ~(i < 1)
<1>1. \A i \in Starts(list) : ~(i < 1)
  <2>1. DOMAIN list = 1..Len(list) /\ Len(list) \in Nat
    BY LenProperties
  <2>2. \A i \in 1..Len(list) : ~(i < 1)
    BY <2>1
  <2>3. QED
    BY <2>1, <2>2 DEF Starts
<1>2. {i \in Starts(list) : i < 1} = {}
  BY <1>1
<1>3. ToSet(<<>>) = {} /\ Len(<<>>) = 0
  BY DEF ToSet
<1>4. QED
  BY <1>1, <1>2, <1>3, FS_EmptySet DEF NoPlan, Closed

\* A user turn begins the next turn.
LEMMA TurnBegins ==
    ASSUME NEW thread \in Texts, NEW list \in Seq(Notes), NEW n \in 1..Len(list),
           list[n].kind = "user_turn", NEW acc \in Plans,
           \/ n = 1 /\ acc = NoPlan
           \/ n > 1 /\ \E s \in 1..(n - 1) : s \in Starts(list) /\ PlannedFrom(thread, list, s, n - 1, acc)
    PROVE  n \in Starts(list) /\ PlannedFrom(thread, list, n, n, Take(thread, acc, list[n]))
<1> DEFINE new == Take(thread, acc, list[n])
<1>1. /\ DOMAIN list = 1..Len(list) /\ Len(list) \in Nat /\ n \in Nat /\ 1 <= n /\ n <= Len(list)
      /\ list[n] \in Notes /\ n \in n..Len(list)
  BY LenProperties, ElementOfSeq
<1>2. n \in Starts(list)
  BY <1>1 DEF Starts
<1>3. /\ new \in Plans /\ new.turns = Closed(acc)
      /\ new.current.id = TurnId(list[n]) /\ new.current.thread = thread /\ ~new.current.synthetic
      /\ ~new.current.outbound /\ new.current.answer = None /\ ~new.current.error
      /\ new.current.events = <<>> /\ new.current.status = "running"
  BY <1>1, TakeSteps
<1> HIDE DEF new
<1>4. new.current \in Turns /\ new.current.id = FirstId(list[n])
      /\ new.current.synthetic = (list[n].kind # "user_turn")
  BY <1>3 DEF Plans, FirstId, Turns
<1>5. OpenFrom(thread, list, n, n, new.current)
  BY <1>1, <1>3, <1>4, OpenBegins
<1>6. new.current # NoTurn
  <2>1. FirstId(list[n]) # <<>> /\ NoTurn.id = <<>>
    BY <1>1, TurnTypes DEF NoTurn
  <2>2. QED
    BY <1>4, <2>1
<1>7. \A k \in (n + 1)..n : list[k].kind # "user_turn"
  BY <1>1
<1>8. /\ \A i \in Starts(list) : i < n => \E t \in ToSet(new.turns) : IsTurnFrom(thread, list, i, t)
      /\ \A t \in ToSet(new.turns) : \E i \in Starts(list) : i < n /\ IsTurnFrom(thread, list, i, t)
      /\ Len(new.turns) = Cardinality({i \in Starts(list) : i < n})
  <2>1. CASE n = 1 /\ acc = NoPlan
    BY <1>3, <2>1, NoneBefore
  <2>2. CASE n > 1 /\ \E s \in 1..(n - 1) : s \in Starts(list) /\ PlannedFrom(thread, list, s, n - 1, acc)
    <3>1. PICK s \in 1..(n - 1) : s \in Starts(list) /\ PlannedFrom(thread, list, s, n - 1, acc)
      BY <2>2
    <3>2. s \in 1..Len(list) /\ n - 1 \in s..Len(list) /\ n - 1 + 1 = n
      BY <1>1, <2>2, <3>1
    <3>3. EndsAt(list, n - 1)
      BY <3>2 DEF EndsAt
    <3>4. /\ \A i \in Starts(list) : i <= s =>
                 \E t \in ToSet(Closed(acc)) : IsTurnFrom(thread, list, i, t)
          /\ \A t \in ToSet(Closed(acc)) :
                 \E i \in Starts(list) : i <= s /\ IsTurnFrom(thread, list, i, t)
          /\ Len(Closed(acc)) = Cardinality({i \in Starts(list) : i <= s})
          /\ \A i \in Starts(list) : i <= n - 1 => i <= s
      BY <3>1, <3>2, <3>3, TurnEnds
    <3>5. \A i \in Starts(list) : i < n <=> i <= s
      <4>1. \A i \in Starts(list) : i \in 1..Len(list)
        BY <1>1 DEF Starts
      <4>2. \A i \in 1..Len(list) : (i < n <=> i <= n - 1) /\ (i <= s => i <= n - 1)
        BY <1>1, <3>1, <3>2
      <4>3. QED
        BY <3>4, <4>1, <4>2
    <3>6. {i \in Starts(list) : i < n} = {i \in Starts(list) : i <= s}
      BY <3>5
    <3>7. QED
      BY <1>3, <3>4, <3>5, <3>6
  <2>3. QED
    BY <2>1, <2>2
<1>9. QED
  BY <1>2, <1>5, <1>6, <1>7, <1>8 DEF PlannedFrom, new

\* Any other event goes to the turn that is open, or opens the first.
LEMMA TurnGoesOn ==
    ASSUME NEW thread \in Texts, NEW list \in Seq(Notes), NEW n \in 1..Len(list),
           list[n].kind \in LedgerKinds, list[n].kind # "user_turn", NEW acc \in Plans,
           NEW s \in 1..n, s \in Starts(list),
           \/ n = 1 /\ acc = NoPlan
           \/ n > 1 /\ s \in 1..(n - 1) /\ PlannedFrom(thread, list, s, n - 1, acc)
    PROVE  PlannedFrom(thread, list, s, n, Take(thread, acc, list[n]))
<1> DEFINE new == Take(thread, acc, list[n])
           o == Open(thread, acc, list[n])
<1>1. /\ DOMAIN list = 1..Len(list) /\ Len(list) \in Nat /\ n \in Nat /\ 1 <= n /\ n <= Len(list)
      /\ list[n] \in Notes /\ s \in Nat /\ list[s] \in Notes
  <2>1. Len(list) \in Nat /\ DOMAIN list = 1..Len(list)
    BY LenProperties
  <2>2. s \in 1..Len(list) /\ n \in Nat /\ s \in Nat
    BY <2>1
  <2>3. QED
    BY <2>1, <2>2, ElementOfSeq
<1>2. new \in Plans /\ new.turns = acc.turns /\ Goes(o, new.current, list[n])
  <2> DEFINE e == list[n]
  <2>1. thread \in Texts /\ acc \in Plans /\ e \in Notes /\ e.kind # "user_turn"
    BY <1>1
  <2> HIDE DEF e
  <2>2. /\ Take(thread, acc, e) \in Plans /\ Take(thread, acc, e).turns = acc.turns
        /\ Goes(Open(thread, acc, e), Take(thread, acc, e).current, e)
    BY ONLY <2>1, TakeSteps
  <2>3. QED
    BY <2>2 DEF e
<1>3. o \in Turns /\ new.current \in Turns
  BY <1>1, <1>2, TurnTypes DEF Plans, Open
<1>4. OpenFrom(thread, list, s, n - 1, o)
  <2>1. CASE n = 1 /\ acc = NoPlan
    <3>0. s = 1 /\ n = 1
      BY <1>1, <2>1
    <3>1. s = 1 /\ n = 1 /\ o = Synthetic(thread, list[1])
      <4>1. acc.current = NoTurn
        BY <2>1 DEF NoPlan
      <4>2. QED
        BY <3>0, <4>1 DEF Open
    <3>2. /\ o.id = FirstId(list[1]) /\ o.thread = thread /\ o.synthetic = (list[1].kind # "user_turn")
          /\ ~o.outbound /\ o.answer = None /\ ~o.error /\ o.events = <<>> /\ o.status = "running"
      BY <3>1 DEF Synthetic, FirstId, NoTurn
    <3>3. 1 \in 1..Len(list) /\ 0 \in {1 - 1, 1} /\ n - 1 = 0 /\ 0 # 1
      BY <1>1, <3>1
    <3> HIDE DEF o
    <3>4. OpenFrom(thread, list, 1, 0, o)
      BY <1>3, <3>2, <3>3, OpenBegins
    <3>5. QED
      BY <3>1, <3>3, <3>4
  <2>2. CASE n > 1 /\ s \in 1..(n - 1) /\ PlannedFrom(thread, list, s, n - 1, acc)
    BY <2>2 DEF PlannedFrom, Open
  <2>3. QED
    BY <2>1, <2>2
<1> HIDE DEF new, o
<1>5. OpenFrom(thread, list, s, n, new.current)
  BY <1>2, <1>3, <1>4, OpenGrows
<1>6. new.current # NoTurn
  <2>1. FirstId(list[s]) # <<>> /\ NoTurn.id = <<>>
    BY <1>1, TurnTypes DEF NoTurn
  <2>2. QED
    BY <1>5, <2>1 DEF OpenFrom
<1>7. \A k \in (s + 1)..n : list[k].kind # "user_turn"
  <2>1. CASE n = 1
    BY <1>1, <2>1
  <2>2. CASE n > 1 /\ s \in 1..(n - 1) /\ PlannedFrom(thread, list, s, n - 1, acc)
    <3>1. \A k \in (s + 1)..n : k = n \/ k \in (s + 1)..(n - 1)
      BY <1>1
    <3>2. QED
      BY <2>2, <3>1 DEF PlannedFrom
  <2>3. QED
    BY <2>1, <2>2
<1>8. /\ \A i \in Starts(list) : i < s => \E t \in ToSet(acc.turns) : IsTurnFrom(thread, list, i, t)
      /\ \A t \in ToSet(acc.turns) : \E i \in Starts(list) : i < s /\ IsTurnFrom(thread, list, i, t)
      /\ Len(acc.turns) = Cardinality({i \in Starts(list) : i < s})
  <2>1. CASE n = 1 /\ acc = NoPlan
    <3>1. s = 1
      BY <1>1, <2>1
    <3>2. QED
      BY <2>1, <3>1, NoneBefore
  <2>2. CASE n > 1 /\ s \in 1..(n - 1) /\ PlannedFrom(thread, list, s, n - 1, acc)
    BY <2>2 DEF PlannedFrom
  <2>3. QED
    BY <2>1, <2>2
<1>9. QED
  BY <1>2, <1>5, <1>6, <1>7, <1>8 DEF PlannedFrom, new

\* The turns of a list are those that its events make.
LEMMA TurnsFit ==
    ASSUME NEW thread \in Texts, NEW list \in Seq(Notes),
           \A i \in 1..Len(list) : list[i].kind \in LedgerKinds
    PROVE  /\ TurnsOf(thread, list) \in Seq(Turns)
           /\ Len(TurnsOf(thread, list)) = Cardinality(Starts(list))
           /\ \A i \in Starts(list) :
                 \E t \in ToSet(TurnsOf(thread, list)) : IsTurnFrom(thread, list, i, t)
           /\ \A t \in ToSet(TurnsOf(thread, list)) :
                 \E i \in Starts(list) : IsTurnFrom(thread, list, i, t)
<1> DEFINE m == Len(list)
<1>1. PICK w \in RunsOf(thread, list) : TurnsOf(thread, list) = Closed(w[m])
  BY TurnsParts
<1>2. /\ w \in [0..m -> Plans] /\ w[0] = NoPlan
      /\ \A i \in 1..m : w[i] = Take(thread, w[i - 1], list[i])
  BY <1>1 DEF RunsOf
<1>3. m \in Nat /\ DOMAIN list = 1..m
  BY LenProperties
<1> HIDE DEF m
<1> DEFINE Fits(n) == n = 0 \/ \E s \in 1..n : s \in Starts(list) /\ PlannedFrom(thread, list, s, n, w[n])
           T == {n \in 0..m : Fits(n)}
<1>4. ASSUME NEW n \in 1..m, n - 1 \in T PROVE n \in T
  <2>1. n \in 0..m /\ n - 1 \in 0..m /\ n \in 1..n /\ n \in Nat /\ (n = 1 <=> n - 1 = 0) /\ (n # 1 => n > 1)
        /\ (n = 1 => 1 \in 1..n)
    BY <1>3
  <2>2. w[n - 1] \in Plans /\ w[n] = Take(thread, w[n - 1], list[n]) /\ list[n].kind \in LedgerKinds
    BY <1>2, <2>1 DEF m
  <2>3. CASE list[n].kind = "user_turn"
    <3>1. \/ n = 1 /\ w[n - 1] = NoPlan
          \/ n > 1 /\ \E s \in 1..(n - 1) : s \in Starts(list) /\ PlannedFrom(thread, list, s, n - 1, w[n - 1])
      BY <1>2, <1>4, <2>1
    <3>2. n \in Starts(list) /\ PlannedFrom(thread, list, n, n, w[n])
      BY <2>2, <2>3, <3>1, TurnBegins DEF m
    <3>3. QED
      BY <2>1, <3>2
  <2>4. CASE list[n].kind # "user_turn"
    <3>1. CASE n = 1
      <4>1. 1 \in Starts(list) /\ w[n - 1] = NoPlan
        BY <1>2, <1>3, <2>1, <3>1 DEF Starts
      <4>2. PlannedFrom(thread, list, 1, n, w[n])
        BY <2>1, <2>2, <2>4, <3>1, <4>1, TurnGoesOn DEF m
      <4>3. QED
        BY <2>1, <3>1, <4>1, <4>2
    <3>2. CASE n > 1
      <4>1. PICK s \in 1..(n - 1) : s \in Starts(list) /\ PlannedFrom(thread, list, s, n - 1, w[n - 1])
        BY <1>4, <2>1, <3>2
      <4>2. s \in 1..n
        BY <2>1, <4>1
      <4>3. PlannedFrom(thread, list, s, n, w[n])
        BY <2>2, <2>4, <3>2, <4>1, <4>2, TurnGoesOn DEF m
      <4>4. QED
        BY <2>1, <4>1, <4>2, <4>3
    <3>3. QED
      BY <2>1, <3>1, <3>2
  <2>5. QED
    BY <2>3, <2>4
<1>5. Fits(m)
  <2>1. 0 \in T
    BY <1>3
  <2> HIDE DEF T
  <2>2. \A n \in 0..m : n \in T
    BY <1>3, <1>4, <2>1, UpTo
  <2>3. m \in T
    BY <1>3, <2>2
  <2>4. QED
    BY <2>3 DEF T
<1>6. w[m] \in Plans /\ TurnsOf(thread, list) \in Seq(Turns)
  BY <1>1, <1>2, <1>3, TurnTypes, AppendProperties DEF Closed, Plans
<1>7. CASE m = 0
  <2>1. TurnsOf(thread, list) = <<>>
    BY <1>1, <1>2, <1>7, NoneBefore
  <2>2. Starts(list) = {} /\ Cardinality(Starts(list)) = 0
    BY <1>3, <1>7, FS_EmptySet DEF Starts
  <2>3. QED
    BY <1>6, <2>1, <2>2, NoneBefore
<1>8. CASE m # 0
  <2>1. PICK s \in 1..m : s \in Starts(list) /\ PlannedFrom(thread, list, s, m, w[m])
    BY <1>5, <1>8
  <2>2. s \in 1..Len(list) /\ m \in s..Len(list) /\ EndsAt(list, m)
    BY <1>3, <2>1 DEF m, EndsAt
  <2>3. /\ \A i \in Starts(list) : i <= s =>
               \E t \in ToSet(Closed(w[m])) : IsTurnFrom(thread, list, i, t)
        /\ \A t \in ToSet(Closed(w[m])) :
               \E i \in Starts(list) : i <= s /\ IsTurnFrom(thread, list, i, t)
        /\ Len(Closed(w[m])) = Cardinality({i \in Starts(list) : i <= s})
        /\ \A i \in Starts(list) : i <= m => i <= s
    BY <1>6, <2>1, <2>2, TurnEnds
  <2>4. \A i \in Starts(list) : i <= s
    <3>1. \A i \in Starts(list) : i <= m
      BY <1>3 DEF Starts
    <3>2. QED
      BY <2>3, <3>1
  <2>5. {i \in Starts(list) : i <= s} = Starts(list)
    BY <2>4
  <2>6. QED
    BY <1>1, <1>6, <2>3, <2>4, <2>5
<1>9. QED
  BY <1>7, <1>8

-----------------------------------------------------------------------------
(* What the migrator reads.                                                *)

Contents ==
    [conversations : Seq(Conversations), ledger : Seq(Events), bare : SUBSET Ids,
     messages : Seq(MessageRows), documents : SUBSET [id : STRING, path : STRING],
     chunks : SUBSET [document : STRING, index : Nat], broadcast : SUBSET Broadcasts]

NamesFit(conversations) ==
    \A c, d \in ToSet(conversations) :
        /\ c.id \in Names(d) => Key(c) = Key(d)
        /\ IsDomain(c) /\ IsDomain(d) /\ Names(c) \cap Names(d) # {} => c.domain = d.domain

\* It has the keys and the names of one of the sources, and what the previous
\* program wrote.
Sound(l) ==
    /\ IsKey(l.conversations) /\ IsKey(l.ledger) /\ NamesFit(l.conversations)
    /\ ToSet(l.ledger) \subseteq EventsEver /\ ToSet(l.messages) \subseteq MessagesEver
    /\ IsFiniteSet(l.broadcast)

\* It has what had been written when the migration began.
HasLedger(l) == \A i \in 1..(Len(source.ledger) - writes) : source.ledger[i] \in ToSet(l.ledger)
HasMessages(l) ==
    \A i \in 1..(Len(source.messages) - writes) :
        source.messages[i].conversation \in l.bare => source.messages[i] \in ToSet(l.messages)

\* The conversations it takes for bare are some of its own, and those of which
\* the ledger has nothing are among them.
HasBare(l) ==
    /\ l.bare \subseteq {c.id : c \in ToSet(l.conversations)}
    /\ \A c \in ToSet(l.conversations) :
          c.id \in l.bare \/ \E e \in ToSet(source.ledger) : e.thread = c.id

Whole(l) == l \in Contents /\ Sound(l) /\ HasLedger(l) /\ HasBare(l) /\ HasMessages(l)

\* What is known of what it has read, stage by stage.
LoadedOK ==
    /\ loaded \in Contents /\ Sound(loaded)
    /\ doing \in Places \ {"idle", "conversations", "ledger"} => HasLedger(loaded)
    /\ doing \in Places \ {"idle", "conversations", "ledger", "bare"} => HasBare(loaded)
    /\ doing \in Places \ {"idle", "conversations", "ledger", "bare", "messages"} => HasMessages(loaded)

LoadedInv ==
    /\ source \in Databases /\ Sound(source) /\ writes \in Nat /\ LoadedOK
    /\ \A f \in Files : f.state = "filled" => Whole(f.from) /\ ~Conflict(f.from)

LEMMA LaterTyped ==
    \A w \in Later : /\ w.event \in Events /\ w.message \in MessageRows
                     /\ w.event \in EventsEver /\ w.message \in MessagesEver
<1> SUFFICES ASSUME NEW w \in Later
             PROVE  /\ w.event \in Events /\ w.message \in MessageRows
                    /\ w.event \in EventsEver /\ w.message \in MessagesEver
  OBVIOUS
<1>1. w.event \in {x.event : x \in Later} /\ w.message \in {x.message : x \in Later}
  OBVIOUS
<1>2. w.event \in Events /\ w.message \in MessageRows
  BY MigratorAssumption
<1>3. w.event \in EventsEver
  BY <1>1 DEF EventsEver
<1>4. w.message \in MessagesEver
  BY <1>1 DEF MessagesEver
<1>5. QED
  BY <1>2, <1>3, <1>4

LEMMA WhatIsWritten ==
    ASSUME LoadedInv, Write
    PROVE  /\ source' \in Databases /\ Sound(source)' /\ writes' \in Nat
           /\ \A i \in 1..(Len(source.ledger') - writes') :
                 i \in 1..(Len(source.ledger) - writes) /\ source.ledger'[i] = source.ledger[i]
           /\ \A i \in 1..(Len(source.messages') - writes') :
                 i \in 1..(Len(source.messages) - writes) /\ source.messages'[i] = source.messages[i]
           /\ ToSet(source.ledger) \subseteq ToSet(source.ledger')
<1>0. source \in Databases /\ Sound(source) /\ writes \in Nat /\ writes' = writes + 1
  BY DEF LoadedInv, Write
<1>1. PICK w \in Later :
          /\ \A e \in ToSet(source.ledger) : e.id # w.event.id
          /\ source' = [source EXCEPT !.ledger = Append(@, w.event), !.messages = Append(@, w.message)]
  BY DEF Write
<1>2. w.event \in Events /\ w.message \in MessageRows /\ w.event \in EventsEver /\ w.message \in MessagesEver
  BY LaterTyped
<1>3. source.ledger \in Seq(Events) /\ source.messages \in Seq(MessageRows)
  BY <1>0 DEF Databases
<1>4. /\ source'.ledger = Append(source.ledger, w.event)
      /\ source'.messages = Append(source.messages, w.message)
      /\ source'.conversations = source.conversations /\ source'.broadcast = source.broadcast
  BY <1>0, <1>1 DEF Databases
<1>5. source'.ledger \in Seq(Events) /\ source'.messages \in Seq(MessageRows)
  BY <1>2, <1>3, <1>4, AppendProperties
<1>6. source' \in Databases
  BY <1>0, <1>1, <1>4, <1>5 DEF Databases
<1>7. /\ ToSet(source'.ledger) = ToSet(source.ledger) \cup {w.event}
      /\ ToSet(source'.messages) = ToSet(source.messages) \cup {w.message}
  BY <1>2, <1>3, <1>4, AppendSet
<1>8. /\ Len(source.ledger) \in Nat /\ Len(source'.ledger) = Len(source.ledger) + 1
      /\ \A i \in 1..Len(source.ledger) : source'.ledger[i] = source.ledger[i]
      /\ source'.ledger[Len(source.ledger) + 1] = w.event
  BY <1>2, <1>3, <1>4, LenProperties, AppendProperties
<1>9. /\ Len(source.messages) \in Nat /\ Len(source'.messages) = Len(source.messages) + 1
      /\ \A i \in 1..Len(source.messages) : source'.messages[i] = source.messages[i]
  BY <1>2, <1>3, <1>4, LenProperties, AppendProperties
<1>10. IsKey(source'.ledger)
  <2>1. /\ DOMAIN source.ledger = 1..Len(source.ledger)
        /\ DOMAIN source'.ledger = 1..(Len(source.ledger) + 1)
    BY <1>3, <1>5, <1>8, LenProperties
  <2>2. \A i \in 1..Len(source.ledger) : source.ledger[i].id # w.event.id
    BY <1>1, <2>1 DEF ToSet
  <2>3. \A i, j \in 1..Len(source.ledger) : source.ledger[i].id = source.ledger[j].id => i = j
    BY <1>0, <2>1 DEF Sound, IsKey
  <2>4. \A i \in 1..(Len(source.ledger) + 1) : i \in 1..Len(source.ledger) \/ i = Len(source.ledger) + 1
    BY <1>8
  <2>5. SUFFICES ASSUME NEW i \in 1..(Len(source.ledger) + 1), NEW j \in 1..(Len(source.ledger) + 1),
                        source'.ledger[i].id = source'.ledger[j].id
                 PROVE  i = j
    BY <2>1 DEF IsKey
  <2> HIDE <1>4
  <2>6. QED
    BY <1>8, <2>2, <2>3, <2>4, <2>5
<1>11. Sound(source)'
  BY <1>0, <1>2, <1>4, <1>7, <1>10 DEF Sound
<1>12. \A n, k \in Nat : \A i \in 1..(n + 1 - (k + 1)) : i \in 1..(n - k) /\ i \in 1..n
  OBVIOUS
<1>13. /\ \A i \in 1..(Len(source.ledger') - writes') :
              i \in 1..(Len(source.ledger) - writes) /\ source.ledger'[i] = source.ledger[i]
       /\ \A i \in 1..(Len(source.messages') - writes') :
              i \in 1..(Len(source.messages) - writes) /\ source.messages'[i] = source.messages[i]
  BY <1>0, <1>8, <1>9, <1>12
<1>14. QED
  BY <1>0, <1>6, <1>7, <1>11, <1>13

\* What a record has of the source, it has still when more is written.
LEMMA WholeStays ==
    ASSUME LoadedInv, Write \/ UNCHANGED <<source, writes>>
    PROVE  /\ source' \in Databases /\ Sound(source)' /\ writes' \in Nat
           /\ \A l : /\ HasLedger(l) => HasLedger(l)'
                     /\ HasBare(l) => HasBare(l)'
                     /\ HasMessages(l) => HasMessages(l)'
                     /\ Whole(l) => Whole(l)'
<1>1. CASE UNCHANGED <<source, writes>>
  BY <1>1 DEF LoadedInv, HasLedger, HasBare, HasMessages, Whole, Sound
<1>2. CASE Write
  <2>1. /\ source' \in Databases /\ Sound(source)' /\ writes' \in Nat
        /\ \A i \in 1..(Len(source.ledger') - writes') :
              i \in 1..(Len(source.ledger) - writes) /\ source.ledger'[i] = source.ledger[i]
        /\ \A i \in 1..(Len(source.messages') - writes') :
              i \in 1..(Len(source.messages) - writes) /\ source.messages'[i] = source.messages[i]
        /\ ToSet(source.ledger) \subseteq ToSet(source.ledger')
    BY <1>2, WhatIsWritten
  <2>2. ASSUME NEW l
        PROVE  /\ HasLedger(l) => HasLedger(l)'
               /\ HasBare(l) => HasBare(l)'
               /\ HasMessages(l) => HasMessages(l)'
    BY <2>1 DEF HasLedger, HasBare, HasMessages
  <2>3. \A l : Sound(l)' <=> Sound(l)
    BY DEF Sound
  <2>4. QED
    BY <2>1, <2>2, <2>3 DEF Whole
<1>3. QED
  BY <1>1, <1>2

\* Only what was read whole, and fits the tables, becomes a filled file; a file
\* that is moved has what it had.
LEMMA FileChanges ==
    ASSUME FilesInv, [MgNext]_mgVars
    PROVE  \A f \in Files' : \/ \E g \in Files : f.state = g.state /\ f.from = g.from
                             \/ f.state \in {"missing", "schema", "mixed"}
                             \/ f = Filled(loaded) /\ doing = "fill" /\ ~Conflict(loaded)
<1>0. {stamp, second} \subseteq Seconds /\ DOMAIN temps = Seconds /\ DOMAIN backups = Seconds
  BY DEF FilesInv, MgTypeOK
<1>1. CASE UNCHANGED files
  <2>1. Files' = Files
    BY <1>1 DEF files, Files
  <2>2. QED
    BY <2>1
<1>2. CASE Create
  <2>1. \A s \in Seconds : temps'[s] \in {temps[s], Schema}
    BY <1>0, <1>2 DEF Create
  <2>2. QED
    BY <1>2, <2>1, FilesDiffer DEF Create, Files
<1>3. CASE Fill
  <2>1. CASE Conflict(loaded)
    BY <1>3, <2>1 DEF Fill, Files
  <2>2. CASE ~Conflict(loaded)
    <3>1. \A s \in Seconds : temps'[s] \in {temps[s], Filled(loaded)}
      BY <1>0, <1>3, <2>2 DEF Fill
    <3>2. doing = "fill" /\ UNCHANGED <<backups, target>>
      BY <1>3 DEF Fill
    <3>3. Files' \subseteq Files \cup {Filled(loaded)}
      BY <3>1, <3>2 DEF Files
    <3>4. QED
      BY <2>2, <3>2, <3>3
  <2>3. QED
    BY <2>1, <2>2
<1>4. CASE MoveAway
  <2> DEFINE moved == Leaving(target, log)
  <2>1. \A s \in Seconds : backups'[s] \in {backups[s], moved}
    BY <1>0, <1>4 DEF MoveAway
  <2>2. temps' = temps /\ target' \in {target, NoFile}
    BY <1>4 DEF MoveAway
  <2>3. moved.state = target.state /\ moved.from = target.from
    BY FileShapes DEF FilesInv
  <2> HIDE DEF moved
  <2>4. Files' \subseteq Files \cup {NoFile, moved}
    BY <2>1, <2>2 DEF Files
  <2>5. target \in Files
    BY DEF Files
  <2>6. QED
    BY <2>3, <2>4, <2>5, FilesDiffer
<1>5. CASE Install
  <2>1. \A s \in Seconds : temps'[s] \in {temps[s], NoFile}
    BY <1>0, <1>5 DEF Install
  <2>2. backups' = backups /\ target' = temps[stamp]
    BY <1>5 DEF Install
  <2>3. Files' \subseteq Files \cup {NoFile}
    BY <1>0, <2>1, <2>2 DEF Files
  <2>4. QED
    BY <2>3, FilesDiffer
<1>6. CASE Use
  <2>1. temps' = temps /\ backups' = backups /\ target' \in {target, Mixed}
    BY <1>6 DEF Use
  <2>2. Files' \subseteq Files \cup {Mixed}
    BY <2>1 DEF Files
  <2>3. QED
    BY <2>2, FilesDiffer
<1>7. \/ UNCHANGED files \/ Create \/ Fill \/ MoveAway \/ Install \/ Use
  BY DEF MgNext, Migrate, mgVars, files, LoadConversations, LoadLedger, FindBare, LoadMessages, Read,
         Validate, Crash, Tick, Write
<1>8. QED
  BY <1>1, <1>2, <1>3, <1>4, <1>5, <1>6, <1>7

LEMMA UnreadOK == Unread \in Contents /\ Sound(Unread)
<1>1. Unread \in Contents
  BY EmptySeq DEF Unread, Contents
<1>2. ToSet(<<>>) = {} /\ IsKey(<<>>) /\ IsFiniteSet({})
  BY FS_EmptySet DEF ToSet, IsKey
<1>3. QED
  BY <1>1, <1>2 DEF Sound, Unread, NamesFit

LEMMA LoadedInit == MgInit => LoadedInv
<1> SUFFICES ASSUME MgInit PROVE LoadedInv
  OBVIOUS
<1>1. source \in Databases /\ writes = 0 /\ loaded = Unread /\ doing = "idle"
  BY MigratorAssumption DEF MgInit
<1>2. Sound(source)
  BY MigratorAssumption DEF MgInit, Sound, NamesFit, EventsEver, MessagesEver
<1>3. Unread \in Contents /\ Sound(Unread)
  BY UnreadOK
<1>5. \A f \in Files : f.state # "filled"
  BY FilesDiffer DEF MgInit, Files
<1>6. QED
  BY <1>1, <1>2, <1>3, <1>5 DEF LoadedInv, LoadedOK

LEMMA FirstReads ==
    ASSUME LoadedInv, LoadConversations \/ LoadLedger
    PROVE  LoadedOK'
<1>0. /\ source \in Databases /\ Sound(source) /\ loaded \in Contents /\ Sound(loaded)
      /\ UNCHANGED <<source, writes>>
  BY DEF LoadedInv, LoadedOK, LoadConversations, LoadLedger, Read
<1>1. CASE LoadConversations
  <2>1. doing' = "ledger"
    BY <1>1 DEF LoadConversations, Read
  <2>2. loaded' = [loaded EXCEPT !.conversations = source.conversations, !.documents = source.documents,
                                 !.chunks = source.chunks, !.broadcast = source.broadcast]
    BY <1>1 DEF LoadConversations, Read
  <2>3. /\ loaded'.conversations = source.conversations /\ loaded'.broadcast = source.broadcast
        /\ loaded'.ledger = loaded.ledger /\ loaded'.messages = loaded.messages
    BY <1>0, <2>2 DEF Contents
  <2>4. loaded' \in Contents
    BY <1>0, <2>2 DEF Contents, Databases
  <2>5. Sound(loaded)'
    BY <1>0, <2>3 DEF Sound
  <2>6. QED
    BY <2>1, <2>4, <2>5 DEF LoadedOK
<1>2. CASE LoadLedger
  <2>1. doing' = "bare" /\ loaded' = [loaded EXCEPT !.ledger = source.ledger]
    BY <1>2 DEF LoadLedger, Read
  <2>2. /\ loaded'.ledger = source.ledger /\ loaded'.conversations = loaded.conversations
        /\ loaded'.broadcast = loaded.broadcast /\ loaded'.messages = loaded.messages
    BY <1>0, <2>1 DEF Contents
  <2>3. loaded' \in Contents
    BY <1>0, <2>1 DEF Contents, Databases
  <2>4. Sound(loaded)'
    BY <1>0, <2>2 DEF Sound
  <2>5. HasLedger(loaded)'
    <3>1. source.ledger \in Seq(Events) /\ writes \in Nat
      BY <1>0 DEF Databases, LoadedInv
    <3>2. Len(source.ledger) \in Nat /\ DOMAIN source.ledger = 1..Len(source.ledger)
      BY <3>1, LenProperties
    <3>3. \A i \in 1..(Len(source.ledger) - writes) : i \in DOMAIN source.ledger
      BY <3>1, <3>2
    <3>4. QED
      BY <1>0, <2>2, <3>3 DEF HasLedger, ToSet
  <2>6. QED
    BY <2>1, <2>3, <2>4, <2>5 DEF LoadedOK
<1>3. QED
  BY <1>1, <1>2

LEMMA LaterReads ==
    ASSUME LoadedInv, FindBare \/ LoadMessages
    PROVE  LoadedOK'
<1>0. /\ source \in Databases /\ Sound(source) /\ loaded \in Contents /\ Sound(loaded)
      /\ UNCHANGED <<source, writes>> /\ HasLedger(loaded)
  BY DEF LoadedInv, LoadedOK, FindBare, LoadMessages, Read, Places
<1>1. CASE FindBare
  <2> DEFINE bare == {c.id : c \in {x \in ToSet(loaded.conversations) :
                                       ~\E e \in ToSet(source.ledger) : e.thread = x.id}}
  <2>1. doing' = "messages" /\ loaded' = [loaded EXCEPT !.bare = bare]
    BY <1>1 DEF FindBare, Read
  <2>2. bare \subseteq {c.id : c \in ToSet(loaded.conversations)}
    OBVIOUS
  <2>3. bare \subseteq Ids
    <3>1. loaded.conversations \in Seq(Conversations)
      BY <1>0 DEF Contents
    <3>2. ToSet(loaded.conversations) \subseteq Conversations
      BY <3>1, LenProperties, ElementOfSeq DEF ToSet
    <3>3. QED
      BY <2>2, <3>2 DEF Conversations
  <2>4. \A c \in ToSet(loaded.conversations) : c.id \in bare \/ \E e \in ToSet(source.ledger) : e.thread = c.id
    OBVIOUS
  <2> HIDE DEF bare
  <2>5. /\ loaded'.bare = bare /\ loaded'.ledger = loaded.ledger /\ loaded'.conversations = loaded.conversations
        /\ loaded'.broadcast = loaded.broadcast /\ loaded'.messages = loaded.messages
    BY <1>0, <2>1 DEF Contents
  <2>6. loaded' \in Contents
    BY <1>0, <2>1, <2>3 DEF Contents
  <2>7. Sound(loaded)' /\ HasLedger(loaded)'
    BY <1>0, <2>5 DEF Sound, HasLedger
  <2>8. HasBare(loaded)'
    BY <1>0, <2>2, <2>4, <2>5 DEF HasBare
  <2>9. QED
    BY <2>1, <2>6, <2>7, <2>8 DEF LoadedOK
<1>2. CASE LoadMessages
  <2> DEFINE places == {i \in DOMAIN source.messages : source.messages[i].conversation \in loaded.bare}
             messages == Picked(source.messages, places)
  <2>0. HasBare(loaded)
    BY <1>2 DEF LoadedInv, LoadedOK, LoadMessages, Read, Places
  <2>1. doing' = "fill" /\ loaded' = [loaded EXCEPT !.messages = messages]
    BY <1>2 DEF LoadMessages, Read
  <2>2. source.messages \in Seq(MessageRows) /\ writes \in Nat
    BY <1>0 DEF Databases, LoadedInv
  <2>3. /\ Len(source.messages) \in Nat /\ DOMAIN source.messages = 1..Len(source.messages)
    BY <2>2, LenProperties
  <2>4. /\ messages \in Seq(MessageRows)
        /\ ToSet(messages) = {source.messages[i] : i \in places \cap (1..Len(source.messages))}
    BY <2>2, PickedHas
  <2>5. ToSet(messages) \subseteq ToSet(source.messages)
    BY <2>3, <2>4 DEF ToSet
  <2>6. \A i \in 1..(Len(source.messages) - writes) :
            source.messages[i].conversation \in loaded.bare => source.messages[i] \in ToSet(messages)
    <3>1. \A i \in 1..(Len(source.messages) - writes) : i \in 1..Len(source.messages)
      BY <2>2, <2>3
    <3>2. QED
      BY <2>3, <2>4, <3>1
  <2> HIDE DEF messages, places
  <2>7. /\ loaded'.messages = messages /\ loaded'.ledger = loaded.ledger /\ loaded'.bare = loaded.bare
        /\ loaded'.conversations = loaded.conversations /\ loaded'.broadcast = loaded.broadcast
    BY <1>0, <2>1 DEF Contents
  <2>8. loaded' \in Contents
    BY <1>0, <2>1, <2>4 DEF Contents
  <2>9. Sound(loaded)' /\ HasLedger(loaded)' /\ HasBare(loaded)'
    BY <1>0, <2>0, <2>5, <2>7 DEF Sound, HasLedger, HasBare
  <2>10. HasMessages(loaded)'
    BY <1>0, <2>6, <2>7 DEF HasMessages
  <2>11. QED
    BY <2>8, <2>9, <2>10 DEF LoadedOK
<1>3. QED
  BY <1>1, <1>2

LEMMA LoadingStep == FilesInv /\ LoadedInv /\ [MgNext]_mgVars => LoadedInv'
<1> SUFFICES ASSUME FilesInv, LoadedInv, [MgNext]_mgVars PROVE LoadedInv'
  OBVIOUS
<1>1. /\ source' \in Databases /\ Sound(source)' /\ writes' \in Nat
      /\ \A l : /\ HasLedger(l) => HasLedger(l)'
                /\ HasBare(l) => HasBare(l)'
                /\ HasMessages(l) => HasMessages(l)'
                /\ Whole(l) => Whole(l)'
  <2>1. Write \/ UNCHANGED <<source, writes>>
    BY DEF MgNext, Migrate, mgVars, LoadConversations, LoadLedger, FindBare, LoadMessages, Read,
           Create, Fill, Validate, MoveAway, Install, Crash, Tick, Use
  <2>2. QED
    BY <2>1, WholeStays
<1>2. \A f \in Files' : f.state = "filled" => Whole(f.from)' /\ ~Conflict(f.from)'
  <2> SUFFICES ASSUME NEW f \in Files', f.state = "filled" PROVE Whole(f.from)' /\ ~Conflict(f.from)'
    OBVIOUS
  <2>1. \/ \E g \in Files : g.state = "filled" /\ f.from = g.from
        \/ f = Filled(loaded) /\ doing = "fill" /\ ~Conflict(loaded)
    <3>1. \/ \E g \in Files : f.state = g.state /\ f.from = g.from
          \/ f.state \in {"missing", "schema", "mixed"}
          \/ f = Filled(loaded) /\ doing = "fill" /\ ~Conflict(loaded)
      BY FileChanges
    <3>2. QED
      BY <3>1
  <2>2. Whole(f.from) /\ ~Conflict(f.from)
    <3>1. CASE \E g \in Files : g.state = "filled" /\ f.from = g.from
      BY <3>1 DEF LoadedInv
    <3>2. CASE f = Filled(loaded) /\ doing = "fill" /\ ~Conflict(loaded)
      BY <3>2, FilesDiffer DEF LoadedInv, LoadedOK, Whole, Places
    <3>3. QED
      BY <2>1, <3>1, <3>2
  <2>3. Conflict(f.from)' <=> Conflict(f.from)
    BY DEF Conflict
  <2>4. QED
    BY <1>1, <2>2, <2>3
<1>3. LoadedOK'
  <2>1. CASE LoadConversations \/ LoadLedger \/ FindBare \/ LoadMessages
    BY <2>1, FirstReads, LaterReads
  <2>2. CASE Create
    <3>1. loaded' = Unread /\ doing' = "conversations"
      BY <2>2 DEF Create
    <3>2. QED
      BY <3>1, UnreadOK DEF LoadedOK, Sound
  <2>3. CASE UNCHANGED loaded /\ (doing' \in {doing, "idle"} \/
                                    /\ doing \in {"fill", "validate", "replace"}
                                    /\ doing' \in {"validate", "replace", "install"})
    <3>1. loaded \in Contents /\ Sound(loaded)
      BY DEF LoadedInv, LoadedOK
    <3>2. Sound(loaded)' /\ loaded' = loaded
      BY <2>3, <3>1 DEF Sound
    <3>3. /\ HasLedger(loaded) => HasLedger(loaded)'
          /\ HasBare(loaded) => HasBare(loaded)'
          /\ HasMessages(loaded) => HasMessages(loaded)'
      BY <1>1, <2>3
    <3>4. CASE doing' = "idle"
      BY <3>1, <3>2, <3>4 DEF LoadedOK
    <3>5. CASE doing' = doing
      BY <3>1, <3>2, <3>3, <3>5 DEF LoadedInv, LoadedOK
    <3>6. CASE /\ doing \in {"fill", "validate", "replace"}
               /\ doing' \in {"validate", "replace", "install"}
      <4>1. HasLedger(loaded) /\ HasBare(loaded) /\ HasMessages(loaded)
        BY <3>6 DEF LoadedInv, LoadedOK, Places
      <4>2. QED
        BY <3>1, <3>2, <3>3, <4>1 DEF LoadedOK
    <3>7. QED
      BY <2>3, <3>4, <3>5, <3>6
  <2>4. \/ LoadConversations \/ LoadLedger \/ FindBare \/ LoadMessages \/ Create
        \/ UNCHANGED loaded /\ (doing' \in {doing, "idle"} \/
                                    /\ doing \in {"fill", "validate", "replace"}
                                    /\ doing' \in {"validate", "replace", "install"})
    BY DEF MgNext, Migrate, mgVars, Fill, Validate, MoveAway, Install, Crash, Tick, Write, Use
  <2>5. QED
    BY <2>1, <2>2, <2>3, <2>4
<1>4. QED
  BY <1>1, <1>2, <1>3 DEF LoadedInv

LEMMA LoadedInvariant == MgSpec => []LoadedInv
<1>1. FilesInv /\ FilesInv' /\ LoadedInv /\ [MgNext]_mgVars => LoadedInv'
  BY LoadingStep
<1>2. QED
  BY <1>1, LoadedInit, FilesInvariant, PTL DEF MgSpec

-----------------------------------------------------------------------------
(* Threads, groups and turns of what was read.                             *)

LEMMA ConversationsTyped ==
    ASSUME NEW l \in Contents
    PROVE  /\ Len(l.conversations) \in Nat /\ DOMAIN l.conversations = 1..Len(l.conversations)
           /\ \A i \in DOMAIN l.conversations : /\ l.conversations[i] \in Conversations
                                                /\ l.conversations[i] \in ToSet(l.conversations)
                                                /\ l.conversations[i].id \in Names(l.conversations[i])
           /\ \A c \in ToSet(l.conversations) : /\ \E i \in DOMAIN l.conversations : l.conversations[i] = c
                                                /\ c \in Conversations /\ c.id \in Names(c) /\ c.id \in Texts
<1>1. l.conversations \in Seq(Conversations)
  BY DEF Contents
<1>2. /\ Len(l.conversations) \in Nat /\ DOMAIN l.conversations = 1..Len(l.conversations)
      /\ \A i \in DOMAIN l.conversations : l.conversations[i] \in Conversations
  BY <1>1, LenProperties, ElementOfSeq
<1>3. \A c \in Conversations : c.id \in Names(c) /\ c.id \in Texts
  BY TextTypes DEF Conversations, Ids, Names
<1>4. QED
  BY <1>2, <1>3 DEF ToSet

\* The thread of a conversation is the first with its key.
LEMMA CanonicalOf ==
    ASSUME NEW l \in Contents, NEW c \in ToSet(l.conversations)
    PROVE  \E i \in DOMAIN l.conversations :
              Canonical(l, c) = l.conversations[i].id /\ Key(l.conversations[i]) = Key(c)
<1> DEFINE same == {i \in DOMAIN l.conversations : Key(l.conversations[i]) = Key(c)}
           n == Len(l.conversations)
<1>1. n \in Nat /\ DOMAIN l.conversations = 1..n /\ \E i \in DOMAIN l.conversations : l.conversations[i] = c
  BY ConversationsTyped
<1>2. same \in SUBSET (0..n) /\ same # {}
  BY <1>1
<1>3. Canonical(l, c) = l.conversations[Min(same)].id
  BY DEF Canonical
<1> HIDE DEF same, n
<1>4. Min(same) \in same
  BY <1>1, <1>2, MinOf
<1>5. QED
  BY <1>3, <1>4 DEF same

LEMMA NamedLast ==
    ASSUME NEW l \in Contents, NEW name, NEW S \in SUBSET Named(l, name), S # {}
    PROVE  /\ Max(S) \in S /\ Max(S) \in DOMAIN l.conversations
           /\ name \in Names(l.conversations[Max(S)])
<1>1. Len(l.conversations) \in Nat /\ DOMAIN l.conversations = 1..Len(l.conversations)
  BY ConversationsTyped
<1>2. S \in SUBSET (0..Len(l.conversations))
  BY <1>1 DEF Named
<1>3. Max(S) \in S
  BY <1>1, <1>2, MaxOf
<1>4. QED
  BY <1>3 DEF Named

LEMMA ThreadTyped ==
    ASSUME NEW l \in Contents, NEW name, Planned(l, name)
    PROVE  /\ ThreadOf(l, name) \in Texts
           /\ \E c \in ToSet(l.conversations) : name \in Names(c) /\ ThreadOf(l, name) = Canonical(l, c)
<1> DEFINE c == l.conversations[Max(Named(l, name))]
<1>1. Max(Named(l, name)) \in DOMAIN l.conversations /\ name \in Names(c)
  BY NamedLast DEF Planned
<1>2. c \in ToSet(l.conversations) /\ ThreadOf(l, name) = Canonical(l, c)
  BY <1>1, ConversationsTyped DEF ThreadOf
<1> HIDE DEF c
<1>3. PICK i \in DOMAIN l.conversations : Canonical(l, c) = l.conversations[i].id
  BY <1>2, CanonicalOf
<1>4. l.conversations[i].id \in Texts
  BY <1>3, ConversationsTyped
<1>5. QED
  BY <1>1, <1>2, <1>3, <1>4

\* A conversation has its own name.
LEMMA IdPlanned ==
    ASSUME NEW l \in Contents, NEW c \in ToSet(l.conversations)
    PROVE  Planned(l, c.id)
<1>1. PICK i \in DOMAIN l.conversations : l.conversations[i] = c
  BY ConversationsTyped
<1>2. c.id \in Names(l.conversations[i])
  BY <1>1, ConversationsTyped
<1>3. QED
  BY <1>2 DEF Planned, Named

LEMMA LedgerTyped ==
    ASSUME NEW l \in Contents, NEW name
    PROVE  /\ LedgerOf(l, name) \in Seq(Notes)
           /\ ToSet(LedgerOf(l, name)) = {e \in ToSet(l.ledger) : e.kind \in LedgerKinds /\ e.thread = name}
<1> DEFINE places == {i \in DOMAIN l.ledger : l.ledger[i].kind \in LedgerKinds /\ l.ledger[i].thread = name}
<1>1. l.ledger \in Seq(Events)
  BY DEF Contents
<1>2. /\ Len(l.ledger) \in Nat /\ DOMAIN l.ledger = 1..Len(l.ledger)
      /\ \A i \in 1..Len(l.ledger) : l.ledger[i] \in Notes
  BY <1>1, LenProperties, ElementOfSeq, TextTypes
<1>3. l.ledger \in Seq(Notes)
  <2>1. l.ledger = [i \in 1..Len(l.ledger) |-> l.ledger[i]]
    BY <1>1, <1>2
  <2>2. QED
    BY <1>2, <2>1
<1>4. /\ LedgerOf(l, name) \in Seq(Notes)
      /\ ToSet(LedgerOf(l, name)) = {l.ledger[i] : i \in places \cap (1..Len(l.ledger))}
  BY <1>3, PickedHas DEF LedgerOf
<1>5. {l.ledger[i] : i \in places \cap (1..Len(l.ledger))} =
      {e \in ToSet(l.ledger) : e.kind \in LedgerKinds /\ e.thread = name}
  BY <1>2 DEF ToSet
<1>6. QED
  BY <1>4, <1>5

LEMMA MessagesTyped ==
    ASSUME NEW l \in Contents, NEW id
    PROVE  /\ MessagesOf(l, id) \in Seq(Notes)
           /\ \A e \in ToSet(MessagesOf(l, id)) :
                 /\ e.kind \in LedgerKinds /\ e.message = None
                 /\ \E m \in ToSet(l.messages) : e.id = m.id
           /\ \A m \in ToSet(l.messages) : m.role = "user" /\ m.conversation = id =>
                 \E e \in ToSet(MessagesOf(l, id)) :
                    e.id = m.id /\ e.kind = "user_turn" /\ e.message = None
<1> DEFINE events == AsEvents(l.messages)
           n == Len(l.messages)
           places == {i \in DOMAIN events : events[i].kind # None /\ events[i].thread = id}
<1>1. l.messages \in Seq(MessageRows)
  BY DEF Contents
<1>2. n \in Nat /\ DOMAIN l.messages = 1..n /\ \A i \in 1..n : l.messages[i] \in MessageRows
  BY <1>1, LenProperties, ElementOfSeq
<1>3. /\ DOMAIN events = 1..n
      /\ \A i \in 1..n : /\ events[i] = [id |-> l.messages[i].id, kind |-> KindOf(l.messages[i].role),
                                         thread |-> l.messages[i].conversation, message |-> None,
                                         text |-> "said", seqs |-> l.messages[i].seqs]
  BY <1>2 DEF AsEvents
<1>4. \A role : /\ KindOf(role) \in {"user_turn", "agent_turn", "tool_result", None}
                /\ KindOf("user") = "user_turn"
  BY DEF KindOf
<1>5. \A i \in 1..n : events[i] \in Notes
  <2> TAKE i \in 1..n
  <2>1. /\ l.messages[i].id \in Texts /\ l.messages[i].conversation \in Texts /\ l.messages[i].seqs \in Numbers
    BY <1>2, TextTypes DEF MessageRows, Ids
  <2>2. KindOf(l.messages[i].role) \in Texts /\ None \in Texts /\ "said" \in Texts
    BY <1>4, TextTypes
  <2>3. [id |-> l.messages[i].id, kind |-> KindOf(l.messages[i].role),
         thread |-> l.messages[i].conversation, message |-> None,
         text |-> "said", seqs |-> l.messages[i].seqs] \in Notes
    BY <2>1, <2>2 DEF Notes
  <2> HIDE DEF events
  <2>4. QED
    BY <1>3, <2>3
<1>6. events \in Seq(Notes) /\ Len(events) = n
  <2>1. events = [i \in 1..n |-> events[i]]
    BY <1>2 DEF AsEvents
  <2> HIDE DEF events, n
  <2>2. events \in [1..n -> Notes]
    BY <1>5, <2>1
  <2>3. QED
    BY <1>2, <1>3, <2>2, LenProperties
<1>7. MessagesOf(l, id) = Picked(events, places)
  BY DEF MessagesOf
<1> HIDE DEF events, n
<1>8. /\ MessagesOf(l, id) \in Seq(Notes)
      /\ ToSet(MessagesOf(l, id)) = {events[i] : i \in places \cap (1..n)}
  BY <1>6, <1>7, PickedHas
<1>9. \A e \in ToSet(MessagesOf(l, id)) :
          /\ e.kind \in LedgerKinds /\ e.message = None
          /\ \E m \in ToSet(l.messages) : e.id = m.id
  <2> SUFFICES ASSUME NEW i \in places \cap (1..n)
               PROVE  /\ events[i].kind \in LedgerKinds /\ events[i].message = None
                      /\ \E m \in ToSet(l.messages) : events[i].id = m.id
    BY <1>8
  <2>1. events[i].kind = KindOf(l.messages[i].role) /\ events[i].message = None /\ events[i].id = l.messages[i].id
    BY <1>3
  <2>2. events[i].kind \in {"user_turn", "agent_turn", "tool_result"}
    BY <1>4, <2>1
  <2>3. l.messages[i] \in ToSet(l.messages)
    BY <1>2 DEF ToSet
  <2>4. QED
    BY <2>1, <2>2, <2>3 DEF LedgerKinds
<1>10. ASSUME NEW m \in ToSet(l.messages), m.role = "user", m.conversation = id
       PROVE  \E e \in ToSet(MessagesOf(l, id)) : e.id = m.id /\ e.kind = "user_turn" /\ e.message = None
  <2>1. PICK i \in 1..n : l.messages[i] = m
    BY <1>2 DEF ToSet
  <2>2. events[i].id = m.id /\ events[i].kind = "user_turn" /\ events[i].message = None /\ events[i].thread = id
    BY <1>3, <1>4, <1>10, <2>1
  <2>3. i \in places
    BY <1>3, <2>2 DEF None
  <2>4. QED
    BY <1>8, <2>2, <2>3
<1>11. QED
  BY <1>8, <1>9, <1>10

LEMMA GroupsTyped ==
    ASSUME NEW l, Whole(l), NEW g \in Groups(l)
    PROVE  /\ g[1] \in Texts /\ g[2] \in Seq(Notes)
           /\ \A i \in 1..Len(g[2]) : g[2][i].kind \in LedgerKinds /\ g[2][i] \in ToSet(g[2])
           /\ \A e \in ToSet(g[2]) : \/ e \in ToSet(l.ledger)
                                     \/ e.message = None /\ \E m \in ToSet(l.messages) : e.id = m.id
<1>1. l \in Contents
  BY DEF Whole
<1>2. /\ g[1] \in Texts /\ g[2] \in Seq(Notes) /\ \A e \in ToSet(g[2]) : e.kind \in LedgerKinds
      /\ \A e \in ToSet(g[2]) : \/ e \in ToSet(l.ledger)
                                \/ e.message = None /\ \E m \in ToSet(l.messages) : e.id = m.id
  <2>1. CASE \E name \in LedgerNames(l) : g = <<ThreadOf(l, name), LedgerOf(l, name)>>
    <3>1. PICK name \in LedgerNames(l) : g = <<ThreadOf(l, name), LedgerOf(l, name)>>
      BY <2>1
    <3>2. g[1] = ThreadOf(l, name) /\ g[2] = LedgerOf(l, name) /\ Planned(l, name)
      BY <3>1 DEF LedgerNames
    <3>3. QED
      BY <1>1, <3>2, ThreadTyped, LedgerTyped
  <2>2. CASE \E id \in l.bare : g = <<ThreadOf(l, id), MessagesOf(l, id)>>
    <3>1. PICK id \in l.bare : g = <<ThreadOf(l, id), MessagesOf(l, id)>>
      BY <2>2
    <3>2. PICK c \in ToSet(l.conversations) : id = c.id
      BY DEF Whole, HasBare
    <3>3. g[1] = ThreadOf(l, id) /\ g[2] = MessagesOf(l, id) /\ Planned(l, id)
      BY <1>1, <3>1, <3>2, IdPlanned
    <3>4. QED
      BY <1>1, <3>3, ThreadTyped, MessagesTyped
  <2>3. QED
    BY <2>1, <2>2 DEF Groups
<1>3. \A i \in 1..Len(g[2]) : g[2][i] \in ToSet(g[2])
  BY <1>2, LenProperties DEF ToSet
<1>4. QED
  BY <1>2, <1>3

LEMMA TurnsOfGroup ==
    ASSUME NEW l, Whole(l), NEW g \in Groups(l)
    PROVE  /\ Len(TurnsOf(g[1], g[2])) = Cardinality(Starts(g[2]))
           /\ \A i \in Starts(g[2]) :
                 \E t \in ToSet(TurnsOf(g[1], g[2])) : IsTurnFrom(g[1], g[2], i, t)
           /\ \A t \in ToSet(TurnsOf(g[1], g[2])) :
                 \E i \in Starts(g[2]) : IsTurnFrom(g[1], g[2], i, t)
BY GroupsTyped, TurnsFit

LEMMA PlannedAre ==
    ASSUME NEW l
    PROVE  /\ \A g \in Groups(l) : ToSet(TurnsOf(g[1], g[2])) \subseteq PlannedTurns(l)
           /\ \A t \in PlannedTurns(l) : \E g \in Groups(l) : t \in ToSet(TurnsOf(g[1], g[2]))
<1>1. ASSUME NEW g \in Groups(l), NEW t \in ToSet(TurnsOf(g[1], g[2])) PROVE t \in PlannedTurns(l)
  <2>1. PICK i \in DOMAIN TurnsOf(g[1], g[2]) : t = TurnsOf(g[1], g[2])[i]
    BY DEF ToSet
  <2>2. <<g, i, t>> \in TurnRows(l)
    BY <2>1 DEF TurnRows
  <2>3. QED
    BY <2>2 DEF PlannedTurns
<1>2. ASSUME NEW t \in PlannedTurns(l) PROVE \E g \in Groups(l) : t \in ToSet(TurnsOf(g[1], g[2]))
  <2>1. PICK r \in TurnRows(l) : t = r[3]
    BY DEF PlannedTurns
  <2>2. PICK g \in Groups(l) : \E i \in DOMAIN TurnsOf(g[1], g[2]) : r = <<g, i, TurnsOf(g[1], g[2])[i]>>
    BY DEF TurnRows
  <2>3. PICK i \in DOMAIN TurnsOf(g[1], g[2]) : r = <<g, i, TurnsOf(g[1], g[2])[i]>>
    BY <2>2
  <2>4. t = TurnsOf(g[1], g[2])[i]
    BY <2>1, <2>3
  <2>5. QED
    BY <2>4 DEF ToSet
<1>3. QED
  BY <1>1, <1>2

-----------------------------------------------------------------------------
(* What was said is in a filled file.                                      *)

\* A user turn in a group makes a turn with its id.
LEMMA UserTurn ==
    ASSUME NEW l, Whole(l), NEW g \in Groups(l), NEW e \in ToSet(g[2]), e.kind = "user_turn"
    PROVE  \E t \in PlannedTurns(l) : t.id = TurnId(e)
<1>1. PICK i \in DOMAIN g[2] : g[2][i] = e
  BY DEF ToSet
<1>2. i \in Starts(g[2])
  BY <1>1 DEF Starts
<1>3. PICK t \in ToSet(TurnsOf(g[1], g[2])) : IsTurnFrom(g[1], g[2], i, t)
  BY <1>2, TurnsOfGroup
<1>4. t.id = TurnId(e)
  BY <1>1, <1>3 DEF IsTurnFrom
<1>5. QED
  BY <1>4, PlannedAre

LEMMA LedgerTurn ==
    ASSUME NEW l, Whole(l), NEW e \in ToSet(l.ledger), e.kind = "user_turn", Planned(l, e.thread)
    PROVE  \E t \in PlannedTurns(l) : t.id = TurnId(e)
<1> DEFINE g == <<ThreadOf(l, e.thread), LedgerOf(l, e.thread)>>
<1>1. l \in Contents
  BY DEF Whole
<1>2. e.thread \in LedgerNames(l)
  <2>1. e.thread # None
    BY DEF Planned, Named, Names
  <2>2. QED
    BY <2>1 DEF LedgerNames
<1>3. g \in Groups(l)
  BY <1>2 DEF Groups
<1>4. e \in ToSet(g[2])
  BY <1>1, LedgerTyped DEF LedgerKinds
<1> HIDE DEF g
<1>5. QED
  BY <1>3, <1>4, UserTurn

LEMMA MessageTurn ==
    ASSUME NEW l, Whole(l), NEW m \in ToSet(l.messages), m.role = "user", m.conversation \in l.bare
    PROVE  \E t \in PlannedTurns(l) : t.id = <<m.id>>
<1> DEFINE g == <<ThreadOf(l, m.conversation), MessagesOf(l, m.conversation)>>
<1>1. l \in Contents
  BY DEF Whole
<1>2. g \in Groups(l)
  BY DEF Groups
<1>3. PICK e \in ToSet(g[2]) : e.id = m.id /\ e.kind = "user_turn" /\ e.message = None
  BY <1>1, MessagesTyped
<1> HIDE DEF g
<1>4. TurnId(e) = <<m.id>>
  BY <1>3 DEF TurnId
<1>5. QED
  BY <1>2, <1>3, <1>4, UserTurn

LEMMA NothingIsLost ==
    ASSUME LoadedInv
    PROVE  NothingLost
<1> SUFFICES ASSUME target.state = "filled" PROVE NothingLost
  BY DEF NothingLost
<1> DEFINE l == target.from
<1>1. Whole(l)
  BY DEF LoadedInv, Files
<1> HIDE DEF l
<1>2. ASSUME NEW i \in 1..(Len(source.ledger) - writes),
             source.ledger[i].kind = "user_turn", Planned(l, source.ledger[i].thread)
      PROVE  \E t \in PlannedTurns(l) : t.id = TurnId(source.ledger[i])
  <2>1. source.ledger[i] \in ToSet(l.ledger)
    BY <1>1 DEF Whole, HasLedger
  <2>2. QED
    BY <1>1, <1>2, <2>1, LedgerTurn
<1>3. ASSUME NEW i \in 1..(Len(source.messages) - writes), source.messages[i].role = "user",
             NEW c \in ToSet(l.conversations), c.id = source.messages[i].conversation,
             ~\E e \in ToSet(source.ledger) : e.thread = source.messages[i].conversation
      PROVE  \E t \in PlannedTurns(l) : t.id = <<source.messages[i].id>>
  <2>1. source.messages[i].conversation \in l.bare
    BY <1>1, <1>3 DEF Whole, HasBare
  <2>2. source.messages[i] \in ToSet(l.messages)
    BY <1>1, <2>1 DEF Whole, HasMessages
  <2>3. QED
    BY <1>1, <1>3, <2>1, <2>2, MessageTurn
<1>4. QED
  BY <1>2, <1>3 DEF NothingLost, l

\* The id of a turn is not one that an event of the ledger has without a message.
LEMMA TurnIds ==
    ASSUME NEW l, Whole(l), NEW t \in PlannedTurns(l), NEW e \in ToSet(l.ledger), e.message # None
    PROVE  t.id # <<e.id>>
<1>1. PICK g \in Groups(l) : t \in ToSet(TurnsOf(g[1], g[2]))
  BY PlannedAre
<1>2. PICK i \in Starts(g[2]) : IsTurnFrom(g[1], g[2], i, t)
  BY <1>1, TurnsOfGroup
<1> DEFINE d == g[2][i]
<1>3. t.id = <<d.id, "synthetic-turn">> \/ t.id = TurnId(d)
  BY <1>2 DEF IsTurnFrom
<1>4. \/ d \in ToSet(l.ledger)
      \/ d.message = None /\ \E m \in ToSet(l.messages) : d.id = m.id
  <2>1. i \in 1..Len(g[2])
    BY <1>2, GroupsTyped, LenProperties DEF Starts
  <2>2. QED
    BY <2>1, GroupsTyped
<1> HIDE DEF d
<1>5. e \in EventsEver /\ IsKey(l.ledger) /\ ToSet(l.ledger) \subseteq EventsEver
      /\ ToSet(l.messages) \subseteq MessagesEver
  BY DEF Whole, Sound
<1>6. SUFFICES ASSUME t.id = <<e.id>> PROVE FALSE
  OBVIOUS
<1>7. TurnId(d) = <<e.id>>
  BY <1>3, <1>6
<1>8. CASE d \in ToSet(l.ledger)
  <2>1. d.message # e.id
    BY <1>5, <1>8, MigratorAssumption
  <2>2. d.message = None /\ d.id = e.id
    BY <1>7, <2>1 DEF TurnId
  <2>3. d = e
    BY <1>5, <1>8, <2>2 DEF IsKey, ToSet
  <2>4. QED
    BY <2>2, <2>3
<1>9. CASE d.message = None /\ \E m \in ToSet(l.messages) : d.id = m.id
  <2>1. d.id = e.id
    BY <1>7, <1>9 DEF TurnId
  <2>2. QED
    BY <1>5, <1>9, <2>1, MigratorAssumption
<1>10. QED
  BY <1>4, <1>8, <1>9

LEMMA NothingIsTwice ==
    ASSUME LoadedInv
    PROVE  NothingTwice
<1> SUFFICES ASSUME NEW f \in {x \in Files : x.state = "filled"},
                    NEW m \in {x \in ToSet(source.messages) : x.role = "user"}
             PROVE  Cardinality({t \in PlannedTurns(f.from) :
                        t.id = <<m.id>> \/ \E e \in ToSet(f.from.ledger) :
                                               e.message = m.id /\ t.id = <<e.id>>}) <= 1
  BY DEF NothingTwice
<1> DEFINE l == f.from
           T == {t \in PlannedTurns(l) : t.id = <<m.id>> \/ \E e \in ToSet(l.ledger) :
                                                               e.message = m.id /\ t.id = <<e.id>>}
<1>1. Whole(l) /\ ~Conflict(l)
  BY DEF LoadedInv
<1>2. m.id # None
  <2>1. source.messages \in Seq(MessageRows)
    BY DEF LoadedInv, Databases
  <2>2. m \in MessageRows
    BY <2>1, LenProperties, ElementOfSeq DEF ToSet
  <2>3. QED
    BY <2>2 DEF MessageRows, Ids
<1> HIDE DEF l
<1>3. \A t \in T : t \in PlannedTurns(l) /\ t.id = <<m.id>>
  BY <1>1, <1>2, TurnIds
<1>4. ASSUME NEW t \in T, NEW u \in T PROVE t = u
  <2>1. t \in PlannedTurns(l) /\ u \in PlannedTurns(l) /\ t.id = u.id
    BY <1>3
  <2>2. PICK q \in TurnRows(l), r \in TurnRows(l) : t = q[3] /\ u = r[3]
    BY <2>1 DEF PlannedTurns
  <2>3. q = r
    BY <1>1, <2>1, <2>2 DEF Conflict
  <2>4. QED
    BY <2>2, <2>3
<1> HIDE DEF T
<1>5. Cardinality(T) \in {0, 1}
  <2>1. CASE T = {}
    BY <2>1, FS_EmptySet
  <2>2. CASE T # {}
    <3>1. PICK t \in T : TRUE
      BY <2>2
    <3>2. T = {t}
      BY <1>4, <3>1
    <3>3. QED
      BY <3>2, FS_Singleton
  <2>3. QED
    BY <2>1, <2>2
<1>6. Cardinality(T) <= 1
  BY <1>5
<1>7. QED
  BY <1>6 DEF T, l

\* The thread of a conversation's id is that of the conversation.
LEMMA ThreadOfId ==
    ASSUME NEW l, Whole(l), NEW c \in ToSet(l.conversations)
    PROVE  ThreadOf(l, c.id) = Canonical(l, c)
<1>1. l \in Contents /\ NamesFit(l.conversations)
  BY DEF Whole, Sound
<1>2. PICK d \in ToSet(l.conversations) : c.id \in Names(d) /\ ThreadOf(l, c.id) = Canonical(l, d)
  BY <1>1, IdPlanned, ThreadTyped
<1>3. Key(c) = Key(d)
  BY <1>1, <1>2 DEF NamesFit
<1>4. QED
  BY <1>2, <1>3 DEF Canonical

LEMMA ThreadsAreChannels ==
    ASSUME LoadedInv
    PROVE  ThreadsAsChannels
<1> SUFFICES ASSUME NEW f \in {x \in Files : x.state = "filled"},
                    NEW c \in ToSet(f.from.conversations), NEW d \in ToSet(f.from.conversations)
             PROVE  (ThreadOf(f.from, c.id) = ThreadOf(f.from, d.id)) = (Key(c) = Key(d))
  BY DEF ThreadsAsChannels
<1> DEFINE l == f.from
<1>1. Whole(l)
  BY DEF LoadedInv
<1> HIDE DEF l
<1>2. ThreadOf(l, c.id) = Canonical(l, c) /\ ThreadOf(l, d.id) = Canonical(l, d)
  BY <1>1, ThreadOfId DEF l
<1>3. Key(c) = Key(d) => Canonical(l, c) = Canonical(l, d)
  BY DEF Canonical
<1>4. ASSUME Canonical(l, c) = Canonical(l, d) PROVE Key(c) = Key(d)
  <2>1. l \in Contents /\ IsKey(l.conversations)
    BY <1>1 DEF Whole, Sound
  <2>2. PICK i \in DOMAIN l.conversations :
           Canonical(l, c) = l.conversations[i].id /\ Key(l.conversations[i]) = Key(c)
    BY <2>1, CanonicalOf DEF l
  <2>3. PICK j \in DOMAIN l.conversations :
           Canonical(l, d) = l.conversations[j].id /\ Key(l.conversations[j]) = Key(d)
    BY <2>1, CanonicalOf DEF l
  <2>4. i = j
    BY <1>4, <2>1, <2>2, <2>3 DEF IsKey
  <2>5. QED
    BY <2>2, <2>3, <2>4
<1>5. QED
  BY <1>2, <1>3, <1>4 DEF l

-----------------------------------------------------------------------------
(* Cursors.                                                                *)

\* A finite set of numbers has a largest.
LEMMA Bounded ==
    ASSUME NEW S \in SUBSET Nat, IsFiniteSet(S)
    PROVE  \E n \in Nat : S \subseteq 0..n
<1>1. PICK k \in Nat : ExistsSurjection(1..k, S)
  BY FS_NatSurjection
<1>2. PICK f \in Surjection(1..k, S) : TRUE
  BY <1>1 DEF ExistsSurjection
<1>3. (\A i \in 1..k : f[i] \in Nat) /\ \A x \in S : \E i \in 1..k : f[i] = x
  BY <1>2 DEF Surjection
<1> DEFINE T == {i \in 0..k : \E n \in Nat : \A j \in 1..i : f[j] <= n}
<1>4. 0 \in T
  <2>1. 1..0 = {} /\ 0 \in 0..k /\ 0 \in Nat
    BY <1>1
  <2>2. QED
    BY <2>1
<1>5. ASSUME NEW i \in 1..k, i - 1 \in T PROVE i \in T
  <2>1. i \in 0..k /\ \A j \in 1..i : j = i \/ j \in 1..(i - 1)
    BY <1>1
  <2>2. PICK n \in Nat : \A j \in 1..(i - 1) : f[j] <= n
    BY <1>5
  <2>3. f[i] \in Nat /\ \A j \in 1..i : f[j] \in Nat
    <3>1. \A j \in 1..i : j \in 1..k
      BY <1>1
    <3>2. QED
      BY <1>3, <3>1
  <2>4. \A j \in 1..i : f[j] <= n + f[i]
    BY <2>1, <2>2, <2>3
  <2>5. n + f[i] \in Nat
    BY <2>2, <2>3
  <2>6. QED
    BY <2>1, <2>4, <2>5
<1>6. k \in T
  <2> HIDE DEF T
  <2>1. \A i \in 0..k : i \in T
    BY <1>1, <1>4, <1>5, UpTo
  <2>2. QED
    BY <1>1, <2>1
<1>7. PICK n \in Nat : \A j \in 1..k : f[j] <= n
  BY <1>6
<1>8. \A x \in S : x \in 0..n
  BY <1>3, <1>7
<1>9. QED
  BY <1>7, <1>8

LEMMA FiniteMax ==
    ASSUME NEW S \in SUBSET Nat, IsFiniteSet(S), S # {}
    PROVE  Max(S) \in S /\ \A y \in S : y <= Max(S)
<1>1. PICK n \in Nat : S \subseteq 0..n
  BY Bounded
<1>2. QED
  BY <1>1, MaxOf

LEMMA ImageFinite ==
    ASSUME NEW S, IsFiniteSet(S), NEW h
    PROVE  IsFiniteSet({h[x] : x \in S})
<1> DEFINE T == {h[x] : x \in S}
           f == [x \in S |-> h[x]]
<1>1. f \in Surjection(S, T)
  BY DEF Surjection
<1> HIDE DEF T, f
<1>2. IsFiniteSet(T)
  BY <1>1, FS_Surjection
<1>3. QED
  BY <1>2 DEF T

\* The numbers that the rows of a list show.
LEMMA ShownByRows ==
    ASSUME NEW S, \A e \in S : e.seqs \in Numbers, NEW list \in Seq(S), NEW E \in SUBSET ToSet(list)
    PROVE  (UNION {e.seqs : e \in E}) \in Numbers
<1> DEFINE n == Len(list)
           h == [i \in 1..n |-> list[i].seqs]
           all == {h[i] : i \in 1..n}
           some == {e.seqs : e \in E}
<1>1. n \in Nat /\ DOMAIN list = 1..n /\ \A i \in 1..n : list[i] \in S
  BY LenProperties, ElementOfSeq
<1>2. IsFiniteSet(1..n)
  BY <1>1, FS_Interval
<1>3. some \subseteq all
  BY <1>1 DEF ToSet
<1>4. \A x \in all : x \in Numbers
  BY <1>1
<1> HIDE DEF h
<1>5. IsFiniteSet(all)
  BY <1>2, ImageFinite
<1> HIDE DEF all, some
<1>6. IsFiniteSet(some)
  BY <1>3, <1>5, FS_Subset
<1>7. \A x \in some : IsFiniteSet(x) /\ x \subseteq Nat
  BY <1>3, <1>4 DEF Numbers
<1>8. IsFiniteSet(UNION some)
  BY <1>6, <1>7, FS_UNION
<1>9. UNION some \in Numbers
  BY <1>7, <1>8 DEF Numbers
<1>10. QED
  BY <1>9 DEF some

LEMMA ShownIsFinite ==
    ASSUME NEW l, Whole(l), NEW d
    PROVE  Shown(l, d) \in Numbers
<1> DEFINE A == UNION {e.seqs : e \in {f \in ToSet(l.ledger) :
                                          f.kind = "user_turn" /\ DomainOf(l, f.thread) = d}}
           B == UNION {m.seqs : m \in {f \in ToSet(l.messages) : f.role = "user" /\
                          \E c \in ToSet(l.conversations) : c.id = f.conversation /\ c.domain = d}}
           C == {b.seq : b \in {x \in l.broadcast : x.domain = d}}
<1>1. l.ledger \in Seq(Events) /\ l.messages \in Seq(MessageRows)
      /\ l.broadcast \in SUBSET Broadcasts /\ IsFiniteSet(l.broadcast)
  BY DEF Whole, Sound, Contents
<1>2. A \in Numbers
  <2>1. \A e \in Events : e.seqs \in Numbers
    BY DEF Events
  <2>2. QED
    BY <1>1, <2>1, ShownByRows
<1>3. B \in Numbers
  <2>1. \A m \in MessageRows : m.seqs \in Numbers
    BY DEF MessageRows
  <2>2. QED
    BY <1>1, <2>1, ShownByRows
<1>4. C \in Numbers
  <2> DEFINE h == [b \in l.broadcast |-> b.seq]
             own == {x \in l.broadcast : x.domain = d}
  <2>1. IsFiniteSet(own)
    BY <1>1, FS_Subset
  <2>2. C = {h[b] : b \in own} /\ C \subseteq Nat
    BY <1>1 DEF Broadcasts
  <2> HIDE DEF h, own, C
  <2>3. IsFiniteSet(C)
    BY <2>1, <2>2, ImageFinite
  <2>4. QED
    BY <2>2, <2>3 DEF Numbers
<1>5. Shown(l, d) = A \cup B \cup C
  BY DEF Shown
<1> HIDE DEF A, B, C
<1>6. A \cup B \cup C \subseteq Nat /\ IsFiniteSet(A \cup B \cup C)
  BY <1>2, <1>3, <1>4, FS_Union DEF Numbers
<1>7. QED
  BY <1>5, <1>6 DEF Numbers

\* The domain of a name is that of any conversation of a domain that it stands for.
LEMMA DomainOfName ==
    ASSUME NEW l, Whole(l), NEW c \in ToSet(l.conversations), IsDomain(c), NEW name \in Names(c)
    PROVE  DomainOf(l, name) = c.domain
<1> DEFINE found == {i \in Named(l, name) : IsDomain(l.conversations[i])}
           d == l.conversations[Max(found)]
<1>1. l \in Contents /\ NamesFit(l.conversations)
  BY DEF Whole, Sound
<1>2. found # {}
  <2>1. PICK i \in DOMAIN l.conversations : l.conversations[i] = c
    BY <1>1, ConversationsTyped
  <2>2. i \in found
    BY <2>1 DEF Named
  <2>3. QED
    BY <2>2
<1>3. DomainOf(l, name) = d.domain
  BY <1>2 DEF DomainOf
<1>4. found \in SUBSET Named(l, name)
  OBVIOUS
<1>5. Max(found) \in found /\ Max(found) \in DOMAIN l.conversations /\ name \in Names(d)
  <2> HIDE DEF found
  <2>1. QED
    BY <1>1, <1>2, <1>4, NamedLast
<1>6. IsDomain(d)
  BY <1>5
<1>7. d \in ToSet(l.conversations)
  BY <1>5 DEF ToSet
<1> HIDE DEF d
<1>8. Names(c) \cap Names(d) # {}
  BY <1>5
<1>9. QED
  BY <1>1, <1>3, <1>6, <1>7, <1>8 DEF NamesFit

LEMMA CursorsAreSeen ==
    ASSUME LoadedInv
    PROVE  CursorsAsSeen
<1> SUFFICES ASSUME NEW f \in {x \in Files : x.state = "filled"},
                    NEW c \in ToSet(f.from.conversations), IsDomain(c)
             PROVE  LET shown == (UNION {m.seqs : m \in ToSet(f.from.messages)}) \cup
                                 (UNION {e.seqs : e \in ToSet(f.from.ledger)}) \cup
                                 {b.seq : b \in f.from.broadcast} \cup {0}
                    IN  /\ Cursor(f.from, c.domain) \in shown
                        /\ \A m \in ToSet(f.from.messages) : m.conversation = c.id /\ m.role = "user"
                              => \A n \in m.seqs : n <= Cursor(f.from, c.domain)
                        /\ \A e \in ToSet(f.from.ledger) : e.thread \in Names(c) /\ e.kind = "user_turn"
                              => \A n \in e.seqs : n <= Cursor(f.from, c.domain)
  BY DEF CursorsAsSeen
<1> DEFINE l == f.from
           S == Shown(l, c.domain) \cup {0}
           A == UNION {m.seqs : m \in ToSet(l.messages)}
           B == UNION {e.seqs : e \in ToSet(l.ledger)}
           C == {b.seq : b \in l.broadcast}
<1>1. Whole(l)
  BY DEF LoadedInv
<1>2. S \in SUBSET Nat /\ IsFiniteSet(S) /\ S # {}
  BY <1>1, ShownIsFinite, FS_AddElement DEF Numbers
<1>3. Cursor(l, c.domain) \in S /\ \A y \in S : y <= Cursor(l, c.domain)
  <2>1. Cursor(l, c.domain) = Max(S)
    BY DEF Cursor
  <2> HIDE DEF S
  <2>2. QED
    BY <1>2, <2>1, FiniteMax
<1>4. S \subseteq A \cup B \cup C \cup {0}
  BY DEF Shown
<1>5. Cursor(l, c.domain) \in A \cup B \cup C \cup {0}
  <2> HIDE DEF A, B, C, S
  <2>1. QED
    BY <1>3, <1>4
<1>6. ASSUME NEW m \in ToSet(l.messages), m.conversation = c.id, m.role = "user", NEW n \in m.seqs
      PROVE  n <= Cursor(l, c.domain)
  <2>1. n \in Shown(l, c.domain)
    BY <1>6 DEF Shown
  <2>2. QED
    BY <1>3, <2>1
<1>7. ASSUME NEW e \in ToSet(l.ledger), e.thread \in Names(c), e.kind = "user_turn", NEW n \in e.seqs
      PROVE  n <= Cursor(l, c.domain)
  <2>1. DomainOf(l, e.thread) = c.domain
    BY <1>1, <1>7, DomainOfName
  <2>2. n \in Shown(l, c.domain)
    BY <1>7, <2>1 DEF Shown
  <2>3. QED
    BY <1>3, <2>2
<1>8. QED
  BY <1>5, <1>6, <1>7

LEMMA TurnsAreSpoken ==
    ASSUME LoadedInv
    PROVE  TurnsAsSpoken
<1> SUFFICES ASSUME NEW f \in {x \in Files : x.state = "filled"}, NEW g \in Groups(f.from)
             PROVE  /\ Len(TurnsOf(g[1], g[2])) = Cardinality(Starts(g[2]))
                    /\ \A i \in Starts(g[2]) :
                          \E t \in ToSet(TurnsOf(g[1], g[2])) : IsTurnFrom(g[1], g[2], i, t)
                    /\ \A t \in ToSet(TurnsOf(g[1], g[2])) :
                          \E i \in Starts(g[2]) : IsTurnFrom(g[1], g[2], i, t)
  BY DEF TurnsAsSpoken
<1>1. Whole(f.from)
  BY DEF LoadedInv
<1>2. QED
  BY <1>1, TurnsOfGroup

\* A migrated database has the turns that the events and messages of the old one
\* make, once each and each in the thread of its conversation, all that users had
\* said when the migration began, and the cursors of Tidepool's domains, whatever
\* is in the old database, whatever is written to it meanwhile, and wherever the
\* migrator is stopped.
THEOREM MigrationsAreFaithful == MgSpec => []MigratedAsSaid
<1>1. LoadedInv => MigratedAsSaid
  BY TurnsAreSpoken, NothingIsTwice, NothingIsLost, ThreadsAreChannels, CursorsAreSeen DEF MigratedAsSaid
<1>2. QED
  BY <1>1, LoadedInvariant, PTL
=============================================================================
