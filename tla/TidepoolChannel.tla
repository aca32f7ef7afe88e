-------------------------- MODULE TidepoolChannel --------------------------
(***************************************************************************)
(* The Tidepool channel: one task that reads the messages of the domains   *)
(* its account is subscribed to, gives each to the runtime as a turn,      *)
(* posts its replies and moves the domain's cursor.                        *)
(*                                                                         *)
(*   - TidepoolChannel::run_forever, run_once, handle_message and          *)
(*     seed_attach_cursors (channels/tidepool.rs).                         *)
(*   - TidepoolClient::connect, its insert callback and its unbounded      *)
(*     event queue (tidepool/client.rs).                                   *)
(*   - The Tidepool server, as the client uses it: domains whose messages  *)
(*     are numbered from 1, of which a subscriber is sent all rows, the    *)
(*     existing ones in no particular order and new ones as they come.     *)
(*                                                                         *)
(* A turn is one step to the channel (TurnLifecycle says what is in it).   *)
(* The back-off between connections is the location "resting"; how long it *)
(* lasts makes no difference to what is stated here.  The shared client    *)
(* that tools use is left out.                                             *)
(***************************************************************************)
EXTENDS Integers, SequencesExt

CONSTANTS
    Domains,        \* the domains of the server
    NoMessage,      \* no message is being handled
    Disconnected,   \* the event TidepoolClientEvent::Disconnected
    EmitSelf,       \* TRUE when emit_self_messages is set
    LateReplies,    \* TRUE when a reply posted on one connection may reach the
                    \* server after the snapshot of the next one was taken
    MaxPosts,       \* bound: messages in a domain
    MaxReplies,     \* bound: outbound messages of a turn
    MaxBreaks,      \* bound: connections that fail or are lost
    MaxChanges,     \* bound: subscriptions made or given up
    MaxCrashes,     \* bound: crashes
    MaxFailures     \* bound: database calls of the channel that fail

\* <<d, s>> is the message of domain d with domain_sequence s.
Messages == Domains \X (1..MaxPosts)

\* <<m, n, k>> is what the n-th turn of message m posts when k are still due.
Posts == Messages \X Nat \X (1..MaxReplies)

ASSUME TidepoolAssumption ==
    /\ IsFiniteSet(Domains)
    /\ EmitSelf \in BOOLEAN /\ LateReplies \in BOOLEAN
    /\ NoMessage \notin Messages /\ Disconnected \notin Messages
    /\ MaxPosts \in Nat /\ MaxReplies \in Nat /\ MaxBreaks \in Nat /\ MaxChanges \in Nat
    /\ MaxCrashes \in Nat /\ MaxFailures \in Nat

VARIABLES
    board,        \* the authors of each domain's messages, in order
    subscribed,   \* the domains the account is subscribed to
    link,         \* the connection: none, up, or broken
    sent,         \* posts on their way to the server
    cached,       \* how many rows of each domain the client's cache has
    queue,        \* the client's events that are yet to be received
    pc,           \* where the channel's task is
    current,      \* the message it is handling
    unposted,     \* its turn's outbound messages that are yet to be posted
    baseline,     \* attach_baseline_sequences still to be seeded, 0 if none
    cursor,       \* the table channel_cursors, 0 when there is no row
    handled,      \* history: turns begun for a message
    replies,      \* history: <<m, n>> if a post of m's n-th turn reached the server
    steady,       \* history: domains subscribed ever since the attach
    breaks, changes, crashes, failures

server == <<board, subscribed, sent>>
connection == <<link, cached, queue>>
atHand == <<current, unposted>>
task == <<pc, atHand, baseline>>
history == <<handled, replies>>
faults == <<crashes, failures>>
vars == <<server, connection, task, cursor, history, steady, breaks, changes, faults>>

Locations == {"down", "resting", "joining", "seeding", "receiving", "turn",
              "notifying", "posting", "failing", "saving", "leaving"}
Posting == {"posting", "failing"}

TypeOK ==
    /\ board \in [Domains -> Seq({"self", "other"})]
    /\ \A d \in Domains : Len(board[d]) <= MaxPosts
    /\ subscribed \in SUBSET Domains
    /\ sent \in SUBSET Posts
    /\ link \in {"none", "up", "broken"}
    /\ cached \in [Domains -> 0..MaxPosts]
    /\ queue \in Seq(Messages \cup {Disconnected})
    /\ pc \in Locations
    /\ current \in Messages \cup {NoMessage}
    /\ unposted \in 0..MaxReplies
    /\ unposted > 0 <=> pc \in Posting
    /\ baseline \in [Domains -> 0..MaxPosts]
    /\ cursor \in [Domains -> 0..MaxPosts]
    /\ handled \in [Messages -> Nat]
    /\ replies \in SUBSET (Messages \X Nat)
    /\ steady \in SUBSET Domains
    /\ breaks \in 0..MaxBreaks /\ changes \in 0..MaxChanges
    /\ crashes \in 0..MaxCrashes /\ failures \in 0..MaxFailures

Nothing == [d \in Domains |-> 0]

Init ==
    /\ board = [d \in Domains |-> <<>>]
    /\ subscribed \in SUBSET Domains
    /\ sent = {}
    /\ link = "none" /\ cached = Nothing /\ queue = <<>>
    /\ pc = "resting" /\ current = NoMessage /\ unposted = 0 /\ baseline = Nothing
    /\ cursor = Nothing
    /\ handled = [m \in Messages |-> 0] /\ replies = {}
    /\ steady = {}
    /\ breaks = 0 /\ changes = 0 /\ crashes = 0 /\ failures = 0

Goto(location) == pc' = location
Author(m) == board[m[1]][m[2]]

-----------------------------------------------------------------------------
(* The server, and the client's cache and callback.                        *)

\* The callback drops the account's own messages unless told otherwise.
Emitted(author) == EmitSelf \/ author # "self"

\* The rows of some domains that the callback lets through.
RowsOf(domains) ==
    {m \in Messages : /\ m[1] \in domains
                      /\ m[2] <= Len(board[m[1]])
                      /\ Emitted(Author(m))}

\* A message is added to a domain, and its row reaches a live subscriber.
Arrive(d, author) ==
    LET s == Len(board[d]) + 1 IN
    /\ s <= MaxPosts
    /\ board' = [board EXCEPT ![d] = Append(@, author)]
    /\ IF link = "up" /\ d \in subscribed
       THEN /\ cached' = [cached EXCEPT ![d] = s]
            /\ queue' = IF Emitted(author) THEN Append(queue, <<d, s>>) ELSE queue
       ELSE UNCHANGED <<cached, queue>>
    /\ UNCHANGED <<subscribed, link>>

\* Somebody posts; "self" is this agent, by a tool of some turn.
PostMessage(d, author) ==
    /\ Arrive(d, author)
    /\ UNCHANGED <<sent, task, cursor, history, steady, breaks, changes, faults>>

\* A live subscription brings the rows the domain already has.
Subscribe(d) ==
    /\ d \notin subscribed /\ changes < MaxChanges
    /\ subscribed' = subscribed \cup {d}
    /\ changes' = changes + 1
    /\ IF link = "up"
       THEN /\ cached' = [cached EXCEPT ![d] = Len(board[d])]
            /\ \E rows \in SetToSeqs(RowsOf({d})) : queue' = queue \o rows
       ELSE UNCHANGED <<cached, queue>>
    /\ UNCHANGED <<board, sent, link, task, cursor, history, steady, breaks, faults>>

\* The rows leave the cache; what is queued stays queued.
Unsubscribe(d) ==
    /\ d \in subscribed /\ changes < MaxChanges
    /\ subscribed' = subscribed \ {d}
    /\ changes' = changes + 1
    /\ steady' = steady \ {d}
    /\ cached' = IF link = "up" THEN [cached EXCEPT ![d] = 0] ELSE cached
    /\ UNCHANGED <<board, sent, link, queue, task, cursor, history, breaks, faults>>

\* A post reaches the server, or does not: it is refused, or lost with its
\* connection.
ReplyArrives(p) ==
    /\ p \in sent
    /\ Arrive(p[1][1], "self")
    /\ sent' = sent \ {p}
    /\ replies' = replies \cup {<<p[1], p[2]>>}
    /\ UNCHANGED <<task, cursor, handled, steady, breaks, changes, faults>>

ReplyIsLost(p) ==
    /\ p \in sent
    /\ sent' = sent \ {p}
    /\ UNCHANGED <<board, subscribed, connection, task, cursor, history, steady,
                   breaks, changes, faults>>

\* on_disconnect queues its event behind the messages that came before.
Break ==
    /\ link = "up" /\ breaks < MaxBreaks
    /\ link' = "broken"
    /\ breaks' = breaks + 1
    /\ queue' = Append(queue, Disconnected)
    /\ UNCHANGED <<server, cached, task, cursor, history, steady, changes, faults>>

Receiving(m) == pc = "receiving" /\ queue # <<>> /\ Head(queue) = m

\* run_once ends with an error: clear_shared_client, then the back-off.  The
\* queue goes with the client.
Reconnect ==
    /\ Goto("resting")
    /\ link' = "none" /\ cached' = Nothing /\ queue' = <<>>
    /\ current' = NoMessage /\ unposted' = 0 /\ baseline' = Nothing
    /\ UNCHANGED steady

-----------------------------------------------------------------------------
(* Mutants: each is a plausible slip in the definition it is named after,  *)
(* and breaks one of the properties below.                                 *)

MutUpsert(m) ==                              \* the sequence expected next
    cursor' = [cursor EXCEPT ![m[1]] = m[2] + 1]

MutSeedNothing(d) ==                         \* no seeding
    /\ pc = "seeding" /\ baseline[d] > 0
    /\ baseline' = [baseline EXCEPT ![d] = 0]
    /\ UNCHANGED <<server, connection, pc, atHand, cursor, history, steady, breaks,
                   changes, faults>>

MutSeedBaseline(d) ==                        \* the boundary message skipped
    /\ pc = "seeding" /\ baseline[d] > 0
    /\ cursor' = IF cursor[d] >= baseline[d] THEN cursor
                 ELSE [cursor EXCEPT ![d] = baseline[d]]
    /\ baseline' = [baseline EXCEPT ![d] = 0]
    /\ UNCHANGED <<server, connection, pc, atHand, history, steady, breaks, changes, faults>>

MutModelNotified ==                          \* a failed turn saves no cursor
    /\ pc = "notifying"
    /\ Goto("receiving")
    /\ current' = NoMessage
    /\ UNCHANGED <<server, connection, unposted, baseline, cursor, history, steady,
                   breaks, changes, faults>>

MutSaveAndLeave ==                           \* the post's error returned at once
    /\ pc = "leaving"
    /\ Reconnect
    /\ UNCHANGED <<server, cursor, history, breaks, changes, faults>>

MutCursorFailure ==                          \* logged, and on to the next message
    /\ failures < MaxFailures
    /\ \E m \in Messages : Receiving(m)
    /\ failures' = failures + 1
    /\ queue' = Tail(queue)
    /\ UNCHANGED <<server, link, cached, task, cursor, history, steady, breaks,
                   changes, crashes>>

-----------------------------------------------------------------------------
(* Connecting.                                                             *)

\* TidepoolClient::connect up to the moment the snapshot is in the cache.
Connect ==
    /\ pc = "resting" /\ (LateReplies \/ sent = {})
    /\ Goto("joining")
    /\ link' = "up"
    /\ cached' = [d \in Domains |-> IF d \in subscribed THEN Len(board[d]) ELSE 0]
    /\ \E rows \in SetToSeqs(RowsOf(subscribed)) : queue' = rows
    /\ steady' = subscribed
    /\ UNCHANGED <<server, atHand, baseline, cursor, history, breaks, changes, faults>>

\* No connection, or bootstrap_account waited ten seconds in vain.
JoinFails ==
    /\ pc = "joining" /\ breaks < MaxBreaks
    /\ breaks' = breaks + 1
    /\ Reconnect
    /\ UNCHANGED <<server, cursor, history, changes, faults>>

\* The account is there: current_attach_baseline reads the cache, to which
\* messages may have been added since the snapshot.
ReadBaseline ==
    /\ pc = "joining"
    /\ Goto("seeding")
    /\ baseline' = cached
    /\ UNCHANGED <<server, connection, atHand, cursor, history, steady, breaks, changes, faults>>

\* One round of the loop of seed_attach_cursors.
SeedCursor(d) ==
    /\ pc = "seeding" /\ baseline[d] > 0
    /\ cursor' = IF cursor[d] >= baseline[d] THEN cursor
                 ELSE [cursor EXCEPT ![d] = baseline[d] - 1]
    /\ baseline' = [baseline EXCEPT ![d] = 0]
    /\ UNCHANGED <<server, connection, pc, atHand, history, steady, breaks, changes, faults>>

StartReceiving ==
    /\ pc = "seeding" /\ baseline = Nothing
    /\ Goto("receiving")
    /\ UNCHANGED <<server, connection, atHand, baseline, cursor, history, steady,
                   breaks, changes, faults>>

-----------------------------------------------------------------------------
(* handle_message, from one await to the next.                             *)

\* A message that the cursor covers is skipped.
SkipCovered(m) ==
    /\ Receiving(m) /\ m[2] <= cursor[m[1]]
    /\ queue' = Tail(queue)
    /\ UNCHANGED <<server, link, cached, task, cursor, history, steady, breaks,
                   changes, faults>>

\* The agent's own message only moves the cursor, another one is a turn.
Receive(m) ==
    /\ Receiving(m) /\ m[2] > cursor[m[1]]
    /\ queue' = Tail(queue)
    /\ current' = m
    /\ IF Author(m) = "self"
       THEN Goto("saving") /\ UNCHANGED handled
       ELSE Goto("turn") /\ handled' = [handled EXCEPT ![m] = @ + 1]
    /\ UNCHANGED <<server, link, cached, unposted, baseline, cursor, replies, steady,
                   breaks, changes, faults>>

ReceiveDisconnected ==
    /\ Receiving(Disconnected)
    /\ Reconnect
    /\ UNCHANGED <<server, cursor, history, breaks, changes, faults>>

\* handle_inbound returns the turn's messages, the response last, or an error.
TurnEnds ==
    /\ pc = "turn"
    /\ unposted' \in 0..MaxReplies
    /\ \/ Goto(IF unposted' > 0 THEN "posting" ELSE "saving")
       \/ unposted' = 0 /\ Goto("notifying")
    /\ UNCHANGED <<server, connection, current, baseline, cursor, history, steady,
                   breaks, changes, faults>>

\* notify_model_of_inbound_failure: a second turn, whose outcome is dropped.
ModelNotified ==
    /\ pc = "notifying"
    /\ Goto("saving")
    /\ UNCHANGED <<server, connection, atHand, baseline, cursor, history, steady,
                   breaks, changes, faults>>

\* The posts go out one by one, whatever became of the ones before.  An error
\* is remembered ("failing") and returned when the cursor is saved.
NextPost(location, last) ==
    /\ unposted' = unposted - 1
    /\ Goto(IF unposted = 1 THEN last ELSE location)

\* post_message queues a reducer call, whose fate nobody waits for; it
\* returns an error only when the connection is gone.
Post ==
    /\ pc \in Posting
    /\ sent' = sent \cup {<<current, handled[current], unposted>>}
    /\ NextPost(pc, IF pc = "posting" THEN "saving" ELSE "leaving")
    /\ UNCHANGED <<board, subscribed, connection, current, baseline, cursor, history,
                   steady, breaks, changes, faults>>

PostFails ==
    /\ pc \in Posting /\ link = "broken"
    /\ NextPost("failing", "leaving")
    /\ UNCHANGED <<server, connection, current, baseline, cursor, history, steady,
                   breaks, changes, faults>>

\* upsert_cursor writes what it is given, whatever the row says.
Upsert(m) == cursor' = [cursor EXCEPT ![m[1]] = m[2]]

SaveCursor ==
    /\ pc = "saving"
    /\ Upsert(current)
    /\ Goto("receiving")
    /\ current' = NoMessage
    /\ UNCHANGED <<server, connection, unposted, baseline, history, steady, breaks,
                   changes, faults>>

\* After first_post_error the error is returned, once the cursor is saved.
SaveAndLeave ==
    /\ pc = "leaving"
    /\ Upsert(current)
    /\ Reconnect
    /\ UNCHANGED <<server, history, breaks, changes, faults>>

-----------------------------------------------------------------------------
(* What goes wrong.                                                        *)

\* Loading or saving a cursor fails, and with it the connection.
CursorFailure ==
    /\ failures < MaxFailures
    /\ \/ pc = "seeding" /\ baseline # Nothing
       \/ \E m \in Messages : Receiving(m)
       \/ pc \in {"saving", "leaving"}
    /\ failures' = failures + 1
    /\ Reconnect
    /\ UNCHANGED <<server, cursor, history, breaks, changes, crashes>>

Crash ==
    /\ pc # "down" /\ crashes < MaxCrashes
    /\ crashes' = crashes + 1
    /\ Goto("down")
    /\ link' = "none" /\ cached' = Nothing /\ queue' = <<>>
    /\ current' = NoMessage /\ unposted' = 0 /\ baseline' = Nothing
    /\ UNCHANGED <<server, cursor, history, steady, breaks, changes, failures>>

Restart ==
    /\ pc = "down"
    /\ Goto("resting")
    /\ UNCHANGED <<server, connection, atHand, baseline, cursor, history, steady,
                   breaks, changes, faults>>

-----------------------------------------------------------------------------
Environment ==
    \/ \E d \in Domains : \/ \E author \in {"self", "other"} : PostMessage(d, author)
                          \/ Subscribe(d) \/ Unsubscribe(d)
    \/ \E p \in sent : ReplyArrives(p) \/ ReplyIsLost(p)
    \/ Break \/ JoinFails \/ CursorFailure \/ Crash

Attach == Connect \/ ReadBaseline \/ (\E d \in Domains : SeedCursor(d)) \/ StartReceiving

HandleMessage ==
    \/ \E m \in Messages : SkipCovered(m) \/ Receive(m)
    \/ ReceiveDisconnected \/ TurnEnds \/ ModelNotified
    \/ Post \/ PostFails \/ SaveCursor \/ SaveAndLeave

Next == Environment \/ Attach \/ HandleMessage \/ Restart

Spec == Init /\ [][Next]_vars

\* The task is polled, its turns end (TurnLifecycle, EveryTurnSettles),
\* somebody restarts the process, and what is sent arrives or is lost.
Fairness ==
    /\ WF_vars(Attach \/ HandleMessage)
    /\ WF_vars(Restart)
    /\ WF_vars(\E p \in sent : ReplyArrives(p) \/ ReplyIsLost(p))

FairSpec == Spec /\ Fairness

-----------------------------------------------------------------------------
(* Properties.                                                             *)

\* A domain's cursor only moves forward, whatever a reconnect, a crash or a
\* stale snapshot brings: upsert_cursor itself would write any value.
CursorNeverRetreats == [][\A d \in Domains : cursor'[d] >= cursor[d]]_vars

\* "On reconnect, cursor prevents re-processing the inbound"
\* (channels/tidepool.rs): lost connections, failed turns and failed posts
\* never make a message a second turn.  Each crash or failing database call
\* may, once.
ReconnectRepeatsNothing ==
    \A m \in Messages : handled[m] <= 1 + crashes + failures

\* A turn may post several replies, but no message is replied to by two turns,
\* even when the cursor was not saved after the first reply, or not all of
\* them were posted: what reached the server is part of the snapshot from
\* which the cursor is seeded.  This needs the subscriptions to stay as they
\* are (the cursor of a domain that is left while the channel attaches is not
\* seeded) and the server to have the replies before it serves the next
\* connection.
RepliedOnce ==
    changes = 0 => \A r, q \in replies : r[1] = q[1] => r[2] = q[2]

\* While a connection lasts, the cursor of a domain it attached to steps
\* over nothing but the agent's own messages, although it was seeded from a
\* cache that filled up at the same time as the queue.
SavesSkipNothing ==
    [][\A d \in steady :
          pc \in {"saving", "leaving"} /\ cursor'[d] > cursor[d] =>
              \A s \in cursor[d] + 1 .. cursor'[d] - 1 : board[d][s] = "self"]_vars

\* A cursor moves forward only, and over messages that were handled.
CursorsSound == CursorNeverRetreats /\ SavesSkipNothing

\* The cursor is seeded below the baseline, so that the newest message of a
\* domain is always handled, also when it came while the channel was away.
NewestHandled ==
    \A m \in Messages :
        /\ m[1] \in subscribed
        /\ m[2] = Len(board[m[1]]) /\ Author(m) = "other"
        ~> \/ handled[m] > 0
           \/ m[2] < Len(board[m[1]])
           \/ m[1] \notin subscribed

\* No message stays ahead of the cursor for ever.
EveryMessageCovered ==
    \A m \in Messages :
        /\ m[1] \in subscribed
        /\ m[2] <= Len(board[m[1]]) /\ Author(m) = "other"
        ~> m[2] <= cursor[m[1]] \/ m[1] \notin subscribed

-----------------------------------------------------------------------------
(* Statements of the repository that do not hold of the code.              *)

\* docs/todo.md: the cursor is seeded to baseline - 1 "to avoid losing
\* messages", and docs/tidepool.md has per-domain checkpoints: from a
\* checkpoint on, the cursor passes no message that was not handled.
NothingLostAfterCheckpoint ==
    [][\A d \in Domains : cursor[d] > 0 =>
          \A s \in cursor[d] + 1 .. cursor'[d] :
              board[d][s] = "self" \/ handled'[<<d, s>>] > 0]_vars

=============================================================================
