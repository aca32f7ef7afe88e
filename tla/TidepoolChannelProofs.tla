----------------------- MODULE TidepoolChannelProofs -----------------------
(***************************************************************************)
(* Proofs about TidepoolChannel, for every finite set of domains, any      *)
(* number of messages, lost connections, crashes and failing calls.        *)
(***************************************************************************)
EXTENDS TidepoolChannel, FiniteSetTheorems, SequenceTheorems, TLAPS

Handling == {"turn", "notifying", "posting", "failing", "saving", "leaving"}

Covered(m) == m[2] <= cursor[m[1]]

\* The message being handled is not covered until it is saved, so that a
\* message with a turn too many is either covered or being handled.
Repeats(m) ==
    handled[m] <= crashes + failures
                  + (IF Covered(m) \/ (current = m /\ pc \in Handling) THEN 1 ELSE 0)

ChannelInv ==
    /\ TypeOK
    /\ pc \in Handling => current \in Messages /\ ~Covered(current)
    /\ \A m \in Messages : Repeats(m)

\* The message exists and its domain is subscribed to.
Known(m) == m[1] \in subscribed /\ m[2] <= Len(board[m[1]])

\* The n-th turn of a message has posted something, on its way or arrived.
Spoken(m, n) == (\E k \in 1..MaxReplies : <<m, n, k>> \in sent) \/ <<m, n>> \in replies

\* A message with a reply is covered, or about to be, or will be: the reply
\* is behind it in its domain, so the next baseline is above it.
Shielded(m) ==
    \/ Covered(m)
    \/ current = m /\ pc \in {"posting", "failing", "saving", "leaving"}
    \/ pc \in {"down", "resting"}
    \/ pc = "joining" /\ cached[m[1]] > m[2]
    \/ pc = "seeding" /\ baseline[m[1]] > m[2]

QueueKnown == \A i \in 1..Len(queue) : queue[i] # Disconnected => Known(queue[i])

\* Only the last turn has posted anything, and what arrived is behind its
\* message.
Answered(m) ==
    \A n \in Nat : Spoken(m, n) =>
        /\ Known(m)
        /\ n = handled[m]
        /\ <<m, n>> \in replies => m[2] < Len(board[m[1]])
        /\ Shielded(m)

ReplyInv ==
    /\ ChannelInv
    /\ QueueKnown
    /\ pc \in Handling => Known(current)
    /\ \A m \in Messages : Answered(m)

-----------------------------------------------------------------------------
\* A message is a domain and a sequence number.
LEMMA MessageParts ==
    ASSUME NEW m \in Messages
    PROVE  m[1] \in Domains /\ m[2] \in 1..MaxPosts /\ m = <<m[1], m[2]>>
BY DEF Messages

\* A domain and a sequence number within the bound make a message.
LEMMA MessageMade ==
    ASSUME NEW d \in Domains, NEW s \in 1..MaxPosts
    PROVE  <<d, s>> \in Messages
BY DEF Messages

\* The rows of a snapshot arrive as a sequence of messages.
LEMMA RowsAreSequences ==
    ASSUME NEW S \in SUBSET Messages, NEW rows \in SetToSeqs(S)
    PROVE  rows \in Seq(S)
<1>1. IsFiniteSet(1..MaxPosts)
  BY TidepoolAssumption, FS_Interval
<1>2. IsFiniteSet(Messages)
  BY <1>1, TidepoolAssumption, FS_Product DEF Messages
<1>3. Cardinality(S) \in Nat
  BY <1>2, FS_Subset, FS_CardinalityType
<1>4. rows \in [1..Cardinality(S) -> S]
  BY DEF SetToSeqs
<1>5. QED
  BY <1>3, <1>4, IsASeq

\* What a message that arrives does to the board, the cache and the queue.
LEMMA ArriveType ==
    ASSUME TypeOK, NEW d \in Domains, NEW author \in {"self", "other"},
           Arrive(d, author)
    PROVE  /\ board' \in [Domains -> Seq({"self", "other"})]
           /\ \A e \in Domains : Len(board'[e]) <= MaxPosts
           /\ \A e \in Domains : Len(board'[e]) \in Nat
           /\ \A e \in Domains : Len(board'[e]) >= Len(board[e])
           /\ Len(board'[d]) = Len(board[d]) + 1
           /\ cached' \in [Domains -> 0..MaxPosts]
           /\ queue' \in Seq(Messages \cup {Disconnected})
<1> DEFINE s == Len(board[d]) + 1
<1>1. s \in 1..MaxPosts /\ Len(board[d]) = s - 1
  BY TidepoolAssumption DEF TypeOK, Arrive
<1>2. <<d, s>> \in Messages
  BY <1>1, MessageMade
<1>3. queue' \in Seq(Messages \cup {Disconnected})
  <2>1. queue' = queue \/ queue' = Append(queue, <<d, s>>)
    BY DEF Arrive
  <2>2. queue \in Seq(Messages \cup {Disconnected}) /\ <<d, s>> \in Messages \cup {Disconnected}
    BY <1>2 DEF TypeOK
  <2>3. QED
    BY <2>1, <2>2, AppendProperties
<1>4. cached' \in [Domains -> 0..MaxPosts]
  <2>1. cached' = cached \/ cached' = [cached EXCEPT ![d] = s]
    BY DEF Arrive
  <2>2. cached \in [Domains -> 0..MaxPosts] /\ s \in 0..MaxPosts
    BY <1>1, TidepoolAssumption DEF TypeOK
  <2>3. QED
    BY <2>1, <2>2
<1>5. board' = [board EXCEPT ![d] = Append(board[d], author)]
  BY DEF Arrive
<1>6. /\ Append(board[d], author) \in Seq({"self", "other"})
      /\ Len(Append(board[d], author)) = s
  BY AppendProperties DEF TypeOK
<1>7. \A e \in Domains : Len(board[e]) \in Nat /\ Len(board[e]) <= MaxPosts
  BY DEF TypeOK
<1>8. board' \in [Domains -> Seq({"self", "other"})]
  BY <1>5, <1>6 DEF TypeOK
<1>9. \A e \in Domains : board'[e] = IF e = d THEN Append(board[d], author) ELSE board[e]
  BY <1>5 DEF TypeOK
<1>10. \A e \in Domains : Len(board'[e]) = IF e = d THEN s ELSE Len(board[e])
  BY <1>6, <1>9
<1> HIDE DEF s
<1>11. s \in Nat /\ s <= MaxPosts /\ s = Len(board[d]) + 1
  BY <1>1, TidepoolAssumption
<1>12. \A e \in Domains : /\ Len(board'[e]) \in Nat
                          /\ Len(board'[e]) <= MaxPosts
                          /\ Len(board'[e]) >= Len(board[e])
  BY <1>7, <1>10, <1>11
<1>13. QED
  BY <1>3, <1>4, <1>8, <1>10, <1>11, <1>12

\* The first state has the types.
LEMMA TypeInit == Init => TypeOK
BY TidepoolAssumption DEF Init, TypeOK, Nothing, Locations, Posting

\* Every step keeps the types, whatever arrives on the queue.
LEMMA TypeStep ==
    ASSUME TypeOK, pc \in Handling => current \in Messages, [Next]_vars
    PROVE  TypeOK'
<1> USE TidepoolAssumption
<1> USE DEF Goto, server, connection, task, atHand, history, faults
<1>1. CASE \E d \in Domains, author \in {"self", "other"} : PostMessage(d, author)
  BY <1>1, ArriveType DEF PostMessage, Arrive, TypeOK
<1>2. CASE \E d \in Domains : Subscribe(d)
  <2>1. PICK d \in Domains : Subscribe(d)
    BY <1>2
  <2>2. queue' \in Seq(Messages \cup {Disconnected})
    <3>1. CASE link = "up"
      <4>1. PICK rows \in SetToSeqs(RowsOf({d})) : queue' = queue \o rows
        BY <2>1, <3>1 DEF Subscribe
      <4>2. rows \in Seq(RowsOf({d})) /\ RowsOf({d}) \subseteq Messages
        BY RowsAreSequences DEF RowsOf
      <4>3. rows \in Seq(Messages \cup {Disconnected})
        BY <4>2, SeqMonotonic
      <4>4. QED
        BY <4>1, <4>3 DEF TypeOK
    <3>2. CASE link # "up"
      BY <2>1, <3>2 DEF Subscribe, TypeOK
    <3>3. QED
      BY <3>1, <3>2
  <2>3. cached' \in [Domains -> 0..MaxPosts]
    <3>1. Len(board[d]) \in 0..MaxPosts
      BY TidepoolAssumption DEF TypeOK
    <3>2. cached' = cached \/ cached' = [cached EXCEPT ![d] = Len(board[d])]
      BY <2>1 DEF Subscribe
    <3>3. QED
      BY <3>1, <3>2 DEF TypeOK
  <2>4. QED
    BY <2>1, <2>2, <2>3 DEF Subscribe, TypeOK
<1>3. CASE \E d \in Domains : Unsubscribe(d)
  BY <1>3 DEF Unsubscribe, TypeOK
<1>4. CASE \E p \in sent : ReplyArrives(p)
  <2>1. PICK p \in sent : ReplyArrives(p)
    BY <1>4
  <2>2. p \in Posts /\ p[1] \in Messages /\ p[2] \in Nat /\ p[1][1] \in Domains
    BY <2>1, MessageParts DEF TypeOK, Posts
  <2>3. sent' \in SUBSET Posts /\ replies' \in SUBSET (Messages \X Nat)
    BY <2>1, <2>2 DEF ReplyArrives, TypeOK
  <2>4. QED
    BY <2>1, <2>2, <2>3, ArriveType DEF ReplyArrives, Arrive, TypeOK
<1>5. CASE \E p \in sent : ReplyIsLost(p)
  BY <1>5 DEF ReplyIsLost, TypeOK
<1>6. CASE Break
  <2>1. queue' \in Seq(Messages \cup {Disconnected})
    BY <1>6, AppendProperties DEF Break, TypeOK
  <2>2. breaks' \in 0..MaxBreaks
    BY <1>6 DEF Break, TypeOK
  <2>3. QED
    BY <1>6, <2>1, <2>2 DEF Break, TypeOK
<1>7. CASE JoinFails \/ ReceiveDisconnected \/ CursorFailure \/ Crash \/ Restart
  <2>1. Nothing \in [Domains -> 0..MaxPosts]
    BY DEF Nothing
  <2>2. CASE JoinFails
    BY <2>1, <2>2 DEF JoinFails, Reconnect, TypeOK, Locations, Posting
  <2>3. CASE ReceiveDisconnected
    BY <2>1, <2>3 DEF ReceiveDisconnected, Reconnect, TypeOK, Locations, Posting
  <2>4. CASE CursorFailure
    <3>1. failures' \in 0..MaxFailures
      BY <2>4 DEF CursorFailure, TypeOK
    <3>2. QED
      BY <2>1, <2>4, <3>1 DEF CursorFailure, Reconnect, TypeOK, Locations, Posting
  <2>5. CASE Crash
    BY <2>1, <2>5 DEF Crash, TypeOK, Locations, Posting
  <2>6. CASE Restart
    BY <2>6 DEF Restart, TypeOK, Locations, Posting
  <2>7. QED
    BY <1>7, <2>2, <2>3, <2>4, <2>5, <2>6
<1>8. CASE Connect
  <2>1. PICK rows \in SetToSeqs(RowsOf(subscribed)) : queue' = rows
    BY <1>8 DEF Connect
  <2>2. rows \in Seq(RowsOf(subscribed)) /\ RowsOf(subscribed) \subseteq Messages
    BY RowsAreSequences DEF RowsOf
  <2>3. queue' \in Seq(Messages \cup {Disconnected})
    BY <2>1, <2>2, SeqMonotonic
  <2>4. QED
    BY <1>8, <2>3 DEF Connect, TypeOK, Locations, Posting
<1>9. CASE ReadBaseline \/ StartReceiving \/ TurnEnds \/ ModelNotified
  BY <1>9 DEF ReadBaseline, StartReceiving, TurnEnds, ModelNotified,
              TypeOK, Locations, Posting
<1>10. CASE \E d \in Domains : SeedCursor(d)
  BY <1>10 DEF SeedCursor, TypeOK
<1>11. CASE \E m \in Messages : SkipCovered(m) \/ Receive(m)
  <2>1. PICK m \in Messages : SkipCovered(m) \/ Receive(m)
    BY <1>11
  <2>2. queue' \in Seq(Messages \cup {Disconnected})
    <3>1. queue \in Seq(Messages \cup {Disconnected}) /\ queue # <<>> /\ queue' = Tail(queue)
      BY <2>1 DEF SkipCovered, Receive, Receiving, TypeOK
    <3>2. QED
      BY <3>1, HeadTailProperties
  <2>3. handled' \in [Messages -> Nat]
    BY <2>1 DEF SkipCovered, Receive, TypeOK
  <2>4. QED
    BY <2>1, <2>2, <2>3 DEF SkipCovered, Receive, Receiving, TypeOK, Locations, Posting
<1>12. CASE Post \/ PostFails
  <2>1. /\ pc \in Posting /\ unposted \in 1..MaxReplies /\ unposted' = unposted - 1
        /\ pc' \in Locations /\ (pc' \in Posting <=> unposted # 1)
    BY <1>12 DEF Post, PostFails, NextPost, TypeOK, Posting, Locations
  <2>2. sent' \in SUBSET Posts
    <3>1. current \in Messages /\ handled[current] \in Nat
      BY <2>1 DEF TypeOK, Posting, Handling
    <3>2. <<current, handled[current], unposted>> \in Posts
      BY <2>1, <3>1 DEF Posts
    <3>3. QED
      BY <1>12, <3>2 DEF Post, PostFails, TypeOK
  <2>3. unposted' \in 0..MaxReplies /\ (unposted' > 0 <=> pc' \in Posting)
    BY <2>1
  <2>4. QED
    BY <1>12, <2>1, <2>2, <2>3 DEF Post, PostFails, TypeOK
<1>13. CASE SaveCursor \/ SaveAndLeave
  <2>1. current \in Messages /\ current[1] \in Domains /\ current[2] \in 1..MaxPosts
    BY <1>13, MessageParts DEF SaveCursor, SaveAndLeave, Handling
  <2>2. cursor' \in [Domains -> 0..MaxPosts]
    <3>1. cursor' = [cursor EXCEPT ![current[1]] = current[2]] /\ cursor \in [Domains -> 0..MaxPosts]
      BY <1>13 DEF SaveCursor, SaveAndLeave, Upsert, TypeOK
    <3>2. current[2] \in 0..MaxPosts
      BY <2>1, TidepoolAssumption
    <3>3. QED
      BY <2>1, <3>1, <3>2
  <2>3. QED
    <3>1. CASE SaveCursor
      BY <3>1, <2>2 DEF SaveCursor, TypeOK, Locations, Posting
    <3>2. CASE SaveAndLeave
      BY <3>2, <2>2 DEF SaveAndLeave, Reconnect, TypeOK, Locations, Posting, Nothing
    <3>3. QED
      BY <1>13, <3>1, <3>2
<1>14. CASE UNCHANGED vars
  BY <1>14 DEF vars, TypeOK
<1>15. QED
  BY <1>1, <1>2, <1>3, <1>4, <1>5, <1>6, <1>7, <1>8, <1>9, <1>10, <1>11, <1>12, <1>13, <1>14
     DEF Next, Environment, Attach, HandleMessage

-----------------------------------------------------------------------------
\* Nothing has been handled at first.
LEMMA ChannelInit == Init => ChannelInv
BY TypeInit DEF Init, ChannelInv, Repeats, Handling

\* The cursor stays, or moves forward; no step of the environment moves it.
LEMMA CursorStep ==
    ASSUME ChannelInv, [Next]_vars, NEW d \in Domains
    PROVE  cursor'[d] >= cursor[d]
<1> USE DEF ChannelInv, TypeOK
<1>1. cursor[d] \in Nat
  BY TidepoolAssumption
<1>2. CASE \E e \in Domains : SeedCursor(e)
  BY <1>1, <1>2, TidepoolAssumption DEF SeedCursor
<1>3. CASE SaveCursor \/ SaveAndLeave
  <2>1. current \in Messages /\ ~Covered(current)
    BY <1>3 DEF SaveCursor, SaveAndLeave, Handling
  <2>2. cursor' = [cursor EXCEPT ![current[1]] = current[2]]
    BY <1>3 DEF SaveCursor, SaveAndLeave, Upsert
  <2>3. current[1] \in Domains /\ current[2] \in 1..MaxPosts
    BY <2>1, MessageParts
  <2>4. QED
    BY <1>1, <2>1, <2>2, <2>3, TidepoolAssumption DEF Covered
<1>4. CASE UNCHANGED cursor
  BY <1>1, <1>4
<1>5. QED
  BY <1>2, <1>3, <1>4
     DEF Next, Environment, Attach, HandleMessage, vars, PostMessage, Subscribe,
         Unsubscribe, ReplyArrives, ReplyIsLost, Break, JoinFails, CursorFailure, Crash,
         Connect, ReadBaseline, StartReceiving, SkipCovered, Receive,
         ReceiveDisconnected, TurnEnds, ModelNotified, Post, PostFails, Restart

\* Arithmetic of the two counters of faults.
LEMMA MoreFaults ==
    ASSUME NEW a \in Nat, NEW b \in Nat, NEW c \in Nat, NEW d \in Nat
    PROVE  a + b \in Nat /\ (c + d > a + b => c + d >= a + b)
OBVIOUS

\* A step that begins no turn ends the handling of a message only with its
\* cursor saved or with a fault, and takes back no cursor.
LEMMA QuietStep ==
    ASSUME ChannelInv, TypeOK', NEW m \in Messages,
           cursor'[m[1]] >= cursor[m[1]],
           handled'[m] = handled[m],
           crashes' + failures' >= crashes + failures,
           current' = m /\ pc' \in Handling => current = m /\ pc \in Handling,
           \/ current = m /\ pc \in Handling => current' = m /\ pc' \in Handling
           \/ m[2] <= cursor'[m[1]]
           \/ crashes' + failures' > crashes + failures
    PROVE  Repeats(m)'
<1> DEFINE were == crashes + failures
           are == crashes' + failures'
           h == handled[m]
<1>1. m[1] \in Domains /\ m[2] \in Nat
  BY MessageParts, TidepoolAssumption
<1>2. cursor[m[1]] \in Nat /\ cursor'[m[1]] \in Nat
  BY <1>1, TidepoolAssumption DEF ChannelInv, TypeOK
<1>3. h \in Nat /\ were \in Nat /\ are \in Nat /\ are >= were
  <2>1. crashes \in Nat /\ failures \in Nat /\ crashes' \in Nat /\ failures' \in Nat
    BY TidepoolAssumption DEF ChannelInv, TypeOK
  <2>2. h \in Nat
    BY DEF ChannelInv, TypeOK
  <2>3. were \in Nat /\ are \in Nat
    BY <2>1, MoreFaults
  <2>4. QED
    BY <2>2, <2>3, Zenon
<1>4. Covered(m) => Covered(m)'
  BY <1>1, <1>2 DEF Covered
<1>5. h <= were + (IF Covered(m) \/ (current = m /\ pc \in Handling) THEN 1 ELSE 0)
  BY DEF ChannelInv, Repeats
<1>6. \/ current = m /\ pc \in Handling => current' = m /\ pc' \in Handling
      \/ Covered(m)'
      \/ are > were
  BY DEF Covered
<1>7. SUFFICES h <= are + (IF (Covered(m) \/ (current = m /\ pc \in Handling))' THEN 1 ELSE 0)
  BY DEF Repeats
<1> HIDE DEF were, are, h
<1>8. QED
  BY <1>3, <1>4, <1>5, <1>6

\* Every step keeps the inductive invariant.
LEMMA ChannelStep ==
    ASSUME ChannelInv, [Next]_vars
    PROVE  ChannelInv'
<1> USE DEF Goto, server, connection, task, atHand, history, faults
<1>1. TypeOK'
  BY TypeStep DEF ChannelInv
<1>2. TypeOK /\ \A m \in Messages : m[1] \in Domains
  BY MessageParts DEF ChannelInv
<1>3. \A d \in Domains : cursor'[d] >= cursor[d]
  BY CursorStep
<1>4. pc' \in Handling => current' \in Messages /\ ~Covered(current)'
  <2>1. CASE \E m \in Messages : Receive(m)
    <3>1. PICK m \in Messages : Receive(m)
      BY <2>1
    <3>2. current' = m /\ cursor' = cursor /\ m[2] > cursor[m[1]]
      BY <3>1 DEF Receive
    <3>3. m[1] \in Domains /\ m[2] \in Nat /\ cursor[m[1]] \in Nat
      BY <1>2, MessageParts, TidepoolAssumption DEF TypeOK
    <3>4. QED
      BY <3>2, <3>3 DEF Covered
  <2>2. CASE UNCHANGED cursor /\ UNCHANGED current /\ pc \in Handling
    BY <2>2 DEF Covered, ChannelInv
  <2>3. CASE pc' \notin Handling
    BY <2>3
  <2>4. QED
    BY <2>1, <2>2, <2>3
       DEF Next, Environment, Attach, HandleMessage, vars, PostMessage, Subscribe,
           Unsubscribe, ReplyArrives, ReplyIsLost, Break, JoinFails, CursorFailure,
           Crash, Connect, ReadBaseline, SeedCursor, StartReceiving, SkipCovered,
           ReceiveDisconnected, TurnEnds, ModelNotified, Post, PostFails, Posting,
           SaveCursor, SaveAndLeave, Restart, Reconnect, Handling
<1>5. ASSUME NEW m \in Messages
      PROVE  Repeats(m)'
  <2>1. cursor'[m[1]] >= cursor[m[1]]
    BY <1>2, <1>3
  <2>2. crashes \in Nat /\ failures \in Nat
    BY <1>2, TidepoolAssumption DEF TypeOK
  <2>3. CASE \/ \E d \in Domains : \/ \E author \in {"self", "other"} : PostMessage(d, author)
                                   \/ Subscribe(d) \/ Unsubscribe(d) \/ SeedCursor(d)
             \/ \E p \in sent : ReplyArrives(p) \/ ReplyIsLost(p)
             \/ Break \/ JoinFails \/ Connect \/ ReadBaseline \/ StartReceiving
             \/ Restart \/ (\E k \in Messages : SkipCovered(k)) \/ UNCHANGED vars
    <3>1. /\ UNCHANGED <<handled, faults>>
          /\ current' = m /\ pc' \in Handling => current = m /\ pc \in Handling
          /\ current = m /\ pc \in Handling => current' = m /\ pc' \in Handling
      BY <2>3 DEF PostMessage, Subscribe, Unsubscribe, SeedCursor, ReplyArrives,
                  ReplyIsLost, Break, JoinFails, Connect, ReadBaseline, StartReceiving,
                  Restart, SkipCovered, Receiving, Reconnect, vars, Handling
    <3>2. QED
      BY <3>1, <1>1, <2>1, <2>2, QuietStep
  <2>4. CASE CursorFailure \/ Crash
    <3>1. /\ UNCHANGED handled
          /\ pc' \notin Handling
          /\ crashes' + failures' > crashes + failures
      BY <2>4, <2>2 DEF CursorFailure, Crash, Reconnect, Handling
    <3>2. crashes' \in Nat /\ failures' \in Nat
      BY <1>1, TidepoolAssumption DEF TypeOK
    <3>3. crashes' + failures' >= crashes + failures
      BY <3>1, <3>2, <2>2, MoreFaults
    <3>4. QED
      BY <3>1, <3>3, <1>1, <2>1, QuietStep
  <2>5. CASE ReceiveDisconnected \/ TurnEnds \/ ModelNotified \/ Post \/ PostFails
    <3>1. /\ UNCHANGED <<handled, faults>>
          /\ current' = m /\ pc' \in Handling => current = m /\ pc \in Handling
          /\ current = m /\ pc \in Handling => current' = m /\ pc' \in Handling
      BY <2>5 DEF ReceiveDisconnected, Receiving, TurnEnds, ModelNotified, Post,
                  PostFails, NextPost, Posting, Reconnect, Handling
    <3>2. QED
      BY <3>1, <1>1, <2>1, <2>2, QuietStep
  <2>6. CASE SaveCursor \/ SaveAndLeave
    <3>1. /\ UNCHANGED <<handled, faults>>
          /\ pc' \notin Handling
          /\ cursor' = [cursor EXCEPT ![current[1]] = current[2]]
      BY <2>6 DEF SaveCursor, SaveAndLeave, Upsert, Reconnect, Handling
    <3>2. current = m => cursor'[m[1]] = m[2]
      BY <3>1, <1>2 DEF TypeOK
    <3>3. m[2] \in Nat
      BY MessageParts, TidepoolAssumption
    <3>4. current = m => m[2] <= cursor'[m[1]]
      BY <3>2, <3>3
    <3>5. crashes' + failures' >= crashes + failures
      BY <3>1, <2>2
    <3>6. QED
      BY <3>1, <3>4, <3>5, <1>1, <2>1, QuietStep
  <2>7. CASE \E k \in Messages : Receive(k)
    <3>1. PICK k \in Messages : Receive(k)
      BY <2>7
    <3>2. /\ UNCHANGED <<faults, cursor>>
          /\ pc = "receiving" /\ current' = k /\ k[2] > cursor[k[1]]
          /\ \/ pc' = "saving" /\ handled' = handled
             \/ pc' = "turn" /\ handled' = [handled EXCEPT ![k] = handled[k] + 1]
      BY <3>1 DEF Receive, Receiving
    <3>3. CASE k # m
      <4>1. handled'[m] = handled[m]
        BY <3>2, <3>3, <1>2 DEF TypeOK
      <4>2. QED
        BY <4>1, <3>2, <3>3, <1>1, <2>1, <2>2, QuietStep DEF Handling
    <3>4. CASE k = m
      <4>1. Repeats(m) /\ handled[m] \in Nat /\ cursor[m[1]] \in Nat /\ m[2] \in Nat
        BY <1>2, MessageParts, TidepoolAssumption DEF ChannelInv, TypeOK
      <4>2. ~Covered(m)
        BY <4>1, <3>2, <3>4 DEF Covered
      <4>3. handled[m] <= crashes + failures
        BY <4>1, <4>2, <3>2, <2>2 DEF Repeats, Handling
      <4>4. handled'[m] \in {handled[m], handled[m] + 1}
        BY <3>2, <3>4, <1>2 DEF TypeOK
      <4>5. pc' \in {"turn", "saving"} /\ current' = m
        BY <3>2, <3>4
      <4>6. QED
        BY <4>1, <4>3, <4>4, <4>5, <3>2, <2>2 DEF Repeats, Handling
    <3>5. QED
      BY <3>3, <3>4
  <2>8. QED
    BY <2>3, <2>4, <2>5, <2>6, <2>7
       DEF Next, Environment, Attach, HandleMessage
<1>6. QED
  BY <1>1, <1>4, <1>5 DEF ChannelInv

\* So the invariant holds of every behaviour.
LEMMA ChannelInvariant == Spec => []ChannelInv
<1>1. Init => ChannelInv
  BY ChannelInit
<1>2. ChannelInv /\ [Next]_vars => ChannelInv'
  BY ChannelStep
<1>3. QED
  BY <1>1, <1>2, PTL DEF Spec

\* The channel's state has its types for every finite set of domains; in
\* particular a cursor is never beyond the last possible message.
THEOREM TypeCorrect == Spec => []TypeOK
BY ChannelInvariant, PTL DEF ChannelInv

\* The value upsert_cursor is given is never below the one that it replaces.
THEOREM CursorsMoveForward == Spec => CursorNeverRetreats
<1>1. ChannelInv /\ [Next]_vars => [\A d \in Domains : cursor'[d] >= cursor[d]]_vars
  BY CursorStep
<1>2. QED
  BY <1>1, ChannelInvariant, PTL DEF Spec, CursorNeverRetreats

\* However often the connection is lost, and whatever becomes of the replies,
\* only a crash or a failing database call gives a message a second turn.
THEOREM RepeatsAreFaults == Spec => []ReconnectRepeatsNothing
<1>1. ChannelInv => ReconnectRepeatsNothing
  <2> SUFFICES ASSUME ChannelInv, NEW m \in Messages
               PROVE  handled[m] <= 1 + crashes + failures
    BY DEF ReconnectRepeatsNothing
  <2>1. Repeats(m) /\ handled[m] \in Nat /\ crashes \in Nat /\ failures \in Nat
    BY TidepoolAssumption DEF ChannelInv, TypeOK
  <2>2. QED
    BY <2>1 DEF Repeats
<1>2. QED
  BY <1>1, ChannelInvariant, PTL

-----------------------------------------------------------------------------
(* No message is replied to twice.                                         *)

\* While subscriptions stay, so does what is known of a message.
LEMMA KnownStays ==
    ASSUME TypeOK, changes' = 0, [Next]_vars
    PROVE  /\ subscribed' = subscribed
           /\ \A m \in Messages : Known(m) => Known(m)'
<1> USE DEF server
<1>1. \A d \in Domains : ~Subscribe(d) /\ ~Unsubscribe(d)
  BY DEF Subscribe, Unsubscribe, TypeOK
<1>2. \A d \in Domains : Len(board[d]) \in Nat
  BY DEF TypeOK
<1>3. /\ subscribed' = subscribed
      /\ \A d \in Domains : Len(board'[d]) \in Nat /\ Len(board'[d]) >= Len(board[d])
  <2>1. CASE \E d \in Domains, author \in {"self", "other"} : Arrive(d, author)
    BY <2>1, ArriveType DEF Arrive
  <2>2. CASE UNCHANGED <<board, subscribed>>
    BY <2>2, <1>2
  <2>3. \A p \in sent : p[1][1] \in Domains
    BY MessageParts DEF TypeOK, Posts
  <2>4. QED
    BY <1>1, <2>1, <2>2, <2>3
       DEF Next, Environment, Attach, HandleMessage, vars, PostMessage, ReplyArrives,
           ReplyIsLost, Break, JoinFails, CursorFailure, Crash, Connect, ReadBaseline,
           SeedCursor, StartReceiving, SkipCovered, Receive, ReceiveDisconnected,
           TurnEnds, ModelNotified, Post, PostFails, SaveCursor, SaveAndLeave, Restart
<1>4. ASSUME NEW m \in Messages, Known(m)
      PROVE  Known(m)'
  <2>1. m[1] \in Domains /\ m[2] \in Nat
    BY MessageParts, TidepoolAssumption
  <2>2. QED
    BY <1>2, <1>3, <1>4, <2>1 DEF Known
<1>5. QED
  BY <1>3, <1>4

\* What is queued is known: a row is sent of subscribed domains only.
LEMMA QueueStep ==
    ASSUME TypeOK, TypeOK', QueueKnown, changes' = 0, [Next]_vars
    PROVE  QueueKnown'
<1> USE DEF server, connection
<1>1. /\ subscribed' = subscribed
      /\ \A m \in Messages : Known(m) => Known(m)'
  BY KnownStays
<1>2. \A d \in Domains : ~Subscribe(d) /\ ~Unsubscribe(d)
  BY DEF Subscribe, Unsubscribe, TypeOK
<1>3. queue \in Seq(Messages \cup {Disconnected})
  BY DEF TypeOK
<1> DEFINE Fine == {m \in Messages : m[1] \in subscribed' /\ m[2] <= Len(board'[m[1]])}
                   \cup {Disconnected}
<1>4. \A i \in 1..Len(queue) : queue[i] \in Fine
  <2>1. \A i \in 1..Len(queue) : queue[i] \in Messages \cup {Disconnected}
    BY <1>3, ElementOfSeq
  <2>2. \A m \in Messages : Known(m) => m \in Fine
    BY <1>1 DEF Known
  <2> HIDE DEF Fine
  <2>3. QED
    <3>1. Disconnected \in Fine
      BY DEF Fine
    <3>2. QED
      BY <2>1, <2>2, <3>1 DEF QueueKnown
<1>5. ASSUME \A i \in 1..Len(queue') : queue'[i] \in Fine
      PROVE  QueueKnown'
  BY <1>5 DEF QueueKnown, Known
<1>6. CASE \E d \in Domains, author \in {"self", "other"} : Arrive(d, author)
  <2>1. PICK d \in Domains, author \in {"self", "other"} : Arrive(d, author)
    BY <1>6
  <2> DEFINE s == Len(board[d]) + 1
  <2>2. s \in 1..MaxPosts /\ Len(board'[d]) = s
    BY <2>1, ArriveType, TidepoolAssumption DEF Arrive, TypeOK
  <2>3. \/ queue' = queue
        \/ queue' = Append(queue, <<d, s>>) /\ d \in subscribed
    BY <2>1 DEF Arrive
  <2>4. <<d, s>> \in Messages \cup {Disconnected}
    BY <2>2, MessageMade
  <2>5. d \in subscribed => <<d, s>> \in Fine
    BY <1>1, <2>2, MessageMade
  <2> HIDE DEF s, Fine
  <2>6. CASE queue' = queue
    BY <1>4, <1>5, <2>6
  <2>7. CASE queue' = Append(queue, <<d, s>>) /\ d \in subscribed
    <3>1. \A i \in 1..Len(queue') : queue'[i] \in Fine
      BY <1>3, <1>4, <2>4, <2>5, <2>7, AppendProperties
    <3>2. QED
      BY <1>5, <3>1
  <2>8. QED
    BY <2>3, <2>6, <2>7
<1>7. CASE Break
  <2>1. queue' = Append(queue, Disconnected) /\ Disconnected \in Messages \cup {Disconnected}
    BY <1>7 DEF Break
  <2>2. Disconnected \in Fine
    OBVIOUS
  <2> HIDE DEF Fine
  <2>3. \A i \in 1..Len(queue') : queue'[i] \in Fine
    BY <1>3, <1>4, <2>1, <2>2, AppendProperties
  <2>4. QED
    BY <1>5, <2>3
<1>8. CASE \E m \in Messages : SkipCovered(m) \/ Receive(m)
  <2>1. queue # <<>> /\ queue' = Tail(queue)
    BY <1>8 DEF SkipCovered, Receive, Receiving
  <2>2. /\ Len(queue') = Len(queue) - 1
        /\ \A i \in 1..Len(queue') : queue'[i] = queue[i + 1]
    BY <1>3, <2>1, HeadTailProperties
  <2>3. Len(queue) \in Nat
    BY <1>3
  <2>4. \A i \in 1..Len(queue') : i + 1 \in 1..Len(queue)
    BY <2>2, <2>3
  <2> HIDE DEF Fine
  <2>5. QED
    BY <1>4, <1>5, <2>2, <2>4
<1>9. CASE Connect
  <2>1. PICK rows \in SetToSeqs(RowsOf(subscribed)) : queue' = rows
    BY <1>9 DEF Connect
  <2>2. rows \in Seq(RowsOf(subscribed))
    BY RowsAreSequences DEF RowsOf
  <2>3. \A i \in 1..Len(rows) : rows[i] \in RowsOf(subscribed)
    BY <2>2, ElementOfSeq
  <2>4. \A m \in RowsOf(subscribed) : m \in Fine
    BY <1>1 DEF RowsOf, Known
  <2> HIDE DEF Fine
  <2>5. QED
    BY <1>5, <2>1, <2>3, <2>4
<1>10. CASE queue' = <<>>
  BY <1>10 DEF QueueKnown
<1>11. CASE UNCHANGED queue
  BY <1>4, <1>5, <1>11
<1>12. QED
  <2>1. \A p \in sent : p[1][1] \in Domains
    BY MessageParts DEF TypeOK, Posts
  <2>2. QED
    BY <1>2, <1>6, <1>7, <1>8, <1>9, <1>10, <1>11, <2>1
       DEF Next, Environment, Attach, HandleMessage, vars, PostMessage, ReplyArrives,
           ReplyIsLost, JoinFails, CursorFailure, Crash, ReadBaseline, SeedCursor,
           StartReceiving, ReceiveDisconnected, TurnEnds, ModelNotified, Post, PostFails,
           SaveCursor, SaveAndLeave, Restart, Reconnect

\* A message with a reply stays out of reach of a second turn.
LEMMA ShieldStays ==
    ASSUME ReplyInv, changes' = 0, ~LateReplies, [Next]_vars,
           NEW m \in Messages, NEW n \in Nat, Spoken(m, n)
    PROVE  Shielded(m)'
<1> USE DEF Goto, server, connection, task, atHand, history, faults
<1>1. TypeOK /\ ChannelInv /\ Answered(m)
  BY DEF ReplyInv, ChannelInv
<1>2. /\ m[1] \in Domains /\ m[2] \in Nat /\ m[2] > 0
      /\ cursor[m[1]] \in Nat /\ cached[m[1]] \in Nat /\ baseline[m[1]] \in Nat
      /\ Len(board[m[1]]) \in Nat
  <2>1. m[1] \in Domains /\ m[2] \in Nat /\ m[2] > 0
    BY MessageParts, TidepoolAssumption
  <2>2. cursor[m[1]] \in Nat /\ cached[m[1]] \in Nat /\ baseline[m[1]] \in Nat
    BY <1>1, <2>1, TidepoolAssumption DEF TypeOK
  <2>3. Len(board[m[1]]) \in Nat
    BY <1>1, <2>1 DEF TypeOK
  <2>4. QED
    BY <2>1, <2>2, <2>3
<1>3. /\ Known(m) /\ Shielded(m)
      /\ <<m, n>> \in replies => m[2] < Len(board[m[1]])
  BY <1>1 DEF Answered
<1>4. \A d \in Domains : ~Subscribe(d) /\ ~Unsubscribe(d)
  BY <1>1 DEF Subscribe, Unsubscribe, TypeOK
<1>5. \A p \in sent : p[1][1] \in Domains
  BY <1>1, MessageParts DEF TypeOK, Posts
<1>6. CASE Covered(m)
  <2>1. cursor'[m[1]] >= cursor[m[1]]
    BY <1>1, <1>2, CursorStep
  <2>2. TypeOK'
    BY <1>1, TypeStep DEF ChannelInv
  <2>3. cursor'[m[1]] \in Nat
    BY <1>2, <2>2, TidepoolAssumption DEF TypeOK
  <2>4. QED
    BY <1>2, <1>6, <2>1, <2>3 DEF Covered, Shielded
<1>7. CASE current = m /\ pc \in {"posting", "failing", "saving", "leaving"}
  <2>1. CASE SaveCursor \/ SaveAndLeave
    <3>1. cursor' = [cursor EXCEPT ![m[1]] = m[2]]
      BY <1>7, <2>1 DEF SaveCursor, SaveAndLeave, Upsert
    <3>2. cursor'[m[1]] = m[2]
      BY <1>1, <1>2, <3>1 DEF TypeOK
    <3>3. QED
      BY <1>2, <3>2 DEF Shielded, Covered
  <2>2. CASE Post \/ PostFails
    BY <1>7, <2>2 DEF Post, PostFails, NextPost, Posting, Shielded
  <2>3. CASE \/ UNCHANGED <<current, pc>>
             \/ pc' \in {"down", "resting"}
    BY <1>7, <2>3 DEF Shielded
  <2>4. QED
    BY <1>4, <1>5, <1>7, <2>1, <2>2, <2>3
       DEF Next, Environment, Attach, HandleMessage, vars, PostMessage, ReplyArrives,
           ReplyIsLost, Break, JoinFails, CursorFailure, Crash, Connect, ReadBaseline,
           SeedCursor, StartReceiving, SkipCovered, Receive, Receiving,
           ReceiveDisconnected, TurnEnds, ModelNotified, Restart, Reconnect
<1>8. CASE pc \in {"down", "resting"}
  <2>1. CASE Connect
    <3>1. <<m, n>> \in replies
      BY <2>1 DEF Connect, Spoken
    <3>2. m[2] < Len(board[m[1]]) /\ m[1] \in subscribed
      BY <1>2, <1>3, <3>1 DEF Known
    <3>3. cached'[m[1]] = Len(board[m[1]]) /\ pc' = "joining"
      BY <1>2, <2>1, <3>2 DEF Connect
    <3>4. QED
      BY <1>2, <3>2, <3>3 DEF Shielded
  <2>2. CASE pc' \in {"down", "resting"}
    BY <2>2 DEF Shielded
  <2>3. QED
    BY <1>4, <1>5, <1>8, <2>1, <2>2
       DEF Next, Environment, Attach, HandleMessage, vars, PostMessage, ReplyArrives,
           ReplyIsLost, Break, JoinFails, CursorFailure, Crash, ReadBaseline,
           SeedCursor, StartReceiving, SkipCovered, Receive, Receiving, ReceiveDisconnected,
           TurnEnds, ModelNotified, Post, PostFails, Posting, SaveCursor, SaveAndLeave,
           Restart, Reconnect
<1>9. CASE pc = "joining" /\ cached[m[1]] > m[2]
  <2>1. CASE \E d \in Domains, author \in {"self", "other"} : Arrive(d, author) /\ UNCHANGED pc
    <3>1. PICK d \in Domains, author \in {"self", "other"} : Arrive(d, author) /\ UNCHANGED pc
      BY <2>1
    <3>2. \/ cached' = cached
          \/ cached' = [cached EXCEPT ![d] = Len(board[d]) + 1]
      BY <3>1 DEF Arrive
    <3>3. cached'[m[1]] = cached[m[1]] \/ cached'[m[1]] = Len(board[m[1]]) + 1
      BY <1>1, <1>2, <3>2 DEF TypeOK
    <3>4. m[2] <= Len(board[m[1]])
      BY <1>3 DEF Known
    <3>5. cached'[m[1]] > m[2]
      BY <1>2, <1>9, <3>3, <3>4
    <3>6. QED
      BY <1>9, <3>1, <3>5 DEF Shielded
  <2>2. CASE ReadBaseline
    BY <1>9, <2>2 DEF Shielded, ReadBaseline
  <2>3. CASE UNCHANGED <<cached, pc>> \/ pc' \in {"down", "resting"}
    BY <1>9, <2>3 DEF Shielded
  <2>4. QED
    BY <1>4, <1>5, <1>9, <2>1, <2>2, <2>3
       DEF Next, Environment, Attach, HandleMessage, vars, PostMessage, ReplyArrives,
           ReplyIsLost, Break, JoinFails, CursorFailure, Crash, Connect,
           SeedCursor, StartReceiving, SkipCovered, Receive, Receiving, ReceiveDisconnected,
           TurnEnds, ModelNotified, Post, PostFails, Posting, SaveCursor, SaveAndLeave,
           Restart, Reconnect
<1>10. CASE pc = "seeding" /\ baseline[m[1]] > m[2]
  <2>1. CASE \E d \in Domains : SeedCursor(d)
    <3>1. PICK d \in Domains : SeedCursor(d)
      BY <2>1
    <3>2. CASE d = m[1]
      <4>1. \/ cursor'[d] = cursor[d] /\ cursor[d] >= baseline[d]
            \/ cursor'[d] = baseline[d] - 1
        BY <1>1, <3>1 DEF SeedCursor, TypeOK
      <4>2. cursor'[m[1]] >= m[2]
        BY <1>2, <1>10, <3>2, <4>1
      <4>3. QED
        BY <1>2, <4>1, <4>2, <3>2 DEF Shielded, Covered
    <3>3. CASE d # m[1]
      <4>1. baseline'[m[1]] = baseline[m[1]] /\ pc' = pc
        BY <1>1, <1>2, <3>1, <3>3 DEF SeedCursor, TypeOK
      <4>2. QED
        BY <1>10, <4>1 DEF Shielded
    <3>4. QED
      BY <3>2, <3>3
  <2>2. CASE StartReceiving
    BY <1>2, <1>10, <2>2 DEF StartReceiving, Nothing
  <2>3. CASE UNCHANGED <<baseline, pc>> \/ pc' \in {"down", "resting"}
    BY <1>10, <2>3 DEF Shielded
  <2>4. QED
    BY <1>4, <1>5, <1>10, <2>1, <2>2, <2>3
       DEF Next, Environment, Attach, HandleMessage, vars, PostMessage, ReplyArrives,
           ReplyIsLost, Break, JoinFails, CursorFailure, Crash, Connect, ReadBaseline,
           SkipCovered, Receive, Receiving, ReceiveDisconnected,
           TurnEnds, ModelNotified, Post, PostFails, Posting, SaveCursor, SaveAndLeave,
           Restart, Reconnect
<1>11. QED
  BY <1>3, <1>6, <1>7, <1>8, <1>9, <1>10 DEF Shielded

\* A place in a domain, and the domain's length, are numbers.
LEMMA PlaceType ==
    ASSUME TypeOK, NEW m \in Messages
    PROVE  m[2] \in Nat /\ Len(board[m[1]]) \in Nat
<1>1. m[1] \in Domains /\ m[2] \in Nat
  BY MessageParts, TidepoolAssumption
<1>2. Len(board[m[1]]) \in Nat
  BY <1>1 DEF TypeOK
<1>3. QED
  BY <1>1, <1>2

\* A message that is about to be handled is not shielded: nothing was posted.
LEMMA UnshieldedStart ==
    ASSUME ReplyInv, NEW m \in Messages, Receive(m), NEW n \in Nat
    PROVE  ~Spoken(m, n)
<1>1. m[1] \in Domains /\ m[2] \in Nat /\ cursor[m[1]] \in Nat
  BY MessageParts, TidepoolAssumption DEF ReplyInv, ChannelInv, TypeOK
<1>2. ~Covered(m) /\ pc = "receiving"
  BY <1>1 DEF Receive, Receiving, Covered
<1>3. QED
  BY <1>2 DEF ReplyInv, Answered, Shielded

\* Replies are posted for the message being handled, to which no other turn
\* has replied, as it would be covered otherwise; they join the domain behind
\* that message.
LEMMA AnsweredStep ==
    ASSUME ReplyInv, changes' = 0, ~LateReplies, [Next]_vars, NEW m \in Messages
    PROVE  Answered(m)'
<1> USE DEF server, history
<1>1. TypeOK /\ ChannelInv /\ Answered(m)
  BY DEF ReplyInv, ChannelInv
<1>2. m[1] \in Domains /\ \A p \in sent : p \in Posts /\ p[1] \in Messages /\ p[1][1] \in Domains
  BY <1>1, MessageParts DEF TypeOK, Posts
<1>3. Known(m) => Known(m)'
  BY <1>1, KnownStays
<1>4. \A n \in Nat : Spoken(m, n) => Shielded(m)'
  BY ShieldStays
<1>5. /\ m[2] \in Nat /\ Len(board[m[1]]) \in Nat
      /\ Len(board'[m[1]]) \in Nat /\ Len(board'[m[1]]) >= Len(board[m[1]])
  <2>1. m[2] \in Nat /\ Len(board[m[1]]) \in Nat
    BY <1>1, PlaceType
  <2>2. \/ board' = board
        \/ \E d \in Domains, author \in {"self", "other"} : Arrive(d, author)
    BY <1>2 DEF Next, Environment, Attach, HandleMessage, vars, PostMessage, Subscribe,
         Unsubscribe, ReplyArrives, ReplyIsLost, Break, JoinFails, CursorFailure, Crash,
         Connect, ReadBaseline, SeedCursor, StartReceiving, SkipCovered, Receive,
         ReceiveDisconnected, TurnEnds, ModelNotified, Post, PostFails, SaveCursor,
         SaveAndLeave, Restart
  <2>3. QED
    BY <1>1, <1>2, <2>1, <2>2, ArriveType
<1>6. CASE \E k \in Messages : Receive(k)
  <2>1. PICK k \in Messages : Receive(k)
    BY <1>6
  <2>2. UNCHANGED <<board, sent, replies>>
    BY <2>1 DEF Receive
  <2>3. handled'[m] = handled[m] \/ k = m
    BY <1>1, <2>1 DEF Receive, TypeOK
  <2>4. \A n \in Nat : Spoken(m, n)' <=> Spoken(m, n)
    BY <2>2 DEF Spoken
  <2>5. QED
    BY <1>1, <1>3, <1>4, <2>1, <2>2, <2>3, <2>4, UnshieldedStart DEF Answered
<1>7. CASE \E p \in sent : ReplyArrives(p)
  <2>1. PICK p \in sent : ReplyArrives(p)
    BY <1>7
  <2>2. /\ Arrive(p[1][1], "self") /\ p[1][1] \in Domains /\ p \in Posts
        /\ sent' = sent \ {p} /\ handled' = handled
        /\ replies' = replies \cup {<<p[1], p[2]>>}
    BY <1>2, <2>1 DEF ReplyArrives
  <2>3. p = <<p[1], p[2], p[3]>> /\ p[2] \in Nat /\ p[3] \in 1..MaxReplies
    BY <2>2 DEF Posts
  <2>4. \A n \in Nat : Spoken(m, n)' => Spoken(m, n)
    BY <2>1, <2>2, <2>3 DEF Spoken
  <2>5. p[1] = m => Len(board'[m[1]]) = Len(board[m[1]]) + 1
    BY <1>1, <2>2, ArriveType
  <2>6. \A n \in Nat : <<m, n>> \in replies' => <<m, n>> \in replies \/ p[1] = m
    BY <2>2
  <2>7. ASSUME NEW n \in Nat, Spoken(m, n)'
        PROVE  /\ Known(m)' /\ n = handled'[m] /\ Shielded(m)'
               /\ <<m, n>> \in replies' => m[2] < Len(board'[m[1]])
    <3>1. /\ Spoken(m, n) /\ Known(m) /\ n = handled[m]
          /\ <<m, n>> \in replies => m[2] < Len(board[m[1]])
      BY <1>1, <2>4, <2>7 DEF Answered
    <3>2. m[2] <= Len(board[m[1]])
      BY <3>1 DEF Known
    <3>3. QED
      BY <1>3, <1>4, <1>5, <2>2, <2>5, <2>6, <3>1, <3>2
  <2>8. QED
    BY <2>7 DEF Answered
<1>8. CASE Post
  <2>1. /\ pc \in Posting /\ pc' \in {"posting", "failing", "saving", "leaving"}
        /\ UNCHANGED <<board, replies, cursor, current, handled>>
        /\ sent' = sent \cup {<<current, handled[current], unposted>>}
    BY <1>8 DEF Post, Goto, NextPost, Posting
  <2>2. current \in Messages /\ Known(current) /\ handled[current] \in Nat
    BY <1>1, <2>1 DEF ReplyInv, ChannelInv, TypeOK, Handling, Posting
  <2>3. \A n \in Nat : Spoken(m, n)' => Spoken(m, n) \/ (m = current /\ n = handled[m])
    BY <2>1 DEF Spoken
  <2>4. current = m => Shielded(m)'
    BY <2>1 DEF Shielded
  <2>5. ASSUME NEW n \in Nat, Spoken(m, n)'
        PROVE  /\ Known(m)' /\ n = handled'[m] /\ Shielded(m)'
               /\ <<m, n>> \in replies' => m[2] < Len(board'[m[1]])
    <3>1. CASE Spoken(m, n)
      BY <1>1, <1>3, <1>4, <2>1, <3>1 DEF Answered
    <3>2. CASE m = current /\ n = handled[m]
      <4>1. <<m, n>> \in replies => Spoken(m, n)
        BY DEF Spoken
      <4>2. QED
        BY <1>1, <1>3, <2>1, <2>2, <2>4, <3>2, <4>1 DEF Answered
    <3>3. QED
      BY <2>3, <2>5, <3>1, <3>2
  <2>6. QED
    BY <2>5 DEF Answered
<1>9. CASE UNCHANGED <<replies, handled>> /\ sent' \subseteq sent
  <2>1. \A n \in Nat : Spoken(m, n)' => Spoken(m, n)
    BY <1>9 DEF Spoken
  <2>2. QED
    BY <1>1, <1>3, <1>4, <1>5, <1>9, <2>1 DEF Answered
<1>10. QED
  BY <1>6, <1>7, <1>8, <1>9
     DEF Next, Environment, Attach, HandleMessage, vars, PostMessage, Subscribe,
         Unsubscribe, ReplyIsLost, Break, JoinFails, CursorFailure, Crash, Connect,
         ReadBaseline, SeedCursor, StartReceiving, SkipCovered, ReceiveDisconnected,
         TurnEnds, ModelNotified, PostFails, SaveCursor, SaveAndLeave, Restart

\* Every step keeps the invariant behind NobodyRepliedToTwice.
LEMMA ReplyStep ==
    ASSUME ReplyInv, changes' = 0, ~LateReplies, [Next]_vars
    PROVE  ReplyInv'
<1>1. ChannelInv' /\ TypeOK' /\ TypeOK
  BY ChannelStep DEF ReplyInv, ChannelInv
<1>2. QueueKnown'
  BY <1>1, QueueStep DEF ReplyInv
<1>3. \A m \in Messages : Answered(m)'
  BY AnsweredStep
<1>4. pc' \in Handling => Known(current)'
  <2>1. \A m \in Messages : Known(m) => m[1] \in subscribed' /\ m[2] <= Len(board'[m[1]])
    BY <1>1, KnownStays DEF Known
  <2>2. CASE UNCHANGED current /\ pc \in Handling
    <3>1. current \in Messages /\ Known(current)
      BY <2>2 DEF ReplyInv, ChannelInv
    <3>2. QED
      BY <2>1, <2>2, <3>1 DEF Known
  <2>3. CASE \E m \in Messages : Receive(m)
    <3>1. PICK m \in Messages : Receive(m)
      BY <2>3
    <3>2. queue # <<>> /\ m = queue[1] /\ current' = m /\ m # Disconnected
      BY <3>1, TidepoolAssumption DEF Receive, Receiving
    <3>3. Len(queue) \in Nat \ {0}
      BY <1>1, <3>2, EmptySeq DEF TypeOK
    <3>4. Known(m)
      BY <3>2, <3>3 DEF ReplyInv, QueueKnown
    <3>5. QED
      BY <2>1, <3>2, <3>4 DEF Known
  <2>4. CASE pc' \notin Handling
    BY <2>4
  <2>5. QED
    BY <2>2, <2>3, <2>4
       DEF Next, Environment, Attach, HandleMessage, vars, PostMessage, Subscribe,
           Unsubscribe, ReplyArrives, ReplyIsLost, Break, JoinFails, CursorFailure,
           Crash, Connect, ReadBaseline, SeedCursor, StartReceiving, SkipCovered,
           ReceiveDisconnected, TurnEnds, ModelNotified, Post, PostFails, SaveCursor,
           SaveAndLeave, Restart, Reconnect, Handling, Posting, Goto, task, atHand
<1>5. QED
  BY <1>1, <1>2, <1>3, <1>4 DEF ReplyInv

\* Changes of the subscriptions are counted, and never uncounted.
LEMMA ChangesCounted ==
    ASSUME TypeOK, [Next]_vars, changes' = 0
    PROVE  changes = 0
<1>1. changes \in Nat
  BY TidepoolAssumption DEF TypeOK
<1>2. changes' = changes \/ changes' = changes + 1
  BY DEF Next, Environment, Attach, HandleMessage, vars, PostMessage, Subscribe,
         Unsubscribe, ReplyArrives, ReplyIsLost, Break, JoinFails, CursorFailure,
         Crash, Connect, ReadBaseline, SeedCursor, StartReceiving, SkipCovered, Receive,
         ReceiveDisconnected, TurnEnds, ModelNotified, Post, PostFails, SaveCursor,
         SaveAndLeave, Restart
<1>3. QED
  BY <1>1, <1>2

\* As long as subscriptions stay as they are, and when the server has a reply
\* before it serves the next connection, the replies to a message are of one
\* turn: also after a crash, and when one was sent and no cursor saved.
THEOREM NobodyRepliedToTwice ==
    ~LateReplies => (Spec => []RepliedOnce)
<1> SUFFICES ASSUME ~LateReplies
             PROVE  Spec => []RepliedOnce
  OBVIOUS
<1> DEFINE Inv == ChannelInv /\ (changes = 0 => ReplyInv)
<1>1. Init => Inv
  <2>1. Init => ChannelInv
    BY ChannelInit
  <2>2. Init => QueueKnown /\ \A m \in Messages : Answered(m)
    BY DEF Init, QueueKnown, Answered, Spoken
  <2>3. Init => pc \notin Handling
    BY DEF Init, Handling
  <2>4. QED
    BY <2>1, <2>2, <2>3 DEF ReplyInv
<1>2. Inv /\ [Next]_vars => Inv'
  <2> SUFFICES ASSUME Inv, [Next]_vars
               PROVE  Inv'
    OBVIOUS
  <2>1. TypeOK /\ ChannelInv'
    BY ChannelStep DEF ChannelInv
  <2>2. ASSUME changes' = 0 PROVE ReplyInv'
    BY <2>1, <2>2, ChangesCounted, ReplyStep
  <2>3. QED
    BY <2>1, <2>2
<1>3. Inv => RepliedOnce
  <2> SUFFICES ASSUME ReplyInv, NEW r \in replies, NEW q \in replies, r[1] = q[1]
               PROVE  r[2] = q[2]
    BY DEF RepliedOnce
  <2>1. \A t \in replies : t[1] \in Messages /\ t[2] \in Nat /\ t = <<t[1], t[2]>>
    BY DEF ReplyInv, ChannelInv, TypeOK
  <2>2. ASSUME NEW t \in replies PROVE t[2] = handled[t[1]]
    <3>1. Answered(t[1]) /\ <<t[1], t[2]>> \in replies
      BY <2>1 DEF ReplyInv
    <3>2. QED
      BY <2>1, <3>1 DEF Answered, Spoken
  <2>3. QED
    BY <2>2
<1>4. QED
  <2> HIDE DEF Inv
  <2>1. QED
    BY <1>1, <1>2, <1>3, PTL DEF Spec

(***************************************************************************)
(* What a cursor steps over.                                               *)
(*                                                                         *)
(* The rows of a snapshot come in any order, so that the queue as a whole  *)
(* is in none.  What is in order is the part of it above the floor: the    *)
(* cursor as it is, or as it will be once its domain is seeded.  The       *)
(* baseline is read after the snapshot came, so that at most one row of    *)
(* the snapshot is above the floor, and what arrives later arrives in      *)
(* order.                                                                  *)
(***************************************************************************)

Attached == pc \notin {"down", "resting"}

Floor(d) ==
    IF pc = "joining" THEN cached[d] - 1
    ELSE IF pc = "seeding" /\ baseline[d] > cursor[d] THEN baseline[d] - 1
    ELSE cursor[d]

Waiting(m) == \E i \in 1..Len(queue) : queue[i] = m
InHand(m) == pc \in Handling /\ current = m

\* The cache holds what is queued, and all of a domain while the link is up.
Cached(d) == cached[d] <= Len(board[d]) /\ (link = "up" => cached[d] = Len(board[d]))
Bounded(m) == Waiting(m) \/ InHand(m) => m[2] <= cached[m[1]]

\* Nothing above the floor is missing, and nothing above it comes too early.
Complete(m) ==
    m[2] > Floor(m[1]) /\ m[2] <= cached[m[1]] /\ Author(m) = "other" => Waiting(m) \/ InHand(m)
Ordered(m, n) ==
    m[1] = n[1] /\ n[2] > Floor(n[1]) =>
        /\ \A i, j \in 1..Len(queue) : i < j /\ queue[i] = m /\ queue[j] = n => m[2] < n[2]
        /\ InHand(m) /\ Waiting(n) => m[2] < n[2]

Steady == {m \in Messages : m[1] \in steady}

DeliveryInv ==
    /\ steady \subseteq subscribed
    /\ Attached => /\ \A d \in steady : Cached(d)
                   /\ \A m \in Steady : Bounded(m) /\ Complete(m)
                   /\ \A m, n \in Steady : Ordered(m, n)

-----------------------------------------------------------------------------
\* A message is known by its domain and its number.
LEMMA SameMessage ==
    ASSUME NEW m \in Messages, NEW n \in Messages, m[1] = n[1], m[2] = n[2]
    PROVE  m = n
BY MessageParts

\* The numbers that the state compares are integers.
LEMMA Numbers ==
    ASSUME TypeOK
    PROVE  /\ \A d \in Domains : /\ cached[d] \in Nat /\ cursor[d] \in Nat /\ baseline[d] \in Nat
                                 /\ Len(board[d]) \in Nat /\ Floor(d) \in Int
           /\ \A m \in Messages : m[1] \in Domains /\ m[2] \in Nat \ {0}
           /\ Len(queue) \in Nat
<1>1. \A d \in Domains : cached[d] \in Nat /\ cursor[d] \in Nat /\ baseline[d] \in Nat
  BY TidepoolAssumption DEF TypeOK
<1>2. \A d \in Domains : Len(board[d]) \in Nat
  BY DEF TypeOK
<1>3. \A d \in Domains : Floor(d) \in Int
  BY <1>1 DEF Floor
<1>4. \A m \in Messages : m[1] \in Domains /\ m[2] \in Nat \ {0}
  BY MessageParts, TidepoolAssumption
<1>5. QED
  BY <1>1, <1>2, <1>3, <1>4 DEF TypeOK

\* What a sequence holds when an element joins it.
LEMMA JoinedEnd ==
    ASSUME NEW S, NEW q \in Seq(S), NEW e \in S
    PROVE  /\ Len(Append(q, e)) = Len(q) + 1
           /\ Len(q) + 1 \in 1..Len(Append(q, e))
           /\ \A k \in 1..Len(q) : k \in 1..Len(Append(q, e)) /\ Append(q, e)[k] = q[k]
           /\ \A k \in 1..Len(Append(q, e)) : k \in 1..Len(q) \/ k = Len(q) + 1
           /\ Append(q, e)[Len(q) + 1] = e
OBVIOUS

\* A set that is laid out as a sequence is there as a whole, each element once.
LEMMA SnapshotRows ==
    ASSUME NEW S \in SUBSET Messages, NEW rows \in SetToSeqs(S)
    PROVE  /\ \A k \in 1..Len(rows) : rows[k] \in S
           /\ \A k, l \in 1..Len(rows) : rows[k] = rows[l] => k = l
           /\ \A m \in S : \E k \in 1..Len(rows) : rows[k] = m
<1>1. IsFiniteSet(Messages)
  <2>1. IsFiniteSet(1..MaxPosts)
    BY TidepoolAssumption, FS_Interval
  <2>2. QED
    BY <2>1, TidepoolAssumption, FS_Product DEF Messages
<1>2. IsFiniteSet(S) /\ Cardinality(S) \in Nat
  BY <1>1, FS_Subset, FS_CardinalityType
<1>3. /\ rows \in [1..Cardinality(S) -> S]
      /\ \A k, l \in 1..Cardinality(S) : k # l => rows[k] # rows[l]
  BY DEF SetToSeqs
<1>4. Len(rows) = Cardinality(S)
  BY <1>2, <1>3, IsASeq
<1>5. rows \in Injection(1..Cardinality(S), S)
  BY <1>3 DEF Injection, IsInjective
<1>6. rows \in Surjection(1..Cardinality(S), S)
  <2>1. IsFiniteSet(1..Cardinality(S)) /\ Cardinality(1..Cardinality(S)) = Cardinality(S)
    BY <1>2, FS_Interval
  <2>2. QED
    BY <1>2, <1>5, <2>1, FS_Injection
<1>7. \A m \in S : \E k \in 1..Cardinality(S) : rows[k] = m
  BY <1>6 DEF Surjection
<1>8. QED
  BY <1>3, <1>4, <1>7

\* A step is calm when it adds nothing of a steady domain to the queue, takes
\* nothing off it, and lowers no floor.
LEMMA CalmStep ==
    ASSUME TypeOK, TypeOK', DeliveryInv, Attached, steady' \subseteq steady,
           steady' \subseteq subscribed',
           \A d \in steady' : Cached(d)' /\ cached'[d] = cached[d] /\ Floor(d)' >= Floor(d),
           \A m \in Steady' : m[2] <= cached[m[1]] => Author(m)' = Author(m),
           \A i \in 1..Len(queue) : i \in 1..Len(queue') /\ queue'[i] = queue[i],
           \A i \in 1..Len(queue') : i \in 1..Len(queue) \/ queue'[i] \notin Steady',
           \A m \in Steady' : InHand(m)' <=> InHand(m)
    PROVE  DeliveryInv'
<1>1. Steady' \subseteq Steady
  BY DEF Steady
<1>2. \A m \in Steady' : Waiting(m)' <=> Waiting(m)
  BY DEF Waiting
<1>3. \A m \in Steady' : m[1] \in Domains /\ m[1] \in steady' /\ m[2] \in Nat
  BY Numbers DEF Steady
<1>4. \A d \in steady' : d \in Domains /\ Floor(d) \in Int /\ Floor(d)' \in Int /\ cached[d] \in Nat
  <2>1. steady' \subseteq Domains
    BY DEF TypeOK
  <2>2. \A d \in Domains : Floor(d)' \in Int
    <3>1. \A d \in Domains : cached'[d] \in Nat /\ cursor'[d] \in Nat /\ baseline'[d] \in Nat
      BY TidepoolAssumption DEF TypeOK
    <3>2. QED
      BY <3>1 DEF Floor
  <2>3. QED
    BY <2>1, <2>2, Numbers
<1>5. ASSUME NEW m \in Steady' PROVE Bounded(m)'
  <2>1. Bounded(m)
    BY <1>1, <1>5 DEF DeliveryInv
  <2>2. QED
    BY <1>2, <1>3, <1>5, <2>1 DEF Bounded
<1>6. ASSUME NEW m \in Steady' PROVE Complete(m)'
  <2>1. Complete(m)
    BY <1>1, <1>6 DEF DeliveryInv
  <2>2. SUFFICES ASSUME m[2] > Floor(m[1])', m[2] <= cached'[m[1]], Author(m)' = "other"
                 PROVE  Waiting(m)' \/ InHand(m)'
    BY DEF Complete
  <2>3. m[2] > Floor(m[1]) /\ m[2] <= cached[m[1]] /\ Author(m) = "other"
    BY <1>3, <1>4, <1>6, <2>2
  <2>4. QED
    BY <1>2, <1>6, <2>1, <2>3 DEF Complete
<1>7. ASSUME NEW m \in Steady', NEW n \in Steady' PROVE Ordered(m, n)'
  <2>1. Ordered(m, n)
    BY <1>1, <1>7 DEF DeliveryInv
  <2>2. SUFFICES ASSUME m[1] = n[1], n[2] > Floor(n[1])'
                 PROVE  /\ \A i, j \in 1..Len(queue') :
                               i < j /\ queue'[i] = m /\ queue'[j] = n => m[2] < n[2]
                        /\ InHand(m)' /\ Waiting(n)' => m[2] < n[2]
    BY DEF Ordered
  <2>3. n[2] > Floor(n[1])
    BY <1>3, <1>4, <1>7, <2>2
  <2>4. QED
    BY <1>2, <1>7, <2>1, <2>2, <2>3 DEF Ordered
<1>8. QED
  BY <1>5, <1>6, <1>7 DEF DeliveryInv

\* While the channel is not attached there is nothing to keep.
LEMMA DetachedStep ==
    ASSUME TypeOK, DeliveryInv, [Next]_vars, pc' \in {"down", "resting"}
    PROVE  DeliveryInv'
<1>1. steady' \subseteq subscribed'
  BY DEF DeliveryInv, Next, Environment, Attach, HandleMessage, vars, server, connection, task,
         history, faults, Arrive, PostMessage, Subscribe, Unsubscribe, ReplyArrives, ReplyIsLost,
         Break, JoinFails, CursorFailure, Crash, Connect, ReadBaseline, SeedCursor,
         StartReceiving, SkipCovered, Receive, ReceiveDisconnected, TurnEnds, ModelNotified,
         Post, PostFails, SaveCursor, SaveAndLeave, Restart, Reconnect, TypeOK
<1>2. QED
  BY <1>1 DEF DeliveryInv, Attached

\* A snapshot has each row once, so that one of a domain at most is the newest.
LEMMA ConnectStep ==
    ASSUME TypeOK, TypeOK', Connect
    PROVE  DeliveryInv'
<1>1. PICK rows \in SetToSeqs(RowsOf(subscribed)) : queue' = rows
  BY DEF Connect
<1>2. /\ board' = board /\ subscribed' = subscribed /\ steady' = subscribed
      /\ pc' = "joining" /\ subscribed \subseteq Domains
      /\ cached' = [d \in Domains |-> IF d \in subscribed THEN Len(board[d]) ELSE 0]
  BY DEF Connect, Goto, server, TypeOK
<1>3. /\ \A k \in 1..Len(rows) : rows[k] \in RowsOf(subscribed)
      /\ \A k, l \in 1..Len(rows) : rows[k] = rows[l] => k = l
      /\ \A m \in RowsOf(subscribed) : \E k \in 1..Len(rows) : rows[k] = m
  BY SnapshotRows DEF RowsOf
<1>4. \A d \in subscribed : cached'[d] = Len(board[d]) /\ Len(board[d]) \in Nat
  BY <1>2 DEF TypeOK
<1>5. \A m \in Steady' : m \in Messages /\ m[1] \in subscribed /\ m[2] \in Nat
  BY <1>2, Numbers DEF Steady
<1>6. \A m \in Steady' : ~InHand(m)' /\ Floor(m[1])' = Len(board[m[1]]) - 1
  BY <1>2, <1>4, <1>5 DEF InHand, Handling, Floor
<1>7. ASSUME NEW m \in Steady' PROVE Bounded(m)' /\ Complete(m)'
  <2>1. Waiting(m)' <=> m \in RowsOf(subscribed)
    BY <1>1, <1>3 DEF Waiting
  <2>2. m \in RowsOf(subscribed) <=> m[2] <= Len(board[m[1]]) /\ Emitted(Author(m))
    BY <1>5, <1>7 DEF RowsOf
  <2>3. Author(m)' = Author(m) /\ (Author(m) = "other" => Emitted(Author(m)))
    BY <1>2 DEF Author, Emitted
  <2>4. QED
    BY <1>4, <1>5, <1>6, <1>7, <2>1, <2>2, <2>3 DEF Bounded, Complete
<1>8. ASSUME NEW m \in Steady', NEW n \in Steady' PROVE Ordered(m, n)'
  <2> SUFFICES ASSUME m[1] = n[1], n[2] > Floor(n[1])', NEW k \in 1..Len(rows),
                      NEW l \in 1..Len(rows), k < l, rows[k] = m, rows[l] = n
               PROVE  m[2] < n[2]
    BY <1>1, <1>6, <1>8 DEF Ordered
  <2>1. m # n
    BY <1>3
  <2>2. m[2] <= Len(board[n[1]]) /\ n[2] <= Len(board[n[1]])
    BY <1>3 DEF RowsOf
  <2>3. n[2] = Len(board[n[1]])
    BY <1>4, <1>5, <1>6, <1>8, <2>2
  <2>4. m[2] # n[2]
    BY <1>5, <1>8, <2>1, SameMessage
  <2>5. QED
    BY <1>4, <1>5, <1>8, <2>2, <2>3, <2>4
<1>9. \A d \in steady' : Cached(d)'
  BY <1>2, <1>4 DEF Cached
<1>10. QED
  BY <1>2, <1>7, <1>8, <1>9 DEF DeliveryInv

\* A row that arrives is the newest of its domain, in the cache and the queue.
LEMMA ArriveStep ==
    ASSUME TypeOK, TypeOK', DeliveryInv, Attached, NEW d \in Domains,
           NEW author \in {"self", "other"}, Arrive(d, author),
           UNCHANGED <<pc, current, baseline, cursor, steady>>
    PROVE  DeliveryInv'
<1> DEFINE new == <<d, Len(board[d]) + 1>>
<1>1. /\ board' = [board EXCEPT ![d] = Append(board[d], author)]
      /\ subscribed' = subscribed /\ link' = link
      /\ Len(board[d]) + 1 <= MaxPosts
  BY DEF Arrive
<1>2. new \in Messages /\ new[1] = d /\ new[2] = Len(board[d]) + 1
  BY <1>1, Numbers, MessageMade, TidepoolAssumption
<1>3. /\ \A e \in Domains : e # d => board'[e] = board[e]
      /\ Len(board'[d]) = Len(board[d]) + 1
      /\ \A s \in 1..Len(board[d]) : board'[d][s] = board[d][s]
      /\ board'[d][Len(board[d]) + 1] = author
  BY <1>1, JoinedEnd DEF TypeOK
<1>4. \A m \in Steady : m \in Messages /\ m[1] \in Domains /\ m[2] \in Nat \ {0} /\ m[1] \in steady
  BY Numbers DEF Steady
<1>5. \A e \in steady : /\ e \in Domains /\ cached[e] <= Len(board[e]) /\ Len(board[e]) \in Nat
                        /\ cached[e] \in Nat /\ Floor(e) \in Int
                        /\ (link = "up" => cached[e] = Len(board[e]))
  BY Numbers DEF DeliveryInv, Cached, TypeOK
<1>6. \A m \in Steady : m[2] <= cached[m[1]] => Author(m)' = Author(m)
  <2> SUFFICES ASSUME NEW m \in Steady, m[2] <= cached[m[1]] PROVE Author(m)' = Author(m)
    OBVIOUS
  <2>1. m[2] \in 1..Len(board[m[1]])
    BY <1>4, <1>5
  <2>2. QED
    BY <1>3, <1>4, <2>1 DEF Author
<1>7. CASE ~(link = "up" /\ d \in subscribed)
  <2>1. cached' = cached /\ queue' = queue
    BY <1>7 DEF Arrive
  <2>2. \A e \in steady' : Cached(e)' /\ cached'[e] = cached[e] /\ Floor(e)' >= Floor(e)
    <3>1. ASSUME NEW e \in steady' PROVE Cached(e)'
      <4>1. e \in steady /\ (link = "up" => e # d)
        BY <1>7, <3>1 DEF DeliveryInv
      <4>2. Len(board'[e]) >= Len(board[e]) /\ (e # d => Len(board'[e]) = Len(board[e]))
        BY <1>3, <1>5, <4>1
      <4>3. Len(board'[e]) \in Nat
        BY <1>3, <1>5, <4>1
      <4>4. QED
        BY <1>1, <1>5, <2>1, <4>1, <4>2, <4>3 DEF Cached
    <3>2. \A e \in steady : Floor(e)' = Floor(e)
      BY <2>1 DEF Floor
    <3>3. QED
      BY <1>5, <2>1, <3>1, <3>2
  <2>3. QED
    BY <1>1, <1>6, <2>1, <2>2, CalmStep DEF DeliveryInv, Steady, InHand, Handling
<1>8. CASE link = "up" /\ d \in subscribed
  <2>1. /\ cached' = [cached EXCEPT ![d] = Len(board[d]) + 1]
        /\ queue' = IF Emitted(author) THEN Append(queue, new) ELSE queue
    BY <1>8 DEF Arrive
  <2>2. \A e \in steady : /\ Cached(e)' /\ cached'[e] >= cached[e] /\ Floor(e)' >= Floor(e)
                          /\ Floor(e)' \in Int /\ cached'[e] \in Nat
                          /\ (e # d => cached'[e] = cached[e])
    <3>1. \A e \in steady : /\ cached'[e] = IF e = d THEN Len(board[d]) + 1 ELSE cached[e]
                            /\ Len(board'[e]) = IF e = d THEN Len(board[d]) + 1 ELSE Len(board[e])
      BY <1>3, <1>5, <2>1 DEF TypeOK
    <3>2. \A e \in steady : Cached(e)' /\ cached'[e] >= cached[e] /\ cached'[e] \in Nat
                            /\ (e # d => cached'[e] = cached[e])
      BY <1>1, <1>5, <3>1 DEF Cached
    <3>3. \A e \in steady : Floor(e)' >= Floor(e) /\ Floor(e)' \in Int
      BY <1>5, <3>2 DEF Floor
    <3>4. QED
      BY <3>2, <3>3
  <2>3. /\ \A k \in 1..Len(queue) : k \in 1..Len(queue') /\ queue'[k] = queue[k]
        /\ \A k \in 1..Len(queue') :
               k \in 1..Len(queue) \/ (k = Len(queue) + 1 /\ queue'[k] = new /\ Emitted(author))
        /\ Emitted(author) => Len(queue) + 1 \in 1..Len(queue') /\ queue'[Len(queue) + 1] = new
    <3>1. queue \in Seq(Messages \cup {Disconnected}) /\ new \in Messages \cup {Disconnected}
      BY <1>2 DEF TypeOK
    <3> HIDE DEF new
    <3>2. CASE Emitted(author)
      BY <2>1, <3>1, <3>2, JoinedEnd
    <3>3. CASE ~Emitted(author)
      BY <2>1, <3>1, <3>3
    <3>4. QED
      BY <3>2, <3>3
  <2>4. \A m \in Steady : InHand(m)' <=> InHand(m)
    BY DEF InHand, Handling
  <2>5. \A m \in Steady : /\ Waiting(m) => Waiting(m)'
                          /\ Waiting(m)' => Waiting(m) \/ m = new
                          /\ m = new /\ Emitted(author) => Waiting(m)'
    BY <2>3 DEF Waiting
  <2>6. ASSUME NEW m \in Steady PROVE Bounded(m)' /\ Complete(m)'
    <3>1. Bounded(m) /\ Complete(m)
      BY <2>6 DEF DeliveryInv
    <3>2. Bounded(m)'
      <4>1. m = new => m[2] <= cached'[m[1]]
        BY <1>2, <1>5, <2>1, <2>6 DEF Steady, TypeOK
      <4>2. QED
        BY <1>4, <1>5, <2>2, <2>4, <2>5, <2>6, <3>1, <4>1 DEF Bounded
    <3>3. CASE m = new
      <4>1. Author(m)' = author
        BY <1>2, <1>3, <3>3 DEF Author
      <4>2. QED
        BY <2>5, <2>6, <3>2, <3>3, <4>1 DEF Complete, Emitted
    <3>4. CASE m # new
      <4>1. m[2] <= cached'[m[1]] => m[2] <= cached[m[1]]
        <5>1. CASE m[1] = d
          <6>1. m[2] # Len(board[d]) + 1
            BY <1>2, <1>4, <2>6, <3>4, <5>1, SameMessage
          <6>2. cached'[d] = Len(board[d]) + 1 /\ cached[d] = Len(board[d]) /\ Len(board[d]) \in Nat
            BY <1>4, <1>5, <1>8, <2>1, <2>6, <5>1 DEF TypeOK
          <6>3. QED
            BY <1>4, <2>6, <5>1, <6>1, <6>2
        <5>2. CASE m[1] # d
          BY <1>4, <2>2, <2>6, <5>2
        <5>3. QED
          BY <5>1, <5>2
      <4>2. m[2] > Floor(m[1])' => m[2] > Floor(m[1])
        BY <1>4, <1>5, <2>2, <2>6
      <4>3. QED
        BY <1>6, <2>4, <2>5, <2>6, <3>1, <3>2, <4>1, <4>2 DEF Complete
    <3>5. QED
      BY <3>2, <3>3, <3>4
  <2>7. ASSUME NEW m \in Steady, NEW n \in Steady, m[1] = n[1], n[2] > Floor(n[1])'
        PROVE  /\ \A k, l \in 1..Len(queue') : k < l /\ queue'[k] = m /\ queue'[l] = n => m[2] < n[2]
               /\ InHand(m)' /\ Waiting(n)' => m[2] < n[2]
    <3>1. n[2] > Floor(n[1]) /\ Ordered(m, n) /\ Bounded(m)
      BY <1>4, <1>5, <2>2, <2>7 DEF DeliveryInv
    <3>2. (Waiting(m) \/ InHand(m)) /\ n = new => m[2] < n[2]
      BY <1>2, <1>4, <1>5, <1>8, <2>7, <3>1 DEF Bounded
    <3>3. InHand(m)' /\ Waiting(n)' => m[2] < n[2]
      BY <2>4, <2>5, <2>7, <3>1, <3>2 DEF Ordered
    <3>4. ASSUME NEW k \in 1..Len(queue'), NEW l \in 1..Len(queue'), k < l, queue'[k] = m,
                 queue'[l] = n
          PROVE  m[2] < n[2]
      <4>1. k \in 1..Len(queue)
        BY <2>3, <3>4, Numbers
      <4>2. CASE l \in 1..Len(queue)
        BY <2>3, <2>7, <3>1, <3>4, <4>1, <4>2 DEF Ordered
      <4>3. CASE l \notin 1..Len(queue)
        BY <2>3, <3>2, <3>4, <4>1, <4>3 DEF Waiting
      <4>4. QED
        BY <4>2, <4>3
    <3>5. QED
      BY <3>3, <3>4
  <2>8. QED
    BY <1>1, <2>2, <2>6, <2>7 DEF DeliveryInv, Ordered, Steady
<1>9. QED
  BY <1>7, <1>8

\* What a sequence holds when its head leaves.
LEMMA HeadLeft ==
    ASSUME NEW S, NEW q \in Seq(S), q # <<>>
    PROVE  /\ 1 \in 1..Len(q) /\ Head(q) = q[1] /\ Len(q) \in Nat
           /\ \A k \in 1..Len(Tail(q)) : k + 1 \in 1..Len(q) /\ Tail(q)[k] = q[k + 1]
           /\ \A k \in 1..Len(q) : k # 1 => k - 1 \in 1..Len(Tail(q)) /\ Tail(q)[k - 1] = q[k]
OBVIOUS

\* The head of the queue is skipped below the cursor, and taken in hand above it;
\* nothing above the floor that is behind it comes before it.
LEMMA TakeStep ==
    ASSUME TypeOK, TypeOK', DeliveryInv, NEW m \in Messages, SkipCovered(m) \/ Receive(m)
    PROVE  DeliveryInv'
<1>1. /\ pc = "receiving" /\ queue # <<>> /\ Head(queue) = m /\ queue' = Tail(queue)
      /\ cursor' = cursor /\ cached' = cached /\ steady' = steady /\ subscribed' = subscribed
      /\ board' = board /\ link' = link
      /\ pc' \in {"receiving", "saving", "turn"}
  BY DEF SkipCovered, Receive, Receiving, task, server, Goto
<1>2. /\ queue \in Seq(Messages \cup {Disconnected}) /\ queue[1] = m /\ 1 \in 1..Len(queue)
      /\ \A k \in 1..Len(queue') : k + 1 \in 1..Len(queue) /\ queue'[k] = queue[k + 1]
      /\ \A k \in 1..Len(queue) : k # 1 => k - 1 \in 1..Len(queue') /\ queue'[k - 1] = queue[k]
      /\ Len(queue) \in Nat
  <2>1. queue \in Seq(Messages \cup {Disconnected})
    BY DEF TypeOK
  <2>2. QED
    BY <1>1, <2>1, HeadLeft
<1>3. \A d \in Domains : /\ Floor(d) = cursor[d] /\ Floor(d)' = cursor[d] /\ cursor[d] \in Nat
  BY <1>1, Numbers DEF Floor
<1>4. Steady' = Steady /\ \A n \in Steady : n \in Messages /\ n[1] \in Domains /\ n[2] \in Nat
  BY <1>1, Numbers DEF Steady
<1>5. \A n \in Steady : ~InHand(n)
  BY <1>1 DEF InHand, Handling
<1>6. \A n \in Steady : /\ Waiting(n) <=> n = m \/ Waiting(n)'
                        /\ InHand(n)' => n = m /\ m[2] > cursor[m[1]]
                        /\ n = m /\ m[2] > cursor[m[1]] => InHand(n)'
  <2>1. ASSUME NEW n \in Steady PROVE Waiting(n) <=> n = m \/ Waiting(n)'
    BY <1>2 DEF Waiting
  <2>2. SkipCovered(m) => pc' = "receiving" /\ m[2] <= cursor[m[1]]
    BY <1>1 DEF SkipCovered, task
  <2>3. Receive(m) => pc' \in Handling /\ current' = m /\ m[2] > cursor[m[1]]
    BY DEF Receive, Goto, Handling
  <2>4. m[2] \in Nat /\ cursor[m[1]] \in Nat
    BY Numbers
  <2>5. QED
    BY <2>1, <2>2, <2>3, <2>4 DEF InHand, Handling
<1>7. ASSUME NEW n \in Steady PROVE Bounded(n)' /\ Complete(n)'
  <2>1. Bounded(n) /\ Complete(n) /\ Author(n)' = Author(n)
    BY <1>1, <1>7 DEF DeliveryInv, Attached, Author
  <2>2. QED
    BY <1>1, <1>3, <1>4, <1>5, <1>6, <1>7, <2>1 DEF Bounded, Complete
<1>8. ASSUME NEW n \in Steady, NEW o \in Steady, n[1] = o[1], o[2] > Floor(o[1])'
      PROVE  /\ \A k, l \in 1..Len(queue') : k < l /\ queue'[k] = n /\ queue'[l] = o => n[2] < o[2]
             /\ InHand(n)' /\ Waiting(o)' => n[2] < o[2]
  <2>1. Ordered(n, o) /\ o[2] > Floor(o[1])
    BY <1>1, <1>3, <1>4, <1>8 DEF DeliveryInv, Attached
  <2>2. \A k, l \in 1..Len(queue) : k < l /\ queue[k] = n /\ queue[l] = o => n[2] < o[2]
    BY <1>8, <2>1 DEF Ordered
  <2>3. ASSUME NEW k \in 1..Len(queue'), NEW l \in 1..Len(queue'), k < l, queue'[k] = n,
               queue'[l] = o
        PROVE  n[2] < o[2]
    <3>1. k + 1 < l + 1 /\ queue[k + 1] = n /\ queue[l + 1] = o
      BY <1>2, <2>3
    <3>2. QED
      BY <1>2, <2>2, <3>1
  <2>4. ASSUME InHand(n)', Waiting(o)' PROVE n[2] < o[2]
    <3>1. PICK l \in 1..Len(queue') : queue'[l] = o
      BY <2>4 DEF Waiting
    <3>2. queue[1] = n /\ queue[l + 1] = o /\ 1 < l + 1 /\ l + 1 \in 1..Len(queue)
      BY <1>2, <1>6, <1>8, <2>4, <3>1
    <3>3. QED
      BY <1>2, <2>2, <3>2
  <2>5. QED
    BY <2>3, <2>4
<1>9. \A d \in steady : Cached(d)'
  BY <1>1 DEF DeliveryInv, Attached, Cached
<1>10. QED
  BY <1>1, <1>4, <1>7, <1>8, <1>9 DEF DeliveryInv, Ordered

\* The message in hand is saved: its cursor is the new floor, and what is above
\* that waits.
LEMMA SaveStep ==
    ASSUME TypeOK, TypeOK', ChannelInv, DeliveryInv, SaveCursor
    PROVE  DeliveryInv'
<1>1. /\ pc = "saving" /\ pc' = "receiving" /\ current \in Messages /\ ~Covered(current)
      /\ cursor' = [cursor EXCEPT ![current[1]] = current[2]]
      /\ cached' = cached /\ steady' = steady /\ subscribed' = subscribed
      /\ board' = board /\ link' = link /\ queue' = queue
  BY DEF SaveCursor, Upsert, Goto, server, connection, ChannelInv, Handling
<1>2. current[1] \in Domains /\ current[2] \in Nat /\ cursor \in [Domains -> 0..MaxPosts]
  BY <1>1, Numbers DEF TypeOK
<1>3. \A d \in Domains : /\ Floor(d) = cursor[d] /\ cursor[d] \in Nat
                         /\ Floor(d)' = IF d = current[1] THEN current[2] ELSE cursor[d]
                         /\ Floor(d)' \in Nat /\ Floor(d)' >= Floor(d)
  BY <1>1, <1>2, Numbers DEF Floor, Covered
<1>4. Steady' = Steady /\ \A n \in Steady : n \in Messages /\ n[1] \in Domains /\ n[2] \in Nat
  BY <1>1, Numbers DEF Steady
<1>5. \A n \in Steady : /\ ~InHand(n)' /\ (InHand(n) <=> n = current)
                        /\ Waiting(n)' <=> Waiting(n)
  BY <1>1 DEF InHand, Handling, Waiting
<1>6. ASSUME NEW n \in Steady PROVE Bounded(n)' /\ Complete(n)'
  <2>1. Bounded(n) /\ Complete(n) /\ Author(n)' = Author(n)
    BY <1>1, <1>6 DEF DeliveryInv, Attached, Author
  <2>2. n[2] > Floor(n[1])' => n # current /\ n[2] > Floor(n[1])
    BY <1>2, <1>3, <1>4, <1>6
  <2>3. QED
    BY <1>1, <1>5, <1>6, <2>1, <2>2 DEF Bounded, Complete
<1>7. ASSUME NEW n \in Steady, NEW o \in Steady PROVE Ordered(n, o)'
  <2>1. Ordered(n, o)
    BY <1>1, <1>7 DEF DeliveryInv, Attached
  <2>2. o[2] > Floor(o[1])' => o[2] > Floor(o[1])
    BY <1>3, <1>4, <1>7
  <2>3. QED
    BY <1>1, <1>5, <1>7, <2>1, <2>2 DEF Ordered
<1>8. \A d \in steady : Cached(d)'
  BY <1>1 DEF DeliveryInv, Attached, Cached
<1>9. QED
  BY <1>1, <1>4, <1>6, <1>7, <1>8 DEF DeliveryInv

\* Steps that leave queue, board and cache alone, and the floor where it is or
\* higher, are calm.
LEMMA StillStep ==
    ASSUME TypeOK, TypeOK', DeliveryInv, Attached,
           board' = board, subscribed' = subscribed, link' = link, cached' = cached,
           queue' = queue, steady' = steady, current' = current,
           pc' \in Handling <=> pc \in Handling,
           \A d \in Domains : Floor(d)' >= Floor(d)
    PROVE  DeliveryInv'
<1>1. \A d \in steady' : Cached(d)' /\ cached'[d] = cached[d] /\ Floor(d)' >= Floor(d)
  BY DEF DeliveryInv, Cached, TypeOK
<1>2. \A m \in Steady' : InHand(m)' <=> InHand(m)
  BY DEF InHand, Handling
<1>3. \A m \in Steady' : Author(m)' = Author(m)
  BY DEF Author
<1>4. QED
  BY <1>1, <1>2, <1>3, CalmStep DEF DeliveryInv, Steady

\* The end of the connection is queued like a message, but is none.
LEMMA BreakStep ==
    ASSUME TypeOK, TypeOK', DeliveryInv, Attached, Break
    PROVE  DeliveryInv'
<1>1. /\ board' = board /\ subscribed' = subscribed /\ link' = "broken" /\ cached' = cached
      /\ queue' = Append(queue, Disconnected) /\ steady' = steady
      /\ UNCHANGED <<pc, current, baseline, cursor>>
  BY DEF Break, server, task, atHand, history
<1>2. /\ \A k \in 1..Len(queue) : k \in 1..Len(queue') /\ queue'[k] = queue[k]
      /\ \A k \in 1..Len(queue') : k \in 1..Len(queue) \/ queue'[k] = Disconnected
  <2>1. queue \in Seq(Messages \cup {Disconnected})
    BY DEF TypeOK
  <2>2. QED
    BY <1>1, <2>1, JoinedEnd
<1>3. \A d \in steady' : Cached(d)' /\ cached'[d] = cached[d] /\ Floor(d)' >= Floor(d)
  <2>1. \A d \in Domains : Floor(d)' = Floor(d) /\ Floor(d) \in Int
    BY <1>1, Numbers DEF Floor
  <2>2. QED
    BY <1>1, <2>1 DEF DeliveryInv, Cached, TypeOK
<1>4. Disconnected \notin Steady'
  BY TidepoolAssumption DEF Steady
<1>5. \A m \in Steady' : InHand(m)' <=> InHand(m)
  BY <1>1 DEF InHand, Handling
<1>6. \A m \in Steady' : Author(m)' = Author(m)
  BY <1>1 DEF Author
<1>7. QED
  BY <1>1, <1>2, <1>3, <1>4, <1>5, <1>6, CalmStep DEF DeliveryInv

\* A new subscription brings rows of its own domain, which is not steady.
LEMMA SubscribeStep ==
    ASSUME TypeOK, TypeOK', DeliveryInv, Attached, NEW d \in Domains,
           Subscribe(d) \/ Unsubscribe(d)
    PROVE  DeliveryInv'
<1>1. /\ board' = board /\ link' = link /\ UNCHANGED <<pc, current, baseline, cursor>>
      /\ steady' \subseteq steady /\ steady' \subseteq subscribed' /\ d \notin steady'
      /\ \A e \in Domains : e # d => cached'[e] = cached[e]
  BY DEF Subscribe, Unsubscribe, task, atHand, history, DeliveryInv, TypeOK
<1>2. /\ \A k \in 1..Len(queue) : k \in 1..Len(queue') /\ queue'[k] = queue[k]
      /\ \A k \in 1..Len(queue') : k \in 1..Len(queue) \/ queue'[k] \notin Steady'
  <2>1. CASE queue' = queue
    BY <2>1
  <2>2. ASSUME NEW rows \in SetToSeqs(RowsOf({d})), queue' = queue \o rows
        PROVE  /\ \A k \in 1..Len(queue) : k \in 1..Len(queue') /\ queue'[k] = queue[k]
               /\ \A k \in 1..Len(queue') : k \in 1..Len(queue) \/ queue'[k] \notin Steady'
    <3>1. rows \in Seq(RowsOf({d})) /\ RowsOf({d}) \subseteq Messages
      BY RowsAreSequences DEF RowsOf
    <3>2. queue \in Seq(Messages \cup {Disconnected}) /\ rows \in Seq(Messages \cup {Disconnected})
      BY <3>1, SeqMonotonic DEF TypeOK
    <3>3. \A k \in 1..Len(rows) : rows[k] \notin Steady'
      BY <1>1, SnapshotRows DEF RowsOf, Steady
    <3>4. /\ \A k \in 1..Len(queue) : k \in 1..Len(queue') /\ queue'[k] = queue[k]
          /\ \A k \in 1..Len(queue') :
                 k \in 1..Len(queue)
                 \/ (k - Len(queue) \in 1..Len(rows) /\ queue'[k] = rows[k - Len(queue)])
      BY <2>2, <3>2
    <3>5. QED
      BY <3>3, <3>4
  <2>3. QED
    BY <2>1, <2>2 DEF Subscribe, Unsubscribe
<1>3. \A e \in steady' : Cached(e)' /\ cached'[e] = cached[e] /\ Floor(e)' >= Floor(e)
  <2>1. \A e \in steady' : e \in Domains /\ e # d /\ e \in steady /\ cached'[e] = cached[e]
    BY <1>1 DEF TypeOK
  <2>2. \A e \in steady' : Floor(e)' = Floor(e) /\ Floor(e) \in Int
    BY <1>1, <2>1, Numbers DEF Floor
  <2>3. QED
    BY <1>1, <2>1, <2>2 DEF DeliveryInv, Cached
<1>4. \A m \in Steady' : InHand(m)' <=> InHand(m)
  BY <1>1 DEF InHand, Handling
<1>5. \A m \in Steady' : Author(m)' = Author(m)
  BY <1>1 DEF Author
<1>6. QED
  BY <1>1, <1>2, <1>3, <1>4, <1>5, CalmStep

\* Every step keeps what is above the floor complete and in order.
LEMMA DeliveryStep ==
    ASSUME TypeOK, TypeOK', ChannelInv, DeliveryInv, [Next]_vars
    PROVE  DeliveryInv'
<1>1. CASE pc' \in {"down", "resting"}
  BY <1>1, DetachedStep
<1>2. CASE Connect
  BY <1>2, ConnectStep
<1>3. CASE pc' \notin {"down", "resting"} /\ ~Connect
  <2>1. Attached
    BY <1>3 DEF Attached, Next, Environment, Attach, HandleMessage, vars, server, connection, task,
         history, Posting, PostMessage, Subscribe, Unsubscribe, ReplyArrives, ReplyIsLost, Goto,
         Break, JoinFails, CursorFailure, Crash, ReadBaseline, SeedCursor,
         StartReceiving, SkipCovered, Receive, Receiving, ReceiveDisconnected, TurnEnds,
         ModelNotified, Post, PostFails, SaveCursor, SaveAndLeave, Restart, Reconnect
  <2>2. CASE \E d \in Domains, author \in {"self", "other"} : PostMessage(d, author)
    BY <2>1, <2>2, ArriveStep DEF PostMessage, task, atHand
  <2>3. CASE \E p \in sent : ReplyArrives(p)
    <3>1. PICK p \in sent : ReplyArrives(p)
      BY <2>3
    <3>2. p[1][1] \in Domains
      BY <3>1, MessageParts DEF TypeOK, Posts
    <3>3. QED
      BY <2>1, <3>1, <3>2, ArriveStep DEF ReplyArrives, task, atHand
  <2>4. CASE \E d \in Domains : Subscribe(d) \/ Unsubscribe(d)
    BY <2>1, <2>4, SubscribeStep
  <2>5. CASE Break
    BY <2>1, <2>5, BreakStep
  <2>6. CASE (\E p \in sent : ReplyIsLost(p)) \/ TurnEnds \/ ModelNotified \/ Post \/ PostFails
             \/ UNCHANGED vars
    <3>1. /\ board' = board /\ subscribed' = subscribed /\ link' = link /\ cached' = cached
          /\ queue' = queue /\ steady' = steady /\ current' = current
          /\ baseline' = baseline /\ cursor' = cursor
          /\ pc' = pc \/ (pc \in Handling /\ pc' \in Handling)
      BY <2>6 DEF ReplyIsLost, TurnEnds, ModelNotified, Post, PostFails, NextPost, Posting,
                  vars, server, connection, task, atHand, Goto, Handling
    <3>2. \A d \in Domains : Floor(d)' = Floor(d) /\ Floor(d) \in Int
      BY <3>1, Numbers DEF Floor, Handling
    <3>3. QED
      BY <2>1, <3>1, <3>2, StillStep DEF Handling
  <2>7. CASE ReadBaseline \/ StartReceiving
    <3>1. /\ board' = board /\ subscribed' = subscribed /\ link' = link /\ cached' = cached
          /\ queue' = queue /\ steady' = steady /\ current' = current /\ cursor' = cursor
          /\ pc' \notin Handling /\ pc \notin Handling
      BY <2>7 DEF ReadBaseline, StartReceiving, server, connection, atHand, Goto, Handling
    <3>2. \A d \in Domains : Floor(d)' >= Floor(d)
      <4>1. CASE ReadBaseline
        BY <4>1, Numbers DEF ReadBaseline, Floor, Goto
      <4>2. CASE StartReceiving
        BY <4>2, Numbers DEF StartReceiving, Floor, Goto, Nothing
      <4>3. QED
        BY <2>7, <4>1, <4>2
    <3>3. QED
      BY <2>1, <3>1, <3>2, StillStep
  <2>8. CASE \E d \in Domains : SeedCursor(d)
    <3>1. PICK d \in Domains : SeedCursor(d)
      BY <2>8
    <3>2. /\ board' = board /\ subscribed' = subscribed /\ link' = link /\ cached' = cached
          /\ queue' = queue /\ steady' = steady /\ current' = current /\ pc' = pc
          /\ pc = "seeding"
      BY <3>1 DEF SeedCursor, server, connection, atHand
    <3>3. /\ baseline' = [baseline EXCEPT ![d] = 0]
          /\ cursor' = IF cursor[d] >= baseline[d] THEN cursor
                       ELSE [cursor EXCEPT ![d] = baseline[d] - 1]
      BY <3>1 DEF SeedCursor
    <3>4. \A e \in Domains : Floor(e)' >= Floor(e)
      <4>1. \A e \in Domains : baseline'[e] = IF e = d THEN 0 ELSE baseline[e]
        BY <3>3 DEF TypeOK
      <4>2. \A e \in Domains : e # d \/ cursor[d] >= baseline[d] => cursor'[e] = cursor[e]
        BY <3>3 DEF TypeOK
      <4>3. ~(cursor[d] >= baseline[d]) => cursor'[d] = baseline[d] - 1
        BY <3>3 DEF TypeOK
      <4>4. QED
        BY <3>2, <4>1, <4>2, <4>3, Numbers DEF Floor
    <3>5. QED
      BY <2>1, <3>2, <3>4, StillStep DEF Handling
  <2>9. CASE \E m \in Messages : SkipCovered(m) \/ Receive(m)
    BY <2>9, TakeStep
  <2>10. CASE SaveCursor
    BY <2>10, SaveStep
  <2>11. CASE JoinFails \/ ReceiveDisconnected \/ CursorFailure \/ Crash \/ SaveAndLeave \/ Restart
    BY <1>3, <2>11 DEF JoinFails, ReceiveDisconnected, CursorFailure, Crash, SaveAndLeave, Restart,
         Reconnect, Goto
  <2>12. QED
    BY <1>3, <2>2, <2>3, <2>4, <2>5, <2>6, <2>7, <2>8, <2>9, <2>10, <2>11
       DEF Next, Environment, Attach, HandleMessage
<1>4. QED
  BY <1>1, <1>2, <1>3

LEMMA DeliveryInvariant == Spec => []DeliveryInv
<1>1. Init => DeliveryInv
  BY DEF Init, DeliveryInv, Attached
<1>2. ChannelInv => TypeOK
  BY DEF ChannelInv
<1>3. QED
  BY <1>1, <1>2, DeliveryStep, ChannelInvariant, PTL DEF Spec

-----------------------------------------------------------------------------
\* A cursor that is saved steps over nothing but the agent's own messages.
THEOREM SavesSkipNobody == Spec => SavesSkipNothing
<1>1. ChannelInv /\ DeliveryInv /\ [Next]_vars
        => [\A d \in steady :
               pc \in {"saving", "leaving"} /\ cursor'[d] > cursor[d] =>
                   \A s \in cursor[d] + 1 .. cursor'[d] - 1 : board[d][s] = "self"]_vars
  <2> SUFFICES ASSUME ChannelInv, DeliveryInv, [Next]_vars, NEW d \in steady,
                      pc \in {"saving", "leaving"}, cursor'[d] > cursor[d],
                      NEW s \in cursor[d] + 1 .. cursor'[d] - 1
               PROVE  board[d][s] = "self"
    OBVIOUS
  <2>0. TypeOK /\ d \in Domains
    BY DEF ChannelInv, TypeOK
  <2>1. cursor' = cursor \/ Upsert(current)
    BY DEF Next, Environment, Attach, HandleMessage, vars, PostMessage, Subscribe, Unsubscribe,
         ReplyArrives, ReplyIsLost, Break, JoinFails, CursorFailure, Crash, Connect,
         ReadBaseline, SeedCursor, StartReceiving, SkipCovered, Receive,
         ReceiveDisconnected, TurnEnds, ModelNotified, Post, PostFails, SaveCursor,
         SaveAndLeave, Restart
  <2>2. current \in Messages /\ current[1] \in Domains /\ current[2] \in Nat
    BY <2>0, Numbers DEF ChannelInv, Handling
  <2>3. cursor \in [Domains -> 0..MaxPosts] /\ cursor[d] \in Nat
    BY <2>0, Numbers DEF TypeOK
  <2>4. d = current[1] /\ cursor'[d] = current[2]
    BY <2>0, <2>1, <2>2, <2>3 DEF Upsert
  <2>5. s \in Nat /\ cursor[d] < s /\ s < current[2]
    BY <2>2, <2>3, <2>4
  <2>6. current[2] \in 1..MaxPosts
    BY <2>2, MessageParts
  <2>7. s \in 1..MaxPosts
    BY <2>3, <2>5, <2>6, TidepoolAssumption
  <2>8. <<d, s>> \in Steady /\ current \in Steady
    BY <2>0, <2>2, <2>4, <2>7, MessageMade DEF Steady
  <2>9. Attached /\ Floor(d) = cursor[d] /\ InHand(current)
    BY DEF Attached, Floor, InHand, Handling
  <2>10. /\ current[2] <= cached[d] /\ cached[d] <= Len(board[d])
         /\ cached[d] \in Nat /\ Len(board[d]) \in Nat
    BY <2>0, <2>4, <2>8, <2>9, Numbers DEF DeliveryInv, Bounded, Cached
  <2>11. Complete(<<d, s>>) /\ Ordered(current, <<d, s>>)
    BY <2>8, <2>9 DEF DeliveryInv
  <2>12. ~Waiting(<<d, s>>)
    BY <2>2, <2>4, <2>5, <2>9, <2>11 DEF Ordered
  <2>13. ~InHand(<<d, s>>)
    BY <2>2, <2>5 DEF InHand
  <2>14. board[d][s] # "other"
    BY <2>5, <2>2, <2>9, <2>10, <2>11, <2>12, <2>13 DEF Complete, Author
  <2>15. board[d] \in Seq({"self", "other"}) /\ s \in 1..Len(board[d])
    BY <2>0, <2>2, <2>5, <2>10 DEF TypeOK
  <2>16. QED
    BY <2>14, <2>15
<1>2. QED
  BY <1>1, ChannelInvariant, DeliveryInvariant, PTL DEF Spec, SavesSkipNothing

\* Cursors move forward only, and over messages that were handled: for every
\* number of domains and messages, whatever is lost and whoever fails.
THEOREM CursorsAreSound == Spec => CursorsSound
BY CursorsMoveForward, SavesSkipNobody DEF CursorsSound
=============================================================================
