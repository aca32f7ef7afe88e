------------------------- MODULE TidepoolToolsProofs -------------------------
(***************************************************************************)
(* Proofs about the Tidepool tools.                                        *)
(*                                                                         *)
(* TidepoolWorkspace, for any accounts, workers, rooms, tasks, limits and  *)
(* lost connections, whatever the server refuses.  Nothing the server has  *)
(* stored is taken back, and no replica is ahead of it: what a tool found  *)
(* in a replica, however old, still holds when the server takes the call.  *)
(* So a direct message that waits in a queue goes where both take part,    *)
(* and a poll steps over nothing of its domain.                            *)
(*                                                                         *)
(* TidepoolViews, for any authors, domains, messages and limits.  Until a  *)
(* domain is unsubscribed a replica only gains rows: what the first of two *)
(* reads found is still there for the second, and a claim no completion of *)
(* which is found in the second was open when that one looked.  Of a set   *)
(* of rows, in whatever order they come, the entry of an author is what    *)
(* EntryOf says of the set, by induction along the order.                  *)
(***************************************************************************)
EXTENDS TidepoolWorkspace, TidepoolViews, RecursionTheorems, FiniteSetTheorems, TLAPS

-----------------------------------------------------------------------------
(* Numbers.                                                                *)

\* A part without one of its elements is smaller.
LEMMA Fewer ==
    ASSUME NEW S, IsFiniteSet(S), NEW T \in SUBSET S, NEW i \in S, i \notin T
    PROVE  Cardinality(T) \in Nat /\ Cardinality(S) \in Nat /\ Cardinality(T) < Cardinality(S)
<1>1. IsFiniteSet(T) /\ Cardinality(T) <= Cardinality(S) /\ (Cardinality(S) = Cardinality(T) => S = T)
  BY FS_Subset
<1>2. Cardinality(T) \in Nat /\ Cardinality(S) \in Nat
  BY <1>1, FS_CardinalityType
<1>3. QED
  BY <1>1, <1>2

Over(S, f, x) == {y \in S : f[y] > f[x]}
Best(S, f, limit) == {x \in S : Cardinality(Over(S, f, x)) < limit}

\* Of those who are not below a limit of others, there are that many.
LEMMA TopOf ==
    ASSUME NEW S, IsFiniteSet(S), NEW n \in Nat, NEW f \in [S -> 0..n],
           NEW limit \in Nat, ~(Cardinality(S) < limit)
    PROVE  ~(Cardinality(Best(S, f, limit)) < limit)
<1> DEFINE Above(x) == {y \in S : f[y] > f[x]}
           N == {x \in S : Cardinality(Above(x)) < limit}
           R == S \ N
<1> SUFFICES ASSUME Cardinality(N) < limit PROVE FALSE
  BY DEF Best, Over
<1>1. N # S
  OBVIOUS
<1>2. R # {} /\ R \subseteq S
  BY <1>1
<1> DEFINE g == [x \in R |-> f[x]]
<1>3. g \in [R -> 0..n]
  BY <1>2
<1>4. PICK x \in R : \A y \in R : g[y] <= g[x]
  <2> HIDE DEF R, g
  <2>1. QED
    BY <1>2, <1>3, LargestOf
<1>5. Above(x) \subseteq N
  <2>1. ASSUME NEW y \in Above(x), y \notin N PROVE FALSE
    <3>1. y \in R /\ f[y] > f[x] /\ f[y] \in 0..n /\ f[x] \in 0..n
      BY <1>2, <2>1
    <3>2. f[y] <= f[x]
      BY <1>4, <3>1
    <3>3. QED
      BY <3>1, <3>2
  <2>2. QED
    BY <2>1
<1>6. IsFiniteSet(N) /\ IsFiniteSet(Above(x))
  BY FS_Subset
<1> HIDE DEF Above, R
<1>7. Cardinality(Above(x)) <= Cardinality(N) /\ Cardinality(Above(x)) \in Nat /\ Cardinality(N) \in Nat
  <2> HIDE DEF N
  <2>1. QED
    BY <1>5, <1>6, FS_Subset, FS_CardinalityType
<1>8. Cardinality(Above(x)) < limit
  BY <1>7
<1>9. x \in N
  BY <1>2, <1>8
<1>10. QED
  BY <1>9 DEF R

-----------------------------------------------------------------------------
(* The inductive invariant.                                                 *)

PostTools == {"text", "claim", "done", "handoff", "direct"}
Abouts == Tasks \cup Agents
Messages == [domain : Nat \ {0}, author : Agents, tool : PostTools, about : Abouts, body : Bodies]
QueuedPosts == [call : {"post"}, domain : Nat \ {0}, tool : PostTools, about : Abouts, body : Bodies]
Changes == [call : {"subscribe", "unsubscribe"}, domain : Rooms]
Creations == [call : {"dm"}, with : SUBSET Agents]
QueuedCalls == QueuedPosts \cup Changes \cup Creations
Views == [log : Nat, dms : Nat, subs : SUBSET Rooms]
Places == {"idle", "begun", "claiming", "waiting"}
AllOps == {NoWork.op} \cup UNION {Ops[w] : w \in Workers}
Works == [op : AllOps, at : Places, conn : Nat]
Polls == [cursor : Nat, got : SUBSET Nat]

Shape ==
    /\ log \in Seq(Messages) /\ dms \in Seq(SUBSET Agents)
    /\ subs \in [Agents -> SUBSET Rooms]
    /\ replica \in [Agents -> Seq(Views)]
    /\ line \in [Agents -> [up : BOOLEAN, queue : Seq(QueuedCalls)]]
    /\ slot \in [Agents -> Nat]
    /\ work \in [Workers -> Works]
    /\ polls \in [Agents -> Polls]
    /\ ops \in 0..MaxOps

\* No replica is ahead of the server, and the slot has a connection there was.
ConnsOK(a) ==
    /\ Len(replica[a]) > 0
    /\ \A c \in 1..Len(replica[a]) :
          replica[a][c].log <= Len(log) /\ replica[a][c].dms <= Len(dms)
    /\ slot[a] <= Len(replica[a])

WorkOK(w) ==
    /\ work[w].conn <= Len(replica[Owner[w]])
    /\ work[w].at # "idle" => work[w].op \in Ops[w] /\ work[w].conn > 0

\* A domain of direct messages in which both take part.
Joint(domain, a, about) ==
    /\ domain - NumRooms \in 1..Len(dms)
    /\ a \in Participants(domain) /\ about \in Participants(domain)

\* The tools for claims write the agent's own handle, or none.
OwnBody(a, tool, body) ==
    tool # "text" /\ body.kind # "text" => body.handle \in {a, NoHandle}

CallOK(a, call) ==
    call.call = "post" =>
        /\ call.tool = "direct" => Joint(call.domain, a, call.about)
        /\ OwnBody(a, call.tool, call.body)

QueueOK(a) == \A k \in 1..Len(line[a].queue) : CallOK(a, line[a].queue[k])

MessageOK(m) ==
    /\ m.tool = "direct" => Joint(m.domain, m.author, m.about)
    /\ OwnBody(m.author, m.tool, m.body)

LogOK == \A i \in 1..Len(log) : MessageOK(log[i])

PollOK(a) ==
    /\ polls[a].cursor <= Len(log) /\ polls[a].got \subseteq 1..Len(log)
    /\ \A i \in 1..polls[a].cursor : log[i].domain = PollFilter => i \in polls[a].got

WsInv ==
    /\ Shape /\ LogOK
    /\ \A a \in Agents : ConnsOK(a) /\ QueueOK(a) /\ PollOK(a)
    /\ \A w \in Workers : WorkOK(w)

-----------------------------------------------------------------------------
(* Facts the steps have in common.                                          *)

\* The server stores and forgets nothing.
LEMMA Grows ==
    ASSUME Shape, Shape', 
           Len(log') >= Len(log), Len(dms') >= Len(dms),
           \A i \in 1..Len(log) : log'[i] = log[i],
           \A i \in 1..Len(dms) : dms'[i] = dms[i]
    PROVE  /\ \A d, a, about : Joint(d, a, about) => Joint(d, a, about)'
           /\ \A m : MessageOK(m) => MessageOK(m)'
<1>1. Len(log) \in Nat /\ Len(log') \in Nat /\ Len(dms) \in Nat /\ Len(dms') \in Nat
  BY LenProperties DEF Shape
<1>2. ASSUME NEW d, NEW a, NEW about, Joint(d, a, about)
      PROVE  Joint(d, a, about)'
  <2>1. d - NumRooms \in 1..Len(dms')
    BY <1>1, <1>2 DEF Joint
  <2>2. dms'[d - NumRooms] = dms[d - NumRooms]
    BY <1>2 DEF Joint
  <2>3. QED
    BY <1>2, <2>1, <2>2 DEF Joint, Participants
<1>3. QED
  BY <1>2 DEF MessageOK

\* A tool that goes on or returns leaves work in order.
LEMMA WorkGoesOn ==
    ASSUME WsInv, NEW w \in Workers, UNCHANGED replica,
           \/ Return(w)
           \/ \E place \in Places \ {"idle"} : work[w].at # "idle" /\ ContinueAt(w, place)
    PROVE  /\ work' \in [Workers -> Works]
           /\ \A v \in Workers : WorkOK(v)'
<1>1. work \in [Workers -> Works] /\ Owner \in [Workers -> Agents]
  BY WorkspaceAssumption DEF WsInv, Shape
<1>2. \A a \in Agents : Len(replica[a]) \in Nat
  BY LenProperties DEF WsInv, Shape
<1>3. NoWork \in Works
  BY DEF NoWork, Works, AllOps, Places
<1>4. CASE Return(w)
  <2>1. work' = [work EXCEPT ![w] = NoWork]
    BY <1>4 DEF Return
  <2>2. work' \in [Workers -> Works]
    BY <1>1, <1>3, <2>1
  <2>3. ASSUME NEW v \in Workers PROVE WorkOK(v)'
    <3>1. CASE v = w
      <4>1. work'[v] = NoWork
        BY <1>1, <2>1, <3>1
      <4>2. work'[v].conn = 0 /\ work'[v].at = "idle"
        BY <4>1 DEF NoWork
      <4>3. QED
        BY <1>1, <1>2, <4>2 DEF WorkOK
    <3>2. CASE v # w
      <4>1. work'[v] = work[v]
        BY <1>1, <2>1, <3>2
      <4>2. QED
        BY <4>1 DEF WorkOK, WsInv
    <3>3. QED
      BY <3>1, <3>2
  <2>4. QED
    BY <2>2, <2>3
<1>5. CASE \E place \in Places \ {"idle"} : work[w].at # "idle" /\ ContinueAt(w, place)
  <2>1. PICK place \in Places \ {"idle"} : work[w].at # "idle" /\ ContinueAt(w, place)
    BY <1>5
  <2>2. work' = [work EXCEPT ![w].at = place]
    BY <2>1 DEF ContinueAt
  <2>3. work' \in [Workers -> Works]
    BY <1>1, <2>2 DEF Works
  <2>4. \A v \in Workers : work'[v].op = work[v].op /\ work'[v].conn = work[v].conn
    BY <1>1, <2>2 DEF Works
  <2>5. \A v \in Workers : work'[v].at # "idle" => work[v].at # "idle"
    BY <1>1, <2>1, <2>2 DEF Works
  <2>6. QED
    BY <2>3, <2>4, <2>5 DEF WorkOK, WsInv
<1>6. QED
  BY <1>4, <1>5

\* A call that is in order keeps the queues in order.
LEMMA CallQueued ==
    ASSUME WsInv, NEW w \in Workers, NEW call \in QueuedCalls, CallOK(AgentOf(w), call),
           Call(w, call), UNCHANGED <<log, dms>>
    PROVE  /\ line' \in [Agents -> [up : BOOLEAN, queue : Seq(QueuedCalls)]]
           /\ \A a \in Agents : QueueOK(a)'
<1>1. line \in [Agents -> [up : BOOLEAN, queue : Seq(QueuedCalls)]] /\ Owner[w] \in Agents
  BY WorkspaceAssumption DEF WsInv, Shape
<1>2. CASE UNCHANGED line
  BY <1>1, <1>2 DEF WsInv, QueueOK, CallOK, Joint, Participants
<1>3. CASE line' = [line EXCEPT ![AgentOf(w)].queue = Append(@, call)]
  <2>2. Append(line[Owner[w]].queue, call) \in Seq(QueuedCalls)
    BY <1>1, AppendProperties
  <2>3. line' \in [Agents -> [up : BOOLEAN, queue : Seq(QueuedCalls)]]
    BY <1>1, <1>3, <2>2 DEF AgentOf
  <2>4. ASSUME NEW a \in Agents PROVE QueueOK(a)'
    <3>1. CASE a # Owner[w]
      <4>1. line'[a] = line[a]
        BY <1>1, <1>3, <3>1 DEF AgentOf
      <4>2. QED
        BY <4>1 DEF WsInv, QueueOK, CallOK, Joint, Participants
    <3>2. CASE a = Owner[w]
      <4>1. line'[a].queue = Append(line[a].queue, call) /\ line[a].queue \in Seq(QueuedCalls)
        BY <1>1, <1>3, <3>2 DEF AgentOf
      <4>2. ASSUME NEW k \in 1..Len(line'[a].queue)
            PROVE  CallOK(a, line'[a].queue[k])
        <5>1. k \in 1..Len(line[a].queue) + 1
          BY <4>1, AppendProperties
        <5>2. CASE k = Len(line[a].queue) + 1
          BY <3>2, <4>1, <5>2, AppendProperties DEF AgentOf
        <5>3. CASE k # Len(line[a].queue) + 1
          <6>1. Len(line[a].queue) \in Nat
            BY <4>1, LenProperties
          <6>2. k \in 1..Len(line[a].queue)
            BY <5>1, <5>3, <6>1
          <6>3. line'[a].queue[k] = line[a].queue[k]
            BY <4>1, <6>2, AppendProperties
          <6>4. QED
            BY <6>2, <6>3 DEF WsInv, QueueOK
        <5>4. QED
          BY <5>2, <5>3
      <4>3. QED
        BY <4>2 DEF QueueOK, CallOK, Joint, Participants
    <3>3. QED
      BY <3>1, <3>2
  <2>5. QED
    BY <2>3, <2>4
<1>4. QED
  BY <1>2, <1>3 DEF Call

\* Most tools only queue a call and go on.
LEMMA ToolSteps ==
    ASSUME WsInv, UNCHANGED <<serverVars, replica, slot, polls, ops>>,
           line' \in [Agents -> [up : BOOLEAN, queue : Seq(QueuedCalls)]],
           \A a \in Agents : QueueOK(a)',
           work' \in [Workers -> Works],
           \A v \in Workers : WorkOK(v)'
    PROVE  WsInv'
BY DEF WsInv, Shape, LogOK, MessageOK, Joint, Participants, ConnsOK, PollOK, serverVars

\* What tools queue is in order.
LEMMA SaidOK ==
    ASSUME NEW w \in Workers, NEW domain \in Nat \ {0}, NEW body \in Bodies,
           work[w].op.tool \in PostTools, work[w].op.about \in Abouts
    PROVE  Said(w, domain, body) \in QueuedCalls
BY DEF Said, QueuedCalls, QueuedPosts

\* What the tools write: a text, or under the agent's handle if it is known.
LEMMA BodyOK ==
    ASSUME NEW w \in Workers, AgentOf(w) \in Agents
    PROVE  /\ PlainText \in Bodies /\ \A tool : OwnBody(AgentOf(w), tool, PlainText)
           /\ \A kind \in {"claim", "done"}, h \in KnownAs(w) :
                 /\ Body(kind, h) \in Bodies
                 /\ \A tool : OwnBody(AgentOf(w), tool, Body(kind, h))
BY DEF PlainText, Body, Bodies, OwnBody, KnownAs

\* A worker that is at a place other than idle has one of its tool calls.
LEMMA Working ==
    ASSUME WsInv, NEW w \in Workers, work[w].at # "idle"
    PROVE  /\ WellFormed(work[w].op) /\ Owner[w] \in Agents /\ NumRooms \in Nat
           /\ work[w].conn \in 1..Len(replica[Owner[w]])
           /\ View(w) \in Views /\ View(w).log <= Len(log) /\ View(w).dms <= Len(dms)
<1>1. work[w] \in Works /\ Owner[w] \in Agents /\ WorkOK(w) /\ ConnsOK(Owner[w])
  BY WorkspaceAssumption DEF WsInv, Shape
<1>2. work[w].conn \in 1..Len(replica[Owner[w]])
  <2>1. work[w].conn \in Nat /\ replica[Owner[w]] \in Seq(Views)
    BY <1>1 DEF Works, WsInv, Shape
  <2>2. QED
    BY <1>1, <2>1, LenProperties DEF WorkOK
<1>3. View(w) \in Views
  <2>1. replica[Owner[w]] \in Seq(Views)
    BY <1>1 DEF WsInv, Shape
  <2>2. QED
    BY <1>2, <2>1, ElementOfSeq DEF View, AgentOf
<1>4. View(w).log <= Len(log) /\ View(w).dms <= Len(dms)
  BY <1>1, <1>2 DEF ConnsOK, View, AgentOf
<1>5. QED
  BY <1>1, <1>2, <1>3, <1>4, WorkspaceAssumption DEF WorkOK

\* Tools that say something in a room, or change a subscription.
LEMMA PostSteps ==
    ASSUME WsInv, NEW w \in Workers,
           \/ PostText(w) \/ ClaimTask(w) \/ CompleteTask(w)
           \/ PostHandoff(w) \/ PostHandoffClaim(w)
           \/ SubscribeDomain(w) \/ UnsubscribeDomain(w)
    PROVE  WsInv'
<1> DEFINE op == work[w].op
<1>1. /\ work[w].at # "idle" /\ UNCHANGED <<serverVars, replica, slot, polls, ops>>
      /\ op.tool \in {"text", "claim", "done", "handoff", "subscribe", "unsubscribe"}
  BY DEF PostText, ClaimTask, CompleteTask, PostInRoom, PostHandoff, PostHandoffClaim,
         SubscribeDomain, UnsubscribeDomain, ChangeSubscription, At
<1>2. WellFormed(op) /\ NumRooms \in Nat /\ AgentOf(w) \in Agents
  BY <1>1, Working DEF AgentOf
<1>3. \E call \in QueuedCalls : CallOK(AgentOf(w), call) /\ Call(w, call)
  <2>1. CASE \E body \in Bodies :
               /\ Call(w, Said(w, op.domain, body)) /\ OwnBody(AgentOf(w), op.tool, body)
               /\ op.tool \in {"text", "claim", "done", "handoff"}
    <3>1. PICK body \in Bodies :
               /\ Call(w, Said(w, op.domain, body)) /\ OwnBody(AgentOf(w), op.tool, body)
               /\ op.tool \in {"text", "claim", "done", "handoff"}
      BY <2>1
    <3>2. op.domain \in Nat \ {0} /\ op.about \in Abouts
      BY <1>2, <3>1 DEF WellFormed, Abouts
    <3>3. Said(w, op.domain, body) \in QueuedCalls
      BY <3>1, <3>2, SaidOK DEF PostTools
    <3>4. CallOK(AgentOf(w), Said(w, op.domain, body))
      BY <3>1 DEF CallOK, Said
    <3>5. QED
      BY <3>1, <3>3, <3>4
  <2>2. CASE SubscribeDomain(w) \/ UnsubscribeDomain(w)
    <3>1. PICK tool \in {"subscribe", "unsubscribe"} : ChangeSubscription(w, tool)
      BY <2>2 DEF SubscribeDomain, UnsubscribeDomain
    <3>2. op.tool = tool /\ Call(w, [call |-> tool, domain |-> op.domain])
      BY <3>1 DEF ChangeSubscription, At
    <3>3. [call |-> tool, domain |-> op.domain] \in Changes
      BY <1>2, <3>2 DEF WellFormed, Changes, Rooms
    <3>4. CallOK(AgentOf(w), [call |-> tool, domain |-> op.domain])
      BY DEF CallOK
    <3>5. QED
      BY <3>2, <3>3, <3>4 DEF QueuedCalls
  <2>3. CASE PostText(w)
    <3>1. op.tool = "text" /\ Call(w, Said(w, op.domain, op.body))
      BY <2>3 DEF PostText, PostInRoom, At
    <3>2. op.body \in Bodies /\ OwnBody(AgentOf(w), op.tool, op.body)
      BY <1>2, <3>1 DEF WellFormed, OwnBody
    <3>3. QED
      BY <2>1, <3>1, <3>2
  <2>4. CASE ClaimTask(w) \/ CompleteTask(w) \/ PostHandoffClaim(w)
    <3>1. /\ op.tool \in {"claim", "done", "handoff"}
          /\ \E kind \in {"claim", "done"}, h \in KnownAs(w) : Call(w, Said(w, op.domain, Body(kind, h)))
      BY <2>4 DEF ClaimTask, CompleteTask, PostHandoffClaim, PostInRoom, At
    <3>2. QED
      BY <1>2, <2>1, <3>1, BodyOK
  <2>5. CASE PostHandoff(w)
    <3>1. op.tool = "handoff" /\ Call(w, Said(w, op.domain, PlainText))
      BY <2>5 DEF PostHandoff, At
    <3>2. QED
      BY <1>2, <2>1, <3>1, BodyOK
  <2>6. QED
    BY <2>2, <2>3, <2>4, <2>5
<1>4. \/ Return(w)
      \/ \E place \in Places \ {"idle"} : work[w].at # "idle" /\ ContinueAt(w, place)
  BY <1>1 DEF PostText, ClaimTask, CompleteTask, PostInRoom, PostHandoff, PostHandoffClaim,
         SubscribeDomain, UnsubscribeDomain, ChangeSubscription, GoOnOrFail, Places
<1>5. work' \in [Workers -> Works] /\ \A v \in Workers : WorkOK(v)'
  BY <1>1, <1>4, WorkGoesOn
<1>6. /\ line' \in [Agents -> [up : BOOLEAN, queue : Seq(QueuedCalls)]]
      /\ \A a \in Agents : QueueOK(a)'
  BY <1>1, <1>3, CallQueued DEF serverVars
<1>7. QED
  BY <1>1, <1>5, <1>6, ToolSteps

\* A tool that ends without a call.
LEMMA ReturnSteps ==
    ASSUME WsInv, NEW w \in Workers, Return(w),
           UNCHANGED <<serverVars, replica, line, slot, polls, ops>>
    PROVE  WsInv'
<1>1. work' \in [Workers -> Works] /\ \A v \in Workers : WorkOK(v)'
  BY WorkGoesOn
<1>2. /\ line' \in [Agents -> [up : BOOLEAN, queue : Seq(QueuedCalls)]]
      /\ \A a \in Agents : QueueOK(a)'
  BY DEF WsInv, Shape, QueueOK, CallOK, Joint, Participants, serverVars
<1>3. QED
  BY <1>1, <1>2, ToolSteps

\* A domain that a replica shows is one the server has.
LEMMA SharedIsJoint ==
    ASSUME WsInv, NEW w \in Workers, work[w].at # "idle", NEW d \in SharedDms(w)
    PROVE  d \in Nat \ {0} /\ Joint(d, AgentOf(w), work[w].op.about)
<1>1. NumRooms \in Nat /\ View(w) \in Views /\ View(w).dms <= Len(dms)
  BY Working
<1>2. View(w).dms \in Nat /\ Len(dms) \in Nat
  BY <1>1, LenProperties DEF Views, WsInv, Shape
<1>3. d \in NumRooms + 1..NumRooms + View(w).dms
  BY DEF SharedDms, DmDomains
<1>4. AgentOf(w) \in Participants(d) /\ work[w].op.about \in Participants(d)
  BY DEF SharedDms, DmDomains
<1>5. QED
  BY <1>1, <1>2, <1>3, <1>4 DEF Joint

\* Direct messages go where both take part.
LEMMA MessageSteps ==
    ASSUME WsInv, NEW w \in Workers, MessageAgent(w) \/ FoundDm(w)
    PROVE  WsInv'
<1> DEFINE op == work[w].op
<1>1. /\ work[w].at # "idle" /\ op.tool = "direct"
      /\ UNCHANGED <<serverVars, replica, slot, polls, ops>>
  BY DEF MessageAgent, FoundDm, At
<1>2. op.about \in Agents /\ AgentOf(w) \in Agents
  BY <1>1, Working DEF WellFormed, AgentOf
<1>3. CASE Return(w) /\ UNCHANGED line
  BY <1>1, <1>3, ReturnSteps
<1>4. CASE \E d \in SharedDms(w) : Call(w, Said(w, d, PlainText)) /\ Return(w)
  <2>1. PICK d \in SharedDms(w) : Call(w, Said(w, d, PlainText)) /\ Return(w)
    BY <1>4
  <2>2. d \in Nat \ {0} /\ Joint(d, AgentOf(w), op.about)
    BY <1>1, SharedIsJoint
  <2>3. Said(w, d, PlainText) \in QueuedCalls
    BY <1>1, <1>2, <2>2, BodyOK, SaidOK DEF PostTools, Abouts
  <2>4. CallOK(AgentOf(w), Said(w, d, PlainText))
    BY <1>2, <2>2, BodyOK DEF CallOK, Said
  <2>5. work' \in [Workers -> Works] /\ \A v \in Workers : WorkOK(v)'
    BY <1>1, <2>1, WorkGoesOn
  <2>6. /\ line' \in [Agents -> [up : BOOLEAN, queue : Seq(QueuedCalls)]]
        /\ \A a \in Agents : QueueOK(a)'
    BY <1>1, <2>1, <2>3, <2>4, CallQueued DEF serverVars
  <2>7. QED
    BY <1>1, <2>5, <2>6, ToolSteps
<1>5. CASE Call(w, [call |-> "dm", with |-> {op.about}]) /\ GoOnOrFail(w, "waiting")
  <2>1. [call |-> "dm", with |-> {op.about}] \in QueuedCalls
    BY <1>2 DEF QueuedCalls, Creations
  <2>2. CallOK(AgentOf(w), [call |-> "dm", with |-> {op.about}])
    BY DEF CallOK
  <2>3. \/ Return(w)
        \/ \E place \in Places \ {"idle"} : work[w].at # "idle" /\ ContinueAt(w, place)
    BY <1>1, <1>5 DEF GoOnOrFail, Places
  <2>4. work' \in [Workers -> Works] /\ \A v \in Workers : WorkOK(v)'
    BY <1>1, <2>3, WorkGoesOn
  <2>5. /\ line' \in [Agents -> [up : BOOLEAN, queue : Seq(QueuedCalls)]]
        /\ \A a \in Agents : QueueOK(a)'
    BY <1>1, <1>5, <2>1, <2>2, CallQueued DEF serverVars
  <2>6. QED
    BY <1>1, <2>4, <2>5, ToolSteps
<1>6. QED
  BY <1>3, <1>4, <1>5 DEF MessageAgent, FoundDm

LEMMA CreateSteps ==
    ASSUME WsInv, NEW w \in Workers, CreateDm(w)
    PROVE  WsInv'
<1> DEFINE call == [call |-> "dm", with |-> work[w].op.about]
<1>1. /\ work[w].at # "idle" /\ work[w].op.tool = "dm" /\ Call(w, call) /\ Return(w)
      /\ UNCHANGED <<serverVars, replica, slot, polls, ops>>
  BY DEF CreateDm, At
<1>2. work[w].op.about \subseteq Agents
  BY <1>1, Working DEF WellFormed
<1>3. call \in QueuedCalls
  BY <1>2 DEF QueuedCalls, Creations
<1>4. CallOK(AgentOf(w), call)
  BY DEF CallOK
<1>5. work' \in [Workers -> Works] /\ \A v \in Workers : WorkOK(v)'
  BY <1>1, WorkGoesOn
<1>6. /\ line' \in [Agents -> [up : BOOLEAN, queue : Seq(QueuedCalls)]]
      /\ \A a \in Agents : QueueOK(a)'
  BY <1>1, <1>3, <1>4, CallQueued DEF serverVars
<1>7. QED
  BY <1>1, <1>5, <1>6, ToolSteps

LEMMA BeginSteps ==
    ASSUME WsInv, NEW w \in Workers, NEW op \in Ops[w], BeginTool(w, op)
    PROVE  WsInv'
<1>1. /\ work' = [work EXCEPT ![w] = [op |-> op, at |-> "begun", conn |-> slot[Owner[w]]]]
      /\ slot[Owner[w]] # 0 /\ ops < MaxOps /\ ops' = ops + 1
      /\ UNCHANGED <<serverVars, replica, line, slot, polls>>
  BY DEF BeginTool, AgentOf
<1>2. /\ work \in [Workers -> Works] /\ Owner \in [Workers -> Agents]
      /\ slot[Owner[w]] \in Nat /\ ConnsOK(Owner[w]) /\ ops \in 0..MaxOps /\ MaxOps \in Nat
  BY WorkspaceAssumption DEF WsInv, Shape
<1>3. [op |-> op, at |-> "begun", conn |-> slot[Owner[w]]] \in Works
  BY <1>2 DEF Works, AllOps, Places
<1>4. work' \in [Workers -> Works]
  BY <1>1, <1>2, <1>3
<1>5. ASSUME NEW v \in Workers PROVE WorkOK(v)'
  <2>1. CASE v = w
    <3>1. work'[v] = [op |-> op, at |-> "begun", conn |-> slot[Owner[w]]]
      BY <1>1, <1>2, <2>1
    <3>2. QED
      BY <1>1, <1>2, <2>1, <3>1 DEF WorkOK, ConnsOK
  <2>2. CASE v # w
    BY <1>1, <1>2, <2>2 DEF WorkOK, WsInv
  <2>3. QED
    BY <2>1, <2>2
<1>6. ops' \in 0..MaxOps
  BY <1>1, <1>2
<1>7. QED
  BY <1>1, <1>4, <1>5, <1>6
     DEF WsInv, Shape, LogOK, MessageOK, QueueOK, CallOK, Joint, Participants, ConnsOK,
         PollOK, serverVars

-----------------------------------------------------------------------------
(* Polling.                                                                 *)

\* The largest of some numbers that are above a first one.
LEMMA Largest ==
    ASSUME NEW n \in Nat, NEW b \in Nat, NEW R \in SUBSET (n + 1..b)
    PROVE  \E i \in R \cup {n} : \A j \in R : j <= i
<1>1. R \in SUBSET (0..b)
  OBVIOUS
<1>2. CASE R = {}
  BY <1>2
<1>3. CASE R # {}
  BY <1>1, <1>3, MaxOf
<1>4. QED
  BY <1>2, <1>3

\* A poll of one domain takes all its messages up to the last one it takes.
LEMMA PollSteps ==
    ASSUME WsInv, NEW w \in Workers, Poll(w)
    PROVE  WsInv'
<1> DEFINE a == AgentOf(w)
           view == View(w)
           found == {i \in InDomain(Visible(a, view), PollFilter) : i > polls[a].cursor}
           rows == ReadAfter(a, view, PollFilter, polls[a].cursor, ReadLimit)
           last == CHOOSE i \in rows \cup {polls[a].cursor} : \A j \in rows : j <= i
<1>1. /\ work[w].at # "idle" /\ Return(w)
      /\ polls' = [polls EXCEPT ![a] = [cursor |-> last, got |-> @.got \cup rows]]
      /\ UNCHANGED <<serverVars, replica, line, slot, ops>>
  BY DEF Poll, At
<1>2. /\ a \in Agents /\ view \in Views /\ view.log <= Len(log) /\ view.dms <= Len(dms)
      /\ polls \in [Agents -> Polls] /\ polls[a] \in Polls /\ PollOK(a)
      /\ Len(log) \in Nat /\ log \in Seq(Messages) /\ PollFilter \in Nat
  BY <1>1, Working, LenProperties, WorkspaceAssumption DEF AgentOf, WsInv, Shape
<1>3. polls[a].cursor \in Nat /\ polls[a].got \subseteq 1..Len(log)
  BY <1>2 DEF Polls, PollOK
<1>4. rows = FirstOf(found, ReadLimit) /\ rows \subseteq found
  BY DEF ReadAfter, FirstOf
<1>5. found \subseteq polls[a].cursor + 1..Len(log) /\ found \subseteq 1..Len(log)
  BY <1>2, <1>3 DEF InDomain, Visible, Views
<1> HIDE DEF rows, found
<1>6. last \in rows \cup {polls[a].cursor} /\ \A j \in rows : j <= last
  <2>1. \E i \in rows \cup {polls[a].cursor} : \A j \in rows : j <= i
    <3>1. rows \in SUBSET (polls[a].cursor + 1..Len(log))
      BY <1>4, <1>5
    <3>2. QED
      BY <1>2, <1>3, <3>1, Largest
  <2>2. QED
    BY <2>1
<1> HIDE DEF last
<1>7. /\ last \in Nat /\ last <= Len(log) /\ rows \subseteq 1..Len(log)
      /\ polls[a].cursor <= last
  BY <1>2, <1>3, <1>4, <1>5, <1>6 DEF PollOK
<1>8. ASSUME NEW i \in 1..last, log[i].domain = PollFilter
      PROVE  i \in polls[a].got \cup rows
  <2>1. CASE i <= polls[a].cursor
    BY <1>2, <1>3, <1>7, <1>8, <2>1 DEF PollOK
  <2>2. CASE i > polls[a].cursor
    <3>1. last \in rows
      BY <1>3, <1>6, <1>7, <2>2
    <3>2. last \in found
      BY <1>4, <3>1
    <3>3. log[i] \in Messages /\ log[last] \in Messages
      BY <1>2, <1>5, <1>7, <3>2, ElementOfSeq
    <3>4. PollFilter # AllDomains
      BY <1>8, <3>3 DEF Messages, AllDomains
    <3>5. log[last].domain = PollFilter
      BY <3>2, <3>4 DEF found, InDomain
    <3>6. last <= view.log /\ PollFilter \in view.subs \cup DmDomains(a, view)
      BY <3>2, <3>5 DEF found, InDomain, Visible
    <3>7. i \in found
      BY <1>2, <1>3, <1>7, <1>8, <2>2, <3>6 DEF found, InDomain, Visible, Views
    <3>8. {j \in found : Before(j, i)} \subseteq {j \in found : Before(j, last)}
      <4>1. SUFFICES ASSUME NEW j \in found, Before(j, i)
                     PROVE  Before(j, last)
        OBVIOUS
      <4>2. log[j].domain = PollFilter /\ j \in Nat
        BY <1>5, <3>4 DEF found, InDomain
      <4>3. j < i /\ PollFilter \in Nat
        BY <1>2, <1>8, <4>1, <4>2 DEF Before
      <4>4. j < last
        BY <1>7, <4>2, <4>3
      <4>5. QED
        BY <3>5, <4>2, <4>4 DEF Before
    <3>9. IsFiniteSet(found)
      <4>1. IsFiniteSet(1..Len(log))
        BY <1>2, FS_Interval
      <4>2. QED
        BY <1>5, <4>1, FS_Subset
    <3>10. IsFiniteSet({j \in found : Before(j, last)})
      BY <3>9, FS_Subset
    <3>11. /\ Cardinality({j \in found : Before(j, i)}) <= Cardinality({j \in found : Before(j, last)})
           /\ Cardinality({j \in found : Before(j, i)}) \in Nat
           /\ Cardinality({j \in found : Before(j, last)}) \in Nat
      BY <3>8, <3>10, FS_Subset, FS_CardinalityType
    <3>12. Cardinality({j \in found : Before(j, last)}) < ReadLimit /\ ReadLimit \in Nat
      BY <1>4, <3>1, WorkspaceAssumption DEF FirstOf
    <3>13. Cardinality({j \in found : Before(j, i)}) < ReadLimit
      BY <3>11, <3>12
    <3>14. QED
      BY <1>4, <3>7, <3>13 DEF FirstOf
  <2>3. QED
    BY <1>3, <1>7, <2>1, <2>2
<1>9. [cursor |-> last, got |-> polls[a].got \cup rows] \in Polls
  <2>1. polls[a].got \cup rows \in SUBSET Nat
    <3>1. 1..Len(log) \subseteq Nat
      OBVIOUS
    <3>2. QED
      BY <1>3, <1>7, <3>1
  <2>2. QED
    BY <1>7, <2>1 DEF Polls
<1>10. polls' \in [Agents -> Polls]
  BY <1>1, <1>2, <1>9
<1>11. ASSUME NEW b \in Agents PROVE PollOK(b)'
  <2>1. CASE b = a
    <3>1. polls'[b] = [cursor |-> last, got |-> polls[a].got \cup rows]
      BY <1>1, <1>2, <2>1
    <3>2. QED
      <4>1. polls'[b].cursor = last /\ polls'[b].got = polls[a].got \cup rows /\ UNCHANGED log
        BY <1>1, <3>1 DEF serverVars
      <4>2. last <= Len(log) /\ polls[a].got \cup rows \subseteq 1..Len(log)
        BY <1>3, <1>7
      <4>3. QED
        BY <1>8, <4>1, <4>2 DEF PollOK
  <2>2. CASE b # a
    <3>1. polls'[b] = polls[b] /\ UNCHANGED log
      BY <1>1, <1>2, <2>2 DEF serverVars
    <3>2. QED
      BY <3>1 DEF PollOK, WsInv
  <2>3. QED
    BY <2>1, <2>2
<1>12. work' \in [Workers -> Works] /\ \A v \in Workers : WorkOK(v)'
  BY <1>1, WorkGoesOn
<1>13. QED
  BY <1>1, <1>10, <1>11, <1>12
     DEF WsInv, Shape, LogOK, MessageOK, QueueOK, CallOK, Joint, Participants, ConnsOK,
         serverVars

-----------------------------------------------------------------------------
(* Server and connections.                                                  *)

\* A line that loses calls from its front, or all of them, is in order.
LEMMA LineShortens ==
    ASSUME WsInv, NEW a \in Agents,
           line' \in [Agents -> [up : BOOLEAN, queue : Seq(QueuedCalls)]],
           \A b \in Agents \ {a} : line'[b] = line[b],
           \A k \in 1..Len(line'[a].queue) :
              \E j \in 1..Len(line[a].queue) : line'[a].queue[k] = line[a].queue[j],
           \A d, b, about : Joint(d, b, about) => Joint(d, b, about)'
    PROVE  \A b \in Agents : QueueOK(b)'
<1>1. \A b \in Agents : \A k \in 1..Len(line'[b].queue) :
          \E j \in 1..Len(line[b].queue) : line'[b].queue[k] = line[b].queue[j]
  OBVIOUS
<1>2. ASSUME NEW b \in Agents, NEW k \in 1..Len(line'[b].queue),
             line'[b].queue[k].call = "post"
      PROVE  /\ line'[b].queue[k].tool = "direct"
                    => Joint(line[b].queue[k].domain, b, line[b].queue[k].about)'
             /\ OwnBody(b, line'[b].queue[k].tool, line'[b].queue[k].body)
  <2>1. PICK j \in 1..Len(line[b].queue) : line'[b].queue[k] = line[b].queue[j]
    BY <1>1
  <2>2. /\ line[b].queue[j].tool = "direct"
               => Joint(line[b].queue[j].domain, b, line[b].queue[j].about)
        /\ OwnBody(b, line[b].queue[j].tool, line[b].queue[j].body)
    BY <1>2, <2>1 DEF WsInv, QueueOK, CallOK
  <2>3. QED
    BY <2>1, <2>2 DEF Joint, Participants
<1>3. QED
  BY <1>2 DEF QueueOK, CallOK, Joint, Participants

\* The server takes or refuses a call.
LEMMA ServeSteps ==
    ASSUME WsInv, NEW a \in Agents, Serve(a)
    PROVE  WsInv'
<1> DEFINE queue == line[a].queue
           call == Head(queue)
<1>1. /\ queue # <<>> /\ line' = [line EXCEPT ![a].queue = Tail(@)]
      /\ UNCHANGED <<replica, slot, work, polls, ops>>
  BY DEF Serve
<1>2. /\ line \in [Agents -> [up : BOOLEAN, queue : Seq(QueuedCalls)]] /\ queue \in Seq(QueuedCalls)
      /\ line[a].up \in BOOLEAN /\ log \in Seq(Messages) /\ dms \in Seq(SUBSET Agents)
      /\ subs \in [Agents -> SUBSET Rooms] /\ LogOK /\ QueueOK(a)
  BY DEF WsInv, Shape
<1>3. Len(log) \in Nat /\ Len(dms) \in Nat
  BY <1>2, LenProperties
<1>4. /\ call \in QueuedCalls /\ Tail(queue) \in Seq(QueuedCalls) /\ Len(Tail(queue)) = Len(queue) - 1
      /\ \A k \in 1..Len(Tail(queue)) : Tail(queue)[k] = queue[k + 1]
      /\ Len(queue) \in Nat \ {0}
  BY <1>1, <1>2, HeadTailProperties, EmptySeq
<1>5. CallOK(a, call)
  <2>1. call = queue[1]
    BY <1>1, <1>2
  <2>2. QED
    BY <1>2, <1>4, <2>1 DEF QueueOK
<1>6. /\ line' \in [Agents -> [up : BOOLEAN, queue : Seq(QueuedCalls)]]
      /\ line'[a].queue = Tail(queue) /\ \A b \in Agents \ {a} : line'[b] = line[b]
  BY <1>1, <1>2, <1>4
<1> HIDE DEF queue, call
<1>7. CASE \/ call.call = "post" /\ log' = Append(log, NewMessage(a, call)) /\ UNCHANGED <<dms, subs>>
           \/ call.call = "dm" /\ dms' = Append(dms, {a} \cup call.with) /\ UNCHANGED <<log, subs>>
           \/ /\ call.call \in {"subscribe", "unsubscribe"} /\ UNCHANGED <<log, dms>>
              /\ subs' = [subs EXCEPT ![a] = IF call.call = "subscribe" THEN @ \cup {call.domain}
                                                                      ELSE @ \ {call.domain}]
           \/ UNCHANGED serverVars
  <2>1. /\ log' \in Seq(Messages) /\ Len(log') >= Len(log)
        /\ \A i \in 1..Len(log) : log'[i] = log[i]
        /\ \A i \in 1..Len(log') : i \in 1..Len(log) 
                                   \/ (call.call = "post" /\ log'[i] = NewMessage(a, call))
    <3>1. CASE call.call = "post" /\ log' = Append(log, NewMessage(a, call))
      <4>1. call \in QueuedPosts
        BY <1>4, <3>1 DEF QueuedCalls, Changes, Creations
      <4>2. NewMessage(a, call) \in Messages
        BY <4>1 DEF NewMessage, QueuedPosts, Messages
      <4>3. QED
        BY <1>2, <1>3, <3>1, <4>2, AppendProperties
    <3>2. CASE UNCHANGED log
      BY <1>2, <1>3, <3>2
    <3>3. QED
      BY <1>7, <3>1, <3>2 DEF serverVars
  <2>2. /\ dms' \in Seq(SUBSET Agents) /\ Len(dms') >= Len(dms)
        /\ \A i \in 1..Len(dms) : dms'[i] = dms[i]
    <3>1. CASE call.call = "dm" /\ dms' = Append(dms, {a} \cup call.with)
      <4>1. call \in Creations
        BY <1>4, <3>1 DEF QueuedCalls, Changes, QueuedPosts
      <4>2. {a} \cup call.with \in SUBSET Agents
        BY <4>1 DEF Creations
      <4>3. QED
        BY <1>2, <1>3, <3>1, <4>2, AppendProperties
    <3>2. CASE UNCHANGED dms
      BY <1>2, <1>3, <3>2
    <3>3. QED
      BY <1>7, <3>1, <3>2 DEF serverVars
  <2>3. subs' \in [Agents -> SUBSET Rooms]
    <3>1. CASE /\ call.call \in {"subscribe", "unsubscribe"}
               /\ subs' = [subs EXCEPT ![a] = IF call.call = "subscribe" THEN @ \cup {call.domain}
                                                                      ELSE @ \ {call.domain}]
      <4>1. call \in Changes
        BY <1>4, <3>1 DEF QueuedCalls, QueuedPosts, Creations
      <4>2. call.domain \in Rooms /\ subs[a] \in SUBSET Rooms
        BY <1>2, <4>1 DEF Changes
      <4>3. QED
        BY <1>2, <3>1, <4>2
    <3>2. CASE UNCHANGED subs
      BY <1>2, <3>2
    <3>3. QED
      BY <1>7, <3>1, <3>2 DEF serverVars
  <2>5. Shape'
    BY <1>1, <1>6, <2>1, <2>2, <2>3 DEF WsInv, Shape
  <2>6. /\ \A d, b, about : Joint(d, b, about) => Joint(d, b, about)'
        /\ \A m : MessageOK(m) => MessageOK(m)'
    BY <2>1, <2>2, <2>5, Grows DEF WsInv
  <2>7. \A b \in Agents : QueueOK(b)'
    <3>1. \A k \in 1..Len(Tail(queue)) : k + 1 \in 1..Len(queue) /\ Tail(queue)[k] = queue[k + 1]
      BY <1>4
    <3>2. \A k \in 1..Len(line'[a].queue) :
              \E j \in 1..Len(line[a].queue) : line'[a].queue[k] = line[a].queue[j]
      BY <1>6, <3>1 DEF queue
    <3>3. QED
      BY <1>6, <2>6, <3>2, LineShortens
  <2>8. LogOK'
    <3>1. ASSUME NEW i \in 1..Len(log') PROVE MessageOK(log[i])'
      <4>1. CASE i \in 1..Len(log)
        <5>1. MessageOK(log[i])
          BY <1>2, <4>1 DEF LogOK
        <5>2. QED
          BY <2>1, <2>6, <4>1, <5>1 DEF MessageOK, Joint, Participants
      <4>2. CASE call.call = "post" /\ log'[i] = NewMessage(a, call)
        <5>1. MessageOK(NewMessage(a, call))
          BY <1>5, <4>2 DEF MessageOK, NewMessage, CallOK
        <5>2. QED
          BY <2>6, <4>2, <5>1 DEF MessageOK, Joint, Participants
      <4>3. QED
        BY <2>1, <4>1, <4>2
    <3>2. QED
      BY <3>1 DEF LogOK
  <2>9. ASSUME NEW b \in Agents PROVE ConnsOK(b)' /\ PollOK(b)'
    <3>1. ConnsOK(b) /\ PollOK(b) /\ polls[b] \in Polls /\ replica[b] \in Seq(Views)
      BY DEF WsInv, Shape
    <3>2. Len(log') \in Nat /\ Len(dms') \in Nat /\ Len(replica[b]) \in Nat
      BY <2>1, <2>2, <3>1, LenProperties
    <3>3. \A c \in 1..Len(replica[b]) : replica[b][c] \in Views
      BY <3>1, ElementOfSeq
    <3>4. ConnsOK(b)'
      BY <1>1, <1>3, <2>1, <2>2, <3>1, <3>2, <3>3 DEF ConnsOK, Views
    <3>5. PollOK(b)'
      <4>1. 1..polls[b].cursor \subseteq 1..Len(log) /\ 1..Len(log) \subseteq 1..Len(log')
        BY <1>3, <2>1, <3>1, <3>2 DEF PollOK, Polls
      <4>2. polls[b].cursor <= Len(log') 
        BY <1>3, <2>1, <3>1, <3>2 DEF PollOK, Polls
      <4>3. QED
        BY <1>1, <2>1, <3>1, <4>1, <4>2 DEF PollOK
    <3>6. QED
      BY <3>4, <3>5
  <2>10. \A w \in Workers : WorkOK(w)'
    BY <1>1 DEF WsInv, WorkOK
  <2>11. QED
    BY <2>5, <2>7, <2>8, <2>9, <2>10 DEF WsInv
<1>8. QED
  BY <1>7 DEF Serve, queue, call

\* A replica catches up, a connection is lost, or made anew.
LEMMA ConnectionSteps ==
    ASSUME WsInv, NEW a \in Agents,
           Replicate(a) \/ LoseConnection(a) \/ ClearClient(a) \/ ConnectClient(a)
    PROVE  WsInv'
<1>1. /\ replica \in [Agents -> Seq(Views)] /\ replica[a] \in Seq(Views)
      /\ line \in [Agents -> [up : BOOLEAN, queue : Seq(QueuedCalls)]]
      /\ slot \in [Agents -> Nat] /\ subs \in [Agents -> SUBSET Rooms]
      /\ Len(log) \in Nat /\ Len(dms) \in Nat
  BY LenProperties DEF WsInv, Shape
<1>2. /\ Snapshot(a) \in Views /\ Snapshot(a).log <= Len(log) /\ Snapshot(a).dms <= Len(dms)
  BY <1>1 DEF Snapshot, Views
<1>3. Len(replica[a]) \in Nat \ {0} /\ ConnsOK(a)
  BY <1>1, LenProperties DEF WsInv, ConnsOK
<1>4. UNCHANGED <<serverVars, work, polls, ops>>
  BY DEF Replicate, LoseConnection, ClearClient, ConnectClient
<1>5. /\ line' \in [Agents -> [up : BOOLEAN, queue : Seq(QueuedCalls)]]
      /\ \A b \in Agents : QueueOK(b)'
  <2>1. CASE LoseConnection(a)
    <3>1. line' = [line EXCEPT ![a] = [up |-> FALSE, queue |-> <<>>]]
      BY <2>1 DEF LoseConnection
    <3>2. <<>> \in Seq(QueuedCalls) /\ Len(<<>>) = 0
      BY EmptySeq
    <3>3. /\ line' \in [Agents -> [up : BOOLEAN, queue : Seq(QueuedCalls)]]
          /\ line'[a].queue = <<>> /\ \A b \in Agents \ {a} : line'[b] = line[b]
      BY <1>1, <3>1, <3>2
    <3>4. 1..Len(line'[a].queue) = {}
      BY <3>2, <3>3
    <3>5. QED
      BY <1>4, <3>3, <3>4, LineShortens DEF Joint, Participants, serverVars
  <2>2. CASE ConnectClient(a)
    <3>1. /\ line' = [line EXCEPT ![a].up = TRUE]
      BY <2>2 DEF ConnectClient
    <3>2. /\ line' \in [Agents -> [up : BOOLEAN, queue : Seq(QueuedCalls)]]
          /\ \A b \in Agents : line'[b].queue = line[b].queue
      BY <1>1, <3>1
    <3>3. QED
      BY <1>4, <3>2 DEF WsInv, QueueOK, CallOK, Joint, Participants, serverVars
  <2>3. CASE UNCHANGED line
    BY <1>1, <1>4, <2>3 DEF WsInv, QueueOK, CallOK, Joint, Participants, serverVars
  <2>4. QED
    BY <2>1, <2>2, <2>3 DEF Replicate, ClearClient
<1>6. /\ replica' \in [Agents -> Seq(Views)] /\ slot' \in [Agents -> Nat]
      /\ \A b \in Agents : ConnsOK(b)' /\ Len(replica'[b]) >= Len(replica[b])
  <2>1. \A b \in Agents : ConnsOK(b) /\ Len(replica[b]) \in Nat
    BY <1>1, LenProperties DEF WsInv
  <2>2. CASE Replicate(a)
    <3>1. replica' = [replica EXCEPT ![a] = [@ EXCEPT ![Len(replica[a])] = Snapshot(a)]] /\ slot' = slot
      BY <2>2 DEF Replicate
    <3>2. /\ [replica[a] EXCEPT ![Len(replica[a])] = Snapshot(a)] \in Seq(Views)
          /\ Len([replica[a] EXCEPT ![Len(replica[a])] = Snapshot(a)]) = Len(replica[a])
          /\ \A c \in 1..Len(replica[a]) :
                [replica[a] EXCEPT ![Len(replica[a])] = Snapshot(a)][c]
                    = IF c = Len(replica[a]) THEN Snapshot(a) ELSE replica[a][c]
      BY <1>1, <1>2, <1>3, ExceptSeq
    <3>3. replica' \in [Agents -> Seq(Views)]
      BY <1>1, <3>1, <3>2
    <3>4. ASSUME NEW b \in Agents PROVE ConnsOK(b)' /\ Len(replica'[b]) >= Len(replica[b])
      <4>1. CASE b = a
        <5>1. replica'[b] = [replica[a] EXCEPT ![Len(replica[a])] = Snapshot(a)]
          BY <1>1, <3>1, <4>1
        <5>2. QED
          BY <1>2, <1>3, <1>4, <3>1, <3>2, <4>1, <5>1 DEF ConnsOK, serverVars
      <4>2. CASE b # a
        <5>1. replica'[b] = replica[b]
          BY <1>1, <3>1, <4>2
        <5>2. QED
          BY <1>4, <2>1, <3>1, <5>1 DEF ConnsOK, serverVars
      <4>3. QED
        BY <4>1, <4>2
    <3>5. QED
      BY <1>1, <3>1, <3>3, <3>4
  <2>3. CASE ConnectClient(a)
    <3>1. /\ replica' = [replica EXCEPT ![a] = Append(@, Snapshot(a))]
          /\ slot' = [slot EXCEPT ![a] = Len(replica[a]) + 1]
      BY <2>3 DEF ConnectClient
    <3>2. /\ Append(replica[a], Snapshot(a)) \in Seq(Views)
          /\ Len(Append(replica[a], Snapshot(a))) = Len(replica[a]) + 1
          /\ \A c \in 1..Len(replica[a]) : Append(replica[a], Snapshot(a))[c] = replica[a][c]
          /\ Append(replica[a], Snapshot(a))[Len(replica[a]) + 1] = Snapshot(a)
      BY <1>1, <1>2, AppendProperties
    <3>3. replica' \in [Agents -> Seq(Views)] /\ slot' \in [Agents -> Nat]
      BY <1>1, <1>3, <3>1, <3>2
    <3>4. ASSUME NEW b \in Agents PROVE ConnsOK(b)' /\ Len(replica'[b]) >= Len(replica[b])
      <4>1. CASE b = a
        <5>1. replica'[b] = Append(replica[a], Snapshot(a)) /\ slot'[b] = Len(replica[a]) + 1
          BY <1>1, <3>1, <4>1
        <5>2. \A c \in 1..Len(replica[a]) + 1 : c \in 1..Len(replica[a]) \/ c = Len(replica[a]) + 1
          BY <1>3
        <5>3. QED
          BY <1>2, <1>3, <1>4, <3>2, <4>1, <5>1, <5>2 DEF ConnsOK, serverVars
      <4>2. CASE b # a
        <5>1. replica'[b] = replica[b] /\ slot'[b] = slot[b]
          BY <1>1, <3>1, <4>2
        <5>2. QED
          BY <1>4, <2>1, <5>1 DEF ConnsOK, serverVars
      <4>3. QED
        BY <4>1, <4>2
    <3>5. QED
      BY <3>3, <3>4
  <2>4. CASE LoseConnection(a) \/ ClearClient(a)
    <3>1. UNCHANGED replica /\ (slot' = slot \/ slot' = [slot EXCEPT ![a] = 0])
      BY <2>4 DEF LoseConnection, ClearClient
    <3>2. \A b \in Agents : slot'[b] \in {slot[b], 0} /\ slot' \in [Agents -> Nat]
      BY <1>1, <3>1
    <3>3. QED
      BY <1>1, <1>4, <2>1, <3>1, <3>2 DEF ConnsOK, serverVars
  <2>5. QED
    BY <2>2, <2>3, <2>4
<1>7. \A w \in Workers : WorkOK(w)'
  <2>1. SUFFICES ASSUME NEW w \in Workers PROVE WorkOK(w)'
    OBVIOUS
  <2>2. Owner[w] \in Agents /\ WorkOK(w) /\ work[w].conn \in Nat
    BY WorkspaceAssumption DEF WsInv, Shape, Works
  <2>3. Len(replica[Owner[w]]) \in Nat /\ Len(replica'[Owner[w]]) \in Nat
    BY <1>1, <1>6, <2>2, LenProperties
  <2>4. QED
    BY <1>4, <1>6, <2>2, <2>3 DEF WorkOK
<1>8. QED
  BY <1>4, <1>5, <1>6, <1>7
     DEF WsInv, Shape, LogOK, MessageOK, Joint, Participants, PollOK, serverVars

-----------------------------------------------------------------------------
(* The theorems.                                                            *)

LEMMA WorkspaceInit == WsInit => WsInv
<1> SUFFICES ASSUME WsInit PROVE WsInv
  OBVIOUS
<1>1. log = <<>> /\ dms = <<>> /\ Len(<<>>) = 0
  BY EmptySeq DEF WsInit
<1>2. [log |-> 0, dms |-> 0, subs |-> Rooms] \in Views
  BY DEF Views
<1>3. <<[log |-> 0, dms |-> 0, subs |-> Rooms]>> \in Seq(Views)
  BY <1>2
<1>4. Shape
  <2>1. log \in Seq(Messages) /\ dms \in Seq(SUBSET Agents)
    BY <1>1, EmptySeq
  <2>2. line \in [Agents -> [up : BOOLEAN, queue : Seq(QueuedCalls)]]
    BY EmptySeq DEF WsInit
  <2>3. work \in [Workers -> Works]
    BY DEF WsInit, NoWork, Works, AllOps, Places
  <2>4. QED
    BY <1>3, <2>1, <2>2, <2>3, WorkspaceAssumption DEF WsInit, Shape, Polls
<1>5. \A a \in Agents : ConnsOK(a) /\ QueueOK(a) /\ PollOK(a)
  <2>1. SUFFICES ASSUME NEW a \in Agents PROVE ConnsOK(a) /\ QueueOK(a) /\ PollOK(a)
    OBVIOUS
  <2>2. QueueOK(a)
    BY <1>1 DEF WsInit, QueueOK
  <2>3. PollOK(a)
    BY <1>1 DEF WsInit, PollOK
  <2>4. ConnsOK(a)
    BY <1>1 DEF WsInit, ConnsOK
  <2>5. QED
    BY <2>2, <2>3, <2>4
<1>6. \A w \in Workers : WorkOK(w)
  BY WorkspaceAssumption DEF WsInit, WorkOK, NoWork
<1>7. LogOK
  BY <1>1 DEF LogOK
<1>8. QED
  BY <1>4, <1>5, <1>6, <1>7 DEF WsInv

LEMMA WorkspaceStep == WsInv /\ [WsNext]_wsVars => WsInv'
<1> SUFFICES ASSUME WsInv, [WsNext]_wsVars PROVE WsInv'
  OBVIOUS
<1>1. CASE UNCHANGED wsVars
  BY <1>1 DEF wsVars, WsInv, Shape, LogOK, MessageOK, ConnsOK, QueueOK, CallOK, PollOK, WorkOK,
             Joint, Participants
<1>2. ASSUME NEW w \in Workers, Tool(w) PROVE WsInv'
  <2>1. CASE SubscriptionSeen(w) \/ TimeOut(w)
    BY <2>1, ReturnSteps DEF SubscriptionSeen, TimeOut
  <2>2. QED
    BY <1>2, <2>1, PostSteps, MessageSteps, CreateSteps, PollSteps DEF Tool
<1>3. ASSUME NEW w \in Workers, NEW op \in Ops[w], BeginTool(w, op) PROVE WsInv'
  BY <1>3, BeginSteps
<1>4. ASSUME NEW w \in Workers, Outside(AgentOf(w)) PROVE WsInv'
  <2>1. AgentOf(w) \in Agents
    BY WorkspaceAssumption DEF AgentOf
  <2>2. QED
    BY <1>4, <2>1, ServeSteps, ConnectionSteps DEF Outside
<1>5. QED
  BY <1>1, <1>2, <1>3, <1>4 DEF WsNext

\* Types of the workspace; no replica is ahead of the server.
THEOREM WorkspaceTypes == WsSpec => []WsTypeOK
<1>1. WsInv => WsTypeOK
  <2> SUFFICES ASSUME WsInv PROVE WsTypeOK
    OBVIOUS
  <2>1. log \in Seq([domain : Nat \ {0}, author : Agents, tool : PostTools,
                     about : Tasks \cup Agents, body : Bodies])
    <3>1. Messages \subseteq [domain : Nat \ {0}, author : Agents, tool : PostTools,
                              about : Tasks \cup Agents, body : Bodies]
      BY DEF Messages, Abouts
    <3>2. QED
      BY <3>1, SeqMonotonic DEF WsInv, Shape
  <2>2. Len(log) \in Nat /\ Len(dms) \in Nat
    BY LenProperties DEF WsInv, Shape
  <2>3. ASSUME NEW a \in Agents, NEW c \in DOMAIN replica[a]
        PROVE  /\ replica[a][c].log \in 0..Len(log) /\ replica[a][c].dms \in 0..Len(dms)
               /\ replica[a][c].subs \subseteq Rooms
    <3>1. replica[a] \in Seq(Views)
      BY DEF WsInv, Shape
    <3>2. c \in 1..Len(replica[a]) /\ replica[a][c] \in Views
      BY <3>1, LenProperties, ElementOfSeq
    <3>3. QED
      BY <2>2, <3>2 DEF WsInv, ConnsOK, Views
  <2>4. ASSUME NEW a \in Agents PROVE line[a].up \in BOOLEAN /\ slot[a] \in 0..Len(replica[a])
    <3>1. Len(replica[a]) \in Nat
      BY LenProperties DEF WsInv, Shape
    <3>2. QED
      BY <3>1 DEF WsInv, Shape, ConnsOK
  <2>5. ASSUME NEW w \in Workers PROVE work[w].conn \in 0..Len(replica[AgentOf(w)])
    <3>1. Owner[w] \in Agents
      BY WorkspaceAssumption
    <3>2. Len(replica[Owner[w]]) \in Nat
      BY <3>1, LenProperties DEF WsInv, Shape
    <3>3. QED
      BY <3>2 DEF WsInv, Shape, WorkOK, Works, AgentOf
  <2>6. \A a \in Agents : polls[a].cursor \in 0..Len(log) /\ polls[a].got \subseteq 1..Len(log)
    BY <2>2 DEF WsInv, Shape, PollOK, Polls
  <2>7. QED
    BY <2>1, <2>3, <2>4, <2>5, <2>6 DEF WsTypeOK, WsInv, Shape, PostTools
<1>2. QED
  BY <1>1, WorkspaceInit, WorkspaceStep, PTL DEF WsSpec

\* A read of no more rows than its limit is cut off nowhere.
LEMMA WithinLimit ==
    ASSUME NEW rows, IsFiniteSet(rows), NEW limit \in Nat, Cardinality(rows) <= limit,
           \A i \in rows : ~Before(i, i)
    PROVE  LastOf(rows, limit) = rows
<1>1. SUFFICES ASSUME NEW i \in rows
               PROVE  Cardinality({j \in rows : Before(i, j)}) < limit
  BY DEF LastOf
<1>2. {j \in rows : Before(i, j)} \in SUBSET rows /\ i \notin {j \in rows : Before(i, j)}
  OBVIOUS
<1>3. /\ Cardinality({j \in rows : Before(i, j)}) <= Cardinality(rows)
      /\ Cardinality({j \in rows : Before(i, j)}) # Cardinality(rows)
      /\ Cardinality({j \in rows : Before(i, j)}) \in Nat /\ Cardinality(rows) \in Nat
  <2>1. /\ Cardinality({j \in rows : Before(i, j)}) <= Cardinality(rows)
        /\ Cardinality(rows) = Cardinality({j \in rows : Before(i, j)})
               => rows = {j \in rows : Before(i, j)}
        /\ IsFiniteSet({j \in rows : Before(i, j)})
    BY <1>2, FS_Subset
  <2>2. QED
    BY <1>2, <2>1, FS_CardinalityType
<1>4. QED
  BY <1>3

\* While no more messages are visible than an overview looks at, what it shows
\* of a domain is what a read of that domain shows.
LEMMA OverviewIsRead ==
    ASSUME WsInv, NEW a \in Agents, Cardinality(Visible(a, Latest(a))) <= StatusLimit,
           NEW d \in Nat \ {0}, NEW limit
    PROVE  StatusOf(a, Latest(a), d, limit) = ReadRecent(a, Latest(a), d, limit)
<1> DEFINE rows == Visible(a, Latest(a))
<1>1. /\ rows \subseteq 1..Len(log) /\ Len(log) \in Nat /\ log \in Seq(Messages)
  <2>1. replica[a] \in Seq(Views) /\ ConnsOK(a) /\ log \in Seq(Messages)
    BY DEF WsInv, Shape
  <2>2. Len(replica[a]) \in 1..Len(replica[a]) /\ Len(log) \in Nat
    BY <2>1, LenProperties DEF ConnsOK
  <2>3. Latest(a) \in Views /\ Latest(a).log <= Len(log)
    BY <2>1, <2>2, ElementOfSeq DEF Latest, ConnsOK
  <2>4. QED
    BY <2>1, <2>2, <2>3 DEF Visible, Views
<1>2. IsFiniteSet(rows)
  <2>1. IsFiniteSet(1..Len(log))
    BY <1>1, FS_Interval
  <2>2. QED
    BY <1>1, <2>1, FS_Subset
<1>3. \A i \in rows : ~Before(i, i)
  <2>1. SUFFICES ASSUME NEW i \in rows PROVE ~Before(i, i)
    OBVIOUS
  <2>2. i \in 1..Len(log) /\ log[i] \in Messages
    BY <1>1, ElementOfSeq
  <2>3. log[i].domain \in Nat /\ i \in Nat
    BY <2>2 DEF Messages
  <2>4. QED
    BY <2>3 DEF Before
<1>4. LastOf(rows, StatusLimit) = rows
  BY <1>2, <1>3, WithinLimit, WorkspaceAssumption
<1>5. ReadRecent(a, Latest(a), AllDomains, StatusLimit) = rows
  <2>1. InDomain(rows, AllDomains) = rows
    BY DEF InDomain
  <2>2. QED
    BY <1>4, <2>1 DEF ReadRecent
<1>6. {i \in rows : log[i].domain = d} = InDomain(rows, d)
  BY DEF InDomain, AllDomains
<1>7. QED
  BY <1>5, <1>6 DEF StatusOf, ReadRecent

\* Whatever connections are lost, and however small the limits are, an agent
\* that reads on after the last message it has seen of a domain misses none,
\* and an overview that is not cut off shows what a read would show.
THEOREM NothingSkipped == WsSpec => []ReadsSkipNothing
<1>1. WsInv => PollsSkipNothing
  BY DEF WsInv, PollOK, PollsSkipNothing
<1>2. WsInv => StatusWithinLimit
  <2>1. SUFFICES ASSUME WsInv, NEW a \in Agents, Cardinality(Visible(a, Latest(a))) <= StatusLimit,
                        NEW d \in 1..NumRooms + Len(dms), NEW limit \in 1..ReadLimit
                 PROVE  StatusOf(a, Latest(a), d, limit) = ReadRecent(a, Latest(a), d, limit)
    BY DEF StatusWithinLimit
  <2>2. d \in Nat \ {0}
    BY WorkspaceAssumption, LenProperties DEF WsInv, Shape
  <2>3. QED
    BY <2>1, <2>2, OverviewIsRead
<1>3. QED
  BY <1>1, <1>2, WorkspaceInit, WorkspaceStep, PTL DEF WsSpec, ReadsSkipNothing

\* Of what the tools for claims post under a handle, only its owner's completion
\* ends a claim, and what else ends it was written in that form; a direct
\* message is where its sender and the one it is for both take part, however
\* long the call was on its way and whatever connection found the domain.
THEOREM ReachesItsOwn == WsSpec => []WorkReachesItsOwn
<1>1. WsInv => ClaimsEndByOwner
  <2>1. SUFFICES ASSUME WsInv, NEW a \in Agents,
                        NEW i \in Found(a, Latest(a), "claim") \ ListClaims(a, Latest(a))
                 PROVE  \E done \in 1..Len(log) :
                            /\ log[done].body.kind = "done"
                            /\ log[done].domain = log[i].domain /\ log[done].about = log[i].about
                            /\ \/ log[done].author = log[i].author
                               \/ "text" \in {log[done].tool, log[i].tool} \/ log[i].body.handle = NoHandle
    BY DEF ClaimsEndByOwner
  <2>2. PICK done \in Found(a, Latest(a), "done") : Completes(done, i)
    BY DEF ListClaims
  <2>3. replica[a] \in Seq(Views) /\ ConnsOK(a)
    BY <2>1 DEF WsInv, Shape
  <2>4. Latest(a) \in Views /\ Latest(a).log <= Len(log) /\ Len(log) \in Nat
    <3>1. Len(replica[a]) \in 1..Len(replica[a]) /\ Len(log) \in Nat
      BY <2>3, LenProperties DEF ConnsOK, WsInv, Shape
    <3>2. QED
      BY <2>3, <3>1, ElementOfSeq DEF Latest, ConnsOK
  <2>5. /\ done \in 1..Len(log) /\ log[done].body.kind = "done"
        /\ i \in 1..Len(log) /\ log[i].body.kind = "claim"
    BY <2>4 DEF Found, Search, Visible, Views
  <2>6. ASSUME NEW j \in {i, done}, log[j].tool # "text", log[j].body.handle # NoHandle
        PROVE  log[j].body.handle = log[j].author
    BY <2>1, <2>5, <2>6 DEF WsInv, LogOK, MessageOK, OwnBody
  <2>7. QED
    BY <2>2, <2>5, <2>6 DEF Completes
<1>2. WsInv => DirectReachesBoth
  <2>1. SUFFICES ASSUME WsInv, NEW i \in 1..Len(log), log[i].tool = "direct"
                 PROVE  IsDm(log[i].domain) /\ {log[i].author, log[i].about} \subseteq Participants(log[i].domain)
    BY DEF DirectReachesBoth
  <2>2. Joint(log[i].domain, log[i].author, log[i].about)
    BY <2>1 DEF WsInv, LogOK, MessageOK
  <2>3. log[i] \in Messages /\ Len(dms) \in Nat /\ NumRooms \in Nat
    BY <2>1, ElementOfSeq, LenProperties, WorkspaceAssumption DEF WsInv, Shape
  <2>4. log[i].domain \in Nat
    BY <2>3 DEF Messages
  <2>5. IsDm(log[i].domain)
    BY <2>2, <2>3, <2>4 DEF Joint, IsDm
  <2>6. QED
    BY <2>2, <2>5 DEF Joint
<1>3. QED
  BY <1>1, <1>2, WorkspaceInit, WorkspaceStep, PTL DEF WsSpec, WorkReachesItsOwn

-----------------------------------------------------------------------------
(* The replica and the tools that look at it.                              *)

Posts == [author : Authors, domain : Areas, kind : {"claim", "done", "text"},
          handle : STRING, quotes : SUBSET {"claim", "done"},
          word : Seq(STRING), reply : Nat, at : Int]
Marks == {"claim", "done"}
Healths == {"none", "active", "idle", "stale", "silent", "unknown"}
Overviews == [tool : {c.tool : c \in Calls} \cup {"none"},
              at : {"idle", "claim", "done", "mentions", "health", "answered"},
              domain : {c.domain : c \in Calls} \cup {EveryDomain},
              found : [Marks -> SUBSET Nat], mentions : SUBSET Nat,
              health : [Authors -> Healths], open : SUBSET Nat, steady : BOOLEAN]

ViewTypes ==
    /\ posts \in Seq(Posts) /\ Len(posts) <= MaxSaid
    /\ cache \in [n : 0..Len(posts), subs : SUBSET Areas]
    /\ clock \in 0..MaxTime /\ moves \in 0..MaxMoves
    /\ overview \in Overviews

\* Messages come one after the other, and answer earlier ones.
PostsInOrder ==
    \A i \in 1..Len(posts) :
        /\ posts[i].reply < i /\ posts[i].at <= clock + Skew
        /\ \A j \in 1..i : posts[j].at <= posts[i].at

ThatAre(kind, d) == {i \in Rows(d) : posts[i].kind = kind}
OpenNow == OpenClaims(ThatAre("claim", EveryDomain), ThatAre("done", EveryDomain))

\* What has been found was there, and still is while nothing is unsubscribed.
FoundThere ==
    /\ \A kind \in Marks : \A i \in overview.found[kind] : posts[i].kind = kind
    /\ \A i \in overview.found["claim"] \cup overview.found["done"] \cup overview.mentions :
          /\ i \in 1..cache.n /\ overview.domain \in {EveryDomain, posts[i].domain}
          /\ overview.steady => posts[i].domain \in cache.subs

\* What is open now is remembered, and so is what a tool that has read both
\* takes for open.
OpenRemembered ==
    /\ overview = NoCall \/ overview.at # "idle"
    /\ overview.at # "idle" => OpenNow \subseteq overview.open
    /\ (overview.at \in {"mentions", "health", "answered"} /\ overview.steady
           /\ Cardinality(Marked(overview.domain, "done")) <= ClaimLimit)
           => ClaimsShown \subseteq overview.open

\* Whoever is called stale has posted nothing since a claim that is shown.
HealthOfNewest ==
    (overview.at = "answered" /\ overview.tool = "list" /\ overview.steady) =>
        \A i \in overview.found["claim"] :
            overview.health[posts[i].author] \in {"stale", "silent", "unknown"} => Age(i) >= Stale

ViewsInv == ViewTypes /\ PostsInOrder /\ FoundThere /\ OpenRemembered /\ HealthOfNewest

-----------------------------------------------------------------------------
(* Rows, and the newest or oldest of them.                                 *)

LEMMA RowsThere ==
    ASSUME ViewTypes, NEW d
    PROVE  /\ Rows(d) \subseteq 1..cache.n /\ Rows(d) \subseteq 1..Len(posts)
           /\ Rows(d) \subseteq Nat \ {0} /\ IsFiniteSet(Rows(d)) /\ Cardinality(Rows(d)) <= Len(posts)
           /\ Len(posts) \in Nat /\ DOMAIN posts = 1..Len(posts)
           /\ cache.n \in 0..Len(posts) /\ cache.subs \subseteq Areas
           /\ \A i \in 1..Len(posts) : posts[i] \in Posts
<1>1. posts \in Seq(Posts) /\ cache.n \in 0..Len(posts) /\ cache.subs \subseteq Areas
  BY DEF ViewTypes
<1>2. Len(posts) \in Nat /\ DOMAIN posts = 1..Len(posts) /\ \A i \in 1..Len(posts) : posts[i] \in Posts
  BY <1>1, LenProperties, ElementOfSeq
<1>3. Rows(d) \subseteq 1..cache.n /\ Rows(d) \subseteq 1..Len(posts) /\ Rows(d) \subseteq Nat \ {0}
  BY <1>1, <1>2 DEF Rows
<1>4. IsFiniteSet(1..Len(posts)) /\ Cardinality(1..Len(posts)) = Len(posts)
  BY <1>2, FS_Interval
<1>5. IsFiniteSet(Rows(d)) /\ Cardinality(Rows(d)) <= Len(posts)
  BY <1>3, <1>4, FS_Subset
<1>6. QED
  BY <1>1, <1>2, <1>3, <1>5

\* A limit leaves all of what is not more.
LEMMA NothingCutOff ==
    ASSUME NEW rows, rows \subseteq Nat, IsFiniteSet(rows), NEW limit \in Nat, Cardinality(rows) <= limit
    PROVE  Newest(rows, limit) = rows /\ Oldest(rows, limit) = rows
<1>1. ASSUME NEW i \in rows PROVE Cardinality({j \in rows : j > i}) < limit
  <2> DEFINE T == {j \in rows : j > i}
  <2>1. T \in SUBSET rows /\ i \notin T
    OBVIOUS
  <2> HIDE DEF T
  <2>2. Cardinality(T) \in Nat /\ Cardinality(rows) \in Nat /\ Cardinality(T) < Cardinality(rows)
    BY <2>1, Fewer
  <2>3. QED
    BY <2>2 DEF T
<1>2. ASSUME NEW i \in rows PROVE Cardinality({j \in rows : j < i}) < limit
  <2> DEFINE T == {j \in rows : j < i}
  <2>1. T \in SUBSET rows /\ i \notin T
    OBVIOUS
  <2> HIDE DEF T
  <2>2. Cardinality(T) \in Nat /\ Cardinality(rows) \in Nat /\ Cardinality(T) < Cardinality(rows)
    BY <2>1, Fewer
  <2>3. QED
    BY <2>2 DEF T
<1>3. QED
  BY <1>1, <1>2 DEF Newest, Oldest

-----------------------------------------------------------------------------
(* The entry of an author, of a set of rows in any order.                  *)

Entry(last, domain, count, domains, health) ==
    [last |-> last, domain |-> domain, count |-> count, domains |-> domains, health |-> health]

By(a, S) == {i \in S : posts[i].author = a}
EntryOf(a, S) ==
    IF By(a, S) = {} THEN NoEntry
    ELSE Entry(Max(By(a, S)), posts[Max(By(a, S))].domain, Cardinality(By(a, S)),
               {posts[i].domain : i \in By(a, S)}, HealthAt(Max(By(a, S))))

AlsoIn(domains, i) == domains \cup {posts[i].domain}

LEMMA NoteIs ==
    ASSUME NEW i \in Nat, NEW last \in Nat, NEW count \in Nat, NEW domain, NEW domains, NEW health
    PROVE  Note(Entry(last, domain, count, domains, health), i) =
               IF i > last THEN Entry(i, posts[i].domain, count + 1, AlsoIn(domains, i), HealthAt(i))
               ELSE Entry(last, domain, count + 1, AlsoIn(domains, i), health)
<1> DEFINE entry == Entry(last, domain, count, domains, health)
           there == posts[i].domain
           more == AlsoIn(domains, i)
           at == HealthAt(i)
           one == count + 1
           seen == [entry EXCEPT !.count = one, !.domains = more]
<1>0. /\ \A x : [entry EXCEPT !.count = x] = Entry(last, domain, x, domains, health)
      /\ \A x : [Entry(last, domain, one, domains, health) EXCEPT !.domains = x]
                  = Entry(last, domain, one, x, health)
      /\ \A x : [Entry(last, domain, one, more, health) EXCEPT !.last = x] = Entry(x, domain, one, more, health)
      /\ \A x : [Entry(i, domain, one, more, health) EXCEPT !.domain = x] = Entry(i, x, one, more, health)
      /\ \A x : [Entry(i, there, one, more, health) EXCEPT !.health = x] = Entry(i, there, one, more, x)
  <2> HIDE DEF there, at, one, more
  <2>1. QED
    BY DEF Entry
<1> DEFINE counted == Entry(last, domain, one, domains, health)
           settled == Entry(last, domain, one, more, health)
           newer == Entry(i, domain, one, more, health)
           moved == Entry(i, there, one, more, health)
           fresh == Entry(i, there, one, more, at)
<1>1. /\ [entry EXCEPT !.count = one] = counted /\ [counted EXCEPT !.domains = more] = settled
      /\ [settled EXCEPT !.last = i] = newer /\ [newer EXCEPT !.domain = there] = moved
      /\ [moved EXCEPT !.health = at] = fresh
  BY <1>0
<1>2. Note(entry, i) =
          IF i > last THEN [[[seen EXCEPT !.last = i] EXCEPT !.domain = there] EXCEPT !.health = at] ELSE seen
  <2> HIDE DEF at
  <2>1. entry.count = count /\ entry.domains = domains /\ entry.last = last
    BY DEF Entry
  <2> HIDE DEF entry
  <2>2. QED
    BY <2>1 DEF Note, at, AlsoIn
<1> HIDE DEF at, one
<1>3. seen = [[entry EXCEPT !.count = one] EXCEPT !.domains = more]
  OBVIOUS
<1> HIDE DEF there, more, seen, entry, counted, settled, newer, moved, fresh
<1>4. seen = settled
  BY <1>1, <1>3
<1>5. [[[seen EXCEPT !.last = i] EXCEPT !.domain = there] EXCEPT !.health = at] = fresh
  BY <1>1, <1>4
<1>6. Note(entry, i) = IF i > last THEN fresh ELSE settled
  BY <1>2, <1>4, <1>5
<1>7. QED
  BY <1>6 DEF fresh, settled, one, more, there, at, entry

LEMMA NoteGives ==
    ASSUME ViewTypes, NEW S \in SUBSET (1..Len(posts)), NEW i \in 1..Len(posts), i \notin S
    PROVE  Note(EntryOf(posts[i].author, S), i) = EntryOf(posts[i].author, S \cup {i})
<1> DEFINE a == posts[i].author
           n == Len(posts)
           old == By(a, S)
           new == By(a, S \cup {i})
<1>1. n \in Nat
  BY RowsThere
<1>2. new = old \cup {i} /\ i \notin old /\ old \in SUBSET (1..n) /\ new \in SUBSET (1..n) /\ new # {}
  BY DEF By
<1> HIDE DEF a, n, old, new
<1>3. i \in 1..n /\ i \in Nat /\ (1..n) \subseteq 0..n
  BY <1>1 DEF n
<1>4. IsFiniteSet(old) /\ Cardinality(new) = Cardinality(old) + 1 /\ (old = {} => Cardinality(old) = 0)
  <2>1. IsFiniteSet(old)
    <3>1. IsFiniteSet(1..n)
      BY <1>1, FS_Interval
    <3>2. QED
      BY <1>2, <3>1, FS_Subset
  <2>2. QED
    BY <1>2, <2>1, FS_AddElement, FS_EmptySet
<1>5. {posts[j].domain : j \in new} = {posts[j].domain : j \in old} \cup {posts[i].domain}
  BY <1>2
<1>6. CASE old = {}
  <2>1. new = {i}
    BY <1>2, <1>6
  <2>2. Max(new) = i
    <3>1. new \in SUBSET (0..n) /\ i \in new /\ \A y \in new : y <= i
      BY <1>2, <1>3, <2>1
    <3>2. QED
      BY <1>1, <3>1, MaxIs
  <2>3. EntryOf(a, S) = NoEntry
    BY <1>6 DEF EntryOf, old
  <2>4. EntryOf(a, S \cup {i}) = Entry(i, posts[i].domain, Cardinality(new),
                                       {posts[j].domain : j \in new}, HealthAt(i))
    BY <1>2, <2>2 DEF EntryOf, new
  <2>5. Cardinality(new) = 1 /\ {posts[j].domain : j \in new} = {posts[i].domain}
    BY <1>4, <1>6, <2>1
  <2>6. i > 0
    BY <1>3
  <2>7. Note(NoEntry, i) = Entry(i, posts[i].domain, 1, {posts[i].domain}, HealthAt(i))
    <3>1. NoEntry = Entry(0, EveryDomain, 0, {}, "unknown")
      BY DEF NoEntry, Entry
    <3>2. AlsoIn({}, i) = {posts[i].domain} /\ 0 + 1 = 1
      BY DEF AlsoIn
    <3>3. Note(NoEntry, i) = Entry(i, posts[i].domain, 0 + 1, AlsoIn({}, i), HealthAt(i))
      BY <1>3, <2>6, <3>1, NoteIs
    <3>4. QED
      BY <3>2, <3>3
  <2>8. QED
    BY <2>3, <2>4, <2>5, <2>7 DEF a
<1>7. CASE old # {}
  <2> DEFINE m == Max(old)
             e == EntryOf(a, S)
  <2>1. m \in old /\ (\A j \in old : j <= m) /\ m \in 1..n
    BY <1>1, <1>2, <1>3, <1>7, MaxOf
  <2> HIDE DEF m
  <2>2. e = Entry(m, posts[m].domain, Cardinality(old), {posts[j].domain : j \in old}, HealthAt(m))
    BY <1>7 DEF EntryOf, old, m
  <2> DEFINE x == IF i > m THEN i ELSE m
  <2>3. x \in new /\ \A j \in new : j <= x
    BY <1>2, <1>3, <2>1
  <2>4. Max(new) = x
    <3> HIDE DEF x
    <3>1. QED
      BY <1>1, <1>2, <1>3, <2>3, MaxIs
  <2>5. EntryOf(a, S \cup {i}) = Entry(x, posts[x].domain, Cardinality(new),
                                       {posts[j].domain : j \in new}, HealthAt(x))
    BY <1>2, <2>4 DEF EntryOf, new
  <2> HIDE DEF e
  <2>6. Note(e, i) = IF i > m
             THEN Entry(i, posts[i].domain, Cardinality(old) + 1,
                        {posts[j].domain : j \in old} \cup {posts[i].domain}, HealthAt(i))
             ELSE Entry(m, posts[m].domain, Cardinality(old) + 1,
                        {posts[j].domain : j \in old} \cup {posts[i].domain}, HealthAt(m))
    <3> DEFINE all == {posts[j].domain : j \in old}
               some == posts[m].domain
               many == Cardinality(old)
               when == HealthAt(m)
    <3>0. m \in Nat /\ many \in Nat
      BY <1>1, <1>4, <2>1, FS_CardinalityType
    <3> HIDE DEF all, some, many, when
    <3>1. e = Entry(m, some, many, all, when)
      BY <2>2 DEF all, some, many, when
    <3>2. Note(e, i) = IF i > m THEN Entry(i, posts[i].domain, many + 1, AlsoIn(all, i), HealthAt(i))
                       ELSE Entry(m, some, many + 1, AlsoIn(all, i), when)
      BY <1>3, <3>0, <3>1, NoteIs
    <3>3. QED
      BY <3>2 DEF all, some, many, when, AlsoIn
  <2>7. Note(e, i) = EntryOf(a, S \cup {i})
    <3> DEFINE all == {posts[j].domain : j \in old} \cup {posts[i].domain}
    <3> HIDE DEF all
    <3>1. /\ {posts[j].domain : j \in new} = all /\ Cardinality(new) = Cardinality(old) + 1
          /\ {posts[j].domain : j \in old} \cup {posts[i].domain} = all
      BY <1>4, <1>5 DEF all
    <3>2. CASE i > m
      BY <2>5, <2>6, <3>1, <3>2
    <3>3. CASE ~(i > m)
      BY <2>5, <2>6, <3>1, <3>3
    <3>4. QED
      BY <3>2, <3>3
  <2>8. QED
    BY <2>7 DEF a, e
<1>8. QED
  BY <1>6, <1>7

Entries == [last : Nat, domain : Areas \cup {EveryDomain}, count : Nat, domains : SUBSET Areas,
            health : Healths]

LEMMA NoteTyped ==
    ASSUME ViewTypes, NEW e \in Entries, NEW i \in 1..Len(posts)
    PROVE  Note(e, i) \in Entries
<1>1. posts[i] \in Posts /\ i \in Nat
  BY RowsThere
<1>2. posts[i].domain \in Areas /\ HealthAt(i) \in Healths
  BY <1>1 DEF Posts, HealthAt, Healths
<1>3. e.last \in Nat /\ e.count \in Nat /\ e.domains \subseteq Areas /\ e.health \in Healths
      /\ e.domain \in Areas \cup {EveryDomain}
      /\ e = Entry(e.last, e.domain, e.count, e.domains, e.health)
  BY DEF Entries, Entry
<1>4. AlsoIn(e.domains, i) \in SUBSET Areas
  BY <1>2, <1>3 DEF AlsoIn
<1>5. ASSUME NEW l \in Nat, NEW d \in Areas \cup {EveryDomain}, NEW c \in Nat, NEW s \in SUBSET Areas,
             NEW h \in Healths
      PROVE  Entry(l, d, c, s, h) \in Entries
  BY DEF Entry, Entries
<1>6. Note(e, i) = IF i > e.last
          THEN Entry(i, posts[i].domain, e.count + 1, AlsoIn(e.domains, i), HealthAt(i))
          ELSE Entry(e.last, e.domain, e.count + 1, AlsoIn(e.domains, i), e.health)
  BY <1>1, <1>3, NoteIs
<1>7. e.count + 1 \in Nat /\ posts[i].domain \in Areas \cup {EveryDomain}
  BY <1>2, <1>3
<1>8. QED
  BY <1>1, <1>2, <1>3, <1>4, <1>5, <1>6, <1>7

\* A sequence of a set's elements has each of them once.
LEMMA OrderParts ==
    ASSUME NEW R, IsFiniteSet(R), NEW order \in SetToSeqs(R)
    PROVE  /\ Len(order) \in Nat /\ order \in [1..Len(order) -> R]
           /\ \A k, m \in 1..Len(order) : k # m => order[k] # order[m]
           /\ {order[k] : k \in 1..Len(order)} = R
<1> DEFINE n == Cardinality(R)
           D == 1..n
<1>1. n \in Nat /\ order \in [D -> R] /\ \A k, m \in D : k # m => order[k] # order[m]
  BY FS_CardinalityType DEF SetToSeqs
<1>2. order \in Injection(D, R)
  BY <1>1 DEF Injection, IsInjective
<1>3. IsFiniteSet(D) /\ Cardinality(D) = n
  BY <1>1, FS_Interval
<1>4. order \in Surjection(D, R)
  <2> HIDE DEF D
  <2>1. QED
    BY <1>2, <1>3, FS_Injection
<1>5. {order[k] : k \in D} = R
  BY <1>1, <1>4 DEF Surjection
<1> HIDE DEF n
<1>6. Len(order) = n
  BY <1>1
<1>7. QED
  BY <1>1, <1>5, <1>6

LEMMA ActivityIs ==
    ASSUME ViewTypes, NEW R \in SUBSET (1..Len(posts)), NEW order \in SetToSeqs(R), NEW who,
           NEW a \in Authors \cap who
    PROVE  Activity(order, who)[a] = EntryOf(a, R)
<1> DEFINE n == Len(order)
           F == [Authors -> Entries]
           none == [b \in Authors |-> NoEntry]
           Noted(e, i) == IF posts[i].author \in who THEN [e EXCEPT ![posts[i].author] = Note(@, i)] ELSE e
           step == [p \in F \X (1..n) |-> Noted(p[1], order[p[2]])]
           Defines(w) == w = [k \in 0..n |-> IF k = 0 THEN none ELSE Noted(w[k - 1], order[k])]
           seen == CHOOSE w : Defines(w)
           Img(k) == {order[m] : m \in 1..k}
           T == {k \in 0..n : seen[k] \in F /\ seen[k][a] = EntryOf(a, Img(k))}
<1>0. /\ Len(posts) \in Nat /\ IsFiniteSet(R) /\ n \in Nat /\ order \in [1..n -> R] /\ Img(n) = R
      /\ \A k, m \in 1..n : k # m => order[k] # order[m]
      /\ \A k \in 1..n : order[k] \in 1..Len(posts)
  <2>1. Len(posts) \in Nat
    BY RowsThere
  <2>2. IsFiniteSet(R)
    <3>1. IsFiniteSet(1..Len(posts))
      BY <2>1, FS_Interval
    <3>2. QED
      BY <3>1, FS_Subset
  <2>3. QED
    BY <2>1, <2>2, OrderParts
<1>1. Activity(order, who) = seen[n]
  BY DEF Activity
<1>2. none \in F
  BY DEF NoEntry, Entries, Healths
<1>3. ASSUME NEW e \in F, NEW i \in 1..Len(posts) PROVE Noted(e, i) \in F
  <2>1. posts[i].author \in Authors
    BY <1>3, RowsThere DEF Posts
  <2>2. Note(e[posts[i].author], i) \in Entries
    BY <2>1, NoteTyped
  <2>3. QED
    BY <2>1, <2>2
<1>4. \A e \in F, k \in 1..n : step[<<e, k>>] = Noted(e, order[k])
  OBVIOUS
<1>5. step \in StepsOn(F, n)
  BY <1>0, <1>3 DEF StepsOn
<1> HIDE DEF step, F, none, Noted, n, Defines
<1>6. RunOf(step, none, F, n) # {}
  BY <1>0, <1>2, <1>5, Recursion
<1>7. PICK w \in [0..n -> F] : w[0] = none /\ \A k \in 1..n : w[k] = step[<<w[k - 1], k>>]
  BY <1>6 DEF RunOf
<1>8. Defines(w)
  <2>1. \A k \in 1..n : k - 1 \in 0..n /\ k # 0
    BY <1>0
  <2>2. \A k \in 0..n : k # 0 => k \in 1..n
    BY <1>0
  <2>3. \A k \in 1..n : w[k] = Noted(w[k - 1], order[k])
    BY <1>4, <1>7, <2>1
  <2>4. QED
    BY <1>7, <2>2, <2>3 DEF Defines
<1>9. Defines(seen)
  BY <1>8
<1> HIDE DEF seen
<1>10. seen[0] = none /\ \A k \in 1..n : seen[k] = Noted(seen[k - 1], order[k])
  <2>1. 0 \in 0..n /\ \A k \in 1..n : k \in 0..n /\ k # 0
    BY <1>0
  <2>2. QED
    BY <1>9, <2>1 DEF Defines
<1>11. 0 \in T
  <2>1. Img(0) = {} /\ By(a, {}) = {}
    BY DEF By
  <2>2. EntryOf(a, Img(0)) = NoEntry
    BY <2>1 DEF EntryOf
  <2>3. none[a] = NoEntry /\ 0 \in 0..n
    BY <1>0 DEF none
  <2>4. QED
    BY <1>2, <1>10, <2>2, <2>3
<1>12. ASSUME NEW k \in 1..n, k - 1 \in T PROVE k \in T
  <2> DEFINE i == order[k]
             e == seen[k - 1]
             old == Img(k - 1)
  <2>1. e \in F /\ e[a] = EntryOf(a, old) /\ seen[k] = Noted(e, i) /\ i \in 1..Len(posts)
    BY <1>0, <1>10, <1>12
  <2>2. Img(k) = old \cup {i} /\ i \notin old /\ old \in SUBSET (1..Len(posts))
    <3>1. 1..k = 1..(k - 1) \cup {k} /\ 1..k \subseteq 1..n /\ k \notin 1..(k - 1)
      BY <1>0
    <3>2. QED
      BY <1>0, <3>1
  <2> HIDE DEF old, e, i
  <2>3. seen[k] \in F
    BY <1>3, <2>1
  <2>4. CASE posts[i].author = a
    <3>1. Noted(e, i)[a] = Note(EntryOf(a, old), i)
      BY <2>1, <2>4 DEF Noted, F
    <3>2. Note(EntryOf(a, old), i) = EntryOf(a, old \cup {i})
      BY <2>1, <2>2, <2>4, NoteGives
    <3>3. seen[k][a] = EntryOf(a, Img(k))
      BY <2>1, <2>2, <3>1, <3>2
    <3>4. QED
      BY <2>3, <3>3
  <2>5. CASE posts[i].author # a
    <3>1. Noted(e, i)[a] = e[a]
      BY <2>1, <2>5 DEF Noted, F
    <3>2. By(a, old \cup {i}) = By(a, old)
      BY <2>5 DEF By
    <3>3. EntryOf(a, old \cup {i}) = EntryOf(a, old)
      BY <3>2 DEF EntryOf
    <3>4. QED
      BY <2>1, <2>2, <2>3, <3>1, <3>3
  <2>6. QED
    BY <2>4, <2>5
<1>13. n \in T
  <2> HIDE DEF T
  <2>1. \A k \in 0..n : k \in T
    BY <1>0, <1>11, <1>12, UpTo
  <2>2. QED
    BY <1>0, <2>1
<1>14. QED
  BY <1>0, <1>1, <1>13

\* How many messages an author has tells whether there are any.
LEMMA EntryParts ==
    ASSUME ViewTypes, NEW R \in SUBSET (1..Len(posts)), NEW a
    PROVE  /\ IsFiniteSet(By(a, R)) /\ By(a, R) \subseteq 0..Len(posts)
           /\ EntryOf(a, R).count > 0 <=> By(a, R) # {}
           /\ By(a, R) # {} =>
                 /\ EntryOf(a, R).last = Max(By(a, R)) /\ Max(By(a, R)) \in By(a, R)
                 /\ \A i \in By(a, R) : i <= Max(By(a, R))
                 /\ EntryOf(a, R).count = Cardinality(By(a, R))
                 /\ EntryOf(a, R).domain = posts[Max(By(a, R))].domain
                 /\ EntryOf(a, R).health = HealthAt(Max(By(a, R)))
           /\ By(a, R) = {} => EntryOf(a, R).health = "unknown"
<1> DEFINE S == By(a, R)
<1>1. Len(posts) \in Nat /\ S \subseteq 0..Len(posts) /\ S \subseteq 1..Len(posts)
  <2>1. Len(posts) \in Nat
    BY RowsThere
  <2>2. S \subseteq 1..Len(posts)
    BY DEF By
  <2>3. QED
    BY <2>1, <2>2
<1>2. IsFiniteSet(S)
  <2> HIDE DEF S
  <2>1. IsFiniteSet(1..Len(posts))
    BY <1>1, FS_Interval
  <2>2. QED
    BY <1>1, <2>1, FS_Subset
<1>3. S # {} => Max(S) \in S /\ \A i \in S : i <= Max(S)
  <2> HIDE DEF S
  <2>1. QED
    BY <1>1, MaxOf
<1>4. Cardinality(S) \in Nat /\ (S # {} => Cardinality(S) > 0)
  <2> HIDE DEF S
  <2>1. Cardinality(S) \in Nat /\ (Cardinality(S) = 0 <=> S = {})
    BY <1>2, FS_CardinalityType, FS_EmptySet
  <2>2. QED
    BY <2>1
<1>5. CASE S = {}
  <2>1. EntryOf(a, R) = NoEntry
    BY <1>5 DEF EntryOf
  <2>2. QED
    BY <1>1, <1>2, <1>5, <2>1 DEF NoEntry
<1>6. CASE S # {}
  <2>1. EntryOf(a, R) = Entry(Max(S), posts[Max(S)].domain, Cardinality(S),
                              {posts[i].domain : i \in S}, HealthAt(Max(S)))
    BY <1>6 DEF EntryOf
  <2>2. /\ EntryOf(a, R).last = Max(S) /\ EntryOf(a, R).count = Cardinality(S)
        /\ EntryOf(a, R).domain = posts[Max(S)].domain /\ EntryOf(a, R).health = HealthAt(Max(S))
    BY <2>1 DEF Entry
  <2> HIDE DEF S
  <2>3. QED
    BY <1>1, <1>2, <1>3, <1>4, <1>6, <2>2 DEF S
<1>7. QED
  BY <1>5, <1>6

\* Who is listed: those with messages, but for whoever has enough others with
\* newer ones that are listed themselves.
LEMMA ListedAre ==
    ASSUME ViewsAssumption, ViewTypes, NEW R \in SUBSET (1..Len(posts)), NEW order \in SetToSeqs(R),
           NEW limit \in Nat
    PROVE  /\ \A a \in DOMAIN Listed(order, limit) :
                 a \in Authors /\ By(a, R) # {} /\ Listed(order, limit)[a] = EntryOf(a, R)
           /\ \A a \in Authors \ DOMAIN Listed(order, limit) : By(a, R) # {} =>
                 Cardinality({b \in DOMAIN Listed(order, limit) : Max(By(b, R)) > Max(By(a, R))}) >= limit
<1> DEFINE all == Activity(order, Authors)
           active == {a \in Authors : all[a].count > 0}
           Above(x) == {b \in active : all[b].last > all[x].last}
           top == {x \in active : Cardinality(Above(x)) < limit}
           present == Listed(order, limit)
           f == [a \in active |-> Max(By(a, R))]
<1>1. present = [a \in top |-> all[a]]
  BY DEF Listed
<1>2. \A a \in Authors : all[a] = EntryOf(a, R)
  BY ActivityIs
<1>3. active = {a \in Authors : By(a, R) # {}}
  BY <1>2, EntryParts
<1>4. \A a \in active : all[a].last = Max(By(a, R)) /\ Max(By(a, R)) \in 0..Len(posts)
  BY <1>2, <1>3, EntryParts
<1> HIDE DEF all
<1>5. \A a \in DOMAIN present : a \in Authors /\ By(a, R) # {} /\ present[a] = EntryOf(a, R)
  BY <1>1, <1>2, <1>3
<1>6. ASSUME NEW a \in Authors \ DOMAIN present, By(a, R) # {}
      PROVE  Cardinality({b \in DOMAIN present : Max(By(b, R)) > Max(By(a, R))}) >= limit
  <2> DEFINE S == Above(a)
             g == [x \in S |-> f[x]]
             N == Best(S, g, limit)
             B == {b \in DOMAIN present : Max(By(b, R)) > Max(By(a, R))}
  <2>1. a \in active /\ a \notin top
    BY <1>1, <1>3, <1>6
  <2>2. ~(Cardinality(S) < limit)
    BY <2>1
  <2>3. IsFiniteSet(S)
    BY FS_Subset DEF ViewsAssumption
  <2>4. Len(posts) \in Nat
    BY RowsThere
  <2>5. g \in [S -> 0..Len(posts)] /\ \A x \in S : g[x] = Max(By(x, R)) /\ g[x] = all[x].last
    BY <1>4
  <2>6. ~(Cardinality(N) < limit)
    <3> HIDE DEF S, g
    <3>1. QED
      BY <2>2, <2>3, <2>4, <2>5, TopOf
  <2>7. \A x \in S : {y \in S : g[y] > g[x]} = Above(x)
    <3>1. SUFFICES ASSUME NEW x \in S PROVE {y \in S : g[y] > g[x]} = Above(x)
      OBVIOUS
    <3>2. ASSUME NEW y \in active, all[y].last > all[x].last PROVE all[y].last > all[a].last
      <4>1. x \in active /\ all[x].last > all[a].last
        OBVIOUS
      <4>2. all[x].last \in 0..Len(posts) /\ all[y].last \in 0..Len(posts) /\ all[a].last \in 0..Len(posts)
        BY <1>4, <2>1, <3>2, <4>1
      <4>3. QED
        BY <2>4, <3>2, <4>1, <4>2
    <3>3. \A y \in active : y \in Above(x) => y \in S
      BY <3>2
    <3>4. \A y \in S : g[y] = all[y].last
      BY <2>5
    <3> HIDE DEF g
    <3>5. QED
      BY <3>3, <3>4
  <2>8. N = B
    <3>1. N = {x \in S : x \in top}
      BY <2>7 DEF Best, Over
    <3>2. DOMAIN present = top
      BY <1>1
    <3>3. \A x \in top : x \in S <=> Max(By(x, R)) > Max(By(a, R))
      BY <1>4, <2>1
    <3> HIDE DEF S, top, N, present
    <3>4. QED
      BY <3>1, <3>2, <3>3
  <2>9. IsFiniteSet(N)
    BY <2>3, FS_Subset DEF Best
  <2>10. Cardinality(N) \in Nat
    <3> HIDE DEF N
    <3>1. QED
      BY <2>9, FS_CardinalityType
  <2>11. Cardinality(B) = Cardinality(N)
    BY <2>8
  <2> HIDE DEF N, B
  <2>12. Cardinality(B) >= limit
    BY <2>6, <2>10, <2>11
  <2>13. QED
    BY <2>12 DEF B
<1>7. QED
  BY <1>5, <1>6

\* agent_presence and agent_health, in any order of the rows.
LEMMA ActivityTold ==
    ASSUME ViewsAssumption, ViewTypes
    PROVE  ActivityIsOfNewest
<1>1. SUFFICES ASSUME NEW d \in Areas \cup {EveryDomain}, NEW order \in SetToSeqs(Rows(d))
      PROVE  /\ \A a \in DOMAIN AgentPresence(d, order) :
                  /\ AgentPresence(d, order)[a] = AgentHealth(a, order)
                  /\ AgentPresence(d, order)[a].last = Max(By(a, Rows(d)))
                  /\ AgentPresence(d, order)[a].count = Cardinality(By(a, Rows(d)))
                  /\ AgentPresence(d, order)[a].domain = posts[Max(By(a, Rows(d)))].domain
                  /\ AgentPresence(d, order)[a].health = HealthAt(Max(By(a, Rows(d))))
             /\ \A a \in Authors \ DOMAIN AgentPresence(d, order) : By(a, Rows(d)) # {} =>
                  Cardinality({b \in DOMAIN AgentPresence(d, order) :
                                  Max(By(b, Rows(d))) > Max(By(a, Rows(d)))}) >= Window
  BY DEF ActivityIsOfNewest, By
<1> DEFINE R == Rows(d)
           present == Listed(order, Window)
<1>2. R \in SUBSET (1..Len(posts)) /\ Window \in Nat
  BY RowsThere DEF ViewsAssumption
<1>3. AgentPresence(d, order) = present
  BY DEF AgentPresence
<1>4. /\ \A a \in DOMAIN present : a \in Authors /\ By(a, R) # {} /\ present[a] = EntryOf(a, R)
      /\ \A a \in Authors \ DOMAIN present : By(a, R) # {} =>
            Cardinality({b \in DOMAIN present : Max(By(b, R)) > Max(By(a, R))}) >= Window
  <2> HIDE DEF R
  <2>1. order \in SetToSeqs(R)
    BY <1>1 DEF R
  <2>2. QED
    BY <1>2, <2>1, ListedAre
<1>5. \A a \in Authors : AgentHealth(a, order) = EntryOf(a, R)
  <2> HIDE DEF R
  <2>1. order \in SetToSeqs(R)
    BY <1>1 DEF R
  <2>2. SUFFICES ASSUME NEW a \in Authors PROVE AgentHealth(a, order) = EntryOf(a, R)
    OBVIOUS
  <2>3. a \in Authors \cap {a}
    OBVIOUS
  <2>4. QED
    BY <1>2, <2>1, <2>3, ActivityIs DEF AgentHealth
<1> HIDE DEF R, present
<1>6. \A a \in DOMAIN present : /\ present[a] = AgentHealth(a, order)
                               /\ present[a].last = Max(By(a, R)) /\ present[a].count = Cardinality(By(a, R))
                               /\ present[a].domain = posts[Max(By(a, R))].domain
                               /\ present[a].health = HealthAt(Max(By(a, R)))
  BY <1>2, <1>4, <1>5, EntryParts
<1>7. QED
  BY <1>3, <1>4, <1>6 DEF R

-----------------------------------------------------------------------------
(* Mentions.                                                               *)

LEMMA PartsOf ==
    ASSUME NEW w \in Seq(STRING), NEW k \in 1..Len(w) + 1, NEW m \in 0..Len(w)
    PROVE  /\ SubSeq(w, k, m) \in Seq(STRING) /\ Len(SubSeq(w, k, m)) = IF k <= m THEN m - k + 1 ELSE 0
           /\ DOMAIN SubSeq(w, k, m) = 1..Len(SubSeq(w, k, m))
           /\ \A i \in 1..m - k + 1 : SubSeq(w, k, m)[i] = w[k + i - 1]
<1>1. Len(w) \in Nat /\ \A i \in 1..Len(w) : w[i] \in STRING
  BY LenProperties, ElementOfSeq
<1>2. k \in Int /\ m \in Int /\ \A i \in k..m : w[i] \in STRING
  BY <1>1
<1>3. /\ SubSeq(w, k, m) \in Seq(STRING) /\ Len(SubSeq(w, k, m)) = IF k <= m THEN m - k + 1 ELSE 0
      /\ \A i \in 1..m - k + 1 : SubSeq(w, k, m)[i] = w[k + i - 1]
  BY <1>2, SubSeqProperties
<1>4. QED
  BY <1>3, LenProperties

\* Two words with the same letters are as long as each other, and where the
\* one has a character that is kept the other has.
LEMMA LowerParts ==
    ASSUME NEW u \in Seq(STRING), NEW v \in Seq(STRING), Lower(u) = Lower(v)
    PROVE  Len(u) = Len(v) /\ \A i \in 1..Len(u) : Kept(u[i]) <=> Kept(v[i])
<1> DEFINE low(c) == CASE c = "B" -> "b" [] c = "U" -> "u" [] OTHER -> c
<1>1. DOMAIN u = 1..Len(u) /\ DOMAIN v = 1..Len(v) /\ Len(u) \in Nat /\ Len(v) \in Nat
  BY LenProperties
<1>2. Lower(u) = [k \in DOMAIN u |-> low(u[k])] /\ Lower(v) = [k \in DOMAIN v |-> low(v[k])]
  BY DEF Lower
<1> HIDE DEF low
<1>3. DOMAIN u = DOMAIN v /\ \A k \in DOMAIN u : low(u[k]) = low(v[k])
  BY <1>2
<1>4. Len(u) = Len(v)
  <2>1. \A a, b \in Nat : 1..a = 1..b => a = b
    <3>1. SUFFICES ASSUME NEW a \in Nat, NEW b \in Nat, 1..a = 1..b, a < b \/ b < a PROVE FALSE
      OBVIOUS
    <3>2. (a < b => b \in 1..b /\ b \notin 1..a) /\ (b < a => a \in 1..a /\ a \notin 1..b)
      OBVIOUS
    <3>3. QED
      BY <3>1, <3>2
  <2>2. QED
    BY <1>1, <1>3, <2>1
<1>5. \A c, d : low(c) = low(d) /\ Kept(c) => Kept(d)
  BY DEF low, Kept, Letters
<1>6. QED
  BY <1>1, <1>3, <1>4, <1>5

\* A word mentions the handle when it is @ and the handle within punctuation.
LEMMA MentionsThe ==
    ASSUME MyHandle \in Seq(STRING), EndsKept(MyHandle), NEW w \in Seq(STRING)
    PROVE  Mentions(w, MyHandle) <=>
               \E k \in DOMAIN w : \E m \in k..Len(w) :
                   /\ w[k] = "@" /\ Lower(SubSeq(w, k + 1, m)) = Lower(MyHandle)
                   /\ Punctuation(SubSeq(w, 1, k - 1)) /\ Punctuation(SubSeq(w, m + 1, Len(w)))
<1> DEFINE n == Len(w)
           h == Len(MyHandle)
           I == Inner(w)
           t == Trimmed(w)
<1>1. n \in Nat /\ DOMAIN w = 1..n /\ h \in Nat /\ h > 0 /\ MyHandle \in Seq(STRING) /\ Kept(MyHandle[h])
  BY LenProperties, EmptySeq DEF EndsKept
<1>2. I \subseteq 1..n /\ I \subseteq 0..n /\ I \subseteq Nat /\ \A i \in 1..n : i \in I <=> Kept(w[i])
  BY <1>1 DEF Inner
<1> HIDE DEF I, n, h
<1>3. ASSUME NEW k \in 1..n, NEW m \in k..n
      PROVE  /\ Punctuation(SubSeq(w, 1, k - 1)) <=> \A i \in 1..n : i < k => i \notin I
             /\ Punctuation(SubSeq(w, m + 1, n)) <=> \A i \in 1..n : i > m => i \notin I
  <2>1. DOMAIN SubSeq(w, 1, k - 1) = 1..(k - 1) /\ \A i \in 1..(k - 1) : SubSeq(w, 1, k - 1)[i] = w[i]
    <3>1. 1 \in 1..n + 1 /\ k - 1 \in 0..n
      BY <1>1
    <3>2. /\ DOMAIN SubSeq(w, 1, k - 1) = 1..Len(SubSeq(w, 1, k - 1))
          /\ Len(SubSeq(w, 1, k - 1)) = IF 1 <= k - 1 THEN (k - 1) - 1 + 1 ELSE 0
          /\ \A i \in 1..(k - 1) - 1 + 1 : SubSeq(w, 1, k - 1)[i] = w[1 + i - 1]
      BY <3>1, PartsOf DEF n
    <3>3. QED
      BY <1>1, <3>2
  <2>2. /\ DOMAIN SubSeq(w, m + 1, n) = 1..(n - m)
        /\ \A i \in 1..(n - m) : SubSeq(w, m + 1, n)[i] = w[m + i]
    <3>1. m + 1 \in 1..n + 1 /\ n \in 0..n
      BY <1>1
    <3>2. /\ DOMAIN SubSeq(w, m + 1, n) = 1..Len(SubSeq(w, m + 1, n))
          /\ Len(SubSeq(w, m + 1, n)) = IF m + 1 <= n THEN n - (m + 1) + 1 ELSE 0
          /\ \A i \in 1..n - (m + 1) + 1 : SubSeq(w, m + 1, n)[i] = w[(m + 1) + i - 1]
      BY <3>1, PartsOf DEF n
    <3>3. QED
      BY <1>1, <3>2
  <2>3. Punctuation(SubSeq(w, 1, k - 1)) <=> \A i \in 1..(k - 1) : ~Kept(w[i])
    BY <2>1 DEF Punctuation
  <2>4. Punctuation(SubSeq(w, m + 1, n)) <=> \A i \in 1..(n - m) : ~Kept(w[m + i])
    BY <2>2 DEF Punctuation
  <2>5. (\A i \in 1..(n - m) : ~Kept(w[m + i])) <=> \A i \in 1..n : i > m => ~Kept(w[i])
    <3>1. ASSUME \A i \in 1..(n - m) : ~Kept(w[m + i]), NEW i \in 1..n, i > m PROVE ~Kept(w[i])
      <4>1. i - m \in 1..(n - m) /\ m + (i - m) = i
        BY <1>1, <3>1
      <4>2. QED
        BY <3>1, <4>1
    <3>2. ASSUME \A i \in 1..n : i > m => ~Kept(w[i]), NEW i \in 1..(n - m) PROVE ~Kept(w[m + i])
      <4>1. m + i \in 1..n /\ m + i > m
        BY <1>1
      <4>2. QED
        BY <3>2, <4>1
    <3>3. QED
      BY <3>1, <3>2
  <2>6. (\A i \in 1..(k - 1) : ~Kept(w[i])) <=> \A i \in 1..n : i < k => ~Kept(w[i])
    BY <1>1
  <2>7. QED
    BY <1>2, <2>3, <2>4, <2>5, <2>6
<1>4. ASSUME NEW k \in 1..n, NEW m \in k..n, t = SubSeq(w, k, m)
      PROVE  t # <<>> /\ t[1] = w[k] /\ Tail(t) = SubSeq(w, k + 1, m)
  <2>1. k \in 1..n + 1 /\ m \in 0..n /\ k <= m
    BY <1>1
  <2>2. /\ Len(t) = IF k <= m THEN m - k + 1 ELSE 0
        /\ \A i \in 1..m - k + 1 : t[i] = w[k + i - 1]
    <3> HIDE DEF t
    <3>1. QED
      BY <1>4, <2>1, PartsOf DEF n
  <2>3. Tail(t) = SubSeq(w, k + 1, m)
    <3> HIDE DEF t
    <3>1. QED
      BY <1>4, HeadTailOfSubSeq DEF n
  <2> HIDE DEF t
  <2>4. t # <<>>
    <3>1. Len(t) > 0 /\ Len(<<>>) = 0
      BY <2>1, <2>2
    <3>2. QED
      BY <3>1
  <2>5. t[1] = w[k]
    <3>1. 1 \in 1..m - k + 1 /\ k + 1 - 1 = k
      BY <2>1
    <3>2. QED
      BY <2>2, <3>1
  <2>6. QED
    BY <2>3, <2>4, <2>5
<1>5. ASSUME Mentions(w, MyHandle)
      PROVE  \E k \in 1..n : \E m \in k..n :
                   /\ w[k] = "@" /\ Lower(SubSeq(w, k + 1, m)) = Lower(MyHandle)
                   /\ Punctuation(SubSeq(w, 1, k - 1)) /\ Punctuation(SubSeq(w, m + 1, n))
  <2> DEFINE mention == IF t # <<>> /\ t[1] = "@" THEN Tail(t) ELSE <<>>
  <2>1. Lower(mention) = Lower(MyHandle)
    BY <1>5 DEF Mentions
  <2>2. mention # <<>>
    <3>1. ASSUME mention = <<>> PROVE FALSE
      <4>1. <<>> \in Seq(STRING) /\ Len(<<>>) = 0
        OBVIOUS
      <4> HIDE DEF mention
      <4>2. Len(<<>>) = Len(MyHandle)
        BY <1>1, <2>1, <3>1, <4>1, LowerParts
      <4>3. QED
        BY <1>1, <4>1, <4>2 DEF h
    <3>2. QED
      BY <3>1
  <2>3. t # <<>> /\ t[1] = "@" /\ mention = Tail(t)
    BY <2>2
  <2> DEFINE k == Min(I)
             m == Max(I)
  <2>4. I # {} /\ t = SubSeq(w, k, m)
    BY <2>3 DEF Trimmed, I
  <2>5. k \in I /\ m \in I /\ \A i \in I : k <= i /\ i <= m
    BY <1>1, <1>2, <2>4, MinOf, MaxOf
  <2> HIDE DEF k, m, t, mention
  <2>6. k \in 1..n /\ m \in k..n
    BY <1>1, <1>2, <2>5
  <2>7. w[k] = "@" /\ Lower(SubSeq(w, k + 1, m)) = Lower(MyHandle)
    BY <1>4, <2>1, <2>3, <2>4, <2>6
  <2>8. (\A i \in 1..n : i < k => i \notin I) /\ (\A i \in 1..n : i > m => i \notin I)
    BY <2>5, <2>6, <1>1
  <2>9. Punctuation(SubSeq(w, 1, k - 1)) /\ Punctuation(SubSeq(w, m + 1, n))
    BY <1>3, <2>6, <2>8
  <2>10. QED
    BY <2>6, <2>7, <2>9
<1>6. ASSUME NEW k \in 1..n, NEW m \in k..n,
             w[k] = "@", Lower(SubSeq(w, k + 1, m)) = Lower(MyHandle),
             Punctuation(SubSeq(w, 1, k - 1)), Punctuation(SubSeq(w, m + 1, n))
      PROVE  Mentions(w, MyHandle)
  <2> DEFINE v == SubSeq(w, k + 1, m)
  <2>1. k + 1 \in 1..n + 1 /\ m \in 0..n /\ k <= m
    BY <1>1
  <2>2. /\ v \in Seq(STRING) /\ Len(v) = IF k + 1 <= m THEN m - (k + 1) + 1 ELSE 0
        /\ \A i \in 1..m - (k + 1) + 1 : v[i] = w[(k + 1) + i - 1]
    BY <2>1, PartsOf DEF n
  <2> HIDE DEF v
  <2>3. Len(v) = h /\ \A i \in 1..Len(v) : Kept(v[i]) <=> Kept(MyHandle[i])
    BY <1>1, <1>6, <2>2, LowerParts DEF v, h
  <2>4. m - k = h /\ h \in 1..Len(v) /\ v[h] = w[m]
    <3>1. m - k = h
      BY <1>1, <2>1, <2>2, <2>3
    <3>2. h \in 1..m - (k + 1) + 1 /\ (k + 1) + h - 1 = m
      BY <1>1, <3>1
    <3>3. v[h] = w[(k + 1) + h - 1]
      BY <2>2, <3>2
    <3>4. QED
      BY <1>1, <2>3, <3>1, <3>2, <3>3
  <2>5. m \in I /\ k \in I
    <3>1. Kept(w[m])
      BY <1>1, <2>3, <2>4
    <3>2. Kept(w[k])
      BY <1>6 DEF Kept
    <3>3. m \in 1..n
      BY <2>1
    <3>4. QED
      BY <1>2, <3>1, <3>2, <3>3
  <2>6. \A i \in I : k <= i /\ i <= m
    <3>1. \A i \in 1..n : (i < k => i \notin I) /\ (i > m => i \notin I)
      BY <1>3, <1>6
    <3>2. QED
      BY <1>1, <1>2, <2>1, <3>1
  <2>7. Min(I) = k /\ Max(I) = m
    BY <1>1, <1>2, <2>5, <2>6, MinIs, MaxIs
  <2>8. t = SubSeq(w, k, m)
    BY <2>5, <2>7 DEF Trimmed, I
  <2>9. t # <<>> /\ t[1] = w[k] /\ Tail(t) = v
    <3> HIDE DEF t
    <3>1. QED
      BY <1>4, <2>8 DEF v
  <2> HIDE DEF t
  <2>10. Lower(Tail(t)) = Lower(MyHandle)
    BY <1>6, <2>9 DEF v
  <2>11. QED
    BY <1>6, <2>9, <2>10 DEF Mentions, t
<1>7. QED
  BY <1>1, <1>5, <1>6 DEF n

LEMMA MentionsFound ==
    ASSUME ViewsAssumption, ViewTypes
    PROVE  MentionsAsWritten
<1>1. SUFFICES ASSUME EndsKept(MyHandle), NEW i \in Rows(EveryDomain)
      PROVE  i \in FindMentions(MyHandle, EveryDomain, MaxSaid) <=> Mentions(posts[i].word, MyHandle)
  <2>1. ASSUME NEW i \in Rows(EveryDomain) PROVE posts[i].word \in Seq(STRING)
    BY RowsThere DEF Posts
  <2>2. MyHandle \in Seq(STRING)
    BY DEF ViewsAssumption
  <2>3. QED
    BY <2>1, <2>2, MentionsThe DEF MentionsAsWritten
<1> DEFINE rows == {j \in Rows(EveryDomain) : Mentions(posts[j].word, MyHandle)}
<1>2. /\ IsFiniteSet(Rows(EveryDomain)) /\ Rows(EveryDomain) \subseteq Nat
      /\ Cardinality(Rows(EveryDomain)) <= Len(posts) /\ Len(posts) \in Nat
  BY RowsThere
<1>3. rows \subseteq Nat /\ IsFiniteSet(rows) /\ Cardinality(rows) <= Cardinality(Rows(EveryDomain))
  <2>1. rows \subseteq Rows(EveryDomain)
    OBVIOUS
  <2> HIDE DEF rows
  <2>2. QED
    BY <1>2, <2>1, FS_Subset
<1>4. MaxSaid \in Nat /\ Len(posts) <= MaxSaid
  BY DEF ViewsAssumption, ViewTypes
<1>5. Cardinality(rows) <= MaxSaid
  <2>1. Cardinality(rows) \in Nat /\ Cardinality(Rows(EveryDomain)) \in Nat
    BY <1>2, <1>3, FS_CardinalityType
  <2> HIDE DEF rows
  <2>2. QED
    BY <1>2, <1>3, <1>4, <2>1
<1>6. FindMentions(MyHandle, EveryDomain, MaxSaid) = rows
  <2>1. FindMentions(MyHandle, EveryDomain, MaxSaid) = Newest(rows, MaxSaid)
    BY DEF FindMentions
  <2> HIDE DEF rows
  <2>2. QED
    BY <1>3, <1>4, <1>5, <2>1, NothingCutOff
<1>7. QED
  BY <1>6

-----------------------------------------------------------------------------
(* Threads.                                                                *)

\* While there are not more replies than a read returns it returns them all.
LEMMA WholeThread ==
    ASSUME ViewsAssumption, ViewTypes, NEW root,
           Cardinality({j \in Rows(EveryDomain) : posts[j].reply = root}) <= PageLimit
    PROVE  GetThread(root, EveryDomain) = {j \in Rows(EveryDomain) : posts[j].reply = root}
<1> DEFINE rows == {j \in Rows(EveryDomain) : posts[j].reply = root}
<1>1. IsFiniteSet(Rows(EveryDomain)) /\ Rows(EveryDomain) \subseteq Nat
  BY RowsThere
<1>2. rows \subseteq Rows(EveryDomain) /\ Cardinality(rows) <= PageLimit
  OBVIOUS
<1>3. GetThread(root, EveryDomain) = Oldest(rows, PageLimit)
  BY DEF GetThread
<1> HIDE DEF rows
<1>4. IsFiniteSet(rows) /\ rows \subseteq Nat
  BY <1>1, <1>2, FS_Subset
<1>5. PageLimit \in Nat
  BY DEF ViewsAssumption
<1>6. GetThread(root, EveryDomain) = rows
  BY <1>2, <1>3, <1>4, <1>5, NothingCutOff
<1>7. QED
  BY <1>6 DEF rows

\* Who follows the replies keeps what was found, and finds the answers to it.
LEMMA ReachedGrows ==
    ASSUME ViewsAssumption, ViewTypes, NEW root \in Nat
    PROVE  \E after \in [0..MaxSaid -> SUBSET Nat] :
               /\ Reached(root) = after[MaxSaid] /\ after[0] = {root}
               /\ \A k \in 1..MaxSaid : after[k] = Follow(after[k - 1])
               /\ \A m \in 0..MaxSaid : \A k \in 0..m : after[k] \subseteq after[m]
<1> DEFINE n == MaxSaid
           F == SUBSET Nat
           first == {root}
           step == [p \in F \X (1..n) |-> Follow(p[1])]
           Defines(w) == w = [k \in 0..n |-> IF k = 0 THEN first ELSE Follow(w[k - 1])]
           after == CHOOSE w : Defines(w)
           T == {m \in 0..n : \A k \in 0..m : after[k] \subseteq after[m]}
<1>1. n \in Nat /\ first \in F
  BY DEF ViewsAssumption
<1>2. Reached(root) = after[n]
  BY DEF Reached
<1>3. \A i : GetThread(i, EveryDomain) \subseteq Nat
  BY RowsThere DEF GetThread, Oldest
<1>4. \A found \in F : Follow(found) \in F /\ found \subseteq Follow(found)
  BY <1>3 DEF Follow
<1>5. \A found \in F, k \in 1..n : step[<<found, k>>] = Follow(found)
  OBVIOUS
<1>6. step \in StepsOn(F, n)
  BY <1>4 DEF StepsOn
<1> HIDE DEF step, F, first, n, Defines
<1>7. RunOf(step, first, F, n) # {}
  BY <1>1, <1>6, Recursion
<1>8. PICK w \in [0..n -> F] : w[0] = first /\ \A k \in 1..n : w[k] = step[<<w[k - 1], k>>]
  BY <1>7 DEF RunOf
<1>9. Defines(w)
  <2>1. \A k \in 1..n : k - 1 \in 0..n /\ k # 0
    BY <1>1
  <2>2. \A k \in 0..n : k # 0 => k \in 1..n
    BY <1>1
  <2>3. \A k \in 1..n : w[k] = Follow(w[k - 1])
    BY <1>5, <1>8, <2>1
  <2>4. QED
    BY <1>8, <2>2, <2>3 DEF Defines
<1>10. Defines(after)
  BY <1>9
<1> HIDE DEF after
<1>11. after[0] = first /\ \A k \in 1..n : after[k] = Follow(after[k - 1])
  <2>1. 0 \in 0..n /\ \A k \in 1..n : k \in 0..n /\ k # 0
    BY <1>1
  <2>2. QED
    BY <1>10, <2>1 DEF Defines
<1>12. after \in [0..n -> F]
  <2> DEFINE A == {k \in 0..n : after[k] \in F}
  <2>1. 0 \in A
    BY <1>1, <1>11
  <2>2. \A k \in 1..n : k - 1 \in A => k \in A
    BY <1>1, <1>4, <1>11
  <2>3. \A k \in 0..n : k \in A
    <3> HIDE DEF A
    <3>1. QED
      BY <1>1, <2>1, <2>2, UpTo
  <2>4. QED
    BY <1>10, <2>3 DEF Defines
<1>13. \A m \in 0..n : m \in T
  <2>1. 0 \in T
    BY <1>1
  <2>2. ASSUME NEW m \in 1..n, m - 1 \in T PROVE m \in T
    <3>1. m - 1 \in 0..n /\ after[m] = Follow(after[m - 1]) /\ after[m - 1] \in F
      BY <1>1, <1>11, <1>12
    <3>2. after[m - 1] \subseteq after[m]
      BY <1>4, <3>1
    <3>3. \A k \in 0..m : k = m \/ k \in 0..(m - 1)
      BY <1>1
    <3>4. \A k \in 0..m : after[k] \subseteq after[m]
      BY <2>2, <3>2, <3>3
    <3>5. m \in 0..n
      BY <1>1
    <3>6. QED
      BY <3>4, <3>5
  <2> HIDE DEF T
  <2>3. QED
    BY <1>1, <2>1, <2>2, UpTo
<1>14. QED
  BY <1>2, <1>11, <1>12, <1>13 DEF F, first, n

LEMMA ThreadsTold ==
    ASSUME ViewsAssumption, ViewTypes, PostsInOrder
    PROVE  ThreadsFollowed
<1>1. SUFFICES ASSUME \A i \in 1..Len(posts) :
                          Cardinality({j \in Rows(EveryDomain) : posts[j].reply = i}) <= PageLimit,
                      NEW root \in Rows(EveryDomain), NEW i \in Rows(EveryDomain),
                      posts[i].reply = root
                        \/ \E j \in Rows(EveryDomain) : posts[i].reply = j /\ posts[j].reply = root
      PROVE  i \in Reached(root)
  BY DEF ThreadsFollowed
<1>2. /\ Rows(EveryDomain) \subseteq 1..Len(posts) /\ Rows(EveryDomain) \subseteq Nat \ {0}
      /\ Len(posts) \in Nat /\ Len(posts) <= MaxSaid /\ MaxSaid \in Nat
  BY RowsThere DEF ViewTypes, ViewsAssumption
<1>3. \A j \in Rows(EveryDomain) :
          GetThread(j, EveryDomain) = {k \in Rows(EveryDomain) : posts[k].reply = j}
  BY <1>1, <1>2, WholeThread
<1>4. PICK after \in [0..MaxSaid -> SUBSET Nat] :
               /\ Reached(root) = after[MaxSaid] /\ after[0] = {root}
               /\ \A k \in 1..MaxSaid : after[k] = Follow(after[k - 1])
               /\ \A m \in 0..MaxSaid : \A k \in 0..m : after[k] \subseteq after[m]
  BY <1>2, ReachedGrows
<1>5. ASSUME NEW k \in 1..MaxSaid, NEW j \in Rows(EveryDomain), j \in after[k - 1],
             NEW x \in Rows(EveryDomain), posts[x].reply = j
      PROVE  x \in after[k]
  <2>1. x \in GetThread(j, EveryDomain)
    BY <1>3, <1>5
  <2>2. x \in Follow(after[k - 1])
    BY <1>5, <2>1 DEF Follow
  <2>3. QED
    BY <1>4, <2>2
<1>6. 1 \in 1..MaxSaid /\ 1 - 1 = 0 /\ MaxSaid \in 0..MaxSaid /\ 1 \in 0..MaxSaid
  BY <1>2
<1>7. CASE posts[i].reply = root
  <2>1. i \in after[1]
    BY <1>4, <1>5, <1>6, <1>7
  <2>2. QED
    BY <1>4, <1>6, <2>1
<1>8. CASE \E j \in Rows(EveryDomain) : posts[i].reply = j /\ posts[j].reply = root
  <2>1. PICK j \in Rows(EveryDomain) : posts[i].reply = j /\ posts[j].reply = root
    BY <1>8
  <2>2. j \in after[1]
    BY <1>4, <1>5, <1>6, <2>1
  <2>3. 2 \in 1..MaxSaid /\ 2 - 1 = 1 /\ 2 \in 0..MaxSaid
    <3>1. j < i
      BY <1>2, <2>1 DEF PostsInOrder
    <3>2. QED
      BY <1>2, <2>1, <3>1
  <2>4. i \in after[2]
    BY <1>5, <2>1, <2>2, <2>3
  <2>5. QED
    BY <1>4, <1>6, <2>3, <2>4
<1>9. QED
  BY <1>1, <1>7, <1>8

-----------------------------------------------------------------------------
(* The steps of a tool that makes several reads.                           *)

\* While the replica stays as it is.
LEMMA StillThere ==
    ASSUME PostsInOrder, UNCHANGED <<posts, cache, clock>>
    PROVE  /\ PostsInOrder' /\ OpenNow' = OpenNow
           /\ \A d : Rows(d)' = Rows(d)
           /\ \A kind, d : ThatAre(kind, d)' = ThatAre(kind, d)
<1>1. /\ PostsInOrder' /\ \A d : Rows(d)' = Rows(d)
      /\ \A kind, d : ThatAre(kind, d)' = ThatAre(kind, d)
  BY DEF PostsInOrder, Rows, ThatAre
<1>2. OpenNow' = OpenNow
  BY DEF OpenNow, OpenClaims, CompletedBy, ThatAre, Rows
<1>3. QED
  BY <1>1, <1>2

\* What a tool has after a read.
LEMMA PartsKept ==
    ASSUME NEW part \in Overviews, NEW to \in {"claim", "done", "mentions", "health", "answered"},
           overview' = [part EXCEPT !.at = to]
    PROVE  /\ overview' \in Overviews /\ overview'.at = to
           /\ overview'.tool = part.tool /\ overview'.domain = part.domain
           /\ overview'.found = part.found /\ overview'.mentions = part.mentions
           /\ overview'.health = part.health /\ overview'.open = part.open /\ overview'.steady = part.steady
BY DEF Overviews

\* No call: nothing has been read.
LEMMA NoCallParts ==
    /\ NoCall \in Overviews /\ NoCall.at = "idle" /\ NoCall.tool = "none"
    /\ NoCall.found["claim"] = {} /\ NoCall.found["done"] = {} /\ NoCall.mentions = {}
BY DEF NoCall, Overviews, Marks, Healths

LEMMA OpenAreNumbers ==
    ASSUME ViewTypes
    PROVE  OpenNow \subseteq Nat
BY RowsThere DEF OpenNow, OpenClaims, ThatAre

LEMMA BeginKeeps ==
    ASSUME ViewsInv, NEW c \in Calls, BeginOverview(c.tool, c.domain)
    PROVE  ViewsInv'
<1> DEFINE part == [NoCall EXCEPT !.tool = c.tool, !.domain = c.domain, !.open = OpenNow]
<1>1. overview' = [part EXCEPT !.at = "claim"] /\ UNCHANGED <<posts, cache, clock, moves>>
  BY DEF BeginOverview, Proceed, Searches, OpenNow, ThatAre
<1>2. /\ part \in Overviews /\ part.open = OpenNow /\ part.found = NoCall.found
      /\ part.mentions = NoCall.mentions
  BY NoCallParts, OpenAreNumbers DEF ViewsInv, Overviews
<1> HIDE DEF part
<1>3. /\ overview' \in Overviews /\ overview'.at = "claim" /\ overview'.open = OpenNow
      /\ overview'.found = NoCall.found /\ overview'.mentions = NoCall.mentions
  BY <1>1, <1>2, PartsKept
<1>4. PostsInOrder' /\ OpenNow' = OpenNow
  BY <1>1, StillThere DEF ViewsInv
<1>5. ViewTypes'
  BY <1>1, <1>3 DEF ViewsInv, ViewTypes
<1>6. FoundThere'
  BY <1>3, NoCallParts DEF FoundThere, Marks
<1>7. OpenRemembered'
  BY <1>3, <1>4 DEF OpenRemembered
<1>8. HealthOfNewest'
  BY <1>3 DEF HealthOfNewest
<1>9. QED
  BY <1>4, <1>5, <1>6, <1>7, <1>8 DEF ViewsInv

\* A search finds what is there, and everything if it is not too much.
LEMMA SearchFinds ==
    ASSUME ViewsAssumption, ViewTypes, NEW d, NEW kind
    PROVE  /\ Parsed(d, kind) \subseteq ThatAre(kind, d) /\ ThatAre(kind, d) \subseteq Nat
           /\ Cardinality(Marked(d, kind)) <= ClaimLimit => Parsed(d, kind) = ThatAre(kind, d)
<1> DEFINE rows == Marked(d, kind)
<1>1. /\ Parsed(d, kind) = {i \in Newest(rows, ClaimLimit) : posts[i].kind = kind}
      /\ ThatAre(kind, d) = {i \in rows : posts[i].kind = kind}
  BY DEF SearchMessages, Parsed, ThatAre, Marked
<1>2. rows \subseteq Rows(d) /\ Rows(d) \subseteq Nat /\ IsFiniteSet(Rows(d)) /\ ClaimLimit \in Nat
  BY RowsThere DEF Marked, ViewsAssumption
<1> HIDE DEF rows
<1>3. Newest(rows, ClaimLimit) \subseteq rows
  BY DEF Newest
<1>4. rows \subseteq Nat /\ IsFiniteSet(rows)
  BY <1>2, FS_Subset
<1>5. Cardinality(rows) <= ClaimLimit => Newest(rows, ClaimLimit) = rows
  BY <1>2, <1>4, NothingCutOff
<1>6. QED
  BY <1>1, <1>3, <1>4, <1>5 DEF rows

\* A claim that is there is open if no completion of the domain is of it.
LEMMA OpenIfNotDone ==
    ASSUME ViewTypes, FoundThere, overview.steady, NEW i \in overview.found["claim"],
           \A j \in ThatAre("done", overview.domain) : ~CompletedBy(j, i)
    PROVE  i \in OpenNow
<1>1. i \in 1..cache.n /\ overview.domain \in {EveryDomain, posts[i].domain}
      /\ posts[i].domain \in cache.subs
  BY DEF FoundThere
<1>2. posts[i].kind = "claim"
  BY DEF FoundThere, Marks
<1>3. i \in ThatAre("claim", EveryDomain)
  BY <1>1, <1>2 DEF ThatAre, Rows
<1>4. ASSUME NEW j \in ThatAre("done", EveryDomain), CompletedBy(j, i) PROVE FALSE
  <2>1. posts[j].domain = posts[i].domain
    BY <1>4 DEF CompletedBy
  <2>2. j \in ThatAre("done", overview.domain)
    BY <1>1, <1>4, <2>1 DEF ThatAre, Rows
  <2>3. QED
    BY <1>4, <2>2
<1>5. QED
  BY <1>3, <1>4 DEF OpenNow, OpenClaims

LEMMA MarkedKeeps ==
    ASSUME ViewsAssumption, ViewsInv, NEW k \in {1, 2}, ReadMarked(k)
    PROVE  ViewsInv'
<1> DEFINE kind == Searches[k]
           got == Parsed(overview.domain, kind)
           part == [overview EXCEPT !.found[kind] = got]
           to == IF k = 1 THEN Searches[2] ELSE IF overview.tool = "list" THEN "health" ELSE "mentions"
<1>1. /\ overview.at = kind /\ overview' = [part EXCEPT !.at = to]
      /\ UNCHANGED <<posts, cache, clock, moves>>
  BY DEF ReadMarked, Proceed, Reading
<1>2. /\ k = 1 => kind = "claim" /\ to = "done"
      /\ k = 2 => kind = "done" /\ to \in {"health", "mentions"}
  BY DEF Searches
<1>3. /\ got \subseteq ThatAre(kind, overview.domain) /\ ThatAre(kind, overview.domain) \subseteq Nat
      /\ Cardinality(Marked(overview.domain, kind)) <= ClaimLimit => got = ThatAre(kind, overview.domain)
  BY SearchFinds DEF ViewsInv
<1>4. ViewTypes /\ PostsInOrder /\ FoundThere /\ OpenRemembered /\ overview \in Overviews
  BY DEF ViewsInv, ViewTypes
<1> HIDE DEF kind, got, to
<1>5. kind \in Marks /\ to \in {"done", "mentions", "health"}
  BY <1>2 DEF Marks
<1>6. /\ part \in Overviews /\ part.found[kind] = got
      /\ \A other \in Marks \ {kind} : part.found[other] = overview.found[other]
      /\ part.tool = overview.tool /\ part.domain = overview.domain /\ part.mentions = overview.mentions
      /\ part.open = overview.open /\ part.steady = overview.steady
  BY <1>3, <1>4, <1>5 DEF Overviews
<1> HIDE DEF part
<1>7. /\ overview' \in Overviews /\ overview'.at = to /\ overview'.found[kind] = got
      /\ \A other \in Marks \ {kind} : overview'.found[other] = overview.found[other]
      /\ overview'.tool = overview.tool /\ overview'.domain = overview.domain
      /\ overview'.mentions = overview.mentions
      /\ overview'.open = overview.open /\ overview'.steady = overview.steady
  BY <1>1, <1>5, <1>6, PartsKept
<1>8. PostsInOrder' /\ OpenNow' = OpenNow /\ \A x, d : ThatAre(x, d)' = ThatAre(x, d)
  BY <1>1, <1>4, StillThere
<1>9. ViewTypes'
  BY <1>1, <1>4, <1>7 DEF ViewTypes
<1>10. FoundThere'
  <2>1. \A i \in got : /\ posts[i].kind = kind /\ i \in 1..cache.n
                       /\ overview.domain \in {EveryDomain, posts[i].domain} /\ posts[i].domain \in cache.subs
    BY <1>3 DEF ThatAre, Rows
  <2>2. \A x \in Marks : \A i \in overview'.found[x] :
           /\ posts[i].kind = x /\ i \in 1..cache.n
           /\ overview.domain \in {EveryDomain, posts[i].domain}
           /\ overview.steady => posts[i].domain \in cache.subs
    BY <1>4, <1>7, <2>1 DEF FoundThere, Marks
  <2>3. \A i \in overview'.mentions :
           /\ i \in 1..cache.n
           /\ overview.domain \in {EveryDomain, posts[i].domain}
           /\ overview.steady => posts[i].domain \in cache.subs
    BY <1>4, <1>7 DEF FoundThere
  <2>4. QED
    BY <1>1, <1>7, <2>2, <2>3 DEF FoundThere, Marks
<1>11. OpenRemembered'
  <2>1. overview'.at # "idle" /\ OpenNow' \subseteq overview'.open
    BY <1>1, <1>4, <1>5, <1>7, <1>8 DEF OpenRemembered, Marks
  <2>2. ASSUME overview'.at \in {"mentions", "health", "answered"}, overview'.steady,
               Cardinality(Marked(overview.domain, "done")) <= ClaimLimit
        PROVE  ClaimsShown' \subseteq OpenNow
    <3>1. kind = "done"
      BY <1>2, <1>7, <2>2
    <3>2. got = ThatAre("done", overview.domain) /\ overview.steady
      BY <1>3, <1>7, <2>2, <3>1
    <3>3. overview'.found["done"] = got /\ overview'.found["claim"] = overview.found["claim"]
      BY <1>7, <3>1 DEF Marks
    <3>4. ClaimsShown' = {i \in overview.found["claim"] : \A j \in got : ~CompletedBy(j, i)}
      BY <1>1, <3>3 DEF ClaimsShown, OpenClaims, CompletedBy
    <3>5. QED
      BY <1>4, <3>2, <3>4, OpenIfNotDone
  <2>3. (Cardinality(Marked(overview.domain, "done")) <= ClaimLimit)'
            <=> Cardinality(Marked(overview.domain, "done")) <= ClaimLimit
    BY <1>1, <1>7 DEF Marked, Rows
  <2>4. QED
    BY <1>8, <2>1, <2>2, <2>3 DEF OpenRemembered
<1>12. HealthOfNewest'
  BY <1>5, <1>7 DEF HealthOfNewest
<1>13. QED
  BY <1>8, <1>9, <1>10, <1>11, <1>12 DEF ViewsInv

LEMMA MentionsKeep ==
    ASSUME ViewsInv, ReadMentions
    PROVE  ViewsInv'
<1> DEFINE got == FindMentions(MyHandle, overview.domain, PageLimit)
           part == [overview EXCEPT !.mentions = got]
<1>1. /\ overview.at = "mentions" /\ overview' = [part EXCEPT !.at = "health"]
      /\ UNCHANGED <<posts, cache, clock, moves>>
  BY DEF ReadMentions, Proceed, Reading
<1>2. ViewTypes /\ PostsInOrder /\ FoundThere /\ OpenRemembered /\ overview \in Overviews
  BY DEF ViewsInv, ViewTypes
<1>3. got \subseteq Rows(overview.domain)
  BY DEF FindMentions, Newest
<1>4. got \subseteq Nat
  BY <1>2, <1>3, RowsThere
<1> HIDE DEF got
<1>5. /\ part \in Overviews /\ part.mentions = got /\ part.found = overview.found
      /\ part.tool = overview.tool /\ part.domain = overview.domain
      /\ part.open = overview.open /\ part.steady = overview.steady
  BY <1>2, <1>4 DEF Overviews
<1> HIDE DEF part
<1>6. /\ overview' \in Overviews /\ overview'.at = "health" /\ overview'.mentions = got
      /\ overview'.found = overview.found /\ overview'.tool = overview.tool
      /\ overview'.domain = overview.domain /\ overview'.open = overview.open
      /\ overview'.steady = overview.steady
  BY <1>1, <1>5, PartsKept
<1>7. PostsInOrder' /\ OpenNow' = OpenNow /\ \A x, d : ThatAre(x, d)' = ThatAre(x, d)
  BY <1>1, <1>2, StillThere
<1>8. ViewTypes'
  BY <1>1, <1>2, <1>6 DEF ViewTypes
<1>9. FoundThere'
  <2>1. \A i \in got : /\ i \in 1..cache.n /\ overview.domain \in {EveryDomain, posts[i].domain}
                       /\ posts[i].domain \in cache.subs
    BY <1>3 DEF Rows
  <2>2. QED
    BY <1>1, <1>2, <1>6, <2>1 DEF FoundThere
<1>10. OpenRemembered'
  <2>1. ClaimsShown' = ClaimsShown
    BY <1>1, <1>6 DEF ClaimsShown, OpenClaims, CompletedBy
  <2>2. (Cardinality(Marked(overview.domain, "done")) <= ClaimLimit)'
            <=> Cardinality(Marked(overview.domain, "done")) <= ClaimLimit
    BY <1>1, <1>6 DEF Marked, Rows
  <2>3. QED
    BY <1>1, <1>2, <1>6, <1>7, <2>1, <2>2 DEF OpenRemembered
<1>11. HealthOfNewest'
  BY <1>6 DEF HealthOfNewest
<1>12. QED
  BY <1>7, <1>8, <1>9, <1>10, <1>11 DEF ViewsInv

\* Whoever is stale, silent or unknown with messages has been so for as long.
LEMMA StaleIsOld ==
    ASSUME ViewsAssumption, ViewTypes, NEW i \in 1..Len(posts),
           HealthAt(i) \in {"stale", "silent", "unknown"}
    PROVE  Age(i) >= Stale
<1>1. Age(i) \in Int
  <2>1. posts[i] \in Posts /\ clock \in Int
    BY RowsThere DEF ViewTypes
  <2>2. posts[i].at \in Int
    BY <2>1 DEF Posts
  <2>3. QED
    BY <2>1, <2>2 DEF Age
<1>2. Idle \in Nat /\ Stale \in Nat /\ Silent \in Nat /\ Idle <= Stale /\ Stale <= Silent
  BY DEF ViewsAssumption
<1>3. /\ Age(i) < Idle => HealthAt(i) = "active"
      /\ Idle <= Age(i) /\ Age(i) < Stale => HealthAt(i) = "idle"
  BY <1>1, <1>2 DEF HealthAt
<1>4. ~(Age(i) < Idle) /\ ~(Idle <= Age(i) /\ Age(i) < Stale)
  BY <1>3
<1>5. QED
  BY <1>1, <1>2, <1>3, <1>4

LEMMA HealthKeeps ==
    ASSUME ViewsAssumption, ViewsInv, ReadHealth
    PROVE  ViewsInv'
<1> DEFINE R == Rows(overview.domain)
<1>1. overview.at = "health"
  BY DEF ReadHealth, Reading
<1>2. PICK order \in SetToSeqs(R) :
          LET all == IF overview.tool = "list" THEN Listed(order, ClaimLimit)
                     ELSE [a \in {Me} |-> AgentHealth(Me, order)]
          IN  Proceed("answered", [overview EXCEPT !.health =
                  [a \in Authors |-> IF a \in DOMAIN all THEN all[a].health ELSE "none"]])
  BY DEF ReadHealth
<1> DEFINE all == IF overview.tool = "list" THEN Listed(order, ClaimLimit)
                  ELSE [a \in {Me} |-> AgentHealth(Me, order)]
           health == [a \in Authors |-> IF a \in DOMAIN all THEN all[a].health ELSE "none"]
           part == [overview EXCEPT !.health = health]
<1>3. overview' = [part EXCEPT !.at = "answered"] /\ UNCHANGED <<posts, cache, clock, moves>>
  BY <1>2 DEF Proceed
<1>4. ViewTypes /\ PostsInOrder /\ FoundThere /\ OpenRemembered /\ overview \in Overviews
  BY DEF ViewsInv, ViewTypes
<1>5. R \in SUBSET (1..Len(posts)) /\ ClaimLimit \in Nat /\ Me \in Authors
  BY <1>4, RowsThere DEF ViewsAssumption
<1> HIDE DEF R
<1>6. \A a \in DOMAIN Listed(order, ClaimLimit) :
          a \in Authors /\ By(a, R) # {} /\ Listed(order, ClaimLimit)[a] = EntryOf(a, R)
  BY <1>4, <1>5, ListedAre
<1>7. AgentHealth(Me, order) = EntryOf(Me, R)
  <2>1. Me \in Authors \cap {Me}
    BY <1>5
  <2>2. QED
    BY <1>4, <1>5, <2>1, ActivityIs DEF AgentHealth
<1>8. \A a \in DOMAIN all : a \in Authors /\ all[a] = EntryOf(a, R)
  BY <1>5, <1>6, <1>7
<1>9. \A a \in Authors : EntryOf(a, R).health \in Healths
  <2>1. SUFFICES ASSUME NEW a \in Authors PROVE EntryOf(a, R).health \in Healths
    OBVIOUS
  <2>2. EntryOf(a, R).health = "unknown" \/ \E i : EntryOf(a, R).health = HealthAt(i)
    BY <1>4, <1>5, EntryParts
  <2>3. \A i : HealthAt(i) \in Healths
    BY DEF HealthAt, Healths
  <2>4. QED
    BY <2>2, <2>3 DEF Healths
<1>10. overview.tool = "list" => \A a \in DOMAIN all : By(a, R) # {}
  BY <1>6
<1> HIDE DEF all
<1>11. health \in [Authors -> Healths]
  <2>1. \A a \in Authors : (IF a \in DOMAIN all THEN all[a].health ELSE "none") \in Healths
    BY <1>8, <1>9 DEF Healths
  <2>2. QED
    BY <2>1
<1>12. \A a \in Authors : health[a] # "none" => a \in DOMAIN all /\ health[a] = EntryOf(a, R).health
  BY <1>8
<1> HIDE DEF health
<1>13. /\ part \in Overviews /\ part.health = health /\ part.found = overview.found
       /\ part.tool = overview.tool /\ part.domain = overview.domain /\ part.mentions = overview.mentions
       /\ part.open = overview.open /\ part.steady = overview.steady
  BY <1>4, <1>11 DEF Overviews
<1> HIDE DEF part
<1>14. /\ overview' \in Overviews /\ overview'.at = "answered" /\ overview'.health = health
       /\ overview'.found = overview.found /\ overview'.tool = overview.tool
       /\ overview'.domain = overview.domain /\ overview'.mentions = overview.mentions
       /\ overview'.open = overview.open /\ overview'.steady = overview.steady
  BY <1>3, <1>13, PartsKept
<1>15. PostsInOrder' /\ OpenNow' = OpenNow /\ \A x, d : ThatAre(x, d)' = ThatAre(x, d)
  BY <1>3, <1>4, StillThere
<1>16. ViewTypes'
  BY <1>3, <1>4, <1>14 DEF ViewTypes
<1>17. FoundThere'
  BY <1>3, <1>4, <1>14 DEF FoundThere
<1>18. OpenRemembered'
  <2>1. ClaimsShown' = ClaimsShown
    BY <1>3, <1>14 DEF ClaimsShown, OpenClaims, CompletedBy
  <2>2. (Cardinality(Marked(overview.domain, "done")) <= ClaimLimit)'
            <=> Cardinality(Marked(overview.domain, "done")) <= ClaimLimit
    BY <1>3, <1>14 DEF Marked, Rows
  <2>3. QED
    BY <1>1, <1>4, <1>14, <1>15, <2>1, <2>2 DEF OpenRemembered
<1>19. HealthOfNewest'
  <2>1. SUFFICES ASSUME overview.tool = "list", overview.steady, NEW i \in overview.found["claim"],
                        health[posts[i].author] \in {"stale", "silent", "unknown"}
        PROVE  Age(i) >= Stale
    BY <1>3, <1>14 DEF HealthOfNewest, Age
  <2> DEFINE a == posts[i].author
             m == Max(By(a, R))
  <2>2. i \in R
    <3>1. i \in 1..cache.n /\ overview.domain \in {EveryDomain, posts[i].domain}
          /\ posts[i].domain \in cache.subs
      BY <1>4, <2>1 DEF FoundThere
    <3>2. QED
      BY <3>1 DEF R, Rows
  <2>3. i \in 1..Len(posts) /\ a \in Authors
    BY <1>4, <1>5, <2>2, RowsThere DEF Posts
  <2>4. i \in By(a, R)
    BY <2>2 DEF By
  <2>5. EntryOf(a, R).health = HealthAt(m) /\ m \in By(a, R) /\ i <= m
    <3> HIDE DEF a
    <3>1. QED
      BY <1>4, <1>5, <2>4, EntryParts
  <2>6. health[a] = EntryOf(a, R).health
    BY <1>12, <2>1, <2>3
  <2>7. m \in 1..Len(posts)
    BY <1>5, <2>5 DEF By
  <2> HIDE DEF m
  <2>8. Age(m) >= Stale
    BY <1>4, <2>1, <2>5, <2>6, <2>7, StaleIsOld
  <2>9. posts[i].at <= posts[m].at
    <3>1. i \in 1..m
      BY <2>3, <2>5, <2>7
    <3>2. QED
      BY <1>4, <2>7, <3>1 DEF PostsInOrder
  <2>10. clock \in Int /\ posts[i].at \in Int /\ posts[m].at \in Int /\ Stale \in Nat
    <3>1. posts[i] \in Posts /\ posts[m] \in Posts
      BY <1>4, <2>3, <2>7, RowsThere
    <3>2. posts[i].at \in Int /\ posts[m].at \in Int
      BY <3>1 DEF Posts
    <3>3. clock \in Int /\ Stale \in Nat
      BY <1>4 DEF ViewTypes, ViewsAssumption
    <3>4. QED
      BY <3>2, <3>3
  <2>11. Age(i) = clock - posts[i].at /\ Age(m) = clock - posts[m].at
    BY DEF Age
  <2>12. \A t, p, q, s \in Int : t - q >= s /\ p <= q => t - p >= s
    OBVIOUS
  <2>13. Stale \in Int /\ clock - posts[m].at >= Stale
    BY <2>8, <2>10, <2>11
  <2>14. QED
    BY <2>9, <2>10, <2>11, <2>12, <2>13
<1>20. QED
  BY <1>15, <1>16, <1>17, <1>18, <1>19 DEF ViewsInv

LEMMA ShowKeeps ==
    ASSUME ViewsInv, ShowOverview
    PROVE  ViewsInv'
<1>1. overview' = NoCall /\ UNCHANGED <<posts, cache, clock, moves>>
  BY NoCallParts DEF ShowOverview, Proceed, Reading, NoCall
<1>2. PostsInOrder'
  BY <1>1, StillThere DEF ViewsInv
<1>3. ViewTypes'
  BY <1>1, NoCallParts DEF ViewsInv, ViewTypes
<1>4. FoundThere' /\ OpenRemembered' /\ HealthOfNewest'
  <2>1. NoCall' = NoCall
    BY DEF NoCall
  <2>2. QED
    BY <1>1, <2>1, NoCallParts DEF FoundThere, OpenRemembered, HealthOfNewest, Marks
<1>5. QED
  BY <1>2, <1>3, <1>4 DEF ViewsInv

-----------------------------------------------------------------------------
(* What goes on meanwhile.                                                 *)

LEMMA SayKeeps ==
    ASSUME ViewsAssumption, ViewsInv, NEW say \in Says, NEW reply \in 0..Len(posts), Say(say, reply)
    PROVE  ViewsInv'
<1> DEFINE n == Len(posts)
           new == [say EXCEPT !.reply = reply, !.at = clock + Skew]
<1>1. /\ n < MaxSaid /\ posts' = Append(posts, new)
      /\ cache' = cache /\ clock' = clock /\ moves' = moves /\ overview' = overview
  BY DEF Say
<1>2. ViewTypes /\ PostsInOrder /\ FoundThere /\ OpenRemembered /\ HealthOfNewest
  BY DEF ViewsInv
<1>3. posts \in Seq(Posts) /\ n \in Nat /\ cache.n \in 0..n /\ MaxSaid \in Nat
  BY <1>2, RowsThere DEF ViewTypes, ViewsAssumption
<1>4. clock \in Int /\ clock + Skew \in Int /\ reply \in Nat /\ reply < n + 1
  <2>1. clock \in Int /\ Skew \in Int
    BY <1>2 DEF ViewTypes, ViewsAssumption
  <2>2. QED
    BY <1>3, <2>1
<1>5. new \in Posts /\ new.reply = reply /\ new.at = clock + Skew
  <2>1. say \in Posts
    BY DEF ViewsAssumption, Posts
  <2>2. QED
    BY <1>4, <2>1 DEF Posts
<1> HIDE DEF new
<1>6. /\ posts' \in Seq(Posts) /\ Len(posts') = n + 1
      /\ \A i \in 1..n : posts'[i] = posts[i]
  BY <1>1, <1>3, <1>5, AppendProperties
<1>61. posts'[n + 1] = new
  BY <1>1, <1>3, <1>5, AppendProperties
<1> HIDE DEF n
<1>7. \A d : Rows(d)' = Rows(d) /\ Rows(d) \subseteq 1..n
  <2>1. \A i \in 1..cache.n : posts'[i] = posts[i]
    <3>1. \A i \in 1..cache.n : i \in 1..n
      BY <1>3
    <3>2. QED
      BY <1>3, <1>6, <3>1
  <2>2. \A d : Rows(d)' = Rows(d)
    BY <1>1, <2>1 DEF Rows
  <2>3. QED
    BY <1>2, <2>2, RowsThere DEF n
<1>8. \A kind, d : ThatAre(kind, d)' = ThatAre(kind, d) /\ ThatAre(kind, d) \subseteq 1..n
  <2>1. \A d : \A i \in Rows(d) : posts'[i] = posts[i]
    BY <1>6, <1>7
  <2>2. QED
    BY <1>7, <2>1 DEF ThatAre
<1>9. \A i, j \in 1..n : CompletedBy(j, i)' <=> CompletedBy(j, i)
  BY <1>6 DEF CompletedBy
<1>10. OpenNow' = OpenNow
  <2>1. OpenNow' = {i \in ThatAre("claim", EveryDomain)' :
                       \A j \in ThatAre("done", EveryDomain)' : ~CompletedBy(j, i)'}
    BY DEF OpenNow, OpenClaims
  <2>2. QED
    BY <1>8, <1>9, <2>1 DEF OpenNow, OpenClaims
<1>11. /\ \A i \in overview.found["claim"] \cup overview.found["done"] \cup overview.mentions :
             i \in 1..n /\ posts'[i] = posts[i]
       /\ ClaimsShown' = ClaimsShown
  <2>1. \A i \in overview.found["claim"] \cup overview.found["done"] \cup overview.mentions : i \in 1..n
    BY <1>2, <1>3 DEF FoundThere
  <2>2. ClaimsShown' = {i \in overview.found["claim"] : \A j \in overview.found["done"] : ~CompletedBy(j, i)'}
    BY <1>1 DEF ClaimsShown, OpenClaims
  <2>3. QED
    BY <1>6, <1>9, <2>1, <2>2 DEF ClaimsShown, OpenClaims
<1>12. ViewTypes'
  <2>1. Len(posts') <= MaxSaid /\ cache' \in [n : 0..Len(posts'), subs : SUBSET Areas]
    BY <1>1, <1>2, <1>3, <1>6 DEF ViewTypes, n
  <2>2. QED
    BY <1>1, <1>2, <1>6, <2>1 DEF ViewTypes
<1>13. PostsInOrder'
  <2>1. SUFFICES ASSUME NEW i \in 1..n + 1
        PROVE  /\ posts'[i].reply < i /\ posts'[i].at <= clock + Skew
               /\ \A j \in 1..i : posts'[j].at <= posts'[i].at
    BY <1>1, <1>6 DEF PostsInOrder
  <2>2. CASE i \in 1..n
    <3>1. \A j \in 1..i : posts'[j] = posts[j]
      BY <1>3, <1>6, <2>2
    <3>2. i \in 1..i
      BY <2>2
    <3>3. QED
      BY <1>2, <2>2, <3>1, <3>2 DEF PostsInOrder, n
  <2>3. CASE i = n + 1
    <3>1. \A j \in 1..i : j \in 1..n \/ j = n + 1
      BY <1>3, <2>3
    <3>2. \A j \in 1..n : posts'[j].at <= clock + Skew
      BY <1>2, <1>6 DEF PostsInOrder, n
    <3>3. posts'[i].reply < i /\ posts'[i].at = clock + Skew
      BY <1>4, <1>5, <1>61, <2>3
    <3>4. clock + Skew <= clock + Skew
      BY <1>4
    <3>5. \A j \in 1..i : posts'[j].at <= clock + Skew
      BY <2>3, <3>1, <3>2, <3>3, <3>4
    <3>6. QED
      BY <3>3, <3>4, <3>5
  <2>4. QED
    BY <1>3, <2>2, <2>3
<1>14. FoundThere'
  <2>1. /\ \A kind \in Marks : \A i \in overview.found[kind] : posts'[i].kind = kind
        /\ \A i \in overview.found["claim"] \cup overview.found["done"] \cup overview.mentions :
              posts'[i].domain = posts[i].domain
    BY <1>2, <1>11 DEF FoundThere, Marks
  <2>2. QED
    BY <1>1, <1>2, <2>1 DEF FoundThere
<1>15. OpenRemembered'
  <2>1. NoCall' = NoCall
    BY DEF NoCall
  <2>2. Marked(overview.domain, "done")' = Marked(overview.domain, "done")
    <3>1. Rows(overview.domain)' = {i \in 1..cache.n : posts'[i].domain \in cache.subs
                                             /\ overview.domain \in {EveryDomain, posts'[i].domain}}
      BY <1>1 DEF Rows
    <3>2. \A i \in 1..cache.n : posts'[i] = posts[i]
      <4>1. \A i \in 1..cache.n : i \in 1..n
        BY <1>3
      <4>2. QED
        BY <1>6, <4>1
    <3>3. Rows(overview.domain)' = Rows(overview.domain) /\ Rows(overview.domain) \subseteq 1..cache.n
      BY <3>1, <3>2 DEF Rows
    <3>4. QED
      BY <3>2, <3>3 DEF Marked
  <2>3. QED
    BY <1>1, <1>2, <1>10, <1>11, <2>1, <2>2 DEF OpenRemembered
<1>16. HealthOfNewest'
  <2>1. \A i \in overview.found["claim"] : posts'[i] = posts[i]
    BY <1>11
  <2>2. QED
    BY <1>1, <1>2, <2>1 DEF HealthOfNewest, Age
<1>17. QED
  BY <1>12, <1>13, <1>14, <1>15, <1>16 DEF ViewsInv

\* What is open as soon as the replica changes is remembered.
LEMMA Witnessed ==
    ASSUME ViewTypes, overview # NoCall, posts' = posts, overview' = Witness,
           cache' \in [n : 0..Len(posts), subs : SUBSET Areas]
    PROVE  /\ overview' \in Overviews /\ overview'.at = overview.at
           /\ overview'.found = overview.found /\ overview'.tool = overview.tool
           /\ overview'.domain = overview.domain /\ overview'.mentions = overview.mentions
           /\ overview'.health = overview.health
           /\ overview'.open = overview.open \cup OpenNow'
           /\ cache.subs = cache'.subs => overview'.steady = overview.steady
           /\ cache.subs # cache'.subs => ~overview'.steady
<1> DEFINE more == overview.open \cup OpenClaims(InReplica("claim"), InReplica("done"))
           still == overview.steady /\ cache.subs = cache'.subs
           wider == [overview EXCEPT !.open = more]
<1>1. overview' = [wider EXCEPT !.steady = still]
  BY DEF Witness
<1>2. OpenClaims(InReplica("claim"), InReplica("done")) = OpenNow'
  BY DEF InReplica, OpenNow, ThatAre, OpenClaims, CompletedBy
<1>3. overview \in Overviews /\ Len(posts) \in Nat /\ cache'.n \in Nat
  BY RowsThere DEF ViewTypes
<1>4. OpenNow' \subseteq Nat
  <2>1. OpenNow' \subseteq 1..cache'.n
    BY DEF OpenNow, OpenClaims, ThatAre, Rows
  <2>2. QED
    BY <1>3, <2>1
<1>5. more = overview.open \cup OpenNow' /\ more \in SUBSET Nat
  BY <1>2, <1>3, <1>4 DEF Overviews
<1>6. /\ still \in BOOLEAN
      /\ cache.subs = cache'.subs => still = overview.steady
      /\ cache.subs # cache'.subs => ~still
  BY <1>3 DEF Overviews
<1> HIDE DEF more, still
<1>7. overview' \in Overviews /\ overview'.open = more /\ overview'.steady = still
      /\ overview'.at = overview.at
      /\ overview'.found = overview.found /\ overview'.tool = overview.tool
      /\ overview'.domain = overview.domain /\ overview'.mentions = overview.mentions
      /\ overview'.health = overview.health
  BY <1>1, <1>3, <1>5, <1>6 DEF Overviews
<1>8. QED
  BY <1>5, <1>6, <1>7

LEMMA RefreshKeeps ==
    ASSUME ViewsAssumption, ViewsInv, Refresh
    PROVE  ViewsInv'
<1>1. PICK k \in cache.n + 1..Len(posts) : cache' = [cache EXCEPT !.n = k]
  BY DEF Refresh
<1>2. /\ UNCHANGED <<posts, clock, moves>>
      /\ overview' = IF overview = NoCall THEN NoCall ELSE Witness
  BY DEF Refresh
<1>3. ViewTypes /\ PostsInOrder /\ FoundThere /\ OpenRemembered /\ HealthOfNewest
  BY DEF ViewsInv
<1>4. /\ cache \in [n : 0..Len(posts), subs : SUBSET Areas] /\ Len(posts) \in Nat
      /\ overview \in Overviews
  BY <1>3, RowsThere DEF ViewTypes
<1>5. /\ cache' \in [n : 0..Len(posts), subs : SUBSET Areas]
      /\ cache'.subs = cache.subs /\ cache.n <= cache'.n /\ cache.n \in Nat /\ cache'.n \in Nat
  <2>1. k \in 0..Len(posts) /\ cache.n <= k
    BY <1>1, <1>4
  <2>2. QED
    BY <1>1, <1>4, <2>1
<1>6. 1..cache.n \subseteq 1..cache'.n
  BY <1>5
<1>7. PostsInOrder'
  BY <1>2, <1>3 DEF PostsInOrder
<1>8. CASE overview = NoCall
  <2>1. overview' = NoCall /\ NoCall' = NoCall
    BY <1>2, <1>8 DEF NoCall
  <2>2. ViewTypes'
    BY <1>2, <1>3, <1>5, <2>1, NoCallParts DEF ViewTypes
  <2>3. FoundThere' /\ OpenRemembered' /\ HealthOfNewest'
    BY <2>1, NoCallParts DEF FoundThere, OpenRemembered, HealthOfNewest, Marks
  <2>4. QED
    BY <1>7, <2>2, <2>3 DEF ViewsInv
<1>9. CASE overview # NoCall
  <2>1. overview' = Witness
    BY <1>2, <1>9
  <2>2. /\ overview' \in Overviews /\ overview'.at = overview.at
        /\ overview'.found = overview.found /\ overview'.tool = overview.tool
        /\ overview'.domain = overview.domain /\ overview'.mentions = overview.mentions
        /\ overview'.health = overview.health
        /\ overview'.open = overview.open \cup OpenNow'
        /\ overview'.steady = overview.steady
    BY <1>2, <1>3, <1>5, <1>9, <2>1, Witnessed
  <2>3. overview'.steady = overview.steady
    BY <2>2
  <2>4. ViewTypes'
    BY <1>2, <1>3, <1>5, <2>2 DEF ViewTypes
  <2>5. FoundThere'
    BY <1>2, <1>3, <1>5, <1>6, <2>2, <2>3 DEF FoundThere
  <2>6. OpenRemembered'
    <3>1. ClaimsShown' = ClaimsShown
      BY <1>2, <2>2 DEF ClaimsShown, OpenClaims, CompletedBy
    <3>2. Marked(overview.domain, "done") \subseteq Marked(overview.domain, "done")'
      BY <1>2, <1>5, <1>6, <2>2 DEF Marked, Rows
    <3>3. IsFiniteSet(Marked(overview.domain, "done")')
      <4>1. Marked(overview.domain, "done")' \subseteq 1..cache'.n
        BY DEF Marked, Rows
      <4>2. IsFiniteSet(1..cache'.n)
        BY <1>5, FS_Interval
      <4> HIDE DEF Marked
      <4>3. QED
        BY <4>1, <4>2, FS_Subset
    <3>4. Cardinality(Marked(overview.domain, "done")') <= ClaimLimit
              => Cardinality(Marked(overview.domain, "done")) <= ClaimLimit
      <4> DEFINE S == Marked(overview.domain, "done")
                 T == Marked(overview.domain, "done")'
      <4>1. S \subseteq T /\ IsFiniteSet(T)
        BY <3>2, <3>3
      <4> HIDE DEF S, T
      <4>2. IsFiniteSet(S) /\ Cardinality(S) <= Cardinality(T) /\ Cardinality(S) \in Nat /\ Cardinality(T) \in Nat
        BY <4>1, FS_Subset, FS_CardinalityType
      <4>3. ClaimLimit \in Nat
        BY DEF ViewsAssumption
      <4>4. Cardinality(T) <= ClaimLimit => Cardinality(S) <= ClaimLimit
        BY <4>2, <4>3
      <4>5. QED
        BY <4>4 DEF S, T
    <3>5. overview.at # "idle"
      BY <1>3, <1>9 DEF OpenRemembered
    <3>6. QED
      BY <1>3, <2>2, <2>3, <3>1, <3>4, <3>5 DEF OpenRemembered
  <2>7. HealthOfNewest'
    BY <1>2, <1>3, <2>2, <2>3 DEF HealthOfNewest, Age
  <2>8. QED
    BY <1>7, <2>4, <2>5, <2>6, <2>7 DEF ViewsInv
<1>10. QED
  BY <1>8, <1>9

LEMMA ChangeKeeps ==
    ASSUME ViewsAssumption, ViewsInv, NEW d \in Areas, ChangeDomains(d)
    PROVE  ViewsInv'
<1>1. /\ moves < MaxMoves /\ moves' = moves + 1 /\ UNCHANGED <<posts, clock>>
      /\ cache' = [cache EXCEPT !.subs = IF d \in cache.subs THEN cache.subs \ {d} ELSE cache.subs \cup {d}]
      /\ overview' = IF overview = NoCall THEN NoCall ELSE Witness
  BY DEF ChangeDomains
<1>2. ViewTypes /\ PostsInOrder /\ FoundThere /\ OpenRemembered /\ HealthOfNewest
  BY DEF ViewsInv
<1>3. cache \in [n : 0..Len(posts), subs : SUBSET Areas] /\ overview \in Overviews
  BY <1>2 DEF ViewTypes
<1>4. /\ cache' \in [n : 0..Len(posts), subs : SUBSET Areas]
      /\ cache'.n = cache.n /\ cache'.subs # cache.subs
  BY <1>1, <1>3
<1>5. moves' \in 0..MaxMoves
  BY <1>1, <1>2 DEF ViewTypes, ViewsAssumption
<1>6. PostsInOrder'
  BY <1>1, <1>2 DEF PostsInOrder
<1>7. CASE overview = NoCall
  <2>1. overview' = NoCall /\ NoCall' = NoCall
    BY <1>1, <1>7 DEF NoCall
  <2>2. ViewTypes'
    BY <1>1, <1>2, <1>4, <1>5, <2>1, NoCallParts DEF ViewTypes
  <2>3. FoundThere' /\ OpenRemembered' /\ HealthOfNewest'
    BY <2>1, NoCallParts DEF FoundThere, OpenRemembered, HealthOfNewest, Marks
  <2>4. QED
    BY <1>6, <2>2, <2>3 DEF ViewsInv
<1>8. CASE overview # NoCall
  <2>1. overview' = Witness
    BY <1>1, <1>8
  <2>2. /\ overview' \in Overviews /\ overview'.at = overview.at
        /\ overview'.found = overview.found /\ overview'.tool = overview.tool
        /\ overview'.domain = overview.domain /\ overview'.mentions = overview.mentions
        /\ overview'.open = overview.open \cup OpenNow'
        /\ ~overview'.steady
    BY <1>1, <1>2, <1>4, <1>8, <2>1, Witnessed
  <2>3. ~overview'.steady
    BY <2>2
  <2>4. ViewTypes'
    BY <1>1, <1>2, <1>4, <1>5, <2>2 DEF ViewTypes
  <2>5. FoundThere'
    BY <1>1, <1>2, <1>4, <2>2, <2>3 DEF FoundThere
  <2>6. OpenRemembered'
    BY <1>2, <1>8, <2>2, <2>3 DEF OpenRemembered
  <2>7. HealthOfNewest'
    BY <2>3 DEF HealthOfNewest
  <2>8. QED
    BY <1>6, <2>4, <2>5, <2>6, <2>7 DEF ViewsInv
<1>9. QED
  BY <1>7, <1>8

LEMMA PassKeeps ==
    ASSUME ViewsAssumption, ViewsInv, Pass
    PROVE  ViewsInv'
<1>1. clock < MaxTime /\ clock' = clock + 1 /\ UNCHANGED <<posts, cache, moves, overview>>
  BY DEF Pass
<1>2. ViewTypes /\ PostsInOrder /\ FoundThere /\ OpenRemembered /\ HealthOfNewest
  BY DEF ViewsInv
<1>3. clock \in Nat /\ clock' \in 0..MaxTime /\ Skew \in Int /\ Stale \in Nat
  BY <1>1, <1>2 DEF ViewTypes, ViewsAssumption
<1>4. ViewTypes'
  BY <1>1, <1>2, <1>3 DEF ViewTypes
<1>5. \A i \in 1..Len(posts) : posts[i].at \in Int
  BY <1>2, RowsThere DEF Posts
<1>6. PostsInOrder'
  <2>0. \A p, t, s \in Int : p <= t + s => p <= (t + 1) + s
    OBVIOUS
  <2>1. \A i \in 1..Len(posts) : posts[i].at <= clock + Skew => posts[i].at <= clock' + Skew
    BY <1>1, <1>3, <1>5, <2>0
  <2>2. QED
    BY <1>1, <1>2, <2>1 DEF PostsInOrder
<1>7. FoundThere' /\ OpenRemembered'
  <2>1. NoCall' = NoCall
    BY DEF NoCall
  <2>2. FoundThere'
    BY <1>1, <1>2 DEF FoundThere
  <2>3. OpenNow' = OpenNow /\ ClaimsShown' = ClaimsShown
        /\ Marked(overview.domain, "done")' = Marked(overview.domain, "done")
    BY <1>1 DEF OpenNow, ClaimsShown, OpenClaims, CompletedBy, ThatAre, Marked, Rows
  <2>4. OpenRemembered'
    BY <1>1, <1>2, <2>1, <2>3 DEF OpenRemembered
  <2>5. QED
    BY <2>2, <2>4
<1>8. HealthOfNewest'
  <2>1. \A i \in overview.found["claim"] : i \in 1..Len(posts)
    <3>1. \A i \in overview.found["claim"] : i \in 1..cache.n
      BY <1>2 DEF FoundThere
    <3>2. cache.n \in 0..Len(posts)
      BY <1>2 DEF ViewTypes
    <3>3. QED
      BY <3>1, <3>2
  <2>2. \A t, p, s \in Int : t - p >= s => (t + 1) - p >= s
    OBVIOUS
  <2>3. \A i \in 1..Len(posts) : Age(i) >= Stale => Age(i)' >= Stale
    BY <1>1, <1>3, <1>5, <2>2 DEF Age
  <2>4. QED
    BY <1>1, <1>2, <2>1, <2>3 DEF HealthOfNewest
<1>9. QED
  BY <1>4, <1>6, <1>7, <1>8 DEF ViewsInv

-----------------------------------------------------------------------------
(* Theorems.                                                               *)

LEMMA ViewsInit ==
    ASSUME ViewsAssumption, VwInit
    PROVE  ViewsInv
<1>1. posts = <<>> /\ cache = [n |-> 0, subs |-> Areas] /\ clock = 0 /\ moves = 0 /\ overview = NoCall
  BY DEF VwInit
<1>2. Len(posts) = 0 /\ posts \in Seq(Posts)
  BY <1>1
<1>3. ViewTypes
  <2>1. cache \in [n : 0..Len(posts), subs : SUBSET Areas] /\ clock \in 0..MaxTime /\ moves \in 0..MaxMoves
        /\ Len(posts) <= MaxSaid
    BY <1>1, <1>2 DEF ViewsAssumption
  <2>2. QED
    BY <1>1, <1>2, <2>1, NoCallParts DEF ViewTypes
<1>4. PostsInOrder
  BY <1>2 DEF PostsInOrder
<1>5. FoundThere /\ OpenRemembered /\ HealthOfNewest
  BY <1>1, NoCallParts DEF FoundThere, OpenRemembered, HealthOfNewest, Marks
<1>6. QED
  BY <1>3, <1>4, <1>5 DEF ViewsInv

LEMMA ViewsStep ==
    ASSUME ViewsAssumption, ViewsInv, [VwNext]_vwVars
    PROVE  ViewsInv'
<1>1. CASE UNCHANGED vwVars
  <2>1. UNCHANGED <<posts, cache, clock, moves, overview>> /\ NoCall' = NoCall
    BY <1>1 DEF vwVars, NoCall
  <2>2. OpenNow' = OpenNow /\ ClaimsShown' = ClaimsShown
        /\ Marked(overview.domain, "done")' = Marked(overview.domain, "done")
    BY <2>1 DEF OpenNow, ClaimsShown, OpenClaims, CompletedBy, ThatAre, Marked, Rows
  <2>3. ViewTypes' /\ PostsInOrder' /\ FoundThere' /\ HealthOfNewest'
    BY <2>1 DEF ViewsInv, ViewTypes, PostsInOrder, FoundThere, HealthOfNewest, Age
  <2>4. OpenRemembered'
    BY <2>1, <2>2 DEF ViewsInv, OpenRemembered
  <2>5. QED
    BY <2>3, <2>4 DEF ViewsInv
<1>2. CASE \E c \in Calls : BeginOverview(c.tool, c.domain)
  BY <1>2, BeginKeeps
<1>3. CASE ReadFirst \/ ReadSecond
  <2>1. PICK k \in {1, 2} : ReadMarked(k)
    BY <1>3 DEF ReadFirst, ReadSecond
  <2>2. QED
    BY <2>1, MarkedKeeps
<1>4. CASE ReadMentions
  BY <1>4, MentionsKeep
<1>5. CASE ReadHealth
  BY <1>5, HealthKeeps
<1>6. CASE ShowOverview
  BY <1>6, ShowKeeps
<1>7. CASE \E say \in Says : \E reply \in IF say.kind = "text" THEN 0..Len(posts) ELSE {0} : Say(say, reply)
  <2>1. PICK say \in Says, reply \in 0..Len(posts) : Say(say, reply)
    <3>1. Len(posts) \in Nat
      BY RowsThere DEF ViewsInv
    <3>2. QED
      BY <1>7, <3>1
  <2>2. QED
    BY <2>1, SayKeeps
<1>8. CASE Refresh
  BY <1>8, RefreshKeeps
<1>9. CASE Pass
  BY <1>9, PassKeeps
<1>10. CASE \E d \in Areas : ChangeDomains(d)
  BY <1>10, ChangeKeeps
<1>11. QED
  BY <1>1, <1>2, <1>3, <1>4, <1>5, <1>6, <1>7, <1>8, <1>9, <1>10 DEF VwNext, Overview, Meanwhile

\* Types: the replica is not ahead of the server, and what a tool has read are
\* claims, completions and mentions of the domain it was asked for.
THEOREM OverviewTypes == VwSpec => []VwTypeOK
<1>1. ASSUME ViewsInv PROVE VwTypeOK
  <2>1. ViewTypes /\ FoundThere
    BY <1>1 DEF ViewsInv
  <2>2. /\ cache.n \in 0..Len(posts) /\ cache.subs \subseteq Areas
        /\ clock \in 0..MaxTime /\ moves \in 0..MaxMoves /\ Len(posts) <= MaxSaid
        /\ \A a \in Authors : overview.health[a] \in {"none", "active", "idle", "stale", "silent", "unknown"}
    BY <2>1 DEF ViewTypes, Overviews, Healths
  <2>3. QED
    BY <2>1, <2>2 DEF FoundThere, VwTypeOK, Marks
<1>2. QED
  BY <1>1, ViewsInit, ViewsStep, ViewsAssumption, PTL DEF VwSpec

\* What an overview of agents, claims, mentions and threads says was so: whatever
\* order the rows come in, whatever is said and however the replica and the
\* subscriptions change between two reads.
THEOREM OverviewsAreTrue == VwSpec => []OverviewsTrue
<1>1. ASSUME ViewsInv PROVE OverviewsTrue
  <2>1. ViewTypes /\ PostsInOrder /\ FoundThere /\ OpenRemembered /\ HealthOfNewest
    BY <1>1 DEF ViewsInv
  <2>2. ActivityIsOfNewest /\ MentionsAsWritten /\ ThreadsFollowed
    BY <2>1, ViewsAssumption, ActivityTold, MentionsFound, ThreadsTold
  <2>3. ClaimsWereOpen
    BY <2>1 DEF ClaimsWereOpen, OpenRemembered
  <2>4. StaleClaimsAreOld
    <3>1. SUFFICES ASSUME overview.at = "answered", overview.tool = "list", overview.steady,
                          NEW i \in ClaimsShown, IsStale(i)
          PROVE  Age(i) >= Stale
      BY DEF StaleClaimsAreOld
    <3>2. i \in overview.found["claim"]
      BY DEF ClaimsShown, OpenClaims
    <3>3. CASE overview.health[posts[i].author] = "none"
      <4>1. Age(i) > Stale
        BY <3>1, <3>3 DEF IsStale
      <4>2. Age(i) \in Int /\ Stale \in Nat
        <5>1. i \in 1..cache.n /\ cache.n \in 0..Len(posts)
          BY <2>1, <3>2 DEF FoundThere, ViewTypes
        <5>2. posts[i] \in Posts
          BY <2>1, <5>1, RowsThere
        <5>3. posts[i].at \in Int /\ clock \in Int /\ Stale \in Nat
          BY <2>1, <5>2, ViewsAssumption DEF ViewTypes, Posts, ViewsAssumption
        <5>4. QED
          BY <5>3 DEF Age
      <4>3. QED
        BY <4>1, <4>2
    <3>4. CASE overview.health[posts[i].author] # "none"
      BY <2>1, <3>1, <3>2, <3>4 DEF IsStale, HealthOfNewest
    <3>5. QED
      BY <3>3, <3>4
  <2>5. QED
    BY <2>2, <2>3, <2>4 DEF OverviewsTrue
<1>2. QED
  BY <1>1, ViewsInit, ViewsStep, ViewsAssumption, PTL DEF VwSpec
=============================================================================
