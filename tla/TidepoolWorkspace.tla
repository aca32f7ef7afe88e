-------------------------- MODULE TidepoolWorkspace --------------------------
(***************************************************************************)
(* The Tidepool tools: what several agents make of the same server through *)
(* the shared client each runtime has.                                     *)
(*                                                                         *)
(*   - The tools (tool/tool_tidepool.rs): a worker is a turn that is in a  *)
(*     tool call; the turns of a runtime run side by side.                 *)
(*   - The client (tidepool/client.rs): reads answer from a replica of the *)
(*     server's tables; reducer calls are queued and the tool goes on.     *)
(*   - The slot of the shared client (tidepool/mod.rs), which the channel  *)
(*     clears when its connection ends and fills when it has a new one; a  *)
(*     tool keeps the clone it began with.                                 *)
(*   - External: the server, which takes the calls of a connection in      *)
(*     order or refuses them, and brings replicas up to date.              *)
(*                                                                         *)
(* Messages are numbered by the server (message_id); domains are rooms     *)
(* 1..NumRooms and, behind them, the direct-message domains in the order   *)
(* of creation.  Times, and what is computed from them, are left out.      *)
(* A body is what parse_claim_message and parse_done_message make of it,   *)
(* and the marks it quotes besides.  Handles are told apart as they are    *)
(* compared, without case, and each account has its own.                   *)
(***************************************************************************)
EXTENDS Integers, Sequences, FiniteSets

CONSTANTS
    Agents,        \* accounts, and their handles
    NoHandle,      \* "unknown", when the client does not know its account
    Workers,       \* the turns that may be in a tool call
    Owner,         \* the agent of each worker, whose runtime it is a turn of
    NumRooms,      \* domains that are no direct messages
    Tasks,         \* what is claimed, handed off and completed
    Ops,           \* the tool calls each worker makes
    PollFilter,    \* the domain the agents poll, or AllDomains
    ReadLimit,     \* limit of a read
    StatusLimit,   \* messages an overview looks at: 500
    ListLimit,     \* claims and completions a list looks at: 200
    MaxOps,        \* bound: tool calls
    MaxLosses      \* bound: connections each agent loses

Bodies == [kind : {"text", "claim", "done"}, handle : Agents \cup {NoHandle},
           quotes : SUBSET {"claim", "done"}]

\* Tasks are posted about in rooms, and direct messages go to accounts.  What is
\* written as a text may read as a claim or a completion of any handle's.
WellFormed(op) ==
    /\ op.tool \in {"text", "claim", "done", "handoff"} =>
           op.domain \in 1..NumRooms /\ op.about \in Tasks
    /\ op.tool = "text" => op.body \in Bodies
    /\ op.tool \in {"subscribe", "unsubscribe"} => op.domain \in 1..NumRooms
    /\ op.tool = "direct" => op.about \in Agents
    /\ op.tool = "dm" => op.about \subseteq Agents

ASSUME WorkspaceAssumption ==
    /\ Owner \in [Workers -> Agents]
    /\ \A w \in Workers : \A op \in Ops[w] : WellFormed(op)
    /\ NumRooms \in Nat \ {0} /\ NoHandle \notin Agents
    /\ {PollFilter, ReadLimit, StatusLimit, ListLimit, MaxOps, MaxLosses} \subseteq Nat

VARIABLES
    log,      \* the server's messages
    dms,      \* the participants of each direct-message domain
    subs,     \* the rooms each agent is subscribed to
    replica,  \* of each agent, what each of its connections has of the server
    line,     \* of each agent, the live connection and the calls queued on it
    slot,     \* the connection in the shared client's slot, 0 when empty
    work,     \* what each worker is doing
    polls,    \* history: what an agent has read while polling
    ops       \* tool calls so far

wsVars == <<log, dms, subs, replica, line, slot, work, polls, ops>>
serverVars == <<log, dms, subs>>

Rooms == 1..NumRooms
AllDomains == 0
NoWork == [op |-> [tool |-> "none"], at |-> "idle", conn |-> 0]

\* What an agent can see of the server at this moment.
Snapshot(a) == [log |-> Len(log), dms |-> Len(dms), subs |-> subs[a]]

WsInit ==
    /\ log = <<>> /\ dms = <<>>
    /\ subs = [a \in Agents |-> Rooms]
    /\ replica = [a \in Agents |-> <<[log |-> 0, dms |-> 0, subs |-> Rooms]>>]
    /\ line = [a \in Agents |-> [up |-> TRUE, queue |-> <<>>]]
    /\ slot = [a \in Agents |-> 1]
    /\ work = [w \in Workers |-> NoWork]
    /\ polls = [a \in Agents |-> [cursor |-> 0, got |-> {}]]
    /\ ops = 0

-----------------------------------------------------------------------------
(* The reads of the client, from the replica of a connection.               *)

IsDm(d) == d > NumRooms
Participants(d) == dms[d - NumRooms]

DmDomains(a, view) == {d \in NumRooms + 1..NumRooms + view.dms : a \in Participants(d)}

Visible(a, view) == {i \in 1..view.log : log[i].domain \in view.subs \cup DmDomains(a, view)}

InDomain(rows, d) == {i \in rows : d \in {AllDomains, log[i].domain}}

\* read_messages_filtered sorts by domain first; the newest are the last.
Before(i, j) == \/ log[i].domain < log[j].domain
                \/ log[i].domain = log[j].domain /\ i < j

FirstOf(rows, limit) == {i \in rows : Cardinality({j \in rows : Before(j, i)}) < limit}
LastOf(rows, limit) == {i \in rows : Cardinality({j \in rows : Before(i, j)}) < limit}

ReadRecent(a, view, d, limit) == LastOf(InDomain(Visible(a, view), d), limit)

MutReadAfter(a, view, d, after, limit) ==    \* the newest instead of the oldest
    LastOf({i \in InDomain(Visible(a, view), d) : i > after}, limit)

ReadAfter(a, view, d, after, limit) ==
    FirstOf({i \in InDomain(Visible(a, view), d) : i > after}, limit)

\* tidepool_system_status and tidepool_my_dashboard divide one read by domain.
StatusOf(a, view, d, perDomain) ==
    LastOf({i \in ReadRecent(a, view, AllDomains, StatusLimit) : log[i].domain = d}, perDomain)

\* search_messages: the newest by number, in all subscribed domains, with the
\* mark anywhere in the body.
Search(a, view, mark, limit) ==
    LET rows == {i \in Visible(a, view) : mark \in log[i].body.quotes \cup {log[i].body.kind}}
    IN  {i \in rows : Cardinality({j \in rows : j > i}) < limit}

\* Of those, the ones that parse.
Found(a, view, mark) ==
    {i \in Search(a, view, mark, ListLimit) : log[i].body.kind = mark}

Completes(done, claim) ==
    /\ log[done].domain = log[claim].domain
    /\ log[done].body.handle = log[claim].body.handle
    /\ log[done].about = log[claim].about

\* tidepool_list_claims: completions are matched whatever their order.
ListClaims(a, view) ==
    {i \in Found(a, view, "claim") :
        \A done \in Found(a, view, "done") : ~Completes(done, i)}

-----------------------------------------------------------------------------
(* The tools.                                                               *)

AgentOf(w) == Owner[w]
View(w) == replica[AgentOf(w)][work[w].conn]
Latest(a) == replica[a][Len(replica[a])]
Alive(w) == line[AgentOf(w)].up /\ work[w].conn = Len(replica[AgentOf(w)])

At(w, tool, location) == work[w].op.tool = tool /\ work[w].at = location
ContinueAt(w, location) == work' = [work EXCEPT ![w].at = location]
Return(w) == work' = [work EXCEPT ![w] = NoWork]

Body(kind, handle) == [kind |-> kind, handle |-> handle, quotes |-> {}]
PlainText == Body("text", NoHandle)

Said(w, domain, body) ==
    [call |-> "post", domain |-> domain, tool |-> work[w].op.tool,
     about |-> work[w].op.about, body |-> body]

\* client.account(): the row of the own account, if the replica has it.
KnownAs(w) == {AgentOf(w), NoHandle}

\* A reducer call is queued; on a connection that is gone it gets nowhere.
Call(w, call) ==
    line' = IF Alive(w) THEN [line EXCEPT ![AgentOf(w)].queue = Append(@, call)] ELSE line

\* The gone connection may refuse the call at once, which ends the tool.
GoOnOrFail(w, location) == ContinueAt(w, location) \/ (~Alive(w) /\ Return(w))

\* Every tool takes a clone of the shared client, or fails when there is none.
BeginTool(w, op) ==
    /\ work[w] = NoWork /\ ops < MaxOps
    /\ slot[AgentOf(w)] # 0
    /\ work' = [work EXCEPT ![w] = [op |-> op, at |-> "begun", conn |-> slot[AgentOf(w)]]]
    /\ ops' = ops + 1
    /\ UNCHANGED <<serverVars, replica, line, slot, polls>>

PostInRoom(w, body) ==
    /\ Call(w, Said(w, work[w].op.domain, body))
    /\ Return(w)
    /\ UNCHANGED <<serverVars, replica, slot, polls, ops>>

\* tidepool_post_message, tidepool_claim_task, tidepool_complete_task.
PostText(w) == At(w, "text", "begun") /\ PostInRoom(w, work[w].op.body)
ClaimTask(w) == At(w, "claim", "begun") /\ \E h \in KnownAs(w) : PostInRoom(w, Body("claim", h))
CompleteTask(w) == At(w, "done", "begun") /\ \E h \in KnownAs(w) : PostInRoom(w, Body("done", h))

\* tidepool_handoff_task: the audit message, then the claim.
PostHandoff(w) ==
    /\ At(w, "handoff", "begun")
    /\ Call(w, Said(w, work[w].op.domain, PlainText))
    /\ GoOnOrFail(w, "claiming")
    /\ UNCHANGED <<serverVars, replica, slot, polls, ops>>

PostHandoffClaim(w) ==
    /\ At(w, "handoff", "claiming")
    /\ \E h \in KnownAs(w) : PostInRoom(w, Body("claim", h))

ChangeSubscription(w, tool) ==
    /\ At(w, tool, "begun")
    /\ Call(w, [call |-> tool, domain |-> work[w].op.domain])
    /\ GoOnOrFail(w, "waiting")
    /\ UNCHANGED <<serverVars, replica, slot, polls, ops>>

\* tidepool_subscribe_domain, tidepool_unsubscribe_domain.
SubscribeDomain(w) == ChangeSubscription(w, "subscribe")
UnsubscribeDomain(w) == ChangeSubscription(w, "unsubscribe")

\* wait_for_subscription_state: the replica or, over HTTP, the server shows it.
SubscriptionSeen(w) ==
    /\ work[w].op.tool \in {"subscribe", "unsubscribe"} /\ work[w].at = "waiting"
    /\ \E seen \in {View(w).subs, subs[AgentOf(w)]} : 
          (work[w].op.domain \in seen) = (work[w].op.tool = "subscribe")
    /\ Return(w)
    /\ UNCHANGED <<serverVars, replica, line, slot, polls, ops>>

\* Five seconds have passed.
TimeOut(w) ==
    /\ work[w].at = "waiting"
    /\ Return(w)
    /\ UNCHANGED <<serverVars, replica, line, slot, polls, ops>>

\* tidepool_message_agent: any domain that both take part in will do ...
SharedDms(w) ==
    {d \in DmDomains(AgentOf(w), View(w)) : work[w].op.about \in Participants(d)}

MessageAgent(w) ==
    /\ At(w, "direct", "begun")
    /\ \/ /\ \E d \in SharedDms(w) : Call(w, Said(w, d, PlainText))
          /\ Return(w)
       \/ /\ SharedDms(w) = {}
          /\ Call(w, [call |-> "dm", with |-> {work[w].op.about}])
          /\ GoOnOrFail(w, "waiting")
       \/ Return(w) /\ UNCHANGED line        \* the account is not found
    /\ UNCHANGED <<serverVars, replica, slot, polls, ops>>

MutFoundDm(w) ==                             \* any new domain of one's own
    /\ At(w, "direct", "waiting")
    /\ \E d \in DmDomains(AgentOf(w), View(w)) : Call(w, Said(w, d, PlainText))
    /\ Return(w)
    /\ UNCHANGED <<serverVars, replica, slot, polls, ops>>

\* ... and of a new one it waits for exactly these participants.
FoundDm(w) ==
    /\ At(w, "direct", "waiting")
    /\ \E d \in SharedDms(w) :
          /\ Participants(d) = {AgentOf(w), work[w].op.about}
          /\ Call(w, Said(w, d, PlainText))
    /\ Return(w)
    /\ UNCHANGED <<serverVars, replica, slot, polls, ops>>

\* tidepool_create_dm, with any recipients.
CreateDm(w) ==
    /\ At(w, "dm", "begun")
    /\ Call(w, [call |-> "dm", with |-> work[w].op.about])
    /\ Return(w)
    /\ UNCHANGED <<serverVars, replica, slot, polls, ops>>

\* tidepool_read_messages with after_message_id: what is after the last message
\* the agent has seen.
Poll(w) ==
    LET a == AgentOf(w)
        rows == ReadAfter(a, View(w), PollFilter, polls[a].cursor, ReadLimit)
    IN  /\ At(w, "read", "begun")
        /\ polls' = [polls EXCEPT ![a] =
               [cursor |-> CHOOSE i \in rows \cup {@.cursor} : \A j \in rows : j <= i,
                got |-> @.got \cup rows]]
        /\ Return(w)
        /\ UNCHANGED <<serverVars, replica, line, slot, ops>>

-----------------------------------------------------------------------------
(* Server and connections.                                                  *)

NewMessage(a, call) ==
    [domain |-> call.domain, author |-> a, tool |-> call.tool, about |-> call.about,
     body |-> call.body]

\* The server takes the next call or refuses it.
Serve(a) ==
    /\ line[a].queue # <<>>
    /\ line' = [line EXCEPT ![a].queue = Tail(@)]
    /\ LET call == Head(line[a].queue) IN
          \/ /\ call.call = "post" /\ (IsDm(call.domain) => a \in Participants(call.domain))
             /\ log' = Append(log, NewMessage(a, call)) /\ UNCHANGED <<dms, subs>>
          \/ /\ call.call \in {"subscribe", "unsubscribe"}
             /\ subs' = [subs EXCEPT ![a] = IF call.call = "subscribe" THEN @ \cup {call.domain}
                                                                      ELSE @ \ {call.domain}]
             /\ UNCHANGED <<log, dms>>
          \/ /\ call.call = "dm"
             /\ dms' = Append(dms, {a} \cup call.with) /\ UNCHANGED <<log, subs>>
          \/ UNCHANGED serverVars
    /\ UNCHANGED <<replica, slot, work, polls, ops>>

Replicate(a) ==
    /\ line[a].up
    /\ replica' = [replica EXCEPT ![a][Len(replica[a])] = Snapshot(a)]
    /\ UNCHANGED <<serverVars, line, slot, work, polls, ops>>

\* The connection ends, and with it what was queued on it.
LoseConnection(a) ==
    /\ line[a].up /\ Len(replica[a]) <= MaxLosses
    /\ line' = [line EXCEPT ![a] = [up |-> FALSE, queue |-> <<>>]]
    /\ UNCHANGED <<serverVars, replica, slot, work, polls, ops>>

\* clear_shared_client, then connect_shared_client.
ClearClient(a) ==
    /\ ~line[a].up /\ slot[a] # 0
    /\ slot' = [slot EXCEPT ![a] = 0]
    /\ UNCHANGED <<serverVars, replica, line, work, polls, ops>>

ConnectClient(a) ==
    /\ ~line[a].up /\ slot[a] = 0
    /\ replica' = [replica EXCEPT ![a] = Append(@, Snapshot(a))]
    /\ line' = [line EXCEPT ![a].up = TRUE]
    /\ slot' = [slot EXCEPT ![a] = Len(replica[a]) + 1]
    /\ UNCHANGED <<serverVars, work, polls, ops>>

Tool(w) ==
    \/ PostText(w) \/ ClaimTask(w) \/ CompleteTask(w) \/ PostHandoff(w) \/ PostHandoffClaim(w)
    \/ SubscribeDomain(w) \/ UnsubscribeDomain(w) \/ SubscriptionSeen(w) \/ TimeOut(w)
    \/ MessageAgent(w) \/ FoundDm(w) \/ CreateDm(w) \/ Poll(w)

Outside(a) ==
    Serve(a) \/ Replicate(a) \/ LoseConnection(a) \/ ClearClient(a) \/ ConnectClient(a)

WsNext ==
    \/ \E w \in Workers : Tool(w) \/ \E op \in Ops[w] : BeginTool(w, op)
    \/ \E w \in Workers : Outside(AgentOf(w))

WsSpec == WsInit /\ [][WsNext]_wsVars
-----------------------------------------------------------------------------
(* Properties.                                                              *)

\* Types; no replica is ahead of the server, and no tool holds a connection
\* that its agent never had.
WsTypeOK ==
    /\ log \in Seq([domain : Nat \ {0}, author : Agents,
                    tool : {"text", "claim", "done", "handoff", "direct"},
                    about : Tasks \cup Agents, body : Bodies])
    /\ dms \in Seq(SUBSET Agents)
    /\ subs \in [Agents -> SUBSET Rooms]
    /\ \A a \in Agents : \A c \in DOMAIN replica[a] :
          /\ replica[a][c].log \in 0..Len(log)
          /\ replica[a][c].dms \in 0..Len(dms)
          /\ replica[a][c].subs \subseteq Rooms
    /\ \A a \in Agents : line[a].up \in BOOLEAN /\ slot[a] \in 0..Len(replica[a])
    /\ \A w \in Workers : work[w].conn \in 0..Len(replica[AgentOf(w)])
    /\ \A a \in Agents : polls[a].cursor \in 0..Len(log) /\ polls[a].got \subseteq 1..Len(log)
    /\ ops \in 0..MaxOps

\* An agent that reads what is after the last message it has seen of a domain
\* (tidepool_read_messages with domain_id and after_message_id) gets every
\* message up to that one, whatever connections it lost, however many messages
\* a read leaves out, and also when it was not subscribed all the time.  Of
\* all domains at once this is not so: the rows are cut off in order of domain.
PollsSkipNothing ==
    \A a \in Agents : \A i \in 1..polls[a].cursor :
        log[i].domain = PollFilter => i \in polls[a].got

\* A claim an agent has found leaves tidepool_list_claims only by a completion
\* of that task in that domain.  Of what the tools for claims post, it is that
\* of whoever made the claim: no other agent's tidepool_complete_task and no
\* handoff ends it.  The list compares handles, not authors, so that this is
\* not so of what tidepool_post_message writes in that form, nor of claims
\* made while the client did not know its account.
ClaimsEndByOwner ==
    \A a \in Agents : \A i \in Found(a, Latest(a), "claim") \ ListClaims(a, Latest(a)) :
        \E done \in 1..Len(log) :
            /\ log[done].body.kind = "done"
            /\ log[done].domain = log[i].domain /\ log[done].about = log[i].about
            /\ \/ log[done].author = log[i].author
               \/ "text" \in {log[done].tool, log[i].tool} \/ log[i].body.handle = NoHandle

\* tidepool_message_agent posts where its sender and the agent it names both
\* take part, whether it finds a domain, waits for one, or a reconnect or
\* another tool comes in between.
DirectReachesBoth ==
    \A i \in 1..Len(log) : log[i].tool = "direct" =>
        IsDm(log[i].domain) /\ {log[i].author, log[i].about} \subseteq Participants(log[i].domain)

\* While an agent sees no more messages than an overview looks at, the
\* overviews show of every domain the messages that tidepool_read_messages
\* would show of it.
StatusWithinLimit ==
    \A a \in Agents : Cardinality(Visible(a, Latest(a))) <= StatusLimit =>
        \A d \in 1..NumRooms + Len(dms) : \A limit \in 1..ReadLimit :
            StatusOf(a, Latest(a), d, limit) = ReadRecent(a, Latest(a), d, limit)

\* Reads are cut off at their limits without a gap for who reads on.
ReadsSkipNothing == PollsSkipNothing /\ StatusWithinLimit

\* What agents post counts for whom it concerns: a claim until its owner, or
\* who writes in its name, is done; a direct message for both.
WorkReachesItsOwn == ClaimsEndByOwner /\ DirectReachesBoth
=============================================================================
