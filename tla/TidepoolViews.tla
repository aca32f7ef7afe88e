---------------------------- MODULE TidepoolViews ----------------------------
(***************************************************************************)
(* What the reading Tidepool tools make of one client's replica            *)
(* (tool/tool_tidepool.rs, tidepool/client.rs).                            *)
(*                                                                         *)
(*   - A read of the client looks at the replica once; the rows come in    *)
(*     the order of a hash map.                                            *)
(*   - A tool that makes several reads holds no lock over them: the SDK's  *)
(*     task goes on applying updates, and other turns of the runtime       *)
(*     subscribe and unsubscribe.                                          *)
(*   - External: the server's messages, numbered and timed by the server,  *)
(*     whose clock need not agree with the client's.                       *)
(*                                                                         *)
(* A body is what the tools look for in it: a claim or a completion under  *)
(* a handle, the marks of these that it quotes besides, and the word that  *)
(* could be a mention, a sequence of characters.  One task is what all     *)
(* claims are of.                                                          *)
(***************************************************************************)
EXTENDS Integers, Sequences, FiniteSets, SequencesExt

CONSTANTS
    Authors, Me, MyHandle,
    Areas,
    Says,          \* what the authors may post, but for what it replies to
    Calls,         \* the tools that make several reads, and their domains
    Idle, Stale, Silent,   \* ages: 300, 1800 and 7200 seconds
    Skew,          \* how much the server's clock is ahead
    Window,        \* window_size of a read of activity
    ClaimLimit,     \* claims and completions a tool looks at: 200
    PageLimit,     \* limit of a read
    MaxSaid, MaxTime, MaxMoves      \* bounds

ASSUME ViewsAssumption ==
    /\ Me \in Authors /\ IsFiniteSet(Authors) /\ MyHandle \in Seq(STRING)
    /\ {Idle, Stale, Silent, Window, ClaimLimit, PageLimit, MaxSaid, MaxTime, MaxMoves} \subseteq Nat
    /\ Idle <= Stale /\ Stale <= Silent /\ Skew \in Int
    /\ Says \subseteq [author : Authors, domain : Areas, kind : {"claim", "done", "text"},
                       handle : STRING, quotes : SUBSET {"claim", "done"},
                       word : Seq(STRING), reply : Nat, at : Int]

VARIABLES
    posts,     \* the server's messages
    cache,     \* how many of them the replica has, and the subscribed domains
    clock,     \* of the client
    moves,   \* changes of the subscriptions
    overview       \* the tool that makes several reads, and what it has read

vwVars == <<posts, cache, clock, moves, overview>>

EveryDomain == 0
NoCall == [tool |-> "none", at |-> "idle", domain |-> EveryDomain,
           found |-> [kind \in {"claim", "done"} |-> {}], mentions |-> {}, health |-> [a \in Authors |-> "none"], open |-> {}, steady |-> TRUE]

VwInit ==
    /\ posts = <<>> /\ cache = [n |-> 0, subs |-> Areas]
    /\ clock = 0 /\ moves = 0 /\ overview = NoCall

Rows(d) == {i \in 1..cache.n : posts[i].domain \in cache.subs /\ d \in {EveryDomain, posts[i].domain}}

\* The newest messages come first, and are what a limit leaves.
Newest(rows, limit) == {i \in rows : Cardinality({j \in rows : j > i}) < limit}
Oldest(rows, limit) == {i \in rows : Cardinality({j \in rows : j < i}) < limit}

-----------------------------------------------------------------------------
(* agent_presence and agent_health: one pass over the rows, in any order.   *)

NoEntry == [last |-> 0, domain |-> EveryDomain, count |-> 0, domains |-> {}, health |-> "unknown"]

\* The server's clock may be ahead.
Age(i) == clock - posts[i].at

HealthAt(i) ==
    CASE Age(i) < Idle -> "active"
      [] Idle <= Age(i) /\ Age(i) < Stale -> "idle"
      [] Stale <= Age(i) /\ Age(i) < Silent -> "stale"
      [] OTHER -> "silent"

Note(entry, i) ==
    LET seen == [entry EXCEPT !.count = @ + 1, !.domains = @ \cup {posts[i].domain}] IN
    IF i > entry.last
    THEN [seen EXCEPT !.last = i, !.domain = posts[i].domain, !.health = HealthAt(i)]
    ELSE seen

\* Of those rows that are by who is asked for.
Activity(order, who) ==
    LET seen[k \in 0..Len(order)] ==
            IF k = 0 THEN [a \in Authors |-> NoEntry]
            ELSE LET i == order[k] IN
                 IF posts[i].author \in who
                 THEN [seen[k - 1] EXCEPT ![posts[i].author] = Note(@, i)] ELSE seen[k - 1]
    IN  seen[Len(order)]

\* The authors that are listed, with their entries.
Listed(order, limit) ==
    LET all == Activity(order, Authors)
        active == {a \in Authors : all[a].count > 0}
    IN  [a \in {x \in active : Cardinality({b \in active : all[b].last > all[x].last}) < limit}
            |-> all[a]]

AgentPresence(d, order) == Listed(order, Window)
AgentHealth(a, order) == Activity(order, {a})[a]

-----------------------------------------------------------------------------
(* get_thread, search_messages, find_mentions.                              *)

GetThread(root, d) == Oldest({i \in Rows(d) : posts[i].reply = root}, PageLimit)

\* The mark is looked for anywhere in the body.
Marked(d, mark) == {i \in Rows(d) : mark \in posts[i].quotes \cup {posts[i].kind}}

SearchMessages(d, mark, limit) == Newest(Marked(d, mark), limit)

Letters == {"b", "u", "B", "U"}
Lower(word) == [k \in DOMAIN word |-> CASE word[k] = "B" -> "b" [] word[k] = "U" -> "u" [] OTHER -> word[k]]

Kept(c) == c \in Letters \cup {"@", "_", "-"}

Inner(word) == {k \in DOMAIN word : Kept(word[k])}

Trimmed(word) ==
    IF Inner(word) = {} THEN <<>> ELSE SubSeq(word, Min(Inner(word)), Max(Inner(word)))

\* body_mentions_handle; what has no @ in front is the empty handle's.
Mentions(word, handle) ==
    LET t == Trimmed(word)
        mention == IF t # <<>> /\ t[1] = "@" THEN Tail(t) ELSE <<>>
    IN  Lower(mention) = Lower(handle)

FindMentions(handle, d, limit) == Newest({i \in Rows(d) : Mentions(posts[i].word, handle)}, limit)

-----------------------------------------------------------------------------
(* tidepool_list_claims and tidepool_my_dashboard, read by read.            *)

CompletedBy(done, claim) ==
    /\ posts[done].domain = posts[claim].domain
    /\ posts[done].handle = posts[claim].handle

OpenClaims(claims, dones) == {i \in claims : \A j \in dones : ~CompletedBy(j, i)}

\* History: the claims that are open as far as the replica shows.
InReplica(kind) == {i \in Rows(EveryDomain)' : posts'[i].kind = kind}
Witness == [overview EXCEPT !.open = @ \cup OpenClaims(InReplica("claim"), InReplica("done")),
                        !.steady = @ /\ cache.subs = cache'.subs]

Reading(from) == overview.at = from
Proceed(to, part) ==
    /\ overview' = [part EXCEPT !.at = to]
    /\ UNCHANGED <<posts, cache, clock, moves>>

MutSearches == <<"done", "claim">>

\* What is searched for, one after the other; only what parses counts.
Searches == <<"claim", "done">>

BeginOverview(tool, d) ==
    /\ overview = NoCall
    /\ Proceed(Searches[1], [NoCall EXCEPT !.tool = tool, !.domain = d,
          !.open = OpenClaims({i \in Rows(EveryDomain) : posts[i].kind = "claim"},
                              {i \in Rows(EveryDomain) : posts[i].kind = "done"})])

Parsed(d, mark) == {i \in SearchMessages(d, mark, ClaimLimit) : posts[i].kind = mark}

ReadMarked(k) ==
    /\ Reading(Searches[k])
    /\ Proceed(IF k = 1 THEN Searches[2] ELSE IF overview.tool = "list" THEN "health" ELSE "mentions",
               [overview EXCEPT !.found[Searches[k]] = Parsed(overview.domain, Searches[k])])

ReadFirst == ReadMarked(1)
ReadSecond == ReadMarked(2)

ReadMentions ==
    /\ Reading("mentions")
    /\ Proceed("health", [overview EXCEPT !.mentions = FindMentions(MyHandle, overview.domain, PageLimit)])

\* The list asks for everybody's health, the dashboard for its own.
ReadHealth ==
    /\ Reading("health")
    /\ \E order \in SetToSeqs(Rows(overview.domain)) :
          LET all == IF overview.tool = "list" THEN Listed(order, ClaimLimit)
                     ELSE [a \in {Me} |-> AgentHealth(Me, order)]
          IN  Proceed("answered", [overview EXCEPT !.health =
                  [a \in Authors |-> IF a \in DOMAIN all THEN all[a].health ELSE "none"]])

ShowOverview == Reading("answered") /\ Proceed("idle", NoCall)

ClaimsShown == OpenClaims(overview.found["claim"], overview.found["done"])

\* Without an entry the age of the claim itself decides.
IsStale(i) ==
    LET health == overview.health[posts[i].author]
    IN  IF health = "none" THEN Age(i) > Stale ELSE health \in {"stale", "silent", "unknown"}

Overview ==
    \/ \E c \in Calls : BeginOverview(c.tool, c.domain)
    \/ ReadFirst \/ ReadSecond \/ ReadMentions \/ ReadHealth \/ ShowOverview

-----------------------------------------------------------------------------
(* What goes on meanwhile.                                                  *)

Say(say, reply) ==
    /\ Len(posts) < MaxSaid
    /\ posts' = Append(posts, [say EXCEPT !.reply = reply, !.at = clock + Skew])
    /\ UNCHANGED <<cache, clock, moves, overview>>

MutRefresh ==                              \* the replica may fall back
    /\ \E n \in 0..Len(posts) : cache' = [cache EXCEPT !.n = n]
    /\ UNCHANGED <<posts, clock, moves>>
    /\ overview' = IF overview = NoCall THEN NoCall ELSE Witness

Refresh ==
    /\ \E n \in cache.n + 1..Len(posts) : cache' = [cache EXCEPT !.n = n]
    /\ UNCHANGED <<posts, clock, moves>>
    /\ overview' = IF overview = NoCall THEN NoCall ELSE Witness

\* Another turn subscribes or unsubscribes.
ChangeDomains(d) ==
    /\ moves < MaxMoves /\ moves' = moves + 1
    /\ cache' = [cache EXCEPT !.subs = IF d \in @ THEN @ \ {d} ELSE @ \cup {d}]
    /\ UNCHANGED <<posts, clock>>
    /\ overview' = IF overview = NoCall THEN NoCall ELSE Witness

Pass ==
    /\ clock < MaxTime /\ clock' = clock + 1
    /\ UNCHANGED <<posts, cache, moves, overview>>

Meanwhile ==
    \/ \E say \in Says : \E reply \in IF say.kind = "text" THEN 0..Len(posts) ELSE {0} : Say(say, reply)
    \/ Refresh \/ Pass \/ \E d \in Areas : ChangeDomains(d)

VwNext == Overview \/ Meanwhile

VwSpec == VwInit /\ [][VwNext]_vwVars

-----------------------------------------------------------------------------
(* Properties.                                                              *)

\* Types; the replica is not ahead of the server, and what a tool has read are
\* claims, completions and mentions of the domain it was asked for.
VwTypeOK ==
    /\ cache.n \in 0..Len(posts) /\ cache.subs \subseteq Areas
    /\ clock \in 0..MaxTime /\ moves \in 0..MaxMoves /\ Len(posts) <= MaxSaid
    /\ \A kind \in {"claim", "done"} : \A i \in overview.found[kind] : posts[i].kind = kind
    /\ \A i \in overview.found["claim"] \cup overview.found["done"] \cup overview.mentions :
          i \in 1..cache.n /\ overview.domain \in {EveryDomain, posts[i].domain}
    /\ \A a \in Authors : overview.health[a] \in {"none", "active", "idle", "stale", "silent", "unknown"}

\* agent_presence and agent_health say the same whatever order the replica's
\* rows come in: the agents with the newest messages, each with its newest
\* message, where that was, how long ago, and how many of its messages the
\* replica has.  window_size bounds the agents that are listed, not the
\* messages that are counted, which the comment of agent_presence has it do
\* ("analyzes the last window_size messages").
ActivityIsOfNewest ==
    \A d \in Areas \cup {EveryDomain} : \A order \in SetToSeqs(Rows(d)) :
        LET by(a) == {i \in Rows(d) : posts[i].author = a}
            present == AgentPresence(d, order)
        IN  /\ \A a \in DOMAIN present :
                  /\ present[a] = AgentHealth(a, order)
                  /\ present[a].last = Max(by(a)) /\ present[a].count = Cardinality(by(a))
                  /\ present[a].domain = posts[Max(by(a))].domain
                  /\ present[a].health = HealthAt(Max(by(a)))
            /\ \A a \in Authors \ DOMAIN present : by(a) # {} =>
                  Cardinality({b \in DOMAIN present : Max(by(b)) > Max(by(a))}) >= Window

\* Every claim that the list or the dashboard shows as active was open at some
\* moment of the call, as far as the replica showed, although claims and
\* completions are read one after the other; if no domain was unsubscribed in
\* between and the messages that hold the mark of a completion, as texts that
\* quote it do, are not more than the tool looks at.
ClaimsWereOpen ==
    (overview.at = "answered" /\ overview.steady
        /\ Cardinality(Marked(overview.domain, "done")) <= ClaimLimit)
        => ClaimsShown \subseteq overview.open

\* The list calls a claim stale only if the claim itself is that old: whoever
\* has just claimed a task is alive.
StaleClaimsAreOld ==
    (overview.at = "answered" /\ overview.tool = "list" /\ overview.steady) =>
        \A i \in ClaimsShown : IsStale(i) => Age(i) >= Stale

\* The dashboard and tidepool_find_mentions find a word that is @ and the
\* handle, in any case, with any punctuation around it, and no other word; of a
\* handle that does not itself end in punctuation.
Punctuation(word) == \A k \in DOMAIN word : ~Kept(word[k])
EndsKept(handle) == handle # <<>> /\ Kept(handle[Len(handle)])
MentionsAsWritten ==
    EndsKept(MyHandle) => \A i \in Rows(EveryDomain) :
        i \in FindMentions(MyHandle, EveryDomain, MaxSaid) <=>
            LET w == posts[i].word IN
            \E k \in DOMAIN w : \E m \in k..Len(w) :
                /\ w[k] = "@" /\ Lower(SubSeq(w, k + 1, m)) = Lower(MyHandle)
                /\ Punctuation(SubSeq(w, 1, k - 1)) /\ Punctuation(SubSeq(w, m + 1, Len(w)))

\* "Use this to read the full conversation thread" (tidepool_get_thread): who
\* follows the replies from a message to their replies gets everything visible
\* that was said in answer, in whatever domain, while no message has more
\* replies than a read returns.
Follow(found) == found \cup UNION {GetThread(i, EveryDomain) : i \in found}
Reached(root) ==
    LET after[k \in 0..MaxSaid] == IF k = 0 THEN {root} ELSE Follow(after[k - 1])
    IN  after[MaxSaid]
ThreadsFollowed ==
    (\A i \in 1..Len(posts) : Cardinality({j \in Rows(EveryDomain) : posts[j].reply = i}) <= PageLimit) =>
        \A root, i \in Rows(EveryDomain) :
            (posts[i].reply = root \/ \E j \in Rows(EveryDomain) : posts[i].reply = j /\ posts[j].reply = root)
                => i \in Reached(root)

\* What an overview says of agents, claims, mentions and threads was so.
OverviewsTrue ==
    /\ ActivityIsOfNewest /\ ClaimsWereOpen /\ StaleClaimsAreOld
    /\ MentionsAsWritten /\ ThreadsFollowed
=============================================================================
