------------------------------- MODULE MCEdges -------------------------------
(* The edges of the process: Discord's gateway, Tidepool's tables as tools  *)
(* look at them, the old database that is migrated, and the update. They    *)
(* share nothing, so that one run checks all four: the first state says     *)
(* which of them moves.                                                     *)
EXTENDS DiscordGateway, TidepoolViews, DbMigrator, SelfUpdate

VARIABLE side

First(inputs, which) == IF side = which THEN inputs ELSE {CHOOSE x \in inputs : TRUE}
MCInit ==
    /\ side \in {"discord", "views", "migrate", "update"} /\ DcInit /\ VwInit
    /\ source \in First(Sources, "migrate") /\ MgInit
    /\ broken \in First(Broken, "update") /\ SuInit
MCDiscord(A) == side = "discord" /\ A /\ UNCHANGED <<vwVars, mgVars, suVars, side>>
MCNext ==
    \/ MCDiscord(DcNext)
    \/ side = "views" /\ VwNext /\ UNCHANGED <<dcVars, mgVars, suVars, side>>
    \/ side = "migrate" /\ MgNext /\ UNCHANGED <<dcVars, vwVars, suVars, side>>
    \/ side = "update" /\ SuNext /\ UNCHANGED <<dcVars, vwVars, mgVars, side>>
mcVars == <<dcVars, vwVars, mgVars, suVars, side>>

\* The fairness of DcFairSpec.
MCSpec ==
    /\ MCInit /\ [][MCNext]_mcVars
    /\ WF_mcVars(MCDiscord(Channel))
    /\ WF_mcVars(MCDiscord(\E c \in DOMAIN conns : GatewayIdentifies(c)))

\* EndsUpInSession, of the states in which Discord moves: when connections have
\* stopped failing, the channel is in a session for good.
SessionComesBack == side = "discord" => EndsUpInSession

\* Types of the four.
TypesOK == DcTypeOK /\ VwTypeOK /\ MgTypeOK /\ SuTypeOK

-----------------------------------------------------------------------------
(* Discord.                                                                 *)

Message(author, guild, mentions) ==
    [author |-> author, guild |-> guild, channel |-> "here", mentions |-> mentions, text |-> TRUE]

\* One is heard, and one each is not because of its author or the mention.
MCPosts == {Message("user", "none", FALSE), Message("user", "guild", FALSE),
            Message("bot", "guild", TRUE)}
MCBots == {"bot"}
MCChannels == {"here"}
MCEveryone == {}
MCReplies == {<<>>, <<0, 3>>}
MCFailure == <<2>>

-----------------------------------------------------------------------------
(* Tidepool.                                                                *)

MCHandle == <<"b", "u">>
Saying(author, domain, kind, quotes, word) ==
    [author |-> author, domain |-> domain, kind |-> kind, handle |-> "me", quotes |-> quotes,
     word |-> word, reply |-> 0, at |-> 0]
MCSays ==
    {Saying("me", 1, "claim", {}, <<>>), Saying("me", 1, "done", {}, <<"@", "b", "u", "@">>),
     Saying("other", 2, "text", {"done"}, <<"(", "@", "B", "u", ",">>)}
MCCalls == {[tool |-> "list", domain |-> 0], [tool |-> "dashboard", domain |-> 1]}

-----------------------------------------------------------------------------
(* Old databases.                                                          *)

Conversation(id, thread, domain) ==
    [id |-> id, thread |-> thread, channel |-> "gateway", domain |-> domain]
Event(id, kind, thread, message, text, seqs) ==
    [id |-> id, kind |-> kind, thread |-> thread, message |-> message, text |-> text, seqs |-> seqs]
Stored(id, conversation, role, seqs) ==
    [id |-> id, conversation |-> conversation, role |-> role, seqs |-> seqs]

Base == [conversations |-> <<Conversation("c1", None, 0)>>, ledger |-> <<>>, messages |-> <<>>,
         documents |-> {}, chunks |-> {}, broadcast |-> {}]

\* Every ledger of three events of a conversation, those with a tool's result or
\* an empty answer if they begin with the user.
EventIds == <<"e1", "e2", "e3">>
MessageIds == <<"m1", "m2", "m3">>
Shapes == {<<"user_turn", "said">>, <<"agent_turn", "said">>, <<"agent_turn", None>>,
           <<"tool_result", "said">>, <<"tool_error", "said">>}
OneLedger ==
    {[Base EXCEPT !.ledger = [i \in 1..3 |-> Event(EventIds[i], shape[i][1], "c1",
                                              MessageIds[i], shape[i][2], {})]] :
        shape \in {x \in [1..3 -> Shapes] :
            x[1][1] = "user_turn" \/
            \A i \in 1..3 : x[i] \notin {<<"tool_result", "said">>, <<"agent_turn", None>>}}}

\* Two conversations, with one thread of a channel or of a domain, or none; the
\* ledger has the one, the other, both, or their external id, and a domain may
\* have been broadcast to.
Pairs ==
    {<<Conversation("c1", x[1], d), Conversation("c2", x[2], d)>> :
        x \in {<<"x", "x">>, <<"x", None>>, <<None, None>>}, d \in {0, 1}}
WithBroadcast == {<<p, {}>> : p \in Pairs} \cup
    {<<p, {[domain |-> 1, seq |-> 4]}>> : p \in {x \in Pairs : IsDomain(x[1])}}
Spoken(thread) == <<Event("e1", "user_turn", thread, "m1", "said", {1, 2}),
                    Event("e2", "agent_turn", thread, "m1", "said", {})>>
TwoConversations ==
    {[Base EXCEPT !.conversations = p[1], !.ledger = l, !.broadcast = p[2],
                  !.messages = <<Stored("m1", "c1", "user", {1, 2}), Stored("m2", "c1", "assistant", {}),
                                 Stored("m3", "c2", "user", {3}), Stored("m4", "c2", "tool_calls", {})>>] :
        p \in WithBroadcast,
        l \in {<<>>, Spoken("c1"), Spoken("x"), Spoken("y"),
               <<Event("e1", "memory", "c2", None, "said", {})>>}}

Documents ==
    {[Base EXCEPT !.documents = d, !.chunks = {[document |-> "d1", index |-> 0], [document |-> "d2", index |-> 0]}] :
        d \in {{[id |-> "d1", path |-> "p"]} \cup e : e \in {{}, {[id |-> "d2", path |-> "p"]}, {[id |-> "d2", path |-> "q"]}}}}

MCSources == OneLedger \cup TwoConversations \cup Documents
MCLater == {[event |-> Event("e9", "user_turn", "c1", "m9", "said", {5}), message |-> Stored("m9", "c1", "user", {5})]}

-----------------------------------------------------------------------------
\* The revisions that do not compile: none, or the first.
MCBroken == {{}, {1}}
=============================================================================
