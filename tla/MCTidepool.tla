----------------------------- MODULE MCTidepool -----------------------------
(* Both users of Tidepool in the process: the channel that reads, and the  *)
(* tools that post. They share the settings and nothing that changes here, *)
(* so that one run checks both: the first state says which of them moves,  *)
(* and what the tools are about: claims, or what agents tell each other.   *)
EXTENDS MCTidepoolChannel, TidepoolWorkspace

CONSTANTS ag1, ag2, ag3, w1, w2, job

VARIABLE side

MCAgents == {ag1, ag2, ag3}
MCWorkers == {w1, w2}
MCOwner == (w1 :> ag1) @@ (w2 :> ag2)

Op(tool, domain, about) == [tool |-> tool, domain |-> domain, about |-> about]

Text(domain, kind, handle, quotes) ==
    [tool |-> "text", domain |-> domain, about |-> job,
     body |-> [kind |-> kind, handle |-> handle, quotes |-> quotes]]

\* One agent claims, the other takes over, and writes that the first is done
\* with what it claims; one reads, and the other leaves and comes back.
Claims ==
    (w1 :> {Op("claim", 1, job)}) @@
    (w2 :> {Op("handoff", 1, job), Op("done", 1, job), Text(1, "done", ag1, {"claim"})})
Talk ==
    (w1 :> {Op("dm", 0, {ag3}), Op("read", 1, 0), Op("direct", 0, ag2)}) @@
    (w2 :> {Text(1, "text", NoHandle, {}), Text(2, "text", NoHandle, {"claim"}),
            Op("unsubscribe", 1, 0), Op("subscribe", 1, 0)})
MCOps == [w \in MCWorkers |-> Claims[w] \cup Talk[w]]

-----------------------------------------------------------------------------
MCInit ==
    /\ side \in {"channel", "claims", "talk"} /\ Init /\ WsInit
    /\ side # "channel" => subscribed = {}
MCNext ==
    \/ side = "channel" /\ Next /\ UNCHANGED <<wsVars, side>>
    \/ /\ side # "channel" /\ WsNext /\ UNCHANGED <<vars, side>>
       /\ \A w \in Workers : work'[w].op.tool # "none" =>
              work'[w].op \in IF side = "claims" THEN Claims[w] ELSE Talk[w]
mcVars == <<vars, wsVars, side>>
MCSpec == MCInit /\ [][MCNext]_mcVars

\* Types of the channel and of the tools.
TypesOK == TypeOK /\ WsTypeOK
=============================================================================
