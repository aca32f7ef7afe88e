--------------------------- MODULE TurnLifecycle ---------------------------
(***************************************************************************)
(* A turn from the inbound message to its settled row, and what works on   *)
(* that row besides its handler.                                           *)
(*                                                                         *)
(*   - The handler: Runtime::handle_inbound_internal, its model exchanges  *)
(*     (run_and_record_exchange) and its tool calls (execute_tool_calls).  *)
(*   - The upkeep: spawn_post_turn_maintenance, whose distillation         *)
(*     (runtime/memory.rs) exchanges with a model in the name of the       *)
(*     finished turn.  It starts when the handler ends, so one location    *)
(*     per turn serves both, and frame[t].role tells them apart.           *)
(*   - Recovery: recover_incomplete_turns, run at startup before there are *)
(*     channels, and on request from the web API while turns are running.  *)
(*   - Crashes, restarts and failing database writes.                      *)
(*                                                                         *)
(* Every action is one stretch of code between two points at which another *)
(* task, or a crash, can come in between.  The timing of the provider gate *)
(* is ProviderGate's; here it is the lock that it implements.  Timeline    *)
(* events that no property tells apart are left out of log.                *)
(***************************************************************************)
EXTENDS Integers, FiniteSets

CONSTANTS
    Turns,             \* the turns that may be created
    NoTurn,            \* not a turn
    MaxCalls,          \* bound: tool calls in one answer
    MaxMore,           \* bound: answers that make a task ask the model again
    MaxCrashes,        \* bound: crashes
    DbFailures,        \* TRUE when a database write may fail
    SharedCompressor,  \* TRUE when distillation falls back to the main engine
    LiveRecovery       \* TRUE when POST /api/runtime/recover is used

ASSUME TurnAssumption ==
    /\ NoTurn \notin Turns
    /\ MaxCalls \in Nat \ {0}
    /\ MaxMore \in Nat /\ MaxCrashes \in Nat
    /\ DbFailures \in BOOLEAN
    /\ SharedCompressor \in BOOLEAN
    /\ LiveRecovery \in BOOLEAN

VARIABLES
    status, reply,    \* the turn's row: status and assistant_message
    log,              \* kinds of timeline events the turn has
    open,             \* ToolCall events that have no ToolResult event
    outbox,           \* rows of the outbound table: of messages, of the reply
    handed,           \* what the handler returned to its channel
    pc,               \* where the turn's task is
    frame,            \* the local variables of that task
    gate,             \* holder of the provider gate
    phase,            \* of the process: down, starting (recovery), up
    listed,           \* recovery's listing of running turns, still to do
    marking,          \* the turn whose TurnRecovered event is due
    untraced,         \* history: requests sent less traces recorded
    rounds,           \* history: batches of tool calls the turn ran
    prompts,          \* history: summary prompts put in its conversation
    more,             \* answers so far that made a task go on (MaxMore)
    crashes           \* crashes so far (MaxCrashes)

row == <<status, reply>>
timeline == <<log, open, outbox>>
task == <<frame, gate>>
process == <<phase, listed, marking, crashes>>
tally == <<untraced, rounds, prompts, more>>
vars == <<row, timeline, handed, pc, task, process, tally>>

Replied == {"succeeded", "awaiting"}
Text == {"blank", "text"}
Said == {"none"} \cup Text

\* Locations before the turn's row is settled, after it, and of the upkeep.
Unsettled == {"accepted", "asking", "calling", "limited", "fanout", "answered",
              "erring", "failing", "calls", "tools", "settling"}
Settling == {"settled", "published", "failed"}
Upkeep == {"upkeep", "direct"}
Ended == {"absent", "cut", "over"}
Locations == Unsettled \cup Settling \cup Upkeep \cup Ended

NewFrame == [role |-> "handler",  \* or "upkeep"
             answer |-> "none",   \* the last exchange's answer
             calls |-> 0,         \* tool calls not yet logged ...
             pending |-> 0,       \* ... and logged but not yet dealt with
             flags |-> {},        \* see Flags
             messages |-> 0,      \* outbound messages of the batch
             sent |-> 0,          \* outbound_messages of the turn
             ask |-> "none",      \* ask_user_question
             final |-> "none",    \* final_message
             out |-> "none",      \* final_response
             tell |-> {}]         \* running turns still to be told of a wait

\* spoke: visible_reply_segments is not empty; chain: the model was sent tool
\* results (chain_ends_with_nonterminal_tool); prompted: it was sent the
\* summary prompt since (synthetic_summary_prompt_sent), or, in the upkeep,
\* the repair request.
Flags == {"spoke", "chain", "prompted"}

Frames == [role : {"handler", "upkeep"},
           answer : {"none", "text", "blank", "tools", "speakingTools", "bad"},
           calls : 0..MaxCalls, pending : 0..MaxCalls,
           flags : SUBSET Flags, messages : 0..MaxCalls, sent : Nat,
           ask : Said, final : Said, out : Said, tell : SUBSET Turns]

NoRows == [messages |-> 0, reply |-> 0]
Outcome(what, messages) == [what |-> what, messages |-> messages]
Nothing == Outcome("nothing", 0)

Rows == [messages : Nat, reply : 0..1]
Outcomes == [what : {"nothing", "reply", "silence", "error"}, messages : Nat]

TypeOK ==
    /\ status \in [Turns -> Replied \cup {"absent", "running", "failed"}]
    /\ reply \in [Turns -> Said]
    /\ log \in [Turns -> SUBSET {"rate_limited", "awaiting", "error", "recovered"}]
    /\ open \in [Turns -> 0..MaxCalls]
    /\ outbox \in [Turns -> Rows]
    /\ handed \in [Turns -> Outcomes]
    /\ pc \in [Turns -> Locations]
    /\ frame \in [Turns -> Frames]
    /\ gate \in Turns \cup {NoTurn}
    /\ phase \in {"down", "starting", "up"}
    /\ listed \in SUBSET Turns
    /\ marking \in Turns \cup {NoTurn}
    /\ untraced \in [Turns -> 0..1]
    /\ rounds \in [Turns -> Nat] /\ prompts \in [Turns -> Nat]
    /\ more \in 0..MaxMore
    /\ crashes \in 0..MaxCrashes

Init ==
    /\ status = [t \in Turns |-> "absent"]
    /\ reply = [t \in Turns |-> "none"]
    /\ log = [t \in Turns |-> {}]
    /\ open = [t \in Turns |-> 0]
    /\ outbox = [t \in Turns |-> NoRows]
    /\ handed = [t \in Turns |-> Nothing]
    /\ pc = [t \in Turns |-> "absent"]
    /\ frame = [t \in Turns |-> NewFrame]
    /\ gate = NoTurn
    /\ phase = "up"
    /\ listed = {}
    /\ marking = NoTurn
    /\ untraced = [t \in Turns |-> 0]
    /\ rounds = [t \in Turns |-> 0]
    /\ prompts = [t \in Turns |-> 0]
    /\ more = 0
    /\ crashes = 0

At(t, locations) == phase = "up" /\ pc[t] \in locations
Goto(t, location) == pc' = [pc EXCEPT ![t] = location]
Log(t, kind) == log' = [log EXCEPT ![t] = @ \cup {kind}]
ReleaseGate(t) == gate' = IF gate = t THEN NoTurn ELSE gate

\* update_turn overwrites the row whatever its status is.
UpdateTurn(t, newStatus, message) ==
    /\ status' = [status EXCEPT ![t] = newStatus]
    /\ reply' = [reply EXCEPT ![t] = message]

\* One more answer that keeps the model busy.
GoOn == more < MaxMore /\ more' = more + 1

-----------------------------------------------------------------------------
(* Mutants: each is a plausible slip in the definition it is named after,  *)
(* and breaks one of the properties below.                                 *)

MutTraceLimited(t) ==                        \* only good answers are traced
    /\ At(t, {"limited"})
    /\ Log(t, "rate_limited")
    /\ frame' = [frame EXCEPT ![t].tell = {u \in Turns \ {t} : status[u] = "running"}]
    /\ Goto(t, "fanout")
    /\ UNCHANGED <<row, open, outbox, handed, gate, process, tally>>

MutEndBatch(t) ==                            \* a final message ends it at once
    /\ At(t, {"tools"}) /\ frame[t].messages = 0
    /\ frame[t].pending = 0 \/ frame[t].final # "none"
    /\ rounds' = [rounds EXCEPT ![t] = @ + 1]
    /\ IF frame[t].final # "none" \/ frame[t].ask # "none"
       THEN Goto(t, "settling") /\ UNCHANGED frame
       ELSE /\ Goto(t, "asking")
            /\ frame' = [frame EXCEPT ![t].flags = (@ \cup {"chain"}) \ {"prompted"}]
    /\ UNCHANGED <<row, timeline, handed, gate, process, untraced, prompts, more>>

MutPublishReply(t) ==                        \* blank responses recorded too
    /\ At(t, {"settled"})
    /\ outbox' = [outbox EXCEPT ![t].reply = @ + 1]
    /\ Goto(t, "published")
    /\ UNCHANGED <<row, log, open, handed, task, process, tally>>

MutAskAgain(t) ==                            \* the gate outlives the attempt
    /\ At(t, {"fanout"}) /\ frame[t].tell = {}
    /\ Goto(t, "asking")
    /\ UNCHANGED <<row, timeline, handed, task, process, tally>>

MutFail(t) ==                                \* returns once the row is failed
    /\ At(t, {"failing"})
    /\ UpdateTurn(t, "failed", "none")
    /\ ReleaseGate(t)
    /\ Goto(t, "over")
    /\ frame' = [frame EXCEPT ![t] = NewFrame]
    /\ UNCHANGED <<timeline, handed, process, tally>>

MutRestart ==                                \* nobody looks for running turns
    /\ phase = "down"
    /\ phase' = "starting"
    /\ UNCHANGED <<row, timeline, handed, pc, task, listed, marking, crashes, tally>>

MutRunningTurns ==                           \* answered turns are listed too
    {t \in Turns : status[t] \in {"running", "awaiting"}}

-----------------------------------------------------------------------------
(* Accepting a message: the row is created running, then its events and    *)
(* the assembled context are written.                                      *)

Accept(t) ==
    /\ At(t, {"absent"})
    /\ UpdateTurn(t, "running", "none")
    /\ Goto(t, "accepted")
    /\ UNCHANGED <<timeline, handed, task, process, tally>>

AssembleContext(t) ==
    /\ At(t, {"accepted"})
    /\ Goto(t, "asking")
    /\ UNCHANGED <<row, timeline, handed, task, process, tally>>

-----------------------------------------------------------------------------
(* One model exchange.  The gate is taken for the request and kept until   *)
(* the answer has been dealt with.                                         *)

\* The caller finds the window closed and says so before it sleeps.
WaitForWindow(t) ==
    /\ At(t, {"asking"})
    /\ Log(t, "rate_limited")
    /\ UNCHANGED <<row, open, outbox, handed, pc, task, process, tally>>

SendRequest(t) ==
    /\ At(t, {"asking"}) /\ gate = NoTurn
    /\ gate' = t
    /\ untraced' = [untraced EXCEPT ![t] = @ + 1]
    /\ Goto(t, "calling")
    /\ UNCHANGED <<row, timeline, handed, frame, process, rounds, prompts, more>>

\* The exchange succeeded: its events are appended and the gate released;
\* the caller traces it.
Answered(t, answer, calls) ==
    /\ At(t, {"calling"})
    /\ ReleaseGate(t)
    /\ frame' = [frame EXCEPT ![t].answer = answer, ![t].calls = calls]
    /\ Goto(t, "answered")
    /\ UNCHANGED <<row, timeline, handed, process, untraced, rounds, prompts>>

AnswerText(t) == Answered(t, "text", 0) /\ UNCHANGED more
AnswerBad(t) == Answered(t, "bad", 0) /\ UNCHANGED more

\* Nothing visible and no tool call: in a tool chain this is followed by the
\* summary prompt once, and then counts as going on.
AnswerBlank(t) ==
    /\ Answered(t, "blank", 0)
    /\ IF "chain" \in frame[t].flags /\ "prompted" \notin frame[t].flags
       THEN GoOn ELSE UNCHANGED more

AnswerTools(t) ==
    /\ frame[t].role = "handler"
    /\ \E answer \in {"tools", "speakingTools"}, calls \in 1..MaxCalls :
           Answered(t, answer, calls)
    /\ GoOn

\* A rate limit is traced, its events appended, the window armed and the
\* turns then running listed, to be told one by one.
AnswerLimited(t) ==
    /\ At(t, {"calling"}) /\ GoOn
    /\ Goto(t, "limited")
    /\ UNCHANGED <<row, timeline, handed, task, process, untraced, rounds, prompts>>

TraceLimited(t) ==
    /\ At(t, {"limited"})
    /\ untraced' = [untraced EXCEPT ![t] = @ - 1]
    /\ Log(t, "rate_limited")
    /\ frame' = [frame EXCEPT ![t].tell = {u \in Turns \ {t} : status[u] = "running"}]
    /\ Goto(t, "fanout")
    /\ UNCHANGED <<row, open, outbox, handed, gate, process, rounds, prompts, more>>

TellOther(t, u) ==
    /\ At(t, {"fanout"}) /\ u \in frame[t].tell
    /\ Log(u, "rate_limited")
    /\ frame' = [frame EXCEPT ![t].tell = @ \ {u}]
    /\ UNCHANGED <<row, open, outbox, handed, pc, gate, process, tally>>

AskAgain(t) ==
    /\ At(t, {"fanout"}) /\ frame[t].tell = {}
    /\ ReleaseGate(t)
    /\ Goto(t, "asking")
    /\ UNCHANGED <<row, timeline, handed, frame, process, tally>>

\* Any other provider error is traced, and fails the turn the exchange is
\* for, under the gate.
AnswerError(t) ==
    /\ At(t, {"calling"})
    /\ Goto(t, "erring")
    /\ UNCHANGED <<row, timeline, handed, task, process, tally>>

TraceError(t) ==
    /\ At(t, {"erring"})
    /\ untraced' = [untraced EXCEPT ![t] = @ - 1]
    /\ Goto(t, "failing")
    /\ UNCHANGED <<row, timeline, handed, task, process, rounds, prompts, more>>

-----------------------------------------------------------------------------
(* The tool loop.                                                          *)

Heard(f) == IF f.answer \in {"text", "speakingTools"} THEN {"spoke"} ELSE {}
NeedsPrompt(f) ==
    f.answer = "blank" /\ "chain" \in f.flags /\ "prompted" \notin f.flags

\* The exchange is traced, then its answer decides: a bad one fails the
\* turn, tool calls are run, silence after tools is answered once with the
\* summary prompt, anything else ends the turn with what has been said.
RecordTrace(t) ==
    LET f == frame[t]
        prompt == NeedsPrompt(f)
    IN  /\ At(t, {"answered"}) /\ f.role = "handler"
        /\ untraced' = [untraced EXCEPT ![t] = @ - 1]
        /\ prompts' = IF prompt THEN [prompts EXCEPT ![t] = @ + 1] ELSE prompts
        /\ frame' = [frame EXCEPT
               ![t].answer = "none",
               ![t].flags = @ \cup Heard(f) \cup (IF prompt THEN {"prompted"} ELSE {})]
        /\ \/ f.answer = "bad" /\ Goto(t, "failing")
           \/ f.calls > 0 /\ Goto(t, "calls")
           \/ prompt /\ Goto(t, "asking")
           \/ f.answer \in Text /\ ~prompt /\ Goto(t, "settling")
        /\ UNCHANGED <<row, timeline, handed, gate, process, rounds, more>>

\* Every call of the batch is logged before any of them is executed.
LogCall(t) ==
    /\ At(t, {"calls"}) /\ frame[t].calls > 0
    /\ open' = [open EXCEPT ![t] = @ + 1]
    /\ frame' = [frame EXCEPT ![t].calls = @ - 1, ![t].pending = @ + 1]
    /\ UNCHANGED <<row, log, outbox, handed, pc, gate, process, tally>>

RunTools(t) ==
    /\ At(t, {"calls"}) /\ frame[t].calls = 0
    /\ Goto(t, "tools")
    /\ UNCHANGED <<row, timeline, handed, task, process, tally>>

\* The results are dealt with in the order of the calls.  One may send a
\* message (said is 1 then), ask, or be final: the first question and the
\* first final message win, and every message counts that is not blank.
\* Malformed arguments, an unknown tool and a tool's own error are results
\* like any other.
ToolResult(t, said, ask, final) ==
    /\ At(t, {"tools"}) /\ frame[t].pending > 0
    /\ ask = "none" \/ final = "none"
    /\ said = 1 => ask = "none" /\ final = "none"
    /\ open' = [open EXCEPT ![t] = @ - 1]
    /\ frame' = [frame EXCEPT
           ![t].pending = @ - 1, ![t].messages = @ + said,
           ![t].ask = IF @ = "none" THEN ask ELSE @,
           ![t].final = IF @ = "none" THEN final ELSE @]
    /\ UNCHANGED <<row, log, outbox, handed, pc, gate, process, tally>>

\* An error of any other kind ends the batch where it is.
ToolFailure(t) ==
    /\ At(t, {"tools"}) /\ frame[t].pending > 0
    /\ Goto(t, "failing")
    /\ UNCHANGED <<row, timeline, handed, task, process, tally>>

\* The messages of a batch that came to its end are recorded, one by one.
RecordMessage(t) ==
    /\ At(t, {"tools"}) /\ frame[t].pending = 0 /\ frame[t].messages > 0
    /\ outbox' = [outbox EXCEPT ![t].messages = @ + 1]
    /\ frame' = [frame EXCEPT ![t].messages = @ - 1, ![t].sent = @ + 1]
    /\ UNCHANGED <<row, log, open, handed, pc, gate, process, tally>>

\* A final message or a question ends the turn, otherwise the model is asked
\* again; the summary prompt may then be used again.
EndBatch(t) ==
    /\ At(t, {"tools"}) /\ frame[t].pending = 0 /\ frame[t].messages = 0
    /\ rounds' = [rounds EXCEPT ![t] = @ + 1]
    /\ IF frame[t].final # "none" \/ frame[t].ask # "none"
       THEN Goto(t, "settling") /\ UNCHANGED frame
       ELSE /\ Goto(t, "asking")
            /\ frame' = [frame EXCEPT ![t].flags = (@ \cup {"chain"}) \ {"prompted"}]
    /\ UNCHANGED <<row, timeline, handed, gate, process, untraced, prompts, more>>

-----------------------------------------------------------------------------
(* Settling the turn: the row first, then its events and outbound message, *)
(* then the channel.                                                       *)

\* compose_visible_reply: the segments and the terminal text, if any.
Response(f) ==
    IF "spoke" \in f.flags \/ f.final = "text" \/ (f.final = "none" /\ f.ask = "text")
    THEN "text" ELSE "blank"
Verdict(f) ==
    IF f.final = "none" /\ f.ask # "none" THEN "awaiting" ELSE "succeeded"

Settle(t) ==
    LET f == frame[t] IN
    /\ At(t, {"settling"})
    /\ UpdateTurn(t, Verdict(f), Response(f))
    /\ frame' = [frame EXCEPT ![t] = [NewFrame EXCEPT !.ask = f.ask, !.final = f.final,
                                        !.sent = f.sent, !.out = Response(f)]]
    /\ Goto(t, "settled")
    /\ UNCHANGED <<timeline, handed, gate, process, tally>>

\* A blank response has no outbound row.
PublishReply(t) ==
    LET f == frame[t] IN
    /\ At(t, {"settled"})
    /\ IF Verdict(f) = "awaiting" THEN Log(t, "awaiting") ELSE UNCHANGED log
    /\ outbox' = IF f.out = "text" THEN [outbox EXCEPT ![t].reply = @ + 1] ELSE outbox
    /\ Goto(t, "published")
    /\ UNCHANGED <<row, open, handed, task, process, tally>>

\* The row is read back for the upkeep, which is spawned, and the response
\* is returned behind the messages sent on the way.  A turn without
\* assistant_message has no distillation.
HandOver(t) ==
    /\ At(t, {"published"})
    /\ handed' = [handed EXCEPT ![t] =
           Outcome(IF frame[t].out = "text" THEN "reply" ELSE "silence", frame[t].sent)]
    /\ Goto(t, IF reply[t] = "none" THEN "over" ELSE "upkeep")
    /\ frame' = [frame EXCEPT ![t] = [NewFrame EXCEPT !.role = "upkeep"]]
    /\ UNCHANGED <<row, timeline, gate, process, tally>>

Fail(t) ==
    /\ At(t, {"failing"})
    /\ UpdateTurn(t, "failed", "none")
    /\ Goto(t, "failed")
    /\ UNCHANGED <<timeline, handed, task, process, tally>>

\* The error event, and out: a handler's error goes to the channel, the
\* upkeep's only to the process log.
LogError(t) ==
    /\ At(t, {"failed"})
    /\ Log(t, "error")
    /\ ReleaseGate(t)
    /\ handed' = IF frame[t].role = "handler"
                 THEN [handed EXCEPT ![t] = Outcome("error", 0)] ELSE handed
    /\ frame' = [frame EXCEPT ![t] = NewFrame]
    /\ Goto(t, "over")
    /\ UNCHANGED <<row, open, outbox, process, tally>>

-----------------------------------------------------------------------------
(* The upkeep of a turn that ended with a reply.                           *)

\* Nothing to distil (auto-distillation off and no catch-up due).
SkipDistillation(t) ==
    /\ At(t, {"upkeep"}) /\ "prompted" \notin frame[t].flags
    /\ Goto(t, "over")
    /\ UNCHANGED <<row, timeline, handed, task, process, tally>>

\* The compressor's request goes through the runtime's own engine when no
\* compressor role is set, else straight to the compressor's engine.
StartDistillation(t) ==
    /\ At(t, {"upkeep"})
    /\ IF SharedCompressor
       THEN Goto(t, "asking") /\ UNCHANGED untraced
       ELSE /\ Goto(t, "direct")
            /\ untraced' = [untraced EXCEPT ![t] = @ + 1]
    /\ UNCHANGED <<row, timeline, handed, task, process, rounds, prompts, more>>

\* The compressor's answer is traced.  Output that does not parse is sent
\* back for repair, once.
TraceDistillation(t) ==
    /\ \/ At(t, {"answered"}) /\ frame[t].role = "upkeep"
       \/ At(t, {"direct"})
    /\ untraced' = [untraced EXCEPT ![t] = @ - 1]
    /\ \/ Goto(t, "over") /\ frame' = [frame EXCEPT ![t] = NewFrame]
       \/ /\ "prompted" \notin frame[t].flags
          /\ Goto(t, "upkeep")
          /\ frame' = [frame EXCEPT ![t].flags = {"prompted"}, ![t].answer = "none"]
    /\ UNCHANGED <<row, timeline, handed, gate, process, rounds, prompts, more>>

-----------------------------------------------------------------------------
(* Failing writes, crashes and recovery.                                   *)

\* A write fails and "?" ends the task; a handler's channel gets the error.
DbFailure(t) ==
    /\ DbFailures /\ At(t, Locations \ Ended)
    /\ handed' = IF frame[t].role = "handler"
                 THEN [handed EXCEPT ![t] = Outcome("error", 0)] ELSE handed
    /\ ReleaseGate(t)
    /\ frame' = [frame EXCEPT ![t] = NewFrame]
    /\ Goto(t, "cut")
    /\ UNCHANGED <<row, timeline, process, tally>>

Crash ==
    /\ phase # "down" /\ crashes < MaxCrashes
    /\ crashes' = crashes + 1
    /\ phase' = "down"
    /\ pc' = [t \in Turns |-> IF pc[t] \in Ended THEN pc[t] ELSE "cut"]
    /\ frame' = [t \in Turns |-> NewFrame]
    /\ gate' = NoTurn
    /\ listed' = {} /\ marking' = NoTurn
    /\ UNCHANGED <<row, timeline, handed, tally>>

RunningTurns == {t \in Turns : status[t] = "running"}

Restart ==
    /\ phase = "down"
    /\ phase' = "starting"
    /\ listed' = RunningTurns
    /\ UNCHANGED <<row, timeline, handed, pc, task, marking, crashes, tally>>

RequestRecovery ==
    /\ LiveRecovery /\ phase = "up"
    /\ listed = {} /\ marking = NoTurn /\ RunningTurns # {}
    /\ listed' = RunningTurns
    /\ UNCHANGED <<row, timeline, handed, pc, task, phase, marking, crashes, tally>>

\* The listing is worked off turn by turn, the row before its event.
RecoverTurn(t) ==
    /\ t \in listed /\ marking = NoTurn
    /\ listed' = listed \ {t}
    /\ marking' = t
    /\ UpdateTurn(t, "failed", "none")
    /\ UNCHANGED <<timeline, handed, pc, task, phase, crashes, tally>>

LogRecovered(t) ==
    /\ marking = t
    /\ Log(t, "recovered")
    /\ marking' = NoTurn
    /\ UNCHANGED <<row, open, outbox, handed, pc, task, phase, listed, crashes, tally>>

\* A failing write ends recovery: the process does not start, the web
\* request fails.
RecoveryFailure ==
    /\ DbFailures /\ (listed # {} \/ marking # NoTurn)
    /\ listed' = {} /\ marking' = NoTurn
    /\ phase' = IF phase = "starting" THEN "down" ELSE phase
    /\ UNCHANGED <<row, timeline, handed, pc, task, crashes, tally>>

StartChannels ==
    /\ phase = "starting" /\ listed = {} /\ marking = NoTurn
    /\ phase' = "up"
    /\ UNCHANGED <<row, timeline, handed, pc, task, listed, marking, crashes, tally>>

-----------------------------------------------------------------------------
Exchange(t) ==
    \/ AnswerText(t) \/ AnswerBlank(t) \/ AnswerBad(t) \/ AnswerTools(t)
    \/ AnswerLimited(t) \/ TraceLimited(t) \/ AskAgain(t)
    \/ AnswerError(t) \/ TraceError(t)
    \/ \E u \in Turns : TellOther(t, u)

Work(t) ==
    \/ AssembleContext(t) \/ SendRequest(t) \/ Exchange(t)
    \/ RecordTrace(t) \/ LogCall(t) \/ RunTools(t)
    \/ \E said \in 0..1, ask, final \in Said : ToolResult(t, said, ask, final)
    \/ ToolFailure(t) \/ RecordMessage(t) \/ EndBatch(t)
    \/ Settle(t) \/ PublishReply(t) \/ HandOver(t) \/ Fail(t) \/ LogError(t)
    \/ SkipDistillation(t) \/ StartDistillation(t) \/ TraceDistillation(t)

Recover(t) == RecoverTurn(t) \/ LogRecovered(t)

Next ==
    \/ \E t \in Turns :
           \/ Accept(t) \/ WaitForWindow(t) \/ Work(t) \/ DbFailure(t)
           \/ Recover(t)
    \/ Crash \/ Restart \/ RequestRecovery \/ RecoveryFailure \/ StartChannels

Spec == Init /\ [][Next]_vars

\* Tasks are polled, the gate is fair (ProviderGate, EveryExchangeEnds), and
\* somebody restarts the process.  That the model stops asking for tools and
\* the provider stops limiting is MaxMore's doing, not the code's.
Fairness ==
    /\ \A t \in Turns : WF_vars(Work(t)) /\ WF_vars(Recover(t))
    /\ WF_vars(Restart) /\ WF_vars(StartChannels)

FairSpec == Spec /\ Fairness

-----------------------------------------------------------------------------
(* Properties.                                                             *)

\* docs/model-traces.md, "One Trace Per Provider Exchange": however an
\* exchange ends (answer, rate limit, error, the compressor's), it is traced
\* before its task goes on.  Only a crash or a failing write may lose one,
\* and then the last one of the turn.
EveryExchangeTraced ==
    \A t \in Turns : untraced[t] > 0 =>
        pc[t] \in {"calling", "limited", "answered", "erring", "direct", "cut"}

\* Every ToolCall event has its ToolResult before the model is asked again
\* and before the turn is closed with a reply, whichever call of the batch
\* carried the final message or the question, and after a crash as well.
ToolCallsAnswered ==
    \A t \in Turns :
        pc[t] \in {"asking", "settling", "upkeep"} \/ status[t] \in Replied
            => open[t] = 0

\* The summary prompt is put in the conversation at most once for each batch
\* of tool calls, so that silence cannot keep a turn going on its own.
PromptedOncePerBatch == \A t \in Turns : prompts[t] <= rounds[t]

\* The books of a turn are straight: exchanges, calls and prompts.
BooksStraight == EveryExchangeTraced /\ ToolCallsAnswered /\ PromptedOncePerBatch

\* Whenever the process serves, a turn that is still running is being
\* worked on: the ones a crash interrupted were settled by recovery.
NoAbandonedTurn ==
    \A t \in Turns : phase = "up" /\ status[t] = "running" => pc[t] \in Unsettled

\* Without crashes and failing writes, a turn that failed says why in its
\* timeline once its task is done with it, whichever of handler, upkeep and
\* recovery failed it and in whatever order they did.  (A crash between the
\* row and the event leaves a failed turn without one: recovery, which
\* lists running turns only, does not come back to it.)
FailureExplained ==
    crashes = 0 /\ ~DbFailures =>
    \A t \in Turns :
        status[t] = "failed" /\ pc[t] = "over" /\ marking # t
        => log[t] \cap {"error", "recovered"} # {}

\* runtime/mod.rs, recover_incomplete_turns: what is recovered is an
\* "abandoned running turn", one whose task is gone before it settled.
OnlyAbandonedRecovered ==
    [][\A t \in Turns : marking' = t /\ marking # t
          => pc[t] = "cut" /\ status[t] = "running"]_vars

\* A turn that was accepted is settled in the end, by its handler or, after
\* a crash, by recovery.
EveryTurnSettles ==
    \A t \in Turns : status[t] = "running" ~> status[t] # "running"

\* The turn implements the promise of TurnContract.
Contract == INSTANCE TurnContract WITH recorded <- outbox
ImplementsContract == Contract!CSpec

-----------------------------------------------------------------------------
(* Statements of the repository that do not hold of the code.              *)

\* spawn_post_turn_maintenance works on a "completed_turn", and reports a
\* failure of its own to the process log only: the turn stays as it is.
CompletedTurnStays ==
    [][\A t \in Turns : status[t] \in Replied => UNCHANGED <<status[t], reply[t]>>]_vars

=============================================================================
