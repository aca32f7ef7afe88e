------------------------ MODULE TurnLifecycleProofs ------------------------
(***************************************************************************)
(* Proofs about TurnLifecycle, for every set of turns, every size of a     *)
(* batch of tool calls and any number of crashes.                          *)
(***************************************************************************)
EXTENDS TurnLifecycle, TLAPS

InFlight == {"calling", "limited", "answered", "erring", "direct"}

\* The bookkeeping of one task: what it has sent and not traced, and which of
\* its tool calls are logged and not answered, is told by where it is.
Books(t) ==
    /\ pc[t] \in InFlight => untraced[t] = 1
    /\ pc[t] \notin InFlight \cup {"cut"} => untraced[t] = 0
    /\ pc[t] \in {"calls", "tools"} => open[t] = frame[t].pending
    /\ pc[t] \notin {"calls", "tools"} =>
           \/ open[t] = 0
           \/ /\ pc[t] \in {"failing", "failed", "over", "cut"}
              /\ status[t] \in {"running", "failed"}
    /\ pc[t] \in {"calls", "tools"} =>
           frame[t].calls + frame[t].pending + frame[t].messages <= MaxCalls
    /\ pc[t] = "tools" => frame[t].calls = 0
    /\ pc[t] = "answered" =>
           /\ frame[t].pending = 0 /\ frame[t].messages = 0
           /\ frame[t].calls > 0 => frame[t].answer \in {"tools", "speakingTools"}
    /\ pc[t] \in {"asking", "calling", "limited", "fanout", "upkeep", "direct"} =>
           frame[t].calls = 0 /\ frame[t].pending = 0 /\ frame[t].messages = 0

\* Who the task is: a handler's turn has no reply yet, nothing is in its
\* outbox, and only a handler runs tools or settles.
Roles(t) ==
    /\ status[t] = "absent" <=> pc[t] = "absent"
    /\ frame[t].role = "handler" /\ pc[t] \in Unsettled =>
           status[t] \in {"running", "failed"} /\ outbox[t].reply = 0
    /\ pc[t] \in {"calls", "tools", "settling", "settled", "published"} =>
           frame[t].role = "handler"
    /\ pc[t] \in Upkeep => frame[t].role = "upkeep"
    /\ pc[t] = "answered" /\ frame[t].role = "upkeep" => frame[t].calls = 0
    /\ pc[t] \in Settling \cup Upkeep \cup {"over"} => status[t] # "running"
    /\ frame[t].role = "upkeep" => status[t] # "running"
    /\ pc[t] = "absent" => frame[t] = NewFrame /\ outbox[t] = NoRows
    /\ pc[t] = "accepted" => frame[t] = NewFrame
    /\ pc[t] = "settled" => outbox[t].reply = 0

Prompting(t) ==
    /\ prompts[t] <= rounds[t]
    /\ "chain" \in frame[t].flags /\ "prompted" \notin frame[t].flags => prompts[t] < rounds[t]

TurnInv ==
    /\ TypeOK
    /\ \A t \in Turns : Books(t) /\ Roles(t) /\ Prompting(t)
    /\ \A t \in listed : status[t] # "absent"

\* A step that is one turn's own.
OthersKept(t) ==
    \A u \in Turns \ {t} :
        /\ pc'[u] = pc[u] /\ frame'[u] = frame[u] /\ status'[u] = status[u]
        /\ open'[u] = open[u] /\ outbox'[u] = outbox[u]
        /\ untraced'[u] = untraced[u]
        /\ rounds'[u] = rounds[u] /\ prompts'[u] = prompts[u]

\* A step of one turn keeps TurnInv if it keeps that turn's parts of it.
LEMMA OwnStep ==
    ASSUME TurnInv, TypeOK', NEW t \in Turns, OthersKept(t),
           Books(t)', Roles(t)', Prompting(t)',
           \A u \in listed' : status'[u] # "absent"
    PROVE  TurnInv'
BY DEF TurnInv, OthersKept, Books, Roles, Prompting


\* A fresh frame is a frame, a handler's, with nothing in it.
LEMMA NewFrameType ==
    /\ NewFrame \in Frames
    /\ NewFrame.calls = 0 /\ NewFrame.pending = 0 /\ NewFrame.flags = {}
    /\ NewFrame.messages = 0 /\ NewFrame.sent = 0
    /\ NewFrame.role = "handler"
BY TurnAssumption DEF NewFrame, Frames, Said, Flags

\* So are an error and nothing an outcome, and no rows are rows.
LEMMA OutcomeTypes ==
    /\ NoRows \in Rows /\ NoRows.reply = 0
    /\ Nothing \in Outcomes /\ Outcome("error", 0) \in Outcomes
    /\ \A n \in Nat : Outcome("reply", n) \in Outcomes /\ Outcome("silence", n) \in Outcomes
BY DEF NoRows, Rows, Nothing, Outcome, Outcomes

\* Steps that leave the row and the task's frame as they are.
LEMMA PlainStep ==
    ASSUME TurnInv, NEW t \in Turns,
           \/ AssembleContext(t) \/ WaitForWindow(t) \/ SendRequest(t)
           \/ AnswerLimited(t) \/ AskAgain(t) \/ AnswerError(t) \/ TraceError(t)
           \/ RunTools(t) \/ ToolFailure(t) \/ PublishReply(t)
           \/ SkipDistillation(t) \/ StartDistillation(t)
    PROVE  TurnInv'
<1> USE DEF AssembleContext, WaitForWindow, SendRequest, AnswerLimited, AskAgain,
            AnswerError, TraceError, RunTools, ToolFailure, PublishReply,
            SkipDistillation, StartDistillation, ReleaseGate, GoOn,
            TurnInv, TypeOK, At, Goto, Log, row, timeline, task, process, tally
<1>1. TypeOK'
  <2>1. outbox' \in [Turns -> Rows]
    <3>1. CASE PublishReply(t)
      <4> DEFINE o == [outbox[t] EXCEPT !.reply = @ + 1]
      <4>1. outbox[t] \in Rows /\ outbox[t].reply = 0
        BY <3>1 DEF Roles
      <4>2. o \in Rows
        BY <4>1 DEF Rows
      <4>3. outbox' = outbox \/ outbox' = [outbox EXCEPT ![t] = o]
        BY <3>1
      <4> HIDE DEF o
      <4>4. QED
        BY <4>2, <4>3
    <3>2. CASE ~PublishReply(t)
      BY <3>2
    <3>3. QED
      BY <3>1, <3>2
  <2>2. QED
    BY <2>1, TurnAssumption DEF Books, InFlight, Locations, Unsettled, Settling, Upkeep, Ended
<1>2. OthersKept(t)
  BY DEF OthersKept
<1>3. Books(t)'
  <2> USE DEF Books, InFlight
  <2>1. CASE AssembleContext(t)
    BY <2>1 DEF Roles, NewFrame
  <2>2. CASE SendRequest(t) \/ AnswerError(t) \/ TraceError(t) \/ StartDistillation(t)
    BY <2>2
  <2>3. CASE AskAgain(t) \/ AnswerLimited(t) \/ WaitForWindow(t)
    BY <2>3
  <2>4. CASE RunTools(t)
    BY <2>4
  <2>5. CASE ToolFailure(t)
    BY <2>5 DEF Roles, Unsettled
  <2>6. CASE PublishReply(t) \/ SkipDistillation(t)
    BY <2>6
  <2>7. QED
    BY <2>1, <2>2, <2>3, <2>4, <2>5, <2>6
<1>4. Roles(t)'
  BY DEF Roles, Books, Unsettled, Upkeep, Settling, NewFrame
<1>5. Prompting(t)'
  BY DEF Prompting
<1>6. QED
  BY <1>1, <1>2, <1>3, <1>4, <1>5, OwnStep

\* Creating a turn and failing it keep TurnInv.
LEMMA RowStep ==
    ASSUME TurnInv, NEW t \in Turns, Accept(t) \/ Fail(t)
    PROVE  TurnInv'
<1> USE DEF Accept, Fail, UpdateTurn,
            TurnInv, TypeOK, At, Goto, Log, row, timeline, task, process, tally
<1>1. TypeOK'
  BY DEF Locations, Unsettled, Settling, Upkeep, Ended, Said, Text
<1>2. OthersKept(t)
  BY DEF OthersKept
<1>3. Books(t)'
  BY DEF Books, Roles, InFlight, NewFrame
<1>4. Roles(t)'
  BY NewFrameType, OutcomeTypes DEF Roles, Unsettled, Upkeep, Settling
<1>5. Prompting(t)'
  BY DEF Prompting
<1>6. QED
  BY <1>1, <1>2, <1>3, <1>4, <1>5, OwnStep

\* An answer's batch of calls starts unlogged.
LEMMA AnswerStep ==
    ASSUME TurnInv, NEW t \in Turns,
           AnswerText(t) \/ AnswerBad(t) \/ AnswerBlank(t) \/ AnswerTools(t)
    PROVE  TurnInv'
<1> USE DEF Answered, ReleaseGate,
            TurnInv, TypeOK, At, Goto, Log, row, timeline, task, process, tally
<1>1. PICK a \in {"text", "blank", "bad", "tools", "speakingTools"}, n \in 0..MaxCalls :
        /\ Answered(t, a, n)
        /\ n > 0 => a \in {"tools", "speakingTools"} /\ frame[t].role = "handler"
  BY TurnAssumption DEF AnswerText, AnswerBad, AnswerBlank, AnswerTools
<1>2. more' \in 0..MaxMore
  BY TurnAssumption DEF AnswerText, AnswerBad, AnswerBlank, AnswerTools, GoOn
<1> DEFINE f == frame[t]
           g == frame'[t]
<1>3. /\ g = [f EXCEPT !.answer = a, !.calls = n]
      /\ frame' = [frame EXCEPT ![t] = g]
  BY <1>1
<1>4. f \in Frames
  OBVIOUS
<1>5. /\ g \in Frames
      /\ g.calls = n /\ g.answer = a /\ g.pending = f.pending /\ g.messages = f.messages
      /\ g.role = f.role /\ g.flags = f.flags
  BY <1>3, <1>4 DEF Frames
<1>6. TypeOK'
  BY <1>1, <1>2, <1>3, <1>5 DEF Locations, Unsettled
<1>7. OthersKept(t)
  BY <1>1 DEF OthersKept
<1>8. Books(t)'
  BY <1>1, <1>5 DEF Books, InFlight
<1>9. Roles(t)'
  BY <1>1, <1>5 DEF Roles, Unsettled, Upkeep, Settling
<1>10. Prompting(t)'
  BY <1>1, <1>5 DEF Prompting
<1>11. QED
  BY <1>1, <1>6, <1>7, <1>8, <1>9, <1>10, OwnStep

\* Whatever the answer decides, its exchange is traced, and a summary
\* prompt is one that the last batch has paid for.
LEMMA RecordTraceStep ==
    ASSUME TurnInv, NEW t \in Turns, RecordTrace(t)
    PROVE  TurnInv'
<1> USE DEF RecordTrace, At, Goto, TurnInv, TypeOK,
            row, timeline, task, process, tally
<1> DEFINE f == frame[t]
           g == frame'[t]
<1>1. f \in Frames
  OBVIOUS
<1>2. /\ g = [f EXCEPT !.answer = "none", !.flags = f.flags \cup Heard(f)
                          \cup (IF NeedsPrompt(f) THEN {"prompted"} ELSE {})]
      /\ frame' = [frame EXCEPT ![t] = g]
  OBVIOUS
<1>3. /\ g \in Frames
      /\ g.calls = f.calls /\ g.pending = f.pending /\ g.role = f.role
      /\ g.messages = f.messages
      /\ "chain" \in g.flags <=> "chain" \in f.flags
      /\ "prompted" \in g.flags <=> "prompted" \in f.flags \/ NeedsPrompt(f)
  BY <1>1, <1>2 DEF Frames, Flags, Heard
<1>4. TypeOK'
  BY <1>2, <1>3 DEF Books, InFlight, Locations, Unsettled, Text
<1>5. OthersKept(t)
  BY DEF OthersKept
<1>6. Books(t)'
  <2>1. /\ untraced'[t] = 0 /\ open'[t] = 0 /\ f.pending = 0 /\ f.messages = 0
        /\ f.calls > 0 => f.answer \in {"tools", "speakingTools"}
    BY DEF Books, InFlight
  <2>2. /\ f.calls \in 0..MaxCalls
        /\ f.calls > 0 => f.answer \notin {"text", "blank", "bad"}
    BY <1>1, <2>1 DEF Frames
  <2>3. \/ pc'[t] \in {"failing", "settling"}
        \/ pc'[t] = "calls"
        \/ pc'[t] = "asking" /\ f.answer = "blank"
    BY DEF NeedsPrompt
  <2>4. g.calls = f.calls /\ g.pending = 0 /\ g.messages = 0
    BY <1>3, <2>1
  <2> HIDE DEF f, g, RecordTrace, TypeOK, TurnInv
  <2>5. frame'[t].calls = f.calls /\ frame'[t].pending = 0 /\ frame'[t].messages = 0
    BY <2>4 DEF g
  <2>6. QED
    BY <2>1, <2>2, <2>3, <2>5, TurnAssumption DEF Books, InFlight
<1>7. Roles(t)'
  BY <1>3 DEF Roles, Unsettled, Upkeep, Settling, Text
<1>8. Prompting(t)'
  BY <1>1, <1>3 DEF Prompting, NeedsPrompt
<1>9. QED
  BY <1>4, <1>5, <1>6, <1>7, <1>8, OwnStep
\* Telling another turn of the wait touches that turn's timeline only, and the
\* teller's list.
LEMMA LimitStep ==
    ASSUME TurnInv, NEW t \in Turns,
           TraceLimited(t) \/ \E u \in Turns : TellOther(t, u)
    PROVE  TurnInv'
<1> USE DEF TraceLimited, TellOther, At, Goto, Log, TurnInv, TypeOK,
            row, timeline, task, process, tally
<1> DEFINE f == frame[t]
           g == frame'[t]
<1>1. f \in Frames
  OBVIOUS
<1>2. \E told \in SUBSET Turns :
          /\ g = [f EXCEPT !.tell = told]
          /\ frame' = [frame EXCEPT ![t] = g]
  <2>1. CASE TraceLimited(t)
    <3> DEFINE others == {u \in Turns \ {t} : status[u] = "running"}
    <3>1. /\ g = [f EXCEPT !.tell = others]
          /\ frame' = [frame EXCEPT ![t] = g]
      BY <2>1
    <3>2. others \in SUBSET Turns
      OBVIOUS
    <3> HIDE DEF others, f, g
    <3>3. QED
      BY <3>1, <3>2
  <2>2. CASE \E u \in Turns : TellOther(t, u)
    <3>1. PICK u \in Turns : TellOther(t, u)
      BY <2>2
    <3>2. f.tell \ {u} \in SUBSET Turns
      BY <1>1 DEF Frames
    <3>3. /\ g = [f EXCEPT !.tell = f.tell \ {u}]
          /\ frame' = [frame EXCEPT ![t] = g]
      BY <3>1
    <3>4. QED
      BY <3>2, <3>3
  <2>3. QED
    BY <2>1, <2>2
<1>3. /\ g \in Frames /\ frame' = [frame EXCEPT ![t] = g]
      /\ g.calls = f.calls /\ g.pending = f.pending /\ g.answer = f.answer
      /\ g.messages = f.messages
      /\ g.role = f.role /\ g.flags = f.flags
  BY <1>1, <1>2 DEF Frames
<1>4. TypeOK'
  BY <1>3 DEF Books, InFlight, Locations, Unsettled
<1>5. OthersKept(t)
  BY <1>3 DEF OthersKept
<1>6. Books(t)'
  BY <1>3 DEF Books, InFlight
<1>7. Roles(t)'
  BY <1>3 DEF Roles, Unsettled, Upkeep, Settling
<1>8. Prompting(t)'
  BY <1>3 DEF Prompting
<1>9. QED
  BY <1>4, <1>5, <1>6, <1>7, <1>8, OwnStep

\* What going on after a batch does to a frame.
LEMMA ChainFrame ==
    ASSUME NEW f \in Frames, NEW g,
           g = [f EXCEPT !.flags = (f.flags \cup {"chain"}) \ {"prompted"}]
    PROVE  /\ g \in Frames
           /\ g.calls = f.calls /\ g.pending = f.pending /\ g.role = f.role
           /\ g.messages = f.messages
BY DEF Frames, Flags

\* A batch's open calls are the pending ones, and it ends when none is.
LEMMA BatchStep ==
    ASSUME TurnInv, NEW t \in Turns,
           \/ LogCall(t) \/ RecordMessage(t) \/ EndBatch(t)
           \/ \E said \in 0..1, ask, final \in Said : ToolResult(t, said, ask, final)
    PROVE  TurnInv'
<1> USE DEF At, Goto, TurnInv, TypeOK, row, timeline, task, process, tally
<1> DEFINE f == frame[t]
           g == frame'[t]
<1>1. /\ f \in Frames
      /\ f.calls \in 0..MaxCalls /\ f.pending \in 0..MaxCalls
      /\ f.messages \in 0..MaxCalls /\ f.sent \in Nat
  BY DEF Frames
<1>2. CASE LogCall(t)
  <2> USE <1>2 DEF LogCall
  <2>1. /\ g = [f EXCEPT !.calls = f.calls - 1, !.pending = f.pending + 1]
        /\ frame' = [frame EXCEPT ![t] = g]
    OBVIOUS
  <2>2. f.calls + f.pending + f.messages <= MaxCalls /\ open[t] = f.pending
    BY DEF Books
  <2>3. /\ g \in Frames
        /\ g.calls = f.calls - 1 /\ g.pending = f.pending + 1
        /\ g.role = f.role /\ g.flags = f.flags /\ g.messages = f.messages
    BY <1>1, <2>1, <2>2, TurnAssumption DEF Frames
  <2>4. TypeOK'
    BY <1>1, <2>1, <2>2, <2>3, TurnAssumption
  <2>5. OthersKept(t)
    BY DEF OthersKept
  <2>6. Books(t)'
    BY <1>1, <2>2, <2>3, TurnAssumption DEF Books, InFlight
  <2>7. Roles(t)' /\ Prompting(t)'
    BY <2>3 DEF Roles, Prompting, Unsettled, Upkeep, Settling
  <2>8. QED
    BY <2>4, <2>5, <2>6, <2>7, OwnStep
<1>3. ASSUME NEW said \in 0..1, NEW ask \in Said, NEW final \in Said, ToolResult(t, said, ask, final)
      PROVE  TurnInv'
  <2>1. /\ pc[t] = "tools" /\ f.pending > 0 /\ f.messages + said \in 0..MaxCalls
        /\ f.pending + f.messages <= MaxCalls
        /\ open' = [open EXCEPT ![t] = open[t] - 1]
        /\ UNCHANGED <<row, log, outbox, handed, pc, gate, process, tally>>
    <3>1. pc[t] = "tools" /\ f.pending > 0
      BY <1>3 DEF ToolResult
    <3>2. f.calls = 0 /\ f.calls + f.pending + f.messages <= MaxCalls
      BY <3>1 DEF Books
    <3>3. f.messages + said \in 0..MaxCalls /\ f.pending + f.messages <= MaxCalls
      BY <1>1, <1>3, <3>1, <3>2, TurnAssumption
    <3>4. QED
      BY <1>3, <3>1, <3>3 DEF ToolResult
  <2>2. PICK a \in Said, b \in Said :
          /\ g = [f EXCEPT !.pending = f.pending - 1, !.messages = f.messages + said,
                           !.ask = a, !.final = b]
          /\ frame' = [frame EXCEPT ![t] = g]
    <3> DEFINE a == IF f.ask = "none" THEN ask ELSE f.ask
               b == IF f.final = "none" THEN final ELSE f.final
               h == [f EXCEPT !.pending = f.pending - 1, !.messages = f.messages + said,
                              !.ask = a, !.final = b]
    <3>1. f.ask \in Said /\ f.final \in Said
      BY <1>1 DEF Frames
    <3>2. a \in Said /\ b \in Said
      BY <1>3, <3>1
    <3>3. frame' = [frame EXCEPT ![t] = h]
      BY <1>3 DEF ToolResult
    <3> HIDE DEF a, b
    <3>4. g = h
      BY <1>1, <3>3
    <3>5. QED
      BY <3>2, <3>3, <3>4
  <2>3. f.pending - 1 \in 0..MaxCalls
    BY <1>1, <2>1, TurnAssumption
  <2>4. /\ g \in Frames
        /\ g.calls = f.calls /\ g.pending = f.pending - 1
        /\ g.messages = f.messages + said
        /\ g.role = f.role /\ g.flags = f.flags
    <3> HIDE DEF f, g, TurnInv
    <3>1. QED
      BY <1>1, <2>1, <2>2, <2>3 DEF Frames
  <2>5. /\ open[t] = f.pending /\ f.calls = 0 /\ untraced[t] = 0
        /\ f.role = "handler"
    BY <2>1 DEF Books, Roles, InFlight
  <2>6. open'[t] = f.pending - 1
    BY <2>1, <2>5
  <2>7. TypeOK'
    BY <2>1, <2>2, <2>3, <2>4, <2>5
  <2>8. OthersKept(t)
    BY <2>1, <2>2 DEF OthersKept
  <2>9. Books(t)'
    BY <1>1, <2>1, <2>3, <2>4, <2>5, <2>6, TurnAssumption DEF Books, InFlight
  <2>10. Roles(t)' /\ Prompting(t)'
    BY <2>1, <2>4 DEF Roles, Prompting, Unsettled, Upkeep, Settling
  <2>11. \A u \in listed' : status'[u] # "absent"
    BY <2>1
  <2>12. QED
    BY <2>7, <2>8, <2>9, <2>10, <2>11, OwnStep
<1>4. CASE EndBatch(t)
  <2> USE <1>4 DEF EndBatch
  <2>1. \/ /\ Goto(t, "settling") /\ frame' = frame /\ g = f
        \/ /\ Goto(t, "asking")
           /\ g = [f EXCEPT !.flags = (f.flags \cup {"chain"}) \ {"prompted"}]
           /\ frame' = [frame EXCEPT ![t] = g]
    OBVIOUS
  <2>2. /\ g \in Frames
        /\ frame' = [frame EXCEPT ![t] = g]
        /\ g.calls = f.calls /\ g.pending = f.pending /\ g.role = f.role
        /\ g.messages = f.messages
    BY <1>1, <2>1, ChainFrame
  <2>3. TypeOK'
    BY <2>2 DEF Locations, Unsettled
  <2>4. OthersKept(t)
    BY <2>2 DEF OthersKept
  <2>5. f.calls = 0 /\ open[t] = 0 /\ untraced[t] = 0
    BY DEF Books, InFlight
  <2>6. Books(t)'
    BY <2>1, <2>2, <2>5 DEF Books, InFlight
  <2>7. Roles(t)'
    BY <2>2 DEF Roles, Unsettled, Upkeep, Settling
  <2>8. Prompting(t)'
    BY DEF Prompting
  <2>9. QED
    BY <2>3, <2>4, <2>6, <2>7, <2>8, OwnStep
<1>5. CASE RecordMessage(t)
  <2> USE <1>5 DEF RecordMessage
  <2>1. /\ g = [f EXCEPT !.messages = f.messages - 1, !.sent = f.sent + 1]
        /\ frame' = [frame EXCEPT ![t] = g]
    OBVIOUS
  <2>2. f.calls = 0 /\ f.pending = 0 /\ f.role = "handler" /\ open[t] = 0
    BY DEF Books, Roles
  <2>3. /\ g \in Frames
        /\ g.calls = f.calls /\ g.pending = f.pending /\ g.messages = f.messages - 1
        /\ g.role = f.role /\ g.flags = f.flags
    BY <1>1, <2>1, TurnAssumption DEF Frames
  <2>4. /\ outbox' \in [Turns -> Rows]
        /\ outbox'[t].reply = outbox[t].reply
    <3>1. outbox[t] \in Rows
      OBVIOUS
    <3>2. /\ [outbox[t] EXCEPT !.messages = @ + 1] \in Rows
          /\ [outbox[t] EXCEPT !.messages = @ + 1].reply = outbox[t].reply
      BY <3>1 DEF Rows
    <3>3. outbox' = [outbox EXCEPT ![t] = [outbox[t] EXCEPT !.messages = @ + 1]]
      OBVIOUS
    <3>4. QED
      BY <3>2, <3>3
  <2>5. TypeOK'
    BY <2>1, <2>3, <2>4
  <2>6. OthersKept(t)
    BY <2>1 DEF OthersKept
  <2>7. Books(t)'
    BY <1>1, <2>2, <2>3, TurnAssumption DEF Books, InFlight
  <2>8. Roles(t)' /\ Prompting(t)'
    BY <2>2, <2>3, <2>4 DEF Roles, Prompting, Unsettled, Upkeep, Settling
  <2>9. QED
    BY <2>5, <2>6, <2>7, <2>8, OwnStep
<1>6. QED
  BY <1>2, <1>3, <1>4, <1>5

\* A task that ends takes a fresh frame with it.
LEMMA EndStep ==
    ASSUME TurnInv, NEW t \in Turns, LogError(t) \/ DbFailure(t)
    PROVE  TurnInv'
<1> USE DEF LogError, DbFailure, ReleaseGate, At, Goto, Log, TurnInv, TypeOK,
            row, timeline, task, process, tally
<1>1. frame' = [frame EXCEPT ![t] = NewFrame]
  OBVIOUS
<1>2. TypeOK'
  BY <1>1, NewFrameType, OutcomeTypes DEF Locations, Ended
<1>3. OthersKept(t)
  BY DEF OthersKept
<1>4. Books(t)'
  BY <1>1, NewFrameType DEF Books, Roles, InFlight, Ended, Locations, Unsettled
<1>5. Roles(t)' /\ Prompting(t)'
  BY <1>1, NewFrameType DEF Roles, Prompting, Unsettled, Upkeep, Settling, Ended, Locations
<1>6. QED
  BY <1>2, <1>3, <1>4, <1>5, OwnStep

\* A turn is settled with no call open and nothing in its outbox.
LEMMA SettleStep ==
    ASSUME TurnInv, NEW t \in Turns, Settle(t)
    PROVE  TurnInv'
<1> USE DEF Settle, UpdateTurn, At, Goto, TurnInv, TypeOK,
            row, timeline, task, process, tally
<1> DEFINE f == frame[t]
           g == frame'[t]
<1>1. /\ Verdict(f) \in Replied /\ Response(f) \in Text
  BY DEF Verdict, Response, Replied, Text
<1>2. /\ g = [NewFrame EXCEPT !.ask = f.ask, !.final = f.final, !.sent = f.sent,
                             !.out = Response(f)]
      /\ frame' = [frame EXCEPT ![t] = g]
  OBVIOUS
<1>3. f.ask \in Said /\ f.final \in Said /\ f.sent \in Nat
  BY DEF Frames
<1>4. /\ g \in Frames /\ g.calls = 0 /\ g.pending = 0 /\ g.flags = {}
      /\ g.role = "handler" /\ g.messages = 0
  BY <1>1, <1>2, <1>3, NewFrameType DEF Frames, Said
<1>5. TypeOK'
  BY <1>1, <1>2, <1>4 DEF Locations, Settling, Said
<1>6. OthersKept(t)
  BY DEF OthersKept
<1>7. Books(t)'
  BY <1>4 DEF Books, InFlight
<1>8. Roles(t)' /\ Prompting(t)'
  <2>1. Roles(t)'
    BY <1>1, <1>4 DEF Roles, Unsettled, Upkeep, Settling, Replied
  <2>2. Prompting(t)'
    BY <1>4 DEF Prompting
  <2>3. QED
    BY <2>1, <2>2
<1>9. \A u \in listed' : status'[u] # "absent"
  BY <1>1 DEF Replied
<1>10. QED
  BY <1>5, <1>6, <1>7, <1>8, <1>9, OwnStep

\* The upkeep's task starts with a fresh frame of its own role.
LEMMA HandOverStep ==
    ASSUME TurnInv, NEW t \in Turns, HandOver(t)
    PROVE  TurnInv'
<1> USE DEF HandOver, At, Goto, TurnInv, TypeOK, row, timeline, task, process, tally
<1> DEFINE g == [NewFrame EXCEPT !.role = "upkeep"]
<1>1. /\ g \in Frames /\ g.role = "upkeep"
      /\ g.calls = 0 /\ g.pending = 0 /\ g.flags = {} /\ g.messages = 0
  BY NewFrameType DEF Frames
<1>2. frame' = [frame EXCEPT ![t] = g]
  OBVIOUS
<1> HIDE DEF g
<1>3. TypeOK'
  <2>1. frame[t].sent \in Nat
    BY DEF Frames
  <2>2. handed' \in [Turns -> Outcomes]
    BY <2>1, OutcomeTypes
  <2>3. QED
    BY <1>1, <1>2, <2>2 DEF Locations, Upkeep, Ended
<1>4. OthersKept(t)
  BY <1>2 DEF OthersKept
<1>5. Books(t)'
  BY <1>1, <1>2 DEF Books, InFlight
<1>6. Roles(t)' /\ Prompting(t)'
  BY <1>1, <1>2 DEF Roles, Prompting, Unsettled, Upkeep, Settling
<1>7. QED
  BY <1>3, <1>4, <1>5, <1>6, OwnStep

\* The upkeep's exchanges are traced, repaired or not.
LEMMA DistillationStep ==
    ASSUME TurnInv, NEW t \in Turns, TraceDistillation(t)
    PROVE  TurnInv'
<1> USE DEF TurnInv, TypeOK, row, timeline, task, process, tally
<1> DEFINE f == frame[t]
           g == frame'[t]
<1>1. /\ f \in Frames /\ f.role = "upkeep"
      /\ pc[t] \in {"answered", "direct"}
      /\ untraced' = [untraced EXCEPT ![t] = untraced[t] - 1]
      /\ UNCHANGED <<row, timeline, handed, gate, process, rounds, prompts, more>>
  BY DEF TraceDistillation, Roles, At, Upkeep, Settling
<1>2. /\ f.pending = 0 /\ f.calls = 0 /\ f.messages = 0
      /\ open[t] = 0 /\ untraced[t] = 1
  BY <1>1 DEF Books, Roles, InFlight
<1>3. \/ pc' = [pc EXCEPT ![t] = "over"] /\ frame' = [frame EXCEPT ![t] = NewFrame]
      \/ /\ pc' = [pc EXCEPT ![t] = "upkeep"]
         /\ g = [f EXCEPT !.flags = {"prompted"}, !.answer = "none"]
         /\ frame' = [frame EXCEPT ![t] = g]
  BY DEF TraceDistillation, Goto
<1>4. /\ g \in Frames /\ frame' = [frame EXCEPT ![t] = g]
      /\ g.pending = 0 /\ g.calls = 0 /\ g.messages = 0
      /\ g.flags = {} \/ g.flags = {"prompted"}
      /\ g.role = "upkeep" \/ pc'[t] = "over"
  <2>1. /\ frame' = [frame EXCEPT ![t] = g]
        /\ \/ g = NewFrame /\ pc'[t] = "over"
           \/ g = [f EXCEPT !.flags = {"prompted"}, !.answer = "none"]
    BY <1>3
  <2>2. CASE g = NewFrame /\ pc'[t] = "over"
    BY <2>1, <2>2, NewFrameType
  <2>3. CASE g = [f EXCEPT !.flags = {"prompted"}, !.answer = "none"]
    <3> HIDE DEF f, g, TurnInv
    <3>1. g \in Frames /\ g.flags = {"prompted"}
      BY <1>1, <2>3 DEF Frames, Flags
    <3>2. /\ g.calls = f.calls /\ g.pending = f.pending /\ g.role = f.role
          /\ g.messages = f.messages
      BY <1>1, <2>3 DEF Frames
    <3>3. QED
      BY <1>1, <1>2, <2>1, <3>1, <3>2
  <2>4. QED
    BY <2>1, <2>2, <2>3
<1>5. pc'[t] \in {"over", "upkeep"} /\ untraced'[t] = 0
  BY <1>1, <1>2, <1>3
<1>6. TypeOK'
  BY <1>1, <1>2, <1>3, <1>4 DEF Locations, Upkeep, Ended
<1>7. OthersKept(t)
  BY <1>1, <1>3 DEF OthersKept
<1>8. Books(t)'
  BY <1>1, <1>2, <1>4, <1>5 DEF Books, InFlight
<1>9. Roles(t)'
  BY <1>1, <1>4, <1>5 DEF Roles, Unsettled, Upkeep, Settling
<1>10. Prompting(t)'
  BY <1>1, <1>4 DEF Prompting
<1>11. QED
  BY <1>1, <1>6, <1>7, <1>8, <1>9, <1>10, OwnStep
-----------------------------------------------------------------------------
(* Recovery and crashes work on several turns at once.                     *)

\* Recovery changes the row of a turn that exists, and nothing a task keeps.
LEMMA RecoveryStep ==
    ASSUME TurnInv,
           \/ Restart \/ RequestRecovery \/ RecoveryFailure \/ StartChannels
           \/ \E t \in Turns : RecoverTurn(t) \/ LogRecovered(t)
    PROVE  TurnInv'
<1> USE DEF TurnInv, TypeOK, row, timeline, task, process, tally
<1>1. CASE Restart \/ RequestRecovery \/ RecoveryFailure \/ StartChannels
  <2> USE <1>1 DEF Restart, RequestRecovery, RecoveryFailure, StartChannels, RunningTurns
  <2>1. TypeOK'
    OBVIOUS
  <2>2. \A t \in Turns : Books(t)' /\ Roles(t)' /\ Prompting(t)'
    BY DEF Books, Roles, Prompting
  <2>3. \A t \in listed' : status'[t] # "absent"
    OBVIOUS
  <2>4. QED
    BY <2>1, <2>2, <2>3
<1>2. ASSUME NEW t \in Turns, RecoverTurn(t) PROVE TurnInv'
  <2> USE <1>2 DEF RecoverTurn, UpdateTurn
  <2>1. TypeOK'
    BY DEF Said
  <2>2. OthersKept(t)
    BY DEF OthersKept
  <2>3. Books(t)' /\ Prompting(t)'
    BY DEF Books, Prompting
  <2>4. Roles(t)'
    BY DEF Roles
  <2>5. \A u \in listed' : status'[u] # "absent"
    OBVIOUS
  <2>6. QED
    BY <2>1, <2>2, <2>3, <2>4, <2>5, OwnStep
<1>3. ASSUME NEW t \in Turns, LogRecovered(t) PROVE TurnInv'
  <2> USE <1>3 DEF LogRecovered, Log
  <2>1. TypeOK'
    OBVIOUS
  <2>2. \A u \in Turns : Books(u)' /\ Roles(u)' /\ Prompting(u)'
    BY DEF Books, Roles, Prompting
  <2>3. QED
    BY <2>1, <2>2
<1>4. QED
  BY <1>1, <1>2, <1>3

\* A crash leaves the database, and so every turn's books, as they are.
LEMMA CrashStep ==
    ASSUME TurnInv, Crash
    PROVE  TurnInv'
<1> USE DEF TurnInv, TypeOK, Crash, row, timeline, task, process, tally
<1>1. TypeOK'
  BY NewFrameType, TurnAssumption DEF Ended, Locations
<1>2. ASSUME NEW t \in Turns
      PROVE  Books(t)' /\ Roles(t)' /\ Prompting(t)'
  <2>1. /\ pc'[t] = IF pc[t] \in Ended THEN pc[t] ELSE "cut"
        /\ frame'[t] = NewFrame
    OBVIOUS
  <2>2. Books(t)'
    BY <2>1, NewFrameType DEF Books, Roles, InFlight, Ended, Unsettled
  <2>3. Roles(t)'
    BY <2>1, NewFrameType DEF Roles, Ended, Unsettled, Settling, Upkeep
  <2>4. Prompting(t)'
    BY <2>1, NewFrameType DEF Prompting
  <2>5. QED
    BY <2>2, <2>3, <2>4
<1>3. QED
  BY <1>1, <1>2

\* TurnInv holds to start with.
LEMMA InitTurnInv == Init => TurnInv
<1> SUFFICES ASSUME Init PROVE TurnInv
  OBVIOUS
<1>1. TypeOK
  BY NewFrameType, OutcomeTypes, TurnAssumption
     DEF Init, TypeOK, Locations, Ended, Said
<1>2. \A t \in Turns : Books(t) /\ Roles(t) /\ Prompting(t)
  BY NewFrameType, OutcomeTypes
     DEF Init, Books, Roles, Prompting, InFlight, Unsettled, Settling, Upkeep
<1>3. QED
  BY <1>1, <1>2 DEF Init, TurnInv

\* The invariant is inductive.
LEMMA TurnStep == TurnInv /\ [Next]_vars => TurnInv'
<1> SUFFICES ASSUME TurnInv, [Next]_vars PROVE TurnInv'
  OBVIOUS
<1>1. ASSUME NEW t \in Turns, Work(t) PROVE TurnInv'
  BY <1>1, PlainStep, RowStep, AnswerStep, LimitStep, RecordTraceStep,
     BatchStep, EndStep, SettleStep, HandOverStep, DistillationStep
     DEF Work, Exchange
<1>2. ASSUME NEW t \in Turns,
             Accept(t) \/ WaitForWindow(t) \/ DbFailure(t)
      PROVE  TurnInv'
  BY <1>2, RowStep, PlainStep, EndStep
<1>3. CASE \/ Restart \/ RequestRecovery \/ RecoveryFailure \/ StartChannels
           \/ \E t \in Turns : Recover(t)
  BY <1>3, RecoveryStep DEF Recover
<1>4. CASE Crash
  BY <1>4, CrashStep
<1>5. CASE UNCHANGED vars
  <2>1. TypeOK'
    BY <1>5 DEF TurnInv, TypeOK, vars, row, timeline, task, process, tally
  <2>2. \A t \in Turns : Books(t)' /\ Roles(t)' /\ Prompting(t)'
    BY <1>5 DEF TurnInv, Books, Roles, Prompting,
                vars, row, timeline, task, process, tally
  <2>3. QED
    BY <1>5, <2>1, <2>2 DEF TurnInv, vars, row, process
<1>6. QED
  BY <1>1, <1>2, <1>3, <1>4, <1>5 DEF Next

\* TurnInv holds in every reachable state.
THEOREM TurnInvariant == Spec => []TurnInv
BY InitTurnInv, TurnStep, PTL DEF Spec

\* Type correctness: among the rest, a turn's final response never gets a
\* second outbound row, whatever messages were recorded on the way, and no
\* request goes out while an earlier one of the turn is not traced.
THEOREM TypeCorrect == Spec => []TypeOK
<1>1. TurnInv => TypeOK
  BY DEF TurnInv
<1>2. QED
  BY <1>1, TurnInvariant, PTL

\* Every exchange is traced before its task goes on.
THEOREM ExchangesTraced == Spec => []EveryExchangeTraced
<1>1. TurnInv => EveryExchangeTraced
  BY DEF TurnInv, TypeOK, Books, InFlight, EveryExchangeTraced
<1>2. QED
  BY <1>1, TurnInvariant, PTL

\* No question is put to the model, and no reply is given, over an open call.
THEOREM CallsAnswered == Spec => []ToolCallsAnswered
<1>1. TurnInv => ToolCallsAnswered
  BY DEF TurnInv, Books, Roles, Unsettled, Replied, ToolCallsAnswered
<1>2. QED
  BY <1>1, TurnInvariant, PTL

\* The summary prompt is bounded by the batches.
THEOREM PromptsBounded == Spec => []PromptedOncePerBatch
<1>1. TurnInv => PromptedOncePerBatch
  BY DEF TurnInv, Prompting, PromptedOncePerBatch
<1>2. QED
  BY <1>1, TurnInvariant, PTL

\* The books of a turn are straight at every point of every interleaving.
THEOREM BooksAreStraight == Spec => []BooksStraight
BY ExchangesTraced, CallsAnswered, PromptsBounded, PTL DEF BooksStraight

-----------------------------------------------------------------------------
(* No turn is left behind by a crash.                                      *)

\* A cut turn that is still running waits for a restart or for recovery.
Awaited ==
    \A t \in Turns : pc[t] = "cut" /\ status[t] = "running" =>
        phase = "down" \/ (phase = "starting" /\ t \in listed)

\* No step of a handler or of the upkeep cuts a task.
LEMMA WorkCutsNothing ==
    ASSUME TurnInv, NEW t \in Turns, Accept(t) \/ WaitForWindow(t) \/ Work(t)
    PROVE  /\ phase = "up" /\ UNCHANGED <<phase, listed>>
           /\ \A u \in Turns : pc'[u] = "cut" => pc[u] = "cut" /\ status'[u] = status[u]
<1> USE DEF TurnInv, TypeOK, At, Goto, Locations, row, timeline, task, process, tally
<1>1. CASE Accept(t) \/ WaitForWindow(t) \/ AssembleContext(t) \/ SendRequest(t)
  BY <1>1 DEF Accept, WaitForWindow, AssembleContext, SendRequest, UpdateTurn
<1>2. CASE AnswerText(t) \/ AnswerBad(t) \/ AnswerBlank(t) \/ AnswerTools(t)
  BY <1>2 DEF AnswerText, AnswerBad, AnswerBlank, AnswerTools, Answered
<1>3. CASE AnswerLimited(t) \/ TraceLimited(t) \/ AskAgain(t)
           \/ AnswerError(t) \/ TraceError(t)
  BY <1>3 DEF AnswerLimited, TraceLimited, AskAgain, AnswerError, TraceError
<1>4. CASE \E u \in Turns : TellOther(t, u)
  BY <1>4 DEF TellOther
<1>5. CASE RecordTrace(t)
  BY <1>5 DEF RecordTrace
<1>6. CASE LogCall(t) \/ RunTools(t) \/ ToolFailure(t) \/ RecordMessage(t) \/ EndBatch(t)
           \/ \E said \in 0..1, ask, final \in Said : ToolResult(t, said, ask, final)
  BY <1>6 DEF LogCall, RunTools, ToolFailure, RecordMessage, EndBatch, ToolResult
<1>7. CASE Settle(t) \/ PublishReply(t) \/ HandOver(t) \/ Fail(t) \/ LogError(t)
  BY <1>7 DEF Settle, PublishReply, HandOver, Fail, LogError, UpdateTurn
<1>8. CASE SkipDistillation(t) \/ StartDistillation(t) \/ TraceDistillation(t)
  BY <1>8 DEF SkipDistillation, StartDistillation, TraceDistillation
<1>9. QED
  BY <1>1, <1>2, <1>3, <1>4, <1>5, <1>6, <1>7, <1>8 DEF Work, Exchange

\* While writes succeed, whenever the process serves, every running turn is
\* being worked on; recovery on request does not change that.
THEOREM NobodyLeftBehind == ~DbFailures => (Spec => []NoAbandonedTurn)
<1> SUFFICES ASSUME ~DbFailures PROVE Spec => []NoAbandonedTurn
  OBVIOUS
<1>1. Init => Awaited
  BY DEF Init, Awaited
<1>2. TurnInv /\ Awaited /\ [Next]_vars => Awaited'
  <2> SUFFICES ASSUME TurnInv, Awaited, [Next]_vars PROVE Awaited'
    OBVIOUS
  <2> USE DEF Awaited
  <2>1. ASSUME NEW t \in Turns, Accept(t) \/ WaitForWindow(t) \/ Work(t)
        PROVE  Awaited'
    BY <2>1, WorkCutsNothing
  <2>2. ASSUME NEW t \in Turns, DbFailure(t) PROVE Awaited'
    BY <2>2 DEF DbFailure
  <2>3. ASSUME NEW t \in Turns, Recover(t) PROVE Awaited'
    BY <2>3 DEF Recover, RecoverTurn, LogRecovered, UpdateTurn, row, TurnInv, TypeOK
  <2>4. CASE Crash
    BY <2>4 DEF Crash
  <2>5. CASE Restart
    BY <2>5 DEF Restart, RunningTurns, row
  <2>6. CASE RequestRecovery
    BY <2>6 DEF RequestRecovery, row
  <2>7. CASE RecoveryFailure
    BY <2>7 DEF RecoveryFailure
  <2>8. CASE StartChannels
    BY <2>8 DEF StartChannels, row
  <2>9. CASE UNCHANGED vars
    BY <2>9 DEF vars, row, process
  <2>10. QED
    BY <2>1, <2>2, <2>3, <2>4, <2>5, <2>6, <2>7, <2>8, <2>9 DEF Next
<1>3. TurnInv /\ Awaited => NoAbandonedTurn
  BY DEF TurnInv, TypeOK, Roles, Awaited, NoAbandonedTurn,
         Locations, Unsettled, Settling, Upkeep, Ended
<1>4. QED
  BY <1>1, <1>2, <1>3, TurnInvariant, PTL DEF Spec

\* The reasons a timeline may give for a failed turn.
Reasons == {"error", "recovered"}

\* A row that failed has its reason in the timeline, or somebody is between
\* the row and the event: the task that failed it, or recovery.
Accountable ==
    crashes = 0 => \A t \in Turns :
        status[t] = "failed" =>
            log[t] \cap Reasons # {} \/ marking = t \/ pc[t] = "failed"

\* What the task of a turn does: no timeline loses an event, only Fail fails a
\* row, and only the error event leads away from a failed one.
LEMMA WorkAccounts ==
    ASSUME TurnInv, NEW t \in Turns, Accept(t) \/ WaitForWindow(t) \/ Work(t)
    PROVE  /\ \A u \in Turns : log[u] \subseteq log'[u]
           /\ \A u \in Turns \ {t} : status'[u] = status[u] /\ pc'[u] = pc[u]
           /\ status'[t] = "failed" /\ status[t] # "failed" => pc'[t] = "failed"
           /\ pc[t] = "failed" => "error" \in log'[t]
           /\ UNCHANGED <<marking, crashes>>
<1> USE DEF TurnInv, TypeOK, At, Goto, Log, UpdateTurn, row, timeline, process, task, tally
<1>1. CASE Accept(t) \/ WaitForWindow(t) \/ AssembleContext(t) \/ SendRequest(t)
  BY <1>1 DEF Accept, WaitForWindow, AssembleContext, SendRequest
<1>2. CASE Exchange(t)
  BY <1>2 DEF Exchange, AnswerText, AnswerBlank, AnswerBad, AnswerTools, Answered,
              AnswerLimited, TraceLimited, TellOther, AskAgain, AnswerError, TraceError
<1>3. CASE RecordTrace(t) \/ LogCall(t) \/ RunTools(t) \/ ToolFailure(t)
           \/ RecordMessage(t) \/ EndBatch(t)
  BY <1>3 DEF RecordTrace, LogCall, RunTools, ToolFailure, RecordMessage, EndBatch
<1>4. ASSUME NEW said \in 0..1, NEW ask \in Said, NEW final \in Said, ToolResult(t, said, ask, final)
      PROVE  UNCHANGED <<status, log, pc, marking, crashes>> /\ pc[t] = "tools"
  BY <1>4 DEF ToolResult
<1>5. CASE Settle(t) \/ PublishReply(t) \/ HandOver(t) \/ Fail(t) \/ LogError(t)
  BY <1>5 DEF Settle, PublishReply, HandOver, Fail, LogError, Verdict
<1>6. CASE SkipDistillation(t) \/ StartDistillation(t) \/ TraceDistillation(t)
  BY <1>6 DEF SkipDistillation, StartDistillation, TraceDistillation
<1>7. QED
  BY <1>1, <1>2, <1>3, <1>4, <1>5, <1>6 DEF Work

\* Without crashes and failing writes, a turn that failed says why once its
\* task is done with it, whichever of handler, upkeep and recovery failed it,
\* though both may be at it at the same time.
THEOREM FailuresExplained == Spec => []FailureExplained
<1>1. CASE DbFailures
  <2>1. FailureExplained
    BY <1>1 DEF FailureExplained
  <2>2. QED
    BY <2>1, PTL
<1>2. CASE ~DbFailures
  <2>1. Init => Accountable
    BY DEF Init, Accountable
  <2>2. TurnInv /\ Accountable /\ [Next]_vars => Accountable'
    <3> SUFFICES ASSUME TurnInv, Accountable, [Next]_vars, crashes' = 0, NEW u \in Turns,
                        status'[u] = "failed"
                 PROVE  log'[u] \cap Reasons # {} \/ marking' = u \/ pc'[u] = "failed"
      BY DEF Accountable
    <3> USE DEF Accountable, Reasons
    <3>1. ASSUME NEW t \in Turns, Accept(t) \/ WaitForWindow(t) \/ Work(t)
          PROVE  log'[u] \cap Reasons # {} \/ marking' = u \/ pc'[u] = "failed"
      BY <3>1, WorkAccounts
    <3>2. ASSUME NEW t \in Turns, DbFailure(t) PROVE FALSE
      BY <1>2, <3>2 DEF DbFailure
    <3>3. ASSUME NEW t \in Turns, Recover(t)
          PROVE  log'[u] \cap Reasons # {} \/ marking' = u \/ pc'[u] = "failed"
      BY <3>3, TurnAssumption
         DEF Recover, RecoverTurn, LogRecovered, UpdateTurn, Log, row, timeline, TurnInv, TypeOK
    <3>4. CASE Crash
      BY <3>4 DEF Crash, TurnInv, TypeOK
    <3>5. CASE Restart \/ RequestRecovery \/ StartChannels
      BY <3>5 DEF Restart, RequestRecovery, StartChannels, row, timeline
    <3>6. CASE RecoveryFailure
      BY <1>2, <3>6 DEF RecoveryFailure
    <3>7. CASE UNCHANGED vars
      BY <3>7 DEF vars, row, timeline, process
    <3>8. QED
      BY <3>1, <3>2, <3>3, <3>4, <3>5, <3>6, <3>7 DEF Next
  <2>3. Accountable => FailureExplained
    BY DEF Accountable, FailureExplained, Reasons
  <2>4. QED
    BY <2>1, <2>2, <2>3, TurnInvariant, PTL DEF Spec
<1>3. QED
  BY <1>1, <1>2


(***************************************************************************)
(* TurnLifecycle implements TurnContract when distillation has an engine   *)
(* of its own and recovery runs at startup only.  Without either of the    *)
(* two a settled turn is rewritten, as two of the runs show.               *)
(***************************************************************************)

\* What the row, the outbox and the channel have seen of a turn is told by
\* where its task is.
Kept(t) ==
    /\ pc[t] \in Unsettled =>
           /\ frame[t].role = "handler" /\ status[t] = "running" /\ handed[t] = Nothing
           /\ outbox[t] = [messages |-> frame[t].sent, reply |-> 0]
    /\ pc[t] \in {"settled", "published"} =>
           /\ status[t] \in Replied /\ reply[t] = frame[t].out /\ reply[t] \in Text
           /\ handed[t] = Nothing
    /\ pc[t] \in {"settled", "published"} => outbox[t].messages = frame[t].sent
    /\ pc[t] = "settled" => outbox[t].reply = 0
    /\ pc[t] = "published" => outbox[t].reply = IF frame[t].out = "text" THEN 1 ELSE 0
    /\ pc[t] = "failed" => /\ status[t] = "failed" /\ handed[t] = Nothing
                           /\ frame[t].role = "handler"
    /\ pc[t] = "absent" => handed[t] = Nothing
    /\ status[t] \in {"absent", "running"} => reply[t] = "none"

\* Recovery has something to do only before the process serves; nothing else
\* runs then.
AtStartup ==
    /\ phase # "up" => \A t \in Turns : pc[t] \in Ended
    /\ listed # {} \/ marking # NoTurn => phase = "starting"
    /\ \A t \in listed : status[t] = "running"

ContractInv == (\A t \in Turns : Kept(t)) /\ AtStartup
Separate == ~SharedCompressor /\ ~LiveRecovery

seen == <<status, reply, outbox, handed>>

\* One turn's own step: what it must establish.
LEMMA OwnContractStep ==
    ASSUME ContractInv, NEW t \in Turns, OthersKept(t), phase = "up",
           \A u \in Turns \ {t} : reply'[u] = reply[u] /\ handed'[u] = handed[u],
           Kept(t)',
           UNCHANGED <<phase, listed, marking>>
    PROVE  ContractInv'
BY DEF ContractInv, Kept, AtStartup, OthersKept

\* Steps before the turn is settled are stutters of the contract.
LEMMA UnsettledStep ==
    ASSUME TurnInv, ContractInv, NEW t \in Turns,
           \/ AssembleContext(t) \/ WaitForWindow(t) \/ SendRequest(t)
           \/ Exchange(t) \/ RecordTrace(t) \/ LogCall(t) \/ RunTools(t)
           \/ \E said \in 0..1, ask, final \in Said : ToolResult(t, said, ask, final)
           \/ ToolFailure(t) \/ EndBatch(t)
    PROVE  UNCHANGED seen /\ ContractInv'
<1> USE DEF TurnInv, TypeOK, At, Goto, row, timeline, task, process, tally
<1> DEFINE Quiet == /\ pc[t] \in Unsettled /\ pc'[t] \in Unsettled /\ phase = "up"
                    /\ frame'[t].role = frame[t].role /\ frame'[t].sent = frame[t].sent
                    /\ UNCHANGED <<seen, phase, listed, marking>>
                    /\ \A u \in Turns \ {t} : pc'[u] = pc[u] /\ frame'[u] = frame[u]
<1>1. Quiet
  <2> USE DEF Unsettled, seen, Frames
  <2>1. CASE AssembleContext(t) \/ WaitForWindow(t) \/ SendRequest(t) \/ RunTools(t)
             \/ ToolFailure(t)
    BY <2>1 DEF AssembleContext, WaitForWindow, SendRequest, RunTools, ToolFailure
  <2>2. CASE AnswerText(t) \/ AnswerBad(t) \/ AnswerBlank(t) \/ AnswerTools(t)
    BY <2>2 DEF AnswerText, AnswerBad, AnswerBlank, AnswerTools, Answered
  <2>3. CASE AnswerLimited(t) \/ TraceLimited(t) \/ AskAgain(t) \/ AnswerError(t)
             \/ TraceError(t)
    BY <2>3 DEF AnswerLimited, TraceLimited, AskAgain, AnswerError, TraceError
  <2>4. CASE \E u \in Turns : TellOther(t, u)
    BY <2>4 DEF TellOther
  <2>5. CASE RecordTrace(t)
    BY <2>5 DEF RecordTrace
  <2>6. CASE LogCall(t)
    BY <2>6 DEF LogCall
  <2>7. ASSUME NEW said \in 0..1, NEW ask \in Said, NEW final \in Said, ToolResult(t, said, ask, final)
        PROVE  Quiet
    <3> DEFINE a == IF frame[t].ask = "none" THEN ask ELSE frame[t].ask
               m == IF frame[t].final = "none" THEN final ELSE frame[t].final
    <3>1. frame' = [frame EXCEPT ![t].pending = @ - 1, ![t].messages = @ + said,
                                 ![t].ask = a, ![t].final = m]
      BY <2>7 DEF ToolResult
    <3> HIDE DEF a, m
    <3>2. /\ frame'[t].role = frame[t].role /\ frame'[t].sent = frame[t].sent
          /\ \A u \in Turns \ {t} : frame'[u] = frame[u]
      BY <3>1
    <3>3. QED
      BY <2>7, <3>2 DEF ToolResult
  <2>8. CASE EndBatch(t)
    BY <2>8 DEF EndBatch
  <2>9. QED
    BY <2>1, <2>2, <2>3, <2>4, <2>5, <2>6, <2>7, <2>8 DEF Exchange
<1>2. Kept(t)'
  BY <1>1 DEF ContractInv, Kept, Unsettled, seen
<1>3. \A u \in Turns \ {t} : Kept(u)'
  BY <1>1 DEF ContractInv, Kept, seen
<1>4. AtStartup'
  BY <1>1 DEF ContractInv, AtStartup, seen
<1>5. QED
  BY <1>1, <1>2, <1>3, <1>4 DEF ContractInv

\* So are the steps of the upkeep, whose exchanges never leave "direct".
LEMMA UpkeepIsQuiet ==
    ASSUME TurnInv, ContractInv, Separate, NEW t \in Turns,
           SkipDistillation(t) \/ StartDistillation(t) \/ TraceDistillation(t)
    PROVE  UNCHANGED seen /\ ContractInv'
<1> USE DEF TurnInv, TypeOK, At, Goto, row, timeline, task, process, tally
<1>1. /\ pc'[t] \in Upkeep \cup {"over"} /\ phase = "up"
      /\ UNCHANGED <<seen, phase, listed, marking>>
      /\ \A u \in Turns \ {t} : pc'[u] = pc[u] /\ frame'[u] = frame[u]
  BY DEF SkipDistillation, StartDistillation, TraceDistillation, Upkeep, seen, Separate
<1>2. Kept(t)'
  BY <1>1 DEF ContractInv, Kept, Upkeep, Unsettled, seen
<1>3. \A u \in Turns \ {t} : Kept(u)'
  BY <1>1 DEF ContractInv, Kept, seen
<1>4. AtStartup'
  BY <1>1 DEF ContractInv, AtStartup, seen
<1>5. QED
  BY <1>1, <1>2, <1>3, <1>4 DEF ContractInv

\* A message is recorded as it is: before the turn is settled.
LEMMA RecordIsSay ==
    ASSUME TurnInv, ContractInv, NEW t \in Turns, RecordMessage(t)
    PROVE  Contract!Say(t) /\ ContractInv'
<1> USE DEF RecordMessage, TurnInv, TypeOK, At, row, timeline, task, process, tally
<1>1. /\ pc[t] \in Unsettled /\ pc' = pc /\ status[t] = "running" /\ handed[t] = Nothing
      /\ frame[t].role = "handler"
      /\ outbox[t] = [messages |-> frame[t].sent, reply |-> 0]
  BY DEF Unsettled, ContractInv, Kept
<1>2. Contract!Say(t)
  BY <1>1 DEF Contract!Say, Contract!Nothing, Contract!Outcome, Nothing, Outcome
<1>3. /\ frame'[t].sent = frame[t].sent + 1 /\ frame'[t].role = frame[t].role
      /\ outbox'[t] = [messages |-> frame'[t].sent, reply |-> 0]
  BY <1>1 DEF Frames
<1>4. Kept(t)'
  BY <1>1, <1>3 DEF ContractInv, Kept, Unsettled
<1>5. OthersKept(t)
  BY DEF OthersKept
<1>6. QED
  BY <1>2, <1>4, <1>5, OwnContractStep

\* Creating the row is the contract's Accept.
LEMMA AcceptIsAccept ==
    ASSUME TurnInv, ContractInv, NEW t \in Turns, Accept(t)
    PROVE  Contract!Accept(t) /\ ContractInv'
<1> USE DEF Accept, UpdateTurn, TurnInv, TypeOK, At, Goto,
            row, timeline, task, process, tally
<1>1. Contract!Accept(t)
  BY DEF Contract!Accept, Roles, ContractInv, Kept
<1>2. Kept(t)'
  BY NewFrameType, OutcomeTypes DEF ContractInv, Kept, Unsettled, Roles, NoRows
<1>3. OthersKept(t)
  BY DEF OthersKept
<1>4. QED
  BY <1>1, <1>2, <1>3, OwnContractStep

\* The row is settled by the handler, with a reply or without.
LEMMA SettleIsSettle ==
    ASSUME TurnInv, ContractInv, NEW t \in Turns, Settle(t) \/ Fail(t)
    PROVE  Contract!Settle(t) /\ ContractInv'
<1> USE DEF UpdateTurn, TurnInv, TypeOK, At, Goto,
            row, timeline, task, process, tally
<1>1. CASE Settle(t)
  <2> USE <1>1 DEF Settle
  <2> DEFINE f == frame[t]
             v == Verdict(f)
             r == Response(f)
  <2>1. v \in Replied /\ r \in Text
    BY DEF Verdict, Response, Replied, Text
  <2>2. frame'[t].out = r
    BY DEF NewFrame
  <2>3. pc[t] \in Unsettled
    BY DEF Unsettled
  <2>4. Contract!Settle(t)
    <3>1. status[t] = "running"
      BY <2>3 DEF ContractInv, Kept
    <3>2. /\ status' = [status EXCEPT ![t] = v] /\ reply' = [reply EXCEPT ![t] = r]
          /\ UNCHANGED <<outbox, handed>>
      OBVIOUS
    <3> HIDE DEF v, r
    <3>3. QED
      BY <2>1, <3>1, <3>2 DEF Contract!Settle, Contract!Replied, Replied, Text
  <2>5. Kept(t)'
    BY <2>1, <2>2, <2>3 DEF ContractInv, Kept, Unsettled, Replied, Text
  <2>6. OthersKept(t)
    BY DEF OthersKept
  <2>7. QED
    BY <2>4, <2>5, <2>6, OwnContractStep
<1>2. CASE Fail(t)
  <2> USE <1>2 DEF Fail
  <2>1. Contract!Settle(t)
    BY DEF Contract!Settle, ContractInv, Kept, Unsettled
  <2>2. Kept(t)'
    BY DEF ContractInv, Kept, Unsettled
  <2>3. OthersKept(t)
    BY DEF OthersKept
  <2>4. QED
    BY <2>1, <2>2, <2>3, OwnContractStep
<1>3. QED
  BY <1>1, <1>2

\* The reply is recorded, or there is none to record.
LEMMA PublishIsRecord ==
    ASSUME TurnInv, ContractInv, NEW t \in Turns, PublishReply(t)
    PROVE  (Contract!Record(t) \/ UNCHANGED seen) /\ ContractInv'
<1> USE DEF PublishReply, TurnInv, TypeOK, At, Goto,
            row, timeline, task, process, tally
<1>1. /\ status[t] \in Replied /\ reply[t] = frame[t].out /\ outbox[t].reply = 0
      /\ outbox[t].messages = frame[t].sent /\ outbox[t].reply + 1 = 1
      /\ handed[t] = Nothing /\ reply[t] \in Text
  BY DEF ContractInv, Kept, Roles
<1>2. Contract!Record(t) \/ UNCHANGED seen
  BY <1>1 DEF Contract!Record, Contract!Replied, Replied, seen
<1>3. Kept(t)'
  BY <1>1 DEF Kept, Unsettled, Replied
<1>4. OthersKept(t)
  BY DEF OthersKept
<1>5. QED
  BY <1>2, <1>3, <1>4, OwnContractStep

\* What the channel is handed is what the row and the outbox say.
LEMMA HandOverIsReply ==
    ASSUME TurnInv, ContractInv, NEW t \in Turns, HandOver(t)
    PROVE  Contract!HandReply(t) /\ ContractInv'
<1> USE DEF HandOver, TurnInv, TypeOK, At, Goto,
            row, timeline, task, process, tally
<1>1. /\ status[t] \in Replied /\ reply[t] = frame[t].out /\ reply[t] \in Text
      /\ handed[t] = Nothing
      /\ outbox[t].messages = frame[t].sent
      /\ outbox[t].reply = IF frame[t].out = "text" THEN 1 ELSE 0
  BY DEF ContractInv, Kept
<1>2. Contract!HandReply(t)
  BY <1>1 DEF Contract!HandReply, Contract!Replied, Replied, Text,
                   Contract!Nothing, Contract!Outcome, Nothing, Outcome
<1>3. Kept(t)'
  BY <1>1 DEF Kept, Unsettled, Replied
<1>4. OthersKept(t)
  BY DEF OthersKept
<1>5. QED
  BY <1>2, <1>3, <1>4, OwnContractStep

\* An error is handed to the channel of a failed turn, or after a failed write.
LEMMA ErrorIsError ==
    ASSUME TurnInv, ContractInv, NEW t \in Turns, LogError(t) \/ DbFailure(t)
    PROVE  (Contract!HandError(t) \/ UNCHANGED seen) /\ ContractInv'
<1> USE DEF TurnInv, TypeOK, At, Goto, Log,
            row, timeline, task, process, tally
<1>1. CASE LogError(t)
  <2>1. Contract!HandError(t)
    BY <1>1 DEF LogError, Contract!HandError, ContractInv, Kept,
                Contract!Nothing, Contract!Outcome, Nothing, Outcome
  <2>2. Kept(t)'
    BY <1>1 DEF LogError, ContractInv, Kept, Unsettled
  <2>3. OthersKept(t)
    BY <1>1 DEF LogError, OthersKept
  <2>4. QED
    BY <1>1, <2>1, <2>2, <2>3, OwnContractStep DEF LogError
<1>2. CASE DbFailure(t)
  <2>1. pc[t] # "absent" /\ pc[t] \in Locations \ Ended
    BY <1>2 DEF DbFailure, Ended
  <2>2. frame[t].role = "handler" => handed[t] = Nothing
    BY <2>1 DEF ContractInv, Kept, Roles, Locations, Unsettled, Settling, Upkeep, Ended
  <2>3. Contract!HandError(t) \/ UNCHANGED seen
    BY <1>2, <2>1, <2>2 DEF DbFailure, Contract!HandError, Roles, seen,
                            Contract!Nothing, Contract!Outcome, Nothing, Outcome
  <2>4. Kept(t)'
    BY <1>2 DEF DbFailure, ContractInv, Kept, Unsettled
  <2>5. OthersKept(t)
    BY <1>2 DEF DbFailure, OthersKept
  <2>6. QED
    BY <1>2, <2>3, <2>4, <2>5, OwnContractStep DEF DbFailure
<1>3. QED
  BY <1>1, <1>2

\* Startup recovery settles turns that nobody is working on.
LEMMA RecoveryIsSettle ==
    ASSUME TurnInv, ContractInv, Separate,
           \/ Crash \/ Restart \/ RequestRecovery \/ RecoveryFailure
           \/ StartChannels \/ \E t \in Turns : Recover(t)
    PROVE  /\ UNCHANGED seen \/ \E t \in Turns : Contract!Settle(t)
           /\ ContractInv'
<1> USE DEF TurnInv, TypeOK, row, timeline, task, process, tally
<1>1. CASE Crash
  <2>1. UNCHANGED seen /\ \A t \in Turns : pc'[t] \in Ended /\ (pc'[t] # pc[t] => pc'[t] = "cut")
    BY <1>1 DEF Crash, seen, Ended
  <2>2. \A t \in Turns : Kept(t)'
    BY <2>1 DEF ContractInv, Kept, seen, Ended, Unsettled
  <2>3. AtStartup'
    BY <1>1, <2>1 DEF Crash, AtStartup
  <2>4. QED
    BY <2>1, <2>2, <2>3 DEF ContractInv
<1>2. CASE Restart \/ RequestRecovery \/ RecoveryFailure \/ StartChannels
  <2>1. UNCHANGED <<seen, pc, frame>>
    BY <1>2 DEF Restart, RequestRecovery, RecoveryFailure, StartChannels, seen
  <2>2. \A t \in Turns : Kept(t)'
    BY <2>1 DEF ContractInv, Kept, seen
  <2>3. AtStartup'
    BY <1>2, <2>1 DEF Restart, RequestRecovery, RecoveryFailure, StartChannels,
                      RunningTurns, ContractInv, AtStartup, Separate, seen
  <2>4. QED
    BY <2>1, <2>2, <2>3 DEF ContractInv
<1>3. ASSUME NEW t \in Turns, RecoverTurn(t)
      PROVE  Contract!Settle(t) /\ ContractInv'
  <2> USE <1>3 DEF RecoverTurn, UpdateTurn
  <2>1. status[t] = "running" /\ reply[t] = "none" /\ phase = "starting"
    BY DEF ContractInv, AtStartup, Kept
  <2>2. pc[t] = "cut"
    BY <2>1 DEF ContractInv, AtStartup, Ended, Roles
  <2>3. Contract!Settle(t)
    BY <2>1 DEF Contract!Settle
  <2>4. \A u \in Turns : Kept(u)'
    BY <2>1, <2>2 DEF ContractInv, Kept, Unsettled
  <2>5. AtStartup'
    BY <2>1 DEF ContractInv, AtStartup
  <2>6. QED
    BY <2>3, <2>4, <2>5 DEF ContractInv
<1>4. ASSUME NEW t \in Turns, LogRecovered(t)
      PROVE  UNCHANGED seen /\ ContractInv'
  BY <1>4 DEF LogRecovered, Log, seen, ContractInv, Kept, AtStartup
<1>5. QED
  BY <1>1, <1>2, <1>3, <1>4 DEF Recover

\* Every step is one of the contract's, or a stutter.
LEMMA ContractStep ==
    ASSUME TurnInv, ContractInv, Separate, [Next]_vars
    PROVE  [Contract!CNext]_seen /\ ContractInv'
<1>1. ASSUME NEW t \in Turns, Work(t) PROVE [Contract!CNext]_seen /\ ContractInv'
  BY <1>1, UnsettledStep, UpkeepIsQuiet, RecordIsSay, SettleIsSettle, PublishIsRecord,
     HandOverIsReply, ErrorIsError
     DEF Work, Contract!CNext
<1>2. ASSUME NEW t \in Turns, Accept(t) \/ WaitForWindow(t) \/ DbFailure(t)
      PROVE  [Contract!CNext]_seen /\ ContractInv'
  BY <1>2, AcceptIsAccept, UnsettledStep, ErrorIsError DEF Contract!CNext
<1>3. CASE \/ Crash \/ Restart \/ RequestRecovery \/ RecoveryFailure
           \/ StartChannels \/ \E t \in Turns : Recover(t)
  BY <1>3, RecoveryIsSettle DEF Contract!CNext
<1>4. CASE UNCHANGED vars
  BY <1>4 DEF vars, row, timeline, task, process, tally, seen,
              ContractInv, Kept, AtStartup
<1>5. QED
  BY <1>1, <1>2, <1>3, <1>4 DEF Next

\* The contract starts where the program does.
LEMMA InitContract == Init => ContractInv /\ Contract!CInit
BY DEF Init, ContractInv, Kept, AtStartup, Unsettled, Contract!CInit, Contract!NoRows,
       NoRows, Contract!Nothing, Contract!Outcome, Nothing, Outcome

\* A turn settles once, stays as it settled, and its channel is handed only
\* what its row and the outbound table say.
THEOREM TurnImplementsContract == Separate => (Spec => ImplementsContract)
<1> SUFFICES ASSUME Separate PROVE Spec => ImplementsContract
  OBVIOUS
<1>1. TurnInv /\ ContractInv /\ [Next]_vars => ContractInv' /\ [Contract!CNext]_seen
  BY ContractStep
<1>2. QED
  BY <1>1, InitContract, TurnInvariant, PTL
     DEF Spec, ImplementsContract, Contract!CSpec, seen

\* No step of a handler or of the upkeep touches what recovery is doing.
LEMMA WorkKeepsMarking ==
    ASSUME NEW t \in Turns, Work(t)
    PROVE  UNCHANGED marking
<1> USE DEF process
<1>1. CASE \/ AssembleContext(t) \/ SendRequest(t) \/ RecordTrace(t) \/ LogCall(t)
           \/ RunTools(t) \/ ToolFailure(t) \/ RecordMessage(t) \/ EndBatch(t)
  BY <1>1 DEF AssembleContext, SendRequest, RecordTrace, LogCall, RunTools,
              ToolFailure, RecordMessage, EndBatch
<1>2. CASE \E said \in 0..1, ask, final \in Said : ToolResult(t, said, ask, final)
  BY <1>2 DEF ToolResult
<1>3. CASE Exchange(t)
  BY <1>3 DEF Exchange, AnswerText, AnswerBad, AnswerBlank, AnswerTools, Answered,
              AnswerLimited, TraceLimited, AskAgain, AnswerError, TraceError, TellOther
<1>4. CASE \/ Settle(t) \/ PublishReply(t) \/ HandOver(t) \/ Fail(t) \/ LogError(t)
           \/ SkipDistillation(t) \/ StartDistillation(t) \/ TraceDistillation(t)
  BY <1>4 DEF Settle, PublishReply, HandOver, Fail, LogError, SkipDistillation,
              StartDistillation, TraceDistillation
<1>5. QED
  BY <1>1, <1>2, <1>3, <1>4 DEF Work

\* Recovery touches only turns whose task a crash, or a failed write, has cut.
THEOREM RecoveryIsForTheAbandoned == Separate => (Spec => OnlyAbandonedRecovered)
<1> SUFFICES ASSUME Separate PROVE Spec => OnlyAbandonedRecovered
  OBVIOUS
<1> DEFINE Abandoned == \A t \in Turns : marking' = t /\ marking # t
                            => pc[t] = "cut" /\ status[t] = "running"
<1>1. TurnInv /\ ContractInv /\ [Next]_vars => [Abandoned]_vars
  <2> SUFFICES ASSUME TurnInv, ContractInv, [Next]_vars,
                      NEW t \in Turns, marking' = t, marking # t
               PROVE  pc[t] = "cut" /\ status[t] = "running"
    OBVIOUS
  <2>1. marking' = marking \/ marking' = NoTurn \/ marking' \in listed
    <3> USE DEF process
    <3>1. ASSUME NEW u \in Turns, Work(u) PROVE UNCHANGED marking
      BY <3>1, WorkKeepsMarking
    <3>2. ASSUME NEW u \in Turns, Accept(u) \/ WaitForWindow(u) \/ DbFailure(u)
          PROVE  UNCHANGED marking
      BY <3>2 DEF Accept, WaitForWindow, DbFailure
    <3>3. ASSUME NEW u \in Turns, RecoverTurn(u) PROVE marking' \in listed
      BY <3>3 DEF RecoverTurn
    <3>4. ASSUME NEW u \in Turns, LogRecovered(u) PROVE marking' = NoTurn
      BY <3>4 DEF LogRecovered
    <3>5. CASE Restart \/ RequestRecovery \/ StartChannels
      BY <3>5 DEF Restart, RequestRecovery, StartChannels
    <3>6. CASE Crash \/ RecoveryFailure
      BY <3>6 DEF Crash, RecoveryFailure
    <3>7. CASE UNCHANGED vars
      BY <3>7 DEF vars
    <3>8. QED
      BY <3>1, <3>2, <3>3, <3>4, <3>5, <3>6, <3>7 DEF Next, Recover
  <2>2. t \in listed
    BY <2>1, TurnAssumption
  <2>3. QED
    BY <2>2 DEF TurnInv, TypeOK, ContractInv, AtStartup, Roles, Ended
<1>2. TurnInv /\ ContractInv /\ [Next]_vars => ContractInv'
  BY ContractStep
<1>3. QED
  BY <1>1, <1>2, InitContract, TurnInvariant, PTL DEF Spec, OnlyAbandonedRecovered

=============================================================================
