---------------------------- MODULE StreamDecode ----------------------------
(***************************************************************************)
(* How an engine reads the provider's answer to one request, and what the  *)
(* accumulator makes of it (model/openai_chatcompletions,                  *)
(* model/openai_responses, model/accumulator.rs, model/reasoning.rs).      *)
(*                                                                         *)
(*   - chat completions: pieces of text and of calls, then the reason of   *)
(*     the end, the usage and [DONE];                                      *)
(*   - responses: each item several times, in pieces, done, and once more  *)
(*     in the completed response;                                          *)
(*   - either of them in one JSON body.                                    *)
(*                                                                         *)
(* A text is a sequence of words and tags.  The arguments of a call are a  *)
(* sequence of "{" (an object and its key), "}" and a value; they parse    *)
(* when they are balanced around one value.  "e'" is a character of        *)
(* several bytes: a chunk that ends within it makes it "?".  A chunk holds *)
(* a frame or the first part of one: the loop does the same with more.     *)
(***************************************************************************)
EXTENDS Lists, SequencesExt, FiniteSets

CONSTANT
    Meant           \* what the provider means to say: messages and calls

\* "?" is what is left of a character, so it is not meant.
ASSUME StreamAssumption ==
    \A m \in Meant : LET Sayings == Seq(STRING \ {"?"}) IN
        /\ m.messages \in Seq(Sayings)
        /\ m.calls \in Seq([name : Sayings, frags : Seq(Sayings)])

VARIABLES
    api,        \* "chat" or "responses", streamed or not, and how calls are labelled
    meant,      \* what the provider means to say
    stage,      \* "asked", "reading", "ended"
    wire,       \* frames on their way
    part,       \* how much of the first one is in the buffer
    acc,        \* the accumulator
    ending,     \* saw_terminal_event
    refused,    \* errors the frames carried
    harm,       \* history: what went wrong
    result

sdVars == <<api, meant, stage, wire, part, acc, ending, refused, harm, result>>

NoId == <<"none", 0>>
\* An error has a code, and a message that may speak of a limit.  It is told
\* when the decoders find the message, a string at error.message: it may be
\* beside a type "error" instead, and {"error": "text"} has none.
NoError == [code |-> "none", says |-> FALSE, told |-> FALSE]
Errors == [code : {"none", "limit", "quota"}, says : BOOLEAN, told : BOOLEAN]

-----------------------------------------------------------------------------
(* The frames the provider sends.                                           *)

Blank == [type |-> "usage", no |-> 0, index |-> FALSE, id |-> NoId, name |-> <<>>,
          text |-> <<>>, error |-> NoError]
Text(x) == [Blank EXCEPT !.type = "text", !.text = <<x>>]
Whole(type, text) == [Blank EXCEPT !.type = type, !.text = text]
Whisper(type) == [Blank EXCEPT !.type = type]
ErrorFrame(e) == [Blank EXCEPT !.type = "error", !.error = e]

OfCall(type, i, id, name, text) ==
    [Blank EXCEPT !.type = type, !.no = i, !.index = api.index,
                  !.id = IF id THEN <<"call", i>> ELSE NoId, !.name = name, !.text = text]
Arguments(i) == FlattenSeq(meant.calls[i].frags)

Deltas(m) == [k \in DOMAIN m |-> Text(m[k])]

ChatCall(i) ==
    <<OfCall("call", i, TRUE, meant.calls[i].name, <<>>)>> \o
    [k \in DOMAIN meant.calls[i].frags |->
        OfCall("call", i, api.every, IF api.every THEN meant.calls[i].name ELSE <<>>,
               meant.calls[i].frags[k])]

ResponsesMessage(m) == Deltas(m) \o <<Whole("text_done", m), Whole("message", m)>>
ResponsesCall(i) ==
    <<OfCall("item", i, TRUE, meant.calls[i].name, <<>>)>> \o
    [k \in DOMAIN meant.calls[i].frags |->
        OfCall("delta", i, api.every, <<>>, meant.calls[i].frags[k])] \o
    <<OfCall("done", i, api.every, <<>>, Arguments(i)),
      OfCall("item", i, TRUE, meant.calls[i].name, Arguments(i))>>

AllCalls(frames(_)) == FlattenSeq([i \in DOMAIN meant.calls |-> frames(i)])
AllMessages(frames(_)) == FlattenSeq([i \in DOMAIN meant.messages |-> frames(meant.messages[i])])

Stream ==
    IF ~api.stream THEN <<Whisper("body")>>
    ELSE IF api.kind = "chat"
    THEN AllMessages(Deltas) \o AllCalls(ChatCall)
         \o <<Whisper("finish"), Whisper("usage"), Whisper("[DONE]")>>
    ELSE AllMessages(ResponsesMessage) \o AllCalls(ResponsesCall) \o <<Whisper("completed")>>

-----------------------------------------------------------------------------
(* ExchangeAccumulator.                                                     *)

Fresh == [text |-> <<>>, order |-> <<>>, alias |-> <<>>, calls |-> <<>>,
          errors |-> 0, usage |-> FALSE]

\* merge_tool_call_text: a text that repeats what is there replaces it.
MutMerge(current, incoming) == current \o incoming

Merge(current, incoming) ==
    IF IsPrefix(current, incoming) THEN incoming ELSE current \o incoming

\* tool_aliases and tool_calls are lists of pairs here.
Alias(a, key) ==
    IF \E i \in DOMAIN a.alias : a.alias[i][1] = key
    THEN a.alias[CHOOSE i \in DOMAIN a.alias : a.alias[i][1] = key][2] ELSE key
Place(a, key) ==
    IF \E i \in DOMAIN a.order : a.order[i] = key
    THEN CHOOSE i \in DOMAIN a.order : a.order[i] = key ELSE 0

\* ensure_tool_call: a new key with the id of a call becomes its alias.
Ensure(a, key, id) ==
    LET k == Alias(a, key)
        same == {i \in DOMAIN a.calls : id # NoId /\ a.calls[i].id = id}
        b == IF Place(a, k) = 0 /\ same # {}
             THEN [a EXCEPT !.alias = Append(@, <<k, a.order[CHOOSE i \in same : TRUE]>>)] ELSE a
        p == Place(b, Alias(b, k))
    IN  IF p = 0
        THEN [b EXCEPT !.order = Append(@, k),
                       !.calls = Append(@, [id |-> id, name |-> <<>>, args |-> <<>>])]
        ELSE IF id = NoId THEN b ELSE [b EXCEPT !.calls[p].id = id]

\* The events Started, NameDelta and ArgumentsDelta of one call.
Tell(a, key, id, name, args) ==
    LET b == Ensure(a, key, id)
        p == Place(b, Alias(b, key))
    IN  [b EXCEPT !.calls[p].name = Merge(@, name), !.calls[p].args = Merge(@, args)]

\* The arguments parse; none at all are taken for {}.
Parses(args) ==
    \/ args = <<>>
    \/ LET n == Len(args) \div 2 IN
       /\ Len(args) = 2 * n + 1 /\ n > 0
       /\ \A i \in 1..n : args[i] = "{" /\ args[n + 1 + i] = "}"
       /\ args[n + 1] \in {"1", "e'", "?"}

Named(a) == Picked(a.calls, {i \in DOMAIN a.calls : a.calls[i].name # <<>>})
Faulty(a) ==
    \/ a.errors > 0 \/ Len(Named(a)) < Len(a.calls)
    \/ \E i \in DOMAIN Named(a) : ~Parses(Named(a)[i].args)

-----------------------------------------------------------------------------
(* split_inline_reasoning: where the words between tags go.  A closing tag  *)
(* that closes nothing moves the cursor and drops what is before it.        *)

Tags == {"<t>", "</t>"}
Unsorted == [open |-> FALSE, shown |-> <<>>, held |-> <<>>, hidden |-> <<>>]

\* One word or tag further.
Past(s, x) ==
    IF x = "<t>" /\ ~s.open THEN [s EXCEPT !.open = TRUE, !.shown = @ \o s.held, !.held = <<>>]
    ELSE IF x = "</t>" THEN [s EXCEPT !.open = FALSE, !.held = <<>>]
    ELSE IF x = "<t>" THEN s
    ELSE IF s.open THEN [s EXCEPT !.hidden = Append(@, x)] ELSE [s EXCEPT !.held = Append(@, x)]

Split(text) ==
    LET walk[i \in 0..Len(text)] == IF i = 0 THEN Unsorted ELSE Past(walk[i - 1], text[i])
        last == walk[Len(text)]
    IN  IF last.hidden = <<>> THEN text ELSE last.shown \o last.held

-----------------------------------------------------------------------------
(* The decoders: one frame pushed into the accumulator.                     *)

Said(a, text) == [a EXCEPT !.text = @ \o text]
Snapshot(a, text) == [a EXCEPT !.text = text]

\* The key of a call: its index, else its id, else "0" (chat) or the item.
ChatKey(f) == IF f.index THEN <<"index", f.no>> ELSE IF f.id # NoId THEN f.id ELSE <<"index", 0>>
StreamKey(f) == IF f.index THEN <<"index", f.no>> ELSE IF f.id # NoId THEN f.id ELSE <<"item", f.no>>

AppendCalls(a) ==
    LET with[i \in 0..Len(meant.calls)] ==
            IF i = 0 THEN a
            ELSE Tell(with[i - 1], <<"call", i>>, <<"call", i>>, meant.calls[i].name, Arguments(i))
    IN  with[Len(meant.calls)]

\* The output of a response: one snapshot after the other, then its calls.
Output(a) ==
    AppendCalls(IF meant.messages = <<>> THEN a ELSE Snapshot(a, Last(meant.messages)))

DecodeChat(a, f) ==
    CASE f.type = "text" -> Said(a, f.text)
      [] f.type = "call" -> Tell(a, ChatKey(f), f.id, f.name, f.text)
      [] f.type = "usage" -> [a EXCEPT !.usage = TRUE]
      [] f.type = "error" /\ f.error.told /\ api.stream -> [a EXCEPT !.errors = @ + 1]
      [] f.type = "body" -> [AppendCalls(Snapshot(a, FlattenSeq(meant.messages)))
                                EXCEPT !.usage = TRUE]
      [] OTHER -> a

DecodeResponses(a, f) ==
    CASE f.type = "text" -> Said(a, f.text)
      [] f.type \in {"text_done", "message"} -> Snapshot(a, f.text)
      [] f.type \in {"item", "delta", "done"} -> Tell(a, StreamKey(f), f.id, f.name, f.text)
      [] f.type = "error" /\ f.error.told -> [a EXCEPT !.errors = @ + 1]
      [] f.type \in {"body", "completed"} -> [Output(a) EXCEPT !.usage = TRUE]
      [] OTHER -> a                          \* response.failed among them

Decode(a, f) == IF api.kind = "chat" THEN DecodeChat(a, f) ELSE DecodeResponses(a, f)

-----------------------------------------------------------------------------
(* rate_limit_message and what the engine returns.                          *)

IsLimit(status, e) ==
    /\ e.code # "quota"
    /\ status = 429 \/ e.code = "limit" \/ e.says

Ends(kind, a) ==
    /\ stage' = "ended"
    /\ result' = [kind |-> kind, text |-> Split(a.text), calls |-> Named(a), usage |-> a.usage]

\* After the stream: a limit among its frames, or in the summary of its errors.
Built(a) ==
    IF \E e \in refused : IsLimit(200, e) \/ (api.stream /\ e.told /\ e.says) THEN "rate_limited"
    ELSE IF Faulty(a) THEN "parse_error" ELSE "answer"

SdInit ==
    /\ api \in [kind : {"chat", "responses"}, stream : BOOLEAN, index : BOOLEAN, every : BOOLEAN]
    /\ meant \in Meant
    /\ stage = "asked" /\ wire = <<>> /\ part = "none" /\ acc = Fresh
    /\ ending = FALSE /\ refused = {} /\ harm = {}
    /\ result = [kind |-> "none", text |-> <<>>, calls |-> <<>>, usage |-> FALSE]

\* send(), and a status other than 200.
Refuse ==
    /\ stage = "asked"
    /\ \/ harm' = {"broken"} /\ Ends("transport", Fresh)
       \/ \E status \in {429, 500}, e \in Errors :
             /\ harm' = {"refused"}
             /\ Ends(IF IsLimit(status, e) THEN "rate_limited" ELSE "http", Fresh)
    /\ UNCHANGED <<api, meant, wire, part, acc, ending, refused>>

Respond ==
    /\ stage = "asked" /\ stage' = "reading"
    /\ wire' = Stream
    /\ UNCHANGED <<api, meant, part, acc, ending, refused, harm, result>>

\* What may become of the stream on its way: an error or a failed response in
\* place of the rest, a frame that is not JSON, an early end, a break.
Harm(kind, frames) ==
    /\ stage = "reading" /\ wire # <<>> /\ harm \subseteq {"garbled"}  \* bound: one
    /\ harm' = harm \cup {kind} /\ wire' = frames /\ part' = "none"
    /\ UNCHANGED <<api, meant, stage, acc, ending, refused, result>>

Disturb ==
    \/ \E e \in Errors : Harm("error", <<ErrorFrame(e)>>)
    \/ api.stream /\ Harm("failed", <<Whisper("failed")>>)
    \/ Harm("garbage", <<Whisper("garbage")>>)
    \/ api.stream /\ Harm("closed", <<>>)
    \/ Harm("broken", <<Whisper("break")>>)

\* A chunk that ends within the first frame, or within a character of it.
ReadPart ==
    /\ stage = "reading" /\ api.stream /\ wire # <<>> /\ part = "none"
    /\ \/ part' = "clean" /\ UNCHANGED harm
       \/ /\ \E k \in DOMAIN Head(wire).text : Head(wire).text[k] = "e'"
          /\ part' = "garbled" /\ harm' = harm \cup {"garbled"}
    /\ UNCHANGED <<api, meant, stage, wire, acc, ending, refused, result>>

Garble(f) == [f EXCEPT !.text = [k \in DOMAIN @ |-> IF @[k] = "e'" THEN "?" ELSE @[k]]]

ReadFrame ==
    /\ stage = "reading" /\ wire # <<>> /\ Head(wire).type \notin {"garbage", "break"}
    /\ LET f == IF part = "garbled" THEN Garble(Head(wire)) ELSE Head(wire) IN
       /\ acc' = Decode(acc, f)
       /\ ending' = \/ ending \/ f.type \in {"finish", "completed"}
                    \/ f.type = "error" /\ f.error.told
       /\ refused' = IF f.type = "error" THEN refused \cup {f.error} ELSE refused
    /\ wire' = Tail(wire) /\ part' = "none"
    /\ UNCHANGED <<api, meant, stage, harm, result>>

MutReadFails ==                              \* the error ends the loop
    /\ stage = "reading" /\ wire # <<>> /\ Head(wire).type \in {"garbage", "break"}
    /\ Ends(Built(acc), acc)
    /\ UNCHANGED <<api, meant, wire, part, acc, ending, refused, harm>>

\* The chunk is an error (the request's own timeout too), or not JSON: what
\* was read goes into the trace, also when the end had been seen.
ReadFails ==
    /\ stage = "reading" /\ wire # <<>> /\ Head(wire).type \in {"garbage", "break"}
    /\ Ends("transport", acc)
    /\ UNCHANGED <<api, meant, wire, part, acc, ending, refused, harm>>

\* The stream is over, or TERMINAL_FRAME_GRACE passes once its end was seen.

Stop ==
    /\ stage = "reading"
    /\ \/ wire = <<>> /\ UNCHANGED harm
       \/ ending /\ wire # <<>> /\ harm' = harm \cup {"late"}
    /\ Ends(Built(acc), acc)
    /\ UNCHANGED <<api, meant, wire, part, acc, ending, refused>>

Ended == stage = "ended" /\ UNCHANGED sdVars

SdNext ==
    \/ Refuse \/ Respond \/ Disturb
    \/ ReadPart \/ ReadFrame \/ ReadFails \/ Stop \/ Ended

SdSpec == SdInit /\ [][SdNext]_sdVars

-----------------------------------------------------------------------------
(* Properties.                                                              *)

Clear(text) == [k \in DOMAIN text |-> IF text[k] = "?" THEN "e'" ELSE text[k]]
Answered == result.kind = "answer"
Messages == meant.messages

\* Types; a key is in the order once and an alias leads to such a key.
SdTypeOK ==
    /\ stage \in {"asked", "reading", "ended"}
    /\ part \in {"none", "clean", "garbled"} /\ (part # "none" => wire # <<>>)
    /\ Len(acc.order) = Len(acc.calls) /\ IsInjective(acc.order)
    /\ \A i \in DOMAIN acc.alias : Place(acc, acc.alias[i][2]) > 0
    /\ result.kind \in {"none", "answer", "parse_error", "transport", "http", "rate_limited"}

\* A piece of a call's arguments begins with all that came before it, and is
\* taken for a repetition: arguments that were malformed may come to parse.
Repeats(i) ==
    LET frags == meant.calls[i].frags IN
    \E k \in 2..Len(frags) : IsPrefix(FlattenSeq(SubSeq(frags, 1, k - 1)), frags[k])
Mended(i) == Repeats(i) /\ ~Parses(Arguments(i))

\* An answer whose end was seen says what the provider meant: every call once,
\* in order, with its name and arguments, and the text once (of several
\* messages of a response, the last), whatever shapes repeated them; only the
\* usage may come too late.
CompleteAnswers ==
    Answered /\ harm \subseteq {"late"} =>
        /\ Len(result.calls) = Len(meant.calls)
        /\ \A i \in DOMAIN result.calls : LET c == result.calls[i] IN
              /\ c.id = <<"call", i>> /\ c.name = meant.calls[i].name
              /\ c.args = Arguments(i) \/ Mended(i)
        /\ acc.text = IF api.kind = "chat" \/ Messages = <<>> THEN FlattenSeq(Messages)
                      ELSE Last(Messages)
        /\ harm = {} => result.usage

\* The calls of any answer are the provider's first, with its arguments.  Only
\* a character cut by a chunk changes a value, and only a stream that ended too
\* early, or in an error that is not told, changes more of what was well-formed:
\* a call is left without arguments, or one whose piece was taken for a
\* repetition lacks just what would have made it malformed.
CallsRunAsSent ==
    Answered =>
        /\ Len(result.calls) <= Len(meant.calls)
        /\ \A i \in DOMAIN result.calls : LET c == result.calls[i] IN
              /\ c.name = meant.calls[i].name
              /\ \/ Clear(c.args) = Arguments(i) \/ Mended(i)
                 \/ /\ harm \cap {"closed", "failed", "error"} # {}
                    /\ c.args = <<>> \/ Repeats(i) \/ ~Parses(Arguments(i))

\* The text of any answer is the beginning of what was sent, of a response the
\* message that was under way after the one before it.
TextFollowsSent ==
    Answered =>
        IF api.kind = "chat" THEN IsPrefix(Clear(acc.text), FlattenSeq(Messages))
        ELSE \E i \in 0..Len(Messages) :
                LET sent == (IF i = 0 THEN <<>> ELSE Messages[i])
                            \o (IF i = Len(Messages) THEN <<>> ELSE Messages[i + 1])
                IN  /\ IsPrefix(Clear(acc.text), sent)
                    /\ i > 0 => Len(acc.text) >= Len(Messages[i])

\* A stream that broke, carried an error that is told or something that is not
\* JSON is never taken for an answer, unless it came too late.  What ended early
\* or failed as a response is, and so is an error that is not told and speaks of
\* no limit, or an error in the JSON of a chat completion.
OnlyEndsPassForAnswers ==
    Answered => \/ "late" \in harm \/ harm \subseteq {"closed", "failed", "garbled"}
                \/ api.kind = "chat" /\ ~api.stream /\ acc = Fresh
                \/ \E e \in refused : ~e.told /\ ~IsLimit(200, e)

\* A rate limit the provider announced, by its code, comes out as one however
\* much of an answer preceded it, unless the transport failed.
LimitsAreReported ==
    stage = "ended" /\ (\E e \in refused : e.code = "limit") =>
        result.kind \in {"rate_limited", "transport"}

\* No word after an opening tag is shown before its closing tag, and every
\* other word is, in order, but those before a stray closing tag.
LastTag(text, i) ==
    LET before == {j \in 1..(i - 1) : text[j] \in Tags} IN
    IF before = {} THEN "</t>" ELSE text[CHOOSE j \in before : \A k \in before : k <= j]
Stray(text, i) == text[i] = "</t>" /\ LastTag(text, i) = "</t>"
ReasoningStaysHidden ==
    stage = "ended" =>
        LET t == acc.text
            hidden == {i \in DOMAIN t : t[i] \notin Tags /\ LastTag(t, i) = "<t>"}
            shown == {i \in DOMAIN t : t[i] \notin Tags /\ i \notin hidden}
            dropped == {i \in shown : \E j \in DOMAIN t :
                            j > i /\ Stray(t, j) /\ \A k \in i..(j - 1) : t[k] \notin Tags}
        IN  hidden # {} => result.text = Picked(t, shown \ dropped)

\* An answer says what the provider said, whole if its end was seen and a
\* beginning of it otherwise, without the reasoning.
AnswersAsSent == CompleteAnswers /\ CallsRunAsSent /\ TextFollowsSent /\ ReasoningStaysHidden

\* What went wrong on the way comes out as what it was.
EndsAsReported == OnlyEndsPassForAnswers /\ LimitsAreReported
=============================================================================
