----------------------------- MODULE MCProvider -----------------------------
(* The way to the provider and back: the gate that requests pass, the       *)
(* schemas they carry, and the answer that is read. They share nothing here, *)
(* so that one run checks all three: the first state says which one moves,  *)
(* and the two that come to an end stay there.                              *)
EXTENDS ProviderGate, StreamDecode, SchemaStrict

CONSTANTS c1, c2, c3

VARIABLE side

First(inputs, which) == IF side = which THEN inputs ELSE {CHOOSE x \in inputs : TRUE}
MCInit ==
    /\ side \in {"gate", "schema", "answer"}
    /\ Init
    /\ given \in First(Declared, "schema") /\ SsInit
    /\ meant \in First(Meant, "answer") /\ SdInit
    /\ side # "answer" => api = [kind |-> "chat", stream |-> TRUE, index |-> TRUE, every |-> FALSE]
MCEnded ==
    /\ (side = "schema" /\ ~ENABLED SsNext) \/ (side = "answer" /\ ~ENABLED SdNext)
    /\ UNCHANGED <<vars, ssVars, sdVars, side>>
MCNext ==
    \/ side = "gate" /\ Next /\ UNCHANGED <<ssVars, sdVars, side>>
    \/ side = "schema" /\ SsNext /\ UNCHANGED <<vars, sdVars, side>>
    \/ side = "answer" /\ SdNext /\ UNCHANGED <<vars, ssVars, side>>
    \/ MCEnded

\* The fairness of FairSpec: what is said of the gate's moves leaves nothing to
\* the others, whose properties need none.
MCSpec == MCInit /\ [][MCNext]_<<vars, ssVars, sdVars, side>> /\ Fairness

\* Types of the gate and of the decoders.
TypesOK == TypeOK /\ SdTypeOK

-----------------------------------------------------------------------------
(* The gate.                                                                *)

MCCallers == {c1, c2, c3}
MCOneDedicated == {c2}
MCRetryAfters == {0, 3}

-----------------------------------------------------------------------------
(* Providers.                                                               *)

Call(name, frags) == [name |-> <<name>>, frags |-> frags]

\* Two messages and two calls, one of nested arguments in pieces that repeat
\* the first, one of a value of several bytes; calls with one piece and none;
\* malformed arguments, mended by a repetition and not; and texts with reasoning,
\* an unclosed tag and a stray one.
MCMeant ==
    {[messages |-> <<<<"a", "e'">>, <<"b">>>>,
      calls |-> <<Call("f", <<<<"{">>, <<"{">>, <<"1", "}">>, <<"}">>>>),
                  Call("g", <<<<"{", "e'">>, <<"}">>>>)>>],
     [messages |-> <<>>, calls |-> <<Call("f", <<<<"{">>, <<"1", "}">>>>), Call("f", <<>>)>>],
     [messages |-> <<>>, calls |-> <<Call("f", <<<<"{">>, <<"{", "1", "}">>>>)>>],
     [messages |-> <<<<"a">>>>, calls |-> <<Call("f", <<<<"{", "e'">>, <<"{", "e'", "}">>>>)>>],
     [messages |-> <<<<"a", "<t>", "h", "</t>", "b">>>>, calls |-> <<>>],
     [messages |-> <<<<"a", "</t>", "b", "<t>", "<t>", "h">>>>, calls |-> <<>>]}

-----------------------------------------------------------------------------
(* Schemas of up to two properties, nested once, and calls.                *)

\* A tree, from what is at its root and the trees below.
Tree(root, below) ==
    LET paths == {<<>>} \cup UNION {{<<step>> \o q : q \in DOMAIN below[step]} : step \in DOMAIN below}
    IN  [q \in paths |-> IF q = <<>> THEN root ELSE below[Head(q)][Tail(q)]]
Leaf(root) == Tree(root, << >>)
ListOf(below) == Tree(SchemaOf({"list"}), [step \in {Item} |-> below])

Word == SchemaOf({"string"})
Object(type, required) == [SchemaOf(type) EXCEPT !.hasProps = TRUE, !.required = required]
Leaves ==
    {Leaf(Word), Leaf(SchemaOf({"string", "null"})), Leaf([Word EXCEPT !.enum = TRUE]),
     Leaf([SchemaOf({}) EXCEPT !.ref = TRUE]),
     Leaf([SchemaOf({}) EXCEPT !.anyOf = {Word, SchemaOf({"other"})}]),
     Leaf([SchemaOf({}) EXCEPT !.anyOf = {Word, SchemaOf({"object"})}])}

Inner ==
    {Tree(Object({"object"}, required), [x \in {"x"} |-> leaf]) :
        leaf \in Leaves, required \in {{}, {"x"}}}
    \cup {Tree(Object({}, {}), [x \in {"x"} |-> Leaf(Word)])}

PropertySchemas == Leaves \cup Inner \cup {ListOf(inner) : inner \in Inner}

MCDeclared ==
    {Tree(Object({"object"}, pair[1]), pair[2]) : pair \in
        UNION {(SUBSET {"a"}) \X [keys -> PropertySchemas] : keys \in {{"a"}, {"a", "b"}}}}

Atoms == {Leaf("null"), Leaf("string"), Leaf("other")}
Objects == {Tree("object", parts) : parts \in UNION {[keys -> Atoms] : keys \in {{}, {"x"}}}}
Passed == Atoms \cup Objects \cup {Tree("list", [item \in {Item} |-> object]) : object \in Objects}

MCValues ==
    {Tree("object", parts) : parts \in UNION {[keys -> Passed] : keys \in SUBSET {"a", "b"}}}
=============================================================================
