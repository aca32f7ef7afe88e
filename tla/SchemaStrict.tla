---------------------------- MODULE SchemaStrict ----------------------------
(***************************************************************************)
(* Strict schemas (model/schema_strict.rs): what becomes of the parameters *)
(* a tool declares before a provider sees them, and what that does to the  *)
(* calls a model may make.                                                 *)
(*                                                                         *)
(* A schema is a tree: from the paths that lead somewhere in it, by names  *)
(* of properties or into the items of a list, to what it says there.  That *)
(* is a record: the kinds of its "type", whether an enum narrows them to   *)
(* strings, whether it is a $ref (to a string, here), the entries of its   *)
(* anyOf, whether it has "properties", and which of them are required.  An *)
(* entry is such a record, without properties of its own.  oneOf, allOf,   *)
(* not, if and $defs are left out: the code goes through them, but neither *)
(* makes them nullable nor validates them, and no tool here declares any.  *)
(* The recursion of the code makes one visit to each place of the tree,    *)
(* and what it does there depends on the place and on the one above.       *)
(*                                                                         *)
(* A value is a tree too: from paths to kinds, where a list has at most    *)
(* one value.                                                              *)
(***************************************************************************)
EXTENDS Integers, SequencesExt

CONSTANTS
    Declared,     \* the schemas tools declare
    Values        \* the calls to try

VARIABLES given, strict, call, phase

ssVars == <<given, strict, call, phase>>

-----------------------------------------------------------------------------
(* Trees.                                                                   *)

\* The step from a list to what is in it; the other steps are names.
Item == "[]"

Steps(tree, p) == {Last(q) : q \in {q \in DOMAIN tree : q # <<>> /\ Front(q) = p}}
Props(schema, p) == Steps(schema, p) \ {Item}

IsTree(tree) ==
    /\ DOMAIN tree \subseteq Seq(STRING) /\ <<>> \in DOMAIN tree
    /\ \A q \in DOMAIN tree : q # <<>> => Front(q) \in DOMAIN tree

JsonTypes == {"null", "string", "list", "object", "other"}

SchemaOf(type) ==
    [type |-> type, enum |-> FALSE, ref |-> FALSE, anyOf |-> {},
     hasProps |-> FALSE, required |-> {}, closed |-> FALSE]

IncludesObject(schema) == "object" \in schema.type
IsObject(schema) == IncludesObject(schema) \/ schema.hasProps

PlacesOf(entries) ==
    [type : SUBSET JsonTypes, enum : BOOLEAN, ref : BOOLEAN, anyOf : entries,
     hasProps : BOOLEAN, required : SUBSET STRING, closed : BOOLEAN]
Entries == PlacesOf({{}})

\* The schema of an object: what has properties may be one, only what is
\* there is required, and each property says what it is.
IsSchema(schema) ==
    /\ IsTree(schema) /\ IsObject(schema[<<>>])
    /\ \A p \in DOMAIN schema : LET place == schema[p] IN
          /\ place \in PlacesOf(SUBSET Entries)
          /\ place.required \subseteq Props(schema, p)
          /\ Props(schema, p) # {} => place.hasProps
          /\ \A s \in {place} \cup place.anyOf :
                s.hasProps /\ s.type # {} => IncludesObject(s)
          /\ \A entry \in place.anyOf : entry.required = {}
          /\ \/ p = <<>> \/ Last(p) = Item
             \/ place.type # {} \/ place.anyOf # {} \/ place.ref \/ place.hasProps

\* What is in a list or an object is a part of one.
IsValue(value) ==
    /\ IsTree(value)
    /\ \A q \in DOMAIN value \ {<<>>} :
          value[Front(q)] = IF Last(q) = Item THEN "list" ELSE "object"

ASSUME SchemaAssumption ==
    /\ \A schema \in Declared : IsSchema(schema)
    /\ \A value \in Values : IsValue(value)

-----------------------------------------------------------------------------
(* What the code makes of a schema.                                         *)

\* make_schema_nullable: by the type if there is one, by anyOf otherwise; an
\* enum stays as it is, and so does a $ref.
MakeNullable(schema) ==
    IF schema.type # {} THEN [schema EXCEPT !.type = @ \cup {"null"}]
    ELSE IF schema.anyOf # {} /\ \A entry \in schema.anyOf : entry.type # {"null"}
    THEN [schema EXCEPT !.anyOf = @ \cup {SchemaOf({"null"})}]
    ELSE schema

MutOptional(schema, p) == Props(schema, p)   \* required ones become nullable too

\* The properties that are to become nullable.
Optional(schema, p) == Props(schema, p) \ schema[p].required

NowRequired(schema, p) == Props(schema, p)

\* An object, by its type or because it has properties.
MakeStrict(schema, required) ==
    IF ~IsObject(schema) THEN schema
    ELSE [schema EXCEPT !.type = IF @ = {} THEN {"object"} ELSE @, !.closed = TRUE,
                        !.hasProps = TRUE, !.required = required]

\* normalize_schema_recursive: what is inside first, then the object itself.
Normalize(schema) ==
    [p \in DOMAIN schema |->
        LET inner == [schema[p] EXCEPT !.anyOf = {MakeStrict(entry, {}) : entry \in @}]
            made == MakeStrict(inner, NowRequired(schema, p))
        IN  IF p # <<>> /\ Last(p) \in Optional(schema, Front(p)) THEN MakeNullable(made) ELSE made]

\* validate_object_schema looks inside at the properties that are objects and
\* at the items of a property that are.
Validated(schema) ==
    {p \in DOMAIN schema : \A i \in 1..Len(p) : LET place == schema[SubSeq(p, 1, i)] IN
        IF p[i] = Item THEN i > 1 /\ p[i - 1] # Item /\ IncludesObject(place)
        ELSE \/ i < Len(p) /\ p[i + 1] = Item
             \/ (IF place.type # {} THEN IncludesObject(place) ELSE place.hasProps) /\ ~place.ref}

\* No errors.
ValidStrict(schema) ==
    \A p \in Validated(schema) :
        /\ IncludesObject(schema[p]) /\ schema[p].hasProps /\ schema[p].closed
        /\ Props(schema, p) \subseteq schema[p].required
        /\ \A key \in Props(schema, p) : LET property == schema[Append(p, key)] IN
              property.type # {} \/ property.anyOf # {} \/ property.ref

-----------------------------------------------------------------------------
(* What a schema admits (JSON Schema, as far as it is used), and how a call *)
(* and its strict form correspond: a null stands for what is left out.      *)

Fits(schema, props, value, q) ==
    /\ schema.type # {} => value[q] \in schema.type
    /\ schema.enum \/ schema.ref => value[q] = "string"
    /\ value[q] = "object" =>
          /\ schema.required \subseteq Steps(value, q)
          /\ schema.closed => Steps(value, q) \subseteq props

Admits(schema, value) ==
    \A q \in DOMAIN schema \cap DOMAIN value :
        /\ Fits(schema[q], Props(schema, q), value, q)
        /\ schema[q].anyOf # {} => \E entry \in schema[q].anyOf : Fits(entry, {}, value, q)

Null == [q \in {<<>>} |-> "null"]

\* Where a value may have nothing.
MayMiss(schema) ==
    {q \in DOMAIN schema : q # <<>> /\ Last(q) # Item /\ Last(q) \notin schema[Front(q)].required}

\* A value with the nulls left out that stand for optional properties, and
\* with a null for each optional property that is left out.
WithoutNulls(schema, value) ==
    [q \in {q \in DOMAIN value : q \notin MayMiss(schema) \/ value[q] # "null"} |-> value[q]]
WithNulls(schema, value) ==
    LET missed == {q \in MayMiss(schema) \ DOMAIN value :
                      Front(q) \in DOMAIN value /\ value[Front(q)] = "object"}
    IN  [q \in DOMAIN value \cup missed |-> IF q \in DOMAIN value THEN value[q] ELSE "null"]

-----------------------------------------------------------------------------
(* The way of a schema: declared, made strict for the provider, and called  *)
(* by a model that keeps to what it was sent.                               *)

SsInit ==
    /\ given \in Declared /\ strict = given
    /\ call = Null /\ phase = "declared"

\* normalize_tool_parameters_schema
Send ==
    /\ phase = "declared" /\ phase' = "sent"
    /\ strict' = Normalize(given)
    /\ UNCHANGED <<given, call>>

CallTool ==
    /\ phase = "sent" /\ phase' = "called"
    /\ \E value \in Values : Admits(strict, value) /\ call' = value
    /\ UNCHANGED <<given, strict>>

SsNext == Send \/ CallTool

SsSpec == SsInit /\ [][SsNext]_ssVars

-----------------------------------------------------------------------------
(* Properties.                                                              *)

\* What is sent passes the strict validation, however its objects nest, and
\* making it strict once more (as a schema that was sent already may be)
\* changes nothing.
SentIsStrict == phase # "declared" => ValidStrict(strict) /\ Normalize(strict) = strict

\* A call that keeps to the strict schema is, its nulls left out, a call of the
\* tool as it declared itself.
CallsStayCalls == phase = "called" => Admits(given, WithoutNulls(given, call))

\* A schema with its objects closed: only calls with the properties it declares.
Sealed(schema) ==
    [p \in DOMAIN schema |->
        [schema[p] EXCEPT !.closed = @ \/ IsObject(schema[p]),
                          !.anyOf = {[entry EXCEPT !.closed = @ \/ IsObject(entry)] : entry \in @}]]

Nullable(schema) ==
    /\ \A q \in MayMiss(schema) : ~schema[q].enum /\ ~schema[q].ref
    /\ \A p \in DOMAIN schema : LET place == schema[p] IN
          /\ place.type = {} \/ place.anyOf = {}
          /\ \A s \in {place} \cup place.anyOf : s.hasProps => IncludesObject(s)
          /\ \A entry \in place.anyOf : entry.type = {"null"} => ~entry.enum /\ ~entry.ref

\* Whatever could be called of the tool, among the properties it declares, can
\* still be called: with a null for each optional property that is left out.
\* Not so if its schema is an enum or a $ref, which "become nullable" in the
\* comment only, or has an anyOf beside a type, which alone becomes nullable,
\* nor if it is an object by its properties alone, which takes a type.
NothingTakenAway ==
    phase = "sent" /\ Nullable(given) =>
        \A wanted \in Values : Admits(Sealed(given), wanted) =>
            LET sent == WithNulls(given, wanted) IN
            /\ Admits(strict, sent)
            /\ WithoutNulls(given, sent) = WithoutNulls(given, wanted)

\* Making a schema strict costs nobody a call: what is sent is strict, every
\* call of it is one of the tool, and every call of the tool can be made.
CallsSurvive == SentIsStrict /\ CallsStayCalls /\ NothingTakenAway
=============================================================================
