------------------------------- MODULE Registry -------------------------------
(***************************************************************************)
(* Method descriptors, the builder that collects them, what Build accepts, *)
(* and the answer of the reflection method.  A builder and a registry are  *)
(* records; a call of the builder is a function of the builder.            *)
(***************************************************************************)
EXTENDS Codec, Keys

CONSTANTS
    VoidID, ErrorID,    \* the ids of the system models every registry has
    MaxMethods,         \* the ceiling on methods
    SchemaJSON          \* the bytes reflection carries beside the methods

\* The answer of reflection counts the methods in a u32.
ASSUME RegistryConstants == MaxMethods \in U32 /\ SchemaJSON \in Bytes

\* Shapes and retry safeties, with the numbers reflection sends.
UNARY == 0
SERVERSTREAM == 1
CLIENTSTREAM == 2
BIDISTREAM == 3
UNSAFE == 0
IDEMPOTENT == 1
KEYED == 2

Method == [name : Text, shape : 0..3, request : U32, item : U32, hasItem : BOOLEAN,
           reply : U32, permission : STRING, safety : 0..2]
MethodOf(name, shape, request, item, hasItem, reply) ==
    [name |-> name, shape |-> shape, request |-> request, item |-> item, hasItem |-> hasItem,
     reply |-> reply, permission |-> "", safety |-> UNSAFE]
Unary(name, request, reply)              == MethodOf(name, UNARY, request, 0, FALSE, reply)
ServerStream(name, request, reply)       == MethodOf(name, SERVERSTREAM, request, 0, FALSE, reply)
ClientStream(name, request, item, reply) == MethodOf(name, CLIENTSTREAM, request, item, TRUE, reply)
BidiStream(name, request, item, reply)   == MethodOf(name, BIDISTREAM, request, item, TRUE, reply)

Requiring(method, permission) == [method EXCEPT !.permission = permission]
Idempotent(method)            == [method EXCEPT !.safety = IDEMPOTENT]
Keyed(method)                 == [method EXCEPT !.safety = KEYED]

CallerItemID(method) == IF method.hasItem THEN method.item ELSE method.request
MessageIDs(method) ==
    {method.request, method.reply} \cup (IF method.hasItem THEN {method.item} ELSE {})

-----------------------------------------------------------------------------
\* The builder.  An entry with a factory is served, one without is only
\* declared.
Entry == [method : Method, served : BOOLEAN]
Builder == [credit : SUBSET U32, entries : Seq(Entry), plain : SUBSET U32,
            reflection : SUBSET [request : U32, reply : U32]]
NewRegistry == [credit |-> {}, entries |-> <<>>, plain |-> {}, reflection |-> {}]

WithCredit(b, id)                   == [b EXCEPT !.credit = {id}]
WithReflection(b, request, reply)   == [b EXCEPT !.reflection = {[request |-> request, reply |-> reply]}]
Declare(b, method)                  == [b EXCEPT !.entries = Append(@, [method |-> method, served |-> FALSE])]
Serve(b, method)                    == [b EXCEPT !.entries = Append(@, [method |-> method, served |-> TRUE])]
PlainMessage(b, id)                 == [b EXCEPT !.plain = @ \cup {id}]

\* Reflection is one more method, served and idempotent.
ReflectName == <<82>>
ReflectMethod(reflection) == Idempotent(Unary(ReflectName, reflection.request, reflection.reply))
AllEntries(b) ==
    b.entries \o SetToSeq({[method |-> ReflectMethod(r), served |-> TRUE] : r \in b.reflection})

SystemIDs(b) == {VoidID, ErrorID} \cup b.credit

\* What Build checks, method by method.
Acceptable(b) ==
    LET all == AllEntries(b)
    IN /\ Len(all) <= MaxMethods
       /\ \A i, j \in DOMAIN all : all[i].method.request = all[j].method.request => i = j
       /\ \A i \in DOMAIN all : MessageIDs(all[i].method) \cap (b.plain \cup SystemIDs(b)) = {}

-----------------------------------------------------------------------------
\* The answer of reflection: the body writer on one side, the generated
\* decoder of FRpcReflectResponse on the other.
InfoFields == <<"string", "u32", "u32", "u32", "u32", "u32">>
Info(method) ==
    <<method.name, method.shape, method.request, CallerItemID(method), method.reply, method.safety>>

EncodeReflectResponse(methods) ==
    Word(Len(methods))
        \o FlattenSeq([i \in DOMAIN methods |-> EncodeModel(InfoFields, Info(methods[i]))])
        \o Put("bytes", SchemaJSON)

DecodeMethods(buf, count) ==
    LET upTo[i \in 0..count.value] ==
            IF i = 0 THEN [ok |-> count.ok, methods |-> <<>>, pos |-> count.pos]
            ELSE LET before == upTo[i - 1]
                     element == DecodeFrom(InfoFields, buf, before.pos)
                 IN IF ~before.ok THEN before
                    ELSE [ok |-> element.ok, methods |-> Append(before.methods, element.values),
                          pos |-> element.pos]
    IN upTo[count.value]
DecodeJSON(buf, elements) ==
    LET json == ReadField("bytes", buf, elements.pos)
    IN [ok |-> elements.ok /\ json.ok, methods |-> elements.methods, json |-> json.value]
DecodeReflectResponse(buf) == DecodeJSON(buf, DecodeMethods(buf, ReadField("u32", buf, 0)))

\* Mutant: the answer lists every method, served or not.
ServedMethods_All(b) == LET all == AllEntries(b) IN [i \in DOMAIN all |-> all[i].method]
ServedMethods(b) ==
    LET all == AllEntries(b)
        served == SortedKeys({i \in DOMAIN all : all[i].served})
    IN [k \in DOMAIN served |-> all[served[k]].method]

\* The registry Build returns for what it accepts.
Build(b) ==
    [credit |-> b.credit, entries |-> AllEntries(b), plain |-> b.plain,
     ids |-> SystemIDs(b) \cup UNION {MessageIDs(AllEntries(b)[i].method) : i \in DOMAIN AllEntries(b)},
     answer |-> IF b.reflection = {} THEN <<>> ELSE EncodeReflectResponse(ServedMethods(b))]

\* byRequest: the place of the entry a request type names; Build has made sure
\* that there is at most one.
EntryFor(registry, id) ==
    {registry.entries[i] : i \in {i \in DOMAIN registry.entries : registry.entries[i].method.request = id}}

RequireDeclaredIn(registry, declared) ==
    \A i \in DOMAIN registry.entries : MessageIDs(registry.entries[i].method) \subseteq declared
=============================================================================
