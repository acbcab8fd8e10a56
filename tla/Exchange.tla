------------------------------- MODULE Exchange -------------------------------
(***************************************************************************)
(* Two ends that were generated from two versions of a schema: the         *)
(* handshake decides whether they may talk; then one of them encodes a     *)
(* message, it travels as the body of an fRPC payload, perhaps cut short,  *)
(* and the other end decodes it, field after field, with its own version.  *)
(* A peer may also send bytes nobody encoded.                              *)
(***************************************************************************)
EXTENDS Wire, Handshake

CONSTANTS
    Schemas,        \* the versions an end may have been generated from
    Samples,        \* type -> two values that are sent
    Ctxs,           \* what a caller may set beside its request
    Foreign,        \* payloads nobody encoded
    MaxCtxLen       \* the ceiling on a ctx block

Carries(fields, values) ==
    values = [i \in DOMAIN fields |-> values[i]] /\ \A i \in DOMAIN fields : values[i] \in ValuesOf(fields[i])

\* The call id that is sent fits a word, and nobody sets a ctx over the ceiling.
ASSUME ExchangeConstants ==
    /\ 258 \in U32 /\ MaxCtxLen \in U32
    /\ \A version \in Schemas : /\ IsFiniteSet(DOMAIN version) /\ DOMAIN version \subseteq Nat
                                /\ \A id \in DOMAIN version : version[id] \in Seq(Types)
    /\ \A type \in Types, pick \in {1, 2} : Samples[type][pick] \in ValuesOf(type)
    /\ \A ctx \in Ctxs : Carries(CtxFields, ctx) /\ Len(EncodeCtx(ctx)) <= MaxCtxLen
    /\ Foreign \subseteq Seq(0..255)

Side == {"a", "b"}
Other(s) == IF s = "a" THEN "b" ELSE "a"

VARIABLES
    schema,     \* end -> its schema
    verdict,    \* end -> what it makes of the other's
    sent,       \* the message on its way: who, what, and its payload when whole
    payload,    \* what arrives of it
    reader      \* the decoder of the receiving end

vars == <<schema, verdict, sent, payload, reader>>

NoMessage == [by |-> "nobody", id |-> 0, values |-> <<>>, ctx |-> EmptyCtx, whole |-> <<>>]
NoReader  == [at |-> "idle", buf |-> <<>>, fields |-> <<>>, pos |-> 0, values |-> <<>>]

Init ==
    /\ schema \in [Side -> Schemas]
    /\ verdict = [s \in Side |-> "none"]
    /\ sent = NoMessage /\ payload = <<>> /\ reader = NoReader

-----------------------------------------------------------------------------
\* The handshake: the table, then, if it does not decide, the prefixes.
Compare(s) ==
    /\ verdict[s] = "none"
    /\ verdict' = [verdict EXCEPT ![s] = HandshakeCompare(schema[s], schema[Other(s)])]
    /\ UNCHANGED <<schema, sent, payload, reader>>
Settle(s) ==
    /\ verdict[s] = "needMore"
    /\ verdict' = [verdict EXCEPT ![s] =
                    IF AnswersAgree(schema[s], schema[Other(s)]) THEN "outdated" ELSE "reject"]
    /\ UNCHANGED <<schema, sent, payload, reader>>

Shared == DOMAIN schema["a"] \cap DOMAIN schema["b"]
Ready == \A s \in Side : verdict[s] \in {"current", "outdated"}

Whole(s, id, ctx, values) ==
    Encode([kind |-> Request, call |-> 258, compressed |-> FALSE, hasCtx |-> ~CtxIsEmpty(ctx)],
           EncodeCtx(ctx), EncodeModel(schema[s][id], values))

\* An end sends a message both declare as a REQUEST, with a ctx block if there
\* is anything in it; any number of bytes of its end may be lost.
Send(s) ==
    /\ Ready /\ sent = NoMessage
    /\ \E id \in Shared, ctx \in Ctxs : \E pick \in [DOMAIN schema[s][id] -> {1, 2}] :
        LET values == [i \in DOMAIN pick |-> Samples[schema[s][id][i]][pick[i]]]
            whole == Whole(s, id, ctx, values)
        IN \E kept \in 0..Len(whole) :
            /\ sent' = [by |-> s, id |-> id, values |-> values, ctx |-> ctx, whole |-> whole]
            /\ payload' = SubSeq(whole, 1, kept)
    /\ UNCHANGED <<schema, verdict, reader>>

\* A peer of the same version sends bytes nobody encoded.
SendForeign ==
    /\ Ready /\ sent = NoMessage /\ verdict["a"] = "current"
    /\ \E id \in Shared, bytes \in Foreign :
        /\ Shared = {id}
        /\ sent' = [NoMessage EXCEPT !.by = "a", !.id = id]
        /\ payload' = bytes
    /\ UNCHANGED <<schema, verdict, reader>>

\* The receiving end takes the payload apart and starts to decode its body.
Arrive ==
    /\ sent # NoMessage /\ reader = NoReader
    /\ LET parsed == Decode(payload, MaxCtxLen)
       IN reader' = IF parsed.error # "OK" THEN [NoReader EXCEPT !.at = "refused"]
                    ELSE [NoReader EXCEPT !.at = "reading", !.buf = parsed.body,
                                          !.fields = schema[Other(sent.by)][sent.id]]
    /\ UNCHANGED <<schema, verdict, sent, payload>>

ReadNext ==
    /\ reader.at = "reading" /\ Len(reader.values) < Len(reader.fields)
    /\ LET type == reader.fields[Len(reader.values) + 1]
           read == ReadField(type, reader.buf, reader.pos)
       IN reader' = [reader EXCEPT !.pos = read.pos,
                        !.at = IF read.ok THEN "reading" ELSE "failed",
                        !.values = IF read.ok THEN Append(@, read.value) ELSE @]
    /\ UNCHANGED <<schema, verdict, sent, payload>>
ReadDone ==
    /\ reader.at = "reading" /\ Len(reader.values) = Len(reader.fields)
    /\ reader' = [reader EXCEPT !.at = "done"]
    /\ UNCHANGED <<schema, verdict, sent, payload>>

Next ==
    \/ \E s \in Side : Compare(s) \/ Settle(s) \/ Send(s)
    \/ SendForeign
    \/ Arrive \/ ReadNext \/ ReadDone

Spec == Init /\ [][Next]_vars

-----------------------------------------------------------------------------
Conflict(id) ==
    LET m == schema["a"][id]
        n == schema["b"][id]
    IN ~IsPrefix(m, n) /\ ~IsPrefix(n, m)

(* The verdict is the prefix test of RFC-0002 9.1, whichever end asks: an   *)
(* end rejects exactly when some message both declare has a field list of   *)
(* which neither is a prefix of the other, so both ends agree on it, and    *)
(* current means the same schema.                                           *)
VerdictIsPrefixTest ==
    \A s \in Side :
        /\ verdict[s] = "reject" => \E id \in Shared : Conflict(id)
        /\ verdict[s] \in {"current", "outdated"} => \A id \in Shared : ~Conflict(id)
        /\ verdict[s] = "current" => schema["a"] = schema["b"]
        /\ verdict[s] = "needMore" => \E id \in Shared : Len(schema[Other(s)][id]) > Len(schema[s][id])

(* Outdated is "safe to proceed": between ends that both accepted, a        *)
(* message that arrives whole is decoded without an error, the fields both  *)
(* versions carry have the types and values that were sent and the rest are *)
(* zero.                                                                    *)
SharedFieldsArrive ==
    sent.whole # <<>> /\ payload = sent.whole =>
        /\ reader.at \notin {"refused", "failed"}
        /\ \A i \in DOMAIN reader.values :
            IF i \in DOMAIN sent.values
            THEN /\ reader.fields[i] = schema[sent.by][sent.id][i]
                 /\ reader.values[i] = sent.values[i]
            ELSE reader.values[i] = Zero(reader.fields[i])

(* A message cut short never yields a value nobody sent: it is refused, or  *)
(* its decoder fails, or the cut is between two fields and the missing ones *)
(* are zero as if an older version had sent it.                             *)
CutIsSeen ==
    sent.whole # <<>> /\ reader.at = "done" =>
        \E k \in 0..Len(sent.values) :
            /\ \A i \in DOMAIN reader.values :
                reader.values[i] = IF i <= k THEN sent.values[i] ELSE Zero(reader.fields[i])
            /\ k < Len(sent.values) => reader.buf = EncodeModel(SubSeq(schema[sent.by][sent.id], 1, k),
                                                               SubSeq(sent.values, 1, k))
                                       \/ k >= Len(reader.fields)

(* A payload has one reading: whatever Decode accepts, Encode writes back   *)
(* byte for byte, with a ctx block below the ceiling; and what Encode wrote *)
(* is never refused: the callee finds the ctx its caller set.               *)
FrameCanonical ==
    LET parsed == Decode(payload, MaxCtxLen)
    IN /\ parsed.error = "OK" =>
            /\ Encode(parsed.header, parsed.ctx, parsed.body) = payload
            /\ Len(parsed.ctx) <= MaxCtxLen
       /\ sent.whole # <<>> /\ payload = sent.whole =>
            parsed.error = "OK" /\ DecodeCtx(parsed.ctx).ok /\ DecodeCtx(parsed.ctx).ctx = sent.ctx

(* The two readers agree on the models both decode: DecodeCtx accepts what  *)
(* the generated decoder of FRpcCtx accepts and finds the same values; what *)
(* DecodeStatus makes of a body is what the generated decoder of FRpcError  *)
(* finds, or INTERNAL where that one fails or finds no code; a body that is *)
(* exactly a status is what Status.Encode writes for it.                    *)
TwinsAgree ==
    LET body == reader.buf
        hand == DecodeCtx(body)
        made == DecodeModel(CtxFields, body)
        status == DecodeStatus(body)
        error == DecodeModel(ErrorFields, body)
    IN reader.at # "idle" =>
        /\ hand.ok = made.ok
        /\ hand.ok => hand.ctx = made.values
        /\ status = IF error.ok /\ body # <<>> THEN [code |-> error.values[1], message |-> error.values[2]]
                                               ELSE Internal("")
        /\ error.ok /\ error.pos = Len(body) /\ Len(body) > WordLen => EncodeStatus(status) = body
=============================================================================
