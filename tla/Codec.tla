--------------------------------- MODULE Codec ---------------------------------
(***************************************************************************)
(* How values become bytes and come back.  There are two readers of the    *)
(* same format: the one generated for the models (Reader, with one decoder *)
(* per model) and the one written by hand for the blocks the core reads    *)
(* itself (BodyReader, with DecodeCtx and DecodeStatus).  A model is the   *)
(* list of the types of its fields; a reader is a function of the bytes    *)
(* and the cursor, so that a call is visible as what it does to the cursor.*)
(***************************************************************************)
EXTENDS Naturals, Sequences, SequencesExt

CONSTANT WordLen    \* bytes of a u32

ASSUME WordLenPositive == WordLen \in Nat \ {0}

\* The fields of the models that both readers read.
CtxFields   == <<"u32", "bytes", "bytes", "string", "string", "bytes", "u32">>
ErrorFields == <<"u32", "string">>

Zero(type) == IF type = "u32" THEN 0 ELSE <<>>
Zeros(fields) == [i \in DOMAIN fields |-> Zero(fields[i])]

\* Little endian.  Above(n)[i] is what is left of n after i bytes; a u32 holds
\* the numbers of which nothing is left in the end.
Above(n) == LET left[i \in 0..WordLen] == IF i = 0 THEN n ELSE left[i - 1] \div 256 IN left
Word(n) == LET above == Above(n) IN [i \in 1..WordLen |-> above[i - 1] % 256]
Value(bytes) ==
    LET top[i \in 0..WordLen] == IF i = 0 THEN 0 ELSE top[i - 1] * 256 + bytes[WordLen + 1 - i]
    IN top[WordLen]

Put(type, v) == IF type = "u32" THEN Word(v) ELSE Word(Len(v)) \o v
EncodeModel(fields, values) == FlattenSeq([i \in DOMAIN fields |-> Put(fields[i], values[i])])

\* utf8.Valid on bytes of which none is a continuation byte.
ValidUTF8(bytes) == \A i \in DOMAIN bytes : bytes[i] < 128

\* The values of the types of the fields.
U32 == {n \in Nat : Above(n)[WordLen] = 0}
Bytes == {bytes \in Seq(0..255) : Len(bytes) \in U32}
Text == {bytes \in Bytes : ValidUTF8(bytes)}
Types == {"u32", "bytes", "string"}
ValuesOf(type) ==
    CASE type = "u32"    -> U32
      [] type = "bytes"  -> Bytes
      [] type = "string" -> Text

-----------------------------------------------------------------------------
\* The generated Reader.
Got(v, pos) == [ok |-> TRUE, value |-> v, pos |-> pos]
Unread(v, pos) == [ok |-> FALSE, value |-> v, pos |-> pos]

Take(buf, pos, n) ==
    IF n > Len(buf) - pos THEN Unread(<<>>, pos) ELSE Got(SubSeq(buf, pos + 1, pos + n), pos + n)

ReadU32(buf, pos) ==
    LET taken == Take(buf, pos, WordLen)
    IN IF taken.ok THEN Got(Value(taken.value), taken.pos) ELSE Unread(0, taken.pos)

\* A length is compared with the bytes that remain before anything is taken.
TakeChecked(buf, length, start) ==
    IF length.value > Len(buf) - length.pos THEN Unread(<<>>, start)
                                            ELSE Take(buf, length.pos, length.value)

ReadBytes(buf, pos) ==
    LET length == ReadU32(buf, pos)
    IN IF length.ok THEN TakeChecked(buf, length, pos) ELSE Unread(<<>>, length.pos)

ReadString(buf, pos) ==
    LET read == ReadBytes(buf, pos)
    IN IF read.ok /\ ~ValidUTF8(read.value) THEN Unread(<<>>, pos) ELSE read

Read(type, buf, pos) ==
    CASE type = "u32"    -> ReadU32(buf, pos)
      [] type = "bytes"  -> ReadBytes(buf, pos)
      [] type = "string" -> ReadString(buf, pos)

FieldAbsent(buf, pos) == Len(buf) - pos = 0

\* Mutant: a field is absent when its bytes are not all there.
ReadField_Lenient(type, buf, pos) ==
    IF FieldAbsent(buf, pos) \/ ~Read(type, buf, pos).ok THEN Got(Zero(type), pos)
                                                         ELSE Read(type, buf, pos)

\* One field of a generated decoder: absent at the end of the bytes, else read.
ReadField(type, buf, pos) ==
    IF FieldAbsent(buf, pos) THEN Got(Zero(type), pos) ELSE Read(type, buf, pos)

\* A generated decoder: field after field until one fails.
DecodeFrom(fields, buf, start) ==
    LET upTo[i \in 0..Len(fields)] ==
            IF i = 0 THEN [ok |-> TRUE, values |-> <<>>, pos |-> start]
            ELSE LET before == upTo[i - 1]
                     read == ReadField(fields[i], buf, before.pos)
                 IN IF ~before.ok THEN before
                    ELSE [ok |-> read.ok, values |-> Append(before.values, read.value), pos |-> read.pos]
    IN upTo[Len(fields)]
DecodeModel(fields, buf) == DecodeFrom(fields, buf, 0)

-----------------------------------------------------------------------------
\* BodyReader: a read says whether the field is present, and its errors do
\* not give the cursor back.
AtEnd(buf, pos) == pos >= Len(buf)
BodyRead(present, ok, v, pos) == [present |-> present, ok |-> ok, value |-> v, pos |-> pos]

BodyU32(buf, pos) ==
    IF AtEnd(buf, pos) THEN BodyRead(FALSE, TRUE, 0, pos)
    ELSE IF Len(buf) - pos < WordLen THEN BodyRead(FALSE, FALSE, 0, pos)
    ELSE BodyRead(TRUE, TRUE, Value(SubSeq(buf, pos + 1, pos + WordLen)), pos + WordLen)

BodyBytes(buf, pos) ==
    LET length == BodyU32(buf, pos)
    IN IF ~length.present THEN BodyRead(FALSE, length.ok, <<>>, length.pos)
       ELSE IF Len(buf) - length.pos < length.value THEN BodyRead(FALSE, FALSE, <<>>, length.pos)
       ELSE BodyRead(TRUE, TRUE, SubSeq(buf, length.pos + 1, length.pos + length.value),
                     length.pos + length.value)

BodyString(buf, pos) ==
    LET read == BodyBytes(buf, pos)
    IN IF read.present /\ ~ValidUTF8(read.value) THEN BodyRead(FALSE, FALSE, <<>>, read.pos) ELSE read

BodyField(type, buf, pos) ==
    CASE type = "u32"    -> BodyU32(buf, pos)
      [] type = "bytes"  -> BodyBytes(buf, pos)
      [] type = "string" -> BodyString(buf, pos)

EmptyCtx == Zeros(CtxFields)

\* DecodeCtx returns at the first field that is absent or undecodable.
\* Mutant: the error of a field is taken for its absence.
DecodeCtx_Lenient(buf) ==
    LET upTo[i \in 0..Len(CtxFields)] ==
            IF i = 0 THEN [going |-> TRUE, ok |-> TRUE, ctx |-> EmptyCtx, pos |-> 0]
            ELSE LET before == upTo[i - 1]
                     read == BodyField(CtxFields[i], buf, before.pos)
                 IN IF ~before.going THEN before
                    ELSE [going |-> read.present, ok |-> TRUE,
                          ctx |-> [before.ctx EXCEPT ![i] = read.value], pos |-> read.pos]
    IN upTo[Len(CtxFields)]
DecodeCtx(buf) ==
    LET upTo[i \in 0..Len(CtxFields)] ==
            IF i = 0 THEN [going |-> TRUE, ok |-> TRUE, ctx |-> EmptyCtx, pos |-> 0]
            ELSE LET before == upTo[i - 1]
                     read == BodyField(CtxFields[i], buf, before.pos)
                 IN IF ~before.going THEN before
                    ELSE [going |-> read.ok /\ read.present, ok |-> read.ok,
                          ctx |-> [before.ctx EXCEPT ![i] = read.value], pos |-> read.pos]
    IN upTo[Len(CtxFields)]

CtxIsEmpty(ctx) == ctx = EmptyCtx
EncodeCtx(ctx) == EncodeModel(CtxFields, ctx)

\* DecodeStatus has no error of its own: what it cannot read is INTERNAL.
INTERNAL == 10
Internal(text) == [code |-> INTERNAL, message |-> <<>>]
DecodeStatus(body) ==
    LET code == BodyU32(body, 0)
        message == BodyString(body, code.pos)
    IN IF ~code.ok \/ ~code.present THEN Internal("no status code")
       ELSE IF ~message.ok THEN Internal("undecodable message")
       ELSE [code |-> code.value, message |-> message.value]
EncodeStatus(status) == EncodeModel(ErrorFields, <<status.code, status.message>>)
=============================================================================
