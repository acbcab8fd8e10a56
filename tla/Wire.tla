--------------------------------- MODULE Wire ---------------------------------
(***************************************************************************)
(* The payload of an fRPC message: a byte of kind and flags, the call id,  *)
(* on a REQUEST perhaps a ctx block with its length, and the body.         *)
(***************************************************************************)
EXTENDS Codec

HeaderLen == 1 + WordLen
Request == 0
LastKind == 6       \* CREDIT

\* The bits of the first byte: compressed, ctx, three reserved ones, the kind.
FlagCompressed(first) == (first \div 128) % 2 = 1
FlagCtx(first)        == (first \div 64) % 2 = 1
Reserved(first)       == (first \div 8) % 8
KindBits(first)       == first % 8

Encode(header, ctx, body) ==
    <<header.kind + (IF header.compressed THEN 128 ELSE 0) + (IF header.hasCtx THEN 64 ELSE 0)>>
        \o Word(header.call) \o (IF header.hasCtx THEN Word(Len(ctx)) \o ctx ELSE <<>>) \o body

ReadCallID(payload) == Value(SubSeq(payload, 2, HeaderLen))

NoHeader == [kind |-> 0, call |-> 0, compressed |-> FALSE, hasCtx |-> FALSE]
WireFailure(why) == [error |-> why, header |-> NoHeader, ctx |-> <<>>, body |-> <<>>]
Parsed(header, ctx, body) == [error |-> "OK", header |-> header, ctx |-> ctx, body |-> body]

\* The ctx block of a REQUEST: its length against the ceiling, then against
\* what is there.
\* Mutant: what is there decides, not the declared length.
DecodeCtxBlock_Clamped(header, rest, maxCtxLen) ==
    LET declared == Value(SubSeq(rest, 1, WordLen))
        after == SubSeq(rest, WordLen + 1, Len(rest))
        n == IF declared <= Len(after) THEN declared ELSE Len(after)
    IN IF Len(rest) < WordLen THEN WireFailure("CtxTruncated")
       ELSE IF declared > maxCtxLen THEN WireFailure("CtxTooLarge")
       ELSE Parsed(header, SubSeq(after, 1, n), SubSeq(after, n + 1, Len(after)))
DecodeCtxBlock(header, rest, maxCtxLen) ==
    LET declared == Value(SubSeq(rest, 1, WordLen))
        after == SubSeq(rest, WordLen + 1, Len(rest))
    IN IF Len(rest) < WordLen THEN WireFailure("CtxTruncated")
       ELSE IF declared > maxCtxLen THEN WireFailure("CtxTooLarge")
       ELSE IF Len(after) < declared THEN WireFailure("CtxTruncated")
       ELSE Parsed(header, SubSeq(after, 1, declared), SubSeq(after, declared + 1, Len(after)))

Decode(payload, maxCtxLen) ==
    LET first == payload[1]
        header == [kind |-> KindBits(first), call |-> ReadCallID(payload),
                   compressed |-> FlagCompressed(first), hasCtx |-> FlagCtx(first)]
        rest == SubSeq(payload, HeaderLen + 1, Len(payload))
    IN IF Len(payload) < HeaderLen THEN WireFailure("Truncated")
       ELSE IF Reserved(first) # 0 THEN WireFailure("ReservedBits")
       ELSE IF header.kind > LastKind THEN WireFailure("UnknownKind")
       ELSE IF ~header.hasCtx THEN Parsed(header, <<>>, rest)
       ELSE IF header.kind # Request THEN WireFailure("CtxOnNonRequest")
       ELSE DecodeCtxBlock(header, rest, maxCtxLen)
=============================================================================
