---------------------------- MODULE ExchangeProofs ----------------------------
(***************************************************************************)
(* Two ends of two versions, for every pair of schemas, every message and  *)
(* value they can carry, every ctx, every place a payload may be cut and   *)
(* every payload nobody encoded: that the verdict of the handshake is the  *)
(* prefix test (VerdictIsPrefixTest), that the fields both versions carry  *)
(* arrive (SharedFieldsArrive), that a cut is seen (CutIsSeen), that a     *)
(* payload has one reading (FrameCanonical) and that the two readers of    *)
(* FRpcCtx and FRpcError agree (TwinsAgree).                               *)
(*                                                                         *)
(* First the wire format, then the two readers, the fields of a message    *)
(* that is cut short, the handshake; then the inductive invariant: Asked,  *)
(* about the verdicts, and Arriving, about the message on its way and how  *)
(* far its reader is.  What one field or one word is as bytes is proved in *)
(* Recursion.                                                              *)
(***************************************************************************)
EXTENDS Exchange, Recursion

-----------------------------------------------------------------------------
\* Cutting sequences of bytes.

\* The first bytes of a sequence.
LEMMA CutType ==
    ASSUME NEW s \in Seq(Byte), NEW a \in Nat, NEW b \in Nat, b <= Len(s)
    PROVE  /\ SubSeq(s, a + 1, b) \in Seq(Byte)
           /\ Len(SubSeq(s, a + 1, b)) = IF a <= b THEN b - a ELSE 0
           /\ \A i \in 1..(b - a) : SubSeq(s, a + 1, b)[i] = s[a + i]
<1>1. PICK n \in Nat : n = Len(s)
    BY LenProperties
<1>2. \A i \in (a + 1)..b : s[i] \in Byte
    BY <1>1, ElementOfSeq
<1>3. PICK c : c = SubSeq(s, a + 1, b)
    OBVIOUS
<1>4. /\ c \in Seq(Byte) /\ Len(c) = IF a + 1 <= b THEN b - (a + 1) + 1 ELSE 0
      /\ \A i \in 1..(b - (a + 1) + 1) : c[i] = s[(a + 1) + i - 1]
    BY <1>2, <1>3, SubSeqProperties
<1>5. \A i \in 1..(b - a) : i \in 1..(b - (a + 1) + 1) /\ (a + 1) + i - 1 = a + i
    OBVIOUS
<1> QED
    BY <1>3, <1>4, <1>5

\* The first b bytes.
LEMMA CutFront ==
    ASSUME NEW s \in Seq(Byte), NEW b \in Nat, b <= Len(s)
    PROVE  /\ SubSeq(s, 1, b) \in Seq(Byte) /\ Len(SubSeq(s, 1, b)) = b
           /\ \A i \in 1..b : SubSeq(s, 1, b)[i] = s[i]
<1>1. PICK c : c = SubSeq(s, 1, b)
    OBVIOUS
<1>2. c = SubSeq(s, 0 + 1, b)
    BY <1>1
<1>3. c \in Seq(Byte) /\ Len(c) = b /\ \A i \in 1..b : c[i] = s[0 + i]
    BY <1>2, CutType
<1>4. \A i \in 1..b : 0 + i = i
    OBVIOUS
<1> QED
    BY <1>1, <1>3, <1>4

\* What is cut off behind s is cut off t.
LEMMA CutConcat ==
    ASSUME NEW s \in Seq(Byte), NEW t \in Seq(Byte), NEW k \in Nat, Len(s) <= k, k <= Len(s) + Len(t)
    PROVE  /\ SubSeq(s \o t, 1, k) \in Seq(Byte) /\ Len(SubSeq(s \o t, 1, k)) = k
           /\ SubSeq(SubSeq(s \o t, 1, k), 1, Len(s)) = s
           /\ SubSeq(SubSeq(s \o t, 1, k), Len(s) + 1, k) = SubSeq(t, 1, k - Len(s))
<1>1. PICK c : c = SubSeq(s \o t, 1, k)
    OBVIOUS
<1>2. PICK l \in Nat, m \in Nat : l = Len(s) /\ m = Len(t) /\ l <= k /\ k <= l + m
    BY LenProperties
<1>3. PICK w : w = s \o t
    OBVIOUS
<1>4. w \in Seq(Byte) /\ Len(w) = l + m /\ \A i \in 1..(l + m) : w[i] = IF i <= l THEN s[i] ELSE t[i - l]
    BY <1>2, <1>3, ConcatProperties
<1>5. c \in Seq(Byte) /\ Len(c) = k /\ \A i \in 1..k : c[i] = w[i]
    BY <1>1, <1>2, <1>3, <1>4, CutFront
<1>6. SubSeq(c, 1, l) = s
    <2>1. PICK p : p = SubSeq(c, 1, l)
        OBVIOUS
    <2>2. p \in Seq(Byte) /\ Len(p) = l /\ \A i \in 1..l : p[i] = c[i]
        BY <1>2, <1>5, <2>1, CutFront
    <2>3. \A i \in 1..l : i \in 1..k /\ i \in 1..(l + m) /\ i <= l
        BY <1>2
    <2>4. \A i \in 1..l : p[i] = s[i]
        BY <1>5, <1>4, <2>2, <2>3
    <2>5. p = s
        BY <1>2, <2>2, <2>4, SeqEqual
    <2> QED
        BY <2>1, <2>5
<1>7. SubSeq(c, l + 1, k) = SubSeq(t, 1, k - l)
    <2>1. PICK d \in Nat : d = k - l /\ d <= m
        <3>1. k - l \in Nat /\ k - l <= m
            BY <1>2
        <3> QED
            BY <3>1
    <2>2. PICK p, q : p = SubSeq(c, l + 1, k) /\ q = SubSeq(t, 1, d)
        OBVIOUS
    <2>3. p \in Seq(Byte) /\ Len(p) = d /\ \A i \in 1..d : p[i] = c[l + i]
        <3>1. p \in Seq(Byte) /\ Len(p) = (IF l <= k THEN k - l ELSE 0) /\ \A i \in 1..(k - l) : p[i] = c[l + i]
            <4>1. k \in Nat /\ k <= Len(c)
                BY <1>2, <1>5
            <4>2. /\ SubSeq(c, l + 1, k) \in Seq(Byte)
                  /\ Len(SubSeq(c, l + 1, k)) = (IF l <= k THEN k - l ELSE 0)
                  /\ \A i \in 1..(k - l) : SubSeq(c, l + 1, k)[i] = c[l + i]
                BY <1>5, <4>1, CutType
            <4> QED
                BY <2>2, <4>2, Zenon
        <3> QED
            BY <1>2, <2>1, <3>1
    <2>4. q \in Seq(Byte) /\ Len(q) = d /\ \A i \in 1..d : q[i] = t[i]
        BY <1>2, <2>1, <2>2, CutFront
    <2>5. \A i \in 1..d : l + i \in 1..k /\ l + i \in 1..(l + m) /\ ~(l + i <= l) /\ l + i - l = i
        BY <1>2, <2>1
    <2>6. \A i \in 1..d : p[i] = q[i]
        <3>1. ASSUME NEW i \in 1..d PROVE p[i] = q[i]
            <4>1. PICK j \in 1..k : j = l + i /\ j \in 1..(l + m) /\ ~(j <= l) /\ j - l = i
                BY <1>2, <2>1
            <4>2. p[i] = c[j] /\ c[j] = w[j] /\ w[j] = t[i]
                BY <1>5, <1>4, <2>3, <4>1
            <4> QED
                BY <2>4, <4>2
        <3> QED
            BY <3>1
    <2>7. p = q
        BY <2>3, <2>4, <2>6, SeqEqual
    <2> QED
        BY <2>1, <2>7, <2>2
<1> QED
    BY <1>1, <1>2, <1>5, <1>6, <1>7

\* A sequence is what is before a place and what is behind it.
LEMMA CutInTwo ==
    ASSUME NEW s \in Seq(Byte), NEW k \in Nat, k <= Len(s)
    PROVE  /\ SubSeq(s, 1, k) \in Seq(Byte) /\ Len(SubSeq(s, 1, k)) = k
           /\ SubSeq(s, k + 1, Len(s)) \in Seq(Byte) /\ Len(SubSeq(s, k + 1, Len(s))) = Len(s) - k
           /\ SubSeq(s, 1, k) \o SubSeq(s, k + 1, Len(s)) = s
<1>1. PICK n \in Nat : n = Len(s) /\ k <= n
    BY LenProperties
<1>2. SubSeq(s, 1, k) \in Seq(Byte) /\ Len(SubSeq(s, 1, k)) = k
    BY <1>1, CutFront
<1>3. SubSeq(s, k + 1, n) \in Seq(Byte) /\ Len(SubSeq(s, k + 1, n)) = n - k
    BY <1>1, CutType
<1>4. SubSeq(s, 1, k) \o SubSeq(s, k + 1, n) = SubSeq(s, 1, n)
    <2>1. 1 \in 1..(Len(s) + 1) /\ k \in (1 - 1)..Len(s) /\ n \in k..Len(s)
        BY <1>1
    <2> QED
        BY <2>1, ConcatAdjacentSubSeq
<1>5. SubSeq(s, 1, n) = s
    BY <1>1, SubSeqFull
<1> QED
    BY <1>1, <1>2, <1>3, <1>4, <1>5

-----------------------------------------------------------------------------
\* The header of a payload.

\* The bits of the first byte.
LEMMA FirstByte ==
    ASSUME NEW first \in Byte, Reserved(first) = 0
    PROVE  first = KindBits(first) + (IF FlagCompressed(first) THEN 128 ELSE 0) + (IF FlagCtx(first) THEN 64 ELSE 0)
<1>1. PICK c \in {0, 1}, h \in {0, 1}, k \in 0..7 : first = 128 * c + 64 * h + k
    <2>1. (first \div 8) % 8 = 0 /\ first \in 0..255
        BY DEF Reserved, Byte
    <2>2. PICK c \in {0, 1}, d \in 0..127 : first = 128 * c + d
        BY <2>1
    <2>3. PICK h \in {0, 1}, e \in 0..63 : d = 64 * h + e
        BY <2>2
    <2>4. PICK r \in 0..7, k \in 0..7 : e = 8 * r + k
        BY <2>3
    <2>5. first \div 8 = 16 * c + 8 * h + r
        BY <2>2, <2>3, <2>4
    <2>6. r = 0
        BY <2>1, <2>5
    <2> QED
        BY <2>2, <2>3, <2>4, <2>6
<1>2. first \div 128 = c /\ (first \div 64) % 2 = h /\ first % 8 = k /\ c % 2 = c
    BY <1>1
<1> QED
    BY <1>1, <1>2 DEF KindBits, FlagCompressed, FlagCtx

\* A single byte.
LEMMA OneByte ==
    ASSUME NEW b \in Byte
    PROVE  <<b>> \in Seq(Byte) /\ Len(<<b>>) = 1 /\ <<b>>[1] = b
OBVIOUS

\* How long a header is.
LEMMA HeaderType == HeaderLen \in Nat /\ HeaderLen = WordLen + 1 /\ WordLen \in Nat /\ WordLen > 0
BY WordLenPositive DEF HeaderLen

\* The first byte, the call id and the rest of a payload.
LEMMA HeaderCut ==
    ASSUME NEW p \in Seq(Byte), HeaderLen <= Len(p)
    PROVE  /\ p[1] \in Byte
           /\ SubSeq(p, 2, HeaderLen) \in Seq(Byte) /\ Len(SubSeq(p, 2, HeaderLen)) = WordLen
           /\ SubSeq(p, HeaderLen + 1, Len(p)) \in Seq(Byte)
           /\ Len(SubSeq(p, HeaderLen + 1, Len(p))) = Len(p) - HeaderLen
           /\ (<<p[1]>> \o SubSeq(p, 2, HeaderLen)) \o SubSeq(p, HeaderLen + 1, Len(p)) = p
<1>1. PICK n \in Nat, m \in Nat : n = Len(p) /\ m = HeaderLen /\ m <= n /\ m = WordLen + 1 /\ m > 1
    BY LenProperties, HeaderType
<1>2. p[1] \in Byte
    <2>1. 1 \in 1..Len(p)
        BY <1>1
    <2> QED
        BY <2>1, ElementOfSeq
<1>3. SubSeq(p, 1 + 1, m) \in Seq(Byte) /\ Len(SubSeq(p, 1 + 1, m)) = IF 1 <= m THEN m - 1 ELSE 0
    <2>1. 1 \in Nat /\ m <= Len(p)
        BY <1>1
    <2> QED
        BY <2>1, CutType
<1>4. 1 + 1 = 2 /\ (IF 1 <= m THEN m - 1 ELSE 0) = WordLen
    BY <1>1, HeaderType
<1>5. /\ SubSeq(p, 1, m) \in Seq(Byte) /\ Len(SubSeq(p, 1, m)) = m
      /\ SubSeq(p, m + 1, n) \in Seq(Byte) /\ Len(SubSeq(p, m + 1, n)) = n - m
      /\ SubSeq(p, 1, m) \o SubSeq(p, m + 1, n) = p
    BY <1>1, CutInTwo
<1>6. SubSeq(p, 1, m) = <<p[1]>> \o SubSeq(p, 2, m)
    <2>1. 1 \in 1..Len(p) /\ m \in 1..Len(p)
        BY <1>1
    <2>2. SubSeq(p, 1, m) = <<p[1]>> \o SubSeq(p, 1 + 1, m)
        BY <2>1, SubSeqRecursiveFirst
    <2> QED
        BY <1>4, <2>2
<1> QED
    BY <1>1, <1>2, <1>3, <1>4, <1>5, <1>6

\* The first byte of a payload with this header.
FirstOf(header) ==
    header.kind + (IF header.compressed THEN 128 ELSE 0) + (IF header.hasCtx THEN 64 ELSE 0)
HeadOf(header) == <<FirstOf(header)>> \o Word(header.call)
RestOf(header, ctx, body) == IF header.hasCtx THEN Word(Len(ctx)) \o (ctx \o body) ELSE body

\* Encode with its parts in brackets.
LEMMA EncodeParts ==
    ASSUME NEW header, NEW ctx \in Seq(Byte), NEW body \in Seq(Byte), Len(ctx) \in U32,
           header.call \in U32, header.hasCtx \in BOOLEAN, FirstOf(header) \in Byte
    PROVE  /\ HeadOf(header) \in Seq(Byte) /\ Len(HeadOf(header)) = HeaderLen
           /\ Word(Len(ctx)) \in Seq(Byte) /\ Len(Word(Len(ctx))) = WordLen
           /\ ctx \o body \in Seq(Byte)
           /\ Encode(header, ctx, body) = HeadOf(header) \o RestOf(header, ctx, body)
<1> DEFINE first == FirstOf(header)
<1>1. \A s, t, u \in Seq(Byte) : (s \o t) \o u = s \o (t \o u)
    BY ConcatAssociative
<1>2. first \in Byte
    OBVIOUS
<1>3. PICK word, size : word = Word(header.call) /\ size = Word(Len(ctx))
    OBVIOUS
<1>4. word \in Seq(Byte) /\ Len(word) = WordLen /\ size \in Seq(Byte) /\ Len(size) = WordLen
    BY <1>3, WordBytes DEF U32
<1>5. PICK head : head = <<first>> \o word
    OBVIOUS
<1>6. head \in Seq(Byte) /\ Len(head) = HeaderLen
    <2>1. <<first>> \in Seq(Byte) /\ Len(<<first>>) = 1
        BY OneByte
    <2>2. head \in Seq(Byte) /\ Len(head) = Len(<<first>>) + Len(word)
        BY <1>4, <1>5, <2>1, ConcatProperties
    <2> QED
        BY <1>4, <2>1, <2>2, HeaderType
<1>7. ctx \o body \in Seq(Byte) /\ size \o ctx \in Seq(Byte)
    BY <1>4, ConcatProperties
<1>8. Encode(header, ctx, body) = (head \o (IF header.hasCtx THEN size \o ctx ELSE <<>>)) \o body
    BY <1>3, <1>5 DEF Encode, FirstOf
<1>9. head = HeadOf(header)
    BY <1>3, <1>5 DEF HeadOf
<1> HIDE DEF first
<1>10. CASE header.hasCtx
    <2>1. (head \o (size \o ctx)) \o body = head \o ((size \o ctx) \o body)
        BY <1>6, <1>7, <1>1, Zenon
    <2>2. (size \o ctx) \o body = size \o (ctx \o body)
        BY <1>4, <1>1, Zenon
    <2> QED
        BY <1>3, <1>4, <1>6, <1>7, <1>8, <1>10, <1>9, <2>1, <2>2 DEF RestOf
<1>11. CASE ~header.hasCtx
    <2>1. head \o <<>> = head
        BY <1>6, ConcatEmptySeq
    <2> QED
        BY <1>3, <1>4, <1>6, <1>7, <1>8, <1>11, <1>9, <2>1 DEF RestOf
<1> QED
    BY <1>10, <1>11

\* What is parsed of a payload, field by field.
LEMMA ParsedFields ==
    ASSUME NEW header, NEW ctx, NEW body, NEW parsed, parsed = Parsed(header, ctx, body)
    PROVE  parsed.error = "OK" /\ parsed.header = header /\ parsed.ctx = ctx /\ parsed.body = body
BY DEF Parsed

\* What Decode accepts, Encode writes back, and no ctx block above the ceiling.
LEMMA DecodeEncodes ==
    ASSUME NEW p \in Seq(Byte), NEW max, NEW parsed, parsed = Decode(p, max), parsed.error = "OK"
    PROVE  /\ Encode(parsed.header, parsed.ctx, parsed.body) = p
           /\ parsed.ctx \in Seq(Byte) /\ parsed.body \in Seq(Byte)
           /\ max \in Nat => Len(parsed.ctx) <= max
<1>1. PICK first, word, rest : first = p[1] /\ word = SubSeq(p, 2, HeaderLen) /\ rest = SubSeq(p, HeaderLen + 1, Len(p))
    OBVIOUS
<1>2. PICK header : header = [kind |-> KindBits(first), call |-> Value(word),
                              compressed |-> FlagCompressed(first), hasCtx |-> FlagCtx(first)]
    OBVIOUS
<1>3. parsed = IF Len(p) < HeaderLen THEN WireFailure("Truncated")
               ELSE IF Reserved(first) # 0 THEN WireFailure("ReservedBits")
               ELSE IF header.kind > LastKind THEN WireFailure("UnknownKind")
               ELSE IF ~header.hasCtx THEN Parsed(header, <<>>, rest)
               ELSE IF header.kind # Request THEN WireFailure("CtxOnNonRequest")
               ELSE DecodeCtxBlock(header, rest, max)
    BY <1>1, <1>2 DEF Decode, ReadCallID
<1>4. \A why \in {"Truncated", "ReservedBits", "UnknownKind", "CtxOnNonRequest", "CtxTruncated", "CtxTooLarge"} :
          WireFailure(why).error = why /\ why # "OK"
    BY DEF WireFailure
<1>5. HeaderLen <= Len(p) /\ Reserved(first) = 0
    <2>1. Len(p) \in Nat
        BY LenProperties
    <2> QED
        BY <1>3, <1>4, <2>1, HeaderType
<1>6. /\ first \in Byte /\ word \in Seq(Byte) /\ Len(word) = WordLen /\ rest \in Seq(Byte)
      /\ (<<first>> \o word) \o rest = p
    BY <1>1, <1>5, HeaderCut
<1>7. Value(word) \in U32 /\ Word(Value(word)) = word
    BY <1>6, WordOfValue
<1>8. /\ first = FirstOf(header)
      /\ header.call = Value(word) /\ header.hasCtx \in BOOLEAN
    BY <1>2, <1>5, <1>6, FirstByte DEF FlagCtx, FirstOf
<1>9. CASE ~header.hasCtx
    <2>1. parsed = Parsed(header, <<>>, rest)
        BY <1>3, <1>4, <1>9
    <2>2. <<>> \in Seq(Byte) /\ Len(<<>>) = 0
        BY EmptySeq
    <2>3. Len(<<>>) \in U32
        BY <2>2, ByteFits DEF Byte
    <2>4. Encode(header, <<>>, rest) = (<<first>> \o word) \o rest
        <3>1. header.call \in U32
            BY <1>7, <1>8
        <3>2. Encode(header, <<>>, rest) = HeadOf(header) \o RestOf(header, <<>>, rest)
            BY <1>6, <1>8, <2>2, <2>3, <3>1, EncodeParts
        <3> QED
            BY <1>7, <1>8, <1>9, <3>2 DEF HeadOf, RestOf
    <2>5. parsed.header = header /\ parsed.ctx = <<>> /\ parsed.body = rest
        BY <2>1 DEF Parsed
    <2>6. max \in Nat => Len(<<>>) <= max
        BY <2>2
    <2> QED
        BY <1>6, <2>2, <2>4, <2>5, <2>6
<1>10. CASE header.hasCtx
    <2>1. parsed = DecodeCtxBlock(header, rest, max)
        BY <1>3, <1>4, <1>10
    <2>2. PICK size, after, declared :
              size = SubSeq(rest, 1, WordLen) /\ after = SubSeq(rest, WordLen + 1, Len(rest)) /\ declared = Value(size)
        OBVIOUS
    <2>3. parsed = IF Len(rest) < WordLen THEN WireFailure("CtxTruncated")
                   ELSE IF declared > max THEN WireFailure("CtxTooLarge")
                   ELSE IF Len(after) < declared THEN WireFailure("CtxTruncated")
                   ELSE Parsed(header, SubSeq(after, 1, declared), SubSeq(after, declared + 1, Len(after)))
        BY <2>1, <2>2 DEF DecodeCtxBlock
    <2>4. WordLen <= Len(rest)
        <3>1. Len(rest) \in Nat
            BY <1>6, LenProperties
        <3> QED
            BY <1>4, <2>3, <3>1, HeaderType
    <2>5. /\ size \in Seq(Byte) /\ Len(size) = WordLen /\ after \in Seq(Byte)
          /\ size \o after = rest
        BY <1>6, <2>2, <2>4, HeaderType, CutInTwo
    <2>6. declared \in U32 /\ declared \in Nat /\ Word(declared) = size
        BY <2>2, <2>5, WordOfValue DEF U32
    <2>7. declared <= Len(after)
        <3>1. Len(after) \in Nat
            BY <2>5, LenProperties
        <3> QED
            BY <1>4, <2>3, <2>6, <3>1
    <2>8. PICK ctx, body : ctx = SubSeq(after, 1, declared) /\ body = SubSeq(after, declared + 1, Len(after))
        OBVIOUS
    <2>9. parsed = Parsed(header, ctx, body)
        BY <1>4, <2>3, <2>8
    <2>10. ctx \in Seq(Byte) /\ Len(ctx) = declared /\ body \in Seq(Byte) /\ ctx \o body = after
        BY <2>5, <2>6, <2>7, <2>8, CutInTwo
    <2>11. Encode(header, ctx, body) = (<<first>> \o word) \o (Word(Len(ctx)) \o (ctx \o body))
        <3>1. header.call \in U32 /\ Len(ctx) \in U32
            BY <1>7, <1>8, <2>6, <2>10
        <3>2. Encode(header, ctx, body) = HeadOf(header) \o RestOf(header, ctx, body)
            BY <1>6, <1>8, <2>10, <3>1, EncodeParts
        <3> QED
            BY <1>7, <1>8, <1>10, <3>2 DEF HeadOf, RestOf
    <2>12. parsed.header = header /\ parsed.ctx = ctx /\ parsed.body = body
        BY <2>9 DEF Parsed
    <2>13. Word(Len(ctx)) \o (ctx \o body) = rest
        BY <2>5, <2>6, <2>10
    <2>14. max \in Nat => declared <= max
        BY <1>4, <2>3, <2>6
    <2> QED
        BY <1>6, <2>10, <2>11, <2>12, <2>13, <2>14
<1> QED
    BY <1>9, <1>10

-----------------------------------------------------------------------------
\* A payload that is cut short.

\* The front c, of k bytes, of s and t joined, cut again behind s.
Cut(s, t, w, k, d, c, x, y, z) ==
    /\ s \in Seq(Byte) /\ t \in Seq(Byte) /\ d \in Nat /\ d <= Len(t) /\ k = Len(s) + d
    /\ w = s \o t /\ c = SubSeq(w, 1, k)
    /\ x = SubSeq(c, 1, Len(s)) /\ y = SubSeq(c, Len(s) + 1, k) /\ z = SubSeq(t, 1, d)

\* The front that is left of the joined sequences.
LEMMA CutJoin ==
    ASSUME NEW s, NEW t, NEW w, NEW k, NEW d, NEW c, NEW x, NEW y, NEW z, Cut(s, t, w, k, d, c, x, y, z)
    PROVE  c \in Seq(Byte) /\ Len(c) = k /\ x = s /\ y = z
<1>1. s \in Seq(Byte) /\ t \in Seq(Byte) /\ d \in Nat /\ d <= Len(t) /\ k = Len(s) + d
    BY DEF Cut
<1>2. k \in Nat /\ Len(s) <= k /\ k <= Len(s) + Len(t) /\ k - Len(s) = d
    BY <1>1, LenProperties
<1>3. /\ SubSeq(s \o t, 1, k) \in Seq(Byte) /\ Len(SubSeq(s \o t, 1, k)) = k
      /\ SubSeq(SubSeq(s \o t, 1, k), 1, Len(s)) = s
      /\ SubSeq(SubSeq(s \o t, 1, k), Len(s) + 1, k) = SubSeq(t, 1, k - Len(s))
    BY <1>1, <1>2, CutConcat
<1>4. c = SubSeq(s \o t, 1, k)
    BY DEF Cut
<1>5. x = SubSeq(c, 1, Len(s)) /\ y = SubSeq(c, Len(s) + 1, k) /\ z = SubSeq(t, 1, k - Len(s))
    BY <1>2 DEF Cut
<1> QED
    BY <1>3, <1>4, <1>5, Zenon

\* What is left of a REQUEST that lost its end: either Decode sees it, or the
\* end was of the body.
Cutting(hasCtx, call, ctx, body, max, header, whole, kept, parsed) ==
    /\ hasCtx \in BOOLEAN /\ call \in U32 /\ ctx \in Seq(Byte) /\ body \in Seq(Byte) /\ max \in Nat
    /\ Len(ctx) \in U32 /\ Len(ctx) <= max /\ (hasCtx \/ ctx = <<>>)
    /\ header = [kind |-> Request, call |-> call, compressed |-> FALSE, hasCtx |-> hasCtx]
    /\ whole = Encode(header, ctx, body)
    /\ kept \in Nat /\ kept <= Len(whole) /\ parsed = Decode(SubSeq(whole, 1, kept), max)

\* A payload that is cut is refused, unless only its body lost bytes.
LEMMA CutDecodes ==
    ASSUME NEW hasCtx, NEW call, NEW ctx, NEW body, NEW max, NEW header, NEW whole, NEW kept, NEW parsed,
           Cutting(hasCtx, call, ctx, body, max, header, whole, kept, parsed)
    PROVE  /\ whole \in Seq(Byte) /\ Len(whole) >= HeaderLen
           /\ parsed.error = "OK" =>
                \E l \in Nat : /\ l <= Len(body) /\ parsed.body = SubSeq(body, 1, l) /\ parsed.ctx = ctx
                               /\ kept = Len(whole) => l = Len(body)
           /\ kept = Len(whole) => parsed.error = "OK"
<1>1. /\ hasCtx \in BOOLEAN /\ call \in U32 /\ ctx \in Seq(Byte) /\ body \in Seq(Byte) /\ max \in Nat
      /\ Len(ctx) \in U32 /\ Len(ctx) <= max /\ (hasCtx \/ ctx = <<>>)
      /\ header = [kind |-> Request, call |-> call, compressed |-> FALSE, hasCtx |-> hasCtx]
      /\ whole = Encode(header, ctx, body)
      /\ kept \in Nat /\ kept <= Len(whole) /\ parsed = Decode(SubSeq(whole, 1, kept), max)
    BY DEF Cutting
<1> USE <1>1
<1>2. FirstOf(header) = (IF hasCtx THEN 64 ELSE 0) /\ header.call = call /\ header.hasCtx = hasCtx /\ header.kind = 0
    BY DEF FirstOf, Request
<1>3. PICK first \in Byte : first = FirstOf(header)
    BY <1>2 DEF Byte
<1>4. Reserved(first) = 0 /\ KindBits(first) = 0 /\ (FlagCtx(first) <=> hasCtx)
    <2>1. CASE hasCtx
        <3>1. first = 64
            BY <1>2, <1>3, <2>1
        <3> QED
            BY <2>1, <3>1 DEF Reserved, KindBits, FlagCtx
    <2>2. CASE ~hasCtx
        <3>1. first = 0
            BY <1>2, <1>3, <2>2
        <3> QED
            BY <2>2, <3>1 DEF Reserved, KindBits, FlagCtx
    <2> QED
        BY <2>1, <2>2
<1>5. PICK head, rest : head = HeadOf(header) /\ rest = RestOf(header, ctx, body)
    OBVIOUS
<1>6. PICK size : size = Word(Len(ctx))
    OBVIOUS
<1>7. /\ head \in Seq(Byte) /\ Len(head) = HeaderLen /\ size \in Seq(Byte) /\ Len(size) = WordLen
      /\ ctx \o body \in Seq(Byte) /\ whole = head \o rest
    <2>1. header.call \in U32 /\ header.hasCtx \in BOOLEAN /\ FirstOf(header) \in Byte
        BY <1>2, <1>3
    <2>2. /\ HeadOf(header) \in Seq(Byte) /\ Len(HeadOf(header)) = HeaderLen
          /\ Word(Len(ctx)) \in Seq(Byte) /\ Len(Word(Len(ctx))) = WordLen
          /\ ctx \o body \in Seq(Byte)
          /\ Encode(header, ctx, body) = HeadOf(header) \o RestOf(header, ctx, body)
        BY <2>1, EncodeParts
    <2> QED
        BY <1>5, <1>6, <2>2
<1>8. rest = (IF hasCtx THEN size \o (ctx \o body) ELSE body)
    BY <1>2, <1>5, <1>6 DEF RestOf
<1>9. PICK c \in Nat, b \in Nat, n \in Nat, h \in Nat : c = Len(ctx) /\ b = Len(body) /\ h = HeaderLen /\ n = Len(rest) /\ rest \in Seq(Byte)
    <2>1. rest \in Seq(Byte)
        BY <1>7, <1>8, ConcatProperties
    <2> QED
        BY <2>1, HeaderType, LenProperties
<1>10. whole \in Seq(Byte) /\ Len(whole) = h + n
    <2>1. head \o rest \in Seq(Byte) /\ Len(head \o rest) = Len(head) + Len(rest)
        BY <1>7, <1>9, ConcatProperties
    <2> QED
        BY <1>7, <1>9, <2>1
<1>11. PICK p : p = SubSeq(whole, 1, kept) /\ p \in Seq(Byte) /\ Len(p) = kept
    BY <1>10, CutFront
<1>12. CASE kept < h
    <2>1. parsed = WireFailure("Truncated")
        BY <1>9, <1>11, <1>12 DEF Decode
    <2> QED
        BY <1>9, <1>10, <1>12, <2>1 DEF WireFailure
<1>13. CASE ~(kept < h)
    <2>1. PICK r \in Nat : r = kept - h /\ r <= n
        BY <1>9, <1>10, <1>13
    <2>2. PICK x, y, z : x = SubSeq(p, 1, h) /\ y = SubSeq(p, h + 1, kept) /\ z = SubSeq(rest, 1, r)
        OBVIOUS
    <2>3. x = head /\ y = z
        <3>1. kept = h + r
            BY <1>9, <2>1
        <3> QED
            <4>1. Cut(head, rest, whole, kept, r, p, x, y, z)
                BY <1>7, <1>9, <1>11, <2>1, <2>2, <3>1 DEF Cut
            <4> QED
                BY <4>1, CutJoin
    <2>4. p[1] = first
        <3>1. 1 \in 1..h /\ h <= Len(p)
            BY <1>9, <1>11, <1>13, HeaderType
        <3>2. SubSeq(p, 1, h)[1] = p[1]
            BY <1>9, <1>11, <3>1, CutFront
        <3>3. head[1] = first
            <4>1. Word(header.call) \in Seq(Byte)
                BY <1>2, WordBytes DEF U32
            <4>2. <<first>> \in Seq(Byte) /\ Len(<<first>>) = 1 /\ <<first>>[1] = first
                BY OneByte
            <4>3. head = <<first>> \o Word(header.call)
                BY <1>3, <1>5 DEF HeadOf
            <4>4. 1 \in 1..(Len(<<first>>) + Len(Word(header.call))) /\ 1 <= Len(<<first>>)
                BY <4>1, <4>2, LenProperties
            <4> QED
                BY <4>1, <4>2, <4>3, <4>4, ConcatProperties
        <3> QED
            BY <2>3, <2>2, <3>2, <3>3
    <2>5. PICK read : read = [kind |-> KindBits(first), call |-> ReadCallID(p),
                              compressed |-> FlagCompressed(first), hasCtx |-> FlagCtx(first)]
        OBVIOUS
    <2>6. read.kind = 0 /\ (read.hasCtx <=> hasCtx) /\ ~(read.kind > LastKind) /\ read.kind = Request
        BY <1>4, <2>5 DEF LastKind, Request
    <2>7. PICK left : left = SubSeq(rest, 1, r) /\ left \in Seq(Byte) /\ Len(left) = r
        BY <1>9, <2>1, CutFront
    <2>8. parsed = IF ~hasCtx THEN Parsed(read, <<>>, left) ELSE DecodeCtxBlock(read, left, max)
        BY <1>4, <1>9, <1>11, <1>13, <2>3, <2>4, <2>5, <2>6, <2>7, <2>2 DEF Decode
    <2>9. CASE ~hasCtx
        <3>1. parsed.error = "OK" /\ parsed.ctx = <<>> /\ parsed.body = left
            BY <2>8, <2>9 DEF Parsed
        <3>2. rest = body /\ n = b /\ ctx = <<>>
            BY <1>8, <1>9, <2>9
        <3>3. kept = Len(whole) => r = b
            BY <1>10, <2>1, <3>2
        <3> QED
            <4>1. r <= Len(body) /\ parsed.body = SubSeq(body, 1, r) /\ parsed.ctx = ctx
                BY <1>9, <2>1, <2>7, <3>1, <3>2
            <4>2. Len(whole) >= HeaderLen
                BY <1>9, <1>10
            <4> QED
                BY <1>9, <1>10, <2>1, <3>1, <3>3, <4>1, <4>2
    <2>10. CASE hasCtx
        <3>1. rest = size \o (ctx \o body) /\ n = WordLen + (c + b) /\ Len(ctx \o body) = c + b
            <4>1. Len(ctx \o body) = c + b
                BY <1>9, ConcatProperties
            <4>2. Len(size \o (ctx \o body)) = Len(size) + Len(ctx \o body)
                BY <1>7, ConcatProperties
            <4> QED
                BY <1>7, <1>8, <1>9, <2>10, <4>1, <4>2
        <3>2. PICK declared, after : declared = Value(SubSeq(left, 1, WordLen)) /\ after = SubSeq(left, WordLen + 1, Len(left))
            OBVIOUS
        <3>3. parsed = IF Len(left) < WordLen THEN WireFailure("CtxTruncated")
                       ELSE IF declared > max THEN WireFailure("CtxTooLarge")
                       ELSE IF Len(after) < declared THEN WireFailure("CtxTruncated")
                       ELSE Parsed(read, SubSeq(after, 1, declared), SubSeq(after, declared + 1, Len(after)))
            BY <2>8, <2>10, <3>2 DEF DecodeCtxBlock
        <3>4. CASE r < WordLen
            <4>1. parsed.error = "CtxTruncated"
                BY <2>7, <3>3, <3>4 DEF WireFailure
            <4> QED
                BY <1>9, <1>10, <2>1, <3>1, <3>4, <4>1, HeaderType
        <3>5. CASE ~(r < WordLen)
            <4>1. PICK k \in Nat : k = r - WordLen /\ k <= c + b
                BY <2>1, <3>1, <3>5, HeaderType
            <4>2. PICK lead, tail : lead = SubSeq(left, 1, WordLen) /\ tail = SubSeq(ctx \o body, 1, k)
                OBVIOUS
            <4>3. lead = size /\ after = tail
                <5>1. r = WordLen + k /\ WordLen \in Nat
                    BY <2>1, <4>1, HeaderType
                <5>2. after = SubSeq(left, WordLen + 1, r)
                    BY <2>7, <3>2
                <5> QED
                    <6>1. PICK joined : joined = ctx \o body /\ joined \in Seq(Byte) /\ k <= Len(joined)
                        BY <1>7, <3>1, <4>1
                    <6>2. Cut(size, joined, rest, r, k, left, lead, after, tail)
                        BY <1>7, <2>7, <3>1, <4>2, <5>1, <5>2, <6>1 DEF Cut
                    <6> QED
                        BY <6>2, CutJoin
            <4>4. declared = c
                BY <1>6, <1>9, <3>2, <4>3, <4>2, ValueOfWord
            <4>5. after \in Seq(Byte) /\ Len(after) = k
                BY <1>7, <3>1, <4>1, <4>3, <4>2, CutFront
            <4>6. CASE k < c
                <5>1. parsed.error = "CtxTruncated"
                    BY <1>9, <2>7, <3>3, <3>5, <4>4, <4>5, <4>6 DEF WireFailure
                <5> QED
                    BY <1>9, <1>10, <2>1, <3>1, <4>1, <4>6, <5>1, HeaderType
            <4>7. CASE ~(k < c)
                <5>1. PICK l \in Nat : l = k - c /\ l <= b
                    BY <4>1, <4>7
                <5>2. PICK front, back, part :
                          front = SubSeq(after, 1, c) /\ back = SubSeq(after, c + 1, k) /\ part = SubSeq(body, 1, l)
                    OBVIOUS
                <5>3. front = ctx /\ back = part
                    <6>1. k = c + l
                        BY <4>1, <5>1
                    <6>2. PICK joined : joined = ctx \o body
                        OBVIOUS
                    <6> QED
                        <7>1. Cut(ctx, body, joined, k, l, after, front, back, part)
                            BY <1>9, <4>3, <4>2, <5>1, <5>2, <6>1, <6>2 DEF Cut
                        <7> QED
                            BY <7>1, CutJoin
                <5>4. parsed.error = "OK" /\ parsed.ctx = ctx /\ parsed.body = part
                    <6>1. ~(Len(left) < WordLen) /\ ~(declared > max) /\ ~(Len(after) < declared)
                        BY <1>9, <2>7, <3>5, <4>4, <4>5, <4>7
                    <6>2. parsed = Parsed(read, front, back)
                        BY <3>3, <4>4, <4>5, <5>2, <6>1
                    <6> QED
                        BY <5>3, <6>2, ParsedFields
                <5>5. kept = Len(whole) => l = b
                    BY <1>10, <2>1, <3>1, <4>1, <5>1, HeaderType
                <5>6. Len(whole) >= HeaderLen
                    BY <1>9, <1>10
                <5> QED
                    BY <1>9, <1>10, <5>1, <5>4, <5>5, <5>6, <5>2
            <4> QED
                BY <4>6, <4>7
        <3> QED
            BY <3>4, <3>5
    <2> QED
        BY <2>9, <2>10
<1> QED
    BY <1>12, <1>13

-----------------------------------------------------------------------------
\* A field that is read is there as it would be put.

FieldValues == Nat \cup Seq(Byte)

\* Bytes that hold one part and then another hold both.
LEMMA HoldsJoined ==
    ASSUME NEW buf \in Seq(Byte), NEW pos, NEW p \in Seq(Byte), NEW q \in Seq(Byte),
           Holds(buf, pos, p), Holds(buf, pos + Len(p), q)
    PROVE  Holds(buf, pos, p \o q)
<1>1. PICK l \in Nat, m \in Nat, n \in Nat : l = Len(p) /\ m = Len(q) /\ n = Len(buf)
    BY LenProperties
<1>2. PICK r : r = p \o q
    OBVIOUS
<1>3. Len(r) = l + m /\ \A i \in 1..(l + m) : r[i] = IF i <= l THEN p[i] ELSE q[i - l]
    BY <1>1, <1>2, ConcatProperties
<1>4. /\ pos \in Nat /\ (pos + l) + m <= n
      /\ \A i \in 1..l : buf[pos + i] = p[i]
      /\ \A i \in 1..m : buf[(pos + l) + i] = q[i]
    BY <1>1 DEF Holds
<1>5. ASSUME NEW i \in 1..(l + m) PROVE buf[pos + i] = r[i]
    <2>1. CASE i <= l
        <3>1. i \in 1..l
            BY <1>1, <2>1
        <3> QED
            BY <1>3, <1>4, <2>1, <3>1
    <2>2. CASE ~(i <= l)
        <3>1. i - l \in 1..m /\ (pos + l) + (i - l) = pos + i
            <4>1. pos \in Nat /\ i \in Nat /\ l \in Nat /\ m \in Nat /\ i > l /\ i <= l + m
                BY <1>1, <1>4, <2>2
            <4> QED
                BY <4>1
        <3> QED
            BY <1>3, <1>4, <2>2, <3>1
    <2> QED
        BY <2>1, <2>2
<1>6. pos + (l + m) <= n
    BY <1>1, <1>4
<1> QED
    BY <1>1, <1>2, <1>3, <1>4, <1>5, <1>6 DEF Holds

\* The n bytes behind pos.
Behind(buf, pos, n, part) ==
    /\ buf \in Seq(Byte) /\ pos \in Nat /\ n \in Nat /\ pos + n <= Len(buf)
    /\ part = SubSeq(buf, pos + 1, pos + n)

\* What is behind a place.
LEMMA BehindType ==
    ASSUME NEW buf, NEW pos, NEW n, NEW part, Behind(buf, pos, n, part)
    PROVE  part \in Seq(Byte) /\ Len(part) = n /\ Holds(buf, pos, part)
<1>1. /\ buf \in Seq(Byte) /\ pos \in Nat /\ n \in Nat /\ pos + n <= Len(buf)
      /\ part = SubSeq(buf, pos + 1, pos + n)
    BY DEF Behind
<1>2. part \in Seq(Byte) /\ Len(part) = n /\ \A i \in 1..n : part[i] = buf[pos + i]
    <2>1. PICK b \in Nat : b = pos + n /\ b <= Len(buf) /\ b - pos = n /\ pos <= b
        BY <1>1
    <2>2. /\ SubSeq(buf, pos + 1, b) \in Seq(Byte)
          /\ Len(SubSeq(buf, pos + 1, b)) = IF pos <= b THEN b - pos ELSE 0
          /\ \A i \in 1..(b - pos) : SubSeq(buf, pos + 1, b)[i] = buf[pos + i]
        BY <1>1, <2>1, CutType
    <2>3. part = SubSeq(buf, pos + 1, b)
        BY <1>1, <2>1
    <2> QED
        BY <2>1, <2>2, <2>3
<1> QED
    BY <1>1, <1>2 DEF Holds

\* One field, read by the generated reader and by the one written by hand: both
\* find it, or both fail; what is found is held as it would be put.
Twins(type, buf, pos, made, hand) ==
    /\ made.ok \in BOOLEAN /\ made.pos \in 0..Len(buf) /\ made.value \in FieldValues
    /\ hand.pos \in 0..Len(buf) /\ hand.value \in FieldValues
    /\ hand.ok = made.ok /\ (hand.present <=> made.ok)
    /\ made.ok => /\ hand.value = made.value /\ hand.pos = made.pos
                  /\ Sendable(type, made.value) /\ Holds(buf, pos, Put(type, made.value))
                  /\ made.pos = pos + Len(Put(type, made.value))

\* The two readers of a u32.
LEMMA TwinWord ==
    ASSUME NEW buf \in Seq(Byte), NEW pos \in 0..Len(buf), pos # Len(buf),
           NEW made, made = ReadU32(buf, pos), NEW hand, hand = BodyU32(buf, pos)
    PROVE  Twins("u32", buf, pos, made, hand) /\ (~made.ok => made.pos = pos)
<1>1. PICK n \in Nat : n = Len(buf) /\ pos \in 0..n /\ pos \in Nat /\ WordLen \in Nat /\ WordLen > 0
    BY LenProperties, WordLenPositive
<1>2. ~AtEnd(buf, pos)
    BY <1>1 DEF AtEnd
<1>3. CASE WordLen > n - pos
    <2>1. made = Unread(0, pos)
        BY <1>1, <1>3 DEF ReadU32, Take, Unread
    <2>2. hand = BodyRead(FALSE, FALSE, 0, pos)
        BY <1>1, <1>2, <1>3 DEF BodyU32
    <2> QED
        BY <1>1, <2>1, <2>2 DEF Twins, Unread, BodyRead, FieldValues
<1>4. CASE ~(WordLen > n - pos)
    <2>1. PICK w : w = SubSeq(buf, pos + 1, pos + WordLen)
        OBVIOUS
    <2>2. pos + WordLen <= Len(buf)
        BY <1>1, <1>4
    <2>3. w \in Seq(Byte) /\ Len(w) = WordLen /\ Holds(buf, pos, w)
        <3>1. Behind(buf, pos, WordLen, w)
            BY <1>1, <2>1, <2>2 DEF Behind
        <3> QED
            BY <3>1, BehindType
    <2>4. Value(w) \in U32 /\ Word(Value(w)) = w
        BY <2>3, WordOfValue
    <2>5. made = Got(Value(w), pos + WordLen)
        BY <1>1, <1>4, <2>1 DEF ReadU32, Take, Got
    <2>6. hand = BodyRead(TRUE, TRUE, Value(w), pos + WordLen)
        <3>1. ~(n - pos < WordLen)
            BY <1>1, <1>4
        <3> QED
            BY <1>1, <1>2, <2>1, <3>1 DEF BodyU32
    <2>7. Put("u32", Value(w)) = w /\ Sendable("u32", Value(w)) /\ Value(w) \in FieldValues
        BY <2>4 DEF Put, Sendable, FieldValues, U32
    <2>8. made.ok = TRUE /\ made.value = Value(w) /\ made.pos = pos + WordLen
        BY <2>5 DEF Got
    <2>9. hand.ok = TRUE /\ hand.present = TRUE /\ hand.value = Value(w) /\ hand.pos = pos + WordLen
        BY <2>6 DEF BodyRead
    <2>10. pos + WordLen \in 0..Len(buf)
        BY <1>1, <2>2
    <2> QED
        BY <2>3, <2>7, <2>8, <2>9, <2>10 DEF Twins
<1> QED
    BY <1>3, <1>4

\* The two readers of a field with a length before it.
LEMMA TwinBytes ==
    ASSUME NEW buf \in Seq(Byte), NEW pos \in 0..Len(buf), pos # Len(buf),
           NEW made, made = ReadBytes(buf, pos), NEW hand, hand = BodyBytes(buf, pos)
    PROVE  Twins("bytes", buf, pos, made, hand)
<1>1. PICK n \in Nat : n = Len(buf) /\ pos \in 0..n /\ pos \in Nat /\ WordLen \in Nat
    BY LenProperties, WordLenPositive
<1>2. PICK word, length : word = ReadU32(buf, pos) /\ length = BodyU32(buf, pos)
    OBVIOUS
<1>3. Twins("u32", buf, pos, word, length) /\ (~word.ok => word.pos = pos)
    BY <1>2, TwinWord
<1>4. CASE ~word.ok
    <2>1. made = Unread(<<>>, pos)
        BY <1>2, <1>3, <1>4 DEF ReadBytes
    <2>2. hand.ok = FALSE /\ hand.present = FALSE /\ hand.value = <<>> /\ hand.pos \in 0..Len(buf)
        <3>1. hand = BodyRead(FALSE, length.ok, <<>>, length.pos)
            BY <1>2, <1>3, <1>4 DEF BodyBytes, Twins
        <3>2. length.ok = FALSE /\ length.present = FALSE /\ length.pos \in 0..Len(buf)
            BY <1>3, <1>4 DEF Twins
        <3> QED
            BY <3>1, <3>2 DEF BodyRead
    <2>3. <<>> \in FieldValues
        BY EmptySeq DEF FieldValues
    <2>4. made.ok = FALSE /\ made.value = <<>> /\ made.pos = pos
        BY <2>1 DEF Unread
    <2> QED
        BY <2>2, <2>3, <2>4 DEF Twins
<1>5. CASE word.ok
    <2>1. PICK m, p : m = word.value /\ p = word.pos
        OBVIOUS
    <2>2. /\ length.present /\ length.value = m /\ length.pos = p
          /\ m \in U32 /\ Holds(buf, pos, Word(m)) /\ p \in 0..n /\ p = pos + Len(Word(m))
        BY <1>1, <1>3, <1>5, <2>1 DEF Twins, Put, Sendable
    <2>3. m \in Nat /\ p \in Nat /\ Word(m) \in Seq(Byte) /\ Len(Word(m)) = WordLen
        BY <1>1, <2>2, WordBytes DEF U32
    <2>4. made = IF m > n - p THEN Unread(<<>>, pos) ELSE Take(buf, p, m)
        BY <1>1, <1>2, <1>5, <2>1 DEF ReadBytes, TakeChecked
    <2>5. hand = IF n - p < m THEN BodyRead(FALSE, FALSE, <<>>, p)
                 ELSE BodyRead(TRUE, TRUE, SubSeq(buf, p + 1, p + m), p + m)
        BY <1>1, <1>2, <2>2 DEF BodyBytes
    <2>6. CASE m > n - p
        <3>1. made = Unread(<<>>, pos) /\ hand = BodyRead(FALSE, FALSE, <<>>, p)
            BY <2>2, <2>3, <2>4, <2>5, <2>6
        <3>2. <<>> \in FieldValues /\ p \in 0..Len(buf)
            BY <1>1, <2>2, EmptySeq DEF FieldValues
        <3>3. made.ok = FALSE /\ made.value = <<>> /\ made.pos = pos
            BY <3>1 DEF Unread
        <3>4. hand.ok = FALSE /\ hand.present = FALSE /\ hand.value = <<>> /\ hand.pos = p
            BY <3>1 DEF BodyRead
        <3> QED
            BY <3>2, <3>3, <3>4 DEF Twins
    <2>7. CASE ~(m > n - p)
        <3>1. PICK v : v = SubSeq(buf, p + 1, p + m)
            OBVIOUS
        <3>2. p + m <= Len(buf) /\ ~(n - p < m)
            BY <1>1, <2>2, <2>3, <2>7
        <3>3. v \in Seq(Byte) /\ Len(v) = m /\ Holds(buf, p, v)
            <4>1. Behind(buf, p, m, v)
                BY <2>3, <3>1, <3>2 DEF Behind
            <4> QED
                BY <4>1, BehindType
        <3>4. made = Got(v, p + m) /\ hand = BodyRead(TRUE, TRUE, v, p + m)
            BY <1>1, <2>4, <2>5, <2>7, <3>1, <3>2 DEF Take
        <3>5. Put("bytes", v) = Word(m) \o v /\ Sendable("bytes", v) /\ v \in FieldValues
            BY <2>2, <3>3 DEF Put, Sendable, FieldValues
        <3>6. Holds(buf, pos, Word(m) \o v)
            BY <2>2, <2>3, <3>3, HoldsJoined
        <3>7. Len(Word(m) \o v) = WordLen + m
            BY <2>3, <3>3, ConcatProperties
        <3>8. p + m \in 0..Len(buf) /\ p + m = pos + (WordLen + m)
            BY <1>1, <2>2, <2>3, <3>2
        <3>9. made.ok = TRUE /\ made.value = v /\ made.pos = p + m
            BY <3>4 DEF Got
        <3>10. hand.ok = TRUE /\ hand.present = TRUE /\ hand.value = v /\ hand.pos = p + m
            BY <3>4 DEF BodyRead
        <3> QED
            BY <3>5, <3>6, <3>7, <3>8, <3>9, <3>10 DEF Twins
    <2> QED
        BY <2>6, <2>7
<1> QED
    BY <1>3, <1>4, <1>5 DEF Twins

\* The two readers of a field that is there.
LEMMA TwinField ==
    ASSUME NEW buf \in Seq(Byte), NEW pos \in 0..Len(buf), pos # Len(buf), NEW type \in Types,
           NEW made, made = Read(type, buf, pos), NEW hand, hand = BodyField(type, buf, pos)
    PROVE  Twins(type, buf, pos, made, hand)
<1>1. CASE type = "u32"
    <2>1. made = ReadU32(buf, pos) /\ hand = BodyU32(buf, pos)
        BY <1>1 DEF Read, BodyField
    <2> QED
        BY <1>1, <2>1, TwinWord
<1>2. CASE type = "bytes"
    <2>1. made = ReadBytes(buf, pos) /\ hand = BodyBytes(buf, pos)
        BY <1>2 DEF Read, BodyField
    <2> QED
        BY <1>2, <2>1, TwinBytes
<1>3. CASE type = "string"
    <2>1. PICK m, h : m = ReadBytes(buf, pos) /\ h = BodyBytes(buf, pos) /\ Twins("bytes", buf, pos, m, h)
        BY TwinBytes
    <2>2. made = (IF m.ok /\ ~ValidUTF8(m.value) THEN Unread(<<>>, pos) ELSE m)
        BY <1>3, <2>1 DEF Read, ReadString
    <2>3. hand = (IF h.present /\ ~ValidUTF8(h.value) THEN BodyRead(FALSE, FALSE, <<>>, h.pos) ELSE h)
        BY <1>3, <2>1 DEF BodyField, BodyString
    <2>4. CASE m.ok /\ ~ValidUTF8(m.value)
        <3>1. h.present /\ ~ValidUTF8(h.value)
            BY <2>1, <2>4 DEF Twins
        <3>2. made = Unread(<<>>, pos) /\ hand = BodyRead(FALSE, FALSE, <<>>, h.pos)
            BY <2>2, <2>3, <2>4, <3>1
        <3>3. <<>> \in FieldValues /\ h.pos \in 0..Len(buf)
            BY <2>1, EmptySeq DEF FieldValues, Twins
        <3>4. made.ok = FALSE /\ made.value = <<>> /\ made.pos = pos
            BY <3>2 DEF Unread
        <3>5. hand.ok = FALSE /\ hand.present = FALSE /\ hand.value = <<>> /\ hand.pos = h.pos
            BY <3>2 DEF BodyRead
        <3> QED
            BY <3>3, <3>4, <3>5 DEF Twins
    <2>5. CASE ~(m.ok /\ ~ValidUTF8(m.value))
        <3>1. ~(h.present /\ ~ValidUTF8(h.value))
            BY <2>1, <2>5 DEF Twins
        <3>2. made = m /\ hand = h
            BY <2>2, <2>3, <2>5, <3>1
        <3>3. m.ok => Put("string", m.value) = Put("bytes", m.value) /\ Sendable("string", m.value)
            BY <2>1, <2>5 DEF Twins, Put, Sendable
        <3> QED
            BY <1>3, <2>1, <3>2, <3>3 DEF Twins
    <2> QED
        BY <2>4, <2>5
<1> QED
    BY <1>1, <1>2, <1>3 DEF Types

\* One field, perhaps not there.
LEMMA FieldTwins ==
    ASSUME NEW buf \in Seq(Byte), NEW pos \in 0..Len(buf), NEW type \in Types,
           NEW made, made = ReadField(type, buf, pos), NEW hand, hand = BodyField(type, buf, pos)
    PROVE  /\ made.ok \in BOOLEAN /\ made.pos \in 0..Len(buf) /\ made.value \in FieldValues
           /\ hand.pos \in 0..Len(buf) /\ hand.value \in FieldValues /\ hand.ok = made.ok
           /\ pos = Len(buf) => /\ made = Got(Zero(type), pos) /\ made.ok /\ made.value = Zero(type) /\ made.pos = pos
                               /\ ~hand.present /\ hand.value = Zero(type) /\ hand.pos = pos
           /\ pos # Len(buf) => made = Read(type, buf, pos) /\ Twins(type, buf, pos, made, hand)
<1>1. PICK n \in Nat : n = Len(buf) /\ pos \in 0..n
    BY LenProperties
<1>2. FieldAbsent(buf, pos) <=> pos = Len(buf)
    BY <1>1 DEF FieldAbsent
<1>3. CASE pos = Len(buf)
    <2>1. made = Got(Zero(type), pos) /\ AtEnd(buf, pos)
        BY <1>1, <1>2, <1>3 DEF ReadField, AtEnd
    <2>2. BodyU32(buf, pos) = BodyRead(FALSE, TRUE, 0, pos)
        BY <2>1 DEF BodyU32
    <2>3. BodyBytes(buf, pos) = BodyRead(FALSE, TRUE, <<>>, pos)
        BY <2>2 DEF BodyBytes, BodyRead
    <2>4. BodyString(buf, pos) = BodyRead(FALSE, TRUE, <<>>, pos)
        BY <2>3 DEF BodyString, BodyRead
    <2>5. hand = BodyRead(FALSE, TRUE, Zero(type), pos)
        BY <2>2, <2>3, <2>4 DEF BodyField, Types, Zero
    <2>6. Zero(type) \in FieldValues
        BY EmptySeq DEF Zero, FieldValues
    <2>7. made.ok = TRUE /\ made.value = Zero(type) /\ made.pos = pos
        BY <2>1 DEF Got
    <2>8. hand.ok = TRUE /\ hand.present = FALSE /\ hand.value = Zero(type) /\ hand.pos = pos
        BY <2>5 DEF BodyRead
    <2> QED
        BY <1>3, <2>1, <2>6, <2>7, <2>8
<1>4. CASE pos # Len(buf)
    <2>1. made = Read(type, buf, pos)
        BY <1>2, <1>4 DEF ReadField
    <2>2. Twins(type, buf, pos, made, hand)
        BY <1>4, <2>1, TwinField
    <2> QED
        BY <1>4, <2>1, <2>2 DEF Twins
<1> QED
    BY <1>3, <1>4

-----------------------------------------------------------------------------
\* The decoders, field after field.

DecodeStates(buf) == [ok : BOOLEAN, values : Seq(FieldValues), pos : 0..Len(buf)]

\* A decoder goes from state to state.
LEMMA NextFieldType ==
    ASSUME NEW buf \in Seq(Byte), NEW type \in Types, NEW before \in DecodeStates(buf)
    PROVE  NextField(type, buf, before) \in DecodeStates(buf)
<1>1. PICK made : made = ReadField(type, buf, before.pos)
    OBVIOUS
<1>2. before.pos \in 0..Len(buf) /\ before.values \in Seq(FieldValues)
    BY DEF DecodeStates
<1>3. made.ok \in BOOLEAN /\ made.pos \in 0..Len(buf) /\ made.value \in FieldValues
    BY <1>1, <1>2, FieldTwins
<1>4. Append(before.values, made.value) \in Seq(FieldValues)
    BY <1>2, <1>3, AppendProperties
<1> QED
    BY <1>1, <1>3, <1>4 DEF NextField, DecodeStates

\* f[i] is what a generated decoder has after i fields.
Decoding(f, fields, buf, n) ==
    /\ f \in [0..n -> DecodeStates(buf)] /\ f[0] = Decoded(<<>>, 0)
    /\ \A i \in 1..n : f[i] = NextField(fields[i], buf, f[i - 1])

\* The states of a decoder, one for each field.
LEMMA DecodingRuns ==
    ASSUME NEW buf \in Seq(Byte), NEW fields \in Seq(Types), NEW n, n = Len(fields)
    PROVE  \E f : Decoding(f, fields, buf, n) /\ DecodeModel(fields, buf) = f[n]
<1>1. n \in Nat /\ \A i \in 1..n : fields[i] \in Types
    BY LenProperties, ElementOfSeq
<1>2. PICK S, start : S = DecodeStates(buf) /\ start = Decoded(<<>>, 0)
    OBVIOUS
<1>3. start \in S
    <2>1. 0 \in 0..Len(buf) /\ <<>> \in Seq(FieldValues)
        BY LenProperties, EmptySeq
    <2> QED
        BY <1>2, <2>1 DEF DecodeStates, Decoded
<1>4. PICK step : step = [p \in (1..n) \X S |-> NextField(fields[p[1]], buf, p[2])]
    OBVIOUS
<1>5. step \in [(1..n) \X S -> S] /\ \A i \in 1..n, before \in S : step[<<i, before>>] = NextField(fields[i], buf, before)
    <2>1. ASSUME NEW p \in (1..n) \X S PROVE NextField(fields[p[1]], buf, p[2]) \in S
        BY <1>1, <1>2, NextFieldType
    <2> QED
        BY <1>4, <2>1
<1>6. PICK f \in [0..n -> S] : Follows(f, start, step, n)
    BY <1>1, <1>3, <1>5, FunctionByRecursion
<1>7. ASSUME NEW i \in 1..n PROVE f[i] = NextField(fields[i], buf, f[i - 1])
    <2>1. i - 1 \in 0..n
        BY <1>1
    <2> QED
        BY <1>5, <1>6, <2>1 DEF Follows
<1>8. f = [i \in 0..n |-> IF i = 0 THEN Decoded(<<>>, 0) ELSE NextField(fields[i], buf, f[i - 1])]
    <2>1. f = [i \in 0..n |-> f[i]]
        BY <1>6
    <2>2. \A i \in 0..n : i = 0 \/ i \in 1..n
        BY <1>1
    <2>3. \A i \in 0..n : f[i] = IF i = 0 THEN Decoded(<<>>, 0) ELSE NextField(fields[i], buf, f[i - 1])
        BY <1>2, <1>6, <1>7, <2>2 DEF Follows
    <2> QED
        BY <2>1, <2>3
<1> DEFINE b == CHOOSE g : g = [i \in 0..n |->
           IF i = 0 THEN Decoded(<<>>, 0) ELSE NextField(fields[i], buf, g[i - 1])]
<1>9. DecodeModel(fields, buf) = b[n]
    BY <1>1 DEF DecodeModel, DecodeFrom, NextField, Decoded
<1>10. b = [i \in 0..n |-> IF i = 0 THEN Decoded(<<>>, 0) ELSE NextField(fields[i], buf, b[i - 1])]
    BY <1>8
<1> HIDE DEF b
<1>11. PICK g : g = b
    OBVIOUS
<1>12. PICK T : T = {i \in 0..n : g[i] = f[i]}
    OBVIOUS
<1>13. 0 \in T
    BY <1>1, <1>8, <1>10, <1>11, <1>12
<1>14. ASSUME NEW i \in 1..n, i - 1 \in T PROVE i \in T
    <2>1. i \in 0..n /\ i # 0 /\ g[i - 1] = f[i - 1]
        BY <1>1, <1>12, <1>14
    <2>2. g[i] = NextField(fields[i], buf, g[i - 1])
        BY <1>10, <1>11, <2>1
    <2> QED
        BY <1>7, <1>12, <2>1, <2>2
<1>15. n \in T
    <2>1. 0..n \subseteq T
        BY <1>1, <1>13, <1>14, IntervalInduction
    <2> QED
        BY <1>1, <2>1
<1>16. Decoding(f, fields, buf, n)
    BY <1>2, <1>6, <1>7 DEF Decoding, Follows
<1> QED
    BY <1>9, <1>11, <1>12, <1>15, <1>16

-----------------------------------------------------------------------------
\* DecodeCtx.

\* What DecodeCtx makes of one more field.
CtxDecoded(going, ok, ctx, pos) == [going |-> going, ok |-> ok, ctx |-> ctx, pos |-> pos]
NextCtx(i, buf, before) ==
    LET read == BodyField(CtxFields[i], buf, before.pos)
    IN IF ~before.going THEN before
       ELSE CtxDecoded(read.ok /\ read.present, read.ok, [before.ctx EXCEPT ![i] = read.value], read.pos)

\* The seven fields of FRpcCtx.
LEMMA CtxFieldsType ==
    /\ CtxFields \in Seq(Types) /\ Len(CtxFields) = 7 /\ DOMAIN CtxFields = 1..7
    /\ \A i \in 1..7 : CtxFields[i] \in Types
    /\ EmptyCtx = [i \in 1..7 |-> Zero(CtxFields[i])] /\ EmptyCtx \in [1..7 -> FieldValues]
<1>1. CtxFields \in Seq(Types) /\ Len(CtxFields) = 7
    BY DEF CtxFields, Types
<1>2. DOMAIN CtxFields = 1..7 /\ \A i \in 1..7 : CtxFields[i] \in Types
    BY <1>1, LenProperties, ElementOfSeq
<1>3. EmptyCtx = [i \in 1..7 |-> Zero(CtxFields[i])]
    BY <1>2 DEF EmptyCtx, Zeros
<1>4. \A i \in 1..7 : Zero(CtxFields[i]) \in FieldValues
    BY EmptySeq DEF Zero, FieldValues
<1> QED
    BY <1>1, <1>2, <1>3, <1>4

\* What both have after i fields.
Together(i, made, hand, buf) ==
    /\ made.pos \in 0..Len(buf) /\ made.values \in Seq(FieldValues)
    /\ hand.ok \in BOOLEAN /\ hand.going \in BOOLEAN /\ hand.pos \in 0..Len(buf)
    /\ hand.ctx \in [1..7 -> FieldValues]
    /\ hand.ok = made.ok /\ (hand.going => hand.ok)
    /\ hand.ok => /\ Len(made.values) = i
                  /\ \A j \in 1..i : hand.ctx[j] = made.values[j]
                  /\ \A j \in (i + 1)..7 : hand.ctx[j] = Zero(CtxFields[j])
                  /\ hand.going => hand.pos = made.pos
                  /\ ~hand.going => made.pos = Len(buf)

\* Both readers stay together over one more field.
LEMMA NextTogether ==
    ASSUME NEW buf \in Seq(Byte), NEW i \in 1..7, NEW made, NEW hand, Together(i - 1, made, hand, buf),
           made \in DecodeStates(buf)
    PROVE  Together(i, NextField(CtxFields[i], buf, made), NextCtx(i, buf, hand), buf)
<1>1. PICK type \in Types : type = CtxFields[i]
    BY CtxFieldsType
<1>2. PICK m, h : m = NextField(type, buf, made) /\ h = NextCtx(i, buf, hand)
    OBVIOUS
<1>3. made.pos \in 0..Len(buf) /\ made.values \in Seq(FieldValues) /\ hand.ctx \in [1..7 -> FieldValues]
    BY DEF Together
<1>4. CASE ~hand.ok
    <2>1. m = made /\ h = hand
        BY <1>2, <1>4 DEF Together, NextField, NextCtx
    <2> QED
        BY <1>1, <1>2, <1>4, <2>1 DEF Together
<1>5. CASE hand.ok
    <2>1. PICK r : r = ReadField(type, buf, made.pos)
        OBVIOUS
    <2>2. /\ r.ok \in BOOLEAN /\ r.pos \in 0..Len(buf) /\ r.value \in FieldValues
          /\ made.pos = Len(buf) => r.ok /\ r.value = Zero(type) /\ r.pos = made.pos
        BY <1>3, <2>1, FieldTwins
    <2>3. m = [ok |-> r.ok, values |-> Append(made.values, r.value), pos |-> r.pos]
        BY <1>2, <1>5, <2>1 DEF NextField, Together
    <2>4. PICK values : values = Append(made.values, r.value)
        OBVIOUS
    <2>5. /\ values \in Seq(FieldValues) /\ Len(values) = i /\ values[i] = r.value
          /\ \A j \in 1..(i - 1) : values[j] = made.values[j]
        <3>1. Len(made.values) = i - 1
            BY <1>5 DEF Together
        <3>2. /\ values \in Seq(FieldValues) /\ Len(values) = Len(made.values) + 1
              /\ \A j \in 1..Len(made.values) : values[j] = made.values[j]
              /\ values[Len(made.values) + 1] = r.value
            BY <1>3, <2>2, <2>4, AppendProperties
        <3>3. (i - 1) + 1 = i
            OBVIOUS
        <3> QED
            BY <3>1, <3>2, <3>3
    <2>6. m.ok = r.ok /\ m.values = values /\ m.pos = r.pos
        BY <2>3, <2>4
    <2>7. \A j \in 1..i : j = i \/ j \in 1..(i - 1)
        OBVIOUS
    <2>8. \A j \in (i + 1)..7 : j \in ((i - 1) + 1)..7 /\ j # i /\ j \in 1..7
        OBVIOUS
    <2>9. CASE ~hand.going
        <3>1. h = hand
            BY <1>2, <2>9 DEF NextCtx
        <3>2. made.pos = Len(buf)
            BY <1>5, <2>9 DEF Together
        <3>3. i \in ((i - 1) + 1)..7
            OBVIOUS
        <3>4. hand.ctx[i] = r.value
            BY <1>1, <1>5, <2>2, <3>2, <3>3 DEF Together
        <3>5. \A j \in 1..i : hand.ctx[j] = values[j]
            BY <1>5, <2>5, <2>7, <3>4 DEF Together
        <3>6. \A j \in (i + 1)..7 : hand.ctx[j] = Zero(CtxFields[j])
            BY <1>5, <2>8 DEF Together
        <3>7. hand.ok = TRUE /\ m.ok = TRUE /\ hand.going = FALSE /\ m.pos = Len(buf) /\ m.values = values
            BY <1>5, <2>2, <2>6, <2>9, <3>2 DEF Together
        <3>8. hand.pos \in 0..Len(buf) /\ m.pos \in 0..Len(buf)
            BY <2>2, <2>6 DEF Together
        <3>9. Together(i, m, hand, buf)
            BY <1>3, <2>5, <3>5, <3>6, <3>7, <3>8 DEF Together
        <3> QED
            BY <1>1, <1>2, <3>1, <3>9
    <2>10. CASE hand.going
        <3>1. hand.pos = made.pos
            BY <1>5, <2>10 DEF Together
        <3>2. PICK b : b = BodyField(type, buf, made.pos)
            OBVIOUS
        <3>3. /\ b.pos \in 0..Len(buf) /\ b.value \in FieldValues /\ b.ok = r.ok
              /\ made.pos = Len(buf) => ~b.present /\ b.value = r.value
              /\ made.pos # Len(buf) => Twins(type, buf, made.pos, r, b)
            <4>1. /\ b.pos \in 0..Len(buf) /\ b.value \in FieldValues /\ b.ok = r.ok
                  /\ made.pos = Len(buf) => ~b.present /\ b.value = Zero(type)
                  /\ made.pos # Len(buf) => Twins(type, buf, made.pos, r, b)
                BY <1>3, <2>1, <3>2, FieldTwins
            <4> QED
                BY <2>2, <4>1
        <3>4. PICK ctx : ctx = [hand.ctx EXCEPT ![i] = b.value]
            OBVIOUS
        <3>5. /\ ctx \in [1..7 -> FieldValues] /\ ctx[i] = b.value
              /\ \A j \in 1..7 : j # i => ctx[j] = hand.ctx[j]
            BY <1>3, <3>3, <3>4
        <3>6. h = CtxDecoded(b.ok /\ b.present, b.ok, ctx, b.pos)
            BY <1>1, <1>2, <2>10, <3>1, <3>2, <3>4 DEF NextCtx
        <3>7. h.going = (b.ok /\ b.present) /\ h.ok = b.ok /\ h.ctx = ctx /\ h.pos = b.pos
            BY <3>6 DEF CtxDecoded
        <3>8. r.ok => b.value = r.value
            BY <3>3 DEF Twins
        <3>9. r.ok => \A j \in 1..i : ctx[j] = values[j]
            <4>1. \A j \in 1..(i - 1) : j \in 1..7 /\ j # i
                OBVIOUS
            <4> QED
                BY <1>5, <2>5, <2>7, <3>5, <3>8, <4>1 DEF Together
        <3>10. \A j \in (i + 1)..7 : ctx[j] = Zero(CtxFields[j])
            BY <1>5, <2>8, <3>5 DEF Together
        <3>11. r.ok => (b.present => b.pos = r.pos) /\ (~b.present => r.pos = Len(buf))
            BY <2>2, <3>3 DEF Twins
        <3>12. h.going \in BOOLEAN /\ (h.going <=> r.ok /\ b.present) /\ h.ok = r.ok
            BY <3>3, <3>7
        <3> QED
            BY <1>1, <1>2, <2>2, <2>5, <2>6, <3>3, <3>5, <3>7, <3>9, <3>10, <3>11, <3>12 DEF Together
    <2> QED
        BY <2>9, <2>10
<1> QED
    BY <1>4, <1>5

CtxStates(buf) == [going : BOOLEAN, ok : BOOLEAN, ctx : [1..7 -> FieldValues], pos : 0..Len(buf)]

\* DecodeCtx goes from state to state.
LEMMA NextCtxType ==
    ASSUME NEW buf \in Seq(Byte), NEW i \in 1..7, NEW before \in CtxStates(buf)
    PROVE  NextCtx(i, buf, before) \in CtxStates(buf)
<1>1. before.pos \in 0..Len(buf) /\ before.ctx \in [1..7 -> FieldValues]
    BY DEF CtxStates
<1>2. PICK type \in Types : type = CtxFields[i]
    BY CtxFieldsType
<1>3. PICK b, r : b = BodyField(type, buf, before.pos) /\ r = ReadField(type, buf, before.pos)
    OBVIOUS
<1>4. r.ok \in BOOLEAN /\ b.pos \in 0..Len(buf) /\ b.value \in FieldValues /\ b.ok = r.ok
    BY <1>1, <1>3, FieldTwins
<1>5. [before.ctx EXCEPT ![i] = b.value] \in [1..7 -> FieldValues]
    BY <1>1, <1>4
<1>6. (b.ok /\ b.present) \in BOOLEAN
    OBVIOUS
<1> QED
    BY <1>2, <1>3, <1>4, <1>5, <1>6 DEF NextCtx, CtxDecoded, CtxStates

\* DecodeCtx finds what the generated decoder of FRpcCtx finds.
LEMMA CtxAgrees ==
    ASSUME NEW buf \in Seq(Byte), NEW hand, hand = DecodeCtx(buf), NEW made, made = DecodeModel(CtxFields, buf)
    PROVE  hand.ok = made.ok /\ made.ok \in BOOLEAN /\ (hand.ok => hand.ctx = made.values)
<1>1. PICK S, start : S = CtxStates(buf) /\ start = CtxDecoded(TRUE, TRUE, EmptyCtx, 0)
    OBVIOUS
<1>2. start \in S
    <2>1. 0 \in 0..Len(buf)
        BY LenProperties
    <2> QED
        BY <1>1, <2>1, CtxFieldsType DEF CtxStates, CtxDecoded
<1>3. PICK step : step = [p \in (1..7) \X S |-> NextCtx(p[1], buf, p[2])]
    OBVIOUS
<1>4. step \in [(1..7) \X S -> S] /\ \A i \in 1..7, before \in S : step[<<i, before>>] = NextCtx(i, buf, before)
    <2>1. ASSUME NEW p \in (1..7) \X S PROVE NextCtx(p[1], buf, p[2]) \in S
        BY <1>1, NextCtxType
    <2> QED
        BY <1>3, <2>1
<1>5. PICK f \in [0..7 -> S] : Follows(f, start, step, 7)
    BY <1>2, <1>4, FunctionByRecursion
<1>6. ASSUME NEW i \in 1..7 PROVE f[i] = NextCtx(i, buf, f[i - 1])
    <2>1. i - 1 \in 0..7
        OBVIOUS
    <2> QED
        BY <1>4, <1>5, <2>1 DEF Follows
<1>7. f = [i \in 0..7 |-> IF i = 0 THEN start ELSE NextCtx(i, buf, f[i - 1])]
    <2>1. f = [i \in 0..7 |-> f[i]]
        BY <1>5
    <2>2. \A i \in 0..7 : i = 0 \/ i \in 1..7
        OBVIOUS
    <2>3. \A i \in 0..7 : f[i] = IF i = 0 THEN start ELSE NextCtx(i, buf, f[i - 1])
        BY <1>5, <1>6, <2>2 DEF Follows
    <2> QED
        BY <2>1, <2>3
<1> DEFINE b == CHOOSE g : g = [i \in 0..Len(CtxFields) |->
           IF i = 0 THEN CtxDecoded(TRUE, TRUE, EmptyCtx, 0) ELSE NextCtx(i, buf, g[i - 1])]
<1>8. DecodeCtx(buf) = b[7]
    <2>1. DecodeCtx(buf) = b[Len(CtxFields)]
        BY DEF DecodeCtx, NextCtx, CtxDecoded
    <2> HIDE DEF b
    <2> QED
        BY <2>1, CtxFieldsType
<1>9. b = [i \in 0..7 |-> IF i = 0 THEN start ELSE NextCtx(i, buf, b[i - 1])]
    <2>1. f = [i \in 0..Len(CtxFields) |-> IF i = 0 THEN CtxDecoded(TRUE, TRUE, EmptyCtx, 0) ELSE NextCtx(i, buf, f[i - 1])]
        BY <1>1, <1>7, CtxFieldsType
    <2>2. b = [i \in 0..Len(CtxFields) |-> IF i = 0 THEN CtxDecoded(TRUE, TRUE, EmptyCtx, 0) ELSE NextCtx(i, buf, b[i - 1])]
        BY <2>1
    <2> HIDE DEF b
    <2> QED
        BY <1>1, <2>2, CtxFieldsType
<1> HIDE DEF b
<1>10. PICK g : g = b
    OBVIOUS
<1>11. PICK m : Decoding(m, CtxFields, buf, 7) /\ DecodeModel(CtxFields, buf) = m[7]
    BY CtxFieldsType, DecodingRuns
<1>12. PICK T : T = {i \in 0..7 : g[i] = f[i] /\ Together(i, m[i], g[i], buf)}
    OBVIOUS
<1>13. 0 \in T
    <2>1. g[0] = start /\ f[0] = start /\ m[0] = Decoded(<<>>, 0) /\ start \in CtxStates(buf)
        <3>1. 0 \in 0..7
            OBVIOUS
        <3>2. g[0] = start
            BY <1>9, <1>10, <3>1
        <3>3. f[0] = start
            BY <1>7, <3>1
        <3>4. m[0] = Decoded(<<>>, 0)
            BY <1>11 DEF Decoding
        <3> QED
            BY <1>1, <1>2, <3>2, <3>3, <3>4
    <2>2. start.going = TRUE /\ start.ok = TRUE /\ start.ctx = EmptyCtx /\ start.pos = 0
        BY <1>1 DEF CtxDecoded
    <2>3. m[0].ok = TRUE /\ m[0].values = <<>> /\ m[0].pos = 0
        BY <2>1 DEF Decoded
    <2>4. 0 \in 0..Len(buf) /\ <<>> \in Seq(FieldValues) /\ Len(<<>>) = 0
        BY LenProperties, EmptySeq
    <2>5. \A j \in (0 + 1)..7 : EmptyCtx[j] = Zero(CtxFields[j])
        BY CtxFieldsType
    <2>6. Together(0, m[0], start, buf)
        <3>1. PICK made0 : made0 = m[0]
            OBVIOUS
        <3>2. made0.ok = TRUE /\ made0.values = <<>> /\ made0.pos = 0
            BY <2>3, <3>1
        <3>3. \A j \in 1..0 : FALSE
            OBVIOUS
        <3>4. EmptyCtx \in [1..7 -> FieldValues]
            BY CtxFieldsType
        <3>5. Together(0, made0, start, buf)
            BY <2>2, <2>4, <2>5, <3>2, <3>3, <3>4 DEF Together
        <3> QED
            BY <3>1, <3>5
    <2> QED
        BY <1>12, <2>1, <2>6
<1>14. ASSUME NEW i \in 1..7, i - 1 \in T PROVE i \in T
    <2>1. i \in 0..7 /\ i # 0 /\ i - 1 \in 0..7 /\ g[i - 1] = f[i - 1] /\ Together(i - 1, m[i - 1], g[i - 1], buf)
        BY <1>12, <1>14
    <2>2. g[i] = NextCtx(i, buf, g[i - 1])
        BY <1>9, <1>10, <2>1
    <2>3. m[i] = NextField(CtxFields[i], buf, m[i - 1]) /\ m[i - 1] \in DecodeStates(buf)
        BY <1>11, <2>1 DEF Decoding
    <2>4. Together(i, m[i], g[i], buf)
        BY <2>1, <2>2, <2>3, NextTogether
    <2> QED
        BY <1>6, <1>12, <2>1, <2>2, <2>4
<1>15. 7 \in T
    <2>1. 0..7 \subseteq T
        BY <1>13, <1>14, IntervalInduction
    <2> QED
        BY <2>1
<1>16. hand = g[7] /\ made = m[7] /\ Together(7, made, hand, buf)
    BY <1>8, <1>10, <1>11, <1>12, <1>15
<1>17. made.ok \in BOOLEAN
    BY <1>16 DEF Together
<1>18. ASSUME hand.ok PROVE hand.ctx = made.values
    <2>1. /\ hand.ctx \in [1..7 -> FieldValues] /\ made.values \in Seq(FieldValues) /\ Len(made.values) = 7
          /\ \A j \in 1..7 : hand.ctx[j] = made.values[j]
        BY <1>16, <1>18 DEF Together
    <2>2. PICK c, v : c = hand.ctx /\ v = made.values
        OBVIOUS
    <2>3. v \in [1..7 -> FieldValues] /\ c \in [1..7 -> FieldValues] /\ \A j \in 1..7 : c[j] = v[j]
        BY <2>1, <2>2, LenProperties
    <2>4. c = v
        BY <2>3
    <2> QED
        BY <2>2, <2>4
<1> QED
    BY <1>16, <1>17, <1>18 DEF Together

-----------------------------------------------------------------------------
\* DecodeStatus.

\* The two fields of FRpcError.
LEMMA ErrorFieldsType ==
    /\ ErrorFields \in Seq(Types) /\ Len(ErrorFields) = 2 /\ DOMAIN ErrorFields = 1..2
    /\ ErrorFields[1] = "u32" /\ ErrorFields[2] = "string" /\ "u32" \in Types /\ "string" \in Types
<1>1. /\ ErrorFields \in Seq(Types) /\ Len(ErrorFields) = 2
      /\ ErrorFields[1] = "u32" /\ ErrorFields[2] = "string" /\ "u32" \in Types /\ "string" \in Types
    BY DEF ErrorFields, Types
<1> QED
    BY <1>1, LenProperties

\* The generated decoder of FRpcError, as its two reads.
LEMMA ErrorReads ==
    ASSUME NEW body \in Seq(Byte), NEW error, error = DecodeModel(ErrorFields, body),
           NEW code, code = ReadField("u32", body, 0), NEW message, message = ReadField("string", body, code.pos)
    PROVE  /\ error.ok <=> code.ok /\ message.ok
           /\ error.ok => error.values[1] = code.value /\ error.values[2] = message.value /\ error.pos = message.pos
<1>1. PICK m : Decoding(m, ErrorFields, body, 2) /\ error = m[2]
    BY ErrorFieldsType, DecodingRuns
<1>2. m[0] = Decoded(<<>>, 0) /\ m[1] = NextField("u32", body, m[0]) /\ m[2] = NextField("string", body, m[1])
    <2>1. \A i \in 1..2 : m[i] = NextField(ErrorFields[i], body, m[i - 1])
        BY <1>1 DEF Decoding
    <2>2. m[1] = NextField(ErrorFields[1], body, m[0]) /\ m[2] = NextField(ErrorFields[2], body, m[1])
        BY <2>1
    <2> QED
        BY <1>1, <2>2, ErrorFieldsType DEF Decoding
<1>3. 0 \in 0..Len(body)
    BY LenProperties
<1>4. code.value \in FieldValues /\ code.pos \in 0..Len(body)
    BY <1>3, ErrorFieldsType, FieldTwins
<1>5. message.value \in FieldValues
    BY <1>4, ErrorFieldsType, FieldTwins
<1>6. PICK one, two : one = Append(<<>>, code.value) /\ two = Append(one, message.value)
    OBVIOUS
<1>7. two[1] = code.value /\ two[2] = message.value
    <2>1. <<>> \in Seq(FieldValues) /\ Len(<<>>) = 0
        BY EmptySeq
    <2>2. one \in Seq(FieldValues) /\ Len(one) = 1 /\ one[1] = code.value
        BY <1>4, <1>6, <2>1, AppendProperties
    <2>3. two[Len(one) + 1] = message.value /\ \A j \in 1..Len(one) : two[j] = one[j]
        BY <1>5, <1>6, <2>2, AppendProperties
    <2>4. 1 \in 1..1 /\ 1 + 1 = 2
        OBVIOUS
    <2> QED
        BY <2>2, <2>3, <2>4
<1>8. m[1] = [ok |-> code.ok, values |-> one, pos |-> code.pos]
    BY <1>2, <1>6 DEF Decoded, NextField
<1>9. PICK m1 : m1 = m[1] /\ m1.ok = code.ok /\ m1.values = one /\ m1.pos = code.pos
    BY <1>8
<1>10. CASE ~code.ok
    <2>1. error = m1
        BY <1>1, <1>2, <1>9, <1>10 DEF NextField
    <2> QED
        BY <1>9, <1>10, <2>1
<1>11. CASE code.ok
    <2>1. error = [ok |-> message.ok, values |-> two, pos |-> message.pos]
        BY <1>1, <1>2, <1>6, <1>9, <1>11 DEF NextField
    <2> QED
        BY <1>7, <1>11, <2>1
<1> QED
    BY <1>10, <1>11

ErrorTwin(body, error) ==
    IF error.ok /\ body # <<>> THEN [code |-> error.values[1], message |-> error.values[2]] ELSE Internal("")

\* DecodeStatus makes of a body what the generated decoder of FRpcError makes
\* of it, or INTERNAL.
LEMMA StatusAgrees ==
    ASSUME NEW body \in Seq(Byte), NEW error, error = DecodeModel(ErrorFields, body),
           NEW status, status = DecodeStatus(body)
    PROVE  /\ status = ErrorTwin(body, error)
           /\ error.ok /\ error.pos = Len(body) /\ Len(body) > WordLen => EncodeStatus(status) = body
<1>1. PICK n \in Nat : n = Len(body) /\ 0 \in 0..Len(body) /\ (body = <<>> <=> n = 0)
    BY LenProperties, EmptySeq
<1>2. PICK c1 : c1 = ReadField("u32", body, 0)
    OBVIOUS
<1>3. PICK h1 : h1 = BodyField("u32", body, 0)
    OBVIOUS
<1>4. /\ c1.ok \in BOOLEAN /\ c1.pos \in 0..Len(body)
      /\ h1.ok = c1.ok
      /\ 0 = Len(body) => c1.ok /\ ~h1.present
      /\ 0 # Len(body) => Twins("u32", body, 0, c1, h1)
    BY <1>1, <1>2, <1>3, ErrorFieldsType, FieldTwins
<1>5. PICK c2, h2 : c2 = ReadField("string", body, c1.pos) /\ h2 = BodyField("string", body, c1.pos)
    OBVIOUS
<1>6. /\ c2.ok \in BOOLEAN /\ h2.ok = c2.ok
      /\ c1.pos = Len(body) => c2.ok /\ c2.value = h2.value /\ c2.pos = c1.pos
      /\ c1.pos # Len(body) => Twins("string", body, c1.pos, c2, h2)
    <2>1. /\ c2.ok \in BOOLEAN /\ h2.ok = c2.ok
          /\ c1.pos = Len(body) => c2.ok /\ c2.value = Zero("string") /\ c2.pos = c1.pos /\ h2.value = Zero("string")
          /\ c1.pos # Len(body) => Twins("string", body, c1.pos, c2, h2)
        BY <1>4, <1>5, ErrorFieldsType, FieldTwins
    <2> QED
        BY <2>1
<1>7. /\ error.ok <=> c1.ok /\ c2.ok
      /\ error.ok => error.values[1] = c1.value /\ error.values[2] = c2.value /\ error.pos = c2.pos
    BY <1>2, <1>5, ErrorReads
<1>8. h1 = BodyU32(body, 0) /\ BodyString(body, c1.pos) = h2
    BY <1>3, <1>5 DEF BodyField
<1>9. PICK h3 : h3 = BodyString(body, h1.pos)
    OBVIOUS
<1>10. status = IF ~h1.ok \/ ~h1.present THEN Internal("no status code")
                ELSE IF ~h3.ok THEN Internal("undecodable message")
                ELSE [code |-> h1.value, message |-> h3.value]
    BY <1>8, <1>9 DEF DecodeStatus
<1>11. \A s, t : Internal(s) = Internal(t)
    BY DEF Internal
<1>12. CASE body = <<>>
    <2>1. status = Internal("no status code")
        BY <1>1, <1>4, <1>10, <1>12
    <2>2. ~(Len(body) > WordLen)
        BY <1>1, <1>12, HeaderType
    <2> QED
        BY <1>11, <1>12, <2>1, <2>2 DEF ErrorTwin
<1>13. CASE body # <<>> /\ ~c1.ok
    <2>1. status = Internal("no status code")
        BY <1>4, <1>10, <1>13
    <2> QED
        BY <1>7, <1>11, <1>13, <2>1 DEF ErrorTwin
<1>14. CASE body # <<>> /\ c1.ok
    <2>1. Twins("u32", body, 0, c1, h1)
        BY <1>1, <1>4, <1>14
    <2>2. h1.present /\ h1.ok /\ h1.pos = c1.pos /\ h1.value = c1.value
        BY <1>14, <2>1 DEF Twins
    <2>3. h3 = h2
        BY <1>8, <1>9, <2>2
    <2>4. CASE ~c2.ok
        <3>1. status = Internal("undecodable message")
            BY <1>6, <1>10, <2>2, <2>3, <2>4
        <3> QED
            BY <1>7, <1>11, <2>4, <3>1 DEF ErrorTwin
    <2>5. CASE c2.ok
        <3>1. status = [code |-> h1.value, message |-> h2.value]
            BY <1>6, <1>10, <2>2, <2>3, <2>5
        <3>2. h2.value = c2.value
            BY <1>6, <2>5 DEF Twins
        <3>3. status = [code |-> c1.value, message |-> c2.value]
            BY <2>2, <3>1, <3>2
        <3>4. ASSUME c2.pos = Len(body), Len(body) > WordLen PROVE EncodeStatus(status) = body
            <4>1. PICK code, message : code = c1.value /\ message = c2.value
                OBVIOUS
            <4>2. PICK p, q : p = Put("u32", code) /\ q = Put("string", message)
                OBVIOUS
            <4>3. Sendable("u32", code) /\ Holds(body, 0, p) /\ c1.pos = Len(p)
                <5>1. c1.pos = 0 + Len(p) /\ Sendable("u32", code) /\ Holds(body, 0, p)
                    BY <1>14, <2>1, <4>1, <4>2 DEF Twins
                <5>2. p \in Seq(Byte)
                    BY <4>2, <5>1, PutBytes
                <5>3. Len(p) \in Nat
                    BY <5>2, LenProperties
                <5> QED
                    BY <5>1, <5>3
            <4>4. Len(p) = WordLen
                <5>1. code \in Nat /\ p = Word(code)
                    BY <4>2, <4>3 DEF Sendable, U32, Put
                <5> QED
                    BY <5>1, WordBytes
            <4>5. c1.pos # Len(body)
                BY <1>1, <3>4, <4>3, <4>4, HeaderType
            <4>6. Sendable("string", message) /\ Holds(body, Len(p), q) /\ Len(body) = Len(p) + Len(q)
                BY <1>6, <2>5, <3>4, <4>1, <4>2, <4>3, <4>5 DEF Twins
            <4>7. p \in Seq(Byte) /\ q \in Seq(Byte)
                BY <4>2, <4>3, <4>6, PutBytes
            <4>8. p \o q = body
                <5>1. Holds(body, 0, p \o q)
                    <6>1. 0 + Len(p) = Len(p)
                        BY <4>4, HeaderType
                    <6> QED
                        BY <4>3, <4>6, <4>7, <6>1, HoldsJoined
                <5>2. PICK r : r = p \o q
                    OBVIOUS
                <5>3. r \in Seq(Byte) /\ Len(r) = n
                    BY <1>1, <4>6, <4>7, <5>2, ConcatProperties
                <5>4. \A i \in 1..n : 0 + i = i
                    OBVIOUS
                <5>5. \A i \in 1..n : body[i] = r[i]
                    BY <5>1, <5>2, <5>3, <5>4 DEF Holds
                <5>6. r = body
                    BY <1>1, <5>3, <5>5, SeqEqual
                <5> QED
                    BY <5>2, <5>6
            <4>9. PICK fields, values : fields = ErrorFields /\ values = <<code, message>>
                OBVIOUS
            <4>10. EncodeStatus(status) = EncodeModel(fields, values)
                BY <3>3, <4>1, <4>9 DEF EncodeStatus
            <4>11. SendableAll(fields, values) /\ fields \in Seq(Types) /\ Len(fields) = 2 /\ DOMAIN fields = 1..2
                <5>1. DOMAIN values = 1..2 /\ values[1] = code /\ values[2] = message
                    BY <4>9
                <5>2. \A i \in 1..2 : i = 1 \/ i = 2
                    OBVIOUS
                <5> QED
                    BY <4>3, <4>6, <4>9, <5>1, <5>2, ErrorFieldsType DEF SendableAll
            <4>12. PICK parts : parts = Parts(fields, values)
                OBVIOUS
            <4>13. parts \in Seq(Seq(Byte)) /\ Len(parts) = 2 /\ EncodeModel(fields, values) = FlattenSeq(parts)
                BY <4>11, <4>12, PartsType
            <4>14. parts[1] = p /\ parts[2] = q
                <5>1. values[1] = code /\ values[2] = message
                    BY <4>9
                <5> QED
                    BY <4>2, <4>9, <4>11, <4>12, <5>1, ErrorFieldsType DEF Parts
            <4>15. PICK h : h[0] = <<>> /\ h[2] = FlattenSeq(parts) /\ h[1] = h[0] \o parts[1] /\ h[2] = h[1] \o parts[2]
                <5>1. PICK h : /\ h[0] = <<>> /\ h[2] = FlattenSeq(parts)
                               /\ \A i \in 1..2 : h[i] = h[i - 1] \o parts[i]
                    <6>1. \E h \in [0..Len(parts) -> Seq(Byte)] :
                            /\ h[0] = <<>> /\ h[Len(parts)] = FlattenSeq(parts)
                            /\ \A i \in 1..Len(parts) : h[i] = h[i - 1] \o parts[i]
                        BY <4>13, FlattenEffect
                    <6> QED
                        BY <4>13, <6>1
                <5>2. h[1] = h[0] \o parts[1] /\ h[2] = h[1] \o parts[2]
                    <6>1. \A i \in 1..2 : \A k : k = i - 1 => h[i] = h[k] \o parts[i]
                        BY <5>1
                    <6>2. 1 \in 1..2 /\ 2 \in 1..2 /\ 0 = 1 - 1 /\ 1 = 2 - 1
                        OBVIOUS
                    <6> QED
                        BY <6>1, <6>2, Zenon
                <5> QED
                    BY <5>1, <5>2
            <4>16. h[1] = p
                BY <4>7, <4>14, <4>15, ConcatEmptySeq
            <4> QED
                BY <4>8, <4>10, <4>13, <4>14, <4>15, <4>16
        <3> QED
            BY <1>7, <1>14, <2>5, <3>3, <3>4 DEF ErrorTwin
    <2> QED
        BY <2>4, <2>5
<1> QED
    BY <1>4, <1>12, <1>13, <1>14 DEF ErrorTwin

-----------------------------------------------------------------------------
\* The first fields of a model, and what is read when the end is cut off.

\* e[k] is what is written of the first k fields.
FirstPut(fields, values, k) == EncodeModel(SubSeq(fields, 1, k), SubSeq(values, 1, k))
Fronts(e, fields, values, all, n) ==
    /\ n \in Nat /\ n = Len(fields) /\ n = Len(values) /\ all = EncodeModel(fields, values) /\ all \in Seq(Byte)
    /\ e \in [0..n -> Seq(Byte)] /\ e[0] = <<>> /\ e[n] = all
    /\ \A k \in 0..n : e[k] = FirstPut(fields, values, k) /\ Holds(all, 0, e[k])
    /\ \A k \in 1..n : /\ Sendable(fields[k], values[k]) /\ Holds(all, Len(e[k - 1]), Put(fields[k], values[k]))
                       /\ Len(e[k]) = Len(e[k - 1]) + Len(Put(fields[k], values[k]))

\* The parts of the first k fields.
LEMMA FrontParts ==
    ASSUME NEW S, NEW fields \in Seq(S), NEW V, NEW values \in Seq(V), SendableAll(fields, values),
           NEW k \in 0..Len(fields)
    PROVE  /\ SendableAll(SubSeq(fields, 1, k), SubSeq(values, 1, k)) /\ SubSeq(fields, 1, k) \in Seq(S)
           /\ Len(SubSeq(fields, 1, k)) = k
           /\ \A i \in 1..k : Parts(SubSeq(fields, 1, k), SubSeq(values, 1, k))[i] = Parts(fields, values)[i]
<1>1. PICK n \in Nat : n = Len(fields) /\ n = Len(values) /\ DOMAIN fields = 1..n /\ DOMAIN values = 1..n /\ k \in 0..n
    BY LenProperties DEF SendableAll
<1>2. PICK f, v : f = SubSeq(fields, 1, k) /\ v = SubSeq(values, 1, k)
    OBVIOUS
<1>3. f \in Seq(S) /\ Len(f) = k /\ \A i \in 1..k : f[i] = fields[i]
    BY <1>1, <1>2
<1>4. v \in Seq(V) /\ Len(v) = k /\ \A i \in 1..k : v[i] = values[i]
    BY <1>1, <1>2
<1>5. DOMAIN f = 1..k /\ DOMAIN v = 1..k /\ \A i \in 1..k : i \in 1..n
    BY <1>1, <1>3, <1>4, LenProperties
<1>6. SendableAll(f, v)
    BY <1>1, <1>3, <1>4, <1>5 DEF SendableAll
<1>7. \A i \in 1..k : Parts(f, v)[i] = Parts(fields, values)[i]
    BY <1>1, <1>3, <1>4, <1>5 DEF Parts
<1> QED
    BY <1>2, <1>3, <1>6, <1>7

\* There are such fronts of what is written.
LEMMA FrontEffect ==
    ASSUME NEW S, NEW fields \in Seq(S), NEW V, NEW values \in Seq(V), SendableAll(fields, values)
    PROVE  \E e : Fronts(e, fields, values, EncodeModel(fields, values), Len(fields))
<1>1. PICK n \in Nat : n = Len(fields) /\ n = Len(values) /\ DOMAIN fields = 1..n /\ DOMAIN values = 1..n
    BY LenProperties DEF SendableAll
<1>2. PICK q : q = Parts(fields, values)
    OBVIOUS
<1>3. PICK all \in Seq(Byte) : all = EncodeModel(fields, values)
    BY PartsType
<1>4. q \in Seq(Seq(Byte)) /\ Len(q) = n /\ all = FlattenSeq(q)
    BY <1>1, <1>2, <1>3, PartsType
<1>5. \A i \in 1..n : q[i] \in Seq(Byte) /\ q[i] = Put(fields[i], values[i]) /\ Sendable(fields[i], values[i])
    <2>1. \A i \in 1..n : q[i] \in Seq(Byte)
        BY <1>4, ElementOfSeq
    <2> QED
        BY <1>1, <1>2, <2>1 DEF Parts, SendableAll
<1>6. PICK h \in [0..n -> Seq(Byte)] : h[0] = <<>> /\ h[n] = all /\ \A i \in 1..n : h[i] = h[i - 1] \o q[i]
    BY <1>4, FlattenEffect
<1>7. ASSUME NEW k \in 0..n PROVE h[k] = FirstPut(fields, values, k)
    <2>1. PICK f, v : f = SubSeq(fields, 1, k) /\ v = SubSeq(values, 1, k)
        OBVIOUS
    <2>2. PICK r : r = Parts(f, v)
        OBVIOUS
    <2>3. SendableAll(f, v) /\ f \in Seq(S) /\ Len(f) = k /\ \A i \in 1..k : r[i] = q[i]
        <3>1. k \in 0..Len(fields)
            BY <1>1
        <3> QED
            BY <1>2, <2>1, <2>2, <3>1, FrontParts
    <2>4. r \in Seq(Seq(Byte)) /\ Len(r) = k /\ EncodeModel(f, v) = FlattenSeq(r)
        BY <2>2, <2>3, PartsType
    <2>5. PICK g \in [0..k -> Seq(Byte)] : g[0] = <<>> /\ g[k] = FlattenSeq(r) /\ \A i \in 1..k : g[i] = g[i - 1] \o r[i]
        BY <2>4, FlattenEffect
    <2>6. PICK T : T = {i \in 0..k : g[i] = h[i]}
        OBVIOUS
    <2>7. 0 \in T
        BY <1>6, <2>5, <2>6
    <2>8. ASSUME NEW i \in 1..k, i - 1 \in T PROVE i \in T
        <3>1. i \in 1..n /\ i \in 0..k /\ g[i - 1] = h[i - 1]
            BY <2>6, <2>8
        <3>2. g[i] = g[i - 1] \o r[i] /\ h[i] = h[i - 1] \o q[i] /\ r[i] = q[i]
            BY <1>6, <2>3, <2>5, <3>1
        <3> QED
            BY <2>6, <3>1, <3>2
    <2>9. 0..k \subseteq T
        <3>1. k \in Nat
            OBVIOUS
        <3> QED
            BY <2>7, <2>8, <3>1, IntervalInduction
    <2>10. k \in T
        BY <2>9
    <2>11. g[k] = h[k]
        BY <2>6, <2>10
    <2> QED
        BY <2>1, <2>4, <2>5, <2>11 DEF FirstPut
<1>8. PICK T : T = {k \in 0..n : Holds(all, 0, h[n - k])}
    OBVIOUS
<1>9. 0 \in T
    <2>1. n - 0 = n
        OBVIOUS
    <2>2. Holds(all, 0, all)
        BY HoldsAll
    <2> QED
        BY <1>6, <1>8, <2>1, <2>2
<1>10. ASSUME NEW i \in 1..n, Holds(all, 0, h[i])
       PROVE  /\ Holds(all, 0, h[i - 1]) /\ Holds(all, Len(h[i - 1]), q[i])
              /\ Len(h[i]) = Len(h[i - 1]) + Len(q[i])
    <2>1. i - 1 \in 0..n
        OBVIOUS
    <2>2. PICK a \in Seq(Byte), b \in Seq(Byte) : a = h[i - 1] /\ b = q[i] /\ h[i] = a \o b
        BY <1>5, <1>6, <2>1
    <2>3. Holds(all, 0, a \o b)
        BY <1>10, <2>2
    <2>4. Holds(all, 0, a) /\ Holds(all, 0 + Len(a), b)
        BY <2>3, HoldsParts
    <2>5. 0 + Len(a) = Len(a) /\ Len(a \o b) = Len(a) + Len(b)
        BY ConcatProperties, LenProperties
    <2> QED
        BY <2>2, <2>4, <2>5
<1>11. ASSUME NEW k \in 1..n, k - 1 \in T PROVE k \in T
    <2>1. PICK i \in 1..n : i = n - (k - 1) /\ i - 1 = n - k /\ k \in 0..n
        OBVIOUS
    <2>2. Holds(all, 0, h[i])
        BY <1>8, <1>11, <2>1
    <2>3. Holds(all, 0, h[i - 1])
        BY <1>10, <2>2
    <2> QED
        BY <1>8, <2>1, <2>3
<1>12. 0..n \subseteq T
    BY <1>9, <1>11, IntervalInduction
<1>13. ASSUME NEW k \in 0..n PROVE Holds(all, 0, h[k])
    <2>1. n - k \in 0..n /\ n - (n - k) = k
        OBVIOUS
    <2>2. n - k \in T
        BY <1>12, <2>1
    <2> QED
        BY <1>8, <2>1, <2>2
<1>14. \A k \in 1..n : k \in 0..n
    OBVIOUS
<1>15. Fronts(h, fields, values, all, n)
    BY <1>1, <1>3, <1>5, <1>6, <1>7, <1>10, <1>13, <1>14 DEF Fronts
<1> QED
    BY <1>1, <1>3, <1>15

\* What is left of the whole.
Left(buf, all, l) == all \in Seq(Byte) /\ l \in Nat /\ l <= Len(all) /\ buf = SubSeq(all, 1, l)

\* What is left holds nothing that the whole does not hold.
LEMMA LeftType ==
    ASSUME NEW buf, NEW all, NEW l, Left(buf, all, l)
    PROVE  /\ buf \in Seq(Byte) /\ Len(buf) = l /\ (l = Len(all) => buf = all)
           /\ \A pos, part : part \in Seq(Byte) /\ Holds(buf, pos, part) => Holds(all, pos, part)
<1>1. all \in Seq(Byte) /\ l \in Nat /\ l <= Len(all) /\ buf = SubSeq(all, 1, l)
    BY DEF Left
<1>2. PICK b : b = SubSeq(all, 1, l)
    OBVIOUS
<1>3. b \in Seq(Byte) /\ Len(b) = l /\ \A i \in 1..l : b[i] = all[i]
    BY <1>1, <1>2, CutFront
<1>4. l = Len(all) => b = all
    <2>1. SubSeq(all, 1, Len(all)) = all
        BY <1>1, SubSeqFull
    <2> QED
        BY <1>2, <2>1
<1>5. ASSUME NEW pos, NEW part \in Seq(Byte), Holds(b, pos, part) PROVE Holds(all, pos, part)
    <2>1. PICK m \in Nat, n \in Nat : m = Len(part) /\ n = Len(all)
        BY <1>1, LenProperties
    <2>2. pos \in Nat /\ pos + m <= l /\ \A i \in 1..m : b[pos + i] = part[i]
        BY <1>3, <1>5, <2>1 DEF Holds
    <2>3. ASSUME NEW i \in 1..m PROVE all[pos + i] = part[i]
        <3>1. pos + i \in 1..l
            BY <1>1, <2>1, <2>2
        <3> QED
            BY <1>3, <2>2, <3>1
    <2>4. pos + m <= n
        BY <1>1, <2>1, <2>2
    <2> QED
        BY <2>1, <2>2, <2>3, <2>4 DEF Holds
<1> QED
    BY <1>1, <1>2, <1>3, <1>4, <1>5

\* A field of what is left is read as it was written or not at all.
LEMMA LeftReads ==
    ASSUME NEW e, NEW fields, NEW values, NEW all, NEW n, Fronts(e, fields, values, all, n),
           NEW buf, NEW l, Left(buf, all, l), NEW k \in 1..n, NEW pos, pos = Len(e[k - 1]), pos < l,
           fields[k] \in Types, NEW read, read = ReadField(fields[k], buf, pos)
    PROVE  /\ read.ok \in BOOLEAN
           /\ read.ok => read.value = values[k] /\ read.pos = Len(e[k]) /\ Len(e[k]) <= l
           /\ l = Len(all) => read.ok
<1>1. PICK type, v, p : type = fields[k] /\ v = values[k] /\ p = Put(type, v)
    OBVIOUS
<1>2. /\ all \in Seq(Byte) /\ Sendable(type, v) /\ Holds(all, pos, p) /\ Len(e[k]) = pos + Len(p)
    BY <1>1 DEF Fronts
<1>3. /\ buf \in Seq(Byte) /\ Len(buf) = l /\ (l = Len(all) => buf = all) /\ l \in Nat
      /\ \A at, part : part \in Seq(Byte) /\ Holds(buf, at, part) => Holds(all, at, part)
    BY LeftType DEF Left
<1>4. pos \in 0..Len(buf) /\ pos # Len(buf) /\ type \in Types
    <2>1. pos \in Nat
        BY <1>2 DEF Holds
    <2> QED
        BY <1>1, <1>3, <2>1
<1>5. /\ read.ok \in BOOLEAN /\ Twins(type, buf, pos, read, BodyField(type, buf, pos))
    BY <1>1, <1>3, <1>4, FieldTwins
<1>6. ReadField(type, all, pos) = Got(v, pos + Len(p))
    <2>1. Holds(all, pos, Put(type, v))
        BY <1>1, <1>2
    <2>2. ReadField(type, all, pos) = Got(v, pos + Len(Put(type, v)))
        BY <1>2, <2>1, HoldsField
    <2> QED
        BY <1>1, <2>2
<1>7. ASSUME read.ok PROVE read.value = v /\ read.pos = pos + Len(p) /\ read.pos <= l
    <2>1. PICK w, o : w = read.value /\ o = Put(type, w)
        OBVIOUS
    <2>2. Sendable(type, w) /\ Holds(buf, pos, o) /\ read.pos = pos + Len(o) /\ read.pos \in 0..Len(buf)
        BY <1>5, <1>7, <2>1 DEF Twins
    <2>3. o \in Seq(Byte)
        BY <2>1, <2>2, PutBytes
    <2>4. Holds(all, pos, o)
        BY <1>3, <2>2, <2>3
    <2>5. ReadField(type, all, pos) = Got(w, pos + Len(o))
        <3>1. Holds(all, pos, Put(type, w))
            BY <2>1, <2>4
        <3>2. ReadField(type, all, pos) = Got(w, pos + Len(Put(type, w)))
            BY <1>2, <2>2, <3>1, HoldsField
        <3> QED
            BY <2>1, <3>2
    <2>6. w = v /\ pos + Len(o) = pos + Len(p)
        BY <1>6, <2>5 DEF Got
    <2> QED
        BY <1>3, <2>1, <2>2, <2>6
<1>8. l = Len(all) => read.ok
    <2>1. Got(v, pos + Len(p)).ok = TRUE
        BY DEF Got
    <2> QED
        BY <1>1, <1>3, <1>6, <2>1
<1> QED
    BY <1>1, <1>2, <1>5, <1>7, <1>8

\* The places of the fields grow.
LEMMA FrontsGrow ==
    ASSUME NEW e, NEW fields, NEW values, NEW all, NEW n, Fronts(e, fields, values, all, n)
    PROVE  /\ Len(e[0]) = 0 /\ Len(e[n]) = Len(all) /\ \A k \in 0..n : Len(e[k]) \in 0..Len(all)
           /\ \A k \in 0..n : k < n => Len(e[k]) < Len(all)
<1>1. all \in Seq(Byte) /\ e \in [0..n -> Seq(Byte)] /\ n \in Nat
    BY DEF Fronts
<1>2. ASSUME NEW k \in 0..n PROVE Len(e[k]) \in 0..Len(all)
    <2>1. Holds(all, 0, e[k])
        BY DEF Fronts
    <2>2. Len(e[k]) \in Nat /\ Len(all) \in Nat
        BY <1>1, LenProperties
    <2>3. 0 + Len(e[k]) <= Len(all)
        BY <2>1 DEF Holds
    <2> QED
        BY <2>2, <2>3
<1>3. ASSUME NEW k \in 0..n, k < n PROVE Len(e[k]) < Len(all)
    <2>1. PICK i \in 1..n : i = k + 1 /\ i - 1 = k /\ i \in 0..n
        BY <1>1, <1>3
    <2>2. Sendable(fields[i], values[i]) /\ Len(e[i]) = Len(e[k]) + Len(Put(fields[i], values[i]))
        BY <2>1 DEF Fronts
    <2>3. Len(Put(fields[i], values[i])) >= WordLen /\ Len(Put(fields[i], values[i])) \in Nat
        <3>1. Put(fields[i], values[i]) \in Seq(Byte) /\ Len(Put(fields[i], values[i])) >= WordLen
            BY <2>2, PutBytes
        <3> QED
            BY <3>1, LenProperties
    <2>4. Len(e[i]) \in 0..Len(all) /\ Len(e[k]) \in 0..Len(all) /\ Len(all) \in Nat
        BY <1>1, <1>2, <2>1, LenProperties
    <2>5. \A a, b, c, p \in Nat : b = a + p /\ p > 0 /\ b <= c => a < c
        OBVIOUS
    <2>6. Len(e[i]) \in Nat /\ Len(e[k]) \in Nat /\ Len(all) \in Nat /\ Len(e[i]) <= Len(all)
        BY <2>4
    <2>7. Len(Put(fields[i], values[i])) > 0
        BY <2>3, HeaderType
    <2> QED
        BY <2>2, <2>3, <2>5, <2>6, <2>7, Zenon
<1>4. Len(e[0]) = 0 /\ Len(e[n]) = Len(all)
    BY EmptySeq DEF Fronts
<1> QED
    BY <1>2, <1>3, <1>4

-----------------------------------------------------------------------------
\* The table of a version.

\* A version that an end may have been generated from.
Version(m) ==
    /\ IsFiniteSet(DOMAIN m) /\ DOMAIN m \subseteq Nat
    /\ \A id \in DOMAIN m : m[id] \in Seq(Types)

\* The ids of the first n messages ascend.
Sorted(messages, n) ==
    /\ \A i \in 1..n : messages[i].id \in Nat
    /\ \A i, j \in 1..n : i < j => messages[i].id < messages[j].id

\* The messages of a version, in the order of their ids.
LEMMA MessagesType ==
    ASSUME NEW m, Version(m)
    PROVE  \E n \in Nat :
               /\ DOMAIN Messages(m) = 1..n /\ Len(Messages(m)) = n /\ Sorted(Messages(m), n)
               /\ \A i \in 1..n : /\ Messages(m)[i].id \in DOMAIN m
                                  /\ Messages(m)[i].fields = m[Messages(m)[i].id]
               /\ \A id \in DOMAIN m : \E i \in 1..n : Messages(m)[i].id = id
<1>1. PICK n \in Nat : n = Cardinality(DOMAIN m)
    BY FS_CardinalityType DEF Version
<1>2. PICK keys : n = Cardinality(DOMAIN m) /\ keys = SortedKeys(DOMAIN m)
    BY <1>1
<1>3. /\ keys \in [1..n -> DOMAIN m] /\ Ascending(keys, n)
      /\ \A id \in DOMAIN m : \E i \in 1..n : keys[i] = id
    BY <1>2, SortedKeysType DEF Version
<1>4. PICK q : q = [i \in 1..n |-> [id |-> keys[i], fields |-> m[keys[i]]]]
    OBVIOUS
<1>5. Messages(m) = q
    BY <1>2, <1>3, <1>4 DEF Messages
<1>6. Len(q) = n
    BY <1>4
<1>7. \A i \in 1..n : q[i].id = keys[i] /\ q[i].fields = m[keys[i]]
    BY <1>4
<1>8. Sorted(q, n)
    BY <1>3, <1>7 DEF Sorted, Ascending, Version
<1> QED
    BY <1>3, <1>4, <1>5, <1>6, <1>7, <1>8

\* The place of the first id that is not less.
Place(messages, id, n, p) ==
    /\ p \in 0..n
    /\ \A i \in 1..p : messages[i].id < id
    /\ \A i \in (p + 1)..n : ~(messages[i].id < id)

\* There is such a place.
LEMMA PlaceExists ==
    ASSUME NEW q, NEW n \in Nat, Sorted(q, n), NEW id \in Nat
    PROVE  \E p : Place(q, id, n, p)
<1>1. PICK S : S = {k \in 0..n : \A i \in (k + 1)..n : ~(q[i].id < id)}
    OBVIOUS
<1>2. n \in S
    BY <1>1
<1>3. PICK p \in S : \A k \in S : p <= k
    <2>1. S \in SUBSET Nat /\ S # {}
        BY <1>1, <1>2
    <2> QED
        BY <2>1, Least
<1>4. ASSUME NEW i \in 1..p PROVE q[i].id < id
    <2>1. p \in 0..n /\ p - 1 \in 0..n /\ p - 1 \notin S /\ p \in 1..n
        BY <1>1, <1>3
    <2>2. \A j \in ((p - 1) + 1)..n : j = p \/ j \in (p + 1)..n
        BY <2>1
    <2>3. q[p].id < id
        BY <1>1, <1>3, <2>1, <2>2
    <2>4. i = p \/ i < p
        BY <2>1
    <2>5. i \in 1..n
        BY <2>1
    <2> QED
        BY <2>1, <2>3, <2>4, <2>5 DEF Sorted
<1> QED
    BY <1>1, <1>3, <1>4 DEF Place

\* The place is between the bounds, which are at most d apart.
Bounds(at, p, n, d) ==
    /\ at \in [low : 0..n, high : 0..n]
    /\ at.low <= p /\ p <= at.high /\ at.high - at.low <= d

\* One turn of the search keeps the place between its bounds.
LEMMA HalveEffect ==
    ASSUME NEW q, NEW n \in Nat, Sorted(q, n), NEW id \in Nat, NEW p, Place(q, id, n, p),
           NEW d \in Nat, NEW at, Bounds(at, p, n, d)
    PROVE  Bounds(Halve(q, id, at), p, n, IF d = 0 THEN 0 ELSE d - 1)
<1>1. PICK low \in 0..n, high \in 0..n :
          at = [low |-> low, high |-> high] /\ low <= p /\ p <= high /\ high - low <= d
    BY DEF Bounds
<1>2. at.low = low /\ at.high = high
    BY <1>1
<1>3. CASE low >= high
    <2>1. Halve(q, id, at) = at
        BY <1>2, <1>3 DEF Halve
    <2> QED
        BY <1>1, <1>2, <1>3, <2>1 DEF Bounds
<1>4. CASE ~(low >= high)
    <2>1. PICK middle \in 0..n : middle = (low + high) \div 2 /\ low <= middle /\ middle < high
        BY <1>4
    <2>2. middle + 1 \in 1..n /\ p \in 0..n
        BY <2>1 DEF Place
    <2>3. middle + 1 \in 1..p \/ middle + 1 \in (p + 1)..n
        BY <2>2
    <2>4. (q[middle + 1].id < id) <=> (middle + 1 <= p)
        BY <2>2, <2>3 DEF Place
    <2>5. CASE middle + 1 <= p
        <3>1. Halve(q, id, at) = [low |-> middle + 1, high |-> high]
            BY <1>1, <1>2, <1>4, <2>1, <2>4, <2>5 DEF Halve
        <3>2. high - (middle + 1) <= (IF d = 0 THEN 0 ELSE d - 1)
            BY <1>1, <2>1
        <3> QED
            BY <1>1, <2>1, <2>2, <2>5, <3>1, <3>2 DEF Bounds
    <2>6. CASE ~(middle + 1 <= p)
        <3>1. Halve(q, id, at) = [low |-> low, high |-> middle]
            BY <1>1, <1>2, <1>4, <2>1, <2>4, <2>6 DEF Halve
        <3>2. middle - low <= (IF d = 0 THEN 0 ELSE d - 1)
            BY <1>1, <2>1
        <3> QED
            BY <1>1, <2>1, <2>2, <2>6, <3>1, <3>2 DEF Bounds
    <2> QED
        BY <2>5, <2>6
<1> QED
    BY <1>3, <1>4

\* The search ends at the place.
LEMMA SearchEffect ==
    ASSUME NEW q, NEW n \in Nat, Len(q) = n, Sorted(q, n), NEW id \in Nat, NEW p, Place(q, id, n, p)
    PROVE  Search(q, id) = p
<1>1. PICK S, start : S = [low : 0..n, high : 0..n] /\ start = [low |-> 0, high |-> n]
    OBVIOUS
<1>2. start \in S /\ Bounds(start, p, n, n)
    BY <1>1 DEF Bounds, Place
<1>3. PICK step : step = [x \in (1..n) \X S |-> IF Halve(q, id, x[2]) \in S THEN Halve(q, id, x[2]) ELSE start]
    OBVIOUS
<1>4. step \in [(1..n) \X S -> S]
    BY <1>2, <1>3
<1>5. PICK h \in [0..n -> S] : Follows(h, start, step, n)
    BY <1>2, <1>4, FunctionByRecursion
<1>6. PICK T : T = {k \in 0..n : Bounds(h[k], p, n, n - k)}
    OBVIOUS
<1>7. 0 \in T
    BY <1>2, <1>5, <1>6 DEF Follows
<1>8. ASSUME NEW k \in 1..n, k - 1 \in T
      PROVE  k \in T /\ h[k] = Halve(q, id, h[k - 1])
    <2>1. PICK d, at : d \in Nat /\ d = n - (k - 1) /\ at = h[k - 1] /\ Bounds(at, p, n, d) /\ at \in S
        BY <1>5, <1>6, <1>8
    <2>2. d # 0 /\ d - 1 = n - k
        BY <2>1
    <2>3. Bounds(Halve(q, id, at), p, n, n - k)
        BY <2>1, <2>2, HalveEffect
    <2>4. h[k] = step[<<k, at>>]
        BY <1>5, <2>1 DEF Follows
    <2>5. step[<<k, at>>] = Halve(q, id, at)
        BY <1>1, <1>3, <2>1, <2>3 DEF Bounds
    <2> QED
        BY <1>6, <2>1, <2>3, <2>4, <2>5
<1>9. 0..n \subseteq T
    BY <1>7, <1>8, IntervalInduction
<1>10. \A k \in 1..n : h[k] = Halve(q, id, h[k - 1])
    <2>1. \A k \in 1..n : k - 1 \in 0..n
        OBVIOUS
    <2> QED
        BY <1>8, <1>9, <2>1
<1>11. h = [k \in 0..n |-> IF k = 0 THEN start ELSE Halve(q, id, h[k - 1])]
    <2>1. \A k \in 0..n : k = 0 \/ k \in 1..n
        OBVIOUS
    <2> QED
        BY <1>5, <1>10, <2>1 DEF Follows
<1> DEFINE f == CHOOSE f : f = [k \in 0..n |-> IF k = 0 THEN start ELSE Halve(q, id, f[k - 1])]
<1>12. Search(q, id) = f[n].low
    BY <1>1 DEF Search
<1>13. f = [k \in 0..n |-> IF k = 0 THEN start ELSE Halve(q, id, f[k - 1])]
    BY <1>11
<1> HIDE DEF f
<1>14. PICK E : E = {k \in 0..n : f[k] = h[k]}
    OBVIOUS
<1>15. 0 \in E
    BY <1>11, <1>13, <1>14
<1>16. ASSUME NEW k \in 1..n, k - 1 \in E PROVE k \in E
    BY <1>10, <1>13, <1>14, <1>16
<1>17. 0..n \subseteq E
    BY <1>15, <1>16, IntervalInduction
<1>18. f[n] = h[n] /\ Bounds(h[n], p, n, n - n)
    BY <1>6, <1>9, <1>14, <1>17
<1>19. h[n].low = p
    BY <1>18 DEF Bounds, Place
<1> QED
    BY <1>12, <1>18, <1>19

\* What a version declares is found, and nothing else.
LEMMA MessageByIDEffect ==
    ASSUME NEW m, Version(m), NEW id \in Nat
    PROVE  /\ id \in DOMAIN m => \E message : MessageByID(m, id) = {message} /\ message.fields = m[id]
           /\ id \notin DOMAIN m => MessageByID(m, id) = {}
<1>1. PICK n \in Nat :
          /\ Len(Messages(m)) = n /\ Sorted(Messages(m), n)
          /\ \A i \in 1..n : Messages(m)[i].id \in DOMAIN m /\ Messages(m)[i].fields = m[Messages(m)[i].id]
          /\ \A r \in DOMAIN m : \E i \in 1..n : Messages(m)[i].id = r
    BY MessagesType
<1>2. PICK q :
          /\ q = Messages(m) /\ Len(q) = n /\ Sorted(q, n)
          /\ \A i \in 1..n : q[i].id \in DOMAIN m /\ q[i].fields = m[q[i].id]
          /\ \A r \in DOMAIN m : \E i \in 1..n : q[i].id = r
    <2> HIDE DEF Messages
    <2> QED
        BY <1>1
<1>3. PICK p : Place(q, id, n, p)
    BY <1>2, PlaceExists
<1>4. MessageByID(m, id) = IF p < n /\ q[p + 1].id = id THEN {q[p + 1]} ELSE {}
    <2>1. Search(q, id) = p
        BY <1>2, <1>3, SearchEffect
    <2> QED
        BY <1>2, <2>1 DEF MessageByID
<1>5. p \in 0..n
    BY <1>3 DEF Place
<1>6. CASE id \in DOMAIN m
    <2>1. PICK i \in 1..n : q[i].id = id
        BY <1>2, <1>6
    <2>2. i \notin 1..p
        BY <1>3, <2>1 DEF Place
    <2>3. p < n /\ p + 1 \in 1..n /\ p + 1 <= i
        BY <1>5, <2>2
    <2>4. ~(q[p + 1].id < id) /\ q[p + 1].id \in Nat
        BY <1>2, <1>3, <2>3 DEF Place, Sorted
    <2>5. p + 1 = i \/ q[p + 1].id < q[i].id
        <3>1. p + 1 < i \/ p + 1 = i
            BY <1>5, <2>3
        <3> QED
            BY <1>2, <2>3, <3>1 DEF Sorted
    <2>6. q[p + 1].id = id
        BY <2>1, <2>4, <2>5
    <2>7. q[p + 1].fields = m[id]
        BY <1>2, <2>3, <2>6
    <2> QED
        BY <1>2, <1>4, <1>6, <2>3, <2>6, <2>7, Zenon
<1>7. CASE id \notin DOMAIN m
    <2>1. p < n => p + 1 \in 1..n
        BY <1>5
    <2> QED
        BY <1>2, <1>4, <1>7, <2>1
<1> QED
    BY <1>6, <1>7

-----------------------------------------------------------------------------
\* The comparison of one message.

NoPrefix(a, b) == ~IsPrefix(a, b) /\ ~IsPrefix(b, a)

\* What IsPrefix says of two lists of fields.
LEMMA PrefixFacts ==
    ASSUME NEW a \in Seq(Types), NEW b \in Seq(Types)
    PROVE  /\ Len(a) \in Nat /\ Len(b) \in Nat
           /\ IsPrefix(a, b) <=> Len(a) <= Len(b) /\ SubSeq(b, 1, Len(a)) = a
           /\ a = b => IsPrefix(a, b)
           /\ Len(a) = 0 => IsPrefix(a, b)
           /\ Len(a) = Len(b) /\ IsPrefix(a, b) => a = b
<1>1. PICK l \in Nat, n \in Nat : l = Len(a) /\ n = Len(b)
    BY LenProperties
<1>2. SubSeq(a, 1, l) = a /\ SubSeq(b, 1, n) = b
    BY <1>1, SubSeqFull
<1>3. IsPrefix(a, b) <=> l <= n /\ SubSeq(b, 1, l) = a
    BY <1>1, <1>2 DEF IsPrefix
<1>4. l = 0 => SubSeq(b, 1, l) = a
    <2>1. SUFFICES ASSUME l = 0 PROVE SubSeq(b, 1, 0) = a
        OBVIOUS
    <2>2. a = <<>>
        BY <1>1, <2>1, EmptySeq
    <2>3. SubSeq(b, 1, 0) = <<>>
        BY SubSeqEmpty
    <2> QED
        BY <2>2, <2>3
<1> QED
    BY <1>1, <1>2, <1>3, <1>4

\* What is made of an entry of which the message is known.
LEMMA KnownEffect ==
    ASSUME NEW known, known.fields \in Seq(Types), NEW b \in Seq(Types), NEW check,
           check = CheckKnown(known, Len(b), b)
    PROVE  /\ check \in {"match", "reject", "needPrefix"}
           /\ check = "match" => ~NoPrefix(known.fields, b)
           /\ check = "reject" => NoPrefix(known.fields, b)
           /\ check = "needPrefix" => Len(known.fields) > 0 /\ Len(b) > Len(known.fields)
<1>1. PICK a \in Seq(Types) : a = known.fields
    OBVIOUS
<1>2. PICK l \in Nat, n \in Nat : l = Len(a) /\ n = Len(b)
    BY LenProperties
<1>3. /\ IsPrefix(a, b) <=> l <= n /\ SubSeq(b, 1, l) = a
      /\ IsPrefix(b, a) <=> n <= l /\ SubSeq(a, 1, n) = b
      /\ l = 0 => IsPrefix(a, b)
      /\ n = 0 => IsPrefix(b, a)
      /\ a = b => IsPrefix(a, b)
      /\ l = n /\ (IsPrefix(a, b) \/ IsPrefix(b, a)) => a = b
    BY <1>2, PrefixFacts
<1>4. PICK p : p = FieldPrefixes(known)
    OBVIOUS
<1>5. p = [k \in 1..l |-> SubSeq(a, 1, k)]
    <2>1. DOMAIN a = 1..l
        BY <1>2, LenProperties
    <2> QED
        BY <1>1, <1>4, <2>1 DEF FieldPrefixes
<1>6. Len(p) = l
    BY <1>5
<1>7. check = IF b = a THEN "match"
              ELSE IF n = 0 \/ l = 0 THEN "match"
              ELSE IF n = l THEN "reject"
              ELSE IF n < l THEN IF p[n] = b THEN "match" ELSE "reject"
              ELSE "needPrefix"
    BY <1>1, <1>2, <1>4, <1>6 DEF CheckKnown
<1>8. n # 0 /\ n < l => p[n] = SubSeq(a, 1, n)
    BY <1>5
<1> QED
    BY <1>1, <1>2, <1>3, <1>7, <1>8 DEF NoPrefix

\* What m makes of the entry of id in the table of its peer n.
EntryOf(n, id) == [id |-> id, count |-> Len(n[id]), fingerprint |-> n[id]]

\* What is made of an entry.
LEMMA MessageEffect ==
    ASSUME NEW m, Version(m), NEW n, Version(n), NEW id \in DOMAIN n, NEW check,
           check = CheckMessage(m, EntryOf(n, id))
    PROVE  /\ check \in {"match", "reject", "needPrefix"}
           /\ check # "match" => id \in DOMAIN m
           /\ id \in DOMAIN m /\ check = "match" => ~NoPrefix(m[id], n[id])
           /\ check = "reject" => NoPrefix(m[id], n[id])
           /\ check = "needPrefix" => Len(m[id]) > 0 /\ Len(n[id]) > Len(m[id])
<1>1. id \in Nat /\ n[id] \in Seq(Types)
    BY DEF Version
<1>2. PICK entry : entry = EntryOf(n, id)
    OBVIOUS
<1>3. entry.id = id /\ entry.count = Len(n[id]) /\ entry.fingerprint = n[id]
    BY <1>2 DEF EntryOf
<1>4. CASE id \in DOMAIN m
    <2>1. PICK message : MessageByID(m, id) = {message} /\ message.fields = m[id]
        BY <1>1, <1>4, MessageByIDEffect
    <2>2. {CheckKnown(known, Len(n[id]), n[id]) : known \in {message}} = {CheckKnown(message, Len(n[id]), n[id])}
        OBVIOUS
    <2>3. check = CheckKnown(message, Len(n[id]), n[id])
        BY <1>2, <1>3, <2>1, <2>2, Zenon DEF CheckMessage
    <2>4. message.fields \in Seq(Types)
        BY <1>4, <2>1 DEF Version
    <2> QED
        BY <1>1, <1>4, <2>1, <2>3, <2>4, KnownEffect
<1>5. CASE id \notin DOMAIN m
    <2>1. MessageByID(m, id) = {}
        BY <1>1, <1>5, MessageByIDEffect
    <2>2. check = "match"
        BY <1>2, <1>3, <2>1 DEF CheckMessage
    <2> QED
        BY <1>5, <2>2
<1> QED
    BY <1>4, <1>5

\* A table has an entry for each message.
LEMMA TableEntries ==
    ASSUME NEW n
    PROVE  Table(n) = {EntryOf(n, id) : id \in DOMAIN n}
BY DEF Table, EntryOf

\* No entry of n's table is refused by m.
NoneRefused(m, n) == \A id \in DOMAIN n : CheckMessage(m, EntryOf(n, id)) # "reject"

\* What HandshakeCompare decides, and what it leaves open.
LEMMA CompareEffect ==
    ASSUME NEW m, Version(m), NEW n, Version(n), NEW result, result = HandshakeCompare(m, n)
    PROVE  /\ result \in {"current", "reject", "needMore", "outdated"}
           /\ result = "current" => m = n
           /\ result = "reject" => \E id \in DOMAIN m \cap DOMAIN n : NoPrefix(m[id], n[id])
           /\ result = "outdated" => \A id \in DOMAIN m \cap DOMAIN n : ~NoPrefix(m[id], n[id])
           /\ result = "needMore" => /\ NoneRefused(m, n)
                                     /\ \E id \in DOMAIN m \cap DOMAIN n : Len(n[id]) > Len(m[id])
<1>1. PICK checks : checks = {CheckMessage(m, EntryOf(n, id)) : id \in DOMAIN n}
    OBVIOUS
<1>2. {CheckMessage(m, peer) : peer \in Table(n)} = checks
    BY <1>1, TableEntries
<1>3. result = IF m = n THEN "current"
               ELSE IF "reject" \in checks THEN "reject"
               ELSE IF "needPrefix" \in checks THEN "needMore"
               ELSE "outdated"
    BY <1>2 DEF HandshakeCompare
<1>4. \A id \in DOMAIN n : LET check == CheckMessage(m, EntryOf(n, id)) IN
           /\ check \in checks /\ check \in {"match", "reject", "needPrefix"}
           /\ check # "match" => id \in DOMAIN m
           /\ id \in DOMAIN m /\ check = "match" => ~NoPrefix(m[id], n[id])
           /\ check = "reject" => NoPrefix(m[id], n[id])
           /\ check = "needPrefix" => Len(m[id]) > 0 /\ Len(n[id]) > Len(m[id])
    BY <1>1, MessageEffect
<1>5. \A check \in checks : \E id \in DOMAIN n : check = CheckMessage(m, EntryOf(n, id))
    BY <1>1
<1> HIDE DEF HandshakeCompare
<1>6. CASE "reject" \in checks /\ m # n
    BY <1>3, <1>4, <1>5, <1>6
<1>7. CASE "reject" \notin checks
    <2>1. NoneRefused(m, n)
        BY <1>4, <1>7 DEF NoneRefused
    <2>2. CASE "needPrefix" \in checks
        BY <1>3, <1>4, <1>5, <1>7, <2>1, <2>2
    <2>3. CASE "needPrefix" \notin checks
        BY <1>3, <1>4, <1>7, <2>3
    <2> QED
        BY <2>2, <2>3
<1> QED
    BY <1>3, <1>6, <1>7

\* The answer to a request for a prefix.
LEMMA PrefixEffect ==
    ASSUME NEW m, Version(m), NEW id \in DOMAIN m, NEW count \in 1..Len(m[id])
    PROVE  Prefix(m, id, count) = {SubSeq(m[id], 1, count)}
<1>1. id \in Nat /\ m[id] \in Seq(Types)
    BY DEF Version
<1>2. PICK message : MessageByID(m, id) = {message} /\ message.fields = m[id]
    BY <1>1, MessageByIDEffect
<1>3. PICK l \in Nat : l = Len(m[id]) /\ DOMAIN m[id] = 1..l
    BY <1>1, LenProperties
<1>4. PICK p : p = FieldPrefixes(message)
    OBVIOUS
<1>5. p = [k \in 1..l |-> SubSeq(m[id], 1, k)]
    BY <1>2, <1>3, <1>4 DEF FieldPrefixes
<1>6. Len(p) = l /\ p[count] = SubSeq(m[id], 1, count) /\ ~(count = 0 \/ count > l)
    BY <1>3, <1>5
<1> QED
    BY <1>2, <1>4, <1>6 DEF Prefix

\* The answers agree when no message is in conflict.
LEMMA AnswersEffect ==
    ASSUME NEW m, Version(m), NEW n, Version(n), NoneRefused(m, n)
    PROVE  AnswersAgree(m, n) <=> \A id \in DOMAIN m \cap DOMAIN n : ~NoPrefix(m[id], n[id])
<1>1. AnswersAgree(m, n) <=>
          \A id \in DOMAIN n : CheckMessage(m, EntryOf(n, id)) = "needPrefix" =>
              Prefix(n, id, Len(m[id])) = Prefix(m, id, Len(m[id]))
    BY TableEntries DEF AnswersAgree, EntryOf
<1>2. ASSUME NEW id \in DOMAIN n, CheckMessage(m, EntryOf(n, id)) = "needPrefix"
      PROVE  id \in DOMAIN m /\ (Prefix(n, id, Len(m[id])) = Prefix(m, id, Len(m[id])) <=> ~NoPrefix(m[id], n[id]))
    <2>1. id \in DOMAIN m /\ Len(m[id]) > 0 /\ Len(n[id]) > Len(m[id])
        BY <1>2, MessageEffect
    <2>2. PICK a \in Seq(Types), b \in Seq(Types) : a = m[id] /\ b = n[id]
        BY <2>1 DEF Version
    <2>3. PICK l \in Nat, k \in Nat : l = Len(a) /\ k = Len(b) /\ l > 0 /\ k > l
        BY <2>1, <2>2, LenProperties
    <2>4. l \in 1..Len(a) /\ l \in 1..Len(b)
        BY <2>3
    <2>5. Prefix(m, id, l) = {SubSeq(a, 1, l)} /\ Prefix(n, id, l) = {SubSeq(b, 1, l)}
        BY <2>1, <2>2, <2>4, PrefixEffect
    <2>6. SubSeq(a, 1, l) = a
        BY <2>3, SubSeqFull
    <2>7. IsPrefix(a, b) <=> SubSeq(b, 1, l) = a
        BY <2>3, PrefixFacts
    <2>8. ~IsPrefix(b, a)
        BY <2>3, PrefixFacts
    <2> QED
        BY <2>1, <2>2, <2>3, <2>5, <2>6, <2>7, <2>8 DEF NoPrefix
<1>3. ASSUME NEW id \in DOMAIN m \cap DOMAIN n, CheckMessage(m, EntryOf(n, id)) # "needPrefix"
      PROVE  ~NoPrefix(m[id], n[id])
    <2>1. CheckMessage(m, EntryOf(n, id)) \in {"match", "reject", "needPrefix"}
        BY MessageEffect
    <2>2. CheckMessage(m, EntryOf(n, id)) = "match"
        BY <1>3, <2>1 DEF NoneRefused
    <2> QED
        BY <2>2, MessageEffect
<1> QED
    BY <1>1, <1>2, <1>3

-----------------------------------------------------------------------------
\* The handshake, step by step.

Verdicts == {"none", "current", "outdated", "needMore", "reject"}
Asked ==
    /\ schema \in [Side -> Schemas] /\ verdict \in [Side -> Verdicts]
    /\ \A s \in Side : verdict[s] = "needMore" => NoneRefused(schema[s], schema[Other(s)])
    /\ VerdictIsPrefixTest

\* Both ends have a version; what one shares with the other.
LEMMA Versions ==
    ASSUME Asked, NEW s \in Side
    PROVE  /\ Other(s) \in Side /\ Version(schema[s]) /\ Version(schema[Other(s)])
           /\ Shared = DOMAIN schema[s] \cap DOMAIN schema[Other(s)]
           /\ \A id \in Shared : Conflict(id) <=> NoPrefix(schema[s][id], schema[Other(s)][id])
           /\ s # Other(s) /\ Other(Other(s)) = s
           /\ schema[s] = schema[Other(s)] => schema["a"] = schema["b"]
<1>1. s \in {"a", "b"} /\ Other(s) = IF s = "a" THEN "b" ELSE "a"
    BY DEF Side, Other
<1>2. \A r \in Side : Version(schema[r])
    BY ExchangeConstants DEF Asked, Version
<1>3. CASE s = "a"
    BY <1>1, <1>2, <1>3 DEF Side, Other, Shared, Conflict, NoPrefix
<1>4. CASE s = "b"
    BY <1>1, <1>2, <1>4 DEF Side, Other, Shared, Conflict, NoPrefix
<1> QED
    BY <1>1, <1>3, <1>4

\* A verdict of one end that is right keeps Asked.
LEMMA OneVerdict ==
    ASSUME Asked, NEW s \in Side, NEW result \in Verdicts, verdict' = [verdict EXCEPT ![s] = result],
           UNCHANGED schema,
           result = "needMore" => /\ NoneRefused(schema[s], schema[Other(s)])
                                  /\ \E id \in Shared : Len(schema[Other(s)][id]) > Len(schema[s][id]),
           result = "reject" => \E id \in Shared : Conflict(id),
           result \in {"current", "outdated"} => \A id \in Shared : ~Conflict(id),
           result = "current" => schema["a"] = schema["b"]
    PROVE  Asked'
<1>1. verdict' \in [Side -> Verdicts] /\ \A r \in Side : verdict'[r] = IF r = s THEN result ELSE verdict[r]
    BY DEF Asked
<1>2. Shared' = Shared /\ \A id : Conflict(id)' = Conflict(id)
    BY DEF Shared, Conflict
<1>3. VerdictIsPrefixTest'
    BY <1>1, <1>2 DEF Asked, VerdictIsPrefixTest
<1> QED
    BY <1>1, <1>3 DEF Asked

\* The table is compared.
LEMMA CompareKeeps ==
    ASSUME Asked, NEW s \in Side, Compare(s)
    PROVE  Asked'
<1>1. PICK m, n : m = schema[s] /\ n = schema[Other(s)] /\ Version(m) /\ Version(n)
    BY Versions
<1>2. PICK result : result = HandshakeCompare(m, n)
    OBVIOUS
<1>3. /\ result \in {"current", "reject", "needMore", "outdated"}
      /\ result = "current" => m = n
      /\ result = "reject" => \E id \in DOMAIN m \cap DOMAIN n : NoPrefix(m[id], n[id])
      /\ result = "outdated" => \A id \in DOMAIN m \cap DOMAIN n : ~NoPrefix(m[id], n[id])
      /\ result = "needMore" => /\ NoneRefused(m, n)
                                /\ \E id \in DOMAIN m \cap DOMAIN n : Len(n[id]) > Len(m[id])
    BY <1>1, <1>2, CompareEffect
<1>4. m = n => \A id \in DOMAIN m \cap DOMAIN n : ~NoPrefix(m[id], n[id])
    BY <1>1, PrefixFacts DEF Version, NoPrefix
<1>5. /\ Shared = DOMAIN m \cap DOMAIN n
      /\ \A id \in Shared : Conflict(id) <=> NoPrefix(m[id], n[id])
      /\ m = n => schema["a"] = schema["b"]
    BY <1>1, Versions
<1>6. verdict' = [verdict EXCEPT ![s] = result] /\ UNCHANGED schema
    BY <1>1, <1>2 DEF Compare
<1>7. result \in Verdicts
    BY <1>3 DEF Verdicts
<1> QED
    BY <1>1, <1>3, <1>4, <1>5, <1>6, <1>7, OneVerdict

\* The prefixes are compared.
LEMMA SettleKeeps ==
    ASSUME Asked, NEW s \in Side, Settle(s)
    PROVE  Asked'
<1>1. PICK m, n : m = schema[s] /\ n = schema[Other(s)] /\ Version(m) /\ Version(n)
    BY Versions
<1>2. NoneRefused(m, n)
    BY <1>1 DEF Settle, Asked
<1>3. AnswersAgree(m, n) <=> \A id \in DOMAIN m \cap DOMAIN n : ~NoPrefix(m[id], n[id])
    BY <1>1, <1>2, AnswersEffect
<1>4. /\ Shared = DOMAIN m \cap DOMAIN n
      /\ \A id \in Shared : Conflict(id) <=> NoPrefix(m[id], n[id])
    BY <1>1, Versions
<1>5. PICK result : result = IF AnswersAgree(m, n) THEN "outdated" ELSE "reject"
    OBVIOUS
<1>6. verdict' = [verdict EXCEPT ![s] = result] /\ UNCHANGED schema
    BY <1>1, <1>5 DEF Settle
<1>7. result \in Verdicts
    BY <1>5 DEF Verdicts
<1> QED
    BY <1>3, <1>4, <1>5, <1>6, <1>7, OneVerdict

\* What is known of the verdicts in every state.
LEMMA AskedHolds == Spec => []Asked
<1>1. Init => Asked
    <2> SUFFICES ASSUME Init PROVE Asked
        OBVIOUS
    <2>1. schema \in [Side -> Schemas] /\ verdict \in [Side -> Verdicts] /\ \A s \in Side : verdict[s] = "none"
        BY DEF Init, Verdicts
    <2> QED
        BY <2>1 DEF Asked, VerdictIsPrefixTest
<1>2. Asked /\ [Next]_vars => Asked'
    <2> SUFFICES ASSUME Asked, [Next]_vars PROVE Asked'
        OBVIOUS
    <2>1. ASSUME UNCHANGED <<schema, verdict>> PROVE Asked'
        <3>1. Shared' = Shared /\ \A id : Conflict(id)' = Conflict(id)
            BY <2>1 DEF Shared, Conflict
        <3> QED
            BY <2>1, <3>1 DEF Asked, VerdictIsPrefixTest
    <2>2. ASSUME NEW s \in Side, Compare(s) PROVE Asked'
        BY <2>2, CompareKeeps
    <2>3. ASSUME NEW s \in Side, Settle(s) PROVE Asked'
        BY <2>3, SettleKeeps
    <2>4. (\E s \in Side : Compare(s) \/ Settle(s)) \/ UNCHANGED <<schema, verdict>>
        BY DEF Next, vars, Send, SendForeign, Arrive, ReadNext, ReadDone
    <2> QED
        BY <2>1, <2>2, <2>3, <2>4
<1> QED
    BY <1>1, <1>2, PTL DEF Spec

-----------------------------------------------------------------------------
\* A message and its payload.

\* Values of the types of the fields can be written.
LEMMA CarriesSendable ==
    ASSUME NEW fields \in Seq(Types), NEW values, Carries(fields, values)
    PROVE  /\ SendableAll(fields, values) /\ values \in Seq(FieldValues) /\ Len(values) = Len(fields)
           /\ DOMAIN values = 1..Len(fields)
<1>1. PICK n \in Nat : n = Len(fields) /\ DOMAIN fields = 1..n
    BY LenProperties
<1>2. ASSUME NEW i \in 1..n PROVE Sendable(fields[i], values[i]) /\ values[i] \in FieldValues
    <2>1. PICK type \in Types : type = fields[i]
        BY <1>1, ElementOfSeq
    <2>2. PICK v : v = values[i] /\ type = fields[i]
        BY <2>1
    <2>3. v \in ValuesOf(type)
        BY <1>1, <2>2 DEF Carries
    <2>4. CASE type = "u32"
        BY <2>2, <2>3, <2>4 DEF ValuesOf, Sendable, FieldValues, U32
    <2>5. CASE type = "bytes"
        BY <2>2, <2>3, <2>5 DEF ValuesOf, Sendable, FieldValues, Bytes, Byte
    <2>6. CASE type = "string"
        BY <2>2, <2>3, <2>6 DEF ValuesOf, Sendable, FieldValues, Text, Bytes, Byte
    <2> QED
        BY <2>4, <2>5, <2>6 DEF Types
<1>3. values = [i \in 1..n |-> values[i]]
    BY <1>1 DEF Carries
<1>4. values \in [1..n -> FieldValues] /\ DOMAIN values = 1..n
    BY <1>2, <1>3
<1>5. values \in Seq(FieldValues) /\ Len(values) = n
    BY <1>1, <1>4, SeqDef, LenProperties
<1> QED
    BY <1>1, <1>2, <1>4, <1>5 DEF SendableAll

\* No bytes are a ctx of which no field is there.
LEMMA NothingDecodes == DecodeCtx(<<>>).ok /\ DecodeCtx(<<>>).ctx = EmptyCtx
<1>1. PICK buf \in Seq(Byte) : buf = <<>> /\ Len(buf) = 0
    BY EmptySeq
<1>2. PICK m : Decoding(m, CtxFields, buf, 7) /\ DecodeModel(CtxFields, buf) = m[7]
    BY CtxFieldsType, DecodingRuns
<1>3. PICK T : T = {i \in 0..7 : /\ m[i].ok /\ m[i].pos = 0 /\ m[i].values \in Seq(FieldValues) /\ Len(m[i].values) = i
                                 /\ \A j \in 1..i : m[i].values[j] = Zero(CtxFields[j])}
    OBVIOUS
<1>4. 0 \in T
    <2>1. m[0] = Decoded(<<>>, 0)
        BY <1>2 DEF Decoding
    <2>2. m[0].ok = TRUE /\ m[0].pos = 0 /\ m[0].values = <<>>
        BY <2>1 DEF Decoded
    <2>3. <<>> \in Seq(FieldValues) /\ Len(<<>>) = 0
        BY EmptySeq
    <2>4. \A j \in 1..0 : FALSE
        OBVIOUS
    <2>5. /\ m[0].ok /\ m[0].pos = 0 /\ m[0].values \in Seq(FieldValues) /\ Len(m[0].values) = 0
          /\ \A j \in 1..0 : m[0].values[j] = Zero(CtxFields[j])
        BY <2>2, <2>3, <2>4
    <2>6. 0 \in 0..7
        OBVIOUS
    <2> QED
        BY <1>3, <2>5, <2>6, Zenon
<1>5. ASSUME NEW i \in 1..7, i - 1 \in T PROVE i \in T
    <2>1. PICK before : before = m[i - 1]
        OBVIOUS
    <2>2. /\ before.ok /\ before.pos = 0 /\ before.values \in Seq(FieldValues) /\ Len(before.values) = i - 1
          /\ \A j \in 1..(i - 1) : before.values[j] = Zero(CtxFields[j])
        BY <1>3, <1>5, <2>1
    <2>3. m[i] = NextField(CtxFields[i], buf, before)
        BY <1>2, <2>1 DEF Decoding
    <2>4. PICK type \in Types : type = CtxFields[i]
        BY CtxFieldsType
    <2>5. PICK r : r = ReadField(type, buf, 0)
        OBVIOUS
    <2>6. r.ok /\ r.value = Zero(type) /\ r.pos = 0 /\ r.value \in FieldValues
        <3>1. 0 \in 0..Len(buf)
            BY <1>1
        <3>2. (0 = Len(buf) => r.ok /\ r.value = Zero(type) /\ r.pos = 0) /\ r.value \in FieldValues
            BY <2>5, <3>1, FieldTwins
        <3> QED
            BY <1>1, <3>2
    <2>7. PICK values : values = Append(before.values, r.value)
        OBVIOUS
    <2>8. m[i] = [ok |-> r.ok, values |-> values, pos |-> r.pos]
        BY <2>2, <2>3, <2>4, <2>5, <2>7 DEF NextField
    <2>9. m[i].ok /\ m[i].values = values /\ m[i].pos = 0
        BY <2>6, <2>8
    <2>10. /\ values \in Seq(FieldValues) /\ Len(values) = i /\ values[i] = r.value
           /\ \A j \in 1..(i - 1) : values[j] = before.values[j]
        <3>1. /\ values \in Seq(FieldValues) /\ Len(values) = Len(before.values) + 1
              /\ values[Len(before.values) + 1] = r.value
              /\ \A j \in 1..Len(before.values) : values[j] = before.values[j]
            BY <2>2, <2>6, <2>7, AppendProperties
        <3>2. (i - 1) + 1 = i
            OBVIOUS
        <3> QED
            BY <2>2, <3>1, <3>2
    <2>11. \A j \in 1..i : j = i \/ j \in 1..(i - 1)
        OBVIOUS
    <2>12. \A j \in 1..i : values[j] = Zero(CtxFields[j])
        BY <2>2, <2>4, <2>6, <2>10, <2>11
    <2> QED
        BY <1>3, <2>9, <2>10, <2>12
<1>6. 7 \in T
    <2>1. 0..7 \subseteq T
        BY <1>4, <1>5, IntervalInduction
    <2> QED
        BY <2>1
<1>7. PICK made, v : made = m[7] /\ v = made.values /\ made.ok /\ v \in Seq(FieldValues) /\ Len(v) = 7
                     /\ \A j \in 1..7 : v[j] = Zero(CtxFields[j])
    BY <1>3, <1>6
<1>8. v = EmptyCtx
    <2>1. v \in [1..7 -> FieldValues]
        BY <1>7, LenProperties
    <2>2. PICK c : c = EmptyCtx /\ c \in [1..7 -> FieldValues] /\ \A j \in 1..7 : c[j] = Zero(CtxFields[j])
        BY CtxFieldsType
    <2>3. \A j \in 1..7 : v[j] = c[j]
        BY <1>7, <2>2
    <2>4. v = c
        BY <2>1, <2>2, <2>3
    <2> QED
        BY <2>2, <2>4
<1>9. PICK hand : hand = DecodeCtx(buf)
    OBVIOUS
<1>10. hand.ok = made.ok /\ made.ok \in BOOLEAN /\ (hand.ok => hand.ctx = made.values)
    <2>1. made = DecodeModel(CtxFields, buf)
        BY <1>2, <1>7
    <2> QED
        BY <1>9, <2>1, CtxAgrees
<1> QED
    BY <1>1, <1>7, <1>8, <1>9, <1>10

\* What a caller sets, the callee finds.
LEMMA CtxArrives ==
    ASSUME NEW ctx, Carries(CtxFields, ctx)
    PROVE  EncodeCtx(ctx) \in Seq(Byte) /\ DecodeCtx(EncodeCtx(ctx)).ok /\ DecodeCtx(EncodeCtx(ctx)).ctx = ctx
<1>1. PICK fields \in Seq(Types) : fields = CtxFields
    BY CtxFieldsType
<1>2. SendableAll(fields, ctx) /\ ctx \in Seq(FieldValues)
    BY <1>1, CarriesSendable
<1>3. PICK buf \in Seq(Byte) : buf = EncodeModel(fields, ctx)
    BY <1>1, <1>2, PartsType
<1>4. Holds(buf, 0, EncodeModel(fields, ctx))
    <2>1. Holds(buf, 0, buf)
        BY HoldsAll
    <2> QED
        BY <1>3, <2>1
<1>5. DecodeFrom(fields, buf, 0) = Decoded(ctx, 0 + Len(EncodeModel(fields, ctx)))
    BY <1>2, <1>4, DecodeEffect
<1>6. PICK made, hand : made = DecodeModel(CtxFields, buf) /\ hand = DecodeCtx(buf)
    OBVIOUS
<1>7. made.ok = TRUE /\ made.values = ctx
    BY <1>1, <1>5, <1>6 DEF DecodeModel, Decoded
<1>8. hand.ok = made.ok /\ (hand.ok => hand.ctx = made.values)
    BY <1>6, CtxAgrees
<1>9. EncodeCtx(ctx) = buf
    BY <1>1, <1>3 DEF EncodeCtx
<1> QED
    BY <1>6, <1>7, <1>8, <1>9

\* whole is the payload of these values and this ctx, all the body of it.
IsWhole(fields, values, ctx, all, whole) ==
    /\ fields \in Seq(Types) /\ Carries(fields, values) /\ ctx \in Ctxs /\ all = EncodeModel(fields, values)
    /\ whole = Encode([kind |-> Request, call |-> 258, compressed |-> FALSE, hasCtx |-> ~CtxIsEmpty(ctx)], EncodeCtx(ctx), all)
\* p is what is kept of the whole, and parsed what it is taken for.
IsKept(whole, kept, p, parsed) ==
    kept \in 0..Len(whole) /\ p = SubSeq(whole, 1, kept) /\ parsed = Decode(p, MaxCtxLen)

\* What is taken for a payload that was cut at kept.
LEMMA WholeDecodes ==
    ASSUME NEW fields, NEW values, NEW ctx, NEW all, NEW whole, IsWhole(fields, values, ctx, all, whole),
           NEW kept, NEW p, NEW parsed, IsKept(whole, kept, p, parsed)
    PROVE  /\ whole \in Seq(Byte) /\ whole # <<>> /\ p \in Seq(Byte) /\ all \in Seq(Byte)
           /\ parsed.error = "OK" =>
                /\ DecodeCtx(parsed.ctx).ok /\ DecodeCtx(parsed.ctx).ctx = ctx
                /\ \E l : Left(parsed.body, all, l) /\ (p = whole => l = Len(all))
           /\ p = whole => parsed.error = "OK"
<1>1. fields \in Seq(Types) /\ Carries(fields, values) /\ ctx \in Ctxs /\ all = EncodeModel(fields, values)
    BY DEF IsWhole
<1>2. all \in Seq(Byte)
    <2>1. SendableAll(fields, values) /\ values \in Seq(FieldValues)
        BY <1>1, CarriesSendable
    <2> QED
        BY <1>1, <2>1, PartsType
<1>3. Carries(CtxFields, ctx) /\ Len(EncodeCtx(ctx)) <= MaxCtxLen /\ 258 \in U32 /\ MaxCtxLen \in U32 /\ MaxCtxLen \in Nat
    BY <1>1, ExchangeConstants DEF U32
<1>4. PICK block : block = EncodeCtx(ctx) /\ block \in Seq(Byte) /\ DecodeCtx(block).ok /\ DecodeCtx(block).ctx = ctx
    BY <1>3, CtxArrives
<1>5. Len(block) \in U32 /\ 0 \in U32
    <2>1. Len(block) \in 0..MaxCtxLen /\ 0 \in 0..MaxCtxLen
        BY <1>3, <1>4, LenProperties
    <2> QED
        BY <1>3, <2>1, FitsBelow
<1>6. PICK hasCtx \in BOOLEAN : hasCtx = ~CtxIsEmpty(ctx)
    OBVIOUS
<1>7. PICK put : put = IF hasCtx THEN block ELSE <<>>
    OBVIOUS
<1>8. /\ put \in Seq(Byte) /\ Len(put) \in U32 /\ Len(put) <= MaxCtxLen /\ (hasCtx \/ put = <<>>)
      /\ DecodeCtx(put).ok /\ DecodeCtx(put).ctx = ctx
    <2>1. CASE hasCtx
        BY <1>3, <1>4, <1>5, <1>7, <2>1
    <2>2. CASE ~hasCtx
        <3>1. put = <<>> /\ ctx = EmptyCtx
            BY <1>6, <1>7, <2>2 DEF CtxIsEmpty
        <3>2. <<>> \in Seq(Byte) /\ Len(<<>>) = 0
            BY EmptySeq
        <3> QED
            BY <1>3, <1>5, <3>1, <3>2, NothingDecodes
    <2> QED
        BY <2>1, <2>2
<1>9. PICK header : header = [kind |-> Request, call |-> 258, compressed |-> FALSE, hasCtx |-> hasCtx]
    OBVIOUS
<1>10. whole = Encode(header, put, all)
    <2>1. whole = Encode(header, block, all)
        BY <1>4, <1>6, <1>9 DEF IsWhole
    <2>2. header.hasCtx = hasCtx
        BY <1>9
    <2> QED
        BY <1>7, <2>1, <2>2 DEF Encode
<1>11. kept \in Nat /\ kept <= Len(whole) /\ p = SubSeq(whole, 1, kept) /\ parsed = Decode(p, MaxCtxLen)
    BY DEF IsKept
<1>12. /\ whole \in Seq(Byte) /\ Len(whole) >= HeaderLen
       /\ parsed.error = "OK" =>
                \E l \in Nat : /\ l <= Len(all) /\ parsed.body = SubSeq(all, 1, l) /\ parsed.ctx = put
                               /\ kept = Len(whole) => l = Len(all)
       /\ kept = Len(whole) => parsed.error = "OK"
    <2>1. PICK call : call = 258 /\ call \in U32
        BY <1>3
    <2>2. Cutting(hasCtx, call, put, all, MaxCtxLen, header, whole, kept, parsed)
        BY <1>2, <1>3, <1>8, <1>9, <1>10, <1>11, <2>1 DEF Cutting
    <2> QED
        BY <2>2, CutDecodes
<1>13. p \in Seq(Byte) /\ Len(p) = kept
    BY <1>11, <1>12, CutFront
<1>14. whole # <<>>
    <2>1. Len(<<>>) = 0 /\ HeaderLen > 0
        BY HeaderType, EmptySeq
    <2> QED
        BY <1>12, <2>1, HeaderType, LenProperties
<1>15. p = whole => kept = Len(whole)
    BY <1>13
<1>16. ASSUME parsed.error = "OK" PROVE /\ DecodeCtx(parsed.ctx).ok /\ DecodeCtx(parsed.ctx).ctx = ctx
                                        /\ \E l : Left(parsed.body, all, l) /\ (p = whole => l = Len(all))
    BY <1>2, <1>8, <1>12, <1>15, <1>16 DEF Left
<1> QED
    BY <1>2, <1>12, <1>13, <1>14, <1>15, <1>16

-----------------------------------------------------------------------------
\* The inductive invariant: the message on its way and its reader.

\* The fields of the message on its way, and what is written of it.
Fields == schema[sent.by][sent.id]
All == EncodeModel(Fields, sent.values)
OnItsWay == sent.whole # <<>>

\* What is sent is a message between ends that accepted each other.
Travels ==
    /\ sent # NoMessage => Ready /\ sent.by \in Side /\ sent.id \in Shared
    /\ OnItsWay => /\ IsWhole(Fields, sent.values, sent.ctx, All, sent.whole)
                   /\ \E kept \in 0..Len(sent.whole) : payload = SubSeq(sent.whole, 1, kept)
    /\ payload \in Seq(Byte)

\* Where the reader is.
Readers == [at: {"idle", "refused", "reading", "failed", "done"}, buf: Seq(Byte), fields: Seq(Types), pos: Nat,
            values: Seq(FieldValues)]
Started == reader.at \in {"reading", "failed", "done"}
Unfailed == reader.at \in {"reading", "done"}
Reads ==
    /\ reader \in Readers
    /\ reader.at = "idle" => reader = NoReader
    /\ reader.at # "idle" => sent # NoMessage
    /\ reader.at = "refused" => Decode(payload, MaxCtxLen).error # "OK"
    /\ Started => /\ Decode(payload, MaxCtxLen).error = "OK" /\ reader.buf = Decode(payload, MaxCtxLen).body
                  /\ reader.fields = schema[Other(sent.by)][sent.id]
    /\ Unfailed => /\ reader.values \in Seq(FieldValues) /\ Len(reader.values) <= Len(reader.fields)
                   /\ reader.pos \in 0..Len(reader.buf)
    /\ reader.at = "done" => Len(reader.values) = Len(reader.fields)

\* The first k fields were found, and the reader is behind them; if it is
\* further than that, the end of the bytes is there.
Upto(fields, values, theirs, buf, got, pos, k) ==
    /\ k <= Len(got) /\ pos = Len(FirstPut(fields, values, k)) /\ pos <= Len(buf)
    /\ k < Len(got) => pos = Len(buf)
    /\ \A i \in 1..Len(got) : got[i] = IF i <= k THEN values[i] ELSE Zero(theirs[i])
Reached(k) == Upto(Fields, sent.values, reader.fields, reader.buf, reader.values, reader.pos, k)
Found ==
    /\ OnItsWay /\ Unfailed => \E k \in 0..Len(sent.values) : Reached(k)
    /\ OnItsWay /\ payload = sent.whole => reader.at \notin {"refused", "failed"}

Arriving == Asked /\ Travels /\ Reads /\ Found

\* Before anything is sent nothing is read.
LEMMA BeforeSend ==
    ASSUME Arriving, sent = NoMessage
    PROVE  reader = NoReader /\ sent.whole = <<>> /\ reader.at = "idle"
<1>1. reader.at = "idle" /\ reader = NoReader
    BY DEF Arriving, Reads
<1> QED
    BY <1>1 DEF NoMessage

\* The reader that has not started.
LEMMA NobodyReads == NoReader \in Readers
<1>1. <<>> \in Seq(Byte) /\ <<>> \in Seq(Types) /\ <<>> \in Seq(FieldValues)
    BY EmptySeq
<1> QED
    BY <1>1 DEF NoReader, Readers

\* The message that was not sent has no payload.
LEMMA NothingSent == NoMessage.whole = <<>>
BY DEF NoMessage

-----------------------------------------------------------------------------
\* What each step does to it.

\* While nothing is on its way there is nothing to say of it.
LEMMA NothingHolds ==
    ASSUME sent = NoMessage, payload \in Seq(Byte), reader = NoReader
    PROVE  Travels /\ Reads /\ Found
<1>1. ~OnItsWay
    BY NothingSent DEF OnItsWay
<1>2. reader.at = "idle" /\ reader.buf = <<>> /\ <<>> \in Seq(Byte) /\ reader \in Readers
    BY EmptySeq, NobodyReads DEF NoReader
<1>3. ~Started /\ ~Unfailed
    BY <1>2 DEF Started, Unfailed
<1>4. Travels
    BY <1>1 DEF Travels
<1>5. Reads
    BY <1>2, <1>3 DEF Reads
<1>6. Found
    BY <1>1 DEF Found
<1> QED
    BY <1>4, <1>5, <1>6

\* At first nothing is on its way.
LEMMA ArrivingStarts ==
    ASSUME Init, Asked
    PROVE  Arriving
<1>1. sent = NoMessage /\ payload \in Seq(Byte) /\ reader = NoReader
    BY EmptySeq DEF Init
<1> QED
    BY <1>1, NothingHolds DEF Arriving

\* Who is asked last has not been sent anything.
LEMMA AskedFirst ==
    ASSUME Arriving, Asked', NEW s \in Side, Compare(s) \/ Settle(s)
    PROVE  Arriving'
<1>1. UNCHANGED <<sent, payload, reader>> /\ verdict[s] \in {"none", "needMore"}
    BY DEF Compare, Settle
<1>2. sent = NoMessage
    BY <1>1 DEF Arriving, Travels, Ready
<1>3. reader = NoReader /\ payload \in Seq(Byte)
    BY <1>2, BeforeSend DEF Arriving, Travels
<1>4. Travels' /\ Reads' /\ Found'
    <2>1. (sent = NoMessage)' /\ (payload \in Seq(Byte))' /\ (reader = NoReader)'
        BY <1>1, <1>2, <1>3
    <2>2. ~OnItsWay'
        BY <2>1, NothingSent DEF OnItsWay
    <2>3. reader'.at = "idle" /\ reader'.buf = <<>> /\ <<>> \in Seq(Byte) /\ reader' \in Readers
        BY <2>1, EmptySeq, NobodyReads DEF NoReader
    <2>4. ~Started' /\ ~Unfailed'
        BY <2>3 DEF Started, Unfailed
    <2>5. Travels'
        BY <2>1, <2>2 DEF Travels
    <2>6. Reads'
        BY <2>1, <2>3, <2>4 DEF Reads
    <2>7. Found'
        BY <2>2 DEF Found
    <2> QED
        BY <2>5, <2>6, <2>7
<1> QED
    BY <1>4 DEF Arriving

\* What is sent is what the sender's version declares.
LEMMA SendKeeps ==
    ASSUME Arriving, Asked', NEW s \in Side, Send(s)
    PROVE  Arriving'
<1>1. PICK id \in Shared, ctx \in Ctxs : \E pick \in [DOMAIN schema[s][id] -> {1, 2}] :
        LET values == [i \in DOMAIN pick |-> Samples[schema[s][id][i]][pick[i]]]
            whole == Whole(s, id, ctx, values)
        IN \E kept \in 0..Len(whole) :
            /\ sent' = [by |-> s, id |-> id, values |-> values, ctx |-> ctx, whole |-> whole]
            /\ payload' = SubSeq(whole, 1, kept)
    BY DEF Send
<1>2. PICK fields : fields = schema[s][id]
    OBVIOUS
<1>3. PICK pick \in [DOMAIN fields -> {1, 2}] :
        LET values == [i \in DOMAIN pick |-> Samples[fields[i]][pick[i]]]
            whole == Whole(s, id, ctx, values)
        IN \E kept \in 0..Len(whole) :
            /\ sent' = [by |-> s, id |-> id, values |-> values, ctx |-> ctx, whole |-> whole]
            /\ payload' = SubSeq(whole, 1, kept)
    BY <1>1, <1>2
<1>4. PICK values : values = [i \in DOMAIN pick |-> Samples[fields[i]][pick[i]]]
    OBVIOUS
<1>5. PICK whole : whole = Whole(s, id, ctx, values)
    OBVIOUS
<1>6. PICK kept \in 0..Len(whole) :
            /\ sent' = [by |-> s, id |-> id, values |-> values, ctx |-> ctx, whole |-> whole]
            /\ payload' = SubSeq(whole, 1, kept)
    BY <1>3, <1>4, <1>5
<1>7. fields \in Seq(Types)
    <2>1. Version(schema[s]) /\ id \in DOMAIN schema[s]
        BY Versions DEF Arriving
    <2> QED
        BY <1>2, <2>1 DEF Version
<1>8. Carries(fields, values)
    <2>1. DOMAIN pick = DOMAIN fields /\ \A i \in DOMAIN fields : pick[i] \in {1, 2} /\ fields[i] \in Types
        BY <1>7, ElementOfSeq, LenProperties
    <2>2. \A i \in DOMAIN fields : values[i] \in ValuesOf(fields[i])
        BY <1>4, <2>1, ExchangeConstants
    <2>3. values = [i \in DOMAIN fields |-> values[i]]
        BY <1>4, <2>1
    <2> QED
        BY <2>2, <2>3 DEF Carries
<1>9. PICK all : all = EncodeModel(fields, values)
    OBVIOUS
<1>10. IsWhole(fields, values, ctx, all, whole)
    BY <1>2, <1>5, <1>7, <1>8, <1>9 DEF IsWhole, Whole
<1>11. payload' \in Seq(Byte)
    <2>1. PICK parsed : IsKept(whole, kept, payload', parsed)
        BY <1>6 DEF IsKept
    <2> QED
        BY <1>10, <2>1, WholeDecodes
<1>12. UNCHANGED <<schema, verdict, reader>> /\ Ready /\ sent = NoMessage
    BY DEF Send
<1>13. sent'.by = s /\ sent'.id = id /\ sent'.values = values /\ sent'.ctx = ctx /\ sent'.whole = whole
    BY <1>6
<1>14. Fields' = fields /\ All' = all
    BY <1>2, <1>9, <1>12, <1>13 DEF Fields, All
<1>15. Ready' /\ Shared' = Shared
    BY <1>12 DEF Ready, Shared
<1>16. Travels'
    <2>1. IsWhole(fields, sent'.values, sent'.ctx, all, sent'.whole)
        BY <1>10, <1>13
    <2>2. \E k \in 0..Len(sent'.whole) : payload' = SubSeq(sent'.whole, 1, k)
        BY <1>6, <1>13
    <2>3. IsWhole(Fields, sent.values, sent.ctx, All, sent.whole)'
        BY <1>14, <2>1 DEF IsWhole
    <2> QED
        BY <1>1, <1>11, <1>13, <1>15, <2>2, <2>3 DEF Travels
<1>17. reader' = NoReader
    BY <1>12, BeforeSend
<1>18. reader'.at = "idle" /\ reader'.buf = <<>> /\ <<>> \in Seq(Byte) /\ reader' \in Readers
    BY <1>17, EmptySeq, NobodyReads DEF NoReader
<1>19. ~Started' /\ ~Unfailed'
    BY <1>18 DEF Started, Unfailed
<1>20. Reads'
    BY <1>17, <1>18, <1>19 DEF Reads
<1>21. Found'
    BY <1>18, <1>19 DEF Found
<1> QED
    BY <1>16, <1>20, <1>21 DEF Arriving

\* Bytes nobody encoded are bytes.
LEMMA ForeignKeeps ==
    ASSUME Arriving, Asked', SendForeign
    PROVE  Arriving'
<1>1. PICK id \in Shared, bytes \in Foreign : sent' = [NoMessage EXCEPT !.by = "a", !.id = id] /\ payload' = bytes
    BY DEF SendForeign
<1>2. UNCHANGED <<schema, verdict, reader>> /\ Ready /\ sent = NoMessage
    BY DEF SendForeign
<1>3. sent'.by = "a" /\ sent'.id = id /\ sent'.whole = <<>>
    BY <1>1 DEF NoMessage
<1>4. payload' \in Seq(Byte)
    BY <1>1, ExchangeConstants DEF Byte
<1>5. Ready' /\ Shared' = Shared
    BY <1>2 DEF Ready, Shared
<1>6. Travels'
    BY <1>3, <1>4, <1>5 DEF Travels, OnItsWay, Side
<1>7. reader' = NoReader
    BY <1>2, BeforeSend
<1>8. reader'.at = "idle" /\ reader'.buf = <<>> /\ <<>> \in Seq(Byte) /\ reader' \in Readers
    BY <1>7, EmptySeq, NobodyReads DEF NoReader
<1>9. ~Started' /\ ~Unfailed'
    BY <1>8 DEF Started, Unfailed
<1>10. Reads'
    BY <1>7, <1>8, <1>9 DEF Reads
<1>11. Found'
    BY <1>8, <1>9 DEF Found
<1> QED
    BY <1>6, <1>10, <1>11 DEF Arriving

-----------------------------------------------------------------------------
\* Between ends that accepted each other.
Agree(fields, theirs) ==
    /\ fields \in Seq(Types) /\ theirs \in Seq(Types)
    /\ \A i : i \in 1..Len(fields) /\ i \in 1..Len(theirs) => fields[i] = theirs[i]

\* Lists of which one is a prefix of the other agree.
LEMMA PrefixAgrees ==
    ASSUME NEW a \in Seq(Types), NEW b \in Seq(Types), ~NoPrefix(a, b)
    PROVE  Agree(a, b)
<1>1. ASSUME NEW c \in Seq(Types), NEW d \in Seq(Types), IsPrefix(c, d)
      PROVE  Len(c) <= Len(d) /\ \A i \in 1..Len(c) : c[i] = d[i]
    <2>1. PICK m \in Nat, n \in Nat : m = Len(c) /\ n = Len(d)
        BY LenProperties
    <2>2. m <= n /\ SubSeq(d, 1, m) = c
        BY <1>1, <2>1, PrefixFacts
    <2>3. \A i \in 1..m : SubSeq(d, 1, m)[i] = d[i]
        BY <2>1, <2>2
    <2> QED
        BY <2>1, <2>2, <2>3
<1>2. CASE IsPrefix(a, b)
    BY <1>1, <1>2 DEF Agree
<1>3. CASE IsPrefix(b, a)
    BY <1>1, <1>3 DEF Agree
<1> QED
    BY <1>2, <1>3 DEF NoPrefix

\* The two ends agree on the fields of the message on its way.
LEMMA SameFields ==
    ASSUME Asked, Travels, sent # NoMessage
    PROVE  Agree(Fields, schema[Other(sent.by)][sent.id])
<1>1. PICK s \in Side, id \in Shared : s = sent.by /\ id = sent.id /\ Ready
    BY DEF Travels
<1>2. ~NoPrefix(schema[s][id], schema[Other(s)][id])
    <2>1. ~Conflict(id)
        BY <1>1 DEF Asked, VerdictIsPrefixTest, Ready
    <2> QED
        BY <1>1, <2>1, Versions
<1>3. schema[s][id] \in Seq(Types) /\ schema[Other(s)][id] \in Seq(Types)
    <2>1. Version(schema[s]) /\ Version(schema[Other(s)]) /\ id \in DOMAIN schema[s] /\ id \in DOMAIN schema[Other(s)]
        BY <1>1, Versions
    <2> QED
        BY <2>1 DEF Version
<1> QED
    BY <1>1, <1>2, <1>3, PrefixAgrees DEF Fields

\* What is known of a message and of what arrives of it.
LEMMA WholeFronts ==
    ASSUME NEW fields, NEW values, NEW ctx, NEW all, NEW whole, IsWhole(fields, values, ctx, all, whole)
    PROVE  \E e : Fronts(e, fields, values, all, Len(values)) /\ Len(values) = Len(fields)
<1>1. fields \in Seq(Types) /\ Carries(fields, values) /\ all = EncodeModel(fields, values)
    BY DEF IsWhole
<1>2. SendableAll(fields, values) /\ values \in Seq(FieldValues) /\ Len(values) = Len(fields)
    BY <1>1, CarriesSendable
<1>3. \E e : Fronts(e, fields, values, EncodeModel(fields, values), Len(fields))
    BY <1>1, <1>2, FrontEffect
<1> QED
    BY <1>1, <1>2, <1>3

\* The same of the message that is on its way.
LEMMA OnTheWay ==
    ASSUME Travels, OnItsWay, NEW parsed, parsed = Decode(payload, MaxCtxLen)
    PROVE  /\ \E e : Fronts(e, Fields, sent.values, All, Len(sent.values))
           /\ parsed.error = "OK" =>
                /\ DecodeCtx(parsed.ctx).ok /\ DecodeCtx(parsed.ctx).ctx = sent.ctx
                /\ \E l : Left(parsed.body, All, l) /\ (payload = sent.whole => l = Len(All))
           /\ payload = sent.whole => parsed.error = "OK"
<1>1. IsWhole(Fields, sent.values, sent.ctx, All, sent.whole)
    BY DEF Travels
<1>2. PICK kept \in 0..Len(sent.whole) : payload = SubSeq(sent.whole, 1, kept)
    BY DEF Travels
<1>3. \E e : Fronts(e, Fields, sent.values, All, Len(sent.values))
    BY <1>1, WholeFronts
<1>4. IsKept(sent.whole, kept, payload, parsed)
    BY <1>2 DEF IsKept
<1>5. /\ parsed.error = "OK" =>
                /\ DecodeCtx(parsed.ctx).ok /\ DecodeCtx(parsed.ctx).ctx = sent.ctx
                /\ \E l : Left(parsed.body, All, l) /\ (payload = sent.whole => l = Len(All))
      /\ payload = sent.whole => parsed.error = "OK"
    BY <1>1, <1>4, WholeDecodes
<1> QED
    BY <1>3, <1>5

\* One more field.
Stepping(e, fields, values, all, n, buf, l, theirs, got, pos, k, read) ==
    /\ Fronts(e, fields, values, all, n) /\ Left(buf, all, l) /\ Agree(fields, theirs)
    /\ got \in Seq(FieldValues) /\ Len(got) < Len(theirs)
    /\ k \in 0..n /\ Upto(fields, values, theirs, buf, got, pos, k) /\ pos \in 0..Len(buf)
    /\ read = ReadField(theirs[Len(got) + 1], buf, pos)

\* A field is read as it was sent, or is zero behind the end.
LEMMA FieldComes ==
    ASSUME NEW e, NEW fields, NEW values, NEW all, NEW n, NEW buf, NEW l, NEW theirs, NEW got, NEW pos, NEW k, NEW read,
           Stepping(e, fields, values, all, n, buf, l, theirs, got, pos, k, read)
    PROVE  /\ read.ok => \E more \in 0..n : Upto(fields, values, theirs, buf, Append(got, read.value), read.pos, more)
           /\ l = Len(all) => read.ok
<1>1. /\ n \in Nat /\ k \in 0..n /\ n = Len(fields) /\ all \in Seq(Byte) /\ pos \in 0..Len(buf)
      /\ e[n] = all /\ \A j \in 0..n : e[j] = FirstPut(fields, values, j)
    BY DEF Stepping, Fronts
<1>2. /\ buf \in Seq(Byte) /\ Len(buf) = l /\ l \in Nat /\ l <= Len(all)
    BY LeftType DEF Stepping, Left
<1>3. PICK m \in Nat : m = Len(got) /\ got \in Seq(FieldValues) /\ m < Len(theirs)
    BY LenProperties DEF Stepping
<1>4. PICK t \in Nat : t = Len(theirs) /\ theirs \in Seq(Types) /\ m + 1 \in 1..t
    BY <1>3, LenProperties DEF Stepping, Agree
<1>5. PICK type \in Types : type = theirs[m + 1]
    BY <1>4, ElementOfSeq
<1>6. read = ReadField(type, buf, pos)
    BY <1>3, <1>5 DEF Stepping
<1>7. read.ok \in BOOLEAN /\ read.value \in FieldValues /\ (pos = Len(buf) => read.ok /\ read.value = Zero(type) /\ read.pos = pos)
    BY <1>1, <1>2, <1>6, FieldTwins
<1>8. PICK new : new = Append(got, read.value)
    OBVIOUS
<1>9. Len(new) = m + 1 /\ new[m + 1] = read.value /\ \A i \in 1..m : new[i] = got[i]
    BY <1>3, <1>7, <1>8, AppendProperties
<1>10. /\ k <= m /\ pos = Len(FirstPut(fields, values, k)) /\ (k < m => pos = Len(buf))
       /\ \A i \in 1..m : got[i] = IF i <= k THEN values[i] ELSE Zero(theirs[i])
    BY <1>3 DEF Stepping, Upto
<1>11. \A i \in 1..(m + 1) : i = m + 1 \/ i \in 1..m
    BY <1>3
<1>12. CASE pos = Len(buf)
    <2>1. read.ok /\ read.value = Zero(theirs[m + 1]) /\ read.pos = pos /\ k < m + 1
        BY <1>1, <1>3, <1>5, <1>7, <1>10, <1>12
    <2>2. \A i \in 1..(m + 1) : new[i] = IF i <= k THEN values[i] ELSE Zero(theirs[i])
        <3>1. ASSUME NEW i \in 1..(m + 1), i = m + 1 PROVE new[i] = IF i <= k THEN values[i] ELSE Zero(theirs[i])
            <4>1. ~(i <= k)
                BY <1>1, <1>3, <2>1, <3>1
            <4> QED
                BY <1>9, <2>1, <3>1, <4>1
        <3> QED
            BY <1>9, <1>10, <1>11, <3>1
    <2>3. Upto(fields, values, theirs, buf, new, read.pos, k)
        BY <1>1, <1>2, <1>9, <1>10, <1>12, <2>1, <2>2 DEF Upto
    <2> QED
        BY <1>1, <1>8, <2>1, <2>3
<1>13. CASE pos # Len(buf)
    <2>1. pos < l /\ k = m
        BY <1>1, <1>2, <1>3, <1>10, <1>13
    <2>2. pos = Len(e[k])
        BY <1>1, <1>10
    <2>3. k < n
        <3>1. ASSUME k = n PROVE FALSE
            <4>1. pos = Len(all) /\ Len(all) \in Nat
                BY <1>1, <2>2, <3>1, LenProperties
            <4> QED
                BY <1>2, <2>1, <4>1
        <3> QED
            BY <1>1, <3>1
    <2>4. PICK j \in 1..n : j = m + 1 /\ j - 1 = k /\ j \in 0..n
        BY <1>1, <1>3, <2>1, <2>3
    <2>5. fields[j] = type /\ fields[j] \in Types
        <3>1. j \in 1..Len(fields) /\ j \in 1..Len(theirs)
            BY <1>1, <1>4, <2>4
        <3>2. fields[j] = theirs[j]
            BY <3>1 DEF Stepping, Agree
        <3> QED
            BY <1>5, <2>4, <3>2
    <2>6. Fronts(e, fields, values, all, n) /\ Left(buf, all, l)
        BY DEF Stepping
    <2>7. /\ read.ok => read.value = values[j] /\ read.pos = Len(e[j]) /\ Len(e[j]) <= l
          /\ l = Len(all) => read.ok
        <3>1. pos = Len(e[j - 1]) /\ read = ReadField(fields[j], buf, pos)
            BY <1>6, <2>2, <2>4, <2>5
        <3> QED
            BY <2>1, <2>5, <2>6, <3>1, LeftReads
    <2>8. ASSUME read.ok PROVE Upto(fields, values, theirs, buf, new, read.pos, j)
        <3>1. \A i \in 1..(m + 1) : i <= j
            BY <1>3, <2>4
        <3>2. \A i \in 1..m : i <= k
            BY <1>3, <2>1
        <3>3. \A i \in 1..(m + 1) : new[i] = IF i <= j THEN values[i] ELSE Zero(theirs[i])
            BY <1>9, <1>10, <1>11, <2>4, <2>7, <2>8, <3>1, <3>2
        <3>4. read.pos = Len(FirstPut(fields, values, j)) /\ read.pos <= Len(buf)
            BY <1>1, <1>2, <2>4, <2>7, <2>8
        <3>5. j <= Len(new) /\ ~(j < Len(new))
            BY <1>3, <1>9, <2>4
        <3> QED
            BY <1>9, <3>3, <3>4, <3>5 DEF Upto
    <2> QED
        BY <1>8, <2>4, <2>7, <2>8
<1> QED
    BY <1>12, <1>13

\* The message and its bytes stay as they are.
LEMMA MessageStays ==
    ASSUME Arriving, UNCHANGED <<schema, verdict, sent, payload>>
    PROVE  /\ Fields' = Fields /\ All' = All /\ OnItsWay' = OnItsWay /\ Travels'
           /\ schema'[Other(sent'.by)][sent'.id] = schema[Other(sent.by)][sent.id]
<1>1. Fields' = Fields /\ schema'[Other(sent'.by)][sent'.id] = schema[Other(sent.by)][sent.id] /\ OnItsWay' = OnItsWay
    BY DEF Fields, OnItsWay
<1>2. All' = All
    BY <1>1 DEF All
<1>3. Travels'
    BY <1>1, <1>2 DEF Arriving, Travels, Ready, Shared, IsWhole
<1> QED
    BY <1>1, <1>2, <1>3

\* What a reader starts with.
LEMMA OpenedType ==
    ASSUME NEW buf \in Seq(Byte), NEW theirs \in Seq(Types), NEW fields, NEW values
    PROVE  /\ <<>> \in Seq(FieldValues) /\ Len(<<>>) = 0 /\ Len(theirs) >= 0 /\ 0 \in 0..Len(buf)
           /\ 0 = Len(FirstPut(fields, values, 0)) => Upto(fields, values, theirs, buf, <<>>, 0, 0)
<1>1. <<>> \in Seq(FieldValues) /\ Len(<<>>) = 0
    BY EmptySeq
<1>2. Len(theirs) \in Nat /\ Len(buf) \in Nat
    BY LenProperties
<1>3. \A i \in 1..0 : FALSE
    OBVIOUS
<1>4. 0 \in 0..Len(buf) /\ Len(theirs) >= 0 /\ 0 <= Len(buf) /\ 0 <= 0 /\ ~(0 < 0)
    BY <1>2
<1>5. \A got : Len(got) = 0 /\ 0 = Len(FirstPut(fields, values, 0)) => Upto(fields, values, theirs, buf, got, 0, 0)
    BY <1>3, <1>4 DEF Upto
<1> QED
    BY <1>1, <1>4, <1>5

\* The payload is taken apart.
LEMMA ArriveKeeps ==
    ASSUME Arriving, Asked', Arrive
    PROVE  Arriving'
<1>1. sent # NoMessage /\ reader = NoReader /\ UNCHANGED <<schema, verdict, sent, payload>>
    BY DEF Arrive
<1>2. PICK parsed : parsed = Decode(payload, MaxCtxLen) /\ parsed = Decode(payload', MaxCtxLen)
    BY <1>1
<1>3. PICK theirs : theirs = schema[Other(sent.by)][sent.id]
    OBVIOUS
<1>4. reader' = IF parsed.error # "OK" THEN [NoReader EXCEPT !.at = "refused"]
                ELSE [NoReader EXCEPT !.at = "reading", !.buf = parsed.body, !.fields = theirs]
    BY <1>2, <1>3 DEF Arrive
<1>5. /\ Fields' = Fields /\ All' = All /\ OnItsWay' = OnItsWay /\ Travels' /\ sent' = sent /\ payload' = payload
      /\ schema'[Other(sent'.by)][sent'.id] = theirs
    BY <1>1, <1>3, MessageStays
<1>6. Agree(Fields, theirs)
    BY <1>1, <1>3, SameFields DEF Arriving
<1>7. CASE parsed.error # "OK"
    <2>1. reader' = [NoReader EXCEPT !.at = "refused"]
        BY <1>4, <1>7
    <2>2. reader'.at = "refused" /\ reader'.buf = <<>> /\ <<>> \in Seq(Byte) /\ reader' \in Readers
        <3>1. [NoReader EXCEPT !.at = "refused"] \in Readers
            BY NobodyReads DEF Readers
        <3> QED
            BY <2>1, <3>1, EmptySeq DEF NoReader
    <2>3. ~Started' /\ ~Unfailed'
        BY <2>2 DEF Started, Unfailed
    <2>4. Reads'
        BY <1>1, <1>2, <1>5, <1>7, <2>2, <2>3 DEF Reads
    <2>5. Found'
        <3>1. ASSUME OnItsWay, payload = sent.whole PROVE FALSE
            BY <1>2, <1>7, <3>1, OnTheWay DEF Arriving
        <3> QED
            BY <1>5, <2>3, <3>1 DEF Found
    <2> QED
        BY <1>5, <2>4, <2>5 DEF Arriving
<1>8. CASE parsed.error = "OK"
    <2>1. payload \in Seq(Byte)
        BY DEF Arriving, Travels
    <2>2. PICK buf \in Seq(Byte) : buf = parsed.body
        BY <1>2, <1>8, <2>1, DecodeEncodes
    <2>3. reader' = [at |-> "reading", buf |-> buf, fields |-> theirs, pos |-> 0, values |-> <<>>]
        BY <1>4, <1>8, <2>2 DEF NoReader
    <2>4. /\ reader'.at = "reading" /\ reader'.buf = buf /\ reader'.fields = theirs /\ reader'.pos = 0
          /\ reader'.values = <<>> /\ reader' \in Readers
        <3>1. theirs \in Seq(Types) /\ <<>> \in Seq(FieldValues)
            BY <1>6, EmptySeq DEF Agree
        <3> QED
            BY <2>3, <3>1 DEF Readers
    <2>5. theirs \in Seq(Types)
        BY <1>6 DEF Agree
    <2>6. <<>> \in Seq(FieldValues) /\ Len(<<>>) <= Len(theirs) /\ 0 \in 0..Len(buf)
        BY <2>5, OpenedType
    <2>7. Started' /\ Unfailed'
        BY <2>4 DEF Started, Unfailed
    <2>8. Reads'
        BY <1>1, <1>2, <1>5, <1>8, <2>2, <2>4, <2>6 DEF Reads
    <2>9. ASSUME OnItsWay PROVE \E k \in 0..Len(sent.values) : Upto(Fields, sent.values, theirs, buf, <<>>, 0, k)
        <3>1. PICK e : Fronts(e, Fields, sent.values, All, Len(sent.values))
            BY <2>9, OnTheWay DEF Arriving
        <3>2. Len(e[0]) = 0 /\ 0 \in 0..Len(sent.values) /\ e[0] = FirstPut(Fields, sent.values, 0)
            <4>1. Len(e[0]) = 0
                BY <3>1, FrontsGrow
            <4>2. Len(sent.values) \in Nat /\ \A k \in 0..Len(sent.values) : e[k] = FirstPut(Fields, sent.values, k)
                BY <3>1 DEF Fronts
            <4> QED
                BY <4>1, <4>2
        <3>3. Upto(Fields, sent.values, theirs, buf, <<>>, 0, 0)
            BY <2>5, <3>2, OpenedType
        <3> QED
            BY <3>2, <3>3
    <2>10. Found'
        <3>1. \A k : Reached(k)' <=> Upto(Fields, sent.values, theirs, buf, <<>>, 0, k)
            BY <1>5, <2>4 DEF Reached, Upto, FirstPut
        <3> QED
            BY <1>5, <2>4, <2>9, <3>1 DEF Found
    <2> QED
        BY <1>5, <2>8, <2>10 DEF Arriving
<1> QED
    BY <1>7, <1>8

\* One more field is read.
LEMMA ReadNextKeeps ==
    ASSUME Arriving, Asked', ReadNext
    PROVE  Arriving'
<1>1. reader.at = "reading" /\ Len(reader.values) < Len(reader.fields) /\ UNCHANGED <<schema, verdict, sent, payload>>
    BY DEF ReadNext
<1>2. PICK parsed : parsed = Decode(payload, MaxCtxLen) /\ parsed = Decode(payload', MaxCtxLen)
    BY <1>1
<1>3. PICK buf, theirs, got, pos : buf = reader.buf /\ theirs = reader.fields /\ got = reader.values /\ pos = reader.pos
    OBVIOUS
<1>4. /\ Started /\ Unfailed /\ parsed.error = "OK" /\ buf = parsed.body /\ theirs = schema[Other(sent.by)][sent.id]
      /\ got \in Seq(FieldValues) /\ Len(got) < Len(theirs) /\ pos \in 0..Len(buf) /\ sent # NoMessage /\ buf \in Seq(Byte)
    <2>1. Started /\ Unfailed /\ sent # NoMessage /\ reader.buf \in Seq(Byte)
        BY <1>1 DEF Arriving, Reads, Readers, Started, Unfailed
    <2> QED
        BY <1>1, <1>2, <1>3, <2>1 DEF Arriving, Reads
<1>5. /\ Fields' = Fields /\ All' = All /\ OnItsWay' = OnItsWay /\ Travels' /\ sent' = sent /\ payload' = payload
      /\ schema'[Other(sent'.by)][sent'.id] = theirs
    BY <1>1, <1>4, MessageStays
<1>6. Agree(Fields, theirs)
    BY <1>4, SameFields DEF Arriving
<1>7. PICK m \in Nat, t \in Nat : m = Len(got) /\ t = Len(theirs) /\ m + 1 \in 1..t
    <2>1. Len(got) \in Nat /\ Len(theirs) \in Nat
        BY <1>4, <1>6, LenProperties DEF Agree
    <2> QED
        BY <1>4, <2>1
<1>8. PICK type \in Types : type = theirs[m + 1]
    BY <1>6, <1>7, ElementOfSeq DEF Agree
<1>9. PICK read : read = ReadField(type, buf, pos)
    OBVIOUS
<1>10. read.ok \in BOOLEAN /\ read.pos \in 0..Len(buf) /\ read.value \in FieldValues
    BY <1>4, <1>9, FieldTwins
<1>11. reader' = [reader EXCEPT !.pos = read.pos, !.at = IF read.ok THEN "reading" ELSE "failed",
                                !.values = IF read.ok THEN Append(@, read.value) ELSE @]
    BY <1>3, <1>7, <1>8, <1>9 DEF ReadNext
<1>12. PICK new : new = Append(got, read.value)
    OBVIOUS
<1>13. new \in Seq(FieldValues) /\ Len(new) <= t
    <2>1. new \in Seq(FieldValues) /\ Len(new) = m + 1
        BY <1>4, <1>7, <1>10, <1>12, AppendProperties
    <2> QED
        BY <1>7, <2>1
<1>14. /\ reader'.at = (IF read.ok THEN "reading" ELSE "failed") /\ reader'.buf = buf /\ reader'.fields = theirs
       /\ reader'.pos = read.pos /\ (read.ok => reader'.values = new) /\ reader' \in Readers
    <2>1. reader \in Readers /\ read.pos \in Nat
        BY <1>4, <1>10, LenProperties DEF Arriving, Reads
    <2>2. CASE read.ok
        <3>1. reader' = [reader EXCEPT !.pos = read.pos, !.at = "reading", !.values = new]
            BY <1>3, <1>11, <1>12, <2>2
        <3> QED
            BY <1>3, <1>13, <2>1, <2>2, <3>1 DEF Readers
    <2>3. CASE ~read.ok
        <3>1. reader' = [reader EXCEPT !.pos = read.pos, !.at = "failed", !.values = reader.values]
            BY <1>11, <2>3
        <3> QED
            BY <1>3, <2>1, <2>3, <3>1 DEF Readers
    <2> QED
        BY <1>10, <2>2, <2>3
<1>15. Started' /\ (Unfailed' <=> read.ok)
    BY <1>10, <1>14 DEF Started, Unfailed
<1>16. Reads'
    <2>1. reader'.at \in {"reading", "failed"}
        BY <1>14
    <2> QED
        BY <1>2, <1>4, <1>5, <1>7, <1>10, <1>13, <1>14, <1>15, <2>1 DEF Reads
<1>17. ASSUME OnItsWay PROVE /\ read.ok => \E k \in 0..Len(sent.values) : Upto(Fields, sent.values, theirs, buf, new, read.pos, k)
                             /\ payload = sent.whole => read.ok
    <2>1. PICK e : Fronts(e, Fields, sent.values, All, Len(sent.values))
        BY <1>17, OnTheWay DEF Arriving
    <2>2. PICK l : Left(buf, All, l) /\ (payload = sent.whole => l = Len(All))
        BY <1>2, <1>4, <1>17, OnTheWay DEF Arriving
    <2>3. PICK k \in 0..Len(sent.values) : Upto(Fields, sent.values, theirs, buf, got, pos, k)
        BY <1>3, <1>4, <1>17 DEF Arriving, Found, Reached
    <2>4. read = ReadField(theirs[Len(got) + 1], buf, pos)
        BY <1>7, <1>8, <1>9
    <2>5. Stepping(e, Fields, sent.values, All, Len(sent.values), buf, l, theirs, got, pos, k, read)
        BY <1>4, <1>6, <2>1, <2>2, <2>3, <2>4 DEF Stepping
    <2>6. /\ read.ok => \E more \in 0..Len(sent.values) :
                            Upto(Fields, sent.values, theirs, buf, Append(got, read.value), read.pos, more)
          /\ l = Len(All) => read.ok
        BY <2>5, FieldComes
    <2> QED
        BY <1>12, <2>2, <2>6
<1>18. Found'
    <2>1. ASSUME read.ok PROVE \A k : Reached(k)' <=> Upto(Fields, sent.values, theirs, buf, new, read.pos, k)
        BY <1>5, <1>14, <2>1 DEF Reached, Upto, FirstPut
    <2> QED
        BY <1>5, <1>14, <1>15, <1>17, <2>1 DEF Found
<1> QED
    BY <1>5, <1>16, <1>18 DEF Arriving

\* All fields are read.
LEMMA ReadDoneKeeps ==
    ASSUME Arriving, Asked', ReadDone
    PROVE  Arriving'
<1>1. reader.at = "reading" /\ Len(reader.values) = Len(reader.fields) /\ UNCHANGED <<schema, verdict, sent, payload>>
    BY DEF ReadDone
<1>2. reader' = [reader EXCEPT !.at = "done"]
    BY DEF ReadDone
<1>3. /\ reader'.at = "done" /\ reader'.buf = reader.buf /\ reader'.fields = reader.fields
      /\ reader'.pos = reader.pos /\ reader'.values = reader.values /\ reader' \in Readers
    <2>1. reader \in Readers
        BY DEF Arriving, Reads
    <2> QED
        BY <1>2, <2>1 DEF Readers
<1>4. Started /\ Unfailed /\ Started' /\ Unfailed'
    BY <1>1, <1>3 DEF Started, Unfailed
<1>5. /\ Fields' = Fields /\ All' = All /\ OnItsWay' = OnItsWay /\ Travels' /\ sent' = sent /\ payload' = payload
      /\ schema'[Other(sent'.by)][sent'.id] = schema[Other(sent.by)][sent.id]
    BY <1>1, MessageStays
<1>6. Reads'
    BY <1>1, <1>3, <1>4, <1>5 DEF Arriving, Reads
<1>7. Found'
    <2>1. \A k : Reached(k)' <=> Reached(k)
        BY <1>3, <1>5 DEF Reached, Upto, FirstPut
    <2> QED
        BY <1>1, <1>3, <1>4, <1>5, <2>1 DEF Arriving, Found
<1> QED
    BY <1>5, <1>6, <1>7 DEF Arriving

\* What is known of the message and its reader in every state.
LEMMA ArrivingHolds == Spec => []Arriving
<1>1. Init /\ Asked => Arriving
    BY ArrivingStarts
<1>2. Arriving /\ Asked' /\ [Next]_vars => Arriving'
    <2> SUFFICES ASSUME Arriving, Asked', [Next]_vars PROVE Arriving'
        OBVIOUS
    <2>1. CASE \E s \in Side : Compare(s) \/ Settle(s)
        BY <2>1, AskedFirst
    <2>2. CASE \E s \in Side : Send(s)
        BY <2>2, SendKeeps
    <2>3. CASE SendForeign
        BY <2>3, ForeignKeeps
    <2>4. CASE Arrive
        BY <2>4, ArriveKeeps
    <2>5. CASE ReadNext
        BY <2>5, ReadNextKeeps
    <2>6. CASE ReadDone
        BY <2>6, ReadDoneKeeps
    <2>7. CASE UNCHANGED vars
        <3>1. UNCHANGED <<schema, verdict, sent, payload>> /\ UNCHANGED reader
            BY <2>7 DEF vars
        <3>2. Fields' = Fields /\ All' = All /\ OnItsWay' = OnItsWay /\ Travels'
              /\ schema'[Other(sent'.by)][sent'.id] = schema[Other(sent.by)][sent.id]
            BY <3>1, MessageStays
        <3>3. Reads'
            BY <3>1, <3>2 DEF Arriving, Reads, Started, Unfailed
        <3>4. Found'
            <4>1. \A k : Reached(k)' <=> Reached(k)
                BY <3>1, <3>2 DEF Reached, Upto, FirstPut
            <4> QED
                BY <3>1, <3>2, <4>1 DEF Arriving, Found, Unfailed
        <3> QED
            BY <3>2, <3>3, <3>4 DEF Arriving
    <2> QED
        BY <2>1, <2>2, <2>3, <2>4, <2>5, <2>6, <2>7 DEF Next
<1> QED
    BY <1>1, <1>2, AskedHolds, PTL DEF Spec

-----------------------------------------------------------------------------
\* What was found of a message on its way.

\* k fields were found, and what follows from how far the reader is.
LEMMA WhereItIs ==
    ASSUME Arriving, OnItsWay, Unfailed
    PROVE  \E k \in Nat :
            /\ k \in 0..Len(sent.values) /\ Reached(k) /\ DOMAIN sent.values = 1..Len(sent.values)
            /\ Len(sent.values) \in Nat /\ Len(reader.values) \in Nat /\ DOMAIN reader.values = 1..Len(reader.values)
            /\ k < Len(reader.values) => /\ reader.buf = FirstPut(Fields, sent.values, k)
                                         /\ payload = sent.whole => k = Len(sent.values)
<1>1. PICK k \in 0..Len(sent.values) : Reached(k)
    BY DEF Arriving, Found
<1>2. PICK e : Fronts(e, Fields, sent.values, All, Len(sent.values))
    BY OnTheWay DEF Arriving
<1>3. PICK n \in Nat : n = Len(sent.values) /\ k \in 0..n
    BY <1>1, <1>2 DEF Fronts
<1>4. PICK parsed : parsed = Decode(payload, MaxCtxLen)
    OBVIOUS
<1>5. parsed.error = "OK" /\ reader.buf = parsed.body /\ reader.values \in Seq(FieldValues)
    BY <1>4 DEF Arriving, Reads, Started, Unfailed
<1>6. PICK l : Left(reader.buf, All, l) /\ (payload = sent.whole => l = Len(All))
    BY <1>4, <1>5, OnTheWay DEF Arriving
<1>7. PICK m \in Nat : m = Len(reader.values) /\ DOMAIN reader.values = 1..m
    BY <1>5, LenProperties
<1>8. DOMAIN sent.values = 1..n
    <2>1. Fields \in Seq(Types) /\ Carries(Fields, sent.values)
        BY DEF Arriving, Travels, IsWhole
    <2>2. DOMAIN sent.values = 1..Len(Fields)
        BY <2>1, CarriesSendable
    <2> QED
        BY <1>2, <1>3, <2>2 DEF Fronts
<1>9. ASSUME k < m PROVE /\ reader.buf = FirstPut(Fields, sent.values, k)
                         /\ payload = sent.whole => k = n
    <2>1. PICK part : part = e[k]
        OBVIOUS
    <2>2. part = FirstPut(Fields, sent.values, k) /\ part \in Seq(Byte) /\ Holds(All, 0, part) /\ All \in Seq(Byte)
        BY <1>2, <1>3, <2>1 DEF Fronts
    <2>3. Len(part) = Len(reader.buf)
        BY <1>1, <1>7, <1>9, <2>2 DEF Reached, Upto
    <2>4. /\ reader.buf \in Seq(Byte) /\ Len(reader.buf) = l /\ l \in Nat /\ l <= Len(All)
          /\ \A i \in 1..l : reader.buf[i] = All[i]
        <3>1. /\ All \in Seq(Byte) /\ l \in Nat /\ l <= Len(All) /\ reader.buf = SubSeq(All, 1, l)
            BY <1>6 DEF Left
        <3> QED
            BY <3>1, CutFront
    <2>5. \A i \in 1..l : part[i] = All[i]
        <3>1. \A i \in 1..l : 0 + i = i
            BY <2>4
        <3> QED
            BY <2>2, <2>3, <2>4, <3>1 DEF Holds
    <2>6. reader.buf = part
        BY <2>2, <2>3, <2>4, <2>5, SeqEqual
    <2>7. ASSUME payload = sent.whole PROVE k = n
        <3>1. Len(e[k]) = Len(All) /\ Len(All) \in Nat
            BY <1>6, <2>1, <2>2, <2>3, <2>4, <2>7, LenProperties
        <3>2. k < n => Len(e[k]) < Len(All)
            BY <1>2, <1>3, FrontsGrow
        <3> QED
            BY <1>3, <3>1, <3>2
    <2> QED
        BY <2>2, <2>6, <2>7
<1> QED
    BY <1>1, <1>3, <1>7, <1>8, <1>9

\* A message that arrived whole has k = all of its fields found.
LEMMA SharedFieldsLemma ==
    ASSUME Arriving
    PROVE  SharedFieldsArrive
<1> SUFFICES ASSUME OnItsWay, payload = sent.whole
             PROVE  /\ reader.at \notin {"refused", "failed"}
                    /\ \A i \in DOMAIN reader.values :
                        IF i \in DOMAIN sent.values
                        THEN reader.fields[i] = Fields[i] /\ reader.values[i] = sent.values[i]
                        ELSE reader.values[i] = Zero(reader.fields[i])
    BY DEF SharedFieldsArrive, OnItsWay, Fields
<1>1. reader.at \notin {"refused", "failed"}
    BY DEF Arriving, Found
<1>2. CASE reader.at = "idle"
    <2>1. reader.values = <<>>
        BY <1>2 DEF Arriving, Reads, NoReader
    <2>2. DOMAIN reader.values = 1..0
        BY <2>1, EmptySeq, LenProperties
    <2>3. \A i \in 1..0 : FALSE
        OBVIOUS
    <2> QED
        BY <1>1, <2>2, <2>3
<1>3. CASE Unfailed
    <2>1. PICK k \in Nat :
            /\ k \in 0..Len(sent.values) /\ Reached(k) /\ DOMAIN sent.values = 1..Len(sent.values)
            /\ Len(sent.values) \in Nat /\ Len(reader.values) \in Nat /\ DOMAIN reader.values = 1..Len(reader.values)
            /\ k < Len(reader.values) => k = Len(sent.values)
        BY <1>3, WhereItIs
    <2>2. PICK n \in Nat, m \in Nat : n = Len(sent.values) /\ m = Len(reader.values)
        BY <2>1
    <2>3. \A i \in 1..m : reader.values[i] = IF i <= k THEN sent.values[i] ELSE Zero(reader.fields[i])
        BY <2>1, <2>2 DEF Reached, Upto
    <2>4. Agree(Fields, reader.fields) /\ m <= Len(reader.fields)
        <3>1. sent # NoMessage /\ reader.fields = schema[Other(sent.by)][sent.id] /\ m <= Len(reader.fields)
            BY <1>3, <2>2 DEF Arriving, Reads, Started, Unfailed
        <3> QED
            BY <3>1, SameFields DEF Arriving
    <2>5. n = Len(Fields)
        BY <2>2, OnTheWay DEF Arriving, Fronts
    <2>6. ASSUME NEW i \in 1..m, i \in 1..n
          PROVE  reader.fields[i] = Fields[i] /\ reader.values[i] = sent.values[i]
        <3>1. i <= k
            BY <2>1, <2>2, <2>6
        <3>2. i \in 1..Len(Fields) /\ i \in 1..Len(reader.fields)
            <4>1. Len(reader.fields) \in Nat
                BY <2>4, LenProperties DEF Agree
            <4> QED
                BY <2>4, <2>5, <2>6, <4>1
        <3> QED
            BY <2>3, <2>4, <3>1, <3>2 DEF Agree
    <2>7. ASSUME NEW i \in 1..m, i \notin 1..n PROVE reader.values[i] = Zero(reader.fields[i])
        <3>1. ~(i <= k)
            BY <2>1, <2>2, <2>7
        <3> QED
            BY <2>3, <3>1
    <2> QED
        BY <1>1, <2>1, <2>2, <2>6, <2>7
<1> QED
    BY <1>1, <1>2, <1>3 DEF Arriving, Reads, Readers, Unfailed

\* A reader that is done without finding all is at the end of the bytes.
LEMMA CutLemma ==
    ASSUME Arriving
    PROVE  CutIsSeen
<1> SUFFICES ASSUME OnItsWay, reader.at = "done"
             PROVE  \E k \in 0..Len(sent.values) :
                        /\ \A i \in DOMAIN reader.values :
                            reader.values[i] = IF i <= k THEN sent.values[i] ELSE Zero(reader.fields[i])
                        /\ k < Len(sent.values) => \/ reader.buf = FirstPut(Fields, sent.values, k)
                                                   \/ k >= Len(reader.fields)
    BY DEF CutIsSeen, OnItsWay, Fields, FirstPut
<1>1. Unfailed
    BY DEF Unfailed
<1>2. PICK k \in Nat :
        /\ k \in 0..Len(sent.values) /\ Reached(k) /\ Len(reader.values) \in Nat
        /\ DOMAIN reader.values = 1..Len(reader.values)
        /\ k < Len(reader.values) => reader.buf = FirstPut(Fields, sent.values, k)
    BY <1>1, WhereItIs
<1>3. \A i \in 1..Len(reader.values) : reader.values[i] = IF i <= k THEN sent.values[i] ELSE Zero(reader.fields[i])
    BY <1>2 DEF Reached, Upto
<1>4. Len(reader.fields) = Len(reader.values)
    BY DEF Arriving, Reads
<1>5. k < Len(reader.values) \/ k >= Len(reader.values)
    BY <1>2
<1> QED
    BY <1>2, <1>3, <1>4, <1>5

\* Every payload is a sequence of bytes.
LEMMA CanonicalLemma ==
    ASSUME Arriving
    PROVE  FrameCanonical
<1>1. PICK parsed : parsed = Decode(payload, MaxCtxLen)
    OBVIOUS
<1>2. payload \in Seq(Byte)
    BY DEF Arriving, Travels
<1>3. parsed.error = "OK" =>
        Encode(parsed.header, parsed.ctx, parsed.body) = payload /\ Len(parsed.ctx) <= MaxCtxLen
    <2>1. MaxCtxLen \in Nat
        BY ExchangeConstants DEF U32
    <2> QED
        BY <1>1, <1>2, <2>1, DecodeEncodes
<1>4. ASSUME OnItsWay, payload = sent.whole
      PROVE  parsed.error = "OK" /\ DecodeCtx(parsed.ctx).ok /\ DecodeCtx(parsed.ctx).ctx = sent.ctx
    BY <1>1, <1>4, OnTheWay DEF Arriving
<1> QED
    BY <1>1, <1>3, <1>4 DEF FrameCanonical, OnItsWay

\* Every body is a sequence of bytes.
LEMMA TwinsLemma ==
    ASSUME Arriving
    PROVE  TwinsAgree
<1>1. PICK body \in Seq(Byte) : body = reader.buf
    BY DEF Arriving, Reads, Readers
<1>2. \A hand, made : hand = DecodeCtx(body) /\ made = DecodeModel(CtxFields, body) =>
            hand.ok = made.ok /\ (hand.ok => hand.ctx = made.values)
    BY CtxAgrees
<1>3. \A error, status : error = DecodeModel(ErrorFields, body) /\ status = DecodeStatus(body) =>
        /\ status = ErrorTwin(body, error)
        /\ error.ok /\ error.pos = Len(body) /\ Len(body) > WordLen => EncodeStatus(status) = body
    BY StatusAgrees
<1> QED
    BY <1>1, <1>2, <1>3 DEF TwinsAgree, ErrorTwin

-----------------------------------------------------------------------------
\* The verdict of HandshakeCompare, and of comparePrefixes after it, is the
\* prefix test of RFC-0002 9.1 whichever end asks, for every pair of versions.
THEOREM VerdictsAreRight == Spec => []VerdictIsPrefixTest
BY AskedHolds, PTL DEF Asked

\* Between ends that accepted each other, whatever versions they have, the
\* fields both carry of a message that arrives whole are decoded as they were
\* sent, and the rest are zero.
THEOREM SharedFieldsArriveWhole == Spec => []SharedFieldsArrive
BY ArrivingHolds, SharedFieldsLemma, PTL

\* Wherever a payload is cut, its decoder fails or finds the first fields that
\* were sent and zeros, and then exactly those fields had arrived.
THEOREM CutsAreSeen == Spec => []CutIsSeen
BY ArrivingHolds, CutLemma, PTL

\* Whatever bytes arrive, what Decode accepts Encode writes back and its ctx
\* block is below the ceiling; what Encode wrote Decode accepts with the ctx
\* its caller set.
THEOREM FramesAreCanonical == Spec => []FrameCanonical
BY ArrivingHolds, CanonicalLemma, PTL

\* Whatever bytes arrive, DecodeCtx and DecodeStatus make of them what the
\* generated decoders of FRpcCtx and FRpcError make of them.
THEOREM ReadersAgree == Spec => []TwinsAgree
BY ArrivingHolds, TwinsLemma, PTL
=============================================================================
