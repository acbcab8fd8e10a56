------------------------------- MODULE Handshake -------------------------------
(***************************************************************************)
(* The comparison of two schemas (generated/handshake.go).  A schema maps  *)
(* the ids of the messages it declares to their field lists.  The          *)
(* fingerprint of the first k fields of a message is those fields: hashes  *)
(* are taken to be free of collisions.                                     *)
(***************************************************************************)
EXTENDS Naturals, Sequences, SequencesExt, Keys

\* FomoxaMessages: every message of the schema, sorted by id.
Messages(schema) ==
    LET ids == SortedKeys(DOMAIN schema)
    IN [i \in DOMAIN ids |-> [id |-> ids[i], fields |-> schema[ids[i]]]]
FieldPrefixes(message) == [k \in DOMAIN message.fields |-> SubSeq(message.fields, 1, k)]

\* The binary search for the place of the first id that is not less: it is in
\* low..high.
\* Mutant: the lower half leaves out the middle.
Halve_ShortHalf(messages, id, at) ==
    LET middle == (at.low + at.high) \div 2
    IN IF at.low >= at.high THEN at
       ELSE IF messages[middle + 1].id < id THEN [at EXCEPT !.low = middle + 1]
       ELSE [at EXCEPT !.high = IF middle = 0 THEN 0 ELSE middle - 1]
Halve(messages, id, at) ==
    LET middle == (at.low + at.high) \div 2
    IN IF at.low >= at.high THEN at
       ELSE IF messages[middle + 1].id < id THEN [at EXCEPT !.low = middle + 1]
       ELSE [at EXCEPT !.high = middle]
Search(messages, id) ==
    LET n == Len(messages)
        after[k \in 0..n] == IF k = 0 THEN [low |-> 0, high |-> n] ELSE Halve(messages, id, after[k - 1])
    IN after[n].low

\* MessageByID, as a set that holds the message or nothing.
MessageByID(schema, id) ==
    LET messages == Messages(schema)
        low == Search(messages, id)
    IN IF low < Len(messages) /\ messages[low + 1].id = id THEN {messages[low + 1]} ELSE {}

\* FomoxaPrefix: the fingerprint of the first `count` fields, if there is one.
Prefix(schema, id, count) ==
    UNION {IF count = 0 \/ count > Len(FieldPrefixes(m)) THEN {} ELSE {FieldPrefixes(m)[count]} :
           m \in MessageByID(schema, id)}

\* Mutant: fields beyond the first are left to the reader.
CheckKnown_FirstField(known, count, fingerprint) ==
    LET local == Len(FieldPrefixes(known))
    IN CASE fingerprint = known.fields  -> "match"
         [] count = 0 \/ local = 0      -> "match"
         [] known.fields[1] = fingerprint[1] -> "match"
         [] OTHER                       -> "reject"

\* FomoxaCheckMessage for a message this schema declares.
CheckKnown(known, count, fingerprint) ==
    LET local == Len(FieldPrefixes(known))
    IN IF fingerprint = known.fields THEN "match"
       ELSE IF count = 0 \/ local = 0 THEN "match"
       ELSE IF count = local THEN "reject"
       ELSE IF count < local
            THEN IF FieldPrefixes(known)[count] = fingerprint THEN "match" ELSE "reject"
       ELSE "needPrefix"
CheckMessage(schema, peer) ==
    LET checks == {CheckKnown(known, peer.count, peer.fingerprint) : known \in MessageByID(schema, peer.id)}
    IN IF checks = {} THEN "match" ELSE CHOOSE check \in checks : TRUE

\* The table a peer sends: ids, field counts, fingerprints.
Table(schema) ==
    {[id |-> id, count |-> Len(schema[id]), fingerprint |-> schema[id]] : id \in DOMAIN schema}

HandshakeCompare(schema, peerSchema) ==
    LET checks == {CheckMessage(schema, peer) : peer \in Table(peerSchema)}
    IN IF schema = peerSchema THEN "current"
       ELSE IF "reject" \in checks THEN "reject"
       ELSE IF "needPrefix" \in checks THEN "needMore"
       ELSE "outdated"

\* The extra round: the peer's prefix at the local field count, for every
\* message that needs it.
AnswersAgree(schema, peerSchema) ==
    \A peer \in Table(peerSchema) :
        CheckMessage(schema, peer) = "needPrefix" =>
            LET count == Len(schema[peer.id])
            IN Prefix(peerSchema, peer.id, count) = Prefix(schema, peer.id, count)
=============================================================================
