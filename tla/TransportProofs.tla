---------------------------- MODULE TransportProofs ----------------------------
(***************************************************************************)
(* Proofs about Transport, for every set of frames, every size of a frame  *)
(* and every size of the kernel's buffer.                                  *)
(***************************************************************************)
EXTENDS Transport, SequenceTheorems, TLAPS

-----------------------------------------------------------------------------
\* What the proofs rest on: the shape of the transport and of the socket.

TransportType == [backlog : Seq(Byte), refused : BOOLEAN, closed : BOOLEAN]
NetType == [wire : Seq(Byte), used : 0..Buffer, readable : BOOLEAN, eof : BOOLEAN,
            broken : BOOLEAN, shut : BOOLEAN]

TypeOK ==
    /\ t \in TransportType
    /\ net \in NetType
    /\ owed \in Seq(Byte)

\* All the bytes of b belong to one frame.
OneFrame(b) == \A i, j \in DOMAIN b : b[i][1] = b[j][1]

\* FramesWhole, of any transport tr, socket n and accepted bytes o.
Whole(tr, n, o) ==
    /\ OneFrame(tr.backlog)
    /\ IsPrefix(n.wire, o)
    /\ tr.closed \/ o = n.wire \o tr.backlog

\* The bytes accepted once a Send of f has returned the status s.
Accepted(s, o, f) == IF s = "OK" THEN o \o Bytes(f) ELSE o

-----------------------------------------------------------------------------
\* Sequences of bytes.

LEMMA BytesType ==
    ASSUME NEW f \in Frames
    PROVE  /\ Bytes(f) \in Seq(Byte)
           /\ Len(Bytes(f)) = Size[f]
           /\ Size[f] \in Nat \ {0}
           /\ \A i \in 1..Size[f] : Bytes(f)[i] = <<f, i>>
<1>1. Size[f] \in Nat \ {0}
    BY TransportConstants
<1>2. \A i \in 1..Size[f] : <<f, i>> \in Byte
    BY <1>1 DEF Byte
<1>3. Bytes(f) \in [1..Size[f] -> Byte]
    BY <1>2 DEF Bytes
<1>4. Bytes(f) \in Seq(Byte) /\ Len(Bytes(f)) = Size[f]
    BY <1>1, <1>3
<1> QED
    BY <1>1, <1>4 DEF Bytes

\* A sequence cut in two is the first part followed by the second.
LEMMA Cut ==
    ASSUME NEW b \in Seq(Byte), NEW k \in 0..Len(b)
    PROVE  /\ UpTo(b, k) \in Seq(Byte)
           /\ From(b, k) \in Seq(Byte)
           /\ UpTo(b, k) \o From(b, k) = b
           /\ Len(From(b, k)) = Len(b) - k
           /\ \A i \in 1..(Len(b) - k) : From(b, k)[i] = b[i + k]
<1>1. Len(b) \in Nat /\ DOMAIN b = 1..Len(b) /\ \A i \in 1..Len(b) : b[i] \in Byte
    BY LenProperties
<1>2. UpTo(b, k) \in Seq(Byte)
    <2>1. \A i \in 1..k : b[i] \in Byte
        BY <1>1
    <2> QED
        BY <2>1, SubSeqProperties DEF UpTo
<1>3. /\ From(b, k) \in Seq(Byte) /\ Len(From(b, k)) = Len(b) - k
      /\ \A i \in 1..(Len(b) - k) : From(b, k)[i] = b[i + k]
    <2>1. /\ \A i \in (k + 1)..Len(b) : b[i] \in Byte
          /\ k + 1 \in Int /\ Len(b) \in Int /\ k \in Int /\ k <= Len(b)
        BY <1>1
    <2>2. /\ SubSeq(b, k + 1, Len(b)) \in Seq(Byte)
          /\ Len(SubSeq(b, k + 1, Len(b)))
                = IF k + 1 <= Len(b) THEN Len(b) - (k + 1) + 1 ELSE 0
          /\ \A i \in 1..(Len(b) - (k + 1) + 1) :
                SubSeq(b, k + 1, Len(b))[i] = b[(k + 1) + i - 1]
        BY <2>1, SubSeqProperties
    <2>3. Len(SubSeq(b, k + 1, Len(b))) = Len(b) - k
        BY <2>1, <2>2
    <2>4. ASSUME NEW i \in 1..(Len(b) - k)
          PROVE  SubSeq(b, k + 1, Len(b))[i] = b[i + k]
        <3>1. i \in 1..(Len(b) - (k + 1) + 1) /\ (k + 1) + i - 1 = i + k
            BY <2>1
        <3> QED
            BY <2>2, <3>1, Zenon
    <2> QED
        BY <2>2, <2>3, <2>4, Zenon DEF From
<1>4. UpTo(b, k) \o From(b, k) = b
    <2>1. 1 \in 1..(Len(b) + 1) /\ k \in (1 - 1)..Len(b) /\ Len(b) \in k..Len(b)
        BY <1>1
    <2>2. SubSeq(b, 1, k) \o SubSeq(b, k + 1, Len(b)) = SubSeq(b, 1, Len(b))
        BY <2>1, ConcatAdjacentSubSeq
    <2> QED
        BY <2>2, SubSeqFull DEF UpTo, From
<1> QED
    BY <1>2, <1>3, <1>4

\* The rest of bytes of one frame is of that frame.
LEMMA RestOfOneFrame ==
    ASSUME NEW b \in Seq(Byte), NEW k \in 0..Len(b), OneFrame(b)
    PROVE  OneFrame(From(b, k))
<1>1. Len(b) \in Nat /\ DOMAIN b = 1..Len(b)
    BY LenProperties
<1>2. From(b, k) \in Seq(Byte) /\ DOMAIN From(b, k) = 1..(Len(b) - k)
    BY Cut, LenProperties
<1>3. \A i \in 1..(Len(b) - k) : From(b, k)[i] = b[i + k] /\ i + k \in DOMAIN b
    BY <1>1, Cut
<1>4. ASSUME NEW i \in 1..(Len(b) - k), NEW j \in 1..(Len(b) - k)
      PROVE  From(b, k)[i][1] = From(b, k)[j][1]
    <2>1. /\ From(b, k)[i] = b[i + k] /\ i + k \in DOMAIN b
          /\ From(b, k)[j] = b[j + k] /\ j + k \in DOMAIN b
        BY <1>3
    <2>2. b[i + k][1] = b[j + k][1]
        BY <2>1, Zenon DEF OneFrame
    <2> QED
        BY <2>1, <2>2
<1> QED
    BY <1>2, <1>4, Zenon DEF OneFrame

LEMMA Regroup == \A a, b, c \in Seq(Byte) : (a \o b) \o c = a \o (b \o c)
BY ConcatAssociative

\* What is written first is a prefix of all there is.
LEMMA PrefixOfConcat ==
    ASSUME NEW w \in Seq(Byte), NEW b \in Seq(Byte)
    PROVE  IsPrefix(w, w \o b)
<1>1. /\ Len(w) \in Nat /\ Len(b) \in Nat
      /\ w \o b \in Seq(Byte) /\ Len(w \o b) = Len(w) + Len(b)
      /\ \A i \in 1..Len(w) : (w \o b)[i] = w[i]
    BY LenProperties, ConcatProperties
<1>2. SubSeq(w, 1, Len(w)) \in Seq(Byte) /\ SubSeq(w \o b, 1, Len(w)) \in Seq(Byte)
    BY <1>1
<1>3. /\ Len(SubSeq(w, 1, Len(w))) = Len(w)
      /\ Len(SubSeq(w \o b, 1, Len(w))) = Len(w)
      /\ \A i \in 1..Len(w) : /\ SubSeq(w, 1, Len(w))[i] = w[i]
                              /\ SubSeq(w \o b, 1, Len(w))[i] = (w \o b)[i]
    BY <1>1
<1>4. SubSeq(w, 1, Len(w)) = SubSeq(w \o b, 1, Len(w))
    BY <1>1, <1>2, <1>3, SeqEqual
<1> QED
    BY <1>1, <1>4 DEF IsPrefix

-----------------------------------------------------------------------------
\* The methods of SocketTransport.

\* The kernel takes bytes: the wire grows by exactly them.
LEMMA PutKeeps ==
    ASSUME NEW n \in NetType, NEW b \in Seq(Byte)
    PROVE  /\ Put(n, b) \in NetType
           /\ Put(n, b).wire = n.wire \o b
<1>1. n.wire \in Seq(Byte) /\ n.used \in 0..Buffer /\ Buffer \in Nat /\ Len(b) \in Nat
    BY LenProperties, TransportConstants DEF NetType
<1>2. n.wire \o b \in Seq(Byte)
    BY <1>1, ConcatProperties
<1>3. Least(Buffer, n.used + Len(b)) \in 0..Buffer
    BY <1>1 DEF Least
<1> QED
    BY <1>2, <1>3 DEF Put, NetType

LEMMA FailKeeps ==
    ASSUME NEW tr \in TransportType, NEW n, NEW o, Whole(tr, n, o)
    PROVE  Fail(tr) \in TransportType /\ Fail(tr).closed /\ Whole(Fail(tr), n, o)
BY DEF Fail, TransportType, Whole

\* Pushing the backlog moves its first bytes to the end of the wire; it never
\* closes the transport unless it reports an error.
LEMMA PushKeeps ==
    ASSUME NEW tr \in TransportType, NEW n \in NetType, NEW o \in Seq(Byte),
           ~tr.closed, Whole(tr, n, o), NEW r \in PushBacklog(tr, n)
    PROVE  /\ r.tr \in TransportType /\ r.net \in NetType
           /\ Whole(r.tr, r.net, o)
           /\ r.status \in {"OK", "ERROR"}
           /\ r.status = "OK" => ~r.tr.closed
<1>1. /\ tr.backlog \in Seq(Byte) /\ n.wire \in Seq(Byte) /\ Len(tr.backlog) \in Nat
      /\ n.used \in 0..Buffer /\ Buffer \in Nat
    BY LenProperties, TransportConstants DEF TransportType, NetType
<1>2. CASE tr.backlog = <<>>
    <2>1. r = Result(tr, n, "OK")
        BY <1>2 DEF PushBacklog
    <2> QED
        BY <2>1 DEF Result
<1>3. CASE tr.backlog # <<>> /\ Dead(n)
    <2>1. r = Result(Fail(tr), n, "ERROR")
        BY <1>3 DEF PushBacklog
    <2> QED
        BY <2>1, FailKeeps DEF Result
<1>4. CASE tr.backlog # <<>> /\ ~Dead(n)
    <2>1. PICK k \in Least(Room(n), Len(tr.backlog))..Len(tr.backlog) :
            r = Result([tr EXCEPT !.backlog = From(@, k)], Put(n, UpTo(tr.backlog, k)), "OK")
        BY <1>4 DEF PushBacklog
    <2>2. k \in 0..Len(tr.backlog)
        BY <1>1 DEF Least, Room
    <2> DEFINE u == UpTo(tr.backlog, k)
               v == From(tr.backlog, k)
    <2>3. u \in Seq(Byte) /\ v \in Seq(Byte) /\ u \o v = tr.backlog
        BY <1>1, <2>2, Cut
    <2>4. OneFrame(v)
        BY <1>1, <2>2, RestOfOneFrame DEF Whole
    <2>5. Put(n, u) \in NetType /\ Put(n, u).wire = n.wire \o u
        BY <2>3, PutKeeps
    <2>6. o = (n.wire \o u) \o v
        <3>1. o = n.wire \o (u \o v)
            BY <2>3 DEF Whole
        <3>2. (n.wire \o u) \o v = n.wire \o (u \o v)
            <4> HIDE DEF u, v
            <4> QED
                BY <1>1, <2>3, Regroup, Zenon
        <3> QED
            BY <3>1, <3>2, Zenon
    <2>7. IsPrefix(n.wire \o u, o)
        <3>1. n.wire \o u \in Seq(Byte)
            BY <1>1, <2>3, ConcatProperties
        <3> QED
            BY <2>3, <2>6, <3>1, PrefixOfConcat
    <2> DEFINE tn == [tr EXCEPT !.backlog = v]
    <2>8. tn \in TransportType /\ tn.backlog = v /\ tn.closed = tr.closed
        BY <2>3 DEF TransportType
    <2>9. r.tr = tn /\ r.net = Put(n, u) /\ r.status = "OK"
        BY <2>1 DEF Result
    <2> HIDE DEF u, v, tn
    <2> QED
        BY <2>4, <2>5, <2>6, <2>7, <2>8, <2>9 DEF Whole
<1> QED
    BY <1>2, <1>3, <1>4

\* The write of a frame: the kernel takes its first bytes and the rest becomes
\* the backlog, or it takes none and the frame has left no trace.
LEMMA WriteKeeps ==
    ASSUME NEW tr \in TransportType, NEW n \in NetType, NEW o \in Seq(Byte), NEW f \in Frames,
           ~tr.closed, tr.backlog = <<>>, Whole(tr, n, o), NEW r \in WriteFrame(tr, n, f)
    PROVE  /\ r.tr \in TransportType /\ r.net \in NetType
           /\ Whole(r.tr, r.net, Accepted(r.status, o, f))
<1>1. /\ n.wire \in Seq(Byte) /\ n.used \in 0..Buffer /\ Buffer \in Nat
      /\ Bytes(f) \in Seq(Byte) /\ Len(Bytes(f)) = Size[f] /\ Size[f] \in Nat
    BY BytesType, TransportConstants DEF NetType
<1>2. CASE Dead(n)
    <2>1. r = Result(Fail(tr), n, "ERROR")
        BY <1>2 DEF WriteFrame
    <2> QED
        BY <2>1, FailKeeps DEF Result, Accepted
<1>3. CASE ~Dead(n) /\ Room(n) = 0
    <2>1. r = Result([tr EXCEPT !.refused = TRUE], n, "PENDING")
        BY <1>3 DEF WriteFrame
    <2> QED
        BY <2>1 DEF Result, Accepted, Whole, TransportType
<1>4. CASE ~Dead(n) /\ Room(n) # 0
    <2>1. PICK k \in 1..Least(Room(n), Size[f]) :
            r = Result([tr EXCEPT !.refused = FALSE, !.backlog = @ \o From(Bytes(f), k)],
                       Put(n, UpTo(Bytes(f), k)), "OK")
        BY <1>4 DEF WriteFrame
    <2>2. k \in 0..Len(Bytes(f))
        BY <1>1 DEF Least, Room
    <2> DEFINE u == UpTo(Bytes(f), k)
               v == From(Bytes(f), k)
               tn == [tr EXCEPT !.refused = FALSE, !.backlog = v]
    <2>3. u \in Seq(Byte) /\ v \in Seq(Byte) /\ u \o v = Bytes(f)
        BY <1>1, <2>2, Cut
    <2>4. OneFrame(v)
        <3>1. OneFrame(Bytes(f))
            BY DEF OneFrame, Bytes
        <3> QED
            BY <1>1, <2>2, <3>1, RestOfOneFrame
    <2>5. Put(n, u) \in NetType /\ Put(n, u).wire = n.wire \o u
        BY <2>3, PutKeeps
    <2>6. o = n.wire
        BY <1>1, ConcatEmptySeq DEF Whole
    <2>7. o \o Bytes(f) = (n.wire \o u) \o v
        <3>1. o \o Bytes(f) = n.wire \o (u \o v)
            BY <2>3, <2>6
        <3>2. (n.wire \o u) \o v = n.wire \o (u \o v)
            <4> HIDE DEF u, v
            <4> QED
                BY <1>1, <2>3, Regroup, Zenon
        <3> QED
            BY <3>1, <3>2, Zenon
    <2>8. IsPrefix(n.wire \o u, o \o Bytes(f))
        <3>1. n.wire \o u \in Seq(Byte)
            BY <1>1, <2>3, ConcatProperties
        <3> QED
            BY <2>3, <2>7, <3>1, PrefixOfConcat
    <2>9. tn \in TransportType /\ tn.backlog = v
        BY <2>3 DEF TransportType
    <2>10. <<>> \o v = v
        BY <2>3, ConcatEmptySeq
    <2>11. r.tr = tn /\ r.net = Put(n, u) /\ r.status = "OK"
        BY <2>1, <2>10 DEF Result
    <2> HIDE DEF u, v, tn
    <2> QED
        BY <2>4, <2>5, <2>7, <2>8, <2>9, <2>11 DEF Whole, Accepted
<1> QED
    BY <1>2, <1>3, <1>4

\* Send: the bytes accepted grow by the frame exactly when it returns OK.
LEMMA SendKeeps ==
    ASSUME NEW tr \in TransportType, NEW n \in NetType, NEW o \in Seq(Byte), NEW f \in Frames,
           Whole(tr, n, o), NEW r \in SendOutcomes(tr, n, f)
    PROVE  /\ r.tr \in TransportType /\ r.net \in NetType
           /\ Whole(r.tr, r.net, Accepted(r.status, o, f))
<1>1. CASE tr.closed
    <2>1. r = Result(tr, n, "CLOSED")
        BY <1>1 DEF SendOutcomes
    <2> QED
        BY <2>1 DEF Result, Accepted
<1>2. CASE ~tr.closed
    <2>1. PICK p \in PushBacklog(tr, n) :
            r \in IF p.status # "OK" THEN {p}
                  ELSE IF p.tr.backlog # <<>>
                       THEN {[p EXCEPT !.tr.refused = TRUE, !.status = "PENDING"]}
                  ELSE WriteFrame(p.tr, p.net, f)
        BY <1>2 DEF SendOutcomes
    <2>2. /\ p.tr \in TransportType /\ p.net \in NetType /\ Whole(p.tr, p.net, o)
          /\ p.status \in {"OK", "ERROR"} /\ (p.status = "OK" => ~p.tr.closed)
        BY <1>2, PushKeeps
    <2>3. CASE p.status # "OK"
        BY <2>1, <2>2, <2>3 DEF Accepted
    <2>4. CASE p.status = "OK" /\ p.tr.backlog # <<>>
        <3>1. r = [p EXCEPT !.tr.refused = TRUE, !.status = "PENDING"]
            BY <2>1, <2>4
        <3>2. p = Result(p.tr, p.net, p.status)
            BY <1>2 DEF PushBacklog, Result
        <3>3. /\ r.tr = [p.tr EXCEPT !.refused = TRUE]
              /\ r.net = p.net /\ r.status = "PENDING"
            BY <3>1, <3>2 DEF Result
        <3> QED
            BY <2>2, <3>3 DEF Accepted, Whole, TransportType
    <2>5. CASE p.status = "OK" /\ p.tr.backlog = <<>>
        BY <2>1, <2>2, <2>5, WriteKeeps
    <2> QED
        BY <2>3, <2>4, <2>5
<1> QED
    BY <1>1, <1>2

\* Receive: reading moves no byte of what is sent.
LEMMA ReceiveKeeps ==
    ASSUME NEW tr \in TransportType, NEW n \in NetType, NEW o \in Seq(Byte),
           Whole(tr, n, o), NEW r \in ReceiveOutcomes(tr, n)
    PROVE  r.tr \in TransportType /\ r.net \in NetType /\ Whole(r.tr, r.net, o)
<1>1. CASE tr.closed
    BY <1>1 DEF ReceiveOutcomes, Result
<1>2. CASE ~tr.closed
    <2>1. PICK p \in PushBacklog(tr, n) :
            r = IF p.status # "OK" THEN p ELSE ReadSocket(p.tr, p.net)
        BY <1>2 DEF ReceiveOutcomes
    <2>2. /\ p.tr \in TransportType /\ p.net \in NetType /\ Whole(p.tr, p.net, o)
        BY <1>2, PushKeeps
    <2>3. CASE r = p
        BY <2>2, <2>3
    <2>4. CASE r = ReadSocket(p.tr, p.net)
        <3>1. CASE r = Result(Fail(p.tr), p.net, "ERROR")
            BY <2>2, <3>1, FailKeeps DEF Result
        <3>2. CASE r = Result(p.tr, [p.net EXCEPT !.readable = FALSE], "OK")
            BY <2>2, <3>2 DEF Result, Whole, NetType
        <3>3. CASE r = Result([p.tr EXCEPT !.closed = TRUE], p.net, "CLOSED")
            BY <2>2, <3>3, FailKeeps DEF Result, Fail
        <3>4. CASE r = Result(p.tr, p.net, "PENDING")
            BY <2>2, <3>4 DEF Result
        <3> QED
            BY <2>4, <3>1, <3>2, <3>3, <3>4 DEF ReadSocket
    <2> QED
        BY <2>1, <2>3, <2>4
<1> QED
    BY <1>1, <1>2

-----------------------------------------------------------------------------
\* FramesWhole is inductive once the shapes are known.
IInv == TypeOK /\ Whole(t, net, owed)

LEMMA InitWhole == Init => IInv
<1> SUFFICES ASSUME Init PROVE IInv
    OBVIOUS
<1>1. <<>> \in Seq(Byte) /\ <<>> \o <<>> = <<>> /\ Len(<<>>) = 0
    BY EmptySeq, ConcatEmptySeq
<1>2. TypeOK
    BY <1>1, TransportConstants DEF Init, TypeOK, TransportType, NetType
<1>3. IsPrefix(<<>>, <<>>)
    BY <1>1, PrefixOfConcat
<1>4. OneFrame(<<>>)
    BY DEF OneFrame
<1> QED
    BY <1>1, <1>2, <1>3, <1>4 DEF Init, IInv, Whole

LEMMA NextWhole == IInv /\ [Next]_vars => IInv'
<1> SUFFICES ASSUME IInv, [Next]_vars PROVE IInv'
    OBVIOUS
<1> USE DEF IInv, TypeOK
<1>1. ASSUME NEW f \in Frames, SendPlain(f) PROVE IInv'
    <2>1. PICK r \in SendOutcomes(t, net, f) :
            t' = r.tr /\ net' = r.net /\ owed' = Accepted(r.status, owed, f)
        BY <1>1 DEF SendPlain, Accepted
    <2>2. owed' \in Seq(Byte)
        BY <2>1, BytesType, ConcatProperties DEF Accepted
    <2> QED
        BY <2>1, <2>2, SendKeeps
<1>2. ASSUME NEW f \in Frames, SendHeld(f) PROVE IInv'
    <2>1. PICK r \in SendOutcomes(t, net, f) :
            t' = r.tr /\ net' = r.net /\ owed' = Accepted(r.status, owed, f)
        BY <1>2 DEF SendHeld, Accepted
    <2>2. owed' \in Seq(Byte)
        BY <2>1, BytesType, ConcatProperties DEF Accepted
    <2> QED
        BY <2>1, <2>2, SendKeeps
<1>3. CASE CloseSend
    <2>1. PICK r \in PushBacklog(t, net) : t' = r.tr /\ net' = [r.net EXCEPT !.shut = TRUE]
        BY <1>3 DEF CloseSend
    <2>2. r.tr \in TransportType /\ r.net \in NetType /\ Whole(r.tr, r.net, owed)
        BY <1>3, PushKeeps DEF CloseSend
    <2> QED
        BY <1>3, <2>1, <2>2 DEF CloseSend, NetType, Whole
<1>4. CASE Receive
    <2>1. PICK r \in ReceiveOutcomes(t, net) : t' = r.tr /\ net' = r.net
        BY <1>4 DEF Receive
    <2> QED
        BY <1>4, <2>1, ReceiveKeeps DEF Receive
<1>5. CASE Close
    BY <1>5, FailKeeps DEF Close, Fail
<1>6. CASE PeerReads
    <2>1. PICK k \in 0..(net.used - 1) : net' = [net EXCEPT !.used = k]
        BY <1>6 DEF PeerReads
    <2>2. k \in 0..Buffer
        BY TransportConstants DEF NetType
    <2> QED
        BY <1>6, <2>1, <2>2 DEF PeerReads, NetType, Whole
<1>7. CASE PeerSends
    BY <1>7 DEF PeerSends, NetType, Whole
<1>8. CASE PeerLeaves
    BY <1>8 DEF PeerLeaves, NetType, Whole
<1>9. CASE UNCHANGED <<t, net, owed>>
    BY <1>9 DEF Whole
<1>10. ASSUME NEW f \in Frames, Queue(f) \/ Discard(f) PROVE UNCHANGED <<t, net, owed>>
    BY <1>10 DEF Queue, Discard
<1>11. Resume \/ TickDone \/ DrainDone \/ Plan \/ Wake \/ TimeOut \/ Ended \/ UNCHANGED vars
            => UNCHANGED <<t, net, owed>>
    BY DEF Resume, TickDone, DrainDone, Plan, Wake, TimeOut, Ended, vars
<1> QED
    BY <1>1, <1>2, <1>3, <1>4, <1>5, <1>6, <1>7, <1>8, <1>9, <1>10, <1>11 DEF Next

\* The transport, the socket and the record of what was accepted keep their
\* shapes; in particular the kernel never buffers more than it has room for.
THEOREM TransportTyped == Spec => []TypeOK
<1>1. IInv => TypeOK
    BY DEF IInv
<1> QED
    BY <1>1, InitWhole, NextWhole, PTL DEF Spec

\* Whatever the kernel takes of each write, and whenever the peer reads, breaks
\* or goes, the stream is the accepted frames in order and whole, cut at most at
\* its end, and the backlog is the rest of one frame.
THEOREM StreamIsFrames == Spec => []FramesWhole
<1>1. IInv => FramesWhole
    BY DEF IInv, Whole, FramesWhole, OneFrame
<1> QED
    BY <1>1, InitWhole, NextWhole, PTL DEF Spec

=============================================================================
