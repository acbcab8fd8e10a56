------------------------------- MODULE Transport -------------------------------
(***************************************************************************)
(* A socket transport and the loop that drives it: Session.Tick reads,     *)
(* then drains the queued frames into the socket, and Session.Wait sleeps  *)
(* in poll(2) until there is something to do.                              *)
(*                                                                         *)
(* The kernel takes any part of a write that fits its send buffer, from    *)
(* which the peer reads at its own pace.  A byte is a frame and a place in *)
(* it.  The order in which queued frames are offered is left open, as in   *)
(* SendQueue.  Fomoxa's Conn is external: one Receive per Tick, and each   *)
(* frame is passed to Send as it is.                                       *)
(***************************************************************************)
EXTENDS Naturals, Sequences, FiniteSets, SequencesExt

CONSTANTS
    Frames,   \* the frames that may ever be sent
    Plain,    \* those that may be sent as plain messages, past the queue
    Size,     \* frame -> its length in bytes
    Buffer    \* bytes the kernel holds for the peer

ASSUME TransportConstants ==
    /\ IsFiniteSet(Frames)
    /\ Plain \subseteq Frames
    /\ Size \in [Frames -> Nat \ {0}]
    /\ Buffer \in Nat \ {0}

VARIABLES
    t,        \* SocketTransport: backlog, refused, closed
    net,      \* the socket: bytes on the wire, bytes buffered, what the peer did
    fresh,    \* frames not queued yet
    held,     \* frames in the core's queue
    owed,     \* history: the bytes of the frames Send accepted, in order
    loop      \* where the session's loop is, and what poll(2) watches

vars == <<t, net, fresh, held, owed, loop>>

Byte == Frames \X (Nat \ {0})
Bytes(f) == [i \in 1..Size[f] |-> <<f, i>>]
From(s, n) == SubSeq(s, n + 1, Len(s))
UpTo(s, n) == SubSeq(s, 1, n)
Least(a, b) == IF a < b THEN a ELSE b

Room(n) == Buffer - n.used
Dead(n) == n.broken \/ n.shut

\* The kernel takes the bytes b of a write.
Put(n, b) == [n EXCEPT !.wire = @ \o b, !.used = Least(Buffer, @ + Len(b))]

\* The state a method leaves behind and the Status it returns.
Result(tr, n, status) == [tr |-> tr, net |-> n, status |-> status]

\* fail
Fail(tr) == [tr EXCEPT !.closed = TRUE]

\* Mutant: only the refusal is remembered, not the rest of a partial write.
Backlogged_RefusalOnly(tr) == tr.refused
Backlogged(tr) == tr.backlog # <<>> \/ tr.refused

\* Mutant: what was written stays in the backlog.
PushBacklog_Kept(tr, n) ==
    IF tr.backlog = <<>> THEN {Result(tr, n, "OK")}
    ELSE IF Dead(n) THEN {Result(Fail(tr), n, "ERROR")}
    ELSE {Result(tr, Put(n, UpTo(tr.backlog, k)), "OK") :
             k \in Least(Room(n), Len(tr.backlog))..Len(tr.backlog)}

\* pushBacklog writes until nothing is left or the kernel takes no more; the
\* peer may read meanwhile, so more than the present room may go.
PushBacklog(tr, n) ==
    IF tr.backlog = <<>> THEN {Result(tr, n, "OK")}
    ELSE IF Dead(n) THEN {Result(Fail(tr), n, "ERROR")}
    ELSE {Result([tr EXCEPT !.backlog = From(@, k)], Put(n, UpTo(tr.backlog, k)), "OK") :
             k \in Least(Room(n), Len(tr.backlog))..Len(tr.backlog)}

\* The one write of a frame when there is no backlog.
WriteFrame(tr, n, f) ==
    IF Dead(n) THEN {Result(Fail(tr), n, "ERROR")}
    ELSE IF Room(n) = 0 THEN {Result([tr EXCEPT !.refused = TRUE], n, "PENDING")}
    ELSE {Result([tr EXCEPT !.refused = FALSE, !.backlog = @ \o From(Bytes(f), k)],
                 Put(n, UpTo(Bytes(f), k)), "OK") :
             k \in 1..Least(Room(n), Size[f])}

SendOutcomes(tr, n, f) ==
    IF tr.closed THEN {Result(tr, n, "CLOSED")}
    ELSE UNION {IF p.status # "OK" THEN {p}
                ELSE IF p.tr.backlog # <<>>
                     THEN {[p EXCEPT !.tr.refused = TRUE, !.status = "PENDING"]}
                ELSE WriteFrame(p.tr, p.net, f) : p \in PushBacklog(tr, n)}

\* The read: the peer's bytes, its end of stream, an error or nothing yet.
ReadSocket(tr, n) ==
    IF n.broken THEN Result(Fail(tr), n, "ERROR")
    ELSE IF n.readable THEN Result(tr, [n EXCEPT !.readable = FALSE], "OK")
    ELSE IF n.eof THEN Result([tr EXCEPT !.closed = TRUE], n, "CLOSED")
    ELSE Result(tr, n, "PENDING")

ReceiveOutcomes(tr, n) ==
    IF tr.closed THEN {Result(tr, n, "CLOSED")}
    ELSE {IF p.status # "OK" THEN p ELSE ReadSocket(p.tr, p.net) : p \in PushBacklog(tr, n)}

-----------------------------------------------------------------------------
Init ==
    /\ t = [backlog |-> <<>>, refused |-> FALSE, closed |-> FALSE]
    /\ net = [wire |-> <<>>, used |-> 0, readable |-> FALSE, eof |-> FALSE,
              broken |-> FALSE, shut |-> FALSE]
    /\ fresh = Frames
    /\ held = {}
    /\ owed = <<>>
    /\ loop = [at |-> "app", watching |-> FALSE]

\* A frame is queued: by the application, or inside Tick by a handler.
Queue(f) ==
    /\ loop.at \in {"app", "core"} /\ f \in fresh
    /\ fresh' = fresh \ {f}
    /\ held' = held \cup {f}
    /\ UNCHANGED <<t, net, owed, loop>>

\* A plain message goes past the queue; a refusal is the application's to see.
SendPlain(f) ==
    /\ loop.at = "app" /\ f \in fresh \cap Plain
    /\ \E r \in SendOutcomes(t, net, f) :
        /\ t' = r.tr /\ net' = r.net
        /\ owed' = IF r.status = "OK" THEN owed \o Bytes(f) ELSE owed
        /\ fresh' = IF r.status = "OK" THEN fresh \ {f} ELSE fresh
    /\ UNCHANGED <<held, loop>>

\* The call of a queued frame is cancelled or expires.
Discard(f) ==
    /\ loop.at \in {"app", "core"} /\ f \in held
    /\ held' = held \ {f}
    /\ UNCHANGED <<t, net, fresh, owed, loop>>

\* CloseSend pushes what it can and shuts the sending half; again, it finds
\* that half shut.
CloseSend ==
    /\ loop.at = "app" /\ ~t.closed
    /\ \E r \in PushBacklog(t, net) :
        /\ t' = r.tr
        /\ net' = [r.net EXCEPT !.shut = TRUE]
    /\ UNCHANGED <<fresh, held, owed, loop>>

\* Session.Close: the core drops its queue.
Close ==
    /\ loop.at = "app"
    /\ t' = [t EXCEPT !.closed = TRUE]
    /\ held' = {}
    /\ loop' = [at |-> "done", watching |-> FALSE]
    /\ UNCHANGED <<net, fresh, owed>>

\* Session.Tick begins.
Resume ==
    /\ loop.at = "app"
    /\ loop' = [loop EXCEPT !.at = "receive"]
    /\ UNCHANGED <<t, net, fresh, held, owed>>

\* A transport that is closed or failed ends the session.
Receive ==
    /\ loop.at = "receive"
    /\ \E r \in ReceiveOutcomes(t, net) :
        LET ended == r.status \in {"CLOSED", "ERROR"}
        IN /\ t' = r.tr /\ net' = r.net
           /\ held' = IF ended THEN {} ELSE held
           /\ loop' = [at |-> IF ended THEN "done" ELSE "core", watching |-> FALSE]
    /\ UNCHANGED <<fresh, owed>>

\* The events are handled and Core.Tick is done.
TickDone ==
    /\ loop.at = "core"
    /\ loop' = [loop EXCEPT !.at = "drain"]
    /\ UNCHANGED <<t, net, fresh, held, owed>>

\* Drain offers a frame.  Rejected keeps it and ends the round of frames, but
\* the late credits are offered all the same.  Of the errors Conn.Send makes
\* of CLOSED and ERROR, deliveryOf knows some and takes the others as Accepted.
SendHeld(f) ==
    /\ loop.at \in {"drain", "late"} /\ f \in held
    /\ \E r \in SendOutcomes(t, net, f), known \in BOOLEAN :
        LET rejected == r.status = "PENDING" \/ (r.status # "OK" /\ known)
        IN /\ t' = r.tr /\ net' = r.net
           /\ owed' = IF r.status = "OK" THEN owed \o Bytes(f) ELSE owed
           /\ held' = IF rejected THEN held ELSE held \ {f}
           /\ loop' = [loop EXCEPT !.at = IF ~rejected THEN @
                                          ELSE IF @ = "drain" THEN "late" ELSE "plan"]
    /\ UNCHANGED fresh

DrainDone ==
    /\ loop.at = "late" \/ (loop.at = "drain" /\ held = {})
    /\ loop' = [loop EXCEPT !.at = "plan"]
    /\ UNCHANGED <<t, net, fresh, held, owed>>

\* WaitPolicy.Plan: what poll(2) watches besides readability.
Plan ==
    /\ loop.at = "plan"
    /\ loop' = [at |-> "wait", watching |-> Backlogged(t) \/ held # {}]
    /\ UNCHANGED <<t, net, fresh, held, owed>>

\* poll(2) has something to report, or WaitReady does not poll at all.
Roused ==
    \/ t.closed \/ net.readable \/ net.eof \/ net.broken
    \/ loop.watching /\ Room(net) > 0

Wake ==
    /\ loop.at = "wait" /\ Roused
    /\ loop' = [loop EXCEPT !.at = "app"]
    /\ UNCHANGED <<t, net, fresh, held, owed>>

\* The time limit of the plan, or a signal (EINTR).
TimeOut ==
    /\ loop.at = "wait"
    /\ loop' = [loop EXCEPT !.at = "app"]
    /\ UNCHANGED <<t, net, fresh, held, owed>>

\* The peer.
PeerReads ==
    /\ net.used > 0
    /\ \E k \in 0..(net.used - 1) : net' = [net EXCEPT !.used = k]
    /\ UNCHANGED <<t, fresh, held, owed, loop>>
PeerSends ==
    /\ ~net.eof /\ ~net.broken /\ ~net.readable
    /\ net' = [net EXCEPT !.readable = TRUE]
    /\ UNCHANGED <<t, fresh, held, owed, loop>>
PeerLeaves ==
    /\ ~net.eof /\ ~net.broken
    /\ \/ net' = [net EXCEPT !.eof = TRUE]
       \/ net' = [net EXCEPT !.broken = TRUE]
    /\ UNCHANGED <<t, fresh, held, owed, loop>>

\* The session has ended; its loop is over.
Ended == loop.at = "done" /\ UNCHANGED vars

Next ==
    \/ \E f \in Frames : Queue(f) \/ SendPlain(f) \/ Discard(f) \/ SendHeld(f)
    \/ CloseSend \/ Close \/ Resume \/ Receive \/ TickDone \/ DrainDone \/ Plan
    \/ Wake \/ TimeOut
    \/ PeerReads \/ PeerSends \/ PeerLeaves
    \/ Ended

Spec == Init /\ [][Next]_vars

\* The loop goes round and the peer reads.  The time limit gets no fairness:
\* what must happen has to happen without it.
Round ==
    \/ \E f \in Frames : SendHeld(f)
    \/ Receive \/ TickDone \/ DrainDone \/ Plan \/ Wake
FairSpec == Spec /\ WF_vars(Round) /\ WF_vars(Resume) /\ WF_vars(PeerReads)

-----------------------------------------------------------------------------
\* Framing: what is on the wire and what is in the backlog are, together and
\* in order, exactly the frames Send accepted; a refused frame has left no
\* byte behind, and a failed transport has cut the stream, never mixed it.  The
\* backlog is never more than the rest of one frame.
FramesWhole ==
    /\ \A i, j \in DOMAIN t.backlog : t.backlog[i][1] = t.backlog[j][1]
    /\ IsPrefix(net.wire, owed)
    /\ t.closed \/ owed = net.wire \o t.backlog

\* No lost wake-up: what is held back goes, without help from the time limit
\* or from the peer's traffic, as long as the peer reads.
HeldBackGoes ==
    (t.backlog # <<>> \/ held # {}) ~> (t.closed \/ (t.backlog = <<>> /\ held = {}))

\* A connection with nothing to send, nothing to read and a writable socket.
Idle ==
    /\ held = {} /\ t.backlog = <<>> /\ Room(net) > 0 /\ ~t.closed
    /\ ~net.readable /\ ~net.eof /\ ~Dead(net)

\* README.md:61 of the repository: an idle connection sleeps in the kernel and
\* wakes only when the time limit of its wait runs out.
IdleSleeps == <>[]Idle => []<>(loop.at = "wait" /\ ~Roused)
=============================================================================
