------------------------------- MODULE CoreProofs -------------------------------
(***************************************************************************)
(* Two endpoints and the link between them, for every registry, every set  *)
(* of openings, every configuration and any number of calls: the shape of  *)
(* the state (TypeOK), that no call is taken for one of the opposite       *)
(* direction (SidesApart), that the clock of a full queue is never stale   *)
(* (StallIsReal) and what the applications rely on for every call          *)
(* (CallsKept).                                                            *)
(*                                                                         *)
(* First what the methods of Core do to one endpoint.  Each keeps the      *)
(* shape of the endpoint (CoreType), and treats each call in one of a few  *)
(* ways (Kept, Opened, Queued, Answered, Abandoned, Finished, Refused,     *)
(* Started, Popped, Dropped).  Then what it does to the books of a call    *)
(* (what its writer holds, has spent and was granted) and to the terms of  *)
(* its streams, which is for FlowProofs.  Last the inductive invariant:    *)
(* CallOK, about one call on one endpoint, and Linked, about where the     *)
(* frames of one call can be while its two ends disagree.                  *)
(***************************************************************************)
EXTENDS Link, SequenceTheorems, TLAPS

-----------------------------------------------------------------------------
\* Shapes.  Maps(V) are the Go maps from calls to V.

Maps(V) == UNION {[D -> V] : D \in SUBSET Calls}
Box == [queues : [Calls -> Seq(Frame)], credits : [Calls -> Credits]]
CoreType ==
    [ready : BOOLEAN, finished : BOOLEAN, next : Nat,
     pending : Maps(Waiting), inflight : Maps(Running), box : Box,
     outcomes : [Calls -> Seq(Outcome)], chain : [Calls -> Int],
     todo : SUBSET Calls, cur : Calls \cup {NoCall},
     issued : SUBSET Calls, put : [Calls -> Nat], metered : [Calls -> Nat],
     granted : [Calls -> Nat], got : [Calls -> Seq(Nat)], leftAt : [Calls -> Nat]]

\* A frame of call c that side s may send: only who allocates the id sends a
\* REQUEST, with a ctx of its own, and nothing else carries a ctx block.
FrameFrom(s, c) ==
    {f \in Frame :
        /\ f.call = c
        /\ f.kind = "REQUEST" =>
            Allocates(s, c) /\ \E o \in Openings[s] : f.mid = o.req /\ f.ctx = o.ctx
        /\ f.kind # "REQUEST" => f.ctx.len = 0}

LEMMA CallsAreNat == Calls \subseteq Nat /\ IsFiniteSet(Calls) /\ NoCall \notin Calls
BY QueueConstants DEF NoCall

LEMMA MapsMember ==
    ASSUME NEW V, NEW f
    PROVE  f \in Maps(V) <=> DOMAIN f \subseteq Calls /\ f \in [DOMAIN f -> V]
BY DEF Maps

LEMMA EmptyMap == ASSUME NEW V PROVE [c \in {} |-> 0] \in Maps(V) /\ DOMAIN [c \in {} |-> 0] = {}
BY DEF Maps

LEMMA WithMap ==
    ASSUME NEW V, NEW f \in Maps(V), NEW c \in Calls, NEW v \in V
    PROVE  /\ With(f, c, v) \in Maps(V)
           /\ DOMAIN With(f, c, v) = DOMAIN f \cup {c}
           /\ With(f, c, v)[c] = v
           /\ \A d \in DOMAIN f : d # c => With(f, c, v)[d] = f[d]
<1>1. DOMAIN f \subseteq Calls /\ \A d \in DOMAIN f : f[d] \in V
    BY MapsMember
<1>2. With(f, c, v) \in [DOMAIN f \cup {c} -> V]
    BY <1>1 DEF With
<1>3. DOMAIN f \cup {c} \in SUBSET Calls
    BY <1>1
<1> QED
    BY <1>2, <1>3 DEF Maps, With

LEMMA MinusMap ==
    ASSUME NEW V, NEW f \in Maps(V), NEW P
    PROVE  /\ Minus(f, P) \in Maps(V)
           /\ DOMAIN Minus(f, P) = DOMAIN f \ P
           /\ \A d \in DOMAIN f \ P : Minus(f, P)[d] = f[d]
<1>1. DOMAIN f \subseteq Calls /\ \A d \in DOMAIN f : f[d] \in V
    BY MapsMember
<1>2. Minus(f, P) \in [DOMAIN f \ P -> V]
    BY <1>1 DEF Minus
<1>3. DOMAIN f \ P \in SUBSET Calls
    BY <1>1
<1> QED
    BY <1>2, <1>3 DEF Maps, Minus

LEMMA ChangedMap ==
    ASSUME NEW V, NEW f \in Maps(V), NEW c \in DOMAIN f, NEW v \in V
    PROVE  /\ [f EXCEPT ![c] = v] \in Maps(V)
           /\ DOMAIN [f EXCEPT ![c] = v] = DOMAIN f
           /\ [f EXCEPT ![c] = v][c] = v
           /\ \A d \in DOMAIN f : d # c => [f EXCEPT ![c] = v][d] = f[d]
<1>1. DOMAIN f \subseteq Calls /\ f \in [DOMAIN f -> V]
    BY MapsMember
<1>2. [f EXCEPT ![c] = v] \in [DOMAIN f -> V]
    BY <1>1
<1>3. DOMAIN f \in SUBSET Calls
    BY <1>1
<1> QED
    BY <1>1, <1>2, <1>3 DEF Maps

-----------------------------------------------------------------------------
\* Frames.

LEMMA PeerSide == \A s \in Side : Peer(s) \in Side /\ Peer(s) # s /\ Peer(Peer(s)) = s
BY DEF Side, Peer

LEMMA OneAllocates == \A s \in Side, c \in Calls : Allocates(Peer(s), c) <=> ~Allocates(s, c)
BY DEF Side, Peer, Allocates

LEMMA MakeFrameType ==
    ASSUME NEW kind \in Kinds \cup {"CREDIT"}, NEW mid \in STRING, NEW c \in Calls
    PROVE  MakeFrame(kind, mid, c) \in Frame
<1>1. NoCtx \in Ctx
    BY QueueConstants DEF NoCtx, Ctx
<1> QED
    BY <1>1 DEF MakeFrame, Frame, Packing, Statuses

LEMMA ControlFrameType ==
    ASSUME NEW s \in Side, NEW c \in Calls, NEW kind \in {"END", "CANCEL"}
    PROVE  ControlFrame(s, c, kind) \in FrameFrom(s, c) /\ ControlFrame(s, c, kind).kind = kind
<1>1. Registry[s].void \in STRING
    BY LinkConstants
<1>2. ControlFrame(s, c, kind) \in Frame
    BY <1>1, MakeFrameType DEF ControlFrame, Kinds
<1> QED
    BY <1>2 DEF ControlFrame, MakeFrame, FrameFrom, NoCtx

LEMMA ErrorFrameType ==
    ASSUME NEW s \in Side, NEW c \in Calls, NEW status \in Statuses
    PROVE  ErrorFrame(s, c, status) \in FrameFrom(s, c) /\ ErrorFrame(s, c, status).kind = "ERROR"
<1> DEFINE f == MakeFrame("ERROR", Registry[s].error, c)
<1>1. Registry[s].error \in STRING
    BY LinkConstants
<1>2. f \in Frame
    BY <1>1, MakeFrameType DEF Kinds
<1>3. f.kind = "ERROR" /\ f.call = c /\ f.ctx.len = 0
    BY DEF MakeFrame, NoCtx
<1> HIDE DEF f
<1>4. [f EXCEPT !.status = status] \in Frame
    BY <1>2 DEF Frame
<1>5. [f EXCEPT !.status = status] \in FrameFrom(s, c) /\ [f EXCEPT !.status = status].kind = "ERROR"
    BY <1>2, <1>3, <1>4 DEF FrameFrom, Frame
<1> QED
    BY <1>5 DEF ErrorFrame, f

LEMMA CreditFrameType ==
    ASSUME NEW s \in Side, NEW c \in Calls, NEW items \in Nat
    PROVE  CreditFrame(s, c, items) \in FrameFrom(s, c) /\ CreditFrame(s, c, items).kind = "CREDIT"
<1> DEFINE f == MakeFrame("CREDIT", Registry[s].credit, c)
<1>1. Registry[s].credit \in STRING
    BY LinkConstants
<1>2. f \in Frame
    BY <1>1, MakeFrameType DEF Kinds
<1>3. f.kind = "CREDIT" /\ f.call = c /\ f.ctx.len = 0
    BY DEF MakeFrame, NoCtx
<1> HIDE DEF f
<1>4. [f EXCEPT !.n = items] \in Frame
    BY <1>2 DEF Frame
<1>5. [f EXCEPT !.n = items] \in FrameFrom(s, c) /\ [f EXCEPT !.n = items].kind = "CREDIT"
    BY <1>2, <1>3, <1>4 DEF FrameFrom, Frame
<1> QED
    BY <1>5 DEF CreditFrame, f

LEMMA BodyFrameType ==
    ASSUME NEW s \in Side, NEW c \in Calls, NEW kind \in Kinds, NEW mid \in STRING,
           NEW n \in Nat, NEW packed \in Packing, NEW f, f = BodyFrame(kind, mid, c, n, packed)
    PROVE  /\ f \in Frame /\ f.kind = kind /\ f.call = c /\ f.ctx = NoCtx /\ f.mid = mid
           /\ kind # "REQUEST" => f \in FrameFrom(s, c)
<1> DEFINE g == MakeFrame(kind, mid, c)
<1>1. g \in Frame /\ g.kind = kind /\ g.call = c /\ g.ctx = NoCtx /\ g.mid = mid
    BY MakeFrameType DEF MakeFrame
<1>2. f = [g EXCEPT !.n = n, !.packed = packed]
    BY DEF BodyFrame
<1> HIDE DEF g
<1>3. f \in Frame /\ f.kind = kind /\ f.call = c /\ f.ctx = NoCtx /\ f.mid = mid
    BY <1>1, <1>2 DEF Frame
<1>4. kind # "REQUEST" => f \in FrameFrom(s, c)
    BY <1>3 DEF FrameFrom, NoCtx
<1> QED
    BY <1>3, <1>4

\* The REQUEST of Call carries the ctx of its opening.
LEMMA RequestType ==
    ASSUME NEW s \in Side, NEW c \in Calls, Allocates(s, c), NEW o \in Openings[s]
    PROVE  /\ [BodyFrame("REQUEST", o.req, c, 0, o.packed) EXCEPT !.ctx = o.ctx] \in FrameFrom(s, c)
           /\ [BodyFrame("REQUEST", o.req, c, 0, o.packed) EXCEPT !.ctx = o.ctx].kind = "REQUEST"
<1>1. o.req \in STRING /\ o.ctx \in Ctx /\ o.packed \in Packing
    BY LinkConstants
<1>2. PICK req \in STRING, packed \in Packing : req = o.req /\ packed = o.packed
    BY <1>1
<1>3. "REQUEST" \in Kinds /\ 0 \in Nat
    BY DEF Kinds
<1>4. PICK g : g = BodyFrame("REQUEST", req, c, 0, packed)
    OBVIOUS
<1>5. g \in Frame /\ g.kind = "REQUEST" /\ g.call = c /\ g.mid = req
    BY <1>3, <1>4, BodyFrameType
<1>6. PICK f : f = [g EXCEPT !.ctx = o.ctx]
    OBVIOUS
<1>7. f \in Frame /\ f.kind = "REQUEST" /\ f.call = c /\ f.mid = o.req /\ f.ctx = o.ctx
    BY <1>1, <1>2, <1>5, <1>6 DEF Frame
<1>8. f \in FrameFrom(s, c) /\ f.kind = "REQUEST"
    BY <1>7 DEF FrameFrom
<1> QED
    BY <1>2, <1>4, <1>6, <1>8

-----------------------------------------------------------------------------
\* The send queue: what each of its operators does to each call.

LEMMA BoxMember ==
    ASSUME NEW box
    PROVE  /\ box \in Box => /\ box.queues \in [Calls -> Seq(Frame)]
                             /\ box.credits \in [Calls -> Credits]
           /\ \A q \in [Calls -> Seq(Frame)], a \in [Calls -> Credits] :
                [queues |-> q, credits |-> a] \in Box
BY DEF Box

LEMMA EmptyBoxEffect ==
    /\ EmptyBox \in Box
    /\ \A d \in Calls : EmptyBox.queues[d] = <<>> /\ EmptyBox.credits[d] = NoCredit
BY DEF EmptyBox, Box, Credits

LEMMA PushTerminalEffect ==
    ASSUME NEW box \in Box, NEW c \in Calls, NEW f \in Frame, NEW new, new = PushTerminal(box, c, f)
    PROVE  /\ new \in Box
           /\ new.queues[c] = Append(box.queues[c], f)
           /\ \A d \in Calls : d # c => new.queues[d] = box.queues[d]
           /\ \A d \in Calls : new.credits[d] = box.credits[d]
<1>1. box.queues \in [Calls -> Seq(Frame)] /\ Append(box.queues[c], f) \in Seq(Frame)
    BY DEF Box
<1>2. PICK q : q = [box.queues EXCEPT ![c] = Append(box.queues[c], f)]
    OBVIOUS
<1>3. q \in [Calls -> Seq(Frame)]
    BY <1>1, <1>2
<1>4. new = [box EXCEPT !.queues = q]
    BY <1>2 DEF PushTerminal
<1>5. new \in Box /\ new.queues = q /\ new.credits = box.credits
    BY <1>3, <1>4 DEF Box
<1> QED
    BY <1>1, <1>2, <1>5

LEMMA SaturatingAddType ==
    ASSUME NEW left \in 0..MaxU32, NEW right \in Nat
    PROVE  SaturatingAdd(left, right) \in 0..MaxU32
BY QueueConstants DEF SaturatingAdd

LEMMA GrantToEffect ==
    ASSUME NEW box \in Box, NEW c \in Calls, NEW items \in Nat, NEW new, new = GrantTo(box, c, items)
    PROVE  /\ new \in Box
           /\ \A d \in Calls : new.queues[d] = box.queues[d]
           /\ \A d \in Calls : d # c => new.credits[d] = box.credits[d]
<1>1. PICK held : held = IF box.credits[c] = NoCredit THEN 0 ELSE box.credits[c]
    OBVIOUS
<1>2. held \in 0..MaxU32
    BY <1>1, QueueConstants DEF Box, Credits, NoCredit
<1>3. PICK sum : sum = SaturatingAdd(held, items)
    OBVIOUS
<1>4. sum \in Credits
    BY <1>2, <1>3, SaturatingAddType DEF Credits
<1>5. new = [box EXCEPT !.credits = [box.credits EXCEPT ![c] = sum]]
    BY <1>1, <1>3 DEF GrantTo
<1> QED
    BY <1>4, <1>5 DEF Box

LEMMA DiscardEffect ==
    ASSUME NEW box \in Box, NEW P, NEW new, new = Discard(box, P)
    PROVE  /\ new \in Box
           /\ \A d \in Calls : IF d \in P
                THEN new.queues[d] = <<>> /\ new.credits[d] = NoCredit
                ELSE new.queues[d] = box.queues[d] /\ new.credits[d] = box.credits[d]
<1>1. PICK q : q = [c \in Calls |-> IF c \in P THEN <<>> ELSE box.queues[c]]
    OBVIOUS
<1>2. PICK a : a = [c \in Calls |-> IF c \in P THEN NoCredit ELSE box.credits[c]]
    OBVIOUS
<1>3. q \in [Calls -> Seq(Frame)]
    BY <1>1, EmptySeq DEF Box
<1>4. a \in [Calls -> Credits]
    BY <1>2 DEF Box, Credits
<1>5. new = [queues |-> q, credits |-> a]
    BY <1>1, <1>2 DEF Discard
<1> QED
    BY <1>1, <1>2, <1>3, <1>4, <1>5 DEF Box

LEMMA PushEachEffect ==
    ASSUME NEW box \in Box, NEW P \in SUBSET Calls, NEW frames \in [P -> Frame],
           NEW new, new = PushEach(box, frames)
    PROVE  /\ new \in Box
           /\ \A d \in Calls : new.credits[d] = box.credits[d]
           /\ \A d \in Calls : new.queues[d] =
                IF d \in P THEN Append(box.queues[d], frames[d]) ELSE box.queues[d]
<1>1. PICK q : q = [c \in Calls |-> IF c \in P THEN Append(box.queues[c], frames[c])
                                             ELSE box.queues[c]]
    OBVIOUS
<1>2. box.queues \in [Calls -> Seq(Frame)] /\ DOMAIN frames = P
    BY DEF Box
<1>3. \A d \in P : Append(box.queues[d], frames[d]) \in Seq(Frame)
    BY <1>2
<1>4. q \in [Calls -> Seq(Frame)]
    BY <1>1, <1>2, <1>3
<1>5. new = [box EXCEPT !.queues = q]
    BY <1>1, <1>2 DEF PushEach
<1>6. new \in Box /\ new.queues = q /\ new.credits = box.credits
    BY <1>4, <1>5 DEF Box
<1> QED
    BY <1>1, <1>6

LEMMA PopFrameEffect ==
    ASSUME NEW box \in Box, NEW c \in Calls, box.queues[c] # <<>>, NEW new, new = PopFrame(box, c)
    PROVE  /\ new \in Box
           /\ new.queues[c] = Tail(box.queues[c])
           /\ \A d \in Calls : d # c => new.queues[d] = box.queues[d]
           /\ \A d \in Calls : new.credits[d] = box.credits[d]
<1>1. box.queues \in [Calls -> Seq(Frame)] /\ Tail(box.queues[c]) \in Seq(Frame)
    BY HeadTailProperties DEF Box
<1>2. PICK q : q = [box.queues EXCEPT ![c] = Tail(box.queues[c])]
    OBVIOUS
<1>3. q \in [Calls -> Seq(Frame)]
    BY <1>1, <1>2
<1>4. new = [box EXCEPT !.queues = q]
    BY <1>2 DEF PopFrame
<1>5. new \in Box /\ new.queues = q /\ new.credits = box.credits
    BY <1>3, <1>4 DEF Box
<1> QED
    BY <1>1, <1>2, <1>5

LEMMA PopCreditEffect ==
    ASSUME NEW box \in Box, NEW c \in Calls, NEW new, new = PopCredit(box, c)
    PROVE  /\ new \in Box
           /\ new.credits[c] = NoCredit
           /\ \A d \in Calls : new.queues[d] = box.queues[d]
           /\ \A d \in Calls : d # c => new.credits[d] = box.credits[d]
<1>1. new = [box EXCEPT !.credits = [box.credits EXCEPT ![c] = NoCredit]]
    BY DEF PopCredit
<1> QED
    BY <1>1 DEF Box, Credits

-----------------------------------------------------------------------------
\* What a method may do to call c, from endpoint k to endpoint l.  Settled,
\* Finished and the others name what the caller or the callee lives through.

Pending(k, c) == c \in DOMAIN k.pending
Inflight(k, c) == c \in DOMAIN k.inflight
Queue(k, c) == k.box.queues[c]
LastKinds == {"RESPONSE", "ERROR", "END"}
Has(q, K) == \E i \in 1..Len(q) : q[i].kind \in K

SameLife(k, l, c) ==
    /\ Pending(l, c) <=> Pending(k, c)
    /\ Inflight(l, c) <=> Inflight(k, c)
    /\ l.chain[c] = k.chain[c]
SamePast(k, l, c) ==
    /\ c \in l.issued <=> c \in k.issued
    /\ l.leftAt[c] = k.leftAt[c]

\* Nothing but the record of the call changes, and not its clock.
Alike(k, l, c) ==
    /\ SameLife(k, l, c) /\ SamePast(k, l, c)
    /\ Queue(l, c) = Queue(k, c)
    /\ l.box.credits[c] = k.box.credits[c]
    /\ l.outcomes[c] = k.outcomes[c]
SameClock(k, l, c) ==
    Inflight(k, c) => l.inflight[c].fullSince = k.inflight[c].fullSince
Same(k, l, c) == Alike(k, l, c) /\ SameClock(k, l, c)

\* The call goes on: an item may be reported, an allowance granted or sent,
\* the clock of its full queue stopped, or started at t.
Kept(k, l, c, t) ==
    /\ SameLife(k, l, c) /\ SamePast(k, l, c)
    /\ Queue(l, c) = Queue(k, c)
    /\ l.box.credits[c] # NoCredit =>
        k.box.credits[c] # NoCredit \/ Pending(k, c) \/ Inflight(k, c)
    /\ \/ l.outcomes[c] = k.outcomes[c]
       \/ Pending(k, c) /\ \E n \in Nat : l.outcomes[c] = Append(k.outcomes[c], ItemOutcome(n))
    /\ Inflight(k, c) =>
        \/ l.inflight[c].fullSince \in {0, k.inflight[c].fullSince}
        \/ k.inflight[c].fullSince = 0 /\ l.inflight[c].fullSince = t

\* Call c of side s is opened.
Opened(s, k, l, c) ==
    /\ c = k.next /\ c < l.next
    /\ c \in l.issued
    /\ Pending(l, c) /\ (Inflight(l, c) <=> Inflight(k, c))
    /\ l.chain[c] = k.chain[c] + 1
    /\ l.leftAt[c] = k.leftAt[c]
    /\ l.box.credits[c] = k.box.credits[c]
    /\ l.outcomes[c] = k.outcomes[c]
    /\ SameClock(k, l, c)
    /\ \E f \in FrameFrom(s, c) : f.kind = "REQUEST" /\ Queue(l, c) = Append(Queue(k, c), f)

\* A frame that ends nothing is queued; a handler's only when there is room.
Queued(s, k, l, c) ==
    /\ SameLife(k, l, c) /\ SamePast(k, l, c)
    /\ l.box.credits[c] = k.box.credits[c]
    /\ l.outcomes[c] = k.outcomes[c]
    /\ Pending(k, c) \/ Inflight(k, c)
    /\ \E f \in FrameFrom(s, c) :
        /\ f.kind \in {"ITEM", "END"} /\ Queue(l, c) = Append(Queue(k, c), f)
        /\ Inflight(k, c) => f.kind = "ITEM"
    /\ Inflight(k, c) => Len(Queue(k, c)) < MaxPerCall /\ l.inflight[c].fullSince = 0

\* A pending call completes; its queue is emptied.
Settled(k, l, c) ==
    /\ SamePast(k, l, c)
    /\ Pending(k, c) /\ ~Pending(l, c) /\ (Inflight(l, c) <=> Inflight(k, c))
    /\ SameClock(k, l, c)
    /\ l.chain[c] = k.chain[c] - 1
    /\ l.box.credits[c] = NoCredit
    /\ \E o \in Outcome : Terminates(o) /\ l.outcomes[c] = Append(k.outcomes[c], o)
Answered(k, l, c) == Settled(k, l, c) /\ Queue(l, c) = <<>>
\* ... by its own side, which tells the peer if the REQUEST has left.
Abandoned(s, k, l, c) ==
    /\ Settled(k, l, c)
    /\ IF OpensWithRequest(k.box, c) THEN Queue(l, c) = <<>>
       ELSE \E f \in FrameFrom(s, c) : f.kind = "CANCEL" /\ Queue(l, c) = <<f>>

\* A handler ends and its last frame is queued, behind the others or alone.
Finished(s, k, l, c) ==
    /\ SamePast(k, l, c)
    /\ Inflight(k, c) /\ ~Inflight(l, c) /\ (Pending(l, c) <=> Pending(k, c))
    /\ l.chain[c] = k.chain[c] - 1
    /\ l.box.credits[c] = NoCredit \/ l.box.credits[c] = k.box.credits[c]
    /\ l.outcomes[c] = k.outcomes[c]
    /\ \E f \in FrameFrom(s, c) :
        f.kind \in LastKinds /\ (Queue(l, c) = <<f>> \/ Queue(l, c) = Append(Queue(k, c), f))

\* A frame of a call that does not live here is answered with an ERROR.
Refused(s, k, l, c) ==
    /\ SameLife(k, l, c) /\ SamePast(k, l, c)
    /\ ~Inflight(k, c) /\ ~Pending(k, c)
    /\ l.box.credits[c] = k.box.credits[c]
    /\ l.outcomes[c] = k.outcomes[c]
    /\ \E f \in FrameFrom(s, c) : f.kind = "ERROR" /\ Queue(l, c) = Append(Queue(k, c), f)

\* A handler starts.
Started(k, l, c) ==
    /\ SamePast(k, l, c)
    /\ ~Inflight(k, c) /\ Inflight(l, c) /\ (Pending(l, c) <=> Pending(k, c))
    /\ l.inflight[c].fullSince = 0
    /\ l.chain[c] = k.chain[c] + 1
    /\ l.box.credits[c] = k.box.credits[c]
    /\ l.outcomes[c] = k.outcomes[c]
    /\ Queue(l, c) = Queue(k, c)

\* A frame leaves at t.
Popped(k, l, c, t) ==
    /\ SameLife(k, l, c) /\ SameClock(k, l, c)
    /\ c \in l.issued <=> c \in k.issued
    /\ l.leftAt[c] = t
    /\ l.box.credits[c] = k.box.credits[c]
    /\ l.outcomes[c] = k.outcomes[c]
    /\ Queue(k, c) # <<>> /\ Queue(l, c) = Tail(Queue(k, c))

\* The session ends.
Dropped(k, l, c) ==
    /\ SamePast(k, l, c)
    /\ ~Pending(l, c) /\ ~Inflight(l, c)
    /\ Queue(l, c) = <<>> /\ l.box.credits[c] = NoCredit
    /\ IF Pending(k, c)
       THEN \E o \in Outcome : Terminates(o) /\ l.outcomes[c] = Append(k.outcomes[c], o)
       ELSE l.outcomes[c] = k.outcomes[c]
    /\ l.chain[c] = IF Pending(k, c) /\ Inflight(k, c) THEN k.chain[c] - 2
                    ELSE IF Pending(k, c) \/ Inflight(k, c) THEN k.chain[c] - 1 ELSE k.chain[c]

\* What no method but Call and OnSessionEnd changes.
Calm(k, l) == l.next = k.next /\ l.finished = k.finished

LEMMA SameKept == \A k, l, c, t : Same(k, l, c) => Kept(k, l, c, t)
BY DEF Same, Alike, SameClock, Kept

LEMMA SameSelf == \A k, c : Same(k, k, c)
BY DEF Same, Alike, SameClock, SameLife, SamePast

LEMMA SameThenSame == \A k, m, l, c : Same(k, m, c) /\ Same(m, l, c) => Same(k, l, c)
BY DEF Same, Alike, SameClock, SameLife, SamePast

LEMMA SameThenKept == \A k, m, l, c, t : Same(k, m, c) /\ Kept(m, l, c, t) => Kept(k, l, c, t)
BY DEF Same, Alike, SameClock, SameLife, SamePast, Kept

LEMMA KeptThenSame == \A k, m, l, c, t : Kept(k, m, c, t) /\ Same(m, l, c) => Kept(k, l, c, t)
BY DEF Same, Alike, SameClock, SameLife, SamePast, Kept

LEMMA AlikeThenFinished ==
    \A s, k, m, l, c : Alike(k, m, c) /\ Finished(s, m, l, c) => Finished(s, k, l, c)
BY DEF Alike, SameLife, SamePast, Finished

LEMMA FinishedThenSame ==
    \A s, k, m, l, c : Finished(s, k, m, c) /\ Same(m, l, c) => Finished(s, k, l, c)
BY DEF Same, Alike, SameLife, SamePast, Finished

LEMMA SettledThenSame ==
    \A s, k, m, l, c : Abandoned(s, k, m, c) /\ Same(m, l, c) => Abandoned(s, k, l, c)
BY DEF Same, Alike, SameLife, SamePast, SameClock, Abandoned, Settled

-----------------------------------------------------------------------------
\* How a call ends.

LEMMA UnwindEffect ==
    ASSUME NEW chain \in [Calls -> Int], NEW P
    PROVE  /\ Unwind(chain, P) \in [Calls -> Int]
           /\ \A d \in Calls : Unwind(chain, P)[d] = IF d \in P THEN chain[d] - 1 ELSE chain[d]
BY DEF Unwind

\* A call refused once its chain was entered leaves the chain as it was.
LEMMA EnterUnwound ==
    ASSUME NEW chain \in [Calls -> Int], NEW c
    PROVE  Unwind(Enter(chain, c), {c}) = chain
<1>1. PICK entered : entered = Enter(chain, c)
    OBVIOUS
<1>2. DOMAIN entered = Calls /\ \A d \in Calls : entered[d] = IF d = c THEN chain[d] + 1 ELSE chain[d]
    BY <1>1 DEF Enter
<1>3. PICK unwound : unwound = Unwind(entered, {c})
    OBVIOUS
<1>4. DOMAIN unwound = Calls /\ \A d \in Calls : unwound[d] = chain[d]
    BY <1>2, <1>3 DEF Unwind
<1>5. unwound = [d \in Calls |-> unwound[d]] /\ chain = [d \in Calls |-> chain[d]]
    BY <1>3 DEF Unwind
<1> QED
    BY <1>1, <1>3, <1>4, <1>5

LEMMA SettlePendingEffect ==
    ASSUME NEW k \in CoreType, NEW P, NEW o \in Outcome, Terminates(o),
           NEW l, l = SettlePending(k, P, o)
    PROVE  /\ l \in CoreType /\ Calm(k, l)
           /\ l.todo = k.todo /\ l.cur = k.cur /\ l.inflight = k.inflight
           /\ \A d \in Calls : IF d \in P /\ Pending(k, d) THEN Answered(k, l, d) ELSE Same(k, l, d)
<1>1. PICK Q : Q = P \cap DOMAIN k.pending
    OBVIOUS
<1>2. PICK pending : pending = Minus(k.pending, Q)
    OBVIOUS
<1>3. PICK box : box = Discard(k.box, Q)
    OBVIOUS
<1>4. PICK chain : chain = Unwind(k.chain, Q)
    OBVIOUS
<1>5. PICK outs : outs = [c \in Calls |-> IF c \in Q THEN Append(k.outcomes[c], o) ELSE k.outcomes[c]]
    OBVIOUS
<1>6. /\ k.box \in Box /\ k.chain \in [Calls -> Int]
      /\ k.outcomes \in [Calls -> Seq(Outcome)]
    BY DEF CoreType
<1>61. k.pending \in Maps(Waiting)
    BY DEF CoreType
<1>7. /\ pending \in Maps(Waiting)
      /\ DOMAIN pending = DOMAIN k.pending \ Q
    BY <1>2, <1>61, MinusMap
<1>8. /\ box \in Box
      /\ \A d \in Calls : IF d \in Q THEN box.queues[d] = <<>> /\ box.credits[d] = NoCredit
            ELSE box.queues[d] = k.box.queues[d] /\ box.credits[d] = k.box.credits[d]
    BY <1>3, <1>6, DiscardEffect
<1>9. /\ chain \in [Calls -> Int]
      /\ \A d \in Calls : chain[d] = IF d \in Q THEN k.chain[d] - 1 ELSE k.chain[d]
    BY <1>4, <1>6, UnwindEffect
<1>10. /\ outs \in [Calls -> Seq(Outcome)]
       /\ \A d \in Calls : outs[d] = IF d \in Q THEN Append(k.outcomes[d], o) ELSE k.outcomes[d]
    BY <1>5, <1>6
<1>11. l = [k EXCEPT !.pending = pending, !.box = box, !.chain = chain, !.outcomes = outs]
    BY <1>1, <1>2, <1>3, <1>4, <1>5 DEF SettlePending
<1>12. /\ l \in CoreType /\ Calm(k, l)
       /\ l.todo = k.todo /\ l.cur = k.cur /\ l.inflight = k.inflight
       /\ l.pending = pending /\ l.box = box /\ l.chain = chain /\ l.outcomes = outs
       /\ l.issued = k.issued /\ l.leftAt = k.leftAt
    BY ZenonT(60), <1>7, <1>8, <1>9, <1>10, <1>11 DEF CoreType, Calm
<1>13. ASSUME NEW d \in Calls, d \in P, Pending(k, d)
       PROVE  Answered(k, l, d)
    <2>1. d \in Q
        BY <1>1, <1>13 DEF Pending
    <2> QED
        BY <1>7, <1>8, <1>9, <1>10, <1>12, <1>13, <2>1
        DEF Answered, Settled, SamePast, SameClock, Pending, Inflight, Queue
<1>14. ASSUME NEW d \in Calls, ~(d \in P /\ Pending(k, d))
       PROVE  Same(k, l, d)
    <2>1. d \notin Q
        BY <1>1, <1>14 DEF Pending
    <2> QED
        BY <1>7, <1>8, <1>9, <1>10, <1>12, <2>1
        DEF Same, Alike, SameLife, SamePast, SameClock, Pending, Inflight, Queue
<1> QED
    BY <1>12, <1>13, <1>14

LEMMA OutcomeTypes ==
    /\ Response \in Outcome /\ Terminates(Response)
    /\ EndOutcome \in Outcome /\ Terminates(EndOutcome)
    /\ \A status \in Statuses : Failed(status) \in Outcome /\ Terminates(Failed(status))
    /\ \A n \in Nat : ItemOutcome(n) \in Outcome /\ ~Terminates(ItemOutcome(n))
BY DEF Outcome, Response, EndOutcome, Failed, ItemOutcome, Terminates, Statuses

LEMMA PendingInCalls ==
    ASSUME NEW k \in CoreType
    PROVE  /\ DOMAIN k.pending \subseteq Calls
           /\ \A d \in DOMAIN k.pending : k.pending[d] \in Waiting
<1>1. k.pending \in Maps(Waiting)
    BY DEF CoreType
<1> QED
    BY <1>1, MapsMember

LEMMA InflightInCalls ==
    ASSUME NEW k \in CoreType
    PROVE  /\ DOMAIN k.inflight \subseteq Calls
           /\ \A d \in DOMAIN k.inflight : k.inflight[d] \in Running
<1>1. k.inflight \in Maps(Running)
    BY DEF CoreType
<1> QED
    BY <1>1, MapsMember

LEMMA AbandonPendingEffect ==
    ASSUME NEW s \in Side, NEW k \in CoreType, NEW P \in SUBSET DOMAIN k.pending,
           NEW status \in Statuses, NEW l, l = AbandonPending(s, k, P, status)
    PROVE  /\ l \in CoreType /\ Calm(k, l)
           /\ l.todo = k.todo /\ l.cur = k.cur /\ l.inflight = k.inflight
           /\ \A d \in Calls : IF d \in P THEN Abandoned(s, k, l, d) ELSE Same(k, l, d)
<1>1. PICK m : m = SettlePending(k, P, Failed(status))
    OBVIOUS
<1>2. /\ m \in CoreType /\ Calm(k, m)
      /\ m.todo = k.todo /\ m.cur = k.cur /\ m.inflight = k.inflight
      /\ \A d \in Calls : IF d \in P /\ Pending(k, d) THEN Answered(k, m, d) ELSE Same(k, m, d)
    <2>1. Failed(status) \in Outcome /\ Terminates(Failed(status))
        BY OutcomeTypes
    <2>2. PICK o : o = Failed(status)
        OBVIOUS
    <2> QED
        BY <1>1, <2>1, <2>2, SettlePendingEffect
<1>3. PICK sent : sent = {c \in P : ~OpensWithRequest(k.box, c)}
    OBVIOUS
<1>4. PICK cancels : cancels = [c \in sent |-> ControlFrame(s, c, "CANCEL")]
    OBVIOUS
<1>5. sent \in SUBSET Calls /\ sent \subseteq P
    BY <1>3, PendingInCalls
<1>6. \A c \in sent : /\ ControlFrame(s, c, "CANCEL") \in FrameFrom(s, c)
                      /\ ControlFrame(s, c, "CANCEL").kind = "CANCEL"
    BY <1>5, ControlFrameType
<1>7. /\ cancels \in [sent -> Frame]
      /\ \A c \in sent : cancels[c] \in FrameFrom(s, c) /\ cancels[c].kind = "CANCEL"
    BY <1>4, <1>6 DEF FrameFrom
<1>8. PICK box : box = PushEach(m.box, cancels)
    OBVIOUS
<1>9. m.box \in Box
    BY <1>2 DEF CoreType
<1>10. /\ box \in Box
       /\ \A d \in Calls : box.credits[d] = m.box.credits[d]
       /\ \A d \in Calls : box.queues[d] =
            IF d \in sent THEN Append(m.box.queues[d], cancels[d]) ELSE m.box.queues[d]
    BY <1>5, <1>7, <1>8, <1>9, PushEachEffect
<1>11. l = [m EXCEPT !.box = box]
    BY <1>1, <1>3, <1>4, <1>8 DEF AbandonPending
<1>12. /\ l \in CoreType /\ Calm(m, l) /\ l.box = box
       /\ l.todo = m.todo /\ l.cur = m.cur /\ l.inflight = m.inflight /\ l.pending = m.pending
       /\ l.chain = m.chain /\ l.outcomes = m.outcomes /\ l.issued = m.issued /\ l.leftAt = m.leftAt
    BY <1>2, <1>10, <1>11 DEF CoreType, Calm
<1>13. ASSUME NEW d \in Calls, d \in P
       PROVE  Abandoned(s, k, l, d)
    <2>1. Answered(k, m, d)
        BY <1>2, <1>13 DEF Pending
    <2>2. Settled(k, l, d)
        BY <1>10, <1>12, <2>1 DEF Answered, Settled, SamePast, SameClock, Pending, Inflight
    <2>3. m.box.queues[d] = <<>>
        BY <2>1 DEF Answered, Queue
    <2>4. CASE OpensWithRequest(k.box, d)
        <3>1. d \notin sent
            BY <1>3, <2>4
        <3> QED
            BY <1>10, <1>12, <2>2, <2>3, <2>4, <3>1 DEF Abandoned, Queue
    <2>5. CASE ~OpensWithRequest(k.box, d)
        <3>1. d \in sent
            BY <1>3, <1>13, <2>5
        <3>2. box.queues[d] = Append(<<>>, cancels[d])
            BY <1>10, <2>3, <3>1
        <3>3. box.queues[d] = <<cancels[d]>>
            BY <3>2
        <3> QED
            BY <1>7, <1>12, <2>2, <2>5, <3>1, <3>3 DEF Abandoned, Queue
    <2> QED
        BY <2>4, <2>5
<1>14. ASSUME NEW d \in Calls, d \notin P
       PROVE  Same(k, l, d)
    <2>1. Same(k, m, d) /\ d \notin sent
        BY <1>2, <1>5, <1>14
    <2> QED
        BY <1>10, <1>12, <2>1
        DEF Same, Alike, SameLife, SamePast, SameClock, Pending, Inflight, Queue
<1> QED
    BY <1>2, <1>12, <1>13, <1>14 DEF Calm

LEMMA FinishInflightEffect ==
    ASSUME NEW s \in Side, NEW k \in CoreType, NEW P \in SUBSET DOMAIN k.inflight,
           NEW status \in Statuses, NEW l, l = FinishInflight(s, k, P, status)
    PROVE  /\ l \in CoreType /\ Calm(k, l)
           /\ l.todo = k.todo /\ l.cur = k.cur /\ l.pending = k.pending
           /\ \A d \in Calls : IF d \in P THEN Finished(s, k, l, d) ELSE Same(k, l, d)
<1>1. P \in SUBSET Calls
    BY InflightInCalls
<1>2. PICK errors : errors = [c \in P |-> ErrorFrame(s, c, status)]
    OBVIOUS
<1>3. \A c \in P : /\ ErrorFrame(s, c, status) \in FrameFrom(s, c)
                   /\ ErrorFrame(s, c, status).kind = "ERROR"
    BY <1>1, ErrorFrameType
<1>4. /\ errors \in [P -> Frame]
      /\ \A c \in P : errors[c] \in FrameFrom(s, c) /\ errors[c].kind = "ERROR"
    BY <1>2, <1>3 DEF FrameFrom
<1>5. PICK inflight : inflight = Minus(k.inflight, P)
    OBVIOUS
<1>6. k.inflight \in Maps(Running)
    BY DEF CoreType
<1>7. /\ inflight \in Maps(Running)
      /\ DOMAIN inflight = DOMAIN k.inflight \ P
      /\ \A d \in DOMAIN k.inflight \ P : inflight[d] = k.inflight[d]
    BY ZenonT(60), <1>5, <1>6, MinusMap
<1>8. PICK chain : chain = Unwind(k.chain, P \cap DOMAIN k.inflight)
    OBVIOUS
<1>9. k.chain \in [Calls -> Int] /\ P \cap DOMAIN k.inflight = P
    BY DEF CoreType
<1>10. /\ chain \in [Calls -> Int]
       /\ \A d \in Calls : chain[d] = IF d \in P THEN k.chain[d] - 1 ELSE k.chain[d]
    BY <1>8, <1>9, UnwindEffect
<1>11. PICK empty : empty = Discard(k.box, P)
    OBVIOUS
<1>12. k.box \in Box
    BY DEF CoreType
<1>13. /\ empty \in Box
       /\ \A d \in Calls : IF d \in P THEN empty.queues[d] = <<>> /\ empty.credits[d] = NoCredit
            ELSE empty.queues[d] = k.box.queues[d] /\ empty.credits[d] = k.box.credits[d]
    BY <1>11, <1>12, DiscardEffect
<1>14. PICK box : box = PushEach(empty, errors)
    OBVIOUS
<1>15. /\ box \in Box
       /\ \A d \in Calls : box.credits[d] = empty.credits[d]
       /\ \A d \in Calls : box.queues[d] =
            IF d \in P THEN Append(empty.queues[d], errors[d]) ELSE empty.queues[d]
    <2>1. errors \in [P -> Frame]
        BY <1>4
    <2>2. empty \in Box
        BY <1>13
    <2> QED
        BY <1>1, <1>14, <2>1, <2>2, PushEachEffect
<1>16. l = [k EXCEPT !.inflight = inflight, !.box = box, !.chain = chain]
    BY <1>2, <1>5, <1>8, <1>11, <1>14 DEF FinishInflight
<1>17. /\ l \in CoreType /\ Calm(k, l) /\ l.box = box /\ l.inflight = inflight /\ l.chain = chain
       /\ l.todo = k.todo /\ l.cur = k.cur /\ l.pending = k.pending
       /\ l.outcomes = k.outcomes /\ l.issued = k.issued /\ l.leftAt = k.leftAt
    BY ZenonT(60), <1>7, <1>10, <1>15, <1>16 DEF CoreType, Calm
<1>18. ASSUME NEW d \in Calls, d \in P
       PROVE  Finished(s, k, l, d)
    <2>1. box.queues[d] = Append(<<>>, errors[d])
        BY <1>13, <1>15, <1>18
    <2>2. box.queues[d] = <<errors[d]>>
        BY <2>1
    <2>3. \E f \in FrameFrom(s, d) : f.kind \in LastKinds /\ Queue(l, d) = <<f>>
        BY <1>4, <1>17, <1>18, <2>2 DEF LastKinds, Queue
    <2>4. l.box.credits[d] = NoCredit
        BY <1>13, <1>15, <1>17, <1>18
    <2> QED
        BY <1>7, <1>10, <1>17, <1>18, <2>3, <2>4 DEF Finished, SamePast, Pending, Inflight
<1>19. ASSUME NEW d \in Calls, d \notin P
       PROVE  Same(k, l, d)
    BY <1>7, <1>10, <1>13, <1>15, <1>17, <1>19
    DEF Same, Alike, SameLife, SamePast, SameClock, Pending, Inflight, Queue
<1> QED
    BY <1>7, <1>17, <1>18, <1>19

\* The fields that are not part of the life of a call.
LEMMA Aside ==
    ASSUME NEW k, NEW l, l.pending = k.pending, l.inflight = k.inflight, l.box = k.box,
           l.outcomes = k.outcomes, l.chain = k.chain, l.issued = k.issued, l.leftAt = k.leftAt
    PROVE  \A d : Same(k, l, d)
BY DEF Same, Alike, SameLife, SamePast, SameClock, Pending, Inflight, Queue

\* A frame is queued and nothing else is done.
LEMMA PushEffect ==
    ASSUME NEW s \in Side, NEW k \in CoreType, NEW c \in Calls, NEW f \in FrameFrom(s, c),
           NEW l, l = [k EXCEPT !.box = PushTerminal(k.box, c, f)]
    PROVE  /\ l \in CoreType /\ Calm(k, l)
           /\ l.todo = k.todo /\ l.cur = k.cur
           /\ l.pending = k.pending /\ l.inflight = k.inflight /\ l.outcomes = k.outcomes
           /\ l.chain = k.chain /\ l.issued = k.issued /\ l.leftAt = k.leftAt
           /\ l.put = k.put /\ l.metered = k.metered
           /\ \A d \in Calls : d # c => Same(k, l, d)
           /\ Queue(l, c) = Append(Queue(k, c), f)
           /\ \A d \in Calls : l.box.credits[d] = k.box.credits[d]
<1>1. PICK box : box = PushTerminal(k.box, c, f)
    OBVIOUS
<1>2. k.box \in Box
    BY DEF CoreType
<1>3. f \in Frame
    BY DEF FrameFrom
<1>4. /\ box \in Box
      /\ box.queues[c] = Append(k.box.queues[c], f)
      /\ \A d \in Calls : d # c => box.queues[d] = k.box.queues[d]
      /\ \A d \in Calls : box.credits[d] = k.box.credits[d]
    <2>1. PICK old \in Box : old = k.box
        BY <1>2
    <2>2. box = PushTerminal(old, c, f)
        BY <1>1, <2>1
    <2>3. /\ box \in Box
          /\ box.queues[c] = Append(old.queues[c], f)
          /\ \A d \in Calls : d # c => box.queues[d] = old.queues[d]
          /\ \A d \in Calls : box.credits[d] = old.credits[d]
        BY <1>3, <2>2, PushTerminalEffect
    <2> QED
        BY <2>1, <2>3
<1>5. l = [k EXCEPT !.box = box]
    BY <1>1
<1>6. /\ l \in CoreType /\ Calm(k, l) /\ l.box = box
      /\ l.todo = k.todo /\ l.cur = k.cur
      /\ l.pending = k.pending /\ l.inflight = k.inflight /\ l.outcomes = k.outcomes
      /\ l.chain = k.chain /\ l.issued = k.issued /\ l.leftAt = k.leftAt
      /\ l.put = k.put /\ l.metered = k.metered
    BY <1>4, <1>5 DEF CoreType, Calm
<1>7. ASSUME NEW d \in Calls, d # c
      PROVE  Same(k, l, d)
    BY <1>4, <1>6, <1>7 DEF Same, Alike, SameLife, SamePast, SameClock, Pending, Inflight, Queue
<1> QED
    BY <1>4, <1>6, <1>7 DEF Queue

LEMMA FailCallEffect ==
    ASSUME NEW s \in Side, NEW k \in CoreType, NEW c \in Calls, NEW status \in Statuses,
           ~Inflight(k, c), ~Pending(k, c), NEW l, l = FailCall(s, k, c, status)
    PROVE  /\ l \in CoreType /\ Calm(k, l)
           /\ l.todo = k.todo /\ l.cur = k.cur /\ l.inflight = k.inflight
           /\ Refused(s, k, l, c)
           /\ \A d \in Calls : d # c => Same(k, l, d)
<1>1. PICK f : f = ErrorFrame(s, c, status)
    OBVIOUS
<1>2. f \in FrameFrom(s, c) /\ f.kind = "ERROR"
    BY <1>1, ErrorFrameType
<1>3. l = [k EXCEPT !.box = PushTerminal(k.box, c, f)]
    BY <1>1 DEF FailCall
<1>4. /\ l \in CoreType /\ Calm(k, l)
      /\ l.todo = k.todo /\ l.cur = k.cur
      /\ l.pending = k.pending /\ l.inflight = k.inflight /\ l.outcomes = k.outcomes
      /\ l.chain = k.chain /\ l.issued = k.issued /\ l.leftAt = k.leftAt
      /\ \A d \in Calls : d # c => Same(k, l, d)
      /\ Queue(l, c) = Append(Queue(k, c), f)
      /\ \A d \in Calls : l.box.credits[d] = k.box.credits[d]
    BY <1>2, <1>3, PushEffect
<1>5. Refused(s, k, l, c)
    BY <1>2, <1>4 DEF Refused, SameLife, SamePast, Pending, Inflight
<1> QED
    BY <1>4, <1>5

\* The same for one call.
Only(c) == {c}

LEMMA FinishOne ==
    ASSUME NEW s \in Side, NEW k \in CoreType, NEW c \in Calls, Inflight(k, c),
           NEW status \in Statuses, NEW l, l = FinishInflight(s, k, Only(c), status)
    PROVE  /\ l \in CoreType /\ Calm(k, l)
           /\ l.todo = k.todo /\ l.cur = k.cur
           /\ Finished(s, k, l, c)
           /\ \A d \in Calls : d # c => Same(k, l, d)
<1>1. PICK P \in SUBSET DOMAIN k.inflight : P = {c}
    BY DEF Inflight
<1>2. l = FinishInflight(s, k, P, status)
    BY <1>1 DEF Only
<1>3. /\ l \in CoreType /\ Calm(k, l)
      /\ l.todo = k.todo /\ l.cur = k.cur
      /\ \A d \in Calls : IF d \in P THEN Finished(s, k, l, d) ELSE Same(k, l, d)
    BY <1>1, <1>2, FinishInflightEffect
<1> QED
    BY <1>1, <1>3

LEMMA AbandonOne ==
    ASSUME NEW s \in Side, NEW k \in CoreType, NEW c \in Calls, Pending(k, c),
           NEW status \in Statuses, NEW l, l = AbandonPending(s, k, Only(c), status)
    PROVE  /\ l \in CoreType /\ Calm(k, l)
           /\ l.todo = k.todo /\ l.cur = k.cur /\ l.inflight = k.inflight
           /\ Abandoned(s, k, l, c)
           /\ \A d \in Calls : d # c => Same(k, l, d)
<1>1. PICK P \in SUBSET DOMAIN k.pending : P = {c}
    BY DEF Pending
<1>2. l = AbandonPending(s, k, P, status)
    BY <1>1 DEF Only
<1>3. /\ l \in CoreType /\ Calm(k, l)
      /\ l.todo = k.todo /\ l.cur = k.cur /\ l.inflight = k.inflight
      /\ \A d \in Calls : IF d \in P THEN Abandoned(s, k, l, d) ELSE Same(k, l, d)
    BY <1>2, AbandonPendingEffect
<1> QED
    BY <1>1, <1>3

LEMMA SettleOne ==
    ASSUME NEW k \in CoreType, NEW c \in Calls, NEW o \in Outcome, Terminates(o),
           NEW l, l = SettlePending(k, Only(c), o)
    PROVE  /\ l \in CoreType /\ Calm(k, l)
           /\ l.todo = k.todo /\ l.cur = k.cur /\ l.inflight = k.inflight
           /\ Pending(k, c) => Answered(k, l, c)
           /\ ~Pending(k, c) => Same(k, l, c)
           /\ \A d \in Calls : d # c => Same(k, l, d)
<1>1. PICK P : P = {c}
    OBVIOUS
<1>2. l = SettlePending(k, P, o)
    BY <1>1 DEF Only
<1>3. /\ l \in CoreType /\ Calm(k, l)
      /\ l.todo = k.todo /\ l.cur = k.cur /\ l.inflight = k.inflight
      /\ \A d \in Calls : IF d \in P /\ Pending(k, d) THEN Answered(k, l, d) ELSE Same(k, l, d)
    BY <1>2, SettlePendingEffect
<1> QED
    BY <1>1, <1>3

\* A frame that cannot be read ends the call it is of, on this side.
Ended(s, k, l, c) ==
    \/ Finished(s, k, l, c)
    \/ Abandoned(s, k, l, c) /\ ~Inflight(k, c)
    \/ Refused(s, k, l, c)

LEMMA FailReceivedEffect ==
    ASSUME NEW s \in Side, NEW k \in CoreType, NEW c \in Calls, NEW status \in Statuses,
           NEW l, l = FailReceived(s, k, c, status)
    PROVE  /\ l \in CoreType /\ Calm(k, l)
           /\ l.todo = k.todo /\ l.cur = k.cur
           /\ Ended(s, k, l, c)
           /\ \A d \in Calls : d # c => Same(k, l, d)
<1>1. CASE Inflight(k, c)
    <2>1. l = FinishInflight(s, k, Only(c), status)
        BY <1>1 DEF FailReceived, Inflight, Only
    <2> QED
        BY <1>1, <2>1, FinishOne DEF Ended
<1>2. CASE ~Inflight(k, c) /\ Pending(k, c)
    <2>1. l = AbandonPending(s, k, Only(c), status)
        BY <1>2 DEF FailReceived, Inflight, Pending, Only
    <2> QED
        BY <1>2, <2>1, AbandonOne DEF Ended
<1>3. CASE ~Inflight(k, c) /\ ~Pending(k, c)
    <2>1. l = FailCall(s, k, c, status)
        BY <1>3 DEF FailReceived, Inflight, Pending
    <2> QED
        BY <1>3, <2>1, FailCallEffect DEF Ended
<1> QED
    BY <1>1, <1>2, <1>3

LEMMA OnSessionEndEffect ==
    ASSUME NEW k \in CoreType, NEW l, l = OnSessionEnd(k)
    PROVE  /\ l \in CoreType /\ l.next = k.next /\ l.finished
           /\ l.todo = k.todo /\ l.cur = k.cur
           /\ \A d \in Calls : Dropped(k, l, d)
<1>1. PICK o : o = Failed("UNAVAILABLE")
    OBVIOUS
<1>2. o \in Outcome /\ Terminates(o)
    BY <1>1, OutcomeTypes DEF Statuses
<1>3. PICK P : P = DOMAIN k.pending
    OBVIOUS
<1>4. PICK m : m = SettlePending(k, P, o)
    OBVIOUS
<1>5. /\ m \in CoreType /\ Calm(k, m)
      /\ m.todo = k.todo /\ m.cur = k.cur /\ m.inflight = k.inflight
      /\ \A d \in Calls : IF d \in P /\ Pending(k, d) THEN Answered(k, m, d) ELSE Same(k, m, d)
    BY <1>2, <1>4, SettlePendingEffect
<1>6. PICK inflight : inflight = Minus(m.inflight, DOMAIN m.inflight)
    OBVIOUS
<1>7. m.inflight \in Maps(Running)
    BY <1>5 DEF CoreType
<1>8. inflight \in Maps(Running) /\ DOMAIN inflight = {}
    <2>1. DOMAIN inflight = DOMAIN m.inflight \ DOMAIN m.inflight
        BY ZenonT(60), <1>6, <1>7, MinusMap
    <2>2. inflight \in Maps(Running)
        BY <1>6, <1>7, MinusMap
    <2> QED
        BY <2>1, <2>2
<1>9. PICK chain : chain = Unwind(m.chain, DOMAIN k.inflight)
    OBVIOUS
<1>10. m.chain \in [Calls -> Int]
    BY <1>5 DEF CoreType
<1>11. /\ chain \in [Calls -> Int]
       /\ \A d \in Calls : chain[d] = IF d \in DOMAIN k.inflight THEN m.chain[d] - 1 ELSE m.chain[d]
    BY <1>9, <1>10, UnwindEffect
<1>12. PICK box : box = EmptyBox
    OBVIOUS
<1>13. box \in Box /\ \A d \in Calls : box.queues[d] = <<>> /\ box.credits[d] = NoCredit
    BY <1>12, EmptyBoxEffect
<1>14. l = [m EXCEPT !.finished = TRUE, !.ready = FALSE, !.box = box, !.inflight = inflight,
                     !.chain = chain]
    BY <1>1, <1>3, <1>4, <1>6, <1>9, <1>12 DEF OnSessionEnd
<1>15. /\ l \in CoreType /\ l.next = m.next /\ l.finished
       /\ l.box = box /\ l.inflight = inflight /\ l.chain = chain
       /\ l.todo = m.todo /\ l.cur = m.cur /\ l.pending = m.pending
       /\ l.outcomes = m.outcomes /\ l.issued = m.issued /\ l.leftAt = m.leftAt
    BY ZenonT(60), <1>5, <1>8, <1>11, <1>13, <1>14 DEF CoreType
<1>16. ASSUME NEW d \in Calls
       PROVE  Dropped(k, l, d)
    <2>1. CASE Pending(k, d)
        <3>1. Answered(k, m, d)
            BY <1>3, <1>5, <2>1 DEF Pending
        <3>2. k.chain[d] \in Int
            BY DEF CoreType
        <3> QED
            BY SMTT(60), <1>8, <1>10, <1>11, <1>13, <1>15, <2>1, <3>1, <3>2
            DEF Answered, Settled, Dropped, SamePast, Pending, Inflight, Queue
    <2>2. CASE ~Pending(k, d)
        <3>1. Same(k, m, d)
            BY <1>5, <2>2
        <3> QED
            BY <1>8, <1>11, <1>13, <1>15, <2>2, <3>1
            DEF Same, Alike, SameLife, Dropped, SamePast, Pending, Inflight, Queue
    <2> QED
        BY <2>1, <2>2
<1> QED
    BY <1>5, <1>15, <1>16 DEF Calm

-----------------------------------------------------------------------------
\* What the application does.

LEMMA AddOne ==
    ASSUME NEW f \in [Calls -> Int], NEW c \in Calls, NEW g, g = [f EXCEPT ![c] = f[c] + 1]
    PROVE  /\ g \in [Calls -> Int] /\ g[c] = f[c] + 1
           /\ \A d \in Calls : d # c => g[d] = f[d]
OBVIOUS

LEMMA SetNat ==
    ASSUME NEW f \in [Calls -> Nat], NEW c \in Calls, NEW n \in Nat, NEW g, g = [f EXCEPT ![c] = n]
    PROVE  /\ g \in [Calls -> Nat] /\ g[c] = n
           /\ \A d \in Calls : d # c => g[d] = f[d]
OBVIOUS

\* Call writes these fields.
OpenFields(k, next, box, pending, chain, issued, granted) ==
    [k EXCEPT !.next = next, !.box = box, !.pending = pending, !.chain = chain,
              !.issued = issued, !.granted = granted]

LEMMA OpenFieldsEffect ==
    ASSUME NEW k \in CoreType, NEW next \in Nat, NEW box \in Box, NEW pending \in Maps(Waiting),
           NEW chain \in [Calls -> Int], NEW issued \in SUBSET Calls, NEW granted \in [Calls -> Nat],
           NEW l, l = OpenFields(k, next, box, pending, chain, issued, granted)
    PROVE  /\ l \in CoreType /\ l.next = next /\ l.finished = k.finished
           /\ l.todo = k.todo /\ l.cur = k.cur /\ l.inflight = k.inflight
           /\ l.pending = pending /\ l.box = box /\ l.chain = chain /\ l.issued = issued
           /\ l.outcomes = k.outcomes /\ l.leftAt = k.leftAt
BY DEF CoreType, OpenFields

LEMMA OpenEffect ==
    ASSUME NEW s \in Side, NEW k \in CoreType, NEW c \in Calls, c = k.next,
           NEW f \in FrameFrom(s, c), f.kind = "REQUEST", NEW w \in Waiting, NEW credit \in Nat,
           NEW l, l = OpenFields(k, c + 2, PushTerminal(k.box, c, f), With(k.pending, c, w),
                                 [k.chain EXCEPT ![c] = k.chain[c] + 1], k.issued \cup {c},
                                 [k.granted EXCEPT ![c] = credit])
    PROVE  /\ l \in CoreType /\ l.next = c + 2 /\ l.finished = k.finished
           /\ l.todo = k.todo /\ l.cur = k.cur /\ l.inflight = k.inflight
           /\ Opened(s, k, l, c)
           /\ \A d \in Calls : d # c => Same(k, l, d)
<1>1. PICK box : box = PushTerminal(k.box, c, f)
    OBVIOUS
<1>2. PICK pending : pending = With(k.pending, c, w)
    OBVIOUS
<1>3. PICK chain : chain = [k.chain EXCEPT ![c] = k.chain[c] + 1]
    OBVIOUS
<1>4. PICK granted : granted = [k.granted EXCEPT ![c] = credit]
    OBVIOUS
<1>5. PICK issued : issued = k.issued \cup {c}
    OBVIOUS
<1>6. PICK next \in Nat : next = c + 2 /\ c < next
    BY QueueConstants
<1>7. l = OpenFields(k, next, box, pending, chain, issued, granted)
    BY <1>1, <1>2, <1>3, <1>4, <1>5, <1>6
<1>8. /\ box \in Box
      /\ box.queues[c] = Append(k.box.queues[c], f)
      /\ \A d \in Calls : d # c => box.queues[d] = k.box.queues[d]
      /\ \A d \in Calls : box.credits[d] = k.box.credits[d]
    <2>1. PICK old \in Box : old = k.box
        BY DEF CoreType
    <2>2. f \in Frame /\ box = PushTerminal(old, c, f)
        BY <1>1, <2>1 DEF FrameFrom
    <2>3. /\ box \in Box
          /\ box.queues[c] = Append(old.queues[c], f)
          /\ \A d \in Calls : d # c => box.queues[d] = old.queues[d]
          /\ \A d \in Calls : box.credits[d] = old.credits[d]
        BY SMTT(60), <2>2, PushTerminalEffect
    <2> QED
        BY <2>1, <2>3
<1>9. pending \in Maps(Waiting) /\ DOMAIN pending = DOMAIN k.pending \cup {c}
    <2>1. PICK old \in Maps(Waiting) : old = k.pending
        BY DEF CoreType
    <2>2. pending = With(old, c, w)
        BY <1>2, <2>1
    <2>3. pending \in Maps(Waiting)
        BY <2>2, WithMap
    <2>4. DOMAIN pending = DOMAIN k.pending \cup {c}
        BY <1>2 DEF With
    <2> QED
        BY <2>3, <2>4
<1>10. /\ chain \in [Calls -> Int] /\ chain[c] = k.chain[c] + 1
       /\ \A d \in Calls : d # c => chain[d] = k.chain[d]
    <2>1. PICK old \in [Calls -> Int] : old = k.chain
        BY DEF CoreType
    <2>2. chain = [old EXCEPT ![c] = old[c] + 1]
        BY <1>3, <2>1
    <2>3. /\ chain \in [Calls -> Int] /\ chain[c] = old[c] + 1
          /\ \A d \in Calls : d # c => chain[d] = old[d]
        BY <2>2, AddOne
    <2> QED
        BY <2>1, <2>3
<1>11. granted \in [Calls -> Nat]
    <2>1. PICK old \in [Calls -> Nat] : old = k.granted
        BY DEF CoreType
    <2>2. granted = [old EXCEPT ![c] = credit]
        BY <1>4, <2>1
    <2> QED
        BY <2>2, SetNat
<1>12. issued \in SUBSET Calls
    BY <1>5 DEF CoreType
<1>13. /\ l \in CoreType /\ l.next = next /\ l.finished = k.finished
       /\ l.todo = k.todo /\ l.cur = k.cur /\ l.inflight = k.inflight
       /\ l.pending = pending /\ l.box = box /\ l.chain = chain /\ l.issued = issued
       /\ l.outcomes = k.outcomes /\ l.leftAt = k.leftAt
    <2>1. box \in Box /\ pending \in Maps(Waiting) /\ chain \in [Calls -> Int]
        BY <1>8, <1>9, <1>10
    <2> QED
        BY <1>7, <1>11, <1>12, <2>1, OpenFieldsEffect
<1>14. Opened(s, k, l, c)
    <2>1. Pending(l, c) /\ (Inflight(l, c) <=> Inflight(k, c)) /\ SameClock(k, l, c) /\ c \in l.issued
        BY <1>5, <1>9, <1>13 DEF Pending, Inflight, SameClock
    <2>2. Queue(l, c) = Append(Queue(k, c), f)
        BY <1>8, <1>13 DEF Queue
    <2>3. l.box.credits[c] = k.box.credits[c] /\ l.chain[c] = k.chain[c] + 1
        BY <1>8, <1>10, <1>13
    <2>4. c < l.next
        BY <1>6, <1>13
    <2>5. l.leftAt[c] = k.leftAt[c] /\ l.outcomes[c] = k.outcomes[c]
        BY <1>13
    <2> QED
        BY <2>1, <2>2, <2>3, <2>4, <2>5 DEF Opened
<1>15. ASSUME NEW d \in Calls, d # c
       PROVE  Same(k, l, d)
    <2>1. SameLife(k, l, d)
        <3>1. d \in DOMAIN pending <=> d \in DOMAIN k.pending
            BY <1>9, <1>15
        <3>2. chain[d] = k.chain[d]
            BY <1>10, <1>15
        <3> QED
            BY <1>13, <3>1, <3>2 DEF SameLife, Pending, Inflight
    <2>2. SamePast(k, l, d)
        <3>1. d \in issued <=> d \in k.issued
            BY <1>5, <1>15
        <3> QED
            BY <1>13, <3>1 DEF SamePast
    <2> QED
        BY <1>8, <1>13, <1>15, <2>1, <2>2 DEF Same, Alike, SameClock, Inflight, Queue
<1> QED
    BY <1>6, <1>13, <1>14, <1>15

LEMMA CallEffect ==
    ASSUME NEW s \in Side, NEW k \in CoreType, NEW c \in Calls, c = k.next, Allocates(s, c),
           NEW o \in Openings[s], o.req \in DOMAIN Registry[s].methods, NEW t \in Nat,
           NEW l, l = Call(s, k, o.req, o.ctx, o.packed, t)
    PROVE  /\ l \in CoreType /\ l.next = c + 2 /\ l.finished = k.finished
           /\ l.todo = k.todo /\ l.cur = k.cur /\ l.inflight = k.inflight
           /\ Opened(s, k, l, c)
           /\ \A d \in Calls : d # c => Same(k, l, d)
<1> DEFINE f == [BodyFrame("REQUEST", o.req, c, 0, o.packed) EXCEPT !.ctx = o.ctx]
           deadline == IF o.ctx.deadline = 0 THEN 0 ELSE t + o.ctx.deadline
           w == [m |-> Registry[s].methods[o.req], deadline |-> deadline,
                 sendClosed |-> FALSE, credit |-> 0, established |-> FALSE]
<1>1. l = OpenFields(k, c + 2, PushTerminal(k.box, c, f), With(k.pending, c, w),
                     [k.chain EXCEPT ![c] = k.chain[c] + 1], k.issued \cup {c},
                     [k.granted EXCEPT ![c] = o.ctx.credit])
    BY DEF Call, OpenFields, Enter
<1>2. f \in FrameFrom(s, c) /\ f.kind = "REQUEST"
    BY RequestType
<1>3. o.ctx.deadline \in Nat /\ o.ctx.credit \in Nat /\ Registry[s].methods[o.req] \in Method
    BY LinkConstants, QueueConstants DEF Ctx
<1>4. deadline \in Nat
    BY <1>3
<1> HIDE DEF deadline
<1>5. w \in Waiting
    BY <1>3, <1>4, QueueConstants DEF Waiting
<1> HIDE DEF f, w
<1>6. PICK credit \in Nat : credit = o.ctx.credit
    BY <1>3
<1>7. l = OpenFields(k, c + 2, PushTerminal(k.box, c, f), With(k.pending, c, w),
                     [k.chain EXCEPT ![c] = k.chain[c] + 1], k.issued \cup {c},
                     [k.granted EXCEPT ![c] = credit])
    BY <1>1, <1>6
<1> QED
    BY SMTT(60), <1>2, <1>5, <1>7, OpenEffect

LEMMA CallRefusedIs ==
    ASSUME NEW k \in CoreType
    PROVE  CallRefused(k) = [k EXCEPT !.next = k.next + 2]
<1>1. PICK chain \in [Calls -> Int] : chain = k.chain
    BY DEF CoreType
<1>2. Unwind(Enter(k.chain, k.next), {k.next}) = chain
    BY <1>1, EnterUnwound
<1>3. CallRefused(k) = [k EXCEPT !.next = k.next + 2, !.chain = chain]
    BY <1>2 DEF CallRefused
<1> QED
    BY <1>1, <1>3 DEF CoreType

LEMMA CallRefusedEffect ==
    ASSUME NEW k \in CoreType, NEW l, l = CallRefused(k)
    PROVE  /\ l \in CoreType /\ l.next = k.next + 2 /\ l.finished = k.finished
           /\ l.todo = k.todo /\ l.cur = k.cur
           /\ \A d \in Calls : Same(k, l, d)
<1>1. l = [k EXCEPT !.next = k.next + 2]
    BY CallRefusedIs
<1>2. k.next + 2 \in Nat
    BY DEF CoreType
<1>3. /\ l \in CoreType /\ l.next = k.next + 2 /\ l.finished = k.finished
      /\ l.todo = k.todo /\ l.cur = k.cur
      /\ l.pending = k.pending /\ l.inflight = k.inflight /\ l.box = k.box
      /\ l.outcomes = k.outcomes /\ l.chain = k.chain /\ l.issued = k.issued /\ l.leftAt = k.leftAt
    BY <1>1, <1>2 DEF CoreType
<1> QED
    BY <1>3, Aside

\* The record of a pending call changes.
LEMMA WaitingChanged ==
    ASSUME NEW k \in CoreType, NEW c \in Calls, Pending(k, c), NEW w \in Waiting,
           NEW l, l = [k EXCEPT !.pending = [k.pending EXCEPT ![c] = w]]
    PROVE  /\ l \in CoreType /\ Calm(k, l)
           /\ l.todo = k.todo /\ l.cur = k.cur /\ l.inflight = k.inflight /\ l.box = k.box
           /\ l.put = k.put /\ l.metered = k.metered /\ l.outcomes = k.outcomes
           /\ l.chain = k.chain /\ l.issued = k.issued /\ l.leftAt = k.leftAt
           /\ DOMAIN l.pending = DOMAIN k.pending
           /\ \A d \in Calls : Same(k, l, d)
<1>1. PICK pending : pending = [k.pending EXCEPT ![c] = w]
    OBVIOUS
<1>2. PICK old \in Maps(Waiting) : old = k.pending
    BY DEF CoreType
<1>3. c \in DOMAIN old /\ pending = [old EXCEPT ![c] = w]
    BY <1>1, <1>2 DEF Pending
<1>4. pending \in Maps(Waiting) /\ DOMAIN pending = DOMAIN old
    BY <1>3, ChangedMap
<1>5. l = [k EXCEPT !.pending = pending]
    BY <1>1
<1>6. /\ l \in CoreType /\ Calm(k, l) /\ l.pending = pending
      /\ l.todo = k.todo /\ l.cur = k.cur /\ l.inflight = k.inflight /\ l.box = k.box
      /\ l.put = k.put /\ l.metered = k.metered /\ l.outcomes = k.outcomes
      /\ l.chain = k.chain /\ l.issued = k.issued /\ l.leftAt = k.leftAt
    BY <1>4, <1>5 DEF CoreType, Calm
<1>7. DOMAIN l.pending = DOMAIN k.pending
    BY <1>2, <1>4, <1>6
<1>8. \A d \in Calls : Same(k, l, d)
    BY <1>6, <1>7 DEF Same, Alike, SameLife, SamePast, SameClock, Pending, Inflight, Queue
<1> QED
    BY <1>6, <1>7, <1>8

\* The record of a running call changes; its clock may.
SetRunning(k, c, r) == [k EXCEPT !.inflight = [k.inflight EXCEPT ![c] = r]]

LEMMA RunningChanged ==
    ASSUME NEW k \in CoreType, NEW c \in Calls, Inflight(k, c), NEW r \in Running,
           NEW l, l = SetRunning(k, c, r)
    PROVE  /\ l \in CoreType /\ Calm(k, l)
           /\ l.todo = k.todo /\ l.cur = k.cur /\ l.pending = k.pending /\ l.box = k.box
           /\ l.put = k.put /\ l.metered = k.metered /\ l.outcomes = k.outcomes
           /\ l.chain = k.chain /\ l.issued = k.issued /\ l.leftAt = k.leftAt
           /\ DOMAIN l.inflight = DOMAIN k.inflight
           /\ l.inflight[c] = r /\ Alike(k, l, c)
           /\ \A d \in Calls : d # c => Same(k, l, d)
<1>1. PICK inflight : inflight = [k.inflight EXCEPT ![c] = r]
    OBVIOUS
<1>2. PICK old \in Maps(Running) : old = k.inflight
    BY DEF CoreType
<1>3. c \in DOMAIN old /\ inflight = [old EXCEPT ![c] = r]
    BY <1>1, <1>2 DEF Inflight
<1>4. /\ inflight \in Maps(Running) /\ DOMAIN inflight = DOMAIN old
      /\ inflight[c] = r
      /\ \A d \in DOMAIN old : d # c => inflight[d] = old[d]
    BY <1>3, ChangedMap
<1>5. l = [k EXCEPT !.inflight = inflight]
    BY <1>1 DEF SetRunning
<1>6. /\ l \in CoreType /\ Calm(k, l) /\ l.inflight = inflight
      /\ l.todo = k.todo /\ l.cur = k.cur /\ l.pending = k.pending /\ l.box = k.box
      /\ l.put = k.put /\ l.metered = k.metered /\ l.outcomes = k.outcomes
      /\ l.chain = k.chain /\ l.issued = k.issued /\ l.leftAt = k.leftAt
    BY <1>4, <1>5 DEF CoreType, Calm
<1>7. DOMAIN l.inflight = DOMAIN k.inflight
    BY <1>2, <1>4, <1>6
<1>8. \A d \in Calls : Alike(k, l, d)
    BY <1>6, <1>7 DEF Alike, SameLife, SamePast, Pending, Inflight, Queue
<1>9. \A d \in Calls : d # c => SameClock(k, l, d)
    BY <1>2, <1>4, <1>6 DEF SameClock, Inflight
<1> QED
    BY <1>4, <1>6, <1>7, <1>8, <1>9 DEF Same

LEMMA CountItemEffect ==
    ASSUME NEW k \in CoreType, NEW c \in Calls, NEW r, NEW l, l = CountItem(k, c, r)
    PROVE  /\ l \in CoreType /\ Calm(k, l)
           /\ l.todo = k.todo /\ l.cur = k.cur /\ l.inflight = k.inflight
           /\ \A d \in Calls : Same(k, l, d)
<1>1. PICK n : n = IF r.established THEN k.metered[c] + 1 ELSE k.metered[c]
    OBVIOUS
<1>2. n \in Nat /\ k.put[c] + 1 \in Nat
    <2>1. k.metered[c] \in Nat /\ k.put[c] \in Nat
        BY DEF CoreType
    <2>2. n = k.metered[c] + 1 \/ n = k.metered[c]
        BY <1>1
    <2> QED
        BY <2>1, <2>2
<1>3. PICK put : put = [k.put EXCEPT ![c] = k.put[c] + 1]
    OBVIOUS
<1>4. PICK metered : metered = [k.metered EXCEPT ![c] = n]
    OBVIOUS
<1>5. put \in [Calls -> Nat] /\ metered \in [Calls -> Nat]
    BY <1>2, <1>3, <1>4 DEF CoreType
<1>6. l = [k EXCEPT !.put = put, !.metered = metered]
    BY <1>1, <1>3, <1>4 DEF CountItem
<1>7. /\ l \in CoreType /\ Calm(k, l)
      /\ l.todo = k.todo /\ l.cur = k.cur
      /\ l.pending = k.pending /\ l.inflight = k.inflight /\ l.box = k.box
      /\ l.outcomes = k.outcomes /\ l.chain = k.chain /\ l.issued = k.issued /\ l.leftAt = k.leftAt
    BY <1>5, <1>6 DEF CoreType, Calm
<1> QED
    BY <1>7, Aside

LEMMA QueuedThenSame ==
    \A s, k, m, l, c : Queued(s, k, m, c) /\ Same(m, l, c) => Queued(s, k, l, c)
BY DEF Same, Alike, SameLife, SamePast, SameClock, Queued

\* A pending call queues a frame.
LEMMA CallerPush ==
    ASSUME NEW s \in Side, NEW k \in CoreType, NEW c \in Calls, NEW f \in FrameFrom(s, c),
           f.kind \in {"ITEM", "END"}, Pending(k, c), ~Inflight(k, c),
           NEW l, l = [k EXCEPT !.box = PushTerminal(k.box, c, f)]
    PROVE  /\ l \in CoreType /\ Calm(k, l)
           /\ l.todo = k.todo /\ l.cur = k.cur
           /\ l.pending = k.pending /\ l.inflight = k.inflight
           /\ Queued(s, k, l, c)
           /\ \A d \in Calls : d # c => Same(k, l, d)
<1>1. /\ l \in CoreType /\ Calm(k, l)
      /\ l.todo = k.todo /\ l.cur = k.cur
      /\ l.pending = k.pending /\ l.inflight = k.inflight /\ l.outcomes = k.outcomes
      /\ l.chain = k.chain /\ l.issued = k.issued /\ l.leftAt = k.leftAt
      /\ \A d \in Calls : d # c => Same(k, l, d)
      /\ Queue(l, c) = Append(Queue(k, c), f)
      /\ \A d \in Calls : l.box.credits[d] = k.box.credits[d]
    BY PushEffect
<1>2. SameLife(k, l, c) /\ SamePast(k, l, c)
    BY <1>1 DEF SameLife, SamePast, Pending, Inflight
<1>3. Queued(s, k, l, c)
    BY <1>1, <1>2 DEF Queued
<1> QED
    BY <1>1, <1>3

\* After another field is written, the rest of a core is what it was.
LEMMA TwoFields ==
    ASSUME NEW k \in CoreType, NEW box, NEW pending
    PROVE  [k EXCEPT !.box = box, !.pending = pending]
               = [[k EXCEPT !.box = box] EXCEPT !.pending = pending]
BY DEF CoreType

LEMMA SpendType ==
    ASSUME NEW w \in Waiting, ~Starved(w), NEW v, v = [w EXCEPT !.credit = IF w.established THEN @ - 1 ELSE @]
    PROVE  v \in Waiting
<1>1. PICK n : n = IF w.established THEN w.credit - 1 ELSE w.credit
    OBVIOUS
<1>2. w.credit \in 0..MaxU32
    BY DEF Waiting
<1>3. n \in 0..MaxU32
    BY <1>1, <1>2, QueueConstants DEF Starved
<1>4. v = [w EXCEPT !.credit = n]
    BY <1>1
<1> QED
    BY <1>3, <1>4 DEF Waiting

LEMMA SendItemEffect ==
    ASSUME NEW s \in Side, NEW k \in CoreType, NEW c \in Calls, NEW packed \in Packing,
           CanSendItem(k, c), ~Inflight(k, c), NEW l, l = SendItem(k, c, packed)
    PROVE  /\ l \in CoreType /\ Calm(k, l)
           /\ l.todo = k.todo /\ l.cur = k.cur /\ l.inflight = k.inflight
           /\ Queued(s, k, l, c)
           /\ \A d \in Calls : d # c => Same(k, l, d)
<1>1. PICK r : r = k.pending[c]
    OBVIOUS
<1>2. Pending(k, c) /\ r \in Waiting /\ ~Starved(r)
    BY <1>1, PendingInCalls DEF CanSendItem, Pending
<1>3. r.m.item \in STRING
    BY <1>2 DEF Waiting, Method
<1>4. PICK item \in STRING : item = r.m.item
    BY <1>3
<1>5. PICK n \in Nat : n = k.put[c] + 1
    <2>1. k.put[c] \in Nat
        BY DEF CoreType
    <2> QED
        BY <2>1
<1>6. PICK f : f = BodyFrame("ITEM", item, c, n, packed)
    OBVIOUS
<1>7. f \in FrameFrom(s, c) /\ f.kind = "ITEM"
    <2>1. "ITEM" \in Kinds
        BY DEF Kinds
    <2> QED
        BY <1>6, <2>1, BodyFrameType
<1>8. PICK v : v = [r EXCEPT !.credit = IF r.established THEN @ - 1 ELSE @]
    OBVIOUS
<1>9. v \in Waiting
    BY <1>2, <1>8, SpendType
<1>10. PICK box : box = PushTerminal(k.box, c, f)
    OBVIOUS
<1>11. PICK pending : pending = [k.pending EXCEPT ![c] = v]
    OBVIOUS
<1>12. PICK m1 : m1 = [k EXCEPT !.box = box]
    OBVIOUS
<1>13. PICK m2 : m2 = [m1 EXCEPT !.pending = pending]
    OBVIOUS
<1>14. m2 = [k EXCEPT !.box = box, !.pending = pending]
    BY <1>12, <1>13, TwoFields
<1>15. l = CountItem(m2, c, r)
    BY <1>1, <1>4, <1>5, <1>6, <1>8, <1>10, <1>11, <1>14 DEF SendItem
<1>16. /\ m1 \in CoreType /\ Calm(k, m1)
       /\ m1.todo = k.todo /\ m1.cur = k.cur
       /\ m1.pending = k.pending /\ m1.inflight = k.inflight
       /\ Queued(s, k, m1, c)
       /\ \A d \in Calls : d # c => Same(k, m1, d)
    BY <1>2, <1>7, <1>10, <1>12, CallerPush
<1>17. /\ m2 \in CoreType /\ Calm(m1, m2)
       /\ m2.todo = m1.todo /\ m2.cur = m1.cur /\ m2.inflight = m1.inflight
       /\ \A d \in Calls : Same(m1, m2, d)
    <2>1. Pending(m1, c) /\ m2 = [m1 EXCEPT !.pending = [m1.pending EXCEPT ![c] = v]]
        BY <1>2, <1>11, <1>13, <1>16 DEF Pending
    <2>2. m1 \in CoreType
        BY <1>16
    <2> QED
        BY <1>9, <2>1, <2>2, WaitingChanged
<1>18. /\ l \in CoreType /\ Calm(m2, l)
       /\ l.todo = m2.todo /\ l.cur = m2.cur /\ l.inflight = m2.inflight
       /\ \A d \in Calls : Same(m2, l, d)
    <2>1. m2 \in CoreType
        BY <1>17
    <2> QED
        BY <1>15, <2>1, CountItemEffect
<1>19. Queued(s, k, l, c)
    <2>1. Queued(s, k, m1, c) /\ Same(m1, m2, c) /\ Same(m2, l, c)
        BY <1>16, <1>17, <1>18
    <2> QED
        BY <2>1, QueuedThenSame
<1>20. \A d \in Calls : d # c => Same(k, l, d)
    BY <1>16, <1>17, <1>18, SameThenSame
<1> QED
    BY <1>16, <1>17, <1>18, <1>19, <1>20 DEF Calm

LEMMA CloseSendEffect ==
    ASSUME NEW s \in Side, NEW k \in CoreType, NEW c \in Calls,
           CanCloseSend(k, c), ~Inflight(k, c), NEW l, l = CloseSend(s, k, c)
    PROVE  /\ l \in CoreType /\ Calm(k, l)
           /\ l.todo = k.todo /\ l.cur = k.cur /\ l.inflight = k.inflight
           /\ Queued(s, k, l, c)
           /\ \A d \in Calls : d # c => Same(k, l, d)
<1>1. Pending(k, c) /\ k.pending[c] \in Waiting
    BY PendingInCalls DEF CanCloseSend, Pending
<1>2. PICK f : f = ControlFrame(s, c, "END")
    OBVIOUS
<1>3. f \in FrameFrom(s, c) /\ f.kind = "END"
    BY <1>2, ControlFrameType
<1>4. PICK v : v = [k.pending[c] EXCEPT !.sendClosed = TRUE]
    OBVIOUS
<1>5. v \in Waiting
    BY <1>1, <1>4 DEF Waiting
<1>6. PICK box : box = PushTerminal(k.box, c, f)
    OBVIOUS
<1>7. PICK pending : pending = [k.pending EXCEPT ![c] = v]
    OBVIOUS
<1>8. PICK m : m = [k EXCEPT !.box = box]
    OBVIOUS
<1>9. l = [k EXCEPT !.box = box, !.pending = pending]
    BY <1>2, <1>4, <1>6, <1>7 DEF CloseSend
<1>10. l = [m EXCEPT !.pending = pending]
    BY <1>8, <1>9, TwoFields
<1>11. /\ m \in CoreType /\ Calm(k, m)
       /\ m.todo = k.todo /\ m.cur = k.cur
       /\ m.pending = k.pending /\ m.inflight = k.inflight
       /\ Queued(s, k, m, c)
       /\ \A d \in Calls : d # c => Same(k, m, d)
    BY <1>1, <1>3, <1>6, <1>8, CallerPush
<1>12. /\ l \in CoreType /\ Calm(m, l)
       /\ l.todo = m.todo /\ l.cur = m.cur /\ l.inflight = m.inflight
       /\ \A d \in Calls : Same(m, l, d)
    <2>1. Pending(m, c) /\ l = [m EXCEPT !.pending = [m.pending EXCEPT ![c] = v]]
        BY <1>1, <1>7, <1>10, <1>11 DEF Pending
    <2>2. m \in CoreType
        BY <1>11
    <2> QED
        BY <1>5, <2>1, <2>2, WaitingChanged
<1>13. Queued(s, k, l, c)
    <2>1. Queued(s, k, m, c) /\ Same(m, l, c)
        BY <1>11, <1>12
    <2> QED
        BY <2>1, QueuedThenSame
<1>14. \A d \in Calls : d # c => Same(k, l, d)
    BY <1>11, <1>12, SameThenSame
<1> QED
    BY <1>11, <1>12, <1>13, <1>14 DEF Calm

LEMMA GrantEffect ==
    ASSUME NEW k \in CoreType, NEW c \in Calls, NEW items \in Nat, NEW t,
           Pending(k, c) \/ Inflight(k, c), NEW l, l = Grant(k, c, items)
    PROVE  /\ l \in CoreType /\ Calm(k, l)
           /\ l.todo = k.todo /\ l.cur = k.cur /\ l.inflight = k.inflight
           /\ \A d \in Calls : Kept(k, l, d, t)
<1>1. PICK box : box = GrantTo(k.box, c, items)
    OBVIOUS
<1>2. PICK old \in Box : old = k.box
    BY DEF CoreType
<1>3. box = GrantTo(old, c, items)
    BY <1>1, <1>2
<1>4. /\ box \in Box
      /\ \A d \in Calls : box.queues[d] = old.queues[d]
      /\ \A d \in Calls : d # c => box.credits[d] = old.credits[d]
    BY <1>3, GrantToEffect
<1>5. PICK granted : granted = [k.granted EXCEPT ![c] = k.granted[c] + items]
    OBVIOUS
<1>6. granted \in [Calls -> Nat]
    <2>1. PICK f \in [Calls -> Nat] : f = k.granted
        BY DEF CoreType
    <2>2. PICK n \in Nat : n = f[c] + items
        OBVIOUS
    <2>3. granted = [f EXCEPT ![c] = n]
        BY <1>5, <2>1, <2>2
    <2> QED
        BY <2>3, SetNat
<1>7. l = [k EXCEPT !.box = box, !.granted = granted]
    BY <1>1, <1>5 DEF Grant
<1>8. /\ l \in CoreType /\ Calm(k, l) /\ l.box = box
      /\ l.todo = k.todo /\ l.cur = k.cur /\ l.pending = k.pending /\ l.inflight = k.inflight
      /\ l.outcomes = k.outcomes /\ l.chain = k.chain /\ l.issued = k.issued /\ l.leftAt = k.leftAt
    BY ZenonT(60), <1>4, <1>6, <1>7 DEF CoreType, Calm
<1>9. ASSUME NEW d \in Calls
      PROVE  Kept(k, l, d, t)
    <2>1. SameLife(k, l, d) /\ SamePast(k, l, d)
        BY <1>8 DEF SameLife, SamePast, Pending, Inflight
    <2>2. Queue(l, d) = Queue(k, d)
        BY <1>2, <1>4, <1>8 DEF Queue
    <2>3. l.box.credits[d] # NoCredit => k.box.credits[d] # NoCredit \/ Pending(k, d) \/ Inflight(k, d)
        BY <1>2, <1>4, <1>8
    <2>4. l.outcomes[d] = k.outcomes[d]
        BY <1>8
    <2>5. Inflight(k, d) => l.inflight[d].fullSince \in {0, k.inflight[d].fullSince}
        BY <1>8
    <2> QED
        BY <2>1, <2>2, <2>3, <2>4, <2>5 DEF Kept
<1> QED
    BY <1>8, <1>9

-----------------------------------------------------------------------------
\* What a received frame does.

LEMMA RunningTypes ==
    ASSUME NEW r \in Running
    PROVE  /\ \A t \in Nat : /\ [r EXCEPT !.lastHeard = t] \in Running
                             /\ [r EXCEPT !.lastHeard = t].fullSince = r.fullSince
                             /\ [r EXCEPT !.lastHeard = t].m = r.m
           /\ \A t \in Nat : /\ [r EXCEPT !.fullSince = t] \in Running
                             /\ [r EXCEPT !.fullSince = t].fullSince = t
           /\ /\ [r EXCEPT !.inboundClosed = TRUE] \in Running
              /\ [r EXCEPT !.inboundClosed = TRUE].fullSince = r.fullSince
           /\ \A t \in Nat, n \in 0..MaxU32 :
                /\ [r EXCEPT !.lastHeard = t, !.credit = n, !.established = TRUE] \in Running
                /\ [r EXCEPT !.lastHeard = t, !.credit = n, !.established = TRUE].fullSince = r.fullSince
           /\ \A n \in 0..MaxU32 : /\ [r EXCEPT !.credit = n] \in Running
                                   /\ [r EXCEPT !.credit = n].fullSince = r.fullSince
           /\ r.credit \in 0..MaxU32 /\ r.fullSince \in Nat /\ r.m \in Method
BY DEF Running

\* A running call's record changes but for its clock.
LEMMA RunningSame ==
    ASSUME NEW k \in CoreType, NEW c \in Calls, Inflight(k, c), NEW r \in Running,
           r.fullSince = k.inflight[c].fullSince,
           NEW l, l = SetRunning(k, c, r)
    PROVE  /\ l \in CoreType /\ Calm(k, l)
           /\ l.todo = k.todo /\ l.cur = k.cur
           /\ DOMAIN l.inflight = DOMAIN k.inflight /\ l.inflight[c] = r
           /\ \A d \in Calls : Same(k, l, d)
<1>1. /\ l \in CoreType /\ Calm(k, l)
      /\ l.todo = k.todo /\ l.cur = k.cur
      /\ DOMAIN l.inflight = DOMAIN k.inflight
      /\ l.inflight[c] = r /\ Alike(k, l, c)
      /\ \A d \in Calls : d # c => Same(k, l, d)
    BY RunningChanged
<1>2. Same(k, l, c)
    BY <1>1 DEF Same, SameClock
<1> QED
    BY <1>1, <1>2

Told(k, c, t) == [k EXCEPT !.inflight[c].lastHeard = t]

LEMMA HeardEffect ==
    ASSUME NEW k \in CoreType, NEW c \in Calls, Inflight(k, c), NEW t \in Nat,
           NEW l, l = Told(k, c, t)
    PROVE  /\ l \in CoreType /\ Calm(k, l)
           /\ l.todo = k.todo /\ l.cur = k.cur
           /\ Inflight(l, c)
           /\ \A d \in Calls : Same(k, l, d)
<1>1. PICK r \in Running : r = [k.inflight[c] EXCEPT !.lastHeard = t] /\ r.fullSince = k.inflight[c].fullSince
    <2>1. k.inflight[c] \in Running
        BY InflightInCalls DEF Inflight
    <2> QED
        BY <2>1, RunningTypes
<1>2. l = SetRunning(k, c, r)
    BY <1>1 DEF SetRunning, Told
<1>3. /\ l \in CoreType /\ Calm(k, l)
      /\ l.todo = k.todo /\ l.cur = k.cur
      /\ DOMAIN l.inflight = DOMAIN k.inflight
      /\ \A d \in Calls : Same(k, l, d)
    <2>1. r.fullSince = k.inflight[c].fullSince
        BY <1>1
    <2> QED
        BY <1>2, <2>1, RunningSame
<1> QED
    BY <1>3 DEF Inflight

LEMMA EarlierType == \A a, b \in Nat : Earlier(a, b) \in Nat
BY DEF Earlier

LEMMA NewRunningType ==
    ASSUME NEW m \in Method, NEW ctx \in Ctx, NEW t \in Nat, NEW r, r = NewRunning(m, ctx, t)
    PROVE  r \in Running /\ r.fullSince = 0
<1>1. ctx.deadline \in Nat /\ ctx.credit \in 0..MaxU32
    BY DEF Ctx
<1>2. HandlerLimit \in Nat
    BY LinkConstants
<1>3. PICK a \in Nat : a = IF ctx.deadline = 0 THEN 0 ELSE t + ctx.deadline
    BY <1>1
<1>4. PICK b \in Nat : b = IF m.shape = "unary" THEN t + HandlerLimit ELSE 0
    BY <1>2
<1>5. PICK limit \in Nat : limit = Earlier(a, b)
    BY EarlierType
<1>6. r = [m |-> m, limit |-> limit, lastHeard |-> t, inboundClosed |-> ~CallerStreams(m),
           credit |-> ctx.credit, established |-> ctx.credit # 0, fullSince |-> 0]
    BY <1>3, <1>4, <1>5 DEF NewRunning
<1>7. (~CallerStreams(m)) \in BOOLEAN /\ (ctx.credit # 0) \in BOOLEAN
    OBVIOUS
<1>8. r \in Running
    BY <1>1, <1>6, <1>7 DEF Running
<1> QED
    BY <1>6, <1>8

LEMMA StatusTypes ==
    /\ {"OK", "CANCELLED", "DEADLINE_EXCEEDED", "UNIMPLEMENTED", "INVALID_ARGUMENT",
        "RESOURCE_EXHAUSTED", "UNAVAILABLE", "INTERNAL"} \subseteq Statuses
    /\ Failures \subseteq Statuses
    /\ \A s, f : Inflate(s, f) \in Statuses
    /\ \A s, k, f : RequestRefusal(s, k, f) \in Statuses
BY DEF Statuses, Inflate, RequestRefusal

\* A call is pending on the side that allocates its id, inflight on the other.
Apart(s, k, c) ==
    /\ Pending(k, c) => Allocates(s, c)
    /\ Inflight(k, c) => ~Allocates(s, c)

\* What frame f does to its own call.
Heard(s, k, l, f, t) ==
    LET c == f.call
    IN \/ /\ Kept(k, l, c, t)
          /\ f.kind \in LastKinds => ~Pending(k, c)
          /\ f.kind = "CANCEL" => ~Inflight(k, c)
          /\ f.kind = "REQUEST" =>
                Inflight(k, c) \/ (f.ctx.len > MaxCtxLen[s] /\ ~Owns(s, f.mid))
       \/ Answered(k, l, c) /\ f.kind \in LastKinds
       \/ Ended(s, k, l, c)
       \/ Started(k, l, c) /\ f.kind = "REQUEST"

\* The rest of what a message does.
Around(k, l, f) ==
    /\ l \in CoreType /\ Calm(k, l)
    /\ l.cur = k.cur
    /\ \A d \in l.todo : d \in k.todo \/ (d = f.call /\ Inflight(l, d))
    /\ \A d \in Calls : d # f.call => Same(k, l, d)

Delivered(s, k, l, f, t) == Around(k, l, f) /\ Heard(s, k, l, f, t)

LEMMA Nothing ==
    ASSUME NEW k \in CoreType, NEW f
    PROVE  Around(k, k, f) /\ \A c, t : Kept(k, k, c, t)
BY SameSelf, SameKept DEF Around, Calm

\* The ways a frame ends its call.
LEMMA EndedDelivered ==
    ASSUME NEW s \in Side, NEW k \in CoreType, NEW f, f.call \in Calls, NEW t, NEW l,
           l \in CoreType /\ Calm(k, l), l.todo = k.todo /\ l.cur = k.cur,
           Ended(s, k, l, f.call),
           \A d \in Calls : d # f.call => Same(k, l, d)
    PROVE  Delivered(s, k, l, f, t)
BY DEF Delivered, Around, Heard

LEMMA FinishDelivered ==
    ASSUME NEW s \in Side, NEW k \in CoreType, NEW f, NEW c \in Calls, c = f.call, NEW t,
           Inflight(k, c), NEW status \in Statuses, NEW l, l = FinishInflight(s, k, Only(c), status)
    PROVE  Delivered(s, k, l, f, t)
<1>1. /\ l \in CoreType /\ Calm(k, l)
      /\ l.todo = k.todo /\ l.cur = k.cur
      /\ Finished(s, k, l, c)
      /\ \A d \in Calls : d # c => Same(k, l, d)
    BY FinishOne
<1> QED
    BY <1>1, EndedDelivered DEF Ended

LEMMA AbandonDelivered ==
    ASSUME NEW s \in Side, NEW k \in CoreType, NEW f, NEW c \in Calls, c = f.call, NEW t,
           Pending(k, c), ~Inflight(k, c), NEW status \in Statuses,
           NEW l, l = AbandonPending(s, k, Only(c), status)
    PROVE  Delivered(s, k, l, f, t)
<1>1. /\ l \in CoreType /\ Calm(k, l)
      /\ l.todo = k.todo /\ l.cur = k.cur
      /\ Abandoned(s, k, l, c)
      /\ \A d \in Calls : d # c => Same(k, l, d)
    BY AbandonOne
<1> QED
    BY <1>1, EndedDelivered DEF Ended

LEMMA FailDelivered ==
    ASSUME NEW s \in Side, NEW k \in CoreType, NEW f, NEW c \in Calls, c = f.call, NEW t,
           ~Pending(k, c), ~Inflight(k, c), NEW status \in Statuses,
           NEW l, l = FailCall(s, k, c, status)
    PROVE  Delivered(s, k, l, f, t)
<1>1. /\ l \in CoreType /\ Calm(k, l)
      /\ l.todo = k.todo /\ l.cur = k.cur
      /\ Refused(s, k, l, c)
      /\ \A d \in Calls : d # c => Same(k, l, d)
    BY FailCallEffect
<1> QED
    BY <1>1, EndedDelivered DEF Ended

LEMMA SettleDelivered ==
    ASSUME NEW s \in Side, NEW k \in CoreType, NEW f, NEW c \in Calls, c = f.call, NEW t,
           f.kind \in LastKinds, NEW o \in Outcome, Terminates(o), NEW l, l = SettlePending(k, Only(c), o)
    PROVE  Delivered(s, k, l, f, t)
<1>1. /\ l \in CoreType /\ Calm(k, l)
      /\ l.todo = k.todo /\ l.cur = k.cur
      /\ Pending(k, c) => Answered(k, l, c)
      /\ ~Pending(k, c) => Same(k, l, c)
      /\ \A d \in Calls : d # c => Same(k, l, d)
    BY SettleOne
<1>2. Around(k, l, f)
    BY <1>1 DEF Around
<1>3. CASE Pending(k, c)
    BY <1>1, <1>2, <1>3 DEF Delivered, Heard
<1>4. CASE ~Pending(k, c)
    <2>1. Kept(k, l, c, t)
        BY <1>1, <1>4, SameKept
    <2>2. f.kind # "REQUEST" /\ f.kind # "CANCEL"
        BY DEF LastKinds
    <2> QED
        BY <1>2, <1>4, <2>1, <2>2 DEF Delivered, Heard
<1> QED
    BY <1>3, <1>4

LEMMA FailReceivedDelivered ==
    ASSUME NEW s \in Side, NEW k \in CoreType, NEW f, NEW c \in Calls, c = f.call, NEW t,
           NEW status \in Statuses, NEW l, l = FailReceived(s, k, c, status)
    PROVE  Delivered(s, k, l, f, t)
<1>1. /\ l \in CoreType /\ Calm(k, l)
      /\ l.todo = k.todo /\ l.cur = k.cur
      /\ Ended(s, k, l, c)
      /\ \A d \in Calls : d # c => Same(k, l, d)
    BY FailReceivedEffect
<1> QED
    BY <1>1, EndedDelivered

\* OnRequest starts a handler with record r.
Start(k, c, r) ==
    [k EXCEPT !.inflight = With(k.inflight, c, r), !.chain = [k.chain EXCEPT ![c] = k.chain[c] + 1],
              !.todo = {c}]

LEMMA StartEffect ==
    ASSUME NEW k \in CoreType, NEW c \in Calls, ~Inflight(k, c), NEW r \in Running, r.fullSince = 0,
           NEW l, l = Start(k, c, r)
    PROVE  /\ l \in CoreType /\ Calm(k, l)
           /\ l.cur = k.cur /\ l.todo = {c}
           /\ Inflight(l, c) /\ Started(k, l, c)
           /\ \A d \in Calls : d # c => Same(k, l, d)
<1>1. PICK inflight : inflight = With(k.inflight, c, r)
    OBVIOUS
<1>2. PICK chain : chain = [k.chain EXCEPT ![c] = k.chain[c] + 1]
    OBVIOUS
<1>3. /\ inflight \in Maps(Running) /\ inflight[c] = r
      /\ DOMAIN inflight = DOMAIN k.inflight \cup {c}
      /\ \A d \in DOMAIN k.inflight : d # c => inflight[d] = k.inflight[d]
    <2>1. PICK old \in Maps(Running) : old = k.inflight
        BY DEF CoreType
    <2>2. inflight = With(old, c, r)
        BY <1>1, <2>1
    <2>3. inflight \in Maps(Running)
        BY <2>2, WithMap
    <2>4. /\ DOMAIN inflight = DOMAIN k.inflight \cup {c} /\ inflight[c] = r
          /\ \A d \in DOMAIN k.inflight : d # c => inflight[d] = k.inflight[d]
        BY <1>1 DEF With
    <2> QED
        BY <2>3, <2>4
<1>4. /\ chain \in [Calls -> Int] /\ chain[c] = k.chain[c] + 1
      /\ \A d \in Calls : d # c => chain[d] = k.chain[d]
    <2>1. PICK old \in [Calls -> Int] : old = k.chain
        BY DEF CoreType
    <2>2. chain = [old EXCEPT ![c] = old[c] + 1]
        BY <1>2, <2>1
    <2>3. /\ chain \in [Calls -> Int] /\ chain[c] = old[c] + 1
          /\ \A d \in Calls : d # c => chain[d] = old[d]
        BY <2>2, AddOne
    <2> QED
        BY <2>1, <2>3
<1>5. /\ l \in CoreType /\ Calm(k, l) /\ l.inflight = inflight /\ l.chain = chain
      /\ l.cur = k.cur /\ l.todo = {c} /\ l.pending = k.pending /\ l.box = k.box
      /\ l.outcomes = k.outcomes /\ l.issued = k.issued /\ l.leftAt = k.leftAt
    BY <1>1, <1>2, <1>3, <1>4 DEF CoreType, Calm, Start
<1>6. Started(k, l, c)
    BY <1>3, <1>4, <1>5 DEF Started, SamePast, Pending, Inflight, Queue
<1>7. ASSUME NEW d \in Calls, d # c
      PROVE  Same(k, l, d)
    BY <1>3, <1>4, <1>5, <1>7
    DEF Same, Alike, SameLife, SamePast, SameClock, Pending, Inflight, Queue
<1> QED
    BY <1>5, <1>6, <1>7 DEF Started

LEMMA RefuseRequestIs ==
    ASSUME NEW s \in Side, NEW k \in CoreType, NEW c, NEW status
    PROVE  RefuseRequest(s, k, c, status) = FailCall(s, k, c, status)
<1>1. PICK chain \in [Calls -> Int] : chain = k.chain
    BY DEF CoreType
<1>2. Unwind(Enter(k.chain, c), {c}) = chain
    BY <1>1, EnterUnwound
<1>3. RefuseRequest(s, k, c, status) = FailCall(s, [k EXCEPT !.chain = chain], c, status)
    BY <1>2 DEF RefuseRequest
<1>4. [k EXCEPT !.chain = chain] = k
    BY <1>1 DEF CoreType
<1> QED
    BY <1>3, <1>4

LEMMA OnRequestEffect ==
    ASSUME NEW s \in Side, NEW k \in CoreType, NEW f \in Frame, NEW c \in Calls, c = f.call,
           f.kind = "REQUEST", ~Allocates(s, c), Apart(s, k, c), NEW t \in Nat,
           NEW answer \in Statuses, NEW l, l = OnRequest(s, k, f, t, answer)
    PROVE  Delivered(s, k, l, f, t)
<1>1. CASE Inflight(k, c)
    <2>1. l = k
        BY <1>1 DEF OnRequest, Inflight
    <2>2. f.kind \notin LastKinds /\ f.kind # "CANCEL"
        BY DEF LastKinds
    <2> QED
        BY <1>1, <2>1, <2>2, Nothing DEF Delivered, Heard
<1>2. CASE ~Inflight(k, c)
    <2>1. ~Pending(k, c)
        BY DEF Apart
    <2>2. CASE RequestRefusal(s, k, f) # "OK"
        <3>1. PICK status \in Statuses : status = RequestRefusal(s, k, f)
            BY StatusTypes
        <3>2. l = FailCall(s, k, c, status)
            BY <1>2, <2>2, <3>1 DEF OnRequest, Inflight
        <3> QED
            BY <1>2, <2>1, <3>2, FailDelivered
    <2>3. CASE RequestRefusal(s, k, f) = "OK" /\ answer # "OK"
        <3>1. l = FailCall(s, k, c, answer)
            BY <1>2, <2>3, RefuseRequestIs DEF OnRequest, Inflight
        <3> QED
            BY <1>2, <2>1, <3>1, FailDelivered
    <2>4. CASE RequestRefusal(s, k, f) = "OK" /\ answer = "OK" /\ Inflate(s, f) # "OK"
        <3>1. PICK status \in Statuses : status = Inflate(s, f)
            BY StatusTypes
        <3>2. l = FailCall(s, k, c, status)
            BY <1>2, <2>4, <3>1, RefuseRequestIs DEF OnRequest, Inflight
        <3> QED
            BY <1>2, <2>1, <3>2, FailDelivered
    <2>5. CASE RequestRefusal(s, k, f) = "OK" /\ answer = "OK" /\ Inflate(s, f) = "OK"
        <3>1. PICK m : m = Registry[s].methods[f.mid]
            OBVIOUS
        <3>2. f.mid \in DOMAIN Registry[s].methods
            BY <2>5 DEF RequestRefusal
        <3>3. m \in Method
            BY <3>1, <3>2, LinkConstants
        <3>4. PICK ctx \in Ctx : ctx = f.ctx
            BY DEF Frame
        <3>5. PICK r : r = NewRunning(m, ctx, t)
            OBVIOUS
        <3>6. r \in Running /\ r.fullSince = 0
            BY <3>3, <3>5, NewRunningType
        <3>7. l = Start(k, c, r)
            BY <1>2, <2>5, <3>1, <3>4, <3>5 DEF OnRequest, Inflight, Start, Enter
        <3>8. /\ l \in CoreType /\ Calm(k, l)
              /\ l.cur = k.cur /\ l.todo = {c}
              /\ Inflight(l, c) /\ Started(k, l, c)
              /\ \A d \in Calls : d # c => Same(k, l, d)
            BY <1>2, <3>6, <3>7, StartEffect
        <3> QED
            BY <3>8 DEF Delivered, Around, Heard
    <2> QED
        BY <2>2, <2>3, <2>4, <2>5
<1> QED
    BY <1>1, <1>2

LEMMA OnResponseEffect ==
    ASSUME NEW s \in Side, NEW k \in CoreType, NEW f \in Frame, NEW c \in Calls, c = f.call,
           f.kind = "RESPONSE", NEW t \in Nat, NEW l, l = OnResponse(k, f)
    PROVE  Delivered(s, k, l, f, t)
<1>1. f.kind \in LastKinds /\ f.kind # "REQUEST" /\ f.kind # "CANCEL"
    BY DEF LastKinds
<1>2. CASE ~Pending(k, c)
    <2>1. l = k
        BY <1>2 DEF OnResponse, Pending
    <2> QED
        BY <1>1, <1>2, <2>1, Nothing DEF Delivered, Heard
<1>3. CASE Pending(k, c)
    <2>1. PICK o \in Outcome : Terminates(o) /\ l = SettlePending(k, Only(c), o)
        <3>1. /\ Response \in Outcome /\ Terminates(Response)
              /\ Failed("INVALID_ARGUMENT") \in Outcome /\ Terminates(Failed("INVALID_ARGUMENT"))
            BY OutcomeTypes DEF Statuses
        <3>2. \/ l = SettlePending(k, Only(c), Response)
              \/ l = SettlePending(k, Only(c), Failed("INVALID_ARGUMENT"))
            BY <1>3 DEF OnResponse, Pending, Only
        <3> QED
            BY <3>1, <3>2
    <2> QED
        BY <1>1, <2>1, SettleDelivered
<1> QED
    BY <1>2, <1>3

LEMMA OnErrorEffect ==
    ASSUME NEW s \in Side, NEW k \in CoreType, NEW f \in Frame, NEW c \in Calls, c = f.call,
           f.kind = "ERROR", NEW t \in Nat, NEW l, l = OnError(s, k, f)
    PROVE  Delivered(s, k, l, f, t)
<1>1. PICK status \in Statuses :
        status = IF f.mid = Registry[s].error THEN f.status ELSE "INVALID_ARGUMENT"
    BY StatusTypes DEF Frame
<1>2. PICK o : o = Failed(status)
    OBVIOUS
<1>3. o \in Outcome /\ Terminates(o)
    BY <1>2, OutcomeTypes
<1>4. l = SettlePending(k, Only(c), o)
    BY <1>1, <1>2 DEF OnError, Only
<1>5. f.kind \in LastKinds
    BY DEF LastKinds
<1> QED
    BY <1>3, <1>4, <1>5, SettleDelivered

\* The handler is told: its record is heard, then it fails the call.
LEMMA HeardThenFinish ==
    ASSUME NEW s \in Side, NEW k \in CoreType, NEW f, NEW c \in Calls, c = f.call, NEW t \in Nat,
           Inflight(k, c), NEW status \in Statuses,
           NEW m, m = Told(k, c, t),
           NEW l, l = FinishInflight(s, m, Only(c), status)
    PROVE  Delivered(s, k, l, f, t)
<1>1. /\ m \in CoreType /\ Calm(k, m)
      /\ m.todo = k.todo /\ m.cur = k.cur
      /\ Inflight(m, c)
      /\ \A d \in Calls : Same(k, m, d)
    BY HeardEffect
<1>2. m \in CoreType /\ Inflight(m, c)
    BY <1>1
<1>3. /\ l \in CoreType /\ Calm(m, l)
      /\ l.todo = m.todo /\ l.cur = m.cur
      /\ Finished(s, m, l, c)
      /\ \A d \in Calls : d # c => Same(m, l, d)
    BY <1>2, FinishOne
<1>4. Finished(s, k, l, c)
    <2>1. Alike(k, m, c)
        BY <1>1 DEF Same
    <2> QED
        BY <1>3, <2>1, AlikeThenFinished
<1>5. \A d \in Calls : d # c => Same(k, l, d)
    BY <1>1, <1>3, SameThenSame
<1>6. Calm(k, l) /\ l.todo = k.todo /\ l.cur = k.cur
    BY <1>1, <1>3 DEF Calm
<1> QED
    BY <1>3, <1>4, <1>5, <1>6, EndedDelivered DEF Ended

\* ... or goes on, and may be due a poll.
LEMMA HeardThenTold ==
    ASSUME NEW s \in Side, NEW k \in CoreType, NEW f, NEW c \in Calls, c = f.call, NEW t \in Nat,
           Inflight(k, c), ~Pending(k, c), f.kind \notin {"CANCEL", "REQUEST"},
           NEW m, Calm(k, m), m.todo = k.todo, m.cur = k.cur, Inflight(m, c),
           \A d \in Calls : Same(k, m, d),
           NEW l, l \in CoreType, Calm(m, l), l.todo = m.todo \/ l.todo = {c}, l.cur = m.cur,
           Inflight(l, c),
           \A d \in Calls : Same(m, l, d)
    PROVE  Delivered(s, k, l, f, t)
<1>1. \A d \in Calls : Same(k, l, d)
    BY SameThenSame
<1>2. Around(k, l, f)
    BY <1>1 DEF Around, Calm
<1>3. Kept(k, l, c, t)
    BY <1>1, SameKept
<1> QED
    BY <1>2, <1>3 DEF Delivered, Heard

LEMMA OnCallerItemEffect ==
    ASSUME NEW s \in Side, NEW k \in CoreType, NEW f \in Frame, NEW c \in Calls, c = f.call,
           f.kind = "ITEM", Inflight(k, c), ~Pending(k, c), NEW t \in Nat,
           NEW answer \in Statuses, NEW l, l = OnCallerItem(s, k, f, t, answer)
    PROVE  Delivered(s, k, l, f, t)
<1>1. PICK m : m = Told(k, c, t)
    OBVIOUS
<1>2. /\ m \in CoreType /\ Calm(k, m)
      /\ m.todo = k.todo /\ m.cur = k.cur
      /\ Inflight(m, c)
      /\ \A d \in Calls : Same(k, m, d)
    BY <1>1, HeardEffect
<1>3. "INVALID_ARGUMENT" \in Statuses
    BY StatusTypes
<1>4. \/ l = FinishInflight(s, m, Only(c), "INVALID_ARGUMENT")
      \/ l = FinishInflight(s, m, Only(c), answer)
      \/ l = m
      \/ l = [m EXCEPT !.got[c] = Append(@, f.n), !.todo = {c}]
    BY <1>1 DEF OnCallerItem, Only, Told
<1>5. CASE l = FinishInflight(s, m, Only(c), "INVALID_ARGUMENT")
    BY <1>1, <1>3, <1>5, HeardThenFinish
<1>6. CASE l = FinishInflight(s, m, Only(c), answer)
    BY <1>1, <1>6, HeardThenFinish
<1>7. f.kind \notin {"CANCEL", "REQUEST"}
    OBVIOUS
<1>8. CASE l = m
    <2>1. l \in CoreType /\ Calm(m, l) /\ Inflight(l, c) /\ \A d \in Calls : Same(m, l, d)
        BY <1>2, <1>8, SameSelf DEF Calm
    <2>2. l.todo = m.todo /\ l.cur = m.cur
        BY <1>8
    <2> QED
        BY <1>2, <1>7, <2>1, <2>2, HeardThenTold
<1>9. CASE l = [m EXCEPT !.got[c] = Append(@, f.n), !.todo = {c}]
    <2>1. PICK got : got = [m.got EXCEPT ![c] = Append(m.got[c], f.n)]
        OBVIOUS
    <2>2. m.got \in [Calls -> Seq(Nat)]
        BY <1>2 DEF CoreType
    <2>3. f.n \in Nat
        BY DEF Frame
    <2>4. got \in [Calls -> Seq(Nat)]
        BY <2>1, <2>2, <2>3
    <2>5. l = [m EXCEPT !.got = got, !.todo = {c}]
        BY <1>9, <2>1
    <2>6. /\ l \in CoreType /\ Calm(m, l)
          /\ l.todo = {c} /\ l.cur = m.cur
          /\ l.pending = m.pending /\ l.inflight = m.inflight /\ l.box = m.box
          /\ l.outcomes = m.outcomes /\ l.chain = m.chain /\ l.issued = m.issued /\ l.leftAt = m.leftAt
        <3>1. m \in CoreType /\ {c} \in SUBSET Calls
            BY <1>2
        <3> QED
            BY <2>4, <2>5, <3>1 DEF CoreType, Calm
    <2>7. \A d \in Calls : Same(m, l, d)
        BY <2>6, Aside
    <2>8. Inflight(l, c)
        BY <1>2, <2>6 DEF Inflight
    <2> QED
        BY <1>2, <1>7, <2>6, <2>7, <2>8, HeardThenTold
<1> QED
    BY <1>4, <1>5, <1>6, <1>8, <1>9

LEMMA OnItemEffect ==
    ASSUME NEW s \in Side, NEW k \in CoreType, NEW f \in Frame, NEW c \in Calls, c = f.call,
           f.kind = "ITEM", Apart(s, k, c), NEW t \in Nat,
           NEW answer \in Statuses, NEW l, l = OnItem(s, k, f, t, answer)
    PROVE  Delivered(s, k, l, f, t)
<1>1. f.kind \notin LastKinds /\ f.kind \notin {"CANCEL", "REQUEST"}
    BY DEF LastKinds
<1>2. CASE Inflight(k, c)
    <2>1. l = OnCallerItem(s, k, f, t, answer) /\ ~Pending(k, c)
        BY <1>2 DEF OnItem, Inflight, Apart
    <2> QED
        BY <1>2, <2>1, OnCallerItemEffect
<1>3. CASE ~Inflight(k, c) /\ ~Pending(k, c)
    <2>1. l = k
        BY <1>3 DEF OnItem, Inflight, Pending
    <2> QED
        BY <1>1, <1>3, <2>1, Nothing DEF Delivered, Heard
<1>4. CASE ~Inflight(k, c) /\ Pending(k, c)
    <2>1. \/ l = AbandonPending(s, k, Only(c), "INVALID_ARGUMENT")
          \/ l = [k EXCEPT !.outcomes[c] = Append(@, ItemOutcome(f.n))]
        BY <1>4 DEF OnItem, Inflight, Pending, Only
    <2>2. CASE l = AbandonPending(s, k, Only(c), "INVALID_ARGUMENT")
        <3>1. "INVALID_ARGUMENT" \in Statuses
            BY StatusTypes
        <3> QED
            BY <1>4, <2>2, <3>1, AbandonDelivered
    <2>3. CASE l = [k EXCEPT !.outcomes[c] = Append(@, ItemOutcome(f.n))]
        <3>1. PICK n \in Nat : n = f.n
            BY DEF Frame
        <3>2. PICK o \in Outcome : o = ItemOutcome(n)
            BY OutcomeTypes
        <3>3. PICK outs : outs = [k.outcomes EXCEPT ![c] = Append(k.outcomes[c], o)]
            OBVIOUS
        <3>4. k.outcomes \in [Calls -> Seq(Outcome)]
            BY DEF CoreType
        <3>5. /\ outs \in [Calls -> Seq(Outcome)] /\ outs[c] = Append(k.outcomes[c], o)
              /\ \A d \in Calls : d # c => outs[d] = k.outcomes[d]
            BY <3>3, <3>4
        <3>6. l = [k EXCEPT !.outcomes = outs]
            BY <2>3, <3>1, <3>2, <3>3
        <3>7. /\ l \in CoreType /\ Calm(k, l) /\ l.outcomes = outs
              /\ l.todo = k.todo /\ l.cur = k.cur
              /\ l.pending = k.pending /\ l.inflight = k.inflight /\ l.box = k.box
              /\ l.chain = k.chain /\ l.issued = k.issued /\ l.leftAt = k.leftAt
            BY <3>5, <3>6 DEF CoreType, Calm
        <3>8. ASSUME NEW d \in Calls, d # c
              PROVE  Same(k, l, d)
            BY <3>5, <3>7, <3>8
            DEF Same, Alike, SameLife, SamePast, SameClock, Pending, Inflight, Queue
        <3>9. Kept(k, l, c, t)
            <4>1. SameLife(k, l, c) /\ SamePast(k, l, c) /\ Queue(l, c) = Queue(k, c)
                BY <3>7 DEF SameLife, SamePast, Pending, Inflight, Queue
            <4>2. \E i \in Nat : l.outcomes[c] = Append(k.outcomes[c], ItemOutcome(i))
                BY <3>2, <3>5, <3>7
            <4> QED
                BY <1>4, <3>7, <4>1, <4>2 DEF Kept
        <3>10. Around(k, l, f)
            BY <3>7, <3>8 DEF Around
        <3> QED
            BY <1>1, <3>9, <3>10 DEF Delivered, Heard
    <2> QED
        BY <2>1, <2>2, <2>3
<1> QED
    BY <1>2, <1>3, <1>4

LEMMA OnCallerEndEffect ==
    ASSUME NEW s \in Side, NEW k \in CoreType, NEW f \in Frame, NEW c \in Calls, c = f.call,
           f.kind = "END", Inflight(k, c), ~Pending(k, c), NEW t \in Nat,
           NEW answer \in Statuses, NEW l, l = OnCallerEnd(s, k, f, t, answer)
    PROVE  Delivered(s, k, l, f, t)
<1>1. PICK m : m = Told(k, c, t)
    OBVIOUS
<1>2. /\ m \in CoreType /\ Calm(k, m)
      /\ m.todo = k.todo /\ m.cur = k.cur
      /\ Inflight(m, c)
      /\ \A d \in Calls : Same(k, m, d)
    BY <1>1, HeardEffect
<1>3. "INVALID_ARGUMENT" \in Statuses
    BY StatusTypes
<1>4. \/ l = FinishInflight(s, m, Only(c), "INVALID_ARGUMENT")
      \/ l = FinishInflight(s, m, Only(c), answer)
      \/ l = m
      \/ l = [m EXCEPT !.inflight[c].inboundClosed = TRUE, !.todo = {c}]
    BY <1>1 DEF OnCallerEnd, Only, Told
<1>5. CASE l = FinishInflight(s, m, Only(c), "INVALID_ARGUMENT")
    BY <1>1, <1>3, <1>5, HeardThenFinish
<1>6. CASE l = FinishInflight(s, m, Only(c), answer)
    BY <1>1, <1>6, HeardThenFinish
<1>7. f.kind \notin {"CANCEL", "REQUEST"}
    OBVIOUS
<1>8. CASE l = m
    <2>1. l \in CoreType /\ Calm(m, l) /\ Inflight(l, c) /\ \A d \in Calls : Same(m, l, d)
        BY <1>2, <1>8, SameSelf DEF Calm
    <2>2. l.todo = m.todo /\ l.cur = m.cur
        BY <1>8
    <2> QED
        BY <1>2, <1>7, <2>1, <2>2, HeardThenTold
<1>9. CASE l = [m EXCEPT !.inflight[c].inboundClosed = TRUE, !.todo = {c}]
    <2>1. m \in CoreType /\ Inflight(m, c)
        BY <1>2
    <2>2. m.inflight[c] \in Running
        BY <2>1, InflightInCalls DEF Inflight
    <2>3. PICK r \in Running : /\ r = [m.inflight[c] EXCEPT !.inboundClosed = TRUE]
                               /\ r.fullSince = m.inflight[c].fullSince
        BY <2>2, RunningTypes
    <2>4. PICK u : u = SetRunning(m, c, r)
        OBVIOUS
    <2>5. r.fullSince = m.inflight[c].fullSince
        BY <2>3
    <2>6. /\ u \in CoreType /\ Calm(m, u)
          /\ u.todo = m.todo /\ u.cur = m.cur
          /\ DOMAIN u.inflight = DOMAIN m.inflight
          /\ \A d \in Calls : Same(m, u, d)
        BY <2>1, <2>4, <2>5, RunningSame
    <2>7. l = [u EXCEPT !.todo = {c}]
        BY <1>9, <2>1, <2>3, <2>4 DEF SetRunning, CoreType
    <2>8. /\ l \in CoreType /\ Calm(u, l)
          /\ l.todo = {c} /\ l.cur = u.cur
          /\ l.pending = u.pending /\ l.inflight = u.inflight /\ l.box = u.box
          /\ l.outcomes = u.outcomes /\ l.chain = u.chain /\ l.issued = u.issued /\ l.leftAt = u.leftAt
        <3>1. u \in CoreType /\ {c} \in SUBSET Calls
            BY <2>6
        <3> QED
            BY <2>7, <3>1 DEF CoreType, Calm
    <2>9. \A d \in Calls : Same(m, l, d)
        <3>1. \A d \in Calls : Same(u, l, d)
            BY <2>8, Aside
        <3> QED
            BY <2>6, <3>1, SameThenSame
    <2>10. Inflight(l, c) /\ Calm(m, l) /\ l.cur = m.cur
        BY <2>1, <2>6, <2>8 DEF Inflight, Calm
    <2>11. l \in CoreType /\ l.todo = {c}
        BY <2>8
    <2> QED
        BY <1>2, <1>7, <2>9, <2>10, <2>11, HeardThenTold
<1> QED
    BY <1>4, <1>5, <1>6, <1>8, <1>9

LEMMA OnEndEffect ==
    ASSUME NEW s \in Side, NEW k \in CoreType, NEW f \in Frame, NEW c \in Calls, c = f.call,
           f.kind = "END", Apart(s, k, c), NEW t \in Nat,
           NEW answer \in Statuses, NEW l, l = OnEnd(s, k, f, t, answer)
    PROVE  Delivered(s, k, l, f, t)
<1>1. f.kind \in LastKinds /\ f.kind # "CANCEL" /\ f.kind # "REQUEST"
    BY DEF LastKinds
<1>2. CASE Inflight(k, c)
    <2>1. l = OnCallerEnd(s, k, f, t, answer) /\ ~Pending(k, c)
        BY <1>2 DEF OnEnd, Inflight, Apart
    <2> QED
        BY <1>2, <2>1, OnCallerEndEffect
<1>3. CASE ~Inflight(k, c) /\ ~Pending(k, c)
    <2>1. l = k
        BY <1>3 DEF OnEnd, Inflight, Pending
    <2> QED
        BY <1>1, <1>3, <2>1, Nothing DEF Delivered, Heard
<1>4. CASE ~Inflight(k, c) /\ Pending(k, c)
    <2>1. \/ l = AbandonPending(s, k, Only(c), "INVALID_ARGUMENT")
          \/ l = SettlePending(k, Only(c), EndOutcome)
        BY <1>4 DEF OnEnd, Inflight, Pending, Only
    <2>2. CASE l = AbandonPending(s, k, Only(c), "INVALID_ARGUMENT")
        <3>1. "INVALID_ARGUMENT" \in Statuses
            BY StatusTypes
        <3> QED
            BY <1>4, <2>2, <3>1, AbandonDelivered
    <2>3. CASE l = SettlePending(k, Only(c), EndOutcome)
        <3>1. EndOutcome \in Outcome /\ Terminates(EndOutcome)
            BY OutcomeTypes
        <3> QED
            BY <1>1, <2>3, <3>1, SettleDelivered
    <2> QED
        BY <2>1, <2>2, <2>3
<1> QED
    BY <1>2, <1>3, <1>4

LEMMA OnCancelEffect ==
    ASSUME NEW s \in Side, NEW k \in CoreType, NEW f \in Frame, NEW c \in Calls, c = f.call,
           f.kind = "CANCEL", NEW t \in Nat, NEW l, l = OnCancel(s, k, f)
    PROVE  Delivered(s, k, l, f, t)
<1>1. f.kind \notin LastKinds /\ f.kind # "REQUEST"
    BY DEF LastKinds
<1>2. CASE ~Inflight(k, c)
    <2>1. l = k
        BY <1>2 DEF OnCancel, Inflight
    <2> QED
        BY <1>1, <1>2, <2>1, Nothing DEF Delivered, Heard
<1>3. CASE Inflight(k, c)
    <2>1. PICK status \in Statuses :
            status = IF f.mid = Registry[s].void THEN "CANCELLED" ELSE "INVALID_ARGUMENT"
        BY StatusTypes
    <2>2. l = FinishInflight(s, k, Only(c), status)
        BY <1>3, <2>1 DEF OnCancel, Inflight, Only
    <2> QED
        BY <1>3, <2>2, FinishDelivered
<1> QED
    BY <1>2, <1>3

LEMMA KeptDelivered ==
    ASSUME NEW s \in Side, NEW k \in CoreType, NEW f, NEW c \in Calls, c = f.call, NEW t \in Nat,
           f.kind = "CREDIT", NEW l, l \in CoreType, Calm(k, l), l.todo = k.todo, l.cur = k.cur,
           \A d \in Calls : Same(k, l, d)
    PROVE  Delivered(s, k, l, f, t)
<1>1. f.kind \notin LastKinds /\ f.kind # "REQUEST" /\ f.kind # "CANCEL"
    BY DEF LastKinds
<1>2. Kept(k, l, c, t)
    BY SameKept
<1>3. Around(k, l, f)
    BY DEF Around
<1> QED
    BY <1>1, <1>2, <1>3 DEF Delivered, Heard

\* The two records OnCredit may change.
CreditRunning(k, c, t, n) ==
    [k EXCEPT !.inflight[c].lastHeard = t,
              !.inflight[c].credit = SaturatingAdd(@, n),
              !.inflight[c].established = TRUE]
CreditWaiting(k, c, n) ==
    [k EXCEPT !.pending[c].credit = SaturatingAdd(@, n),
              !.pending[c].established = TRUE]

LEMMA CreditRunningEffect ==
    ASSUME NEW k \in CoreType, NEW c \in Calls, Inflight(k, c), NEW t \in Nat, NEW n \in Nat,
           NEW l, l = CreditRunning(k, c, t, n)
    PROVE  /\ l \in CoreType /\ Calm(k, l)
           /\ l.todo = k.todo /\ l.cur = k.cur
           /\ \A d \in Calls : Same(k, l, d)
<1>1. PICK r \in Running : r = k.inflight[c]
    BY InflightInCalls DEF Inflight
<1>2. r.credit \in 0..MaxU32
    BY DEF Running
<1>3. PICK a \in 0..MaxU32 : a = SaturatingAdd(r.credit, n)
    BY <1>2, SaturatingAddType
<1>4. PICK v : v = [r EXCEPT !.lastHeard = t, !.credit = a, !.established = TRUE]
    OBVIOUS
<1>5. v \in Running /\ v.fullSince = r.fullSince
    BY <1>4 DEF Running
<1>6. l = SetRunning(k, c, v)
    <2>1. k.inflight \in [DOMAIN k.inflight -> Running] /\ c \in DOMAIN k.inflight
        BY MapsMember DEF CoreType, Inflight
    <2> QED
        BY ZenonT(60), <1>1, <1>3, <1>4, <2>1 DEF CreditRunning, SetRunning, CoreType, Running
<1>7. v.fullSince = k.inflight[c].fullSince
    BY <1>1, <1>5
<1> QED
    BY <1>5, <1>6, <1>7, RunningSame

LEMMA CreditWaitingEffect ==
    ASSUME NEW k \in CoreType, NEW c \in Calls, Pending(k, c), NEW n \in Nat,
           NEW l, l = CreditWaiting(k, c, n)
    PROVE  /\ l \in CoreType /\ Calm(k, l)
           /\ l.todo = k.todo /\ l.cur = k.cur
           /\ \A d \in Calls : Same(k, l, d)
<1>1. PICK w \in Waiting : w = k.pending[c]
    BY PendingInCalls DEF Pending
<1>2. w.credit \in 0..MaxU32
    BY DEF Waiting
<1>3. PICK a \in 0..MaxU32 : a = SaturatingAdd(w.credit, n)
    BY <1>2, SaturatingAddType
<1>4. PICK v : v = [w EXCEPT !.credit = a, !.established = TRUE]
    OBVIOUS
<1>5. v \in Waiting
    BY <1>4 DEF Waiting
<1>6. l = [k EXCEPT !.pending = [k.pending EXCEPT ![c] = v]]
    <2>1. k.pending \in [DOMAIN k.pending -> Waiting] /\ c \in DOMAIN k.pending
        BY MapsMember DEF CoreType, Pending
    <2> QED
        BY <1>1, <1>3, <1>4, <2>1 DEF CreditWaiting, CoreType, Waiting
<1> QED
    BY <1>5, <1>6, WaitingChanged

LEMMA OnCreditEffect ==
    ASSUME NEW s \in Side, NEW k \in CoreType, NEW f \in Frame, NEW c \in Calls, c = f.call,
           f.kind = "CREDIT", Apart(s, k, c), NEW t \in Nat, NEW l, l = OnCredit(s, k, f, t)
    PROVE  Delivered(s, k, l, f, t)
<1>1. PICK n \in Nat : n = f.n
    BY DEF Frame
<1>2. "INVALID_ARGUMENT" \in Statuses
    BY StatusTypes
<1>3. \/ l = k
      \/ l = FinishInflight(s, k, Only(c), "INVALID_ARGUMENT") /\ Inflight(k, c)
      \/ l = AbandonPending(s, k, Only(c), "INVALID_ARGUMENT") /\ ~Inflight(k, c) /\ Pending(k, c)
      \/ l = CreditRunning(k, c, t, n) /\ Inflight(k, c)
      \/ l = CreditWaiting(k, c, n) /\ Pending(k, c)
    BY <1>1 DEF OnCredit, CreditRunning, CreditWaiting, Inflight, Pending, Only
<1>4. CASE l = k
    <2>1. Calm(k, l) /\ l \in CoreType /\ l.todo = k.todo /\ l.cur = k.cur
        BY <1>4 DEF Calm
    <2>2. \A d \in Calls : Same(k, l, d)
        BY <1>4, SameSelf
    <2> QED
        BY <2>1, <2>2, KeptDelivered
<1>5. CASE l = FinishInflight(s, k, Only(c), "INVALID_ARGUMENT") /\ Inflight(k, c)
    BY <1>2, <1>5, FinishDelivered
<1>6. CASE l = AbandonPending(s, k, Only(c), "INVALID_ARGUMENT") /\ ~Inflight(k, c) /\ Pending(k, c)
    BY <1>2, <1>6, AbandonDelivered
<1>7. CASE l = CreditRunning(k, c, t, n) /\ Inflight(k, c)
    <2>1. /\ l \in CoreType /\ Calm(k, l)
          /\ l.todo = k.todo /\ l.cur = k.cur
          /\ \A d \in Calls : Same(k, l, d)
        BY <1>7, CreditRunningEffect
    <2> QED
        BY <2>1, KeptDelivered
<1>8. CASE l = CreditWaiting(k, c, n) /\ Pending(k, c)
    <2>1. /\ l \in CoreType /\ Calm(k, l)
          /\ l.todo = k.todo /\ l.cur = k.cur
          /\ \A d \in Calls : Same(k, l, d)
        BY <1>8, CreditWaitingEffect
    <2> QED
        BY <2>1, KeptDelivered
<1> QED
    BY <1>3, <1>4, <1>5, <1>6, <1>7, <1>8

\* Every frame a peer can send is dealt with in one of the ways of Heard.
LEMMA OnMessageEffect ==
    ASSUME NEW s \in Side, NEW k \in CoreType, NEW c \in Calls, NEW f \in FrameFrom(Peer(s), c),
           Apart(s, k, c), NEW t \in Nat, NEW answer \in {"OK"} \cup Failures,
           NEW l, l = OnMessage(s, k, f, t, answer)
    PROVE  Delivered(s, k, l, f, t)
<1>1. f \in Frame /\ c = f.call
    BY DEF FrameFrom
<1>2. answer \in Statuses
    BY StatusTypes
<1>3. f.kind = "REQUEST" => ~Allocates(s, c)
    BY PeerSide, OneAllocates DEF FrameFrom
<1>4. MaxCtxLen[s] \in Nat
    BY LinkConstants
<1>5. CASE f.ctx.len > MaxCtxLen[s]
    <2>1. f.kind = "REQUEST"
        BY <1>4, <1>5 DEF FrameFrom
    <2>2. CASE Owns(s, f.mid)
        <3>1. "INTERNAL" \in Statuses
            BY StatusTypes
        <3>2. l = FailReceived(s, k, c, "INTERNAL")
            BY <1>1, <1>5, <2>2 DEF OnMessage
        <3> QED
            BY <1>1, <3>1, <3>2, FailReceivedDelivered
    <2>3. CASE ~Owns(s, f.mid)
        <3>1. l = k
            BY <1>5, <2>3 DEF OnMessage
        <3>2. f.kind \notin LastKinds /\ f.kind # "CANCEL"
            BY <2>1 DEF LastKinds
        <3> QED
            BY <1>5, <2>1, <2>3, <3>1, <3>2, Nothing DEF Delivered, Heard
    <2> QED
        BY <2>2, <2>3
<1>6. CASE ~(f.ctx.len > MaxCtxLen[s]) /\ f.kind # "REQUEST" /\ Inflate(s, f) # "OK"
    <2>1. PICK status \in Statuses : status = Inflate(s, f)
        BY StatusTypes
    <2>2. l = FailReceived(s, k, c, status)
        BY <1>1, <1>6, <2>1 DEF OnMessage
    <2> QED
        BY <1>1, <2>2, FailReceivedDelivered
<1>7. CASE ~(f.ctx.len > MaxCtxLen[s]) /\ ~(f.kind # "REQUEST" /\ Inflate(s, f) # "OK")
    <2>1. f.kind \in {"REQUEST", "RESPONSE", "ERROR", "ITEM", "END", "CANCEL", "CREDIT"}
        BY <1>1 DEF Frame, Kinds
    <2>2. CASE f.kind = "REQUEST"
        <3>1. l = OnRequest(s, k, f, t, answer)
            BY <1>7, <2>2 DEF OnMessage
        <3> QED
            BY <1>1, <1>2, <1>3, <2>2, <3>1, OnRequestEffect
    <2>3. CASE f.kind = "RESPONSE"
        <3>1. l = OnResponse(k, f)
            BY <1>7, <2>3 DEF OnMessage
        <3> QED
            BY <1>1, <2>3, <3>1, OnResponseEffect
    <2>4. CASE f.kind = "ERROR"
        <3>1. l = OnError(s, k, f)
            BY <1>7, <2>4 DEF OnMessage
        <3> QED
            BY <1>1, <2>4, <3>1, OnErrorEffect
    <2>5. CASE f.kind = "ITEM"
        <3>1. l = OnItem(s, k, f, t, answer)
            BY <1>7, <2>5 DEF OnMessage
        <3> QED
            BY <1>1, <1>2, <2>5, <3>1, OnItemEffect
    <2>6. CASE f.kind = "END"
        <3>1. l = OnEnd(s, k, f, t, answer)
            BY <1>7, <2>6 DEF OnMessage
        <3> QED
            BY <1>1, <1>2, <2>6, <3>1, OnEndEffect
    <2>7. CASE f.kind = "CANCEL"
        <3>1. l = OnCancel(s, k, f)
            BY <1>7, <2>7 DEF OnMessage
        <3> QED
            BY <1>1, <2>7, <3>1, OnCancelEffect
    <2>8. CASE f.kind = "CREDIT"
        <3>1. l = OnCredit(s, k, f, t)
            BY <1>7, <2>8 DEF OnMessage
        <3> QED
            BY <1>1, <2>8, <3>1, OnCreditEffect
    <2> QED
        BY <2>1, <2>2, <2>3, <2>4, <2>5, <2>6, <2>7, <2>8
<1> QED
    BY <1>5, <1>6, <1>7

-----------------------------------------------------------------------------
\* Time, and the polling of handlers.

LEMMA TickEffect ==
    ASSUME NEW s \in Side, NEW k \in CoreType, \A c \in Calls : Apart(s, k, c), NEW t \in Nat,
           NEW l, l = Tick(s, k, t)
    PROVE  /\ l \in CoreType /\ Calm(k, l)
           /\ l.cur = k.cur /\ l.todo = DOMAIN l.inflight
           /\ \A d \in Calls : \/ Same(k, l, d)
                               \/ Abandoned(s, k, l, d) /\ ~Inflight(k, d)
                               \/ Finished(s, k, l, d)
<1>1. "DEADLINE_EXCEEDED" \in Statuses
    BY StatusTypes
<1>2. PICK P \in SUBSET DOMAIN k.pending : P = {c \in DOMAIN k.pending : Due(k.pending[c].deadline, t)}
    OBVIOUS
<1>3. PICK m : m = AbandonPending(s, k, P, "DEADLINE_EXCEEDED")
    OBVIOUS
<1>4. /\ m \in CoreType /\ Calm(k, m)
      /\ m.todo = k.todo /\ m.cur = k.cur /\ m.inflight = k.inflight
      /\ \A d \in Calls : IF d \in P THEN Abandoned(s, k, m, d) ELSE Same(k, m, d)
    BY <1>1, <1>3, AbandonPendingEffect
<1>5. PICK Q \in SUBSET DOMAIN m.inflight : Q = {c \in DOMAIN m.inflight : Due(NextExpiry(m.inflight[c]), t)}
    OBVIOUS
<1>6. PICK u : u = FinishInflight(s, m, Q, "DEADLINE_EXCEEDED")
    OBVIOUS
<1>7. /\ u \in CoreType /\ Calm(m, u)
      /\ u.todo = m.todo /\ u.cur = m.cur
      /\ \A d \in Calls : IF d \in Q THEN Finished(s, m, u, d) ELSE Same(m, u, d)
    <2>1. m \in CoreType
        BY <1>4
    <2> QED
        BY <1>1, <1>6, <2>1, FinishInflightEffect
<1>8. l = [u EXCEPT !.todo = DOMAIN u.inflight]
    BY <1>2, <1>3, <1>5, <1>6 DEF Tick, ExpirePending, ExpireInflight
<1>9. /\ l \in CoreType /\ Calm(u, l)
      /\ l.todo = DOMAIN u.inflight /\ l.cur = u.cur
      /\ l.pending = u.pending /\ l.inflight = u.inflight /\ l.box = u.box
      /\ l.outcomes = u.outcomes /\ l.chain = u.chain /\ l.issued = u.issued /\ l.leftAt = u.leftAt
    <2>1. u \in CoreType
        BY <1>7
    <2>2. DOMAIN u.inflight \in SUBSET Calls
        BY <2>1, InflightInCalls
    <2> QED
        BY <1>8, <2>1, <2>2 DEF CoreType, Calm
<1>10. \A d \in Calls : Same(u, l, d)
    BY <1>9, Aside
<1>11. ASSUME NEW d \in Calls
       PROVE  \/ Same(k, l, d)
              \/ Abandoned(s, k, l, d) /\ ~Inflight(k, d)
              \/ Finished(s, k, l, d)
    <2>1. CASE d \in P
        <3>1. Abandoned(s, k, m, d) /\ ~Inflight(k, d)
            BY <1>4, <2>1 DEF Apart, Abandoned, Settled
        <3>2. d \notin Q
            BY <1>4, <3>1 DEF Inflight
        <3>3. Same(m, u, d) /\ Same(u, l, d)
            BY <1>7, <1>10, <3>2
        <3> QED
            BY <3>1, <3>3, SettledThenSame
    <2>2. CASE d \notin P /\ d \in Q
        <3>1. Alike(k, m, d) /\ Finished(s, m, u, d) /\ Same(u, l, d)
            BY <1>4, <1>7, <1>10, <2>2 DEF Same
        <3> QED
            BY <3>1, AlikeThenFinished, FinishedThenSame
    <2>3. CASE d \notin P /\ d \notin Q
        BY <1>4, <1>7, <1>10, <2>3, SameThenSame
    <2> QED
        BY <2>1, <2>2, <2>3
<1> QED
    BY <1>4, <1>7, <1>9, <1>11 DEF Calm

\* pollOne begins.
Turn(k, c) == [k EXCEPT !.todo = @ \ {c}, !.cur = c]

LEMMA TurnEffect ==
    ASSUME NEW k \in CoreType, NEW c \in Calls, NEW l, l = Turn(k, c)
    PROVE  /\ l \in CoreType /\ Calm(k, l)
           /\ l.todo = k.todo \ {c} /\ l.cur = c /\ l.pending = k.pending /\ l.inflight = k.inflight
           /\ \A d \in Calls : Same(k, l, d)
<1>1. PICK todo : todo = k.todo \ {c}
    OBVIOUS
<1>2. todo \in SUBSET Calls
    BY <1>1 DEF CoreType
<1>3. l = [k EXCEPT !.todo = todo, !.cur = c]
    BY <1>1 DEF Turn
<1>4. /\ l \in CoreType /\ Calm(k, l)
      /\ l.todo = todo /\ l.cur = c
      /\ l.pending = k.pending /\ l.inflight = k.inflight /\ l.box = k.box
      /\ l.outcomes = k.outcomes /\ l.chain = k.chain /\ l.issued = k.issued /\ l.leftAt = k.leftAt
    BY <1>2, <1>3 DEF CoreType, Calm
<1>5. \A d \in Calls : Same(k, l, d)
    BY <1>4, Aside
<1> QED
    BY <1>1, <1>4, <1>5

LEMMA StartPollEffect ==
    ASSUME NEW s \in Side, NEW k \in CoreType, NEW c \in Calls, Inflight(k, c), NEW items \in Nat,
           NEW t, NEW l, l = StartPoll(s, k, c, items)
    PROVE  /\ l \in CoreType /\ Calm(k, l)
           /\ l.todo = k.todo \ {c} /\ l.cur = c /\ l.inflight = k.inflight
           /\ \A d \in Calls : Kept(k, l, d, t)
<1>1. PICK m : m = Turn(k, c)
    OBVIOUS
<1>2. /\ m \in CoreType /\ Calm(k, m)
      /\ m.todo = k.todo \ {c} /\ m.cur = c /\ m.pending = k.pending /\ m.inflight = k.inflight
      /\ \A d \in Calls : Same(k, m, d)
    BY <1>1, TurnEffect
<1>3. l = m \/ l = Grant(m, c, items)
    BY <1>1 DEF StartPoll, Turn
<1>4. CASE l = m
    BY <1>2, <1>4, SameKept
<1>5. CASE l = Grant(m, c, items)
    <2>1. m \in CoreType /\ Inflight(m, c)
        BY <1>2 DEF Inflight
    <2>2. /\ l \in CoreType /\ Calm(m, l)
          /\ l.todo = m.todo /\ l.cur = m.cur /\ l.inflight = m.inflight
          /\ \A d \in Calls : Kept(m, l, d, t)
        BY <1>5, <2>1, GrantEffect
    <2>3. \A d \in Calls : Kept(k, l, d, t)
        BY <1>2, <2>2, SameThenKept
    <2> QED
        BY <1>2, <2>2, <2>3 DEF Calm
<1> QED
    BY <1>3, <1>4, <1>5

LEMMA GrantRefusedEffect ==
    ASSUME NEW s \in Side, NEW k \in CoreType, NEW c \in Calls, Inflight(k, c),
           NEW status \in Statuses, NEW l, l = GrantRefused(s, k, c, status)
    PROVE  /\ l \in CoreType /\ Calm(k, l)
           /\ l.todo = k.todo \ {c} /\ l.cur = k.cur
           /\ Finished(s, k, l, c)
           /\ \A d \in Calls : d # c => Same(k, l, d)
<1>1. PICK todo : todo = k.todo \ {c}
    OBVIOUS
<1>2. todo \in SUBSET Calls
    BY <1>1 DEF CoreType
<1>3. PICK m : m = [k EXCEPT !.todo = todo]
    OBVIOUS
<1>4. /\ m \in CoreType /\ Calm(k, m)
      /\ m.todo = todo /\ m.cur = k.cur
      /\ m.pending = k.pending /\ m.inflight = k.inflight /\ m.box = k.box
      /\ m.outcomes = k.outcomes /\ m.chain = k.chain /\ m.issued = k.issued /\ m.leftAt = k.leftAt
    BY <1>2, <1>3 DEF CoreType, Calm
<1>5. \A d \in Calls : Same(k, m, d)
    BY <1>4, Aside
<1>6. l = FinishInflight(s, m, Only(c), status)
    BY <1>1, <1>3 DEF GrantRefused, Only
<1>7. /\ l \in CoreType /\ Calm(m, l)
      /\ l.todo = m.todo /\ l.cur = m.cur
      /\ Finished(s, m, l, c)
      /\ \A d \in Calls : d # c => Same(m, l, d)
    <2>1. m \in CoreType /\ Inflight(m, c)
        BY <1>4 DEF Inflight
    <2> QED
        BY <1>6, <2>1, FinishOne
<1>8. Finished(s, k, l, c)
    BY <1>5, <1>7, AlikeThenFinished DEF Same
<1>9. \A d \in Calls : d # c => Same(k, l, d)
    BY <1>5, <1>7, SameThenSame
<1> QED
    BY <1>1, <1>4, <1>7, <1>8, <1>9 DEF Calm

\* One turn of the loop of pollOne(c): the call goes on or ends and the loop
\* is left, or an item is queued and the loop goes on.
PolledOnce(s, k, l, c, t) ==
    /\ l \in CoreType /\ Calm(k, l) /\ l.todo = k.todo
    /\ \A d \in Calls : d # c => Same(k, l, d)
    /\ \/ l.cur = NoCall /\ (Kept(k, l, c, t) \/ Finished(s, k, l, c))
       \/ l.cur = c /\ Queued(s, k, l, c)

\* m is k but for the record of the running call c.
Near(k, m, c) ==
    /\ m \in CoreType /\ Calm(k, m)
    /\ m.todo = k.todo /\ m.cur = k.cur /\ m.box = k.box
    /\ DOMAIN m.inflight = DOMAIN k.inflight
    /\ Alike(k, m, c)
    /\ \A d \in Calls : d # c => Same(k, m, d)

LEMMA PolledEffect ==
    ASSUME NEW k \in CoreType, NEW l, l = Polled(k)
    PROVE  /\ l \in CoreType /\ Calm(k, l) /\ l.todo = k.todo /\ l.cur = NoCall
           /\ l.inflight = k.inflight
           /\ \A d \in Calls : Same(k, l, d)
<1>1. l = [k EXCEPT !.cur = NoCall]
    BY DEF Polled
<1>2. /\ l \in CoreType /\ Calm(k, l)
      /\ l.todo = k.todo /\ l.cur = NoCall
      /\ l.pending = k.pending /\ l.inflight = k.inflight /\ l.box = k.box
      /\ l.outcomes = k.outcomes /\ l.chain = k.chain /\ l.issued = k.issued /\ l.leftAt = k.leftAt
    BY <1>1 DEF CoreType, Calm
<1>3. \A d \in Calls : Same(k, l, d)
    BY <1>2, Aside
<1> QED
    BY <1>2, <1>3

LEMMA NearSelf ==
    ASSUME NEW k \in CoreType, NEW c
    PROVE  Near(k, k, c)
BY SameSelf DEF Near, Calm, Same

\* The clock of the queue of c is set.
Clocked(k, c, t) == [k EXCEPT !.inflight[c].fullSince = t]

LEMMA ClockSet ==
    ASSUME NEW k \in CoreType, NEW c \in Calls, Inflight(k, c), NEW t \in Nat,
           NEW m, m = Clocked(k, c, t)
    PROVE  /\ Near(k, m, c) /\ m.put = k.put /\ m.metered = k.metered
           /\ \E r \in Running : r = [k.inflight[c] EXCEPT !.fullSince = t] /\ m.inflight[c] = r
           /\ m.inflight[c] \in Running /\ m.inflight[c].fullSince = t
<1>1. PICK r \in Running : r = [k.inflight[c] EXCEPT !.fullSince = t] /\ r.fullSince = t
    <2>1. PICK old \in Running : old = k.inflight[c]
        BY InflightInCalls DEF Inflight
    <2>2. [old EXCEPT !.fullSince = t] \in Running /\ [old EXCEPT !.fullSince = t].fullSince = t
        BY DEF Running
    <2> QED
        BY <2>1, <2>2
<1>2. m = SetRunning(k, c, r)
    BY <1>1 DEF SetRunning, Clocked
<1>3. /\ m \in CoreType /\ Calm(k, m)
      /\ m.todo = k.todo /\ m.cur = k.cur /\ m.box = k.box
      /\ m.put = k.put /\ m.metered = k.metered
      /\ DOMAIN m.inflight = DOMAIN k.inflight
      /\ m.inflight[c] = r /\ Alike(k, m, c)
      /\ \A d \in Calls : d # c => Same(k, m, d)
    BY <1>2, RunningChanged
<1> QED
    BY <1>1, <1>3 DEF Near

LEMMA UnstalledEffect ==
    ASSUME NEW k \in CoreType, NEW c \in Calls, Inflight(k, c), NEW m, m = Unstalled(k, c)
    PROVE  /\ Near(k, m, c) /\ m.put = k.put /\ m.metered = k.metered
           /\ \E r \in Running : r = [k.inflight[c] EXCEPT !.fullSince = 0] /\ m.inflight[c] = r
           /\ m.inflight[c] \in Running /\ m.inflight[c].fullSince = 0
<1>1. 0 \in Nat /\ m = Clocked(k, c, 0)
    BY DEF Unstalled, Clocked
<1> QED
    BY <1>1, ClockSet

\* The loop is left and the call goes on.
LEMMA LeavePoll ==
    ASSUME NEW s, NEW k \in CoreType, NEW c \in Calls, Inflight(k, c), NEW t \in Nat,
           NEW m, Near(k, m, c),
           \/ m.inflight[c].fullSince \in {0, k.inflight[c].fullSince}
           \/ k.inflight[c].fullSince = 0 /\ m.inflight[c].fullSince = t,
           NEW l, l = Polled(m)
    PROVE  PolledOnce(s, k, l, c, t)
<1>1. m \in CoreType
    BY DEF Near
<1>2. /\ l \in CoreType /\ Calm(m, l) /\ l.todo = m.todo /\ l.cur = NoCall
      /\ \A d \in Calls : Same(m, l, d)
    BY <1>1, PolledEffect
<1>3. Kept(k, m, c, t)
    BY DEF Near, Alike, Kept
<1>4. Kept(k, l, c, t)
    BY <1>2, <1>3, KeptThenSame
<1>5. \A d \in Calls : d # c => Same(k, l, d)
    BY <1>2, SameThenSame DEF Near
<1> QED
    BY <1>2, <1>4, <1>5 DEF PolledOnce, Near, Calm

\* The call fails in the loop.
LEMMA FailPoll ==
    ASSUME NEW s \in Side, NEW k \in CoreType, NEW c \in Calls, Inflight(k, c), NEW t,
           NEW m, Near(k, m, c), NEW status \in Statuses,
           NEW l, l = Polled(FinishInflight(s, m, Only(c), status))
    PROVE  PolledOnce(s, k, l, c, t)
<1>1. m \in CoreType /\ Inflight(m, c)
    BY DEF Near, Inflight
<1>2. PICK u : u = FinishInflight(s, m, Only(c), status)
    OBVIOUS
<1>3. /\ u \in CoreType /\ Calm(m, u)
      /\ u.todo = m.todo
      /\ Finished(s, m, u, c)
      /\ \A d \in Calls : d # c => Same(m, u, d)
    BY <1>1, <1>2, FinishOne
<1>4. u \in CoreType /\ l = Polled(u)
    BY <1>2, <1>3
<1>5. /\ l \in CoreType /\ Calm(u, l) /\ l.todo = u.todo /\ l.cur = NoCall
      /\ \A d \in Calls : Same(u, l, d)
    BY <1>4, PolledEffect
<1>6. Finished(s, k, l, c)
    BY <1>3, <1>5, AlikeThenFinished, FinishedThenSame DEF Near
<1>7. \A d \in Calls : d # c => Same(k, l, d)
    BY <1>3, <1>5, SameThenSame DEF Near
<1> QED
    BY <1>3, <1>5, <1>6, <1>7 DEF PolledOnce, Near, Calm

\* The handler completes the call with f.
LEMMA CompleteEffect ==
    ASSUME NEW s \in Side, NEW k \in CoreType, NEW c \in Calls, Inflight(k, c), NEW t,
           NEW m, Near(k, m, c), NEW f \in FrameFrom(s, c), f.kind \in LastKinds,
           NEW l, l = Complete(m, c, f)
    PROVE  PolledOnce(s, k, l, c, t)
<1>1. m \in CoreType /\ Inflight(m, c)
    BY DEF Near, Inflight
<1>2. PICK old \in Maps(Running) : old = m.inflight
    BY <1>1 DEF CoreType
<1>3. PICK inflight : inflight = Minus(old, Only(c))
    OBVIOUS
<1>4. inflight \in Maps(Running)
    BY <1>3, MinusMap
<1>5. DOMAIN inflight = DOMAIN old \ {c} /\ \A d \in DOMAIN old : d # c => inflight[d] = old[d]
    BY <1>3 DEF Minus, Only
<1>6. PICK queue \in Box : queue = m.box
    BY <1>1 DEF CoreType
<1>7. PICK box : box = PushTerminal(queue, c, f)
    OBVIOUS
<1>8. f \in Frame
    BY DEF FrameFrom
<1>9. /\ box \in Box
      /\ box.queues[c] = Append(queue.queues[c], f)
      /\ \A d \in Calls : d # c => box.queues[d] = queue.queues[d]
      /\ \A d \in Calls : box.credits[d] = queue.credits[d]
    BY <1>7, <1>8, PushTerminalEffect
<1>10. PICK entered \in [Calls -> Int] : entered = m.chain
    BY <1>1 DEF CoreType
<1>11. PICK chain : chain = Unwind(entered, Only(c))
    OBVIOUS
<1>12. /\ chain \in [Calls -> Int]
       /\ chain[c] = entered[c] - 1
       /\ \A d \in Calls : d # c => chain[d] = entered[d]
    BY <1>11 DEF Unwind, Only
<1>13. PICK u : u = [m EXCEPT !.inflight = inflight, !.box = box, !.chain = chain]
    OBVIOUS
<1>14. l = Polled(u)
    BY <1>2, <1>3, <1>6, <1>7, <1>10, <1>11, <1>13 DEF Complete, Only
<1>15. /\ u \in CoreType /\ Calm(m, u)
       /\ u.todo = m.todo /\ u.inflight = inflight /\ u.box = box /\ u.chain = chain
       /\ u.pending = m.pending /\ u.outcomes = m.outcomes /\ u.issued = m.issued
       /\ u.leftAt = m.leftAt
    BY <1>1, <1>4, <1>9, <1>12, <1>13 DEF CoreType, Calm
<1>16. ASSUME NEW d \in Calls, d # c
       PROVE  Same(m, u, d)
    BY <1>2, <1>5, <1>6, <1>9, <1>10, <1>12, <1>15, <1>16
    DEF Same, Alike, SameLife, SamePast, SameClock, Pending, Inflight, Queue
<1>17. Finished(s, m, u, c)
    BY <1>1, <1>2, <1>5, <1>6, <1>9, <1>10, <1>12, <1>15
    DEF Finished, SamePast, Pending, Inflight, Queue
<1>18. u \in CoreType
    BY <1>15
<1>19. /\ l \in CoreType /\ Calm(u, l) /\ l.todo = u.todo /\ l.cur = NoCall
       /\ \A d \in Calls : Same(u, l, d)
    BY <1>14, <1>18, PolledEffect
<1>20. Finished(s, k, l, c)
    BY <1>17, <1>19, AlikeThenFinished, FinishedThenSame DEF Near
<1>21. \A d \in Calls : d # c => Same(k, l, d)
    BY <1>16, <1>19, SameThenSame DEF Near
<1> QED
    BY <1>15, <1>19, <1>20, <1>21 DEF PolledOnce, Near, Calm

LEMMA PollBlockedEffect ==
    ASSUME NEW s \in Side, NEW k \in CoreType, NEW c \in Calls, Inflight(k, c), NEW t \in Nat,
           NEW l, l = PollBlocked(s, k, c, t)
    PROVE  PolledOnce(s, k, l, c, t)
<1>1. k.inflight[c].fullSince \in Nat
    BY InflightInCalls DEF Inflight, Running
<1>2. PICK since \in Nat : since = IF k.inflight[c].fullSince = 0 THEN t ELSE k.inflight[c].fullSince
    BY <1>1
<1>3. PICK m : m = Clocked(k, c, since)
    OBVIOUS
<1>4. Near(k, m, c) /\ m.inflight[c].fullSince = since
    BY <1>3, ClockSet
<1>5. \/ l = Polled(k) \/ l = Polled(m)
      \/ l = Polled(FinishInflight(s, m, Only(c), "RESOURCE_EXHAUSTED"))
    BY <1>2, <1>3 DEF PollBlocked, Clocked, Only
<1>6. CASE l = Polled(k)
    BY <1>6, NearSelf, LeavePoll
<1>7. CASE l = Polled(m)
    <2>1. \/ m.inflight[c].fullSince \in {0, k.inflight[c].fullSince}
          \/ k.inflight[c].fullSince = 0 /\ m.inflight[c].fullSince = t
        BY <1>2, <1>4
    <2>2. Near(k, m, c)
        BY <1>4
    <2> QED
        BY <1>7, <2>1, <2>2, LeavePoll
<1>8. CASE l = Polled(FinishInflight(s, m, Only(c), "RESOURCE_EXHAUSTED"))
    <2>1. Near(k, m, c) /\ "RESOURCE_EXHAUSTED" \in Statuses
        BY <1>4, StatusTypes
    <2> QED
        BY <1>8, <2>1, FailPoll
<1> QED
    BY <1>5, <1>6, <1>7, <1>8

\* What follows is done with the clock of the queue reset (m).
LEMMA PollRespondEffect ==
    ASSUME NEW s \in Side, NEW k \in CoreType, NEW c \in Calls, Inflight(k, c), NEW t,
           NEW m, Near(k, m, c), m.inflight[c] \in Running, NEW packed \in Packing,
           NEW l, l = PollRespond(s, m, c, packed)
    PROVE  PolledOnce(s, k, l, c, t)
<1>1. PICK reply \in STRING : reply = m.inflight[c].m.reply
    BY DEF Running, Method
<1>2. PICK f : f = BodyFrame("RESPONSE", reply, c, 0, packed)
    OBVIOUS
<1>3. "RESPONSE" \in Kinds /\ 0 \in Nat /\ "INTERNAL" \in Statuses
    BY StatusTypes DEF Kinds
<1>4. f \in FrameFrom(s, c) /\ f.kind = "RESPONSE"
    BY <1>2, <1>3, BodyFrameType
<1>5. l = Polled(FinishInflight(s, m, Only(c), "INTERNAL")) \/ l = Complete(m, c, f)
    BY <1>1, <1>2 DEF PollRespond, Only
<1>6. f \in FrameFrom(s, c) /\ f.kind \in LastKinds
    BY <1>4 DEF LastKinds
<1>7. CASE l = Complete(m, c, f)
    BY <1>6, <1>7, CompleteEffect
<1>8. CASE l = Polled(FinishInflight(s, m, Only(c), "INTERNAL"))
    BY <1>3, <1>8, FailPoll
<1> QED
    BY <1>5, <1>7, <1>8

LEMMA PollEndEffect ==
    ASSUME NEW s \in Side, NEW k \in CoreType, NEW c \in Calls, Inflight(k, c), NEW t,
           NEW m, Near(k, m, c), NEW l, l = PollEnd(s, m, c)
    PROVE  PolledOnce(s, k, l, c, t)
<1>1. PICK f : f = ControlFrame(s, c, "END")
    OBVIOUS
<1>2. f \in FrameFrom(s, c) /\ f.kind \in LastKinds
    BY <1>1, ControlFrameType DEF LastKinds
<1>3. l = Polled(FinishInflight(s, m, Only(c), "INTERNAL")) \/ l = Complete(m, c, f)
    BY <1>1 DEF PollEnd, Only
<1>4. CASE l = Complete(m, c, f)
    BY <1>2, <1>4, CompleteEffect
<1>5. "INTERNAL" \in Statuses
    BY StatusTypes
<1>6. CASE l = Polled(FinishInflight(s, m, Only(c), "INTERNAL"))
    BY <1>5, <1>6, FailPoll
<1> QED
    BY <1>3, <1>4, <1>6

LEMMA PollFailEffect ==
    ASSUME NEW s \in Side, NEW k \in CoreType, NEW c \in Calls, Inflight(k, c), NEW t,
           NEW m, Near(k, m, c), NEW status \in Statuses, NEW l, l = PollFail(s, m, c, status)
    PROVE  PolledOnce(s, k, l, c, t)
<1>1. l = Polled(FinishInflight(s, m, Only(c), status))
    BY DEF PollFail, Only
<1> QED
    BY <1>1, FailPoll

LEMMA SpendRunningType ==
    ASSUME NEW r \in Running, ~Starved(r),
           NEW v, v = [r EXCEPT !.credit = IF r.established THEN @ - 1 ELSE @]
    PROVE  v \in Running /\ v.fullSince = r.fullSince
<1>1. PICK n : n = IF r.established THEN r.credit - 1 ELSE r.credit
    OBVIOUS
<1>2. r.credit \in 0..MaxU32
    BY DEF Running
<1>3. n \in 0..MaxU32
    BY <1>1, <1>2, QueueConstants DEF Starved
<1>4. v = [r EXCEPT !.credit = n]
    BY <1>1
<1> QED
    BY <1>3, <1>4 DEF Running

LEMMA TwoRunning ==
    ASSUME NEW k \in CoreType, NEW box, NEW inflight
    PROVE  [k EXCEPT !.box = box, !.inflight = inflight]
               = [[k EXCEPT !.box = box] EXCEPT !.inflight = inflight]
BY DEF CoreType

\* Push finds the room MayPoll has seen.
LEMMA RoomPushes ==
    ASSUME NEW box, NEW c, HasRoom(box, c), NEW f
    PROVE  Push(box, c, f) = PushTerminal(box, c, f)
BY DEF Push

LEMMA RoomLeft ==
    ASSUME NEW k \in CoreType, NEW c \in Calls, HasRoom(k.box, c)
    PROVE  Len(Queue(k, c)) < MaxPerCall
<1>1. Len(k.box.queues[c]) \in Nat
    BY DEF CoreType, Box
<1> QED
    BY <1>1, QueueConstants DEF HasRoom, FullFor, Queue

\* A handler queues f, an item, and v is its record with what is left of its
\* allowance.
ItemBy(m, c, f, v) ==
    [m EXCEPT !.box = PushTerminal(m.box, c, f), !.inflight = [m.inflight EXCEPT ![c] = v]]

LEMMA ItemQueued ==
    ASSUME NEW s \in Side, NEW m \in CoreType, NEW c \in Calls, Inflight(m, c),
           HasRoom(m.box, c), NEW f \in FrameFrom(s, c), f.kind = "ITEM",
           NEW v \in Running, v.fullSince = 0,
           NEW l, l = ItemBy(m, c, f, v)
    PROVE  /\ l \in CoreType /\ Calm(m, l)
           /\ l.todo = m.todo /\ l.cur = m.cur
           /\ Queued(s, m, l, c)
           /\ \A d \in Calls : d # c => Same(m, l, d)
<1>1. PICK u : u = [m EXCEPT !.box = PushTerminal(m.box, c, f)]
    OBVIOUS
<1>2. l = [u EXCEPT !.inflight = [m.inflight EXCEPT ![c] = v]]
    BY <1>1, TwoRunning DEF ItemBy
<1>3. /\ u \in CoreType /\ Calm(m, u)
      /\ u.todo = m.todo /\ u.cur = m.cur
      /\ u.pending = m.pending /\ u.inflight = m.inflight /\ u.outcomes = m.outcomes
      /\ u.chain = m.chain /\ u.issued = m.issued /\ u.leftAt = m.leftAt
      /\ \A d \in Calls : d # c => Same(m, u, d)
      /\ Queue(u, c) = Append(Queue(m, c), f)
      /\ \A d \in Calls : u.box.credits[d] = m.box.credits[d]
    BY <1>1, PushEffect
<1>4. u \in CoreType /\ Inflight(u, c) /\ l = SetRunning(u, c, v)
    BY <1>2, <1>3 DEF Inflight, SetRunning
<1>5. /\ l \in CoreType /\ Calm(u, l)
      /\ l.todo = u.todo /\ l.cur = u.cur
      /\ l.inflight[c] = v /\ Alike(u, l, c)
      /\ \A d \in Calls : d # c => Same(u, l, d)
    BY <1>4, RunningChanged
<1>6. Len(Queue(m, c)) < MaxPerCall
    BY RoomLeft
<1>7. SameLife(m, u, c) /\ SamePast(m, u, c)
    BY <1>3 DEF SameLife, SamePast, Pending, Inflight
<1>8. Queued(s, m, l, c)
    BY <1>3, <1>5, <1>6, <1>7 DEF Queued, Alike, SameLife, SamePast
<1>9. \A d \in Calls : d # c => Same(m, l, d)
    BY <1>3, <1>5, SameThenSame
<1> QED
    BY <1>3, <1>5, <1>8, <1>9 DEF Calm

LEMMA NearThenQueued ==
    ASSUME NEW s, NEW k, NEW m, NEW l, NEW c, Near(k, m, c), Queued(s, m, l, c)
    PROVE  Queued(s, k, l, c)
BY DEF Near, Alike, SameLife, SamePast, Queued

LEMMA PollItemEffect ==
    ASSUME NEW s \in Side, NEW k \in CoreType, NEW c \in Calls, Inflight(k, c), k.cur = c, NEW t,
           NEW m, Near(k, m, c), NEW r \in Running, r = m.inflight[c], r.fullSince = 0,
           HasRoom(k.box, c), CalleeStreams(r.m) => ~Starved(r), NEW packed \in Packing,
           NEW l, l = PollItem(s, m, c, packed)
    PROVE  PolledOnce(s, k, l, c, t)
<1>1. PICK reply \in STRING : reply = r.m.reply
    BY DEF Running, Method
<1>2. m \in CoreType /\ Inflight(m, c) /\ HasRoom(m.box, c)
    BY DEF Near, Inflight
<1>3. PICK n \in Nat : n = m.put[c] + 1
    <2>1. m.put[c] \in Nat
        BY <1>2 DEF CoreType
    <2> QED
        BY <2>1
<1>4. PICK f : f = BodyFrame("ITEM", reply, c, n, packed)
    OBVIOUS
<1>5. f \in FrameFrom(s, c) /\ f.kind = "ITEM"
    <2>1. "ITEM" \in Kinds
        BY DEF Kinds
    <2> QED
        BY <1>4, <2>1, BodyFrameType
<1>6. CASE ~CalleeStreams(r.m)
    <2>1. "INTERNAL" \in Statuses
        BY StatusTypes
    <2>2. l = Polled(FinishInflight(s, m, Only(c), "INTERNAL"))
        BY <1>6 DEF PollItem, Only
    <2> QED
        BY <2>1, <2>2, FailPoll
<1>7. CASE CalleeStreams(r.m)
    <2>1. PICK v : v = [r EXCEPT !.credit = IF r.established THEN @ - 1 ELSE @]
        OBVIOUS
    <2>2. v \in Running /\ v.fullSince = 0
        <3>1. ~Starved(r)
            BY <1>7
        <3> QED
            BY <2>1, <3>1, SpendRunningType
    <2>5. PICK u : u = ItemBy(m, c, f, v)
        OBVIOUS
    <2>6. l = CountItem(u, c, r)
        <3>1. Push(m.box, c, f) = PushTerminal(m.box, c, f)
            BY <1>2, RoomPushes
        <3> QED
            BY <1>1, <1>3, <1>4, <1>7, <2>1, <2>5, <3>1 DEF PollItem, ItemBy
    <2>7. /\ u \in CoreType /\ Calm(m, u)
          /\ u.todo = m.todo /\ u.cur = m.cur
          /\ Queued(s, m, u, c)
          /\ \A d \in Calls : d # c => Same(m, u, d)
        BY <1>2, <1>5, <2>2, <2>5, ItemQueued
    <2>8. u \in CoreType
        BY <2>7
    <2>9. /\ l \in CoreType /\ Calm(u, l)
          /\ l.todo = u.todo /\ l.cur = u.cur
          /\ \A d \in Calls : Same(u, l, d)
        BY <2>6, <2>8, CountItemEffect
    <2>10. Queued(s, m, l, c)
        BY <2>7, <2>9, QueuedThenSame
    <2>11. Queued(s, k, l, c)
        BY <2>10, NearThenQueued
    <2>12. \A d \in Calls : d # c => Same(k, l, d)
        BY <2>7, <2>9, SameThenSame DEF Near
    <2> QED
        BY <2>7, <2>9, <2>11, <2>12 DEF PolledOnce, Near, Calm
<1> QED
    BY <1>6, <1>7

\* MayPoll, said of the record whose clock has been reset.
LEMMA MayPollReset ==
    ASSUME NEW k \in CoreType, NEW c \in Calls, Inflight(k, c), MayPoll(k, c),
           NEW r, r = [k.inflight[c] EXCEPT !.fullSince = 0]
    PROVE  HasRoom(k.box, c) /\ (CalleeStreams(r.m) => ~Starved(r))
<1>1. PICK old \in Running : old = k.inflight[c]
    BY InflightInCalls DEF Inflight
<1>2. r = [old EXCEPT !.fullSince = 0]
    BY <1>1
<1>3. r.m = old.m /\ r.established = old.established /\ r.credit = old.credit
    BY <1>2 DEF Running
<1> QED
    BY <1>1, <1>3 DEF MayPoll, Starved, CalleeStreams

\* One turn of the loop, whatever the handler answers.
LoopTurn(s, k, l, c, t) ==
    \/ l = PollBlocked(s, k, c, t)
    \/ l = Polled(Unstalled(k, c))
    \/ /\ MayPoll(k, c)
       /\ \/ \E p \in Packings[s] : l = PollRespond(s, Unstalled(k, c), c, p)
          \/ \E p \in Packings[s] : l = PollItem(s, Unstalled(k, c), c, p)
          \/ l = PollEnd(s, Unstalled(k, c), c)
          \/ \E status \in Failures : l = PollFail(s, Unstalled(k, c), c, status)

LEMMA LoopTurnEffect ==
    ASSUME NEW s \in Side, NEW k \in CoreType, NEW c \in Calls, Inflight(k, c), k.cur = c,
           NEW t \in Nat, NEW l, LoopTurn(s, k, l, c, t)
    PROVE  PolledOnce(s, k, l, c, t)
<1>1. PICK m : m = Unstalled(k, c)
    OBVIOUS
<1>2. PICK r \in Running : /\ r = [k.inflight[c] EXCEPT !.fullSince = 0]
                           /\ m.inflight[c] = r
    BY <1>1, UnstalledEffect
<1>3. Near(k, m, c) /\ m.inflight[c] \in Running /\ m.inflight[c].fullSince = 0
    BY <1>1, UnstalledEffect
<1>4. Packings[s] \subseteq Packing /\ Failures \subseteq Statuses
    BY LinkConstants, StatusTypes
<1>5. CASE l = PollBlocked(s, k, c, t)
    BY <1>5, PollBlockedEffect
<1>6. CASE l = Polled(m)
    BY <1>3, <1>6, LeavePoll
<1>7. ASSUME NEW p \in Packing, l = PollRespond(s, m, c, p)
      PROVE  PolledOnce(s, k, l, c, t)
    BY <1>3, <1>7, PollRespondEffect
<1>8. ASSUME MayPoll(k, c), NEW p \in Packing, l = PollItem(s, m, c, p)
      PROVE  PolledOnce(s, k, l, c, t)
    <2>1. HasRoom(k.box, c) /\ (CalleeStreams(r.m) => ~Starved(r))
        BY <1>2, <1>8, MayPollReset
    <2>2. Near(k, m, c) /\ r = m.inflight[c] /\ r.fullSince = 0
        BY <1>2, <1>3
    <2> QED
        BY <1>8, <2>1, <2>2, PollItemEffect
<1>9. CASE l = PollEnd(s, m, c)
    BY <1>3, <1>9, PollEndEffect
<1>10. ASSUME NEW status \in Statuses, l = PollFail(s, m, c, status)
       PROVE  PolledOnce(s, k, l, c, t)
    BY <1>3, <1>10, PollFailEffect
<1> QED
    BY <1>1, <1>4, <1>5, <1>6, <1>7, <1>8, <1>9, <1>10 DEF LoopTurn

-----------------------------------------------------------------------------
\* What the session does to its endpoint.

LEMMA NewCoreType ==
    ASSUME NEW s \in Side, NEW k, k = NewCore(s)
    PROVE  /\ k \in CoreType /\ Allocates(s, k.next)
           /\ ~k.finished /\ k.todo = {} /\ k.cur = NoCall /\ k.issued = {}
           /\ \A c : ~Pending(k, c) /\ ~Inflight(k, c)
           /\ \A c \in Calls : /\ Queue(k, c) = <<>> /\ k.box.credits[c] = NoCredit
                               /\ k.outcomes[c] = <<>> /\ k.chain[c] = 0 /\ k.leftAt[c] = 0
<1>1. PICK empty : empty = [c \in {} |-> 0]
    OBVIOUS
<1>2. empty \in Maps(Waiting) /\ empty \in Maps(Running) /\ DOMAIN empty = {}
    BY <1>1, EmptyMap
<1>3. PICK box \in Box : box = EmptyBox
    BY EmptyBoxEffect
<1>4. PICK zero \in [Calls -> Nat] : zero = [c \in Calls |-> 0]
    OBVIOUS
<1>5. PICK none : none = [c \in Calls |-> <<>>]
    OBVIOUS
<1>6. none \in [Calls -> Seq(Outcome)] /\ none \in [Calls -> Seq(Nat)]
    BY <1>5, EmptySeq
<1>7. PICK first \in Nat : first = IF s = "client" THEN 0 ELSE 1
    OBVIOUS
<1>8. k = [ready |-> FALSE, finished |-> FALSE, next |-> first, pending |-> empty,
           inflight |-> empty, box |-> box, outcomes |-> none, chain |-> zero,
           todo |-> {}, cur |-> NoCall, issued |-> {}, put |-> zero, metered |-> zero,
           granted |-> zero, got |-> none, leftAt |-> zero]
    BY <1>1, <1>3, <1>4, <1>5, <1>7 DEF NewCore
<1>9. zero \in [Calls -> Int]
    OBVIOUS
<1>10. k \in CoreType
    BY <1>2, <1>6, <1>8, <1>9 DEF CoreType
<1>11. Allocates(s, first)
    BY <1>7 DEF Allocates, Side
<1>12. \A c \in Calls : box.queues[c] = <<>> /\ box.credits[c] = NoCredit
    BY <1>3, EmptyBoxEffect
<1> QED
    BY <1>2, <1>4, <1>5, <1>8, <1>10, <1>11, <1>12 DEF Pending, Inflight, Queue

LEMMA OnReadyEffect ==
    ASSUME NEW k \in CoreType, NEW l, l = [k EXCEPT !.ready = TRUE]
    PROVE  /\ l \in CoreType /\ Calm(k, l) /\ l.todo = k.todo /\ l.cur = k.cur
           /\ \A d \in Calls : Same(k, l, d)
<1>1. /\ l \in CoreType /\ Calm(k, l)
      /\ l.todo = k.todo /\ l.cur = k.cur
      /\ l.pending = k.pending /\ l.inflight = k.inflight /\ l.box = k.box
      /\ l.outcomes = k.outcomes /\ l.chain = k.chain /\ l.issued = k.issued /\ l.leftAt = k.leftAt
    BY DEF CoreType, Calm
<1> QED
    BY <1>1, Aside

\* What a send does to the sender: a frame, or a pending grant, leaves.
Leaves(k, c, t) == [k EXCEPT !.box = PopFrame(@, c), !.leftAt[c] = t]
CreditLeaves(k, c) == [k EXCEPT !.box = PopCredit(@, c)]

LEMMA SendFrameEffect ==
    ASSUME NEW k \in CoreType, NEW c \in Calls, k.box.queues[c] # <<>>, NEW t \in Nat,
           NEW l, l = Leaves(k, c, t)
    PROVE  /\ l \in CoreType /\ Calm(k, l) /\ l.todo = k.todo /\ l.cur = k.cur
           /\ l.inflight = k.inflight
           /\ Popped(k, l, c, t)
           /\ \A d \in Calls : d # c => Same(k, l, d)
<1>1. PICK old \in Box : old = k.box
    BY DEF CoreType
<1>2. old.queues[c] # <<>>
    BY <1>1
<1>3. PICK box : box = PopFrame(old, c)
    OBVIOUS
<1>4. /\ box \in Box
      /\ box.queues[c] = Tail(old.queues[c])
      /\ \A d \in Calls : d # c => box.queues[d] = old.queues[d]
      /\ \A d \in Calls : box.credits[d] = old.credits[d]
    BY <1>2, <1>3, PopFrameEffect
<1>5. PICK leftAt : leftAt = [k.leftAt EXCEPT ![c] = t]
    OBVIOUS
<1>6. leftAt \in [Calls -> Nat] /\ leftAt[c] = t /\ \A d \in Calls : d # c => leftAt[d] = k.leftAt[d]
    BY <1>5 DEF CoreType
<1>7. l = [k EXCEPT !.box = box, !.leftAt = leftAt]
    BY <1>1, <1>3, <1>5 DEF Leaves
<1>8. /\ l \in CoreType /\ Calm(k, l)
      /\ l.todo = k.todo /\ l.cur = k.cur /\ l.box = box /\ l.leftAt = leftAt
      /\ l.pending = k.pending /\ l.inflight = k.inflight
      /\ l.outcomes = k.outcomes /\ l.chain = k.chain /\ l.issued = k.issued
    BY <1>4, <1>6, <1>7 DEF CoreType, Calm
<1>9. Popped(k, l, c, t)
    BY <1>1, <1>2, <1>4, <1>6, <1>8 DEF Popped, SameLife, SameClock, Pending, Inflight, Queue
<1>10. ASSUME NEW d \in Calls, d # c
       PROVE  Same(k, l, d)
    BY <1>1, <1>4, <1>6, <1>8, <1>10
    DEF Same, Alike, SameLife, SamePast, SameClock, Pending, Inflight, Queue
<1> QED
    BY <1>8, <1>9, <1>10

LEMMA SendCreditEffect ==
    ASSUME NEW k \in CoreType, NEW c \in Calls, NEW t,
           NEW l, l = CreditLeaves(k, c)
    PROVE  /\ l \in CoreType /\ Calm(k, l) /\ l.todo = k.todo /\ l.cur = k.cur
           /\ l.inflight = k.inflight
           /\ l.box.credits[c] = NoCredit
           /\ Kept(k, l, c, t)
           /\ \A d \in Calls : d # c => Same(k, l, d)
<1>1. PICK old \in Box : old = k.box
    BY DEF CoreType
<1>2. PICK box : box = PopCredit(old, c)
    OBVIOUS
<1>3. /\ box \in Box
      /\ box.credits[c] = NoCredit
      /\ \A d \in Calls : box.queues[d] = old.queues[d]
      /\ \A d \in Calls : d # c => box.credits[d] = old.credits[d]
    BY <1>2, PopCreditEffect
<1>4. l = [k EXCEPT !.box = box]
    BY <1>1, <1>2 DEF CreditLeaves
<1>5. /\ l \in CoreType /\ Calm(k, l)
      /\ l.todo = k.todo /\ l.cur = k.cur /\ l.box = box /\ l.leftAt = k.leftAt
      /\ l.pending = k.pending /\ l.inflight = k.inflight
      /\ l.outcomes = k.outcomes /\ l.chain = k.chain /\ l.issued = k.issued
    BY <1>3, <1>4 DEF CoreType, Calm
<1>6. Kept(k, l, c, t)
    BY <1>1, <1>3, <1>5 DEF Kept, SameLife, SamePast, Pending, Inflight, Queue
<1>7. ASSUME NEW d \in Calls, d # c
      PROVE  Same(k, l, d)
    BY <1>1, <1>3, <1>5, <1>7
    DEF Same, Alike, SameLife, SamePast, SameClock, Pending, Inflight, Queue
<1> QED
    BY <1>3, <1>5, <1>6, <1>7

-----------------------------------------------------------------------------
\* What a method does to the books of a call, from endpoint k to endpoint l:
\* its history (put, metered, granted, got) and the terms in its record.

Books(k, l, c) ==
    /\ l.put[c] = k.put[c] /\ l.metered[c] = k.metered[c]
    /\ l.granted[c] = k.granted[c] /\ l.got[c] = k.got[c]
AllBooks(k, l) ==
    /\ l.put = k.put /\ l.metered = k.metered /\ l.granted = k.granted /\ l.got = k.got
    /\ l.ready = k.ready
WaitTerms(k, l, c) == Pending(k, c) /\ Pending(l, c) => l.pending[c] = k.pending[c]
RunTerms(k, l, c) ==
    Inflight(k, c) /\ Inflight(l, c) =>
        /\ l.inflight[c].m = k.inflight[c].m
        /\ l.inflight[c].credit = k.inflight[c].credit
        /\ l.inflight[c].inboundClosed = k.inflight[c].inboundClosed
Terms(k, l, c) == WaitTerms(k, l, c) /\ RunTerms(k, l, c)

\* Nothing of the call changes but the clocks in its record.
Idle(k, l, c) == Alike(k, l, c) /\ Books(k, l, c) /\ Terms(k, l, c)

LEMMA IdleMade ==
    ASSUME NEW k, NEW l, NEW c, Alike(k, l, c), AllBooks(k, l), Terms(k, l, c)
    PROVE  Idle(k, l, c)
BY DEF Idle, AllBooks, Books

LEMMA IdleSelf == \A k, c : Idle(k, k, c) /\ Terms(k, k, c) /\ AllBooks(k, k)
BY DEF Idle, Books, AllBooks, Terms, WaitTerms, RunTerms, Alike, SameLife, SamePast

LEMMA AllBooksTwice == \A k, m, l : AllBooks(k, m) /\ AllBooks(m, l) => AllBooks(k, l)
BY DEF AllBooks

EndsWell(o) == o # <<>> /\ o[Len(o)].kind = "end"

\* A terminating outcome that is not an END.
LEMMA NotWell ==
    ASSUME NEW q \in Seq(Outcome), NEW o \in Outcome, o.kind # "end", NEW p, p = Append(q, o)
    PROVE  ~EndsWell(p)
<1>1. Len(p) = Len(q) + 1 /\ p[Len(p)] = o
    OBVIOUS
<1> QED
    BY <1>1 DEF EndsWell

LEMMA SettleBooks ==
    ASSUME NEW k \in CoreType, NEW P, NEW o \in Outcome, Terminates(o),
           NEW l, l = SettlePending(k, P, o)
    PROVE  /\ AllBooks(k, l)
           /\ \A d \in Calls : Terms(k, l, d)
           /\ \A d \in Calls : d \in P /\ Pending(k, d) => l.outcomes[d] = Append(k.outcomes[d], o)
<1>1. PICK Q : Q = P \cap DOMAIN k.pending
    OBVIOUS
<1>2. PICK pending : pending = Minus(k.pending, Q)
    OBVIOUS
<1>3. PICK box : box = Discard(k.box, Q)
    OBVIOUS
<1>4. PICK chain : chain = Unwind(k.chain, Q)
    OBVIOUS
<1>5. PICK outs : outs = [c \in Calls |-> IF c \in Q THEN Append(k.outcomes[c], o) ELSE k.outcomes[c]]
    OBVIOUS
<1>6. l = [k EXCEPT !.pending = pending, !.box = box, !.chain = chain, !.outcomes = outs]
    BY <1>1, <1>2, <1>3, <1>4, <1>5 DEF SettlePending
<1>7. /\ AllBooks(k, l) /\ l.inflight = k.inflight /\ l.pending = pending /\ l.outcomes = outs
    BY <1>6 DEF CoreType, AllBooks
<1>8. \A d \in DOMAIN pending : pending[d] = k.pending[d]
    <2>1. PICK old \in Maps(Waiting) : old = k.pending
        BY DEF CoreType
    <2>2. pending = Minus(old, Q)
        BY <1>2, <2>1
    <2>3. DOMAIN pending = DOMAIN old \ Q /\ \A d \in DOMAIN old \ Q : pending[d] = old[d]
        BY ZenonT(60), <2>2, MinusMap
    <2> QED
        BY <2>1, <2>3
<1>9. \A d \in Calls : Terms(k, l, d)
    BY <1>7, <1>8 DEF Terms, WaitTerms, RunTerms, Pending, Inflight
<1>10. \A d \in Calls : d \in P /\ Pending(k, d) => l.outcomes[d] = Append(k.outcomes[d], o)
    BY <1>1, <1>5, <1>7 DEF Pending
<1> QED
    BY <1>7, <1>9, <1>10

LEMMA AbandonBooks ==
    ASSUME NEW s \in Side, NEW k \in CoreType, NEW P \in SUBSET DOMAIN k.pending,
           NEW status \in Statuses, NEW l, l = AbandonPending(s, k, P, status)
    PROVE  /\ AllBooks(k, l)
           /\ \A d \in Calls : Terms(k, l, d)
           /\ \A d \in P : ~EndsWell(l.outcomes[d])
<1>1. PICK o \in Outcome : o = Failed(status) /\ Terminates(o)
    BY OutcomeTypes
<1>2. PICK m : m = SettlePending(k, P, o)
    OBVIOUS
<1>3. /\ m \in CoreType /\ AllBooks(k, m)
      /\ \A d \in Calls : Terms(k, m, d)
      /\ \A d \in Calls : d \in P /\ Pending(k, d) => m.outcomes[d] = Append(k.outcomes[d], o)
    <2>1. m \in CoreType
        BY <1>1, <1>2, SettlePendingEffect
    <2>2. Terminates(o)
        BY <1>1
    <2> QED
        BY <1>2, <2>1, <2>2, SettleBooks
<1>4. PICK sent : sent = {c \in P : ~OpensWithRequest(k.box, c)}
    OBVIOUS
<1>5. PICK cancels : cancels = [c \in sent |-> ControlFrame(s, c, "CANCEL")]
    OBVIOUS
<1>6. PICK box : box = PushEach(m.box, cancels)
    OBVIOUS
<1>7. l = [m EXCEPT !.box = box]
    BY <1>1, <1>2, <1>4, <1>5, <1>6 DEF AbandonPending
<1>8. /\ AllBooks(m, l) /\ l.pending = m.pending /\ l.inflight = m.inflight /\ l.outcomes = m.outcomes
    BY <1>3, <1>7 DEF CoreType, AllBooks
<1>9. \A d \in Calls : Terms(k, l, d)
    BY <1>3, <1>8 DEF Terms, WaitTerms, RunTerms, Pending, Inflight
<1>10. \A d \in P : d \in Calls /\ Pending(k, d)
    BY PendingInCalls DEF Pending
<1>11. ASSUME NEW d \in P PROVE ~EndsWell(l.outcomes[d])
    <2>1. k.outcomes[d] \in Seq(Outcome)
        BY <1>10 DEF CoreType
    <2>2. o.kind # "end"
        BY <1>1 DEF Failed
    <2>3. l.outcomes[d] = Append(k.outcomes[d], o)
        BY <1>3, <1>8, <1>10
    <2> QED
        BY <2>1, <2>2, <2>3, NotWell
<1> QED
    BY <1>3, <1>8, <1>9, <1>11, AllBooksTwice

LEMMA FinishBooks ==
    ASSUME NEW s \in Side, NEW k \in CoreType, NEW P \in SUBSET DOMAIN k.inflight,
           NEW status \in Statuses, NEW l, l = FinishInflight(s, k, P, status)
    PROVE  /\ AllBooks(k, l)
           /\ \A d \in Calls : Terms(k, l, d)
           /\ \A d \in P : \E f \in FrameFrom(s, d) : f.kind = "ERROR" /\ Queue(l, d) = <<f>>
<1>1. PICK inflight : inflight = Minus(k.inflight, P)
    OBVIOUS
<1>2. PICK errors : errors = [c \in P |-> ErrorFrame(s, c, status)]
    OBVIOUS
<1>3. PICK bare : bare = Discard(k.box, P)
    OBVIOUS
<1>4. PICK box : box = PushEach(bare, errors)
    OBVIOUS
<1>5. PICK chain : chain = Unwind(k.chain, P \cap DOMAIN k.inflight)
    OBVIOUS
<1>6. l = [k EXCEPT !.inflight = inflight, !.box = box, !.chain = chain]
    BY <1>1, <1>2, <1>3, <1>4, <1>5 DEF FinishInflight
<1>7. AllBooks(k, l) /\ l.inflight = inflight /\ l.pending = k.pending /\ l.box = box
    BY <1>6 DEF CoreType, AllBooks
<1>8. \A d \in DOMAIN inflight : inflight[d] = k.inflight[d]
    <2>1. PICK old \in Maps(Running) : old = k.inflight
        BY DEF CoreType
    <2>2. inflight = Minus(old, P)
        BY <1>1, <2>1
    <2>3. DOMAIN inflight = DOMAIN old \ P /\ \A d \in DOMAIN old \ P : inflight[d] = old[d]
        BY ZenonT(60), <2>2, MinusMap
    <2> QED
        BY <2>1, <2>3
<1>9. \A d \in Calls : Terms(k, l, d)
    BY <1>7, <1>8 DEF Terms, WaitTerms, RunTerms, Pending, Inflight
<1>10. P \in SUBSET Calls
    BY InflightInCalls
<1>11. /\ errors \in [P -> Frame]
       /\ \A c \in P : errors[c] \in FrameFrom(s, c) /\ errors[c].kind = "ERROR"
    <2>1. \A c \in P : /\ ErrorFrame(s, c, status) \in FrameFrom(s, c)
                       /\ ErrorFrame(s, c, status).kind = "ERROR"
        BY <1>10, ErrorFrameType
    <2> QED
        BY <1>2, <2>1 DEF FrameFrom
<1>12. bare \in Box /\ \A d \in P : bare.queues[d] = <<>>
    <2>1. k.box \in Box
        BY DEF CoreType
    <2>2. \A d \in Calls : d \in P => bare.queues[d] = <<>>
        BY <1>3, <2>1, DiscardEffect
    <2>3. bare \in Box
        BY <1>3, <2>1, DiscardEffect
    <2> QED
        BY <1>10, <2>2, <2>3
<1>13. \A d \in P : box.queues[d] = Append(bare.queues[d], errors[d])
    <2>1. \A d \in Calls : box.queues[d] =
                IF d \in P THEN Append(bare.queues[d], errors[d]) ELSE bare.queues[d]
        BY <1>4, <1>10, <1>11, <1>12, PushEachEffect
    <2> QED
        BY <1>10, <2>1
<1>14. ASSUME NEW d \in P PROVE \E f \in FrameFrom(s, d) : f.kind = "ERROR" /\ Queue(l, d) = <<f>>
    <2>1. PICK f \in FrameFrom(s, d) : f = errors[d] /\ f.kind = "ERROR"
        BY <1>11
    <2>2. box.queues[d] = Append(<<>>, f)
        BY <1>12, <1>13, <2>1
    <2>3. box.queues[d] = <<f>>
        BY <2>2
    <2> QED
        BY <1>7, <2>1, <2>3 DEF Queue
<1> QED
    BY <1>7, <1>9, <1>14

-----------------------------------------------------------------------------
\* What an endpoint does by itself, to the flow of a call.

\* Frames that neither count nor carry anything.
Mute(q) == \A i \in 1..Len(q) : q[i].kind \in {"CANCEL", "ERROR"}

\* Call: the REQUEST carries the allowance granted with it.
Begun(s, k, l, c) ==
    /\ Opened(s, k, l, c)
    /\ l.put[c] = k.put[c] /\ l.metered[c] = k.metered[c] /\ l.got[c] = k.got[c]
    /\ ~l.pending[c].established /\ ~l.pending[c].sendClosed /\ l.pending[c].credit = 0
    /\ \E f \in Frame : /\ f.kind = "REQUEST" /\ f.call = c /\ Queue(l, c) = Append(Queue(k, c), f)
                        /\ l.granted[c] = f.ctx.credit

\* An item is queued, under an allowance if one was established.
Spends(r, v, before, after) ==
    /\ v.credit + after = r.credit + before
    /\ ~r.established => v.credit = r.credit /\ after = before
ItemSaid(s, k, l, c) ==
    /\ Queued(s, k, l, c)
    /\ \E f \in Frame : /\ f.kind = "ITEM" /\ f.call = c /\ f.n = k.put[c] + 1
                        /\ Queue(l, c) = Append(Queue(k, c), f)
    /\ l.put[c] = k.put[c] + 1
    /\ l.granted[c] = k.granted[c] /\ l.got[c] = k.got[c]
    /\ Pending(k, c) =>
        /\ ~k.pending[c].sendClosed /\ ~l.pending[c].sendClosed
        /\ l.pending[c].established = k.pending[c].established
        /\ Spends(k.pending[c], l.pending[c], k.metered[c], l.metered[c])
    /\ Inflight(k, c) =>
        /\ l.inflight[c].m = k.inflight[c].m
        /\ l.inflight[c].inboundClosed = k.inflight[c].inboundClosed
        /\ Spends(k.inflight[c], l.inflight[c], k.metered[c], l.metered[c])

\* CloseSend.
EndSaid(s, k, l, c) ==
    /\ Queued(s, k, l, c) /\ Pending(k, c) /\ ~Inflight(k, c) /\ Books(k, l, c)
    /\ \E f \in Frame : f.kind = "END" /\ f.call = c /\ Queue(l, c) = Append(Queue(k, c), f)
    /\ ~k.pending[c].sendClosed /\ l.pending[c].sendClosed
    /\ l.pending[c].established = k.pending[c].established
    /\ l.pending[c].credit = k.pending[c].credit

Allowed(s, k, l, c) ==
    /\ SameLife(k, l, c) /\ SamePast(k, l, c)
    /\ Pending(k, c) \/ Inflight(k, c)
    /\ Queue(l, c) = Queue(k, c) /\ l.outcomes[c] = k.outcomes[c]
    /\ l.put[c] = k.put[c] /\ l.metered[c] = k.metered[c] /\ l.got[c] = k.got[c]
    /\ Terms(k, l, c)
    /\ HasCredit(s)
    /\ \E items \in Nat :
        /\ l.box.credits[c] = SaturatingAdd(Amount(k.box.credits[c]), items)
        /\ l.granted[c] = k.granted[c] + items

\* A pending call completes without an END of its callee, a running one ends.
Gone(k, l, c) ==
    /\ Settled(k, l, c) /\ Books(k, l, c)
    /\ Mute(Queue(l, c)) /\ ~EndsWell(l.outcomes[c])
Over(s, k, l, c) ==
    /\ Finished(s, k, l, c) /\ Books(k, l, c)
    /\ \/ Mute(Queue(l, c))
       \/ \E f \in Frame : f.call = c /\ f.kind \in LastKinds /\ Queue(l, c) = Append(Queue(k, c), f)

Moves(s, k, l, c) ==
    \/ Idle(k, l, c) \/ Begun(s, k, l, c) \/ ItemSaid(s, k, l, c) \/ EndSaid(s, k, l, c)
    \/ Allowed(s, k, l, c) \/ Gone(k, l, c) \/ Over(s, k, l, c)

LEMMA MuteFew == Mute(<<>>) /\ \A f : f.kind \in {"CANCEL", "ERROR"} => Mute(<<f>>)
BY DEF Mute

LEMMA FromFrame ==
    ASSUME NEW s, NEW c, NEW f \in FrameFrom(s, c)
    PROVE  f \in Frame /\ f.call = c
BY DEF FrameFrom

LEMMA AbandonGone ==
    ASSUME NEW s \in Side, NEW k \in CoreType, NEW P \in SUBSET DOMAIN k.pending,
           NEW status \in Statuses, NEW l, l = AbandonPending(s, k, P, status)
    PROVE  /\ l \in CoreType /\ Calm(k, l) /\ l.ready = k.ready
           /\ \A d \in Calls : IF d \in P THEN Gone(k, l, d) ELSE Idle(k, l, d)
<1>1. /\ l \in CoreType /\ Calm(k, l)
      /\ \A d \in Calls : IF d \in P THEN Abandoned(s, k, l, d) ELSE Same(k, l, d)
    BY AbandonPendingEffect
<1>2. /\ AllBooks(k, l)
      /\ \A d \in Calls : Terms(k, l, d)
      /\ \A d \in P : ~EndsWell(l.outcomes[d])
    BY AbandonBooks
<1>3. ASSUME NEW d \in Calls, d \in P PROVE Gone(k, l, d)
    <2>1. Settled(k, l, d) /\ Mute(Queue(l, d))
        BY <1>1, <1>3, MuteFew DEF Abandoned
    <2>2. ~EndsWell(l.outcomes[d])
        BY <1>2, <1>3
    <2> QED
        BY <1>2, <2>1, <2>2 DEF Gone, AllBooks, Books
<1>4. ASSUME NEW d \in Calls, d \notin P PROVE Idle(k, l, d)
    <2>1. Alike(k, l, d)
        BY <1>1, <1>4 DEF Same
    <2> QED
        BY <1>2, <2>1, IdleMade
<1> QED
    BY <1>1, <1>2, <1>3, <1>4 DEF AllBooks

LEMMA FinishOver ==
    ASSUME NEW s \in Side, NEW k \in CoreType, NEW P \in SUBSET DOMAIN k.inflight,
           NEW status \in Statuses, NEW l, l = FinishInflight(s, k, P, status)
    PROVE  /\ l \in CoreType /\ Calm(k, l) /\ l.ready = k.ready
           /\ \A d \in Calls : IF d \in P THEN Over(s, k, l, d) ELSE Idle(k, l, d)
<1>1. /\ l \in CoreType /\ Calm(k, l)
      /\ \A d \in Calls : IF d \in P THEN Finished(s, k, l, d) ELSE Same(k, l, d)
    BY FinishInflightEffect
<1>2. /\ AllBooks(k, l)
      /\ \A d \in Calls : Terms(k, l, d)
      /\ \A d \in P : \E f \in FrameFrom(s, d) : f.kind = "ERROR" /\ Queue(l, d) = <<f>>
    BY FinishBooks
<1>3. ASSUME NEW d \in Calls, d \in P PROVE Over(s, k, l, d)
    <2>1. Mute(Queue(l, d))
        BY <1>2, <1>3, MuteFew
    <2> QED
        BY <1>1, <1>2, <1>3, <2>1 DEF Over, AllBooks, Books
<1>4. ASSUME NEW d \in Calls, d \notin P PROVE Idle(k, l, d)
    <2>1. Alike(k, l, d)
        BY <1>1, <1>4 DEF Same
    <2> QED
        BY <1>2, <2>1, IdleMade
<1> QED
    BY <1>1, <1>2, <1>3, <1>4 DEF AllBooks

LEMMA CallBegins ==
    ASSUME NEW s \in Side, NEW k \in CoreType, NEW c \in Calls, c = k.next, Allocates(s, c),
           NEW o \in Openings[s], o.req \in DOMAIN Registry[s].methods, NEW t \in Nat,
           NEW l, l = Call(s, k, o.req, o.ctx, o.packed, t)
    PROVE  /\ l.ready = k.ready
           /\ \A d \in Calls : IF d = c THEN Begun(s, k, l, d) ELSE Idle(k, l, d)
<1>1. Opened(s, k, l, c) /\ \A d \in Calls : d # c => Same(k, l, d)
    BY CallEffect
<1>2. PICK f : f = [BodyFrame("REQUEST", o.req, c, 0, o.packed) EXCEPT !.ctx = o.ctx]
    OBVIOUS
<1>3. f \in FrameFrom(s, c) /\ f.kind = "REQUEST" /\ f.ctx = o.ctx
    <2>1. f \in FrameFrom(s, c) /\ f.kind = "REQUEST"
        BY <1>2, RequestType
    <2>2. f.ctx = o.ctx
        BY <1>2 DEF BodyFrame, MakeFrame
    <2> QED
        BY <2>1, <2>2
<1>4. PICK w : w = [m |-> Registry[s].methods[o.req],
                    deadline |-> IF o.ctx.deadline = 0 THEN 0 ELSE t + o.ctx.deadline,
                    sendClosed |-> FALSE, credit |-> 0, established |-> FALSE]
    OBVIOUS
<1>5. ~w.established /\ ~w.sendClosed /\ w.credit = 0
    BY <1>4
<1>6. PICK box : box = PushTerminal(k.box, c, f)
    OBVIOUS
<1>7. PICK pending : pending = With(k.pending, c, w)
    OBVIOUS
<1>8. PICK granted : granted = [k.granted EXCEPT ![c] = o.ctx.credit]
    OBVIOUS
<1>9. l = OpenFields(k, c + 2, box, pending, [k.chain EXCEPT ![c] = k.chain[c] + 1], k.issued \cup {c}, granted)
    BY <1>2, <1>4, <1>6, <1>7, <1>8 DEF Call, OpenFields, Enter
<1>10. /\ l.put = k.put /\ l.metered = k.metered /\ l.got = k.got /\ l.ready = k.ready
       /\ l.inflight = k.inflight /\ l.pending = pending /\ l.box = box /\ l.granted = granted
    BY <1>9 DEF OpenFields, CoreType
<1>11. pending[c] = w /\ \A d \in DOMAIN k.pending : d # c => pending[d] = k.pending[d]
    BY <1>7 DEF With
<1>12. granted[c] = f.ctx.credit /\ \A d \in Calls : d # c => granted[d] = k.granted[d]
    BY <1>3, <1>8 DEF CoreType
<1>13. Queue(l, c) = Append(Queue(k, c), f)
    <2>1. PICK old \in Box : old = k.box
        BY DEF CoreType
    <2>2. f \in Frame
        BY <1>3, FromFrame
    <2>3. box = PushTerminal(old, c, f)
        BY <1>6, <2>1
    <2>4. /\ box \in Box
          /\ box.queues[c] = Append(old.queues[c], f)
          /\ \A d \in Calls : d # c => box.queues[d] = old.queues[d]
          /\ \A d \in Calls : box.credits[d] = old.credits[d]
        BY SMTT(60), <2>2, <2>3, PushTerminalEffect
    <2> QED
        BY <1>10, <2>1, <2>4 DEF Queue
<1>14. Begun(s, k, l, c)
    <2>1. f \in Frame /\ f.kind = "REQUEST" /\ f.call = c
        BY <1>3, FromFrame
    <2>2. l.granted[c] = f.ctx.credit
        BY <1>10, <1>12
    <2>3. ~l.pending[c].established /\ ~l.pending[c].sendClosed /\ l.pending[c].credit = 0
        BY <1>5, <1>10, <1>11
    <2> QED
        BY <1>1, <1>10, <1>13, <2>1, <2>2, <2>3 DEF Begun
<1>15. ASSUME NEW d \in Calls, d # c PROVE Idle(k, l, d)
    <2>1. Alike(k, l, d)
        BY <1>1, <1>15 DEF Same
    <2>2. Books(k, l, d)
        BY <1>10, <1>12, <1>15 DEF Books
    <2>3. Terms(k, l, d)
        BY <1>10, <1>11, <1>15 DEF Terms, WaitTerms, RunTerms, Pending, Inflight
    <2> QED
        BY <2>1, <2>2, <2>3 DEF Idle
<1> QED
    BY <1>10, <1>14, <1>15

LEMMA CallRefusedIdle ==
    ASSUME NEW k \in CoreType, NEW l, l = CallRefused(k)
    PROVE  l.ready = k.ready /\ \A d \in Calls : Idle(k, l, d)
<1>1. \A d \in Calls : Same(k, l, d)
    BY CallRefusedEffect
<1>2. AllBooks(k, l) /\ l.pending = k.pending /\ l.inflight = k.inflight
    BY CallRefusedIs DEF AllBooks, CoreType
<1>3. \A d \in Calls : Terms(k, l, d)
    BY <1>2 DEF Terms, WaitTerms, RunTerms, Pending, Inflight
<1> QED
    BY <1>1, <1>2, <1>3, IdleMade DEF Same, AllBooks

LEMMA OnReadyIdle ==
    ASSUME NEW k \in CoreType, NEW l, l = [k EXCEPT !.ready = TRUE]
    PROVE  \A d \in Calls : Idle(k, l, d)
<1>1. \A d \in Calls : Same(k, l, d)
    BY OnReadyEffect
<1>2. /\ l.put = k.put /\ l.metered = k.metered /\ l.granted = k.granted /\ l.got = k.got
      /\ l.pending = k.pending /\ l.inflight = k.inflight
    BY DEF CoreType
<1> QED
    BY <1>1, <1>2 DEF Idle, Same, Books, Terms, WaitTerms, RunTerms, Pending, Inflight

\* Where the polling stands is no part of the flow.
Turned(k, l) ==
    /\ l \in CoreType
    /\ l.ready = k.ready /\ l.finished = k.finished /\ l.next = k.next
    /\ l.pending = k.pending /\ l.inflight = k.inflight /\ l.box = k.box
    /\ l.outcomes = k.outcomes /\ l.chain = k.chain /\ l.issued = k.issued /\ l.leftAt = k.leftAt
    /\ l.put = k.put /\ l.metered = k.metered /\ l.granted = k.granted /\ l.got = k.got

LEMMA TurnedIdle == \A k, l : Turned(k, l) => \A d \in Calls : Idle(k, l, d)
BY DEF Turned, Idle, Books, Terms, WaitTerms, RunTerms, Alike, SameLife, SamePast, Pending, Inflight, Queue

LEMMA IdleTwice == \A k, m, l, c : Idle(k, m, c) /\ Idle(m, l, c) => Idle(k, l, c)
BY DEF Idle, Books, Terms, WaitTerms, RunTerms, Alike, SameLife, SamePast

LEMMA IdleThenOver ==
    ASSUME NEW s, NEW k, NEW m, NEW l, NEW c, Idle(k, m, c), Over(s, m, l, c)
    PROVE  Over(s, k, l, c)
<1>1. Finished(s, k, l, c)
    BY AlikeThenFinished DEF Idle, Over
<1>2. Books(k, l, c)
    BY DEF Idle, Over, Books
<1>3. Queue(m, c) = Queue(k, c)
    BY DEF Idle, Alike
<1> QED
    BY <1>1, <1>2, <1>3 DEF Over

LEMMA OverThenTurned ==
    ASSUME NEW s, NEW k, NEW m, NEW l, NEW c, Over(s, k, m, c), Turned(m, l)
    PROVE  Over(s, k, l, c)
<1>1. Finished(s, k, l, c)
    BY DEF Over, Turned, Finished, SamePast, Pending, Inflight, Queue
<1>2. Books(k, l, c)
    BY DEF Over, Turned, Books
<1>3. Queue(l, c) = Queue(m, c)
    BY DEF Turned, Queue
<1> QED
    BY <1>1, <1>2, <1>3 DEF Over

LEMMA IdleThenItem ==
    ASSUME NEW s, NEW k, NEW m, NEW l, NEW c, Idle(k, m, c), Inflight(k, c), ~Pending(k, c),
           ItemSaid(s, m, l, c), k.inflight[c].established = m.inflight[c].established
    PROVE  ItemSaid(s, k, l, c)
<1>1. Queue(m, c) = Queue(k, c) /\ Inflight(m, c) /\ ~Pending(m, c)
    BY DEF Idle, Alike, SameLife
<1>2. Queued(s, k, l, c)
    BY <1>1 DEF ItemSaid, Queued, Idle, Alike, SameLife, SamePast
<1>3. Books(k, m, c) /\ RunTerms(k, m, c)
    BY DEF Idle, Terms
<1>4. /\ l.inflight[c].m = k.inflight[c].m
      /\ l.inflight[c].inboundClosed = k.inflight[c].inboundClosed
      /\ Spends(k.inflight[c], l.inflight[c], k.metered[c], l.metered[c])
    BY <1>1, <1>3 DEF ItemSaid, RunTerms, Books, Spends
<1>5. \E f \in Frame : /\ f.kind = "ITEM" /\ f.call = c /\ f.n = k.put[c] + 1
                       /\ Queue(l, c) = Append(Queue(k, c), f)
    BY <1>1, <1>3 DEF ItemSaid, Books
<1> QED
    BY <1>2, <1>3, <1>4, <1>5 DEF ItemSaid, Books

LEMMA CountBooks ==
    ASSUME NEW k \in CoreType, NEW c \in Calls, NEW r, r.established \in BOOLEAN, NEW l, l = CountItem(k, c, r)
    PROVE  /\ l.put[c] = k.put[c] + 1
           /\ l.metered[c] = IF r.established THEN k.metered[c] + 1 ELSE k.metered[c]
           /\ \A d \in Calls : d # c => l.put[d] = k.put[d] /\ l.metered[d] = k.metered[d]
           /\ l.granted = k.granted /\ l.got = k.got /\ l.ready = k.ready
           /\ l.pending = k.pending /\ l.inflight = k.inflight /\ l.box = k.box
<1>1. PICK n : n = IF r.established THEN k.metered[c] + 1 ELSE k.metered[c]
    OBVIOUS
<1>2. PICK put : put = [k.put EXCEPT ![c] = k.put[c] + 1]
    OBVIOUS
<1>3. PICK metered : metered = [k.metered EXCEPT ![c] = n]
    OBVIOUS
<1>4. l = [k EXCEPT !.put = put, !.metered = metered]
    BY <1>1, <1>2, <1>3 DEF CountItem
<1>5. /\ l.put = put /\ l.metered = metered
      /\ l.granted = k.granted /\ l.got = k.got /\ l.ready = k.ready
      /\ l.pending = k.pending /\ l.inflight = k.inflight /\ l.box = k.box
    BY <1>4 DEF CoreType
<1>6. /\ put[c] = k.put[c] + 1 /\ metered[c] = n
      /\ \A d \in Calls : d # c => put[d] = k.put[d] /\ metered[d] = k.metered[d]
    BY <1>2, <1>3 DEF CoreType
<1> QED
    BY <1>1, <1>5, <1>6

LEMMA SendItemSaid ==
    ASSUME NEW s \in Side, NEW k \in CoreType, NEW c \in Calls, NEW packed \in Packing,
           CanSendItem(k, c), ~Inflight(k, c), NEW l, l = SendItem(k, c, packed)
    PROVE  /\ l.ready = k.ready
           /\ \A d \in Calls : IF d = c THEN ItemSaid(s, k, l, d) ELSE Idle(k, l, d)
<1>1. /\ Queued(s, k, l, c) /\ l.inflight = k.inflight
      /\ \A d \in Calls : d # c => Same(k, l, d)
    BY SendItemEffect
<1>2. PICK r : r = k.pending[c]
    OBVIOUS
<1>3. Pending(k, c) /\ r \in Waiting /\ ~r.sendClosed
    BY <1>2, PendingInCalls DEF CanSendItem, Pending
<1>4. r.m.item \in STRING /\ r.established \in BOOLEAN /\ r.credit \in Int
    BY <1>3, QueueConstants DEF Waiting, Method
<1>5. PICK item \in STRING : item = r.m.item
    BY <1>4
<1>6. PICK n \in Nat : n = k.put[c] + 1
    <2>1. k.put[c] \in Nat
        BY DEF CoreType
    <2> QED
        BY <2>1
<1>7. PICK f : f = BodyFrame("ITEM", item, c, n, packed)
    OBVIOUS
<1>8. f \in Frame /\ f.kind = "ITEM" /\ f.call = c /\ f.n = n
    <2>1. "ITEM" \in Kinds
        BY DEF Kinds
    <2>2. f \in Frame /\ f.kind = "ITEM" /\ f.call = c
        BY <1>7, <2>1, BodyFrameType
    <2>3. f.n = n
        BY <1>7 DEF BodyFrame, MakeFrame
    <2> QED
        BY <2>2, <2>3
<1>9. PICK v : v = [r EXCEPT !.credit = IF r.established THEN @ - 1 ELSE @]
    OBVIOUS
<1>10. /\ v.sendClosed = r.sendClosed /\ v.established = r.established
       /\ v.credit = IF r.established THEN r.credit - 1 ELSE r.credit
    BY <1>3, <1>9 DEF Waiting
<1>11. PICK box : box = PushTerminal(k.box, c, f)
    OBVIOUS
<1>12. PICK pending : pending = [k.pending EXCEPT ![c] = v]
    OBVIOUS
<1>13. PICK u : u = [k EXCEPT !.box = box, !.pending = pending]
    OBVIOUS
<1>14. l = CountItem(u, c, r)
    BY <1>2, <1>5, <1>6, <1>7, <1>9, <1>11, <1>12, <1>13 DEF SendItem
<1>15. PICK old \in Box : old = k.box
    BY DEF CoreType
<1>16. /\ box \in Box
       /\ box.queues[c] = Append(old.queues[c], f)
       /\ \A d \in Calls : d # c => box.queues[d] = old.queues[d]
       /\ \A d \in Calls : box.credits[d] = old.credits[d]
    <2>1. box = PushTerminal(old, c, f)
        BY <1>11, <1>15
    <2> QED
        BY <1>8, <2>1, PushTerminalEffect
<1>17. /\ pending \in Maps(Waiting) /\ pending[c] = v
       /\ \A d \in DOMAIN k.pending : d # c => pending[d] = k.pending[d]
    <2>1. PICK was \in Maps(Waiting) : was = k.pending
        BY DEF CoreType
    <2>2. ~Starved(r)
        BY <1>2 DEF CanSendItem
    <2>3. v \in Waiting
        BY <1>3, <1>9, <2>2, SpendType
    <2>4. PICK x \in DOMAIN was : x = c
        BY <1>3, <2>1 DEF Pending
    <2>5. pending = [was EXCEPT ![x] = v]
        BY <1>12, <2>1, <2>4
    <2>6. /\ [was EXCEPT ![x] = v] \in Maps(Waiting)
          /\ DOMAIN [was EXCEPT ![x] = v] = DOMAIN was
          /\ [was EXCEPT ![x] = v][x] = v
          /\ \A d \in DOMAIN was : d # x => [was EXCEPT ![x] = v][d] = was[d]
        BY <2>3, ChangedMap
    <2> QED
        BY <2>1, <2>4, <2>5, <2>6
<1>18. /\ u \in CoreType /\ u.put = k.put /\ u.metered = k.metered /\ u.granted = k.granted
       /\ u.got = k.got /\ u.ready = k.ready
       /\ u.pending = pending /\ u.inflight = k.inflight /\ u.box = box
    BY <1>13, <1>16, <1>17 DEF CoreType
<1>19. /\ l.put[c] = u.put[c] + 1
       /\ l.metered[c] = IF r.established THEN u.metered[c] + 1 ELSE u.metered[c]
       /\ \A d \in Calls : d # c => l.put[d] = u.put[d] /\ l.metered[d] = u.metered[d]
       /\ l.granted = u.granted /\ l.got = u.got /\ l.ready = u.ready
       /\ l.pending = u.pending /\ l.inflight = u.inflight /\ l.box = u.box
    <2>1. u \in CoreType
        BY <1>18
    <2> QED
        BY <1>4, <1>14, <2>1, CountBooks
<1>20. ItemSaid(s, k, l, c)
    <2>1. Spends(r, v, k.metered[c], l.metered[c])
        <3>1. k.metered[c] \in Int
            BY DEF CoreType
        <3> QED
            BY <1>4, <1>10, <1>18, <1>19, <3>1 DEF Spends
    <2>2. Queue(l, c) = Append(Queue(k, c), f)
        BY <1>15, <1>16, <1>18, <1>19 DEF Queue
    <2>3. l.put[c] = k.put[c] + 1 /\ l.granted[c] = k.granted[c] /\ l.got[c] = k.got[c]
        BY <1>18, <1>19
    <2>4. l.pending[c] = v
        BY <1>17, <1>18, <1>19
    <2> QED
        BY <1>1, <1>2, <1>3, <1>6, <1>8, <1>10, <2>1, <2>2, <2>3, <2>4 DEF ItemSaid
<1>21. ASSUME NEW d \in Calls, d # c PROVE Idle(k, l, d)
    <2>1. Alike(k, l, d)
        BY <1>1, <1>21 DEF Same
    <2>2. Books(k, l, d)
        BY <1>18, <1>19, <1>21 DEF Books
    <2>3. Terms(k, l, d)
        BY <1>1, <1>17, <1>18, <1>19, <1>21 DEF Terms, WaitTerms, RunTerms, Pending, Inflight
    <2> QED
        BY <2>1, <2>2, <2>3 DEF Idle
<1> QED
    BY <1>18, <1>19, <1>20, <1>21

LEMMA CloseSendSaid ==
    ASSUME NEW s \in Side, NEW k \in CoreType, NEW c \in Calls,
           CanCloseSend(k, c), ~Inflight(k, c), NEW l, l = CloseSend(s, k, c)
    PROVE  /\ l.ready = k.ready
           /\ \A d \in Calls : IF d = c THEN EndSaid(s, k, l, d) ELSE Idle(k, l, d)
<1>1. /\ Queued(s, k, l, c) /\ l.inflight = k.inflight
      /\ \A d \in Calls : d # c => Same(k, l, d)
    BY CloseSendEffect
<1>2. PICK r : r = k.pending[c]
    OBVIOUS
<1>3. Pending(k, c) /\ r \in Waiting /\ ~r.sendClosed
    BY <1>2, PendingInCalls DEF CanCloseSend, Pending
<1>4. PICK f : f = ControlFrame(s, c, "END")
    OBVIOUS
<1>5. f \in Frame /\ f.kind = "END" /\ f.call = c
    <2>1. f \in FrameFrom(s, c) /\ f.kind = "END"
        BY <1>4, ControlFrameType
    <2> QED
        BY <2>1, FromFrame
<1>6. PICK v : v = [r EXCEPT !.sendClosed = TRUE]
    OBVIOUS
<1>7. v.sendClosed /\ v.established = r.established /\ v.credit = r.credit
    BY <1>3, <1>6 DEF Waiting
<1>8. PICK box : box = PushTerminal(k.box, c, f)
    OBVIOUS
<1>9. PICK pending : pending = [k.pending EXCEPT ![c] = v]
    OBVIOUS
<1>10. l = [k EXCEPT !.box = box, !.pending = pending]
    BY <1>2, <1>4, <1>6, <1>8, <1>9 DEF CloseSend
<1>11. AllBooks(k, l) /\ l.pending = pending /\ l.box = box
    BY <1>10 DEF CoreType, AllBooks
<1>12. pending[c] = v /\ \A d \in DOMAIN k.pending : d # c => pending[d] = k.pending[d]
    <2>1. c \in DOMAIN k.pending
        BY <1>3 DEF Pending
    <2> QED
        BY <1>9, <2>1
<1>13. PICK old \in Box : old = k.box
    BY DEF CoreType
<1>14. /\ box \in Box
       /\ box.queues[c] = Append(old.queues[c], f)
       /\ \A d \in Calls : d # c => box.queues[d] = old.queues[d]
       /\ \A d \in Calls : box.credits[d] = old.credits[d]
    <2>1. box = PushTerminal(old, c, f)
        BY <1>8, <1>13
    <2> QED
        BY <1>5, <2>1, PushTerminalEffect
<1>15. EndSaid(s, k, l, c)
    <2>1. Queue(l, c) = Append(Queue(k, c), f)
        BY <1>11, <1>13, <1>14 DEF Queue
    <2>2. l.pending[c] = v /\ Books(k, l, c)
        BY <1>11, <1>12 DEF AllBooks, Books
    <2> QED
        BY <1>1, <1>2, <1>3, <1>5, <1>7, <2>1, <2>2 DEF EndSaid
<1>16. ASSUME NEW d \in Calls, d # c PROVE Idle(k, l, d)
    <2>1. Alike(k, l, d)
        BY <1>1, <1>16 DEF Same
    <2>2. Terms(k, l, d)
        BY <1>1, <1>11, <1>12, <1>16 DEF Terms, WaitTerms, RunTerms, Pending, Inflight
    <2> QED
        BY <1>11, <2>1, <2>2, IdleMade
<1> QED
    BY <1>11, <1>15, <1>16 DEF AllBooks

LEMMA GrantAllows ==
    ASSUME NEW s \in Side, HasCredit(s), NEW k \in CoreType, NEW c \in Calls, NEW items \in Nat,
           Pending(k, c) \/ Inflight(k, c), NEW l, l = Grant(k, c, items)
    PROVE  /\ l.ready = k.ready
           /\ \A d \in Calls : IF d = c THEN Allowed(s, k, l, d) ELSE Idle(k, l, d)
<1>1. PICK box : box = GrantTo(k.box, c, items)
    OBVIOUS
<1>2. PICK granted : granted = [k.granted EXCEPT ![c] = k.granted[c] + items]
    OBVIOUS
<1>3. l = [k EXCEPT !.box = box, !.granted = granted]
    BY <1>1, <1>2 DEF Grant
<1>4. /\ l.put = k.put /\ l.metered = k.metered /\ l.got = k.got /\ l.ready = k.ready
      /\ l.granted = granted /\ l.box = box /\ l.pending = k.pending /\ l.inflight = k.inflight
      /\ l.outcomes = k.outcomes /\ l.chain = k.chain /\ l.issued = k.issued /\ l.leftAt = k.leftAt
    BY <1>3 DEF CoreType
<1>5. /\ granted[c] = k.granted[c] + items
      /\ \A d \in Calls : d # c => granted[d] = k.granted[d]
    BY <1>2 DEF CoreType
<1>6. PICK old \in Box : old = k.box
    BY DEF CoreType
<1>7. /\ \A d \in Calls : box.queues[d] = old.queues[d]
      /\ \A d \in Calls : d # c => box.credits[d] = old.credits[d]
      /\ box.credits[c] = SaturatingAdd(Amount(old.credits[c]), items)
    <2>1. PICK sum : sum = SaturatingAdd(Amount(old.credits[c]), items)
        OBVIOUS
    <2>2. PICK credits : credits = [old.credits EXCEPT ![c] = sum]
        OBVIOUS
    <2>3. box = [old EXCEPT !.credits = credits]
        BY <1>1, <1>6, <2>1, <2>2 DEF GrantTo, Amount
    <2>4. box.queues = old.queues /\ box.credits = credits /\ c \in DOMAIN old.credits
        BY <2>3 DEF Box
    <2>5. credits[c] = sum /\ \A d \in Calls : d # c => credits[d] = old.credits[d]
        BY <2>2, <2>4 DEF Box
    <2> QED
        BY <2>1, <2>4, <2>5
<1>8. ASSUME NEW d \in Calls PROVE SameLife(k, l, d) /\ SamePast(k, l, d) /\ Terms(k, l, d)
    BY <1>4 DEF SameLife, SamePast, Terms, WaitTerms, RunTerms, Pending, Inflight
<1>9. Allowed(s, k, l, c)
    <2>1. Queue(l, c) = Queue(k, c) /\ l.box.credits[c] = SaturatingAdd(Amount(k.box.credits[c]), items)
        BY <1>4, <1>6, <1>7 DEF Queue
    <2>2. l.granted[c] = k.granted[c] + items
        BY <1>4, <1>5
    <2> QED
        BY <1>4, <1>8, <2>1, <2>2 DEF Allowed
<1>10. ASSUME NEW d \in Calls, d # c PROVE Idle(k, l, d)
    <2>1. Queue(l, d) = Queue(k, d) /\ l.box.credits[d] = k.box.credits[d]
        BY <1>4, <1>6, <1>7, <1>10 DEF Queue
    <2>2. Books(k, l, d)
        BY <1>4, <1>5, <1>10 DEF Books
    <2> QED
        BY <1>4, <1>8, <2>1, <2>2 DEF Idle, Alike
<1> QED
    BY <1>4, <1>9, <1>10

LEMMA TurnTurned ==
    ASSUME NEW k \in CoreType, NEW c \in Calls, NEW l, l = Turn(k, c)
    PROVE  Turned(k, l)
<1>1. PICK todo : todo = k.todo \ {c}
    OBVIOUS
<1>2. todo \in SUBSET Calls
    BY <1>1 DEF CoreType
<1>3. l = [k EXCEPT !.todo = todo, !.cur = c]
    BY <1>1 DEF Turn
<1> QED
    BY <1>2, <1>3 DEF CoreType, Turned

LEMMA PolledTurned ==
    ASSUME NEW k \in CoreType, NEW l, l = Polled(k)
    PROVE  Turned(k, l)
<1>1. l = [k EXCEPT !.cur = NoCall]
    BY DEF Polled
<1> QED
    BY <1>1 DEF CoreType, Turned

LEMMA TurnedAllowed ==
    ASSUME NEW s, NEW k, NEW m, NEW l, NEW c, Turned(k, m), Allowed(s, m, l, c)
    PROVE  Allowed(s, k, l, c)
<1>1. SameLife(k, l, c) /\ SamePast(k, l, c) /\ (Pending(k, c) \/ Inflight(k, c))
    BY DEF Turned, Allowed, SameLife, SamePast, Pending, Inflight
<1>2. Terms(k, l, c)
    BY DEF Turned, Allowed, Terms, WaitTerms, RunTerms, Pending, Inflight
<1> QED
    BY <1>1, <1>2 DEF Turned, Allowed, Queue

LEMMA StartPollMoves ==
    ASSUME NEW s \in Side, NEW k \in CoreType, NEW c \in Calls, Inflight(k, c), NEW items \in Nat,
           NEW l, l = StartPoll(s, k, c, items)
    PROVE  l.ready = k.ready /\ \A d \in Calls : Moves(s, k, l, d)
<1>1. PICK m : m = Turn(k, c)
    OBVIOUS
<1>2. Turned(k, m)
    BY <1>1, TurnTurned
<1>3. m \in CoreType /\ Inflight(m, c) /\ m.ready = k.ready
    BY <1>2 DEF Turned, Inflight
<1>4. l = m \/ (HasCredit(s) /\ l = Grant(m, c, items))
    BY <1>1 DEF StartPoll, Turn, Asked
<1>5. \A d \in Calls : Idle(k, m, d)
    BY <1>2, TurnedIdle
<1>6. CASE l = m
    BY <1>3, <1>5, <1>6 DEF Moves
<1>7. CASE HasCredit(s) /\ l = Grant(m, c, items)
    <2>1. HasCredit(s)
        BY <1>7
    <2>2. /\ l.ready = m.ready
          /\ \A d \in Calls : IF d = c THEN Allowed(s, m, l, d) ELSE Idle(m, l, d)
        BY <1>3, <1>7, <2>1, GrantAllows
    <2>3. Allowed(s, k, l, c)
        BY <1>2, <2>2, TurnedAllowed
    <2>4. \A d \in Calls : d # c => Idle(k, l, d)
        BY <1>5, <2>2, IdleTwice
    <2> QED
        BY <1>3, <2>2, <2>3, <2>4 DEF Moves
<1> QED
    BY <1>4, <1>6, <1>7

LEMMA FinishOneOver ==
    ASSUME NEW s \in Side, NEW k \in CoreType, NEW c \in Calls, Inflight(k, c),
           NEW status \in Statuses, NEW l, l = FinishInflight(s, k, Only(c), status)
    PROVE  /\ l \in CoreType /\ Calm(k, l) /\ l.ready = k.ready
           /\ \A d \in Calls : IF d = c THEN Over(s, k, l, d) ELSE Idle(k, l, d)
<1>1. PICK P \in SUBSET DOMAIN k.inflight : P = {c}
    BY DEF Inflight
<1>2. l = FinishInflight(s, k, P, status)
    BY <1>1 DEF Only
<1>3. /\ l \in CoreType /\ Calm(k, l) /\ l.ready = k.ready
      /\ \A d \in Calls : IF d \in P THEN Over(s, k, l, d) ELSE Idle(k, l, d)
    BY <1>2, FinishOver
<1> QED
    BY <1>1, <1>3

LEMMA AbandonOneGone ==
    ASSUME NEW s \in Side, NEW k \in CoreType, NEW c \in Calls, Pending(k, c),
           NEW status \in Statuses, NEW l, l = AbandonPending(s, k, Only(c), status)
    PROVE  /\ l \in CoreType /\ Calm(k, l) /\ l.ready = k.ready
           /\ \A d \in Calls : IF d = c THEN Gone(k, l, d) ELSE Idle(k, l, d)
<1>1. PICK P \in SUBSET DOMAIN k.pending : P = {c}
    BY DEF Pending
<1>2. l = AbandonPending(s, k, P, status)
    BY <1>1 DEF Only
<1>3. /\ l \in CoreType /\ Calm(k, l) /\ l.ready = k.ready
      /\ \A d \in Calls : IF d \in P THEN Gone(k, l, d) ELSE Idle(k, l, d)
    BY <1>2, AbandonGone
<1> QED
    BY <1>1, <1>3

LEMMA GrantRefusedMoves ==
    ASSUME NEW s \in Side, NEW k \in CoreType, NEW c \in Calls, Inflight(k, c),
           NEW status \in Statuses, NEW l, l = GrantRefused(s, k, c, status)
    PROVE  l.ready = k.ready /\ \A d \in Calls : Moves(s, k, l, d)
<1>1. PICK todo : todo = k.todo \ {c}
    OBVIOUS
<1>2. PICK m : m = [k EXCEPT !.todo = todo]
    OBVIOUS
<1>3. Turned(k, m)
    <2>1. todo \in SUBSET Calls
        BY <1>1 DEF CoreType
    <2> QED
        BY <1>2, <2>1 DEF CoreType, Turned
<1>4. m \in CoreType /\ Inflight(m, c) /\ m.ready = k.ready
    BY <1>3 DEF Turned, Inflight
<1>5. l = FinishInflight(s, m, Only(c), status)
    BY <1>1, <1>2 DEF GrantRefused, Only
<1>6. /\ l.ready = m.ready
      /\ \A d \in Calls : IF d = c THEN Over(s, m, l, d) ELSE Idle(m, l, d)
    BY <1>4, <1>5, FinishOneOver
<1>7. \A d \in Calls : Idle(k, m, d)
    BY <1>3, TurnedIdle
<1>8. Over(s, k, l, c)
    BY <1>6, <1>7, IdleThenOver
<1>9. \A d \in Calls : d # c => Idle(k, l, d)
    BY <1>6, <1>7, IdleTwice
<1> QED
    BY <1>4, <1>6, <1>8, <1>9 DEF Moves

LEMMA GoneThenIdle ==
    ASSUME NEW k, NEW m, NEW l, NEW c, Gone(k, m, c), Idle(m, l, c), ~Inflight(k, c)
    PROVE  Gone(k, l, c)
<1>1. Settled(k, l, c)
    BY DEF Gone, Idle, Alike, SameLife, SamePast, Settled, SameClock
<1>2. Queue(l, c) = Queue(m, c) /\ l.outcomes[c] = m.outcomes[c] /\ Books(k, l, c)
    BY DEF Gone, Idle, Alike, Books
<1> QED
    BY <1>1, <1>2 DEF Gone

LEMMA TickMoves ==
    ASSUME NEW s \in Side, NEW k \in CoreType, \A c \in Calls : Apart(s, k, c), NEW t \in Nat,
           NEW l, l = Tick(s, k, t)
    PROVE  l.ready = k.ready /\ \A d \in Calls : Moves(s, k, l, d)
<1>1. PICK status \in Statuses : status = "DEADLINE_EXCEEDED"
    BY StatusTypes
<1>2. PICK P \in SUBSET DOMAIN k.pending : P = {c \in DOMAIN k.pending : Due(k.pending[c].deadline, t)}
    OBVIOUS
<1>3. PICK m : m = AbandonPending(s, k, P, status)
    OBVIOUS
<1>4. /\ m \in CoreType /\ Calm(k, m) /\ m.ready = k.ready
      /\ \A d \in Calls : IF d \in P THEN Gone(k, m, d) ELSE Idle(k, m, d)
    BY <1>3, AbandonGone
<1>5. PICK Q \in SUBSET DOMAIN m.inflight : Q = {c \in DOMAIN m.inflight : Due(NextExpiry(m.inflight[c]), t)}
    OBVIOUS
<1>6. PICK u : u = FinishInflight(s, m, Q, status)
    OBVIOUS
<1>7. /\ u \in CoreType /\ Calm(m, u) /\ u.ready = m.ready
      /\ \A d \in Calls : IF d \in Q THEN Over(s, m, u, d) ELSE Idle(m, u, d)
    <2>1. m \in CoreType
        BY <1>4
    <2> QED
        BY <1>6, <2>1, FinishOver
<1>8. l = [u EXCEPT !.todo = DOMAIN u.inflight]
    BY <1>1, <1>2, <1>3, <1>5, <1>6 DEF Tick, ExpirePending, ExpireInflight
<1>9. Turned(u, l)
    <2>1. u \in CoreType
        BY <1>7
    <2>2. DOMAIN u.inflight \in SUBSET Calls
        BY <2>1, InflightInCalls
    <2> QED
        BY <1>8, <2>1, <2>2 DEF CoreType, Turned
<1>10. \A d \in Calls : Idle(u, l, d)
    BY <1>9, TurnedIdle
<1>11. ASSUME NEW d \in Calls
       PROVE  Idle(k, l, d) \/ Gone(k, l, d) \/ Over(s, k, l, d)
    <2>1. CASE d \in P
        <3>1. Gone(k, m, d) /\ ~Inflight(k, d)
            BY <1>4, <2>1 DEF Apart, Gone, Settled
        <3>2. d \notin Q
            BY <1>4, <3>1 DEF Inflight, Gone, Settled
        <3>3. Idle(m, l, d)
            BY <1>7, <1>10, <3>2, IdleTwice
        <3> QED
            BY <3>1, <3>3, GoneThenIdle
    <2>2. CASE d \notin P /\ d \in Q
        <3>1. Idle(k, m, d) /\ Over(s, m, u, d)
            BY <1>4, <1>7, <2>2
        <3>2. Over(s, k, u, d)
            BY <3>1, IdleThenOver
        <3> QED
            BY <1>9, <3>2, OverThenTurned
    <2>3. CASE d \notin P /\ d \notin Q
        BY <1>4, <1>7, <1>10, <2>3, IdleTwice
    <2> QED
        BY <2>1, <2>2, <2>3
<1> QED
    BY <1>4, <1>7, <1>9, <1>11 DEF Moves, Turned

\* m is k but for the clock of the queue of c.
Retimed(k, m, c) ==
    /\ m \in CoreType /\ m.ready = k.ready /\ m.box = k.box
    /\ Inflight(m, c) /\ m.inflight[c] \in Running
    /\ m.inflight[c].established = k.inflight[c].established
    /\ \A d \in Calls : Idle(k, m, d)

LEMMA ClockIdle ==
    ASSUME NEW k \in CoreType, NEW c \in Calls, Inflight(k, c), NEW t \in Nat,
           NEW m, m = Clocked(k, c, t)
    PROVE  Retimed(k, m, c)
<1>1. PICK old \in Running : old = k.inflight[c]
    BY InflightInCalls DEF Inflight
<1>2. PICK r \in Running : /\ r.m = old.m /\ r.credit = old.credit /\ r.established = old.established
                           /\ r.inboundClosed = old.inboundClosed
                           /\ r = [old EXCEPT !.fullSince = t]
    BY DEF Running
<1>3. PICK inflight : inflight = [k.inflight EXCEPT ![c] = r]
    OBVIOUS
<1>4. m = SetRunning(k, c, r) /\ m = [k EXCEPT !.inflight = inflight]
    BY <1>1, <1>2, <1>3 DEF SetRunning, Clocked
<1>9. m = SetRunning(k, c, r)
    BY <1>4
<1>5. /\ m \in CoreType /\ m.box = k.box
      /\ DOMAIN m.inflight = DOMAIN k.inflight /\ m.pending = k.pending
      /\ m.inflight[c] = r /\ Alike(k, m, c)
      /\ \A d \in Calls : d # c => Same(k, m, d)
    BY <1>9, RunningChanged
<1>6. AllBooks(k, m) /\ m.inflight = inflight
    BY <1>4 DEF CoreType, AllBooks
<1>7. \A d \in DOMAIN k.inflight : d # c => inflight[d] = k.inflight[d]
    BY <1>3
<1>8. ASSUME NEW d \in Calls PROVE Idle(k, m, d)
    <2>1. Alike(k, m, d)
        BY <1>5 DEF Same
    <2>2. Terms(k, m, d)
        BY <1>1, <1>2, <1>5, <1>6, <1>7 DEF Terms, WaitTerms, RunTerms, Pending, Inflight
    <2> QED
        BY <1>6, <2>1, <2>2, IdleMade
<1> QED
    BY <1>1, <1>2, <1>5, <1>6, <1>8 DEF Retimed, AllBooks, Inflight

LEMMA RetimedSelf ==
    ASSUME NEW k \in CoreType, NEW c \in Calls, Inflight(k, c)
    PROVE  Retimed(k, k, c)
BY IdleSelf, InflightInCalls DEF Retimed, Inflight

LEMMA LeaveMoves ==
    ASSUME NEW s, NEW k, NEW c \in Calls, NEW m, Retimed(k, m, c), NEW l, l = Polled(m)
    PROVE  l.ready = k.ready /\ \A d \in Calls : Moves(s, k, l, d)
<1>1. m \in CoreType /\ m.ready = k.ready /\ \A d \in Calls : Idle(k, m, d)
    BY DEF Retimed
<1>2. Turned(m, l)
    BY <1>1, PolledTurned
<1>3. \A d \in Calls : Idle(m, l, d)
    BY <1>2, TurnedIdle
<1>4. \A d \in Calls : Idle(k, l, d)
    BY <1>1, <1>3, IdleTwice
<1> QED
    BY <1>1, <1>2, <1>4 DEF Moves, Turned

\* A call ends in u, then the loop is left.
LEMMA OverMoves ==
    ASSUME NEW s, NEW k, NEW c \in Calls, NEW m, Retimed(k, m, c),
           NEW u, u \in CoreType, u.ready = m.ready, Over(s, m, u, c),
           \A d \in Calls : d # c => Idle(m, u, d),
           NEW l, l = Polled(u)
    PROVE  l.ready = k.ready /\ \A d \in Calls : Moves(s, k, l, d)
<1>1. m.ready = k.ready /\ \A d \in Calls : Idle(k, m, d)
    BY DEF Retimed
<1>2. Turned(u, l)
    BY PolledTurned
<1>3. \A d \in Calls : Idle(u, l, d)
    BY <1>2, TurnedIdle
<1>4. Over(s, k, u, c)
    BY <1>1, IdleThenOver
<1>5. Over(s, k, l, c)
    BY <1>2, <1>4, OverThenTurned
<1>6. ASSUME NEW d \in Calls, d # c PROVE Idle(k, l, d)
    <2>1. Idle(k, m, d) /\ Idle(m, u, d) /\ Idle(u, l, d)
        BY <1>1, <1>3, <1>6
    <2>2. Idle(k, u, d)
        BY <2>1, IdleTwice
    <2> QED
        BY <2>1, <2>2, IdleTwice
<1> QED
    BY <1>1, <1>2, <1>5, <1>6 DEF Moves, Turned

LEMMA FailMoves ==
    ASSUME NEW s \in Side, NEW k, NEW c \in Calls, NEW m, Retimed(k, m, c), NEW status \in Statuses,
           NEW l, l = Polled(FinishInflight(s, m, Only(c), status))
    PROVE  l.ready = k.ready /\ \A d \in Calls : Moves(s, k, l, d)
<1>1. m \in CoreType /\ Inflight(m, c)
    BY DEF Retimed
<1>2. PICK u : u = FinishInflight(s, m, Only(c), status)
    OBVIOUS
<1>3. /\ u \in CoreType /\ Calm(m, u) /\ u.ready = m.ready
      /\ \A d \in Calls : IF d = c THEN Over(s, m, u, d) ELSE Idle(m, u, d)
    BY <1>1, <1>2, FinishOneOver
<1>4. u \in CoreType /\ u.ready = m.ready /\ Over(s, m, u, c) /\ l = Polled(u)
    BY <1>2, <1>3
<1>5. \A d \in Calls : d # c => Idle(m, u, d)
    BY <1>3
<1> QED
    BY <1>4, <1>5, OverMoves

LEMMA CompleteMoves ==
    ASSUME NEW s \in Side, NEW k, NEW c \in Calls, NEW m, Retimed(k, m, c),
           NEW f \in FrameFrom(s, c), f.kind \in LastKinds, NEW l, l = Complete(m, c, f)
    PROVE  l.ready = k.ready /\ \A d \in Calls : Moves(s, k, l, d)
<1>1. m \in CoreType /\ Inflight(m, c)
    BY DEF Retimed
<1>2. PICK old \in Maps(Running) : old = m.inflight
    BY <1>1 DEF CoreType
<1>3. PICK inflight : inflight = Minus(old, Only(c))
    OBVIOUS
<1>4. inflight \in Maps(Running)
    BY <1>3, MinusMap
<1>5. DOMAIN inflight = DOMAIN old \ {c} /\ \A d \in DOMAIN old : d # c => inflight[d] = old[d]
    BY <1>3 DEF Minus, Only
<1>6. PICK queue \in Box : queue = m.box
    BY <1>1 DEF CoreType
<1>7. PICK box : box = PushTerminal(queue, c, f)
    OBVIOUS
<1>8. f \in Frame /\ f.call = c
    BY DEF FrameFrom
<1>9. /\ box \in Box
      /\ box.queues[c] = Append(queue.queues[c], f)
      /\ \A d \in Calls : d # c => box.queues[d] = queue.queues[d]
      /\ \A d \in Calls : box.credits[d] = queue.credits[d]
    BY <1>7, <1>8, PushTerminalEffect
<1>10. PICK entered \in [Calls -> Int] : entered = m.chain
    BY <1>1 DEF CoreType
<1>11. PICK chain : chain = Unwind(entered, Only(c))
    OBVIOUS
<1>12. /\ chain \in [Calls -> Int]
       /\ chain[c] = entered[c] - 1
       /\ \A d \in Calls : d # c => chain[d] = entered[d]
    BY <1>11 DEF Unwind, Only
<1>13. PICK u : u = [m EXCEPT !.inflight = inflight, !.box = box, !.chain = chain]
    OBVIOUS
<1>14. l = Polled(u)
    BY <1>2, <1>3, <1>6, <1>7, <1>10, <1>11, <1>13 DEF Complete, Only
<1>15. /\ u \in CoreType
       /\ u.inflight = inflight /\ u.box = box /\ u.chain = chain
       /\ u.pending = m.pending /\ u.outcomes = m.outcomes /\ u.issued = m.issued
       /\ u.leftAt = m.leftAt /\ AllBooks(m, u)
    BY <1>1, <1>4, <1>9, <1>12, <1>13 DEF CoreType, AllBooks
<1>16. ASSUME NEW d \in Calls, d # c
       PROVE  Idle(m, u, d)
    <2>1. Alike(m, u, d)
        BY <1>2, <1>5, <1>6, <1>9, <1>10, <1>12, <1>15, <1>16
        DEF Alike, SameLife, SamePast, Pending, Inflight, Queue
    <2>2. Terms(m, u, d)
        BY <1>2, <1>5, <1>15, <1>16 DEF Terms, WaitTerms, RunTerms, Pending, Inflight
    <2> QED
        BY <1>15, <2>1, <2>2, IdleMade
<1>17. Finished(s, m, u, c)
    BY <1>1, <1>2, <1>5, <1>6, <1>9, <1>10, <1>12, <1>15
    DEF Finished, SamePast, Pending, Inflight, Queue
<1>18. Over(s, m, u, c)
    <2>1. Queue(u, c) = Append(Queue(m, c), f)
        BY <1>6, <1>9, <1>15 DEF Queue
    <2> QED
        BY <1>8, <1>15, <1>17, <2>1 DEF Over, AllBooks, Books
<1>19. u \in CoreType /\ u.ready = m.ready
    BY <1>15 DEF AllBooks
<1> QED
    BY <1>14, <1>16, <1>18, <1>19, OverMoves

\* A handler's item.
LEMMA ItemBySaid ==
    ASSUME NEW s \in Side, NEW m \in CoreType, NEW c \in Calls, Inflight(m, c), ~Pending(m, c),
           HasRoom(m.box, c), NEW n, n = m.put[c] + 1,
           NEW f \in FrameFrom(s, c), f.kind = "ITEM", f.n = n,
           NEW r \in Running, r = m.inflight[c],
           NEW v \in Running, v.fullSince = 0, v.m = r.m, v.inboundClosed = r.inboundClosed,
           v.credit = IF r.established THEN r.credit - 1 ELSE r.credit,
           NEW u, u = ItemBy(m, c, f, v),
           NEW l, l = CountItem(u, c, r)
    PROVE  /\ l.ready = m.ready
           /\ \A d \in Calls : IF d = c THEN ItemSaid(s, m, l, d) ELSE Idle(m, l, d)
<1>1. /\ u \in CoreType /\ Queued(s, m, u, c)
      /\ \A d \in Calls : d # c => Same(m, u, d)
    BY ItemQueued
<1>2. u \in CoreType
    BY <1>1
<1>3. PICK box : box = PushTerminal(m.box, c, f)
    OBVIOUS
<1>4. PICK inflight : inflight = [m.inflight EXCEPT ![c] = v]
    OBVIOUS
<1>5. u = [m EXCEPT !.box = box, !.inflight = inflight]
    BY <1>3, <1>4 DEF ItemBy
<1>6. AllBooks(m, u) /\ u.inflight = inflight /\ u.pending = m.pending /\ u.box = box
    BY <1>5 DEF CoreType, AllBooks
<1>7. inflight[c] = v /\ \A d \in DOMAIN m.inflight : d # c => inflight[d] = m.inflight[d]
    <2>1. c \in DOMAIN m.inflight
        BY DEF Inflight
    <2> QED
        BY <1>4, <2>1
<1>8. f \in Frame /\ f.call = c
    BY FromFrame
<1>9. PICK old \in Box : old = m.box
    BY DEF CoreType
<1>10. /\ box \in Box
       /\ box.queues[c] = Append(old.queues[c], f)
       /\ \A d \in Calls : d # c => box.queues[d] = old.queues[d]
       /\ \A d \in Calls : box.credits[d] = old.credits[d]
    <2>1. box = PushTerminal(old, c, f)
        BY <1>3, <1>9
    <2> QED
        BY <1>8, <2>1, PushTerminalEffect
<1>11. Queue(u, c) = Append(Queue(m, c), f)
    BY <1>6, <1>9, <1>10 DEF Queue
<1>12. r.established \in BOOLEAN /\ r.credit \in Int
    BY QueueConstants DEF Running
<1>13. /\ l.put[c] = u.put[c] + 1
       /\ l.metered[c] = IF r.established THEN u.metered[c] + 1 ELSE u.metered[c]
       /\ \A d \in Calls : d # c => l.put[d] = u.put[d] /\ l.metered[d] = u.metered[d]
       /\ l.granted = u.granted /\ l.got = u.got /\ l.ready = u.ready
       /\ l.pending = u.pending /\ l.inflight = u.inflight /\ l.box = u.box
    BY <1>2, <1>12, CountBooks
<1>14. \A d \in Calls : Same(u, l, d)
    BY <1>2, CountItemEffect
<1>15. m.metered[c] \in Int
    BY DEF CoreType
<1>16. Spends(r, v, m.metered[c], l.metered[c])
    BY <1>6, <1>12, <1>13, <1>15 DEF Spends, AllBooks
<1>17. Queued(s, m, l, c)
    BY <1>1, <1>14, QueuedThenSame
<1>18. Queue(l, c) = Append(Queue(m, c), f)
    BY <1>11, <1>13 DEF Queue
<1>19. l.inflight[c] = v
    BY <1>6, <1>7, <1>13
<1>20. ItemSaid(s, m, l, c)
    BY <1>6, <1>8, <1>13, <1>16, <1>17, <1>18, <1>19 DEF ItemSaid, AllBooks
<1>21. ASSUME NEW d \in Calls, d # c PROVE Idle(m, l, d)
    <2>1. Same(m, u, d) /\ Same(u, l, d)
        BY <1>1, <1>14, <1>21
    <2>2. Alike(m, l, d)
        BY <2>1, SameThenSame DEF Same
    <2>3. Books(m, l, d)
        BY <1>6, <1>13, <1>21 DEF Books, AllBooks
    <2>4. Terms(m, l, d)
        BY <1>6, <1>7, <1>13, <1>21 DEF Terms, WaitTerms, RunTerms, Pending, Inflight
    <2> QED
        BY <2>2, <2>3, <2>4 DEF Idle
<1> QED
    BY <1>6, <1>13, <1>20, <1>21 DEF AllBooks

LEMMA PollItemMoves ==
    ASSUME NEW s \in Side, NEW k \in CoreType, NEW c \in Calls, Inflight(k, c), ~Pending(k, c),
           NEW m, Retimed(k, m, c), NEW r \in Running, r = m.inflight[c], r.fullSince = 0,
           HasRoom(k.box, c), CalleeStreams(r.m) => ~Starved(r), NEW packed \in Packing,
           NEW l, l = PollItem(s, m, c, packed)
    PROVE  l.ready = k.ready /\ \A d \in Calls : Moves(s, k, l, d)
<1>1. PICK reply \in STRING : reply = r.m.reply
    BY DEF Running, Method
<1>2. m \in CoreType /\ Inflight(m, c) /\ HasRoom(m.box, c) /\ ~Pending(m, c)
    BY DEF Retimed, Idle, Alike, SameLife
<1>3. PICK n \in Nat : n = m.put[c] + 1
    <2>1. m.put[c] \in Nat
        BY <1>2 DEF CoreType
    <2> QED
        BY <2>1
<1>4. PICK f : f = BodyFrame("ITEM", reply, c, n, packed)
    OBVIOUS
<1>5. f \in FrameFrom(s, c) /\ f.kind = "ITEM" /\ f.n = n
    <2>1. "ITEM" \in Kinds
        BY DEF Kinds
    <2>2. f \in FrameFrom(s, c) /\ f.kind = "ITEM"
        BY <1>4, <2>1, BodyFrameType
    <2>3. f.n = n
        BY <1>4 DEF BodyFrame, MakeFrame
    <2> QED
        BY <2>2, <2>3
<1>6. CASE ~CalleeStreams(r.m)
    <2>1. PICK status \in Statuses : status = "INTERNAL"
        BY StatusTypes
    <2>2. l = Polled(FinishInflight(s, m, Only(c), status))
        BY <1>6, <2>1 DEF PollItem, Only
    <2> QED
        BY <2>2, FailMoves
<1>7. CASE CalleeStreams(r.m)
    <2>1. PICK v : v = [r EXCEPT !.credit = IF r.established THEN @ - 1 ELSE @]
        OBVIOUS
    <2>2. v \in Running /\ v.fullSince = 0
        <3>1. ~Starved(r)
            BY <1>7
        <3> QED
            BY <2>1, <3>1, SpendRunningType
    <2>3. /\ v.m = r.m /\ v.inboundClosed = r.inboundClosed
          /\ v.credit = IF r.established THEN r.credit - 1 ELSE r.credit
        BY <2>1 DEF Running
    <2>4. PICK u : u = ItemBy(m, c, f, v)
        OBVIOUS
    <2>5. l = CountItem(u, c, r)
        <3>1. Push(m.box, c, f) = PushTerminal(m.box, c, f)
            BY <1>2, RoomPushes
        <3> QED
            BY <1>1, <1>3, <1>4, <1>7, <2>1, <2>4, <3>1 DEF PollItem, ItemBy
    <2>6. m \in CoreType
        BY <1>2
    <2>7. /\ l.ready = m.ready
          /\ \A d \in Calls : IF d = c THEN ItemSaid(s, m, l, d) ELSE Idle(m, l, d)
        BY <1>2, <1>3, <1>5, <2>2, <2>3, <2>4, <2>5, <2>6, ItemBySaid
    <2>8. ItemSaid(s, m, l, c) /\ Idle(k, m, c) /\ k.inflight[c].established = m.inflight[c].established
        BY <2>7 DEF Retimed
    <2>9. ItemSaid(s, k, l, c)
        BY <2>8, IdleThenItem
    <2>10. \A d \in Calls : d # c => Idle(k, l, d)
        BY <2>7, IdleTwice DEF Retimed
    <2> QED
        BY <2>7, <2>9, <2>10 DEF Moves, Retimed
<1> QED
    BY <1>6, <1>7

LEMMA PollBlockedMoves ==
    ASSUME NEW s \in Side, NEW k \in CoreType, NEW c \in Calls, Inflight(k, c), NEW t \in Nat,
           NEW l, l = PollBlocked(s, k, c, t)
    PROVE  l.ready = k.ready /\ \A d \in Calls : Moves(s, k, l, d)
<1>1. k.inflight[c].fullSince \in Nat
    BY InflightInCalls DEF Inflight, Running
<1>2. PICK since \in Nat : since = IF k.inflight[c].fullSince = 0 THEN t ELSE k.inflight[c].fullSince
    BY <1>1
<1>3. PICK m : m = Clocked(k, c, since)
    OBVIOUS
<1>4. Retimed(k, m, c)
    BY <1>3, ClockIdle
<1>5. PICK status \in Statuses : status = "RESOURCE_EXHAUSTED"
    BY StatusTypes
<1>6. l = Polled(k) \/ l = Polled(m) \/ l = Polled(FinishInflight(s, m, Only(c), status))
    BY <1>2, <1>3, <1>5 DEF PollBlocked, Clocked, Only
<1>7. CASE l = Polled(k)
    <2>1. Retimed(k, k, c)
        BY RetimedSelf
    <2> QED
        BY <1>7, <2>1, LeaveMoves
<1>8. CASE l = Polled(m)
    BY <1>4, <1>8, LeaveMoves
<1>9. CASE l = Polled(FinishInflight(s, m, Only(c), status))
    BY <1>4, <1>9, FailMoves
<1> QED
    BY <1>6, <1>7, <1>8, <1>9

LEMMA PollRespondMoves ==
    ASSUME NEW s \in Side, NEW k, NEW c \in Calls, NEW m, Retimed(k, m, c),
           NEW packed \in Packing, NEW l, l = PollRespond(s, m, c, packed)
    PROVE  l.ready = k.ready /\ \A d \in Calls : Moves(s, k, l, d)
<1>1. PICK reply \in STRING : reply = m.inflight[c].m.reply
    BY DEF Retimed, Running, Method
<1>2. PICK f : f = BodyFrame("RESPONSE", reply, c, 0, packed)
    OBVIOUS
<1>3. "RESPONSE" \in Kinds /\ 0 \in Nat
    BY DEF Kinds
<1>4. f \in FrameFrom(s, c) /\ f.kind = "RESPONSE"
    BY <1>2, <1>3, BodyFrameType
<1>5. PICK status \in Statuses : status = "INTERNAL"
    BY StatusTypes
<1>6. l = Polled(FinishInflight(s, m, Only(c), status)) \/ l = Complete(m, c, f)
    BY <1>1, <1>2, <1>5 DEF PollRespond, Only
<1>7. f \in FrameFrom(s, c) /\ f.kind \in LastKinds
    BY <1>4 DEF LastKinds
<1>8. CASE l = Complete(m, c, f)
    BY <1>7, <1>8, CompleteMoves
<1>9. CASE l = Polled(FinishInflight(s, m, Only(c), status))
    BY <1>9, FailMoves
<1> QED
    BY <1>6, <1>8, <1>9

LEMMA PollEndMoves ==
    ASSUME NEW s \in Side, NEW k, NEW c \in Calls, NEW m, Retimed(k, m, c),
           NEW l, l = PollEnd(s, m, c)
    PROVE  l.ready = k.ready /\ \A d \in Calls : Moves(s, k, l, d)
<1>1. PICK f : f = ControlFrame(s, c, "END")
    OBVIOUS
<1>2. f \in FrameFrom(s, c) /\ f.kind \in LastKinds
    BY <1>1, ControlFrameType DEF LastKinds
<1>3. PICK status \in Statuses : status = "INTERNAL"
    BY StatusTypes
<1>4. l = Polled(FinishInflight(s, m, Only(c), status)) \/ l = Complete(m, c, f)
    BY <1>1, <1>3 DEF PollEnd, Only
<1>5. CASE l = Complete(m, c, f)
    BY <1>2, <1>5, CompleteMoves
<1>6. CASE l = Polled(FinishInflight(s, m, Only(c), status))
    BY <1>6, FailMoves
<1> QED
    BY <1>4, <1>5, <1>6

LEMMA LoopTurnMoves ==
    ASSUME NEW s \in Side, NEW k \in CoreType, NEW c \in Calls, Inflight(k, c), ~Pending(k, c),
           NEW t \in Nat, NEW l, LoopTurn(s, k, l, c, t)
    PROVE  l.ready = k.ready /\ \A d \in Calls : Moves(s, k, l, d)
<1>1. PICK m : m = Unstalled(k, c)
    OBVIOUS
<1>2. PICK r \in Running : /\ r = [k.inflight[c] EXCEPT !.fullSince = 0]
                           /\ m.inflight[c] = r
    BY <1>1, UnstalledEffect
<1>3. Retimed(k, m, c)
    <2>1. 0 \in Nat /\ m = Clocked(k, c, 0)
        BY <1>1 DEF Unstalled, Clocked
    <2> QED
        BY <2>1, ClockIdle
<1>4. Packings[s] \subseteq Packing /\ Failures \subseteq Statuses
    BY LinkConstants, StatusTypes
<1>5. CASE l = PollBlocked(s, k, c, t)
    BY <1>5, PollBlockedMoves
<1>6. CASE l = Polled(m)
    BY <1>3, <1>6, LeaveMoves
<1>7. ASSUME NEW p \in Packing, l = PollRespond(s, m, c, p)
      PROVE  l.ready = k.ready /\ \A d \in Calls : Moves(s, k, l, d)
    BY <1>3, <1>7, PollRespondMoves
<1>8. ASSUME MayPoll(k, c), NEW p \in Packing, l = PollItem(s, m, c, p)
      PROVE  l.ready = k.ready /\ \A d \in Calls : Moves(s, k, l, d)
    <2>1. HasRoom(k.box, c) /\ (CalleeStreams(r.m) => ~Starved(r))
        BY <1>2, <1>8, MayPollReset
    <2>2. Retimed(k, m, c) /\ r = m.inflight[c] /\ r.fullSince = 0
        <3>1. m.inflight[c].fullSince = 0
            BY <1>1, UnstalledEffect
        <3> QED
            BY <1>2, <1>3, <3>1
    <2> QED
        BY <1>8, <2>1, <2>2, PollItemMoves
<1>9. CASE l = PollEnd(s, m, c)
    BY <1>3, <1>9, PollEndMoves
<1>10. ASSUME NEW status \in Statuses, l = PollFail(s, m, c, status)
       PROVE  l.ready = k.ready /\ \A d \in Calls : Moves(s, k, l, d)
    <2>1. l = Polled(FinishInflight(s, m, Only(c), status))
        BY <1>10 DEF PollFail, Only
    <2> QED
        BY <1>3, <2>1, FailMoves
<1> QED
    BY <1>1, <1>4, <1>5, <1>6, <1>7, <1>8, <1>9, <1>10 DEF LoopTurn

\* A frame or an allowance leaves, or the session ends.
LEMMA LeavesBooks ==
    ASSUME NEW k \in CoreType, NEW c, NEW t, NEW l, l = Leaves(k, c, t) \/ l = CreditLeaves(k, c)
    PROVE  AllBooks(k, l) /\ \A d \in Calls : Terms(k, l, d)
<1>1. PICK leftAt : leftAt = [k.leftAt EXCEPT ![c] = t]
    OBVIOUS
<1>2. PICK box : l = [k EXCEPT !.box = box, !.leftAt = leftAt] \/ l = [k EXCEPT !.box = box]
    <2>1. PICK popped : popped = PopFrame(k.box, c)
        OBVIOUS
    <2>2. PICK spent : spent = PopCredit(k.box, c)
        OBVIOUS
    <2> QED
        BY ZenonT(60), <1>1, <2>1, <2>2 DEF Leaves, CreditLeaves
<1>3. AllBooks(k, l) /\ l.pending = k.pending /\ l.inflight = k.inflight
    BY <1>2 DEF CoreType, AllBooks
<1> QED
    BY <1>3 DEF Terms, WaitTerms, RunTerms, Pending, Inflight

\* Everything of the call is over.
Closed(k, l, c) ==
    Dropped(k, l, c) /\ Books(k, l, c) /\ (Pending(k, c) => ~EndsWell(l.outcomes[c]))

LEMMA SessionEndCloses ==
    ASSUME NEW k \in CoreType, NEW l, l = OnSessionEnd(k)
    PROVE  ~l.ready /\ \A d \in Calls : Closed(k, l, d)
<1>1. \A d \in Calls : Dropped(k, l, d)
    BY OnSessionEndEffect
<1>2. PICK o \in Outcome : o = Failed("UNAVAILABLE") /\ Terminates(o)
    BY OutcomeTypes DEF Statuses
<1>3. PICK P : P = DOMAIN k.pending
    OBVIOUS
<1>4. PICK m : m = SettlePending(k, P, o)
    OBVIOUS
<1>5. /\ m \in CoreType /\ AllBooks(k, m)
      /\ \A d \in Calls : d \in P /\ Pending(k, d) => m.outcomes[d] = Append(k.outcomes[d], o)
    <2>1. m \in CoreType
        BY <1>2, <1>4, SettlePendingEffect
    <2>2. Terminates(o)
        BY <1>2
    <2> QED
        BY <1>4, <2>1, <2>2, SettleBooks
<1>6. PICK inflight : inflight = Minus(m.inflight, DOMAIN m.inflight)
    OBVIOUS
<1>7. PICK chain : chain = Unwind(m.chain, DOMAIN k.inflight)
    OBVIOUS
<1>8. PICK box : box = EmptyBox
    OBVIOUS
<1>9. l = [m EXCEPT !.finished = TRUE, !.ready = FALSE, !.box = box, !.inflight = inflight,
                    !.chain = chain]
    BY <1>2, <1>3, <1>4, <1>6, <1>7, <1>8 DEF OnSessionEnd
<1>10. /\ l.put = m.put /\ l.metered = m.metered /\ l.granted = m.granted /\ l.got = m.got
       /\ l.outcomes = m.outcomes /\ ~l.ready
    BY <1>5, <1>9 DEF CoreType
<1>11. ASSUME NEW d \in Calls, Pending(k, d) PROVE ~EndsWell(l.outcomes[d])
    <2>1. k.outcomes[d] \in Seq(Outcome)
        BY DEF CoreType
    <2>2. o.kind # "end"
        BY <1>2 DEF Failed
    <2>3. l.outcomes[d] = Append(k.outcomes[d], o)
        BY <1>3, <1>5, <1>10, <1>11 DEF Pending
    <2> QED
        BY <2>1, <2>2, <2>3, NotWell
<1> QED
    BY <1>1, <1>5, <1>10, <1>11 DEF Closed, Books, AllBooks

-----------------------------------------------------------------------------
\* What a received frame f does to the flow of its call.

\* The call goes on, and its queue is as it was.
Stays(k, l, c) ==
    /\ SameLife(k, l, c) /\ SamePast(k, l, c)
    /\ Queue(l, c) = Queue(k, c) /\ l.box.credits[c] = k.box.credits[c]
    /\ l.put[c] = k.put[c] /\ l.metered[c] = k.metered[c] /\ l.granted[c] = k.granted[c]

\* Nothing heeds the frame.
Skipped(s, k, l, f) ==
    LET c == f.call
    IN /\ Idle(k, l, c)
       /\ Pending(k, c) =>
            f.kind \in {"CANCEL", "REQUEST"} \/ (f.kind = "CREDIT" /\ ~HasCredit(s))
       /\ Inflight(k, c) =>
            \/ f.kind \in {"REQUEST", "RESPONSE", "ERROR"}
            \/ /\ f.kind \in {"ITEM", "END"}
               /\ CallerStreams(k.inflight[c].m) /\ k.inflight[c].inboundClosed
            \/ f.kind = "CREDIT" /\ ~HasCredit(s)

ItemReported(k, l, f) ==
    LET c == f.call
    IN /\ f.kind = "ITEM" /\ Pending(k, c) /\ ~Inflight(k, c)
       /\ Stays(k, l, c) /\ Terms(k, l, c) /\ l.got[c] = k.got[c]
       /\ l.outcomes[c] = Append(k.outcomes[c], ItemOutcome(f.n))
EndReported(k, l, f) ==
    LET c == f.call
    IN /\ f.kind = "END" /\ ~Inflight(k, c)
       /\ Settled(k, l, c) /\ Books(k, l, c) /\ Queue(l, c) = <<>>
       /\ l.outcomes[c] = Append(k.outcomes[c], EndOutcome)

ItemGiven(k, l, f) ==
    LET c == f.call
    IN /\ f.kind = "ITEM" /\ Inflight(k, c)
       /\ Stays(k, l, c) /\ Terms(k, l, c) /\ l.outcomes[c] = k.outcomes[c]
       /\ CallerStreams(k.inflight[c].m) /\ ~k.inflight[c].inboundClosed
       /\ l.got[c] = Append(k.got[c], f.n)
EndGiven(k, l, f) ==
    LET c == f.call
    IN /\ f.kind = "END" /\ Inflight(k, c) /\ ~Pending(k, c)
       /\ Stays(k, l, c) /\ l.outcomes[c] = k.outcomes[c] /\ l.got[c] = k.got[c]
       /\ CallerStreams(k.inflight[c].m) /\ ~k.inflight[c].inboundClosed
       /\ l.inflight[c].m = k.inflight[c].m /\ l.inflight[c].credit = k.inflight[c].credit
       /\ l.inflight[c].inboundClosed

\* An allowance is added to what the record holds.
Credited(s, k, l, f) ==
    LET c == f.call
    IN /\ f.kind = "CREDIT" /\ HasCredit(s) /\ (Pending(k, c) \/ Inflight(k, c))
       /\ Stays(k, l, c) /\ l.outcomes[c] = k.outcomes[c] /\ l.got[c] = k.got[c]
       /\ Inflight(k, c) =>
            /\ l.inflight[c].m = k.inflight[c].m
            /\ l.inflight[c].inboundClosed = k.inflight[c].inboundClosed
            /\ l.inflight[c].credit = SaturatingAdd(k.inflight[c].credit, f.n)
       /\ Pending(k, c) /\ ~Inflight(k, c) =>
            /\ l.pending[c].sendClosed = k.pending[c].sendClosed
            /\ l.pending[c].established
            /\ l.pending[c].credit = SaturatingAdd(k.pending[c].credit, f.n)

Began(k, l, f) ==
    LET c == f.call
    IN /\ f.kind = "REQUEST" /\ Started(k, l, c) /\ Books(k, l, c)
       /\ l.inflight[c].credit = f.ctx.credit
       /\ l.inflight[c].inboundClosed = ~CallerStreams(l.inflight[c].m)

Heeds(s, k, l, f) ==
    \/ Skipped(s, k, l, f)
    \/ Gone(k, l, f.call) /\ ~Inflight(k, f.call)
    \/ Over(s, k, l, f.call)
    \/ Refused(s, k, l, f.call) /\ Books(k, l, f.call)
    \/ ItemReported(k, l, f) \/ EndReported(k, l, f)
    \/ ItemGiven(k, l, f) \/ EndGiven(k, l, f)
    \/ Credited(s, k, l, f) \/ Began(k, l, f)

Takes(s, k, l, f) ==
    /\ l.ready = k.ready
    /\ \A d \in Calls : d # f.call => Idle(k, l, d)
    /\ Heeds(s, k, l, f)

LEMMA NothingTaken ==
    ASSUME NEW s, NEW k, NEW f, Skipped(s, k, k, f)
    PROVE  Takes(s, k, k, f)
BY IdleSelf DEF Takes, Heeds

LEMMA FinishTaken ==
    ASSUME NEW s \in Side, NEW k \in CoreType, NEW f, NEW c \in Calls, c = f.call,
           Inflight(k, c), NEW status \in Statuses, NEW l, l = FinishInflight(s, k, Only(c), status)
    PROVE  Takes(s, k, l, f)
<1>1. /\ l.ready = k.ready
      /\ \A d \in Calls : IF d = c THEN Over(s, k, l, d) ELSE Idle(k, l, d)
    BY FinishOneOver
<1> QED
    BY <1>1 DEF Takes, Heeds

LEMMA AbandonTaken ==
    ASSUME NEW s \in Side, NEW k \in CoreType, NEW f, NEW c \in Calls, c = f.call,
           Pending(k, c), ~Inflight(k, c), NEW status \in Statuses,
           NEW l, l = AbandonPending(s, k, Only(c), status)
    PROVE  Takes(s, k, l, f)
<1>1. /\ l.ready = k.ready
      /\ \A d \in Calls : IF d = c THEN Gone(k, l, d) ELSE Idle(k, l, d)
    BY AbandonOneGone
<1> QED
    BY <1>1 DEF Takes, Heeds

LEMMA FailTaken ==
    ASSUME NEW s \in Side, NEW k \in CoreType, NEW f, NEW c \in Calls, c = f.call,
           ~Pending(k, c), ~Inflight(k, c), NEW status \in Statuses,
           NEW l, l = FailCall(s, k, c, status)
    PROVE  Takes(s, k, l, f)
<1>1. /\ Refused(s, k, l, c)
      /\ \A d \in Calls : d # c => Same(k, l, d)
    BY FailCallEffect
<1>2. PICK box : l = [k EXCEPT !.box = box]
    BY DEF FailCall
<1>3. AllBooks(k, l) /\ l.pending = k.pending /\ l.inflight = k.inflight
    BY <1>2 DEF CoreType, AllBooks
<1>4. ASSUME NEW d \in Calls, d # c PROVE Idle(k, l, d)
    <2>1. Alike(k, l, d)
        BY <1>1, <1>4 DEF Same
    <2>2. Terms(k, l, d)
        BY <1>3 DEF Terms, WaitTerms, RunTerms, Pending, Inflight
    <2> QED
        BY <1>3, <2>1, <2>2, IdleMade
<1> QED
    BY <1>1, <1>3, <1>4 DEF Takes, Heeds, AllBooks, Books

\* Nobody waits: the call is over here.
LEMMA SettleIdle ==
    ASSUME NEW k \in CoreType, NEW c \in Calls, ~Pending(k, c), NEW o \in Outcome, Terminates(o),
           NEW l, l = SettlePending(k, Only(c), o)
    PROVE  l.ready = k.ready /\ \A d \in Calls : Idle(k, l, d)
<1>1. Same(k, l, c) /\ \A d \in Calls : d # c => Same(k, l, d)
    BY SettleOne
<1>2. AllBooks(k, l) /\ \A d \in Calls : Terms(k, l, d)
    BY SettleBooks
<1>3. ASSUME NEW d \in Calls PROVE Idle(k, l, d)
    <2>1. Alike(k, l, d)
        BY <1>1 DEF Same
    <2> QED
        BY <1>2, <2>1, IdleMade
<1> QED
    BY <1>2, <1>3 DEF AllBooks

LEMMA SettleFlow ==
    ASSUME NEW k \in CoreType, NEW c \in Calls, Pending(k, c), NEW o \in Outcome, Terminates(o),
           NEW l, l = SettlePending(k, Only(c), o)
    PROVE  /\ l.ready = k.ready /\ \A d \in Calls : d # c => Idle(k, l, d)
           /\ Answered(k, l, c) /\ Books(k, l, c) /\ l.outcomes[c] = Append(k.outcomes[c], o)
           /\ o.kind # "end" => Gone(k, l, c)
<1>1. Answered(k, l, c) /\ \A d \in Calls : d # c => Same(k, l, d)
    BY SettleOne
<1>2. /\ AllBooks(k, l) /\ \A d \in Calls : Terms(k, l, d)
      /\ \A d \in Calls : d \in Only(c) /\ Pending(k, d) => l.outcomes[d] = Append(k.outcomes[d], o)
    BY SettleBooks
<1>3. ASSUME NEW d \in Calls, d # c PROVE Idle(k, l, d)
    <2>1. Alike(k, l, d)
        BY <1>1, <1>3 DEF Same
    <2> QED
        BY <1>2, <2>1, IdleMade
<1>4. l.outcomes[c] = Append(k.outcomes[c], o)
    BY <1>2 DEF Only
<1>5. Books(k, l, c)
    BY <1>2 DEF AllBooks, Books
<1>6. ASSUME o.kind # "end" PROVE Gone(k, l, c)
    <2>1. k.outcomes[c] \in Seq(Outcome)
        BY DEF CoreType
    <2>2. ~EndsWell(l.outcomes[c])
        BY <1>4, <1>6, <2>1, NotWell
    <2> QED
        BY <1>1, <1>5, <2>2, MuteFew DEF Gone, Answered
<1> QED
    BY <1>1, <1>2, <1>3, <1>4, <1>5, <1>6 DEF AllBooks

LEMMA FailReceivedTaken ==
    ASSUME NEW s \in Side, NEW k \in CoreType, NEW f, NEW c \in Calls, c = f.call,
           NEW status \in Statuses, NEW l, l = FailReceived(s, k, c, status)
    PROVE  Takes(s, k, l, f)
<1>1. CASE Inflight(k, c)
    <2>1. l = FinishInflight(s, k, Only(c), status)
        BY <1>1 DEF FailReceived, Inflight, Only
    <2> QED
        BY <1>1, <2>1, FinishTaken
<1>2. CASE ~Inflight(k, c) /\ Pending(k, c)
    <2>1. l = AbandonPending(s, k, Only(c), status)
        BY <1>2 DEF FailReceived, Inflight, Pending, Only
    <2> QED
        BY <1>2, <2>1, AbandonTaken
<1>3. CASE ~Inflight(k, c) /\ ~Pending(k, c)
    <2>1. l = FailCall(s, k, c, status)
        BY <1>3 DEF FailReceived, Inflight, Pending
    <2> QED
        BY <1>3, <2>1, FailTaken
<1> QED
    BY <1>1, <1>2, <1>3

LEMMA StartTaken ==
    ASSUME NEW s, NEW k \in CoreType, NEW f, NEW c \in Calls, c = f.call, f.kind = "REQUEST",
           ~Inflight(k, c), NEW r \in Running, r.fullSince = 0,
           r.credit = f.ctx.credit, r.inboundClosed = ~CallerStreams(r.m),
           NEW l, l = Start(k, c, r)
    PROVE  Takes(s, k, l, f)
<1>1. Started(k, l, c) /\ \A d \in Calls : d # c => Same(k, l, d)
    BY StartEffect
<1>2. PICK inflight : inflight = With(k.inflight, c, r)
    OBVIOUS
<1>3. PICK chain : chain = [k.chain EXCEPT ![c] = k.chain[c] + 1]
    OBVIOUS
<1>4. l = [k EXCEPT !.inflight = inflight, !.chain = chain, !.todo = {c}]
    BY <1>2, <1>3 DEF Start
<1>5. AllBooks(k, l) /\ l.inflight = inflight /\ l.pending = k.pending
    BY <1>4 DEF CoreType, AllBooks
<1>6. inflight[c] = r /\ \A d \in DOMAIN k.inflight : d # c => inflight[d] = k.inflight[d]
    BY <1>2 DEF With
<1>7. Began(k, l, f)
    BY <1>1, <1>5, <1>6 DEF Began, AllBooks, Books
<1>8. ASSUME NEW d \in Calls, d # c PROVE Idle(k, l, d)
    <2>1. Alike(k, l, d)
        BY <1>1, <1>8 DEF Same
    <2>2. Terms(k, l, d)
        BY <1>5, <1>6, <1>8, <2>1 DEF Terms, WaitTerms, RunTerms, Pending, Inflight, Alike, SameLife
    <2> QED
        BY <1>5, <2>1, <2>2, IdleMade
<1> QED
    BY <1>5, <1>7, <1>8 DEF Takes, Heeds, AllBooks

LEMMA OnRequestTaken ==
    ASSUME NEW s \in Side, NEW k \in CoreType, NEW f \in Frame, NEW c \in Calls, c = f.call,
           f.kind = "REQUEST", ~Allocates(s, c), Apart(s, k, c), NEW t \in Nat,
           NEW answer \in Statuses, NEW l, l = OnRequest(s, k, f, t, answer)
    PROVE  Takes(s, k, l, f)
<1>1. CASE Inflight(k, c)
    <2>1. l = k
        BY <1>1 DEF OnRequest, Inflight
    <2>2. Skipped(s, k, k, f)
        BY IdleSelf DEF Skipped
    <2> QED
        BY <2>1, <2>2, NothingTaken
<1>2. CASE ~Inflight(k, c)
    <2>1. ~Pending(k, c)
        BY DEF Apart
    <2>2. CASE RequestRefusal(s, k, f) # "OK"
        <3>1. PICK status \in Statuses : status = RequestRefusal(s, k, f)
            BY StatusTypes
        <3>2. l = FailCall(s, k, c, status)
            BY <1>2, <2>2, <3>1 DEF OnRequest, Inflight
        <3> QED
            BY <1>2, <2>1, <3>2, FailTaken
    <2>3. CASE RequestRefusal(s, k, f) = "OK" /\ answer # "OK"
        <3>1. l = FailCall(s, k, c, answer)
            BY <1>2, <2>3, RefuseRequestIs DEF OnRequest, Inflight
        <3> QED
            BY <1>2, <2>1, <3>1, FailTaken
    <2>4. CASE RequestRefusal(s, k, f) = "OK" /\ answer = "OK" /\ Inflate(s, f) # "OK"
        <3>1. PICK status \in Statuses : status = Inflate(s, f)
            BY StatusTypes
        <3>2. l = FailCall(s, k, c, status)
            BY <1>2, <2>4, <3>1, RefuseRequestIs DEF OnRequest, Inflight
        <3> QED
            BY <1>2, <2>1, <3>2, FailTaken
    <2>5. CASE RequestRefusal(s, k, f) = "OK" /\ answer = "OK" /\ Inflate(s, f) = "OK"
        <3>1. PICK m : m = Registry[s].methods[f.mid]
            OBVIOUS
        <3>2. f.mid \in DOMAIN Registry[s].methods
            BY <2>5 DEF RequestRefusal
        <3>3. m \in Method
            BY <3>1, <3>2, LinkConstants
        <3>4. PICK ctx \in Ctx : ctx = f.ctx
            BY DEF Frame
        <3>5. PICK r : r = NewRunning(m, ctx, t)
            OBVIOUS
        <3>6. r \in Running /\ r.fullSince = 0
            BY <3>3, <3>5, NewRunningType
        <3>7. r.credit = f.ctx.credit /\ r.inboundClosed = ~CallerStreams(r.m)
            BY <3>4, <3>5 DEF NewRunning
        <3>8. l = Start(k, c, r)
            BY <1>2, <2>5, <3>1, <3>4, <3>5 DEF OnRequest, Inflight, Start, Enter
        <3> QED
            BY <1>2, <3>6, <3>7, <3>8, StartTaken
    <2> QED
        BY <2>2, <2>3, <2>4, <2>5
<1> QED
    BY <1>1, <1>2

LEMMA OnResponseTaken ==
    ASSUME NEW s \in Side, NEW k \in CoreType, NEW f \in Frame, NEW c \in Calls, c = f.call,
           f.kind = "RESPONSE", Apart(s, k, c), NEW l, l = OnResponse(k, f)
    PROVE  Takes(s, k, l, f)
<1>1. CASE ~Pending(k, c)
    <2>1. l = k
        BY <1>1 DEF OnResponse, Pending
    <2>2. Skipped(s, k, k, f)
        BY <1>1, IdleSelf DEF Skipped
    <2> QED
        BY <2>1, <2>2, NothingTaken
<1>2. CASE Pending(k, c)
    <2>1. PICK o \in Outcome : Terminates(o) /\ o.kind # "end" /\ l = SettlePending(k, Only(c), o)
        <3>1. /\ Response \in Outcome /\ Terminates(Response) /\ Response.kind # "end"
              /\ Failed("INVALID_ARGUMENT") \in Outcome /\ Terminates(Failed("INVALID_ARGUMENT"))
              /\ Failed("INVALID_ARGUMENT").kind # "end"
            BY OutcomeTypes DEF Statuses, Response, Failed
        <3>2. \/ l = SettlePending(k, Only(c), Response)
              \/ l = SettlePending(k, Only(c), Failed("INVALID_ARGUMENT"))
            BY <1>2 DEF OnResponse, Pending, Only
        <3> QED
            BY <3>1, <3>2
    <2>2. /\ l.ready = k.ready /\ \A d \in Calls : d # c => Idle(k, l, d)
          /\ Answered(k, l, c) /\ Books(k, l, c) /\ l.outcomes[c] = Append(k.outcomes[c], o)
          /\ o.kind # "end" => Gone(k, l, c)
        BY <1>2, <2>1, SettleFlow
    <2>3. ~Inflight(k, c)
        BY <1>2 DEF Apart
    <2> QED
        BY <2>1, <2>2, <2>3 DEF Takes, Heeds
<1> QED
    BY <1>1, <1>2

LEMMA OnErrorTaken ==
    ASSUME NEW s \in Side, NEW k \in CoreType, NEW f \in Frame, NEW c \in Calls, c = f.call,
           f.kind = "ERROR", Apart(s, k, c), NEW l, l = OnError(s, k, f)
    PROVE  Takes(s, k, l, f)
<1>1. PICK status \in Statuses :
        status = IF f.mid = Registry[s].error THEN f.status ELSE "INVALID_ARGUMENT"
    BY StatusTypes DEF Frame
<1>2. PICK o : o = Failed(status)
    OBVIOUS
<1>3. o \in Outcome /\ Terminates(o) /\ o.kind # "end"
    BY <1>2, OutcomeTypes DEF Failed
<1>4. l = SettlePending(k, Only(c), o)
    BY <1>1, <1>2 DEF OnError, Only
<1>5. CASE Pending(k, c)
    <2>1. /\ l.ready = k.ready /\ \A d \in Calls : d # c => Idle(k, l, d)
          /\ Answered(k, l, c) /\ Books(k, l, c) /\ l.outcomes[c] = Append(k.outcomes[c], o)
          /\ o.kind # "end" => Gone(k, l, c)
        BY <1>3, <1>4, <1>5, SettleFlow
    <2>2. ~Inflight(k, c)
        BY <1>5 DEF Apart
    <2> QED
        BY <1>3, <2>1, <2>2 DEF Takes, Heeds
<1>6. CASE ~Pending(k, c)
    <2>1. l.ready = k.ready /\ \A d \in Calls : Idle(k, l, d)
        BY <1>3, <1>4, <1>6, SettleIdle
    <2>2. Skipped(s, k, l, f)
        BY <1>6, <2>1 DEF Skipped
    <2> QED
        BY <2>1, <2>2 DEF Takes, Heeds
<1> QED
    BY <1>5, <1>6

LEMMA OnCancelTaken ==
    ASSUME NEW s \in Side, NEW k \in CoreType, NEW f \in Frame, NEW c \in Calls, c = f.call,
           f.kind = "CANCEL", NEW l, l = OnCancel(s, k, f)
    PROVE  Takes(s, k, l, f)
<1>1. CASE ~Inflight(k, c)
    <2>1. l = k
        BY <1>1 DEF OnCancel, Inflight
    <2>2. Skipped(s, k, k, f)
        BY <1>1, IdleSelf DEF Skipped
    <2> QED
        BY <2>1, <2>2, NothingTaken
<1>2. CASE Inflight(k, c)
    <2>1. PICK status \in Statuses :
            status = IF f.mid = Registry[s].void THEN "CANCELLED" ELSE "INVALID_ARGUMENT"
        BY StatusTypes
    <2>2. l = FinishInflight(s, k, Only(c), status)
        BY <1>2, <2>1 DEF OnCancel, Inflight, Only
    <2> QED
        BY <1>2, <2>2, FinishTaken
<1> QED
    BY <1>1, <1>2

-----------------------------------------------------------------------------
\* A running call's record is heard.

LEMMA ToldIdle ==
    ASSUME NEW k \in CoreType, NEW c \in Calls, Inflight(k, c), NEW t \in Nat,
           NEW m, m = Told(k, c, t)
    PROVE  /\ m \in CoreType /\ Inflight(m, c) /\ m.ready = k.ready
           /\ \A d \in Calls : Idle(k, m, d)
<1>1. PICK old \in Running : old = k.inflight[c]
    BY InflightInCalls DEF Inflight
<1>2. PICK r \in Running : /\ r.m = old.m /\ r.credit = old.credit /\ r.fullSince = old.fullSince
                           /\ r.inboundClosed = old.inboundClosed
                           /\ r = [old EXCEPT !.lastHeard = t]
    BY DEF Running
<1>3. PICK inflight : inflight = [k.inflight EXCEPT ![c] = r]
    OBVIOUS
<1>4. m = SetRunning(k, c, r) /\ m = [k EXCEPT !.inflight = inflight]
    BY <1>1, <1>2, <1>3 DEF SetRunning, Told
<1>5. m = SetRunning(k, c, r)
    BY <1>4
<1>6. /\ m \in CoreType
      /\ DOMAIN m.inflight = DOMAIN k.inflight /\ m.pending = k.pending
      /\ m.inflight[c] = r /\ Alike(k, m, c)
      /\ \A d \in Calls : d # c => Same(k, m, d)
    BY <1>5, RunningChanged
<1>7. AllBooks(k, m) /\ m.inflight = inflight
    BY <1>4 DEF CoreType, AllBooks
<1>8. \A d \in DOMAIN k.inflight : d # c => inflight[d] = k.inflight[d]
    BY <1>3
<1>9. ASSUME NEW d \in Calls PROVE Idle(k, m, d)
    <2>1. Alike(k, m, d)
        BY <1>6 DEF Same
    <2>2. Terms(k, m, d)
        BY <1>1, <1>2, <1>6, <1>7, <1>8 DEF Terms, WaitTerms, RunTerms, Pending, Inflight
    <2> QED
        BY <1>7, <2>1, <2>2, IdleMade
<1> QED
    BY <1>6, <1>7, <1>9 DEF AllBooks, Inflight

LEMMA ToldThenFinish ==
    ASSUME NEW s \in Side, NEW k \in CoreType, NEW f, NEW c \in Calls, c = f.call, NEW t \in Nat,
           Inflight(k, c), NEW status \in Statuses, NEW m, m = Told(k, c, t),
           NEW l, l = FinishInflight(s, m, Only(c), status)
    PROVE  Takes(s, k, l, f)
<1>1. /\ m \in CoreType /\ Inflight(m, c) /\ m.ready = k.ready
      /\ \A d \in Calls : Idle(k, m, d)
    BY ToldIdle
<1>2. m \in CoreType /\ Inflight(m, c)
    BY <1>1
<1>3. /\ l.ready = m.ready
      /\ \A d \in Calls : IF d = c THEN Over(s, m, l, d) ELSE Idle(m, l, d)
    BY <1>2, FinishOneOver
<1>4. Over(s, k, l, c)
    BY <1>1, <1>3, IdleThenOver
<1>5. \A d \in Calls : d # c => Idle(k, l, d)
    BY <1>1, <1>3, IdleTwice
<1> QED
    BY <1>1, <1>3, <1>4, <1>5 DEF Takes, Heeds

LEMMA OnCallerItemTaken ==
    ASSUME NEW s \in Side, NEW k \in CoreType, NEW f \in Frame, NEW c \in Calls, c = f.call,
           f.kind = "ITEM", Inflight(k, c), ~Pending(k, c), NEW t \in Nat,
           NEW answer \in Statuses, NEW l, l = OnCallerItem(s, k, f, t, answer)
    PROVE  Takes(s, k, l, f)
<1>1. PICK m : m = Told(k, c, t)
    OBVIOUS
<1>2. /\ m \in CoreType /\ Inflight(m, c) /\ m.ready = k.ready
      /\ \A d \in Calls : Idle(k, m, d)
    BY <1>1, ToldIdle
<1>3. PICK status \in Statuses : status = "INVALID_ARGUMENT"
    BY StatusTypes
<1>4. PICK r : r = k.inflight[c]
    OBVIOUS
<1>5. \/ l = FinishInflight(s, m, Only(c), status)
      \/ l = FinishInflight(s, m, Only(c), answer)
      \/ CallerStreams(r.m) /\ r.inboundClosed /\ l = m
      \/ CallerStreams(r.m) /\ ~r.inboundClosed /\ l = [m EXCEPT !.got[c] = Append(@, f.n), !.todo = {c}]
    BY <1>1, <1>3, <1>4 DEF OnCallerItem, Only, Told
<1>6. CASE l = FinishInflight(s, m, Only(c), status)
    BY <1>1, <1>6, ToldThenFinish
<1>7. CASE l = FinishInflight(s, m, Only(c), answer)
    BY <1>1, <1>7, ToldThenFinish
<1>8. CASE CallerStreams(r.m) /\ r.inboundClosed /\ l = m
    <2>1. Skipped(s, k, l, f)
        BY <1>2, <1>4, <1>8 DEF Skipped
    <2> QED
        BY <1>2, <1>8, <2>1 DEF Takes, Heeds
<1>9. CASE CallerStreams(r.m) /\ ~r.inboundClosed /\ l = [m EXCEPT !.got[c] = Append(@, f.n), !.todo = {c}]
    <2>1. PICK got : got = [m.got EXCEPT ![c] = Append(m.got[c], f.n)]
        OBVIOUS
    <2>2. m.got \in [Calls -> Seq(Nat)]
        BY <1>2 DEF CoreType
    <2>3. got[c] = Append(m.got[c], f.n) /\ \A d \in Calls : d # c => got[d] = m.got[d]
        BY <2>1, <2>2
    <2>4. l = [m EXCEPT !.got = got, !.todo = {c}]
        BY <1>9, <2>1
    <2>5. /\ l.got = got /\ l.ready = m.ready
          /\ l.put = m.put /\ l.metered = m.metered /\ l.granted = m.granted
          /\ l.pending = m.pending /\ l.inflight = m.inflight /\ l.box = m.box
          /\ l.outcomes = m.outcomes /\ l.chain = m.chain /\ l.issued = m.issued /\ l.leftAt = m.leftAt
        <3>1. m \in CoreType
            BY <1>2
        <3> QED
            BY <2>4, <3>1 DEF CoreType
    <2>6. \A d \in Calls : Same(m, l, d)
        BY <2>5, Aside
    <2>7. \A d \in Calls : Terms(m, l, d)
        BY <2>5 DEF Terms, WaitTerms, RunTerms, Pending, Inflight
    <2>8. ASSUME NEW d \in Calls, d # c PROVE Idle(k, l, d)
        <3>1. Idle(m, l, d)
            BY <2>3, <2>5, <2>6, <2>7, <2>8 DEF Idle, Same, Books
        <3> QED
            BY <1>2, <3>1, IdleTwice
    <2>9. ItemGiven(k, l, f)
        <3>1. Idle(k, m, c) /\ Alike(m, l, c) /\ Terms(m, l, c)
            BY <1>2, <2>6, <2>7 DEF Same
        <3>2. Stays(k, l, c) /\ l.outcomes[c] = k.outcomes[c]
            BY <2>5, <3>1 DEF Stays, Idle, Alike, Books, SameLife, SamePast
        <3>3. Terms(k, l, c)
            BY <3>1 DEF Idle, Alike, SameLife, Terms, WaitTerms, RunTerms
        <3>4. l.got[c] = Append(k.got[c], f.n)
            BY <2>3, <2>5, <3>1 DEF Idle, Books
        <3> QED
            BY <1>4, <1>9, <3>2, <3>3, <3>4 DEF ItemGiven
    <2> QED
        BY <1>2, <2>5, <2>8, <2>9 DEF Takes, Heeds
<1> QED
    BY <1>5, <1>6, <1>7, <1>8, <1>9

LEMMA OnItemTaken ==
    ASSUME NEW s \in Side, NEW k \in CoreType, NEW f \in Frame, NEW c \in Calls, c = f.call,
           f.kind = "ITEM", Apart(s, k, c), NEW t \in Nat,
           NEW answer \in Statuses, NEW l, l = OnItem(s, k, f, t, answer)
    PROVE  Takes(s, k, l, f)
<1>1. CASE Inflight(k, c)
    <2>1. l = OnCallerItem(s, k, f, t, answer) /\ ~Pending(k, c)
        BY <1>1 DEF OnItem, Inflight, Apart
    <2> QED
        BY <1>1, <2>1, OnCallerItemTaken
<1>2. CASE ~Inflight(k, c) /\ ~Pending(k, c)
    <2>1. l = k
        BY <1>2 DEF OnItem, Inflight, Pending
    <2>2. Skipped(s, k, k, f)
        BY <1>2, IdleSelf DEF Skipped
    <2> QED
        BY <2>1, <2>2, NothingTaken
<1>3. CASE ~Inflight(k, c) /\ Pending(k, c)
    <2>1. PICK status \in Statuses : status = "INVALID_ARGUMENT"
        BY StatusTypes
    <2>2. \/ l = AbandonPending(s, k, Only(c), status)
          \/ l = [k EXCEPT !.outcomes[c] = Append(@, ItemOutcome(f.n))]
        BY <1>3, <2>1 DEF OnItem, Inflight, Pending, Only
    <2>3. CASE l = AbandonPending(s, k, Only(c), status)
        BY <1>3, <2>3, AbandonTaken
    <2>4. CASE l = [k EXCEPT !.outcomes[c] = Append(@, ItemOutcome(f.n))]
        <3>1. PICK outs : outs = [k.outcomes EXCEPT ![c] = Append(k.outcomes[c], ItemOutcome(f.n))]
            OBVIOUS
        <3>2. k.outcomes \in [Calls -> Seq(Outcome)]
            BY DEF CoreType
        <3>3. /\ outs[c] = Append(k.outcomes[c], ItemOutcome(f.n))
              /\ \A d \in Calls : d # c => outs[d] = k.outcomes[d]
            BY <3>1, <3>2
        <3>4. l = [k EXCEPT !.outcomes = outs]
            BY <2>4, <3>1
        <3>5. /\ l.outcomes = outs /\ AllBooks(k, l)
              /\ l.pending = k.pending /\ l.inflight = k.inflight /\ l.box = k.box
              /\ l.chain = k.chain /\ l.issued = k.issued /\ l.leftAt = k.leftAt
            BY <3>4 DEF CoreType, AllBooks
        <3>6. ASSUME NEW d \in Calls
              PROVE  SameLife(k, l, d) /\ SamePast(k, l, d) /\ Queue(l, d) = Queue(k, d) /\ Terms(k, l, d)
            BY <3>5 DEF SameLife, SamePast, Queue, Terms, WaitTerms, RunTerms, Pending, Inflight
        <3>7. ASSUME NEW d \in Calls, d # c PROVE Idle(k, l, d)
            <4>1. Alike(k, l, d)
                BY <3>3, <3>5, <3>6, <3>7 DEF Alike
            <4> QED
                BY <3>5, <3>6, <4>1, IdleMade
        <3>8. ItemReported(k, l, f)
            BY <1>3, <3>3, <3>5, <3>6 DEF ItemReported, Stays, AllBooks
        <3> QED
            BY <3>5, <3>7, <3>8 DEF Takes, Heeds, AllBooks
    <2> QED
        BY <2>2, <2>3, <2>4
<1> QED
    BY <1>1, <1>2, <1>3

\* A running call's record changes, and nothing else does.
LEMMA RecordSet ==
    ASSUME NEW k \in CoreType, NEW c \in Calls, Inflight(k, c), NEW r \in Running,
           NEW l, l = SetRunning(k, c, r)
    PROVE  /\ l \in CoreType /\ Alike(k, l, c) /\ AllBooks(k, l)
           /\ l.inflight[c] = r /\ l.pending = k.pending
           /\ \A d \in Calls : d # c => Idle(k, l, d)
<1>1. PICK inflight : inflight = [k.inflight EXCEPT ![c] = r]
    OBVIOUS
<1>2. l = [k EXCEPT !.inflight = inflight]
    BY <1>1 DEF SetRunning
<1>3. /\ l \in CoreType /\ l.inflight[c] = r /\ Alike(k, l, c) /\ l.pending = k.pending
      /\ DOMAIN l.inflight = DOMAIN k.inflight
      /\ \A d \in Calls : d # c => Same(k, l, d)
    BY RunningChanged
<1>4. AllBooks(k, l) /\ l.inflight = inflight
    BY <1>2 DEF CoreType, AllBooks
<1>5. \A d \in DOMAIN k.inflight : d # c => inflight[d] = k.inflight[d]
    BY <1>1
<1>6. ASSUME NEW d \in Calls, d # c PROVE Idle(k, l, d)
    <2>1. Alike(k, l, d)
        BY <1>3, <1>6 DEF Same
    <2>2. Terms(k, l, d)
        BY <1>3, <1>4, <1>5, <1>6 DEF Terms, WaitTerms, RunTerms, Pending, Inflight
    <2> QED
        BY <1>4, <2>1, <2>2, IdleMade
<1> QED
    BY <1>3, <1>4, <1>6

LEMMA OnCallerEndTaken ==
    ASSUME NEW s \in Side, NEW k \in CoreType, NEW f \in Frame, NEW c \in Calls, c = f.call,
           f.kind = "END", Inflight(k, c), ~Pending(k, c), NEW t \in Nat,
           NEW answer \in Statuses, NEW l, l = OnCallerEnd(s, k, f, t, answer)
    PROVE  Takes(s, k, l, f)
<1>1. PICK m : m = Told(k, c, t)
    OBVIOUS
<1>2. /\ m \in CoreType /\ Inflight(m, c) /\ m.ready = k.ready
      /\ \A d \in Calls : Idle(k, m, d)
    BY <1>1, ToldIdle
<1>3. PICK status \in Statuses : status = "INVALID_ARGUMENT"
    BY StatusTypes
<1>4. PICK r : r = k.inflight[c]
    OBVIOUS
<1>5. \/ l = FinishInflight(s, m, Only(c), status)
      \/ l = FinishInflight(s, m, Only(c), answer)
      \/ CallerStreams(r.m) /\ r.inboundClosed /\ l = m
      \/ /\ CallerStreams(r.m) /\ ~r.inboundClosed
         /\ l = [m EXCEPT !.inflight[c].inboundClosed = TRUE, !.todo = {c}]
    BY <1>1, <1>3, <1>4 DEF OnCallerEnd, Only, Told
<1>6. CASE l = FinishInflight(s, m, Only(c), status)
    BY <1>1, <1>6, ToldThenFinish
<1>7. CASE l = FinishInflight(s, m, Only(c), answer)
    BY <1>1, <1>7, ToldThenFinish
<1>8. CASE CallerStreams(r.m) /\ r.inboundClosed /\ l = m
    <2>1. Skipped(s, k, l, f)
        BY <1>2, <1>4, <1>8 DEF Skipped
    <2> QED
        BY <1>2, <1>8, <2>1 DEF Takes, Heeds
<1>9. CASE /\ CallerStreams(r.m) /\ ~r.inboundClosed
           /\ l = [m EXCEPT !.inflight[c].inboundClosed = TRUE, !.todo = {c}]
    <2>1. m \in CoreType /\ Inflight(m, c)
        BY <1>2
    <2>2. PICK old \in Running : old = m.inflight[c]
        BY <2>1, InflightInCalls DEF Inflight
    <2>12. PICK v : v = [old EXCEPT !.inboundClosed = TRUE]
        OBVIOUS
    <2>3. v \in Running /\ v.m = old.m /\ v.credit = old.credit /\ v.inboundClosed
        BY <2>12 DEF Running
    <2>4. PICK u : u = SetRunning(m, c, v)
        OBVIOUS
    <2>5. /\ u \in CoreType /\ Alike(m, u, c) /\ AllBooks(m, u)
          /\ u.inflight[c] = v /\ u.pending = m.pending
          /\ \A d \in Calls : d # c => Idle(m, u, d)
        BY <2>1, <2>3, <2>4, RecordSet
    <2>6. l = [u EXCEPT !.todo = {c}]
        BY <1>9, <2>1, <2>2, <2>4, <2>12 DEF SetRunning, CoreType
    <2>7. Turned(u, l)
        <3>1. u \in CoreType /\ {c} \in SUBSET Calls
            BY <2>5
        <3> QED
            BY <2>6, <3>1 DEF CoreType, Turned
    <2>8. \A d \in Calls : Idle(u, l, d)
        BY <2>7, TurnedIdle
    <2>9. ASSUME NEW d \in Calls, d # c PROVE Idle(k, l, d)
        <3>1. Idle(k, m, d) /\ Idle(m, u, d) /\ Idle(u, l, d)
            BY <1>2, <2>5, <2>8, <2>9
        <3>2. Idle(k, u, d)
            BY <3>1, IdleTwice
        <3> QED
            BY <3>1, <3>2, IdleTwice
    <2>10. EndGiven(k, l, f)
        <3>1. Idle(k, m, c) /\ Alike(m, u, c) /\ Books(m, u, c)
            BY <1>2, <2>5 DEF AllBooks, Books
        <3>2. Alike(k, u, c) /\ Books(k, u, c)
            BY <3>1 DEF Idle, Alike, SameLife, SamePast, Books
        <3>3. Alike(k, l, c) /\ Books(k, l, c)
            BY <2>8, <3>2 DEF Idle, Alike, SameLife, SamePast, Books
        <3>4. Stays(k, l, c) /\ l.outcomes[c] = k.outcomes[c] /\ l.got[c] = k.got[c]
            BY <3>3 DEF Stays, Alike, Books
        <3>5. l.inflight[c] = v
            BY <2>5, <2>7 DEF Turned
        <3>6. v.m = r.m /\ v.credit = r.credit
            BY <1>2, <1>4, <2>2, <2>3, <3>1 DEF Idle, Terms, RunTerms
        <3> QED
            BY <1>4, <1>9, <2>3, <3>4, <3>5, <3>6 DEF EndGiven
    <2>11. l.ready = k.ready
        BY <1>2, <2>5, <2>7 DEF Turned, AllBooks
    <2> QED
        BY <2>9, <2>10, <2>11 DEF Takes, Heeds
<1> QED
    BY <1>5, <1>6, <1>7, <1>8, <1>9

LEMMA OnEndTaken ==
    ASSUME NEW s \in Side, NEW k \in CoreType, NEW f \in Frame, NEW c \in Calls, c = f.call,
           f.kind = "END", Apart(s, k, c), NEW t \in Nat,
           NEW answer \in Statuses, NEW l, l = OnEnd(s, k, f, t, answer)
    PROVE  Takes(s, k, l, f)
<1>1. CASE Inflight(k, c)
    <2>1. l = OnCallerEnd(s, k, f, t, answer) /\ ~Pending(k, c)
        BY <1>1 DEF OnEnd, Inflight, Apart
    <2> QED
        BY <1>1, <2>1, OnCallerEndTaken
<1>2. CASE ~Inflight(k, c) /\ ~Pending(k, c)
    <2>1. l = k
        BY <1>2 DEF OnEnd, Inflight, Pending
    <2>2. Skipped(s, k, k, f)
        BY <1>2, IdleSelf DEF Skipped
    <2> QED
        BY <2>1, <2>2, NothingTaken
<1>3. CASE ~Inflight(k, c) /\ Pending(k, c)
    <2>1. PICK status \in Statuses : status = "INVALID_ARGUMENT"
        BY StatusTypes
    <2>2. PICK o : o = EndOutcome
        OBVIOUS
    <2>3. o \in Outcome /\ Terminates(o)
        BY <2>2, OutcomeTypes
    <2>4. l = AbandonPending(s, k, Only(c), status) \/ l = SettlePending(k, Only(c), o)
        BY <1>3, <2>1, <2>2 DEF OnEnd, Inflight, Pending, Only
    <2>5. CASE l = AbandonPending(s, k, Only(c), status)
        BY <1>3, <2>5, AbandonTaken
    <2>6. CASE l = SettlePending(k, Only(c), o)
        <3>1. /\ l.ready = k.ready /\ \A d \in Calls : d # c => Idle(k, l, d)
              /\ Answered(k, l, c) /\ Books(k, l, c) /\ l.outcomes[c] = Append(k.outcomes[c], o)
              /\ o.kind # "end" => Gone(k, l, c)
            BY <1>3, <2>3, <2>6, SettleFlow
        <3>2. EndReported(k, l, f)
            BY <1>3, <2>2, <3>1 DEF EndReported, Answered
        <3> QED
            BY <3>1, <3>2 DEF Takes, Heeds
    <2> QED
        BY <2>4, <2>5, <2>6
<1> QED
    BY <1>1, <1>2, <1>3

\* Core.CreditRunning writes one record: the one it read, heard, granted more,
\* and established.
LEMMA CreditRunningSet ==
    ASSUME NEW k \in CoreType, NEW c \in Calls, Inflight(k, c), NEW t \in Nat, NEW n \in Nat,
           NEW l, l = CreditRunning(k, c, t, n)
    PROVE  \E v \in Running :
             /\ v.m = k.inflight[c].m /\ v.inboundClosed = k.inflight[c].inboundClosed
             /\ v.credit = SaturatingAdd(k.inflight[c].credit, n)
             /\ l = SetRunning(k, c, v)
<1>1. PICK r \in Running : r = k.inflight[c]
    BY InflightInCalls DEF Inflight
<1>2. r.credit \in 0..MaxU32
    BY DEF Running
<1>3. PICK a \in 0..MaxU32 : a = SaturatingAdd(r.credit, n)
    BY <1>2, SaturatingAddType
<1>4. PICK v : v = [r EXCEPT !.lastHeard = t, !.credit = a, !.established = TRUE]
    OBVIOUS
<1>5. v \in Running /\ v.m = r.m /\ v.inboundClosed = r.inboundClosed /\ v.credit = a
    BY <1>4 DEF Running
<1>6. l = SetRunning(k, c, v)
    <2>1. k.inflight \in [DOMAIN k.inflight -> Running] /\ c \in DOMAIN k.inflight
        BY MapsMember DEF CoreType, Inflight
    <2> QED
        BY ZenonT(60), <1>1, <1>3, <1>4, <2>1 DEF CreditRunning, SetRunning, CoreType, Running
<1> QED
    BY <1>1, <1>3, <1>5, <1>6

LEMMA CreditRunningTaken ==
    ASSUME NEW s \in Side, HasCredit(s), NEW k \in CoreType, NEW f \in Frame, NEW c \in Calls, c = f.call,
           f.kind = "CREDIT", Inflight(k, c), ~Pending(k, c), NEW t \in Nat, NEW n \in Nat, n = f.n,
           NEW l, l = CreditRunning(k, c, t, n)
    PROVE  Takes(s, k, l, f)
<1>1. PICK v \in Running :
             /\ v.m = k.inflight[c].m /\ v.inboundClosed = k.inflight[c].inboundClosed
             /\ v.credit = SaturatingAdd(k.inflight[c].credit, n)
             /\ l = SetRunning(k, c, v)
    BY CreditRunningSet
<1>2. l = SetRunning(k, c, v)
    BY <1>1
<1>3. /\ l \in CoreType /\ Alike(k, l, c) /\ AllBooks(k, l)
      /\ l.inflight[c] = v /\ l.pending = k.pending
      /\ \A d \in Calls : d # c => Idle(k, l, d)
    BY <1>2, RecordSet
<1>4. Credited(s, k, l, f)
    BY <1>1, <1>3 DEF Credited, Stays, Alike, AllBooks
<1> QED
    BY <1>3, <1>4 DEF Takes, Heeds, AllBooks

LEMMA CreditWaitingTaken ==
    ASSUME NEW s \in Side, HasCredit(s), NEW k \in CoreType, NEW f \in Frame, NEW c \in Calls, c = f.call,
           f.kind = "CREDIT", Pending(k, c), ~Inflight(k, c), NEW n \in Nat, n = f.n,
           NEW l, l = CreditWaiting(k, c, n)
    PROVE  Takes(s, k, l, f)
<1>1. PICK w \in Waiting : w = k.pending[c]
    BY PendingInCalls DEF Pending
<1>2. w.credit \in 0..MaxU32
    BY DEF Waiting
<1>3. PICK a \in 0..MaxU32 : a = SaturatingAdd(w.credit, n)
    BY <1>2, SaturatingAddType
<1>4. PICK v : v = [w EXCEPT !.credit = a, !.established = TRUE]
    OBVIOUS
<1>5. v \in Waiting /\ v.sendClosed = w.sendClosed /\ v.credit = a /\ v.established
    BY <1>4 DEF Waiting
<1>6. PICK pending : pending = [k.pending EXCEPT ![c] = v]
    OBVIOUS
<1>7. l = [k EXCEPT !.pending = pending]
    <2>1. k.pending \in [DOMAIN k.pending -> Waiting] /\ c \in DOMAIN k.pending
        BY MapsMember DEF CoreType, Pending
    <2> QED
        BY ZenonT(60), <1>1, <1>3, <1>4, <1>6, <2>1 DEF CreditWaiting, CoreType, Waiting
<1>8. l = [k EXCEPT !.pending = [k.pending EXCEPT ![c] = v]]
    BY <1>6, <1>7
<1>9. /\ l.inflight = k.inflight /\ \A d \in Calls : Same(k, l, d)
    BY <1>5, <1>8, WaitingChanged
<1>10. AllBooks(k, l) /\ l.pending = pending
    BY <1>7 DEF CoreType, AllBooks
<1>11. pending[c] = v /\ \A d \in DOMAIN k.pending : d # c => pending[d] = k.pending[d]
    <2>1. c \in DOMAIN k.pending
        BY DEF Pending
    <2> QED
        BY <1>6, <2>1
<1>12. Credited(s, k, l, f)
    BY <1>1, <1>3, <1>5, <1>9, <1>10, <1>11 DEF Credited, Stays, Same, Alike, AllBooks
<1>13. ASSUME NEW d \in Calls, d # c PROVE Idle(k, l, d)
    <2>1. Alike(k, l, d)
        BY <1>9 DEF Same
    <2>2. Terms(k, l, d)
        BY <1>9, <1>10, <1>11, <1>13 DEF Terms, WaitTerms, RunTerms, Pending, Inflight
    <2> QED
        BY <1>10, <2>1, <2>2, IdleMade
<1> QED
    BY <1>10, <1>12, <1>13 DEF Takes, Heeds, AllBooks

LEMMA OnCreditTaken ==
    ASSUME NEW s \in Side, NEW k \in CoreType, NEW f \in Frame, NEW c \in Calls, c = f.call,
           f.kind = "CREDIT", Apart(s, k, c), NEW t \in Nat, NEW l, l = OnCredit(s, k, f, t)
    PROVE  Takes(s, k, l, f)
<1>1. PICK n \in Nat : n = f.n
    BY DEF Frame
<1>2. PICK status \in Statuses : status = "INVALID_ARGUMENT"
    BY StatusTypes
<1>3. ~(Inflight(k, c) /\ Pending(k, c))
    BY DEF Apart
<1>4. \/ l = k /\ (~HasCredit(s) \/ (~Inflight(k, c) /\ ~Pending(k, c)))
      \/ l = FinishInflight(s, k, Only(c), status) /\ Inflight(k, c)
      \/ l = AbandonPending(s, k, Only(c), status) /\ ~Inflight(k, c) /\ Pending(k, c)
      \/ l = CreditRunning(k, c, t, n) /\ Inflight(k, c) /\ HasCredit(s)
      \/ l = CreditWaiting(k, c, n) /\ ~Inflight(k, c) /\ Pending(k, c) /\ HasCredit(s)
    BY <1>1, <1>2 DEF OnCredit, CreditRunning, CreditWaiting, Inflight, Pending, Only
<1>5. CASE l = k /\ (~HasCredit(s) \/ (~Inflight(k, c) /\ ~Pending(k, c)))
    <2>1. Skipped(s, k, k, f)
        BY <1>5, IdleSelf DEF Skipped
    <2> QED
        BY <1>5, <2>1, NothingTaken
<1>6. CASE l = FinishInflight(s, k, Only(c), status) /\ Inflight(k, c)
    BY <1>6, FinishTaken
<1>7. CASE l = AbandonPending(s, k, Only(c), status) /\ ~Inflight(k, c) /\ Pending(k, c)
    BY <1>7, AbandonTaken
<1>8. CASE l = CreditRunning(k, c, t, n) /\ Inflight(k, c) /\ HasCredit(s)
    BY <1>1, <1>3, <1>8, CreditRunningTaken
<1>9. CASE l = CreditWaiting(k, c, n) /\ ~Inflight(k, c) /\ Pending(k, c) /\ HasCredit(s)
    BY <1>1, <1>9, CreditWaitingTaken
<1> QED
    BY <1>4, <1>5, <1>6, <1>7, <1>8, <1>9

\* Whatever the peer sends is taken in one of the ways of Heeds.
LEMMA OnMessageTaken ==
    ASSUME NEW s \in Side, NEW k \in CoreType, NEW c \in Calls, NEW f \in FrameFrom(Peer(s), c),
           Apart(s, k, c), NEW t \in Nat, NEW answer \in {"OK"} \cup Failures,
           NEW l, l = OnMessage(s, k, f, t, answer)
    PROVE  Takes(s, k, l, f)
<1>1. f \in Frame /\ c = f.call
    BY DEF FrameFrom
<1>2. answer \in Statuses
    BY StatusTypes
<1>3. f.kind = "REQUEST" => ~Allocates(s, c)
    BY PeerSide, OneAllocates DEF FrameFrom
<1>4. MaxCtxLen[s] \in Nat
    BY LinkConstants
<1>5. CASE f.ctx.len > MaxCtxLen[s]
    <2>1. f.kind = "REQUEST"
        BY <1>4, <1>5 DEF FrameFrom
    <2>2. CASE Owns(s, f.mid)
        <3>1. PICK status \in Statuses : status = "INTERNAL"
            BY StatusTypes
        <3>2. l = FailReceived(s, k, c, status)
            BY <1>1, <1>5, <2>2, <3>1 DEF OnMessage
        <3> QED
            BY <1>1, <3>2, FailReceivedTaken
    <2>3. CASE ~Owns(s, f.mid)
        <3>1. l = k
            BY <1>5, <2>3 DEF OnMessage
        <3>2. Skipped(s, k, k, f)
            BY <2>1, IdleSelf DEF Skipped
        <3> QED
            BY <3>1, <3>2, NothingTaken
    <2> QED
        BY <2>2, <2>3
<1>6. CASE ~(f.ctx.len > MaxCtxLen[s]) /\ f.kind # "REQUEST" /\ Inflate(s, f) # "OK"
    <2>1. PICK status \in Statuses : status = Inflate(s, f)
        BY StatusTypes
    <2>2. l = FailReceived(s, k, c, status)
        BY <1>1, <1>6, <2>1 DEF OnMessage
    <2> QED
        BY <1>1, <2>2, FailReceivedTaken
<1>7. CASE ~(f.ctx.len > MaxCtxLen[s]) /\ ~(f.kind # "REQUEST" /\ Inflate(s, f) # "OK")
    <2>1. f.kind \in {"REQUEST", "RESPONSE", "ERROR", "ITEM", "END", "CANCEL", "CREDIT"}
        BY <1>1 DEF Frame, Kinds
    <2>2. CASE f.kind = "REQUEST"
        <3>1. l = OnRequest(s, k, f, t, answer)
            BY <1>7, <2>2 DEF OnMessage
        <3> QED
            BY <1>1, <1>2, <1>3, <2>2, <3>1, OnRequestTaken
    <2>3. CASE f.kind = "RESPONSE"
        <3>1. l = OnResponse(k, f)
            BY <1>7, <2>3 DEF OnMessage
        <3> QED
            BY <1>1, <2>3, <3>1, OnResponseTaken
    <2>4. CASE f.kind = "ERROR"
        <3>1. l = OnError(s, k, f)
            BY <1>7, <2>4 DEF OnMessage
        <3> QED
            BY <1>1, <2>4, <3>1, OnErrorTaken
    <2>5. CASE f.kind = "ITEM"
        <3>1. l = OnItem(s, k, f, t, answer)
            BY <1>7, <2>5 DEF OnMessage
        <3> QED
            BY <1>1, <1>2, <2>5, <3>1, OnItemTaken
    <2>6. CASE f.kind = "END"
        <3>1. l = OnEnd(s, k, f, t, answer)
            BY <1>7, <2>6 DEF OnMessage
        <3> QED
            BY <1>1, <1>2, <2>6, <3>1, OnEndTaken
    <2>7. CASE f.kind = "CANCEL"
        <3>1. l = OnCancel(s, k, f)
            BY <1>7, <2>7 DEF OnMessage
        <3> QED
            BY <1>1, <2>7, <3>1, OnCancelTaken
    <2>8. CASE f.kind = "CREDIT"
        <3>1. l = OnCredit(s, k, f, t)
            BY <1>7, <2>8 DEF OnMessage
        <3> QED
            BY <1>1, <2>8, <3>1, OnCreditTaken
    <2> QED
        BY <2>1, <2>2, <2>3, <2>4, <2>5, <2>6, <2>7, <2>8
<1> QED
    BY <1>5, <1>6, <1>7

-----------------------------------------------------------------------------
\* Frames in a queue and on the link.

Requests == {"REQUEST"}
Cancels == {"CANCEL"}

\* Frames of call c among those on their way.
Says(frames, c, K) == \E i \in 1..Len(frames) : frames[i].call = c /\ frames[i].kind \in K
Mentions(frames, c) == \E i \in 1..Len(frames) : frames[i].call = c

\* A REQUEST is the first frame of its call: in its queue, and on the link.
HeadOnly(q) == \A i \in 1..Len(q) : q[i].kind \in Requests => i = 1
ReqFirst(frames, c) ==
    \A i \in 1..Len(frames) :
        frames[i].call = c /\ frames[i].kind \in Requests =>
            \A j \in 1..Len(frames) : j < i => frames[j].call # c

LEMMA QueueAppend ==
    ASSUME NEW q \in Seq(Frame), NEW f \in Frame, NEW r, r = Append(q, f)
    PROVE  /\ r # <<>>
           /\ \A K : Has(r, K) <=> Has(q, K) \/ f.kind \in K
           /\ HeadOnly(q) /\ (f.kind \notin Requests \/ q = <<>>) => HeadOnly(r)
<1>1. /\ Len(r) = Len(q) + 1 /\ Len(q) \in Nat
      /\ \A i \in 1..Len(q) : r[i] = q[i]
      /\ r[Len(q) + 1] = f
    OBVIOUS
<1>2. \A i \in 1..Len(r) : i \in 1..Len(q) \/ i = Len(q) + 1
    BY <1>1
<1>3. \A i \in 1..Len(q) : i \in 1..Len(r)
    BY <1>1
<1>4. Len(q) + 1 \in 1..Len(r)
    BY <1>1
<1>5. r # <<>>
    BY <1>1
<1>6. ASSUME NEW K PROVE Has(r, K) <=> Has(q, K) \/ f.kind \in K
    BY <1>1, <1>2, <1>3, <1>4 DEF Has
<1>7. ASSUME HeadOnly(q), f.kind \notin Requests \/ q = <<>>
      PROVE  HeadOnly(r)
    <2>1. q = <<>> => Len(q) = 0
        OBVIOUS
    <2> QED
        BY <1>1, <1>2, <1>7, <2>1 DEF HeadOnly
<1> QED
    BY <1>5, <1>6, <1>7

LEMMA QueueEmpty == (\A K : ~Has(<<>>, K)) /\ HeadOnly(<<>>)
BY DEF Has, HeadOnly

LEMMA QueueOne ==
    ASSUME NEW f \in Frame, NEW r, r = <<f>>
    PROVE  /\ r # <<>>
           /\ \A K : Has(r, K) <=> f.kind \in K
           /\ HeadOnly(r)
BY DEF Has, HeadOnly

LEMMA QueueTail ==
    ASSUME NEW q \in Seq(Frame), q # <<>>, NEW r, r = Tail(q)
    PROVE  /\ \A K : Has(q, K) <=> Head(q).kind \in K \/ Has(r, K)
           /\ HeadOnly(q) => ~Has(r, Requests) /\ HeadOnly(r)
<1>1. /\ Len(q) \in Nat /\ Len(q) > 0 /\ Len(r) = Len(q) - 1
      /\ \A i \in 1..Len(r) : r[i] = q[i + 1]
      /\ Head(q) = q[1]
    OBVIOUS
<1>2. \A i \in 1..Len(q) : i = 1 \/ (i - 1 \in 1..Len(r) /\ r[i - 1] = q[i])
    <2>1. \A i \in 1..Len(q) : i = 1 \/ i - 1 \in 1..Len(r)
        BY <1>1
    <2> QED
        BY <1>1, <2>1
<1>3. \A i \in 1..Len(r) : i + 1 \in 1..Len(q) /\ i + 1 # 1
    BY <1>1
<1>4. ASSUME NEW K PROVE Has(q, K) <=> Head(q).kind \in K \/ Has(r, K)
    <2>1. 1 \in 1..Len(q)
        BY <1>1
    <2> QED
        BY <1>1, <1>2, <1>3, <2>1 DEF Has
<1>5. ASSUME HeadOnly(q) PROVE ~Has(r, Requests) /\ HeadOnly(r)
    BY <1>1, <1>3, <1>5 DEF Has, HeadOnly
<1> QED
    BY <1>4, <1>5

LEMMA NetAppend ==
    ASSUME NEW n \in Seq(Frame), NEW f \in Frame, NEW r, r = Append(n, f), NEW c
    PROVE  /\ r \in Seq(Frame)
           /\ \A K : Says(r, c, K) <=> Says(n, c, K) \/ (f.call = c /\ f.kind \in K)
           /\ Mentions(r, c) <=> Mentions(n, c) \/ f.call = c
           /\ ReqFirst(n, c) /\ (f.call = c /\ f.kind \in Requests => ~Mentions(n, c)) => ReqFirst(r, c)
<1>1. /\ r \in Seq(Frame) /\ Len(r) = Len(n) + 1 /\ Len(n) \in Nat
      /\ \A i \in 1..Len(n) : r[i] = n[i]
      /\ r[Len(n) + 1] = f
    OBVIOUS
<1>2. \A i \in 1..Len(r) : i \in 1..Len(n) \/ i = Len(n) + 1
    BY <1>1
<1>3. \A i \in 1..Len(n) : i \in 1..Len(r)
    BY <1>1
<1>4. Len(n) + 1 \in 1..Len(r)
    BY <1>1
<1>5. ASSUME NEW K PROVE Says(r, c, K) <=> Says(n, c, K) \/ (f.call = c /\ f.kind \in K)
    BY <1>1, <1>2, <1>3, <1>4 DEF Says
<1>6. Mentions(r, c) <=> Mentions(n, c) \/ f.call = c
    BY <1>1, <1>2, <1>3, <1>4 DEF Mentions
<1>7. ASSUME ReqFirst(n, c), f.call = c /\ f.kind \in Requests => ~Mentions(n, c),
             NEW i \in 1..Len(r), r[i].call = c, r[i].kind \in Requests,
             NEW j \in 1..Len(r), j < i
      PROVE  r[j].call # c
    <2>1. j \in 1..Len(n) /\ r[j] = n[j]
        BY <1>1, <1>7
    <2>2. CASE i = Len(n) + 1
        BY <1>1, <1>7, <2>1, <2>2 DEF Mentions
    <2>3. CASE i \in 1..Len(n)
        BY <1>1, <1>7, <2>1, <2>3 DEF ReqFirst
    <2> QED
        BY <1>2, <2>2, <2>3
<1>8. ReqFirst(n, c) /\ (f.call = c /\ f.kind \in Requests => ~Mentions(n, c)) => ReqFirst(r, c)
    BY <1>7 DEF ReqFirst
<1> QED
    BY <1>1, <1>5, <1>6, <1>8

LEMMA NetTail ==
    ASSUME NEW n \in Seq(Frame), n # <<>>, NEW r, r = Tail(n), NEW c
    PROVE  /\ r \in Seq(Frame)
           /\ \A K : Says(n, c, K) <=> (Head(n).call = c /\ Head(n).kind \in K) \/ Says(r, c, K)
           /\ Mentions(n, c) <=> Head(n).call = c \/ Mentions(r, c)
           /\ ReqFirst(n, c) => ReqFirst(r, c) /\ (Head(n).call = c => ~Says(r, c, Requests))
<1>1. /\ r \in Seq(Frame) /\ Len(n) \in Nat /\ Len(n) > 0 /\ Len(r) = Len(n) - 1
      /\ \A i \in 1..Len(r) : r[i] = n[i + 1]
      /\ Head(n) = n[1]
    OBVIOUS
<1>2. \A i \in 1..Len(n) : i = 1 \/ (i - 1 \in 1..Len(r) /\ r[i - 1] = n[i])
    <2>1. \A i \in 1..Len(n) : i = 1 \/ i - 1 \in 1..Len(r)
        BY <1>1
    <2> QED
        BY <1>1, <2>1
<1>3. \A i \in 1..Len(r) : i + 1 \in 1..Len(n) /\ 1 < i + 1
    BY <1>1
<1>4. 1 \in 1..Len(n)
    BY <1>1
<1>5. ASSUME NEW K PROVE Says(n, c, K) <=> (Head(n).call = c /\ Head(n).kind \in K) \/ Says(r, c, K)
    BY ZenonT(60), <1>1, <1>2, <1>3, <1>4 DEF Says
<1>6. Mentions(n, c) <=> Head(n).call = c \/ Mentions(r, c)
    BY <1>1, <1>2, <1>3, <1>4 DEF Mentions
<1>7. ASSUME ReqFirst(n, c), NEW i \in 1..Len(r), r[i].call = c, r[i].kind \in Requests,
             NEW j \in 1..Len(r), j < i
      PROVE  r[j].call # c
    <2>1. j + 1 \in 1..Len(n) /\ i + 1 \in 1..Len(n) /\ j + 1 < i + 1
        BY <1>1, <1>7
    <2>2. r[j] = n[j + 1] /\ r[i] = n[i + 1]
        BY <1>1
    <2> QED
        BY <1>7, <2>1, <2>2 DEF ReqFirst
<1>8. ASSUME ReqFirst(n, c), Head(n).call = c, NEW i \in 1..Len(r), r[i].call = c
      PROVE  r[i].kind \notin Requests
    <2>1. i + 1 \in 1..Len(n) /\ 1 < i + 1 /\ r[i] = n[i + 1]
        BY <1>1, <1>3
    <2> QED
        BY <1>1, <1>4, <1>8, <2>1 DEF ReqFirst
<1>9. ReqFirst(n, c) => ReqFirst(r, c)
    BY <1>7 DEF ReqFirst
<1>10. ReqFirst(n, c) /\ Head(n).call = c => ~Says(r, c, Requests)
    BY <1>8 DEF Says
<1> QED
    BY <1>1, <1>5, <1>6, <1>9, <1>10

LEMMA NetPrefix ==
    ASSUME NEW n \in Seq(Frame), NEW j \in 0..Len(n), NEW r, r = SubSeq(n, 1, j), NEW c
    PROVE  /\ r \in Seq(Frame)
           /\ \A K : Says(r, c, K) => Says(n, c, K)
           /\ Mentions(r, c) => Mentions(n, c)
           /\ ReqFirst(n, c) => ReqFirst(r, c)
<1>1. Len(n) \in Nat /\ j \in Nat /\ j <= Len(n)
    OBVIOUS
<1>2. r \in Seq(Frame) /\ Len(r) = j /\ \A i \in 1..j : r[i] = n[i]
    <2>1. \A i \in 1..j : n[i] \in Frame
        BY <1>1
    <2> QED
        BY <1>1, <2>1
<1>3. \A i \in 1..j : i \in 1..Len(n)
    BY <1>1
<1> QED
    BY <1>2, <1>3 DEF Says, Mentions, ReqFirst

LEMMA NetEmpty ==
    \A c : (\A K : ~Says(<<>>, c, K)) /\ ~Mentions(<<>>, c) /\ ReqFirst(<<>>, c)
BY DEF Says, Mentions, ReqFirst

LEMMA MentionsSays ==
    \A n, c, K : Says(n, c, K) => Mentions(n, c)
BY DEF Says, Mentions

-----------------------------------------------------------------------------
\* One call on one endpoint.

\* The outcomes reported for a call end as CompletesOnce says.
Ends(o) == {i \in 1..Len(o) : Terminates(o[i])}
Completed(k, c) ==
    Ends(k.outcomes[c]) = IF c \in k.issued /\ ~Pending(k, c) THEN {Len(k.outcomes[c])} ELSE {}

Unwound(k, c) == k.chain[c] = IF Pending(k, c) \/ Inflight(k, c) THEN 1 ELSE 0

\* The clock of a full queue started after the last frame left.
Fresh(k, c) ==
    /\ Len(Queue(k, c)) <= MaxPerCall
    /\ k.inflight[c].fullSince # 0 /\ Len(Queue(k, c)) = MaxPerCall
        => k.leftAt[c] <= k.inflight[c].fullSince

CallOK(s, k, c, t) ==
    /\ Pending(k, c) => c \in k.issued
    /\ c \in k.issued => Allocates(s, c) /\ c < k.next
    /\ Inflight(k, c) => ~Allocates(s, c) /\ Fresh(k, c)
    /\ Queue(k, c) \in Seq(FrameFrom(s, c))
    /\ k.leftAt[c] <= t
    /\ Completed(k, c) /\ Unwound(k, c)

LEMMA EndsAppend ==
    ASSUME NEW o \in Seq(Outcome), NEW x \in Outcome, NEW p, p = Append(o, x)
    PROVE  /\ Ends(o) = {} /\ Terminates(x) => Ends(p) = {Len(p)}
           /\ Ends(o) = {} /\ ~Terminates(x) => Ends(p) = {}
<1>1. /\ Len(p) = Len(o) + 1 /\ Len(o) \in Nat
      /\ \A i \in 1..Len(o) : p[i] = o[i]
      /\ p[Len(o) + 1] = x
    OBVIOUS
<1>2. \A i \in 1..Len(p) : i \in 1..Len(o) \/ i = Len(o) + 1
    BY <1>1
<1>3. Len(o) + 1 \in 1..Len(p)
    BY <1>1
<1>4. ASSUME Ends(o) = {}, NEW i \in Ends(p)
      PROVE  i = Len(p) /\ Terminates(x)
    BY <1>1, <1>2, <1>4 DEF Ends
<1>5. Terminates(x) => Len(p) \in Ends(p)
    BY <1>1, <1>3 DEF Ends
<1> QED
    BY <1>4, <1>5

LEMMA OutcomesType ==
    ASSUME NEW k \in CoreType, NEW c \in Calls
    PROVE  /\ k.outcomes[c] \in Seq(Outcome) /\ k.chain[c] \in Int /\ k.leftAt[c] \in Nat
           /\ Queue(k, c) \in Seq(Frame) /\ Len(Queue(k, c)) \in Nat
           /\ k.next \in Nat /\ c \in Nat /\ c \in Int
<1>1. k.box.queues[c] \in Seq(Frame)
    BY DEF CoreType, Box
<1>2. Len(k.box.queues[c]) \in Nat
    BY <1>1
<1> QED
    BY <1>1, <1>2, QueueConstants DEF CoreType, Queue

\* A queue keeps frames of its own call.
LEMMA FramesAppend ==
    ASSUME NEW s, NEW c, NEW q \in Seq(FrameFrom(s, c)), NEW f \in FrameFrom(s, c)
    PROVE  Append(q, f) \in Seq(FrameFrom(s, c)) /\ Len(Append(q, f)) = Len(q) + 1 /\ Len(q) \in Nat
OBVIOUS

LEMMA FramesTail ==
    ASSUME NEW s, NEW c, NEW q \in Seq(FrameFrom(s, c)), q # <<>>
    PROVE  /\ Tail(q) \in Seq(FrameFrom(s, c)) /\ Len(Tail(q)) = Len(q) - 1 /\ Len(q) \in Nat
           /\ Head(q) \in FrameFrom(s, c)
OBVIOUS

LEMMA FramesFew ==
    ASSUME NEW s, NEW c
    PROVE  <<>> \in Seq(FrameFrom(s, c)) /\ \A f \in FrameFrom(s, c) : <<f>> \in Seq(FrameFrom(s, c))
OBVIOUS

LEMMA KeptOK ==
    ASSUME NEW s \in Side, NEW k \in CoreType, NEW c \in Calls, NEW t \in Nat, CallOK(s, k, c, t),
           NEW l \in CoreType, k.next <= l.next, Kept(k, l, c, t)
    PROVE  CallOK(s, l, c, t)
<1>1. /\ k.outcomes[c] \in Seq(Outcome) /\ Len(Queue(k, c)) \in Nat /\ k.leftAt[c] \in Nat
      /\ k.next \in Nat /\ l.next \in Nat /\ c \in Nat
    BY OutcomesType
<1>2. /\ Pending(l, c) => c \in l.issued
      /\ c \in l.issued => Allocates(s, c) /\ c < l.next
    BY <1>1 DEF CallOK, Kept, SameLife, SamePast
<1>3. Inflight(l, c) => ~Allocates(s, c) /\ Fresh(l, c)
    BY <1>1, QueueConstants DEF CallOK, Kept, SameLife, SamePast, Fresh
<1>4. Queue(l, c) \in Seq(FrameFrom(s, c)) /\ l.leftAt[c] <= t /\ Unwound(l, c)
    BY DEF CallOK, Kept, SameLife, SamePast, Unwound
<1>5. Completed(l, c)
    <2>1. CASE l.outcomes[c] = k.outcomes[c]
        BY <2>1 DEF CallOK, Kept, SameLife, SamePast, Completed
    <2>2. ASSUME Pending(k, c), NEW n \in Nat, l.outcomes[c] = Append(k.outcomes[c], ItemOutcome(n))
          PROVE  Completed(l, c)
        <3>1. ItemOutcome(n) \in Outcome /\ ~Terminates(ItemOutcome(n))
            BY OutcomeTypes
        <3>2. Ends(k.outcomes[c]) = {}
            BY <2>2 DEF CallOK, Completed
        <3>3. Ends(l.outcomes[c]) = {}
            BY <1>1, <2>2, <3>1, <3>2, EndsAppend
        <3> QED
            BY <2>2, <3>3 DEF Completed, Kept, SameLife
    <2> QED
        BY <2>1, <2>2 DEF Kept
<1> QED
    BY <1>2, <1>3, <1>4, <1>5 DEF CallOK

LEMMA OpenedOK ==
    ASSUME NEW s \in Side, NEW k \in CoreType, NEW c \in Calls, NEW t \in Nat, CallOK(s, k, c, t),
           Allocates(s, c), NEW l \in CoreType, Opened(s, k, l, c)
    PROVE  CallOK(s, l, c, t) /\ c \notin k.issued /\ ~Pending(k, c) /\ ~Inflight(l, c)
<1>1. k.chain[c] \in Int /\ k.next \in Nat /\ l.next \in Nat /\ c \in Nat
    BY OutcomesType
<1>2. c \notin k.issued /\ ~Pending(k, c) /\ ~Inflight(l, c) /\ ~Inflight(k, c)
    BY <1>1 DEF CallOK, Opened
<1>3. /\ Pending(l, c) => c \in l.issued
      /\ c \in l.issued => Allocates(s, c) /\ c < l.next
      /\ l.leftAt[c] <= t
    BY DEF CallOK, Opened
<1>4. Queue(l, c) \in Seq(FrameFrom(s, c))
    BY FramesAppend DEF CallOK, Opened
<1>5. Completed(l, c) /\ Unwound(l, c)
    BY <1>1, <1>2 DEF CallOK, Opened, Completed, Unwound
<1> QED
    BY <1>2, <1>3, <1>4, <1>5 DEF CallOK

LEMMA QueuedOK ==
    ASSUME NEW s \in Side, NEW k \in CoreType, NEW c \in Calls, NEW t \in Nat, CallOK(s, k, c, t),
           NEW l \in CoreType, l.next = k.next, Queued(s, k, l, c)
    PROVE  CallOK(s, l, c, t)
<1>1. Len(Queue(k, c)) \in Nat
    BY OutcomesType
<1>2. PICK f \in FrameFrom(s, c) : Queue(l, c) = Append(Queue(k, c), f)
    BY DEF Queued
<1>3. PICK q \in Seq(FrameFrom(s, c)) : q = Queue(k, c)
    BY DEF CallOK
<1>4. Queue(l, c) \in Seq(FrameFrom(s, c)) /\ Len(Queue(l, c)) = Len(q) + 1
    BY <1>2, <1>3, FramesAppend
<1>5. Inflight(l, c) => ~Allocates(s, c) /\ Fresh(l, c)
    BY <1>1, <1>3, <1>4, QueueConstants DEF CallOK, Queued, SameLife, Fresh
<1> QED
    BY <1>4, <1>5 DEF CallOK, Queued, SameLife, SamePast, Completed, Unwound

\* A pending call completes.
LEMMA SettledOK ==
    ASSUME NEW s \in Side, NEW k \in CoreType, NEW c \in Calls, NEW t \in Nat, CallOK(s, k, c, t),
           NEW l \in CoreType, l.next = k.next, Settled(k, l, c),
           Queue(l, c) \in Seq(FrameFrom(s, c))
    PROVE  CallOK(s, l, c, t)
<1>1. k.outcomes[c] \in Seq(Outcome) /\ k.chain[c] \in Int
    BY OutcomesType
<1>2. ~Inflight(k, c) /\ ~Inflight(l, c) /\ c \in k.issued /\ c \in l.issued
    BY DEF CallOK, Settled, SamePast
<1>3. PICK o \in Outcome : Terminates(o) /\ l.outcomes[c] = Append(k.outcomes[c], o)
    BY DEF Settled
<1>4. Ends(k.outcomes[c]) = {}
    BY DEF CallOK, Settled, Completed
<1>5. Ends(l.outcomes[c]) = {Len(l.outcomes[c])}
    BY ZenonT(60), <1>1, <1>3, <1>4, EndsAppend
<1>6. Completed(l, c)
    BY <1>2, <1>5 DEF Completed, Settled
<1>7. Unwound(l, c)
    BY <1>1, <1>2 DEF CallOK, Settled, Unwound
<1> QED
    BY <1>2, <1>6, <1>7 DEF CallOK, Settled, SamePast

LEMMA AnsweredOK ==
    ASSUME NEW s \in Side, NEW k \in CoreType, NEW c \in Calls, NEW t \in Nat, CallOK(s, k, c, t),
           NEW l \in CoreType, l.next = k.next, Answered(k, l, c)
    PROVE  CallOK(s, l, c, t)
<1>1. Queue(l, c) \in Seq(FrameFrom(s, c)) /\ Settled(k, l, c)
    BY FramesFew DEF Answered
<1> QED
    BY <1>1, SettledOK

LEMMA AbandonedOK ==
    ASSUME NEW s \in Side, NEW k \in CoreType, NEW c \in Calls, NEW t \in Nat, CallOK(s, k, c, t),
           NEW l \in CoreType, l.next = k.next, Abandoned(s, k, l, c)
    PROVE  CallOK(s, l, c, t)
<1>1. Queue(l, c) \in Seq(FrameFrom(s, c)) /\ Settled(k, l, c)
    BY FramesFew DEF Abandoned
<1> QED
    BY <1>1, SettledOK

LEMMA FinishedOK ==
    ASSUME NEW s \in Side, NEW k \in CoreType, NEW c \in Calls, NEW t \in Nat, CallOK(s, k, c, t),
           NEW l \in CoreType, l.next = k.next, Finished(s, k, l, c)
    PROVE  CallOK(s, l, c, t)
<1>1. k.chain[c] \in Int
    BY OutcomesType
<1>2. ~Pending(k, c) /\ ~Pending(l, c) /\ ~Inflight(l, c) /\ c \notin k.issued /\ c \notin l.issued
    BY DEF CallOK, Finished, SamePast
<1>3. Queue(l, c) \in Seq(FrameFrom(s, c))
    <2>1. Queue(k, c) \in Seq(FrameFrom(s, c))
        BY DEF CallOK
    <2> QED
        BY <2>1, FramesFew, FramesAppend DEF Finished
<1>4. Completed(l, c) /\ Unwound(l, c)
    BY <1>1, <1>2 DEF CallOK, Finished, Completed, Unwound
<1> QED
    BY <1>2, <1>3, <1>4 DEF CallOK, Finished, SamePast

LEMMA RefusedOK ==
    ASSUME NEW s \in Side, NEW k \in CoreType, NEW c \in Calls, NEW t \in Nat, CallOK(s, k, c, t),
           NEW l \in CoreType, l.next = k.next, Refused(s, k, l, c)
    PROVE  CallOK(s, l, c, t)
<1>1. Queue(l, c) \in Seq(FrameFrom(s, c))
    <2>1. Queue(k, c) \in Seq(FrameFrom(s, c))
        BY DEF CallOK
    <2> QED
        BY <2>1, FramesAppend DEF Refused
<1> QED
    BY <1>1 DEF CallOK, Refused, SameLife, SamePast, Completed, Unwound

LEMMA StartedOK ==
    ASSUME NEW s \in Side, NEW k \in CoreType, NEW c \in Calls, NEW t \in Nat, CallOK(s, k, c, t),
           ~Allocates(s, c), Queue(k, c) = <<>>,
           NEW l \in CoreType, l.next = k.next, Started(k, l, c)
    PROVE  CallOK(s, l, c, t)
<1>1. k.chain[c] \in Int
    BY OutcomesType
<1>2. ~Pending(k, c) /\ ~Pending(l, c)
    BY DEF CallOK, Started
<1>3. Fresh(l, c)
    BY QueueConstants DEF Started, Fresh
<1>4. Completed(l, c) /\ Unwound(l, c)
    BY <1>1, <1>2 DEF CallOK, Started, SamePast, Completed, Unwound
<1> QED
    BY <1>2, <1>3, <1>4 DEF CallOK, Started, SamePast

LEMMA PoppedOK ==
    ASSUME NEW s \in Side, NEW k \in CoreType, NEW c \in Calls, NEW t \in Nat, CallOK(s, k, c, t),
           NEW l \in CoreType, l.next = k.next, Popped(k, l, c, t)
    PROVE  CallOK(s, l, c, t)
<1>1. PICK q \in Seq(FrameFrom(s, c)) : q = Queue(k, c) /\ q # <<>>
    BY DEF CallOK, Popped
<1>2. Queue(l, c) \in Seq(FrameFrom(s, c)) /\ Len(Queue(l, c)) = Len(q) - 1 /\ Len(q) \in Nat
    BY <1>1, FramesTail DEF Popped
<1>3. Inflight(l, c) => ~Allocates(s, c) /\ Fresh(l, c)
    <2>1. SUFFICES ASSUME Inflight(l, c) PROVE ~Allocates(s, c) /\ Fresh(l, c)
        OBVIOUS
    <2>2. ~Allocates(s, c) /\ Len(q) <= MaxPerCall
        BY <1>1, <2>1 DEF CallOK, Popped, SameLife, Fresh
    <2>3. Len(Queue(l, c)) <= MaxPerCall /\ Len(Queue(l, c)) # MaxPerCall
        BY <1>2, <2>2, QueueConstants
    <2> QED
        BY <2>2, <2>3 DEF Fresh
<1> QED
    BY <1>2, <1>3 DEF CallOK, Popped, SameLife, Completed, Unwound

LEMMA DroppedOK ==
    ASSUME NEW s \in Side, NEW k \in CoreType, NEW c \in Calls, NEW t \in Nat, CallOK(s, k, c, t),
           NEW l \in CoreType, l.next = k.next, Dropped(k, l, c)
    PROVE  CallOK(s, l, c, t)
<1>1. k.outcomes[c] \in Seq(Outcome) /\ k.chain[c] \in Int
    BY OutcomesType
<1>2. ~(Pending(k, c) /\ Inflight(k, c)) /\ ~Pending(l, c) /\ ~Inflight(l, c)
    BY DEF CallOK, Dropped
<1>3. Unwound(l, c)
    BY <1>1, <1>2 DEF CallOK, Dropped, Unwound
<1>4. Completed(l, c)
    <2>1. CASE ~Pending(k, c)
        BY <1>2, <2>1 DEF CallOK, Dropped, SamePast, Completed
    <2>2. CASE Pending(k, c)
        <3>1. PICK o \in Outcome : Terminates(o) /\ l.outcomes[c] = Append(k.outcomes[c], o)
            BY <2>2 DEF Dropped
        <3>2. Ends(k.outcomes[c]) = {} /\ c \in l.issued
            BY <2>2 DEF CallOK, Completed, Dropped, SamePast
        <3>3. Ends(l.outcomes[c]) = {Len(l.outcomes[c])}
            BY ZenonT(60), <1>1, <3>1, <3>2, EndsAppend
        <3> QED
            BY <1>2, <3>2, <3>3 DEF Completed
    <2> QED
        BY <2>1, <2>2
<1>5. Queue(l, c) \in Seq(FrameFrom(s, c))
    BY FramesFew DEF Dropped
<1> QED
    BY <1>2, <1>3, <1>4, <1>5 DEF CallOK, Dropped, SamePast

-----------------------------------------------------------------------------
\* One call on both endpoints and on the link between them: k is its caller,
\* m its callee, out the frames on their way to the callee, back the others.

\* A callee whose ctx ceiling a REQUEST exceeds answers it only if it has the
\* request's id in its registry; core.go:411-416 drops it otherwise.
RequestsKnown ==
    \A s \in Side : \A o \in Openings[s] :
        Owns(Peer(s), o.req) \/ o.ctx.len <= MaxCtxLen[Peer(s)]

Unopened(k, out, c) == Has(Queue(k, c), Requests) \/ Says(out, c, Requests)
CalledOff(k, out, c) == Has(Queue(k, c), Cancels) \/ Says(out, c, Cancels)
AnswerDue(m, back, c) == Has(Queue(m, c), LastKinds) \/ Says(back, c, LastKinds)

\* The callee has done nothing for the call that could still be seen.
Silent(m, back, c) ==
    /\ ~Inflight(m, c) /\ Queue(m, c) = <<>> /\ m.box.credits[c] = NoCredit
    /\ ~Mentions(back, c)

\* While both sessions live.
Alive(k, m, out, back, c) ==
    /\ RequestsKnown /\ Pending(k, c) =>
        Unopened(k, out, c) \/ Inflight(m, c) \/ AnswerDue(m, back, c)
    /\ Inflight(m, c) => Pending(k, c) \/ CalledOff(k, out, c)
    /\ Says(out, c, Requests) => Pending(k, c) \/ CalledOff(k, out, c)

Linked(k, m, out, back, c) ==
    /\ ReqFirst(out, c) /\ HeadOnly(Queue(k, c))
    /\ Has(Queue(k, c), Requests) => Pending(k, c) /\ ~Mentions(out, c)
    /\ Unopened(k, out, c) => Silent(m, back, c)
    /\ c \notin k.issued =>
        /\ Silent(m, back, c)
        /\ Queue(k, c) = <<>> /\ k.box.credits[c] = NoCredit /\ ~Mentions(out, c)
    /\ AnswerDue(m, back, c) => ~Inflight(m, c)
    /\ ~k.finished /\ ~m.finished => Alive(k, m, out, back, c)

LEMMA KindSets ==
    /\ "REQUEST" \in Requests /\ "REQUEST" \notin Cancels /\ "REQUEST" \notin LastKinds
    /\ "CANCEL" \in Cancels /\ "CANCEL" \notin Requests
    /\ "ITEM" \notin Requests \cup Cancels \cup LastKinds
    /\ "CREDIT" \notin Requests \cup Cancels \cup LastKinds
    /\ \A x \in LastKinds : x \notin Requests \cup Cancels
    /\ "ERROR" \in LastKinds /\ "END" \in LastKinds
    /\ \A x \in Requests : x = "REQUEST"
    /\ \A x \in Cancels : x = "CANCEL"
BY DEF Requests, Cancels, LastKinds

\* The caller's side of what an endpoint does by itself.
LEMMA CallerKept ==
    ASSUME NEW s \in Side, NEW k \in CoreType, NEW c \in Calls, NEW t, CallOK(s, k, c, t),
           Allocates(s, c), NEW l, l.finished = k.finished, Kept(k, l, c, t),
           NEW m, NEW out, NEW back, Linked(k, m, out, back, c)
    PROVE  Linked(l, m, out, back, c)
<1>1. ~Inflight(k, c) /\ (c \notin k.issued => ~Pending(k, c))
    BY DEF CallOK
<1>2. /\ Queue(l, c) = Queue(k, c) /\ (Pending(l, c) <=> Pending(k, c)) /\ (c \in l.issued <=> c \in k.issued)
      /\ l.box.credits[c] # NoCredit => k.box.credits[c] # NoCredit \/ Pending(k, c) \/ Inflight(k, c)
    BY DEF Kept, SameLife, SamePast
<1> QED
    BY <1>1, <1>2 DEF Linked, Alive, Unopened, CalledOff

LEMMA CallerOpened ==
    ASSUME NEW s \in Side, NEW k \in CoreType, NEW c \in Calls, NEW t \in Nat, CallOK(s, k, c, t),
           Allocates(s, c), NEW l \in CoreType, l.finished = k.finished, Opened(s, k, l, c),
           NEW m, NEW out, NEW back, Linked(k, m, out, back, c)
    PROVE  Linked(l, m, out, back, c)
<1>1. c \notin k.issued
    BY OpenedOK
<1>2. /\ Silent(m, back, c) /\ Queue(k, c) = <<>> /\ ~Mentions(out, c) /\ ReqFirst(out, c)
      /\ AnswerDue(m, back, c) => ~Inflight(m, c)
    BY <1>1 DEF Linked
<1>3. PICK f \in FrameFrom(s, c) : f.kind = "REQUEST" /\ Queue(l, c) = Append(<<>>, f)
    BY <1>2 DEF Opened
<1>4. f \in Frame /\ <<>> \in Seq(Frame)
    BY EmptySeq DEF FrameFrom
<1>5. HeadOnly(Queue(l, c)) /\ Has(Queue(l, c), Requests)
    BY <1>3, <1>4, QueueAppend, QueueEmpty, KindSets
<1>6. ~Says(out, c, Requests)
    BY <1>2, MentionsSays
<1>7. c \in l.issued /\ Pending(l, c)
    BY DEF Opened
<1> QED
    BY <1>2, <1>5, <1>6, <1>7 DEF Linked, Alive, Unopened, Silent

LEMMA CallerQueued ==
    ASSUME NEW s \in Side, NEW k \in CoreType, NEW c \in Calls, NEW t \in Nat, CallOK(s, k, c, t),
           Allocates(s, c), NEW l \in CoreType, l.finished = k.finished, Queued(s, k, l, c),
           NEW m, NEW out, NEW back, Linked(k, m, out, back, c)
    PROVE  Linked(l, m, out, back, c)
<1>1. Pending(k, c) /\ Pending(l, c) /\ c \in k.issued /\ c \in l.issued
    BY DEF CallOK, Queued, SameLife, SamePast
<1>2. PICK f \in FrameFrom(s, c) : f.kind \in {"ITEM", "END"} /\ Queue(l, c) = Append(Queue(k, c), f)
    BY DEF Queued
<1>3. f \in Frame /\ Queue(k, c) \in Seq(Frame)
    BY OutcomesType DEF FrameFrom
<1>4. f.kind \notin Requests /\ f.kind \notin Cancels
    BY <1>2, KindSets
<1>5. /\ Has(Queue(l, c), Requests) <=> Has(Queue(k, c), Requests)
      /\ Has(Queue(l, c), Cancels) <=> Has(Queue(k, c), Cancels)
      /\ HeadOnly(Queue(k, c)) => HeadOnly(Queue(l, c))
    BY <1>2, <1>3, <1>4, QueueAppend
<1> QED
    BY <1>1, <1>5 DEF Linked, Alive, Unopened, CalledOff

\* With the REQUEST still queued nothing else was ever said of the call; with
\* the REQUEST gone, a CANCEL follows it.
LEMMA CallerAbandoned ==
    ASSUME NEW s \in Side, NEW k \in CoreType, NEW c \in Calls, NEW t \in Nat, CallOK(s, k, c, t),
           NEW l \in CoreType, l.finished = k.finished, Abandoned(s, k, l, c),
           NEW m, NEW out, NEW back, Linked(k, m, out, back, c)
    PROVE  Linked(l, m, out, back, c)
<1>1. c \in k.issued /\ c \in l.issued /\ ~Pending(l, c)
    BY DEF CallOK, Abandoned, Settled, SamePast
<1>2. CASE OpensWithRequest(k.box, c)
    <2>1. Queue(l, c) = <<>>
        BY <1>2 DEF Abandoned
    <2>2. ~Has(Queue(l, c), Requests) /\ ~Has(Queue(l, c), Cancels) /\ HeadOnly(Queue(l, c))
        BY <2>1, QueueEmpty
    <2>3. Has(Queue(k, c), Requests)
        <3>1. Queue(k, c) \in Seq(Frame) /\ Queue(k, c) # <<>> /\ Head(Queue(k, c)).kind = "REQUEST"
            BY <1>2, OutcomesType DEF OpensWithRequest, Queue
        <3>2. Head(Queue(k, c)).kind \in Requests
            BY <3>1, KindSets
        <3> QED
            BY <3>1, <3>2, QueueTail
    <2>4. ~Mentions(out, c) /\ ~Inflight(m, c)
        BY <2>3 DEF Linked, Unopened, Silent
    <2>5. ~Says(out, c, Requests)
        BY <2>4, MentionsSays
    <2> QED
        BY <1>1, <2>1, <2>2, <2>4, <2>5 DEF Linked, Alive, Unopened
<1>3. CASE ~OpensWithRequest(k.box, c)
    <2>1. PICK f \in FrameFrom(s, c) : f.kind = "CANCEL" /\ Queue(l, c) = <<f>>
        BY <1>3 DEF Abandoned
    <2>2. f \in Frame /\ f.kind \in Cancels /\ f.kind \notin Requests
        BY <2>1, KindSets DEF FrameFrom
    <2>3. Has(Queue(l, c), Cancels) /\ ~Has(Queue(l, c), Requests) /\ HeadOnly(Queue(l, c))
        BY <2>1, <2>2, QueueOne
    <2> QED
        BY <1>1, <2>3 DEF Linked, Alive, Unopened, CalledOff
<1> QED
    BY <1>2, <1>3

\* The callee's.
LEMMA CalleeKept ==
    ASSUME NEW s \in Side, NEW m \in CoreType, NEW c \in Calls, NEW t, CallOK(s, m, c, t),
           ~Allocates(s, c), NEW l, l.finished = m.finished, Kept(m, l, c, t),
           NEW k, NEW out, NEW back, Linked(k, m, out, back, c)
    PROVE  Linked(k, l, out, back, c)
<1>1. ~Pending(m, c)
    BY DEF CallOK
<1>2. /\ Queue(l, c) = Queue(m, c) /\ (Inflight(l, c) <=> Inflight(m, c))
      /\ l.box.credits[c] # NoCredit => m.box.credits[c] # NoCredit \/ Pending(m, c) \/ Inflight(m, c)
    BY DEF Kept, SameLife
<1> QED
    BY <1>1, <1>2 DEF Linked, Alive, Silent, AnswerDue

LEMMA CalleeQueued ==
    ASSUME NEW s \in Side, NEW m \in CoreType, NEW c \in Calls, NEW t, CallOK(s, m, c, t),
           ~Allocates(s, c), NEW l \in CoreType, l.finished = m.finished, Queued(s, m, l, c),
           NEW k, NEW out, NEW back, Linked(k, m, out, back, c)
    PROVE  Linked(k, l, out, back, c)
<1>1. Inflight(m, c) /\ Inflight(l, c)
    BY DEF CallOK, Queued, SameLife
<1>2. PICK f \in FrameFrom(s, c) : f.kind = "ITEM" /\ Queue(l, c) = Append(Queue(m, c), f)
    BY <1>1 DEF Queued
<1>3. f \in Frame /\ Queue(m, c) \in Seq(Frame) /\ f.kind \notin LastKinds
    BY <1>2, OutcomesType, KindSets DEF FrameFrom
<1>4. Has(Queue(l, c), LastKinds) <=> Has(Queue(m, c), LastKinds)
    BY <1>2, <1>3, QueueAppend
<1>5. ~Unopened(k, out, c) /\ c \in k.issued
    BY <1>1 DEF Linked, Silent
<1> QED
    BY <1>1, <1>4, <1>5 DEF Linked, Alive, AnswerDue

\* A handler that ends leaves an answer behind.
LEMMA CalleeFinished ==
    ASSUME NEW s \in Side, NEW m \in CoreType, NEW c \in Calls,
           NEW l \in CoreType, l.finished = m.finished, Finished(s, m, l, c),
           NEW k, NEW out, NEW back, Linked(k, m, out, back, c)
    PROVE  Linked(k, l, out, back, c)
<1>1. Inflight(m, c) /\ ~Inflight(l, c)
    BY DEF Finished
<1>2. PICK f \in FrameFrom(s, c) :
        f.kind \in LastKinds /\ (Queue(l, c) = <<f>> \/ Queue(l, c) = Append(Queue(m, c), f))
    BY DEF Finished
<1>3. f \in Frame /\ Queue(m, c) \in Seq(Frame)
    BY OutcomesType DEF FrameFrom
<1>4. Has(Queue(l, c), LastKinds)
    BY <1>2, <1>3, QueueAppend, QueueOne
<1>5. ~Unopened(k, out, c) /\ c \in k.issued
    BY <1>1 DEF Linked, Silent
<1> QED
    BY <1>1, <1>4, <1>5 DEF Linked, Alive, AnswerDue

-----------------------------------------------------------------------------
\* What the link does to a call.

\* The frames n and r say the same about call c.
Agree(n, r, c) ==
    /\ Says(r, c, Requests) <=> Says(n, c, Requests)
    /\ Says(r, c, Cancels) <=> Says(n, c, Cancels)
    /\ Says(r, c, LastKinds) <=> Says(n, c, LastKinds)
    /\ Mentions(r, c) <=> Mentions(n, c)
    /\ ReqFirst(n, c) => ReqFirst(r, c)

LEMMA AgreeSelf == \A n, c : Agree(n, n, c)
BY DEF Agree

LEMMA AgreeAppend ==
    ASSUME NEW n \in Seq(Frame), NEW f \in Frame, NEW r, r = Append(n, f), NEW c, f.call # c
    PROVE  Agree(n, r, c)
BY NetAppend DEF Agree

LEMMA AgreeTail ==
    ASSUME NEW n \in Seq(Frame), n # <<>>, NEW r, r = Tail(n), NEW c, Head(n).call # c
    PROVE  Agree(n, r, c)
BY NetTail DEF Agree

LEMMA LinkedAgree ==
    ASSUME NEW k, NEW m, NEW out, NEW back, NEW c, Linked(k, m, out, back, c),
           NEW out2, NEW back2, Agree(out, out2, c), Agree(back, back2, c)
    PROVE  Linked(k, m, out2, back2, c)
BY DEF Linked, Alive, Unopened, CalledOff, AnswerDue, Silent, Agree

\* The caller has read a frame of the callee.
LEMMA BackMentions ==
    ASSUME NEW k, NEW m, NEW out, NEW back, NEW c, Linked(k, m, out, back, c), Mentions(back, c)
    PROVE  ~Unopened(k, out, c) /\ c \in k.issued
BY DEF Linked, Silent

LEMMA DropBack ==
    ASSUME NEW k, NEW m, NEW out, NEW back \in Seq(Frame), NEW c, Linked(k, m, out, back, c),
           back # <<>>, Head(back).call = c, Head(back).kind \in LastKinds => ~Pending(k, c),
           NEW r, r = Tail(back)
    PROVE  Linked(k, m, out, r, c)
<1>1. /\ Says(back, c, LastKinds) <=> Head(back).kind \in LastKinds \/ Says(r, c, LastKinds)
      /\ Mentions(back, c)
    BY NetTail
<1>2. ~Unopened(k, out, c) /\ c \in k.issued
    BY <1>1, BackMentions
<1> QED
    BY <1>1, <1>2 DEF Linked, Alive, AnswerDue

LEMMA CallerAnswered ==
    ASSUME NEW s \in Side, NEW k \in CoreType, NEW c \in Calls, NEW t, CallOK(s, k, c, t),
           NEW l, l.finished = k.finished, Answered(k, l, c),
           NEW m, NEW out, NEW back, Linked(k, m, out, back, c), Says(back, c, LastKinds)
    PROVE  Linked(l, m, out, back, c)
<1>1. c \in l.issued /\ ~Pending(l, c) /\ Queue(l, c) = <<>>
    BY DEF CallOK, Answered, Settled, SamePast
<1>2. Mentions(back, c)
    BY MentionsSays
<1>3. ~Unopened(k, out, c) /\ ~Inflight(m, c)
    BY <1>2, BackMentions DEF Linked, AnswerDue
<1>4. ~Has(Queue(l, c), Requests) /\ HeadOnly(Queue(l, c))
    BY <1>1, QueueEmpty
<1> QED
    BY <1>1, <1>3, <1>4 DEF Linked, Alive, Unopened

LEMMA CallerRefused ==
    ASSUME NEW s \in Side, NEW k \in CoreType, NEW c \in Calls,
           NEW l, l.finished = k.finished, Refused(s, k, l, c),
           NEW m, NEW out, NEW back, Linked(k, m, out, back, c), Mentions(back, c)
    PROVE  Linked(l, m, out, back, c)
<1>1. c \in l.issued /\ ~Pending(l, c) /\ ~Pending(k, c)
    BY BackMentions DEF Refused, SameLife, SamePast
<1>2. PICK f \in FrameFrom(s, c) : f.kind = "ERROR" /\ Queue(l, c) = Append(Queue(k, c), f)
    BY DEF Refused
<1>3. f \in Frame /\ Queue(k, c) \in Seq(Frame) /\ f.kind \notin Requests /\ f.kind \notin Cancels
    BY <1>2, OutcomesType, KindSets DEF FrameFrom
<1>4. /\ Has(Queue(l, c), Requests) <=> Has(Queue(k, c), Requests)
      /\ Has(Queue(l, c), Cancels) <=> Has(Queue(k, c), Cancels)
      /\ HeadOnly(Queue(k, c)) => HeadOnly(Queue(l, c))
    BY <1>2, <1>3, QueueAppend
<1> QED
    BY <1>1, <1>4 DEF Linked, Alive, Unopened, CalledOff

\* The callee has read a frame of the caller.
LEMMA OutMentions ==
    ASSUME NEW k, NEW m, NEW out \in Seq(Frame), NEW back, NEW c, Linked(k, m, out, back, c),
           out # <<>>, Head(out).call = c, NEW r, r = Tail(out)
    PROVE  /\ c \in k.issued /\ ~Has(Queue(k, c), Requests) /\ ~Says(r, c, Requests)
           /\ Says(out, c, Requests) <=> Head(out).kind \in Requests
           /\ Says(out, c, Cancels) <=> Head(out).kind \in Cancels \/ Says(r, c, Cancels)
           /\ ReqFirst(r, c) /\ Mentions(out, c)
<1>1. /\ Says(out, c, Requests) <=> Head(out).kind \in Requests \/ Says(r, c, Requests)
      /\ Says(out, c, Cancels) <=> Head(out).kind \in Cancels \/ Says(r, c, Cancels)
      /\ Mentions(out, c)
      /\ ReqFirst(out, c) => ReqFirst(r, c) /\ ~Says(r, c, Requests)
    BY NetTail
<1> QED
    BY <1>1 DEF Linked

LEMMA DropOut ==
    ASSUME NEW k, NEW m, NEW out \in Seq(Frame), NEW back, NEW c, Linked(k, m, out, back, c),
           out # <<>>, Head(out).call = c, Head(out).kind \notin Requests,
           Head(out).kind \in Cancels => ~Inflight(m, c),
           NEW r, r = Tail(out)
    PROVE  Linked(k, m, r, back, c)
<1>1. /\ c \in k.issued /\ ~Has(Queue(k, c), Requests) /\ ~Says(r, c, Requests)
      /\ ~Says(out, c, Requests)
      /\ Says(out, c, Cancels) <=> Head(out).kind \in Cancels \/ Says(r, c, Cancels)
      /\ ReqFirst(r, c)
    BY OutMentions
<1> QED
    BY <1>1 DEF Linked, Alive, Unopened, CalledOff

LEMMA CalleeRefused ==
    ASSUME NEW s \in Side, NEW m \in CoreType, NEW c \in Calls,
           NEW l, l.finished = m.finished, Refused(s, m, l, c),
           NEW k, NEW out, NEW back, Linked(k, m, out, back, c),
           ~Unopened(k, out, c), c \in k.issued
    PROVE  Linked(k, l, out, back, c)
<1>1. ~Inflight(l, c)
    BY DEF Refused, SameLife
<1>2. PICK f \in FrameFrom(s, c) : f.kind = "ERROR" /\ Queue(l, c) = Append(Queue(m, c), f)
    BY DEF Refused
<1>3. f \in Frame /\ Queue(m, c) \in Seq(Frame) /\ f.kind \in LastKinds
    BY <1>2, OutcomesType, KindSets DEF FrameFrom
<1>4. Has(Queue(l, c), LastKinds)
    BY <1>2, <1>3, QueueAppend
<1> QED
    BY <1>1, <1>4 DEF Linked, Alive, AnswerDue

\* The REQUEST is delivered: refused, started or, if its ctx is too long and
\* its id unknown, dropped.
LEMMA RequestTaken ==
    ASSUME NEW s \in Side, NEW m \in CoreType, NEW c \in Calls, NEW t,
           NEW l, l.finished = m.finished,
           Refused(s, m, l, c) \/ Started(m, l, c) \/ (Kept(m, l, c, t) /\ ~RequestsKnown),
           NEW k, NEW out \in Seq(Frame), NEW back, Linked(k, m, out, back, c),
           out # <<>>, Head(out).call = c, Head(out).kind \in Requests,
           NEW r, r = Tail(out)
    PROVE  Linked(k, l, r, back, c)
<1>1. /\ c \in k.issued /\ ~Has(Queue(k, c), Requests) /\ ~Says(r, c, Requests)
      /\ Says(out, c, Requests)
      /\ Says(out, c, Cancels) <=> Head(out).kind \in Cancels \/ Says(r, c, Cancels)
      /\ ReqFirst(r, c)
    BY OutMentions
<1>2. Head(out).kind \notin Cancels
    BY KindSets
<1>3. ~Inflight(m, c) /\ Queue(m, c) = <<>> /\ ~Mentions(back, c) /\ HeadOnly(Queue(k, c))
    BY <1>1 DEF Linked, Unopened, Silent
<1>4. ~Says(back, c, LastKinds)
    BY <1>3, MentionsSays
<1>5. ~k.finished /\ ~m.finished => Pending(k, c) \/ CalledOff(k, r, c)
    BY <1>1, <1>2 DEF Linked, Alive, CalledOff
<1>6. CASE Refused(s, m, l, c)
    <2>1. PICK f \in FrameFrom(s, c) : f.kind = "ERROR" /\ Queue(l, c) = Append(Queue(m, c), f)
        BY <1>6 DEF Refused
    <2>2. f \in Frame /\ Queue(m, c) \in Seq(Frame) /\ f.kind \in LastKinds
        BY <2>1, OutcomesType, KindSets DEF FrameFrom
    <2>3. Has(Queue(l, c), LastKinds)
        BY <2>1, <2>2, QueueAppend
    <2>4. ~Inflight(l, c)
        BY <1>6 DEF Refused, SameLife
    <2> QED
        BY <1>1, <1>3, <2>3, <2>4 DEF Linked, Alive, AnswerDue, Unopened
<1>7. CASE Started(m, l, c)
    <2>1. Inflight(l, c) /\ Queue(l, c) = <<>>
        BY <1>3, <1>7 DEF Started
    <2>2. ~AnswerDue(l, back, c)
        BY <1>4, <2>1, QueueEmpty DEF AnswerDue
    <2> QED
        BY <1>1, <1>3, <1>5, <2>1, <2>2 DEF Linked, Alive, Unopened
<1>8. CASE Kept(m, l, c, t) /\ ~RequestsKnown
    <2>1. ~Inflight(l, c)
        BY <1>3, <1>8 DEF Kept, SameLife
    <2> QED
        BY <1>1, <1>3, <1>8, <2>1 DEF Linked, Alive, Unopened
<1> QED
    BY <1>6, <1>7, <1>8

\* A frame leaves its queue and is on its way, unless its reader has gone.
LEMMA CallerSent ==
    ASSUME NEW s \in Side, NEW k \in CoreType, NEW c \in Calls, NEW t, CallOK(s, k, c, t),
           NEW l, l.finished = k.finished, Popped(k, l, c, t),
           NEW m, NEW out \in Seq(Frame), NEW back, Linked(k, m, out, back, c),
           NEW out2, out2 = Append(out, Head(Queue(k, c)))
    PROVE  Linked(l, m, out2, back, c)
<1>1. PICK q \in Seq(Frame) : q = Queue(k, c)
    BY OutcomesType
<1>2. q # <<>> /\ Queue(l, c) = Tail(q)
    BY <1>1 DEF Popped
<1>3. PICK h \in Frame : h = Head(q) /\ h.call = c
    <2>1. Head(Queue(k, c)) \in FrameFrom(s, c)
        BY <1>1, <1>2, FramesTail DEF CallOK
    <2> QED
        BY <1>1, <2>1 DEF FrameFrom
<1>4. /\ Has(q, Requests) <=> h.kind \in Requests \/ Has(Queue(l, c), Requests)
      /\ Has(q, Cancels) <=> h.kind \in Cancels \/ Has(Queue(l, c), Cancels)
      /\ HeadOnly(q) => ~Has(Queue(l, c), Requests) /\ HeadOnly(Queue(l, c))
    BY <1>2, <1>3, QueueTail
<1>5. out2 = Append(out, h)
    BY <1>1, <1>3
<1>6. /\ Says(out2, c, Requests) <=> Says(out, c, Requests) \/ h.kind \in Requests
      /\ Says(out2, c, Cancels) <=> Says(out, c, Cancels) \/ h.kind \in Cancels
      /\ ReqFirst(out, c) /\ (h.kind \in Requests => ~Mentions(out, c)) => ReqFirst(out2, c)
    <2>1. /\ \A K : Says(out2, c, K) <=> Says(out, c, K) \/ (h.call = c /\ h.kind \in K)
          /\ ReqFirst(out, c) /\ (h.call = c /\ h.kind \in Requests => ~Mentions(out, c)) => ReqFirst(out2, c)
        BY <1>5, NetAppend
    <2> QED
        BY <1>3, <2>1
<1>7. /\ c \in k.issued /\ c \in l.issued /\ (Pending(l, c) <=> Pending(k, c))
    BY <1>1, <1>2 DEF Linked, Popped, SameLife
<1>8. h.kind \in Requests => Pending(k, c) /\ ~Mentions(out, c)
    BY <1>1, <1>4 DEF Linked
<1> QED
    BY <1>1, <1>4, <1>6, <1>7, <1>8 DEF Linked, Alive, Unopened, CalledOff

LEMMA CallerLost ==
    ASSUME NEW s \in Side, NEW k \in CoreType, NEW c \in Calls, NEW t,
           NEW l, Popped(k, l, c, t),
           NEW m, m.finished, NEW out, NEW back, Linked(k, m, out, back, c)
    PROVE  Linked(l, m, out, back, c)
<1>1. PICK q \in Seq(Frame) : q = Queue(k, c)
    BY OutcomesType
<1>2. q # <<>> /\ Queue(l, c) = Tail(q)
    BY <1>1 DEF Popped
<1>3. HeadOnly(q) => ~Has(Queue(l, c), Requests) /\ HeadOnly(Queue(l, c))
    BY <1>2, QueueTail
<1>4. c \in k.issued /\ c \in l.issued
    BY <1>1, <1>2 DEF Linked, Popped
<1> QED
    BY <1>1, <1>3, <1>4 DEF Linked, Unopened

LEMMA CalleeSent ==
    ASSUME NEW s \in Side, NEW m \in CoreType, NEW c \in Calls, NEW t, CallOK(s, m, c, t),
           NEW l, l.finished = m.finished, Popped(m, l, c, t),
           NEW k, NEW out, NEW back \in Seq(Frame), Linked(k, m, out, back, c),
           NEW back2, back2 = Append(back, Head(Queue(m, c)))
    PROVE  Linked(k, l, out, back2, c)
<1>1. PICK q \in Seq(Frame) : q = Queue(m, c)
    BY OutcomesType
<1>2. q # <<>> /\ Queue(l, c) = Tail(q)
    BY <1>1 DEF Popped
<1>3. PICK h \in Frame : h = Head(q) /\ h.call = c
    <2>1. Head(Queue(m, c)) \in FrameFrom(s, c)
        BY <1>1, <1>2, FramesTail DEF CallOK
    <2> QED
        BY <1>1, <2>1 DEF FrameFrom
<1>4. Has(q, LastKinds) <=> h.kind \in LastKinds \/ Has(Queue(l, c), LastKinds)
    BY <1>2, <1>3, QueueTail
<1>5. back2 = Append(back, h)
    BY <1>1, <1>3
<1>6. Says(back2, c, LastKinds) <=> Says(back, c, LastKinds) \/ h.kind \in LastKinds
    BY ZenonT(60), <1>3, <1>5, NetAppend
<1>7. ~Unopened(k, out, c) /\ c \in k.issued /\ (Inflight(l, c) <=> Inflight(m, c))
    BY <1>1, <1>2 DEF Linked, Silent, Popped, SameLife
<1> QED
    BY <1>1, <1>4, <1>6, <1>7 DEF Linked, Alive, AnswerDue

LEMMA CalleeLost ==
    ASSUME NEW s \in Side, NEW m \in CoreType, NEW c \in Calls, NEW t,
           NEW l, Popped(m, l, c, t),
           NEW k, k.finished, NEW out, NEW back, Linked(k, m, out, back, c)
    PROVE  Linked(k, l, out, back, c)
<1>1. PICK q \in Seq(Frame) : q = Queue(m, c)
    BY OutcomesType
<1>2. q # <<>> /\ Queue(l, c) = Tail(q)
    BY <1>1 DEF Popped
<1>3. Has(Queue(l, c), LastKinds) => Has(q, LastKinds)
    BY <1>2, QueueTail
<1>4. ~Unopened(k, out, c) /\ c \in k.issued /\ (Inflight(l, c) <=> Inflight(m, c))
    BY <1>1, <1>2 DEF Linked, Silent, Popped, SameLife
<1> QED
    BY <1>1, <1>3, <1>4 DEF Linked, AnswerDue

\* A CREDIT leaves.  The caller's never overtakes its REQUEST, which would be
\* at the head of the queue (ReadyCredits).
LEMMA CreditOut ==
    ASSUME NEW k, NEW m, NEW out \in Seq(Frame), NEW back, NEW c, Linked(k, m, out, back, c),
           ~Has(Queue(k, c), Requests), c \in k.issued,
           NEW f \in Frame, f.call = c, f.kind = "CREDIT", NEW out2, out2 = Append(out, f)
    PROVE  Linked(k, m, out2, back, c)
<1>1. f.kind \notin Requests /\ f.kind \notin Cancels
    BY KindSets
<1>2. /\ Says(out2, c, Requests) <=> Says(out, c, Requests)
      /\ Says(out2, c, Cancels) <=> Says(out, c, Cancels)
      /\ ReqFirst(out, c) => ReqFirst(out2, c)
    BY <1>1, NetAppend
<1> QED
    BY <1>2 DEF Linked, Alive, Unopened, CalledOff

LEMMA CreditBack ==
    ASSUME NEW k, NEW m, NEW out, NEW back \in Seq(Frame), NEW c, Linked(k, m, out, back, c),
           ~Unopened(k, out, c), c \in k.issued,
           NEW f \in Frame, f.call = c, f.kind = "CREDIT", NEW back2, back2 = Append(back, f)
    PROVE  Linked(k, m, out, back2, c)
<1>1. f.kind \notin LastKinds
    BY KindSets
<1>2. Says(back2, c, LastKinds) <=> Says(back, c, LastKinds)
    BY <1>1, NetAppend
<1> QED
    BY <1>2 DEF Linked, Alive, AnswerDue

LEMMA HeldBack ==
    ASSUME NEW k \in CoreType, NEW c \in Calls, HeadOnly(Queue(k, c)), ~OpensWithRequest(k.box, c)
    PROVE  ~Has(Queue(k, c), Requests)
<1>1. PICK q \in Seq(Frame) : q = Queue(k, c)
    BY OutcomesType
<1>2. CASE q = <<>>
    BY <1>1, <1>2, QueueEmpty
<1>3. CASE q # <<>>
    <2>1. Head(q).kind # "REQUEST"
        BY <1>1, <1>3 DEF OpensWithRequest, Queue
    <2>2. Head(q).kind \notin Requests
        BY <2>1, KindSets
    <2> QED
        BY <1>1, <1>3, <2>2, QueueTail
<1> QED
    BY <1>2, <1>3

\* A session ends: its endpoint forgets the call, what was on its way to it
\* is not read and what it had sent may be cut short.
LEMMA CallerDropped ==
    ASSUME NEW k, NEW c, NEW l, l.finished, Dropped(k, l, c),
           NEW m, NEW out \in Seq(Frame), NEW back, Linked(k, m, out, back, c),
           NEW j \in 0..Len(out), NEW out2, out2 = SubSeq(out, 1, j)
    PROVE  Linked(l, m, out2, <<>>, c)
<1>1. /\ Queue(l, c) = <<>> /\ l.box.credits[c] = NoCredit /\ ~Pending(l, c)
      /\ c \in l.issued <=> c \in k.issued
    BY DEF Dropped, SamePast
<1>2. ~Has(Queue(l, c), Requests) /\ HeadOnly(Queue(l, c))
    BY <1>1, QueueEmpty
<1>3. /\ Says(out2, c, Requests) => Says(out, c, Requests)
      /\ Mentions(out2, c) => Mentions(out, c)
      /\ ReqFirst(out, c) => ReqFirst(out2, c)
    BY NetPrefix
<1>4. ~Says(<<>>, c, LastKinds) /\ ~Mentions(<<>>, c)
    BY NetEmpty
<1> QED
    BY <1>1, <1>2, <1>3, <1>4 DEF Linked, Unopened, AnswerDue, Silent

LEMMA CalleeDropped ==
    ASSUME NEW m, NEW c, NEW l, l.finished, Dropped(m, l, c),
           NEW k, NEW out, NEW back \in Seq(Frame), Linked(k, m, out, back, c),
           NEW j \in 0..Len(back), NEW back2, back2 = SubSeq(back, 1, j)
    PROVE  Linked(k, l, <<>>, back2, c)
<1>1. Queue(l, c) = <<>> /\ l.box.credits[c] = NoCredit /\ ~Inflight(l, c)
    BY DEF Dropped
<1>2. Mentions(back2, c) => Mentions(back, c)
    BY NetPrefix
<1>3. ~Says(<<>>, c, Requests) /\ ~Mentions(<<>>, c) /\ ReqFirst(<<>>, c)
    BY NetEmpty
<1> QED
    BY <1>1, <1>2, <1>3 DEF Linked, Unopened, Silent

-----------------------------------------------------------------------------
\* The invariant.

\* Call c as side s sees it: k is s, m its peer, to the frames s has sent and
\* the peer has not read, from the frames on their way to s.
Joined(s, k, m, to, from, c) ==
    IF Allocates(s, c) THEN Linked(k, m, to, from, c) ELSE Linked(m, k, from, to, c)

\* Where the polling of handlers stands.
Polling(s, k) ==
    /\ Allocates(s, k.next)
    /\ \A c \in k.todo : Inflight(k, c)
    /\ k.cur # NoCall => Inflight(k, k.cur) /\ k.cur \notin k.todo

Endpoint(s, k, t) ==
    /\ k \in CoreType /\ Polling(s, k)
    /\ \A c \in Calls : CallOK(s, k, c, t)

\* The frames on their way to s are its peer's.
Arriving(s, frames) ==
    /\ frames \in Seq(Frame)
    /\ \A i \in 1..Len(frames) : frames[i] \in FrameFrom(Peer(s), frames[i].call)

Inv ==
    /\ core \in [Side -> CoreType] /\ net \in [Side -> Seq(Frame)] /\ now \in 1..MaxTime
    /\ \A s \in Side : Endpoint(s, core[s], now) /\ Arriving(s, net[s])
    /\ \A s \in Side, c \in Calls : Joined(s, core[s], core[Peer(s)], net[Peer(s)], net[s], c)

LEMMA JoinedTurned ==
    ASSUME NEW s \in Side, NEW c \in Calls, NEW k, NEW m, NEW to, NEW from
    PROVE  Joined(s, k, m, to, from, c) <=> Joined(Peer(s), m, k, from, to, c)
BY OneAllocates DEF Joined

\* A step of side s, from what it does to s and to the link.
LEMMA SideStep ==
    ASSUME Inv, NEW s \in Side, NEW l, core' = [core EXCEPT ![s] = l], Endpoint(s, l, now),
           net' \in [Side -> Seq(Frame)], Arriving(s, net'[s]), Arriving(Peer(s), net'[Peer(s)]),
           \A c \in Calls : Joined(s, l, core[Peer(s)], net'[Peer(s)], net'[s], c),
           now' = now
    PROVE  Inv'
<1>1. PICK p \in Side : p = Peer(s) /\ p # s /\ Peer(p) = s /\ \A x \in Side : x = s \/ x = p
    BY DEF Side, Peer
<1>2. l \in CoreType
    BY DEF Endpoint
<1>3. core' \in [Side -> CoreType] /\ core'[s] = l /\ core'[p] = core[p]
    BY <1>1, <1>2 DEF Inv
<1>4. now' \in 1..MaxTime
    BY DEF Inv
<1>5. Endpoint(s, core'[s], now') /\ Endpoint(p, core'[p], now')
    BY <1>3 DEF Inv
<1>6. Arriving(s, net'[s]) /\ Arriving(p, net'[p])
    BY <1>1
<1>7. \A c \in Calls : Joined(s, core'[s], core'[p], net'[p], net'[s], c)
    BY <1>1, <1>3
<1>8. \A c \in Calls : Joined(p, core'[p], core'[s], net'[s], net'[p], c)
    BY <1>1, <1>7, JoinedTurned
<1>9. \A x \in Side : Endpoint(x, core'[x], now') /\ Arriving(x, net'[x])
    BY <1>1, <1>5, <1>6
<1>10. \A x \in Side, c \in Calls : Joined(x, core'[x], core'[Peer(x)], net'[Peer(x)], net'[x], c)
    BY <1>1, <1>7, <1>8
<1> QED
    BY <1>3, <1>4, <1>9, <1>10 DEF Inv

\* What an endpoint does to a call by itself.
Local(s, k, l, c, t) ==
    \/ Kept(k, l, c, t) /\ k.next <= l.next
    \/ Opened(s, k, l, c) /\ Allocates(s, c)
    \/ l.next = k.next /\ (Queued(s, k, l, c) \/ Abandoned(s, k, l, c) \/ Finished(s, k, l, c))

LEMMA LocalOK ==
    ASSUME NEW s \in Side, NEW k \in CoreType, NEW c \in Calls, NEW t \in Nat, CallOK(s, k, c, t),
           NEW l \in CoreType, Local(s, k, l, c, t)
    PROVE  CallOK(s, l, c, t)
BY KeptOK, OpenedOK, QueuedOK, AbandonedOK, FinishedOK DEF Local

LEMMA LocalJoined ==
    ASSUME NEW s \in Side, NEW k \in CoreType, NEW c \in Calls, NEW t \in Nat, CallOK(s, k, c, t),
           NEW l \in CoreType, l.finished = k.finished, Local(s, k, l, c, t),
           NEW m, NEW to, NEW from, Joined(s, k, m, to, from, c)
    PROVE  Joined(s, l, m, to, from, c)
<1>1. CASE Allocates(s, c)
    <2>1. Linked(k, m, to, from, c)
        BY <1>1 DEF Joined
    <2>2. ~Finished(s, k, l, c)
        BY <1>1 DEF CallOK, Finished
    <2>3. Linked(l, m, to, from, c)
        BY <1>1, <2>1, <2>2, CallerKept, CallerOpened, CallerQueued, CallerAbandoned DEF Local
    <2> QED
        BY <1>1, <2>3 DEF Joined
<1>2. CASE ~Allocates(s, c)
    <2>1. Linked(m, k, from, to, c)
        BY <1>2 DEF Joined
    <2>2. ~Abandoned(s, k, l, c)
        BY <1>2 DEF CallOK, Abandoned, Settled
    <2>3. Linked(m, l, from, to, c)
        BY <1>2, <2>1, <2>2, CalleeKept, CalleeQueued, CalleeFinished DEF Local
    <2> QED
        BY <1>2, <2>3 DEF Joined
<1> QED
    BY <1>1, <1>2

\* What the invariant says of side s.
LEMMA InvAt ==
    ASSUME Inv, NEW s \in Side
    PROVE  /\ core[s] \in CoreType /\ Polling(s, core[s]) /\ now \in Nat
           /\ \A c \in Calls : CallOK(s, core[s], c, now)
           /\ \A c \in Calls : Joined(s, core[s], core[Peer(s)], net[Peer(s)], net[s], c)
           /\ net[s] \in Seq(Frame) /\ net[Peer(s)] \in Seq(Frame)
           /\ Arriving(s, net[s]) /\ Arriving(Peer(s), net[Peer(s)])
           /\ \A c \in Calls : Apart(s, core[s], c)
           /\ core[Peer(s)] \in CoreType
<1>1. Peer(s) \in Side
    BY PeerSide
<1>2. now \in Nat
    BY LinkConstants DEF Inv
<1>3. \A c \in Calls : CallOK(s, core[s], c, now)
    BY DEF Inv, Endpoint
<1>4. \A c \in Calls : Apart(s, core[s], c)
    BY <1>3 DEF CallOK, Apart
<1> QED
    BY <1>1, <1>2, <1>3, <1>4 DEF Inv, Endpoint

LEMMA LocalStep ==
    ASSUME Inv, NEW s \in Side, NEW l \in CoreType, core' = [core EXCEPT ![s] = l],
           UNCHANGED <<net, now>>, l.finished = core[s].finished, Polling(s, l),
           \A c \in Calls : Local(s, core[s], l, c, now)
    PROVE  Inv'
<1>1. PICK k \in CoreType : k = core[s]
    BY InvAt
<1>2. PICK t \in Nat : t = now
    BY InvAt
<1>3. /\ l.finished = k.finished
      /\ \A c \in Calls : Local(s, k, l, c, t)
    BY <1>1, <1>2
<1>4. \A c \in Calls : CallOK(s, k, c, t)
    BY <1>1, <1>2, InvAt
<1>5. \A c \in Calls : CallOK(s, l, c, t)
    BY <1>3, <1>4, LocalOK
<1>6. ASSUME NEW c \in Calls PROVE Joined(s, l, core[Peer(s)], net[Peer(s)], net[s], c)
    <2>1. Joined(s, k, core[Peer(s)], net[Peer(s)], net[s], c)
        BY <1>1, InvAt
    <2>2. CallOK(s, k, c, t) /\ Local(s, k, l, c, t)
        BY <1>3, <1>4
    <2> QED
        BY <1>3, <2>1, <2>2, LocalJoined
<1>7. Endpoint(s, l, now)
    BY <1>2, <1>5 DEF Endpoint
<1>8. net' \in [Side -> Seq(Frame)] /\ net' = net
    BY DEF Inv
<1>9. Arriving(s, net'[s]) /\ Arriving(Peer(s), net'[Peer(s)])
    BY <1>8, InvAt
<1> QED
    BY <1>6, <1>7, <1>8, <1>9, SideStep

-----------------------------------------------------------------------------
\* What an endpoint does by itself keeps the invariant.

LEMMA NextParity == \A s \in Side, n \in Nat : Allocates(s, n) => Allocates(s, n + 2)
BY DEF Allocates

LEMMA FreePolling ==
    ASSUME NEW s, NEW k, Quiet(k), NEW l, l.todo = k.todo, l.cur = k.cur, Allocates(s, l.next)
    PROVE  Polling(s, l)
BY DEF Quiet, Polling

\* Every call is kept, or all but c are.
LEMMA AllLocal ==
    ASSUME NEW s, NEW k \in CoreType, NEW l, l.next = k.next, NEW t
    PROVE  /\ (\A d \in Calls : Same(k, l, d)) => \A d \in Calls : Local(s, k, l, d, t)
           /\ (\A d \in Calls : Kept(k, l, d, t)) => \A d \in Calls : Local(s, k, l, d, t)
           /\ \A c : /\ \A d \in Calls : d # c => Same(k, l, d)
                     /\ \/ Kept(k, l, c, t) \/ Queued(s, k, l, c)
                        \/ Abandoned(s, k, l, c) \/ Finished(s, k, l, c)
                     => \A d \in Calls : Local(s, k, l, d, t)
<1>1. k.next <= l.next
    BY DEF CoreType
<1> QED
    BY <1>1, SameKept DEF Local

LEMMA OnReadyKeeps ==
    ASSUME Inv, NEW s \in Side, OnReady(s)
    PROVE  Inv'
<1>1. PICK k \in CoreType : k = core[s]
    BY InvAt
<1>2. PICK l : l = [k EXCEPT !.ready = TRUE]
    OBVIOUS
<1>3. /\ l \in CoreType /\ Calm(k, l) /\ l.todo = k.todo /\ l.cur = k.cur
      /\ \A d \in Calls : Same(k, l, d)
    BY <1>2, OnReadyEffect
<1>4. Quiet(k) /\ core' = [core EXCEPT ![s] = l] /\ UNCHANGED <<net, now>>
    BY <1>1, <1>2 DEF OnReady, Free, Become
<1>5. Allocates(s, l.next) /\ l.next = k.next /\ l.finished = core[s].finished
    BY <1>1, <1>3, InvAt DEF Polling, Calm
<1>6. Polling(s, l)
    BY <1>3, <1>4, <1>5, FreePolling
<1>7. \A c \in Calls : Local(s, core[s], l, c, now)
    BY <1>1, <1>3, <1>5, AllLocal
<1>8. l \in CoreType
    BY <1>3
<1> QED
    BY <1>4, <1>5, <1>6, <1>7, <1>8, LocalStep

LEMMA AppCallKeeps ==
    ASSUME Inv, NEW s \in Side, AppCall(s)
    PROVE  Inv'
<1>1. PICK k \in CoreType : k = core[s]
    BY InvAt
<1>2. PICK t \in Nat : t = now
    BY InvAt
<1>3. PICK o \in Openings[s] : CanCall(s, k, o.req) /\ core' = [core EXCEPT ![s] = Call(s, k, o.req, o.ctx, o.packed, t)]
    BY <1>1, <1>2 DEF AppCall, Become
<1>4. PICK l : l = Call(s, k, o.req, o.ctx, o.packed, t)
    OBVIOUS
<1>5. PICK c \in Calls : c = k.next
    BY <1>3 DEF CanCall
<1>6. Allocates(s, c) /\ o.req \in DOMAIN Registry[s].methods
    BY <1>1, <1>3, <1>5, InvAt DEF CanCall, Polling
<1>7. /\ l \in CoreType /\ l.next = c + 2 /\ l.finished = k.finished
      /\ l.todo = k.todo /\ l.cur = k.cur
      /\ Opened(s, k, l, c)
      /\ \A d \in Calls : d # c => Same(k, l, d)
    BY <1>4, <1>5, <1>6, CallEffect
<1>8. Quiet(k) /\ core' = [core EXCEPT ![s] = l] /\ UNCHANGED <<net, now>>
    BY <1>1, <1>3, <1>4 DEF AppCall, Free
<1>9. c \in Nat
    BY QueueConstants
<1>10. Allocates(s, l.next) /\ k.next <= l.next
    BY <1>5, <1>6, <1>7, <1>9, NextParity
<1>11. Polling(s, l)
    BY <1>7, <1>8, <1>10, FreePolling
<1>12. \A d \in Calls : Local(s, core[s], l, d, now)
    BY <1>1, <1>6, <1>7, <1>10, SameKept DEF Local
<1>13. l \in CoreType /\ l.finished = core[s].finished
    BY <1>1, <1>7
<1> QED
    BY <1>8, <1>11, <1>12, <1>13, LocalStep

LEMMA AppCallRefusedKeeps ==
    ASSUME Inv, NEW s \in Side, AppCallRefused(s)
    PROVE  Inv'
<1>1. PICK k \in CoreType : k = core[s]
    BY InvAt
<1>2. PICK l : l = CallRefused(k)
    OBVIOUS
<1>3. /\ l \in CoreType /\ l.next = k.next + 2 /\ l.finished = k.finished
      /\ l.todo = k.todo /\ l.cur = k.cur
      /\ \A d \in Calls : Same(k, l, d)
    BY <1>2, CallRefusedEffect
<1>4. Quiet(k) /\ core' = [core EXCEPT ![s] = l] /\ UNCHANGED <<net, now>>
    BY <1>1, <1>2 DEF AppCallRefused, Free, Become
<1>5. k.next \in Nat /\ Allocates(s, k.next)
    BY <1>1, InvAt DEF CoreType, Polling
<1>6. Allocates(s, l.next) /\ k.next <= l.next
    BY <1>3, <1>5, NextParity
<1>7. Polling(s, l)
    BY <1>3, <1>4, <1>6, FreePolling
<1>8. \A d \in Calls : Local(s, core[s], l, d, now)
    BY <1>1, <1>3, <1>6, SameKept DEF Local
<1>9. l \in CoreType /\ l.finished = core[s].finished
    BY <1>1, <1>3
<1> QED
    BY <1>4, <1>7, <1>8, <1>9, LocalStep

\* The methods that leave the polling and the call ids alone.
LEMMA FreeStep ==
    ASSUME Inv, NEW s \in Side, Free(s), NEW l \in CoreType, core' = [core EXCEPT ![s] = l],
           UNCHANGED <<net, now>>, Calm(core[s], l), l.todo = core[s].todo, l.cur = core[s].cur,
           \A d \in Calls : Local(s, core[s], l, d, now)
    PROVE  Inv'
<1>1. Allocates(s, l.next) /\ l.finished = core[s].finished /\ Quiet(core[s])
    BY InvAt DEF Polling, Calm, Free
<1>2. Polling(s, l)
    BY <1>1, FreePolling
<1> QED
    BY <1>1, <1>2, LocalStep

LEMMA AppSendItemKeeps ==
    ASSUME Inv, NEW s \in Side, NEW c \in Calls, AppSendItem(s, c)
    PROVE  Inv'
<1>1. PICK k \in CoreType : k = core[s]
    BY InvAt
<1>2. PICK p \in Packings[s] : core' = [core EXCEPT ![s] = SendItem(k, c, p)]
    BY <1>1 DEF AppSendItem, Become
<1>3. PICK l : l = SendItem(k, c, p)
    OBVIOUS
<1>4. p \in Packing /\ CanSendItem(k, c) /\ Free(s) /\ UNCHANGED <<net, now>>
    BY <1>1, LinkConstants DEF AppSendItem
<1>5. ~Inflight(k, c)
    BY <1>1, <1>4, InvAt DEF CanSendItem, Apart, Pending
<1>6. /\ l \in CoreType /\ Calm(k, l)
      /\ l.todo = k.todo /\ l.cur = k.cur
      /\ Queued(s, k, l, c)
      /\ \A d \in Calls : d # c => Same(k, l, d)
    BY <1>3, <1>4, <1>5, SendItemEffect
<1>7. l.next = k.next
    BY <1>6 DEF Calm
<1>8. \A d \in Calls : Local(s, k, l, d, now)
    BY <1>6, <1>7, AllLocal
<1>9. l \in CoreType /\ core' = [core EXCEPT ![s] = l]
    BY <1>2, <1>3, <1>6
<1> QED
    BY <1>1, <1>4, <1>6, <1>8, <1>9, FreeStep

LEMMA AppCloseSendKeeps ==
    ASSUME Inv, NEW s \in Side, NEW c \in Calls, AppCloseSend(s, c)
    PROVE  Inv'
<1>1. PICK k \in CoreType : k = core[s]
    BY InvAt
<1>2. PICK l : l = CloseSend(s, k, c)
    OBVIOUS
<1>3. /\ CanCloseSend(k, c) /\ Free(s) /\ UNCHANGED <<net, now>>
      /\ core' = [core EXCEPT ![s] = l]
    BY <1>1, <1>2 DEF AppCloseSend, Become
<1>4. ~Inflight(k, c)
    BY <1>1, <1>3, InvAt DEF CanCloseSend, Apart, Pending
<1>5. /\ l \in CoreType /\ Calm(k, l)
      /\ l.todo = k.todo /\ l.cur = k.cur
      /\ Queued(s, k, l, c)
      /\ \A d \in Calls : d # c => Same(k, l, d)
    BY <1>2, <1>3, <1>4, CloseSendEffect
<1>6. l.next = k.next
    BY <1>5 DEF Calm
<1>7. \A d \in Calls : Local(s, k, l, d, now)
    BY <1>5, <1>6, AllLocal
<1>8. l \in CoreType
    BY <1>5
<1> QED
    BY <1>1, <1>3, <1>5, <1>7, <1>8, FreeStep

LEMMA GrantableType == \A k, c : Grantable(k, c) \subseteq Nat
BY LinkConstants DEF Grantable

LEMMA AppGrantKeeps ==
    ASSUME Inv, NEW s \in Side, NEW c \in Calls, AppGrant(s, c)
    PROVE  Inv'
<1>1. PICK k \in CoreType : k = core[s]
    BY InvAt
<1>2. PICK items \in Grantable(k, c) : core' = [core EXCEPT ![s] = Grant(k, c, items)]
    BY <1>1 DEF AppGrant, Become
<1>3. PICK l : l = Grant(k, c, items)
    OBVIOUS
<1>4. items \in Nat /\ CanGrant(s, k, c) /\ Free(s) /\ UNCHANGED <<net, now>>
    BY <1>1, <1>2, GrantableType DEF AppGrant
<1>5. Pending(k, c) \/ Inflight(k, c)
    BY <1>4 DEF CanGrant, Pending, Inflight
<1>6. /\ l \in CoreType /\ Calm(k, l)
      /\ l.todo = k.todo /\ l.cur = k.cur
      /\ \A d \in Calls : Kept(k, l, d, now)
    BY <1>3, <1>4, <1>5, GrantEffect
<1>7. l.next = k.next
    BY <1>6 DEF Calm
<1>8. \A d \in Calls : Local(s, k, l, d, now)
    BY <1>6, <1>7, AllLocal
<1>9. l \in CoreType /\ core' = [core EXCEPT ![s] = l]
    BY <1>2, <1>3, <1>6
<1> QED
    BY <1>1, <1>4, <1>6, <1>8, <1>9, FreeStep

LEMMA AppCancelKeeps ==
    ASSUME Inv, NEW s \in Side, NEW c \in Calls, AppCancel(s, c)
    PROVE  Inv'
<1>1. PICK k \in CoreType : k = core[s]
    BY InvAt
<1>2. PICK l : l = AbandonPending(s, k, Only(c), "CANCELLED")
    OBVIOUS
<1>3. /\ Pending(k, c) /\ Free(s) /\ UNCHANGED <<net, now>>
      /\ core' = [core EXCEPT ![s] = l]
    BY <1>1, <1>2 DEF AppCancel, Become, Cancel, Only, Pending
<1>4. "CANCELLED" \in Statuses
    BY StatusTypes
<1>5. /\ l \in CoreType /\ Calm(k, l)
      /\ l.todo = k.todo /\ l.cur = k.cur
      /\ Abandoned(s, k, l, c)
      /\ \A d \in Calls : d # c => Same(k, l, d)
    BY <1>2, <1>3, <1>4, AbandonOne
<1>6. l.next = k.next
    BY <1>5 DEF Calm
<1>7. \A d \in Calls : Local(s, k, l, d, now)
    BY <1>5, <1>6, AllLocal
<1>8. l \in CoreType
    BY <1>5
<1> QED
    BY <1>1, <1>3, <1>5, <1>7, <1>8, FreeStep

LEMMA TickCoreKeeps ==
    ASSUME Inv, NEW s \in Side, TickCore(s)
    PROVE  Inv'
<1>1. PICK k \in CoreType : k = core[s]
    BY InvAt
<1>2. PICK t \in Nat : t = now
    BY InvAt
<1>3. PICK l : l = Tick(s, k, t)
    OBVIOUS
<1>4. Quiet(k) /\ UNCHANGED <<net, now>> /\ core' = [core EXCEPT ![s] = l]
    BY <1>1, <1>2, <1>3 DEF TickCore, Free, Become
<1>5. \A c \in Calls : Apart(s, k, c)
    BY <1>1, InvAt
<1>6. /\ l \in CoreType /\ Calm(k, l)
      /\ l.cur = k.cur /\ l.todo = DOMAIN l.inflight
      /\ \A d \in Calls : \/ Same(k, l, d)
                          \/ Abandoned(s, k, l, d) /\ ~Inflight(k, d)
                          \/ Finished(s, k, l, d)
    BY <1>3, <1>5, TickEffect
<1>7. Polling(s, l)
    BY <1>1, <1>4, <1>6, InvAt DEF Polling, Calm, Quiet, Inflight
<1>8. l.next = k.next /\ k.next <= l.next /\ l.finished = core[s].finished
    BY <1>1, <1>6 DEF Calm, CoreType
<1>9. \A d \in Calls : Local(s, core[s], l, d, now)
    BY <1>1, <1>6, <1>8, SameKept DEF Local
<1>10. l \in CoreType
    BY <1>6
<1> QED
    BY <1>4, <1>7, <1>8, <1>9, <1>10, LocalStep

\* Polling goes on with what is left to poll.
LEMMA BeginPollKeeps ==
    ASSUME Inv, NEW s \in Side, NEW c \in Calls, BeginPoll(s, c)
    PROVE  Inv'
<1>1. PICK k \in CoreType : k = core[s]
    BY InvAt
<1>2. PICK l : /\ core' = [core EXCEPT ![s] = l]
               /\ \/ \E items \in Grantable(k, c) \cup {0} : l = StartPoll(s, k, c, items)
                  \/ \E status \in Failures : l = GrantRefused(s, k, c, status)
    BY <1>1 DEF BeginPoll, Become
<1>3. k.cur = NoCall /\ Inflight(k, c) /\ UNCHANGED <<net, now>> /\ Polling(s, k)
    BY <1>1, InvAt DEF BeginPoll, Polling
<1>4. ASSUME NEW items \in Grantable(k, c) \cup {0}, l = StartPoll(s, k, c, items)
      PROVE  Inv'
    <2>1. items \in Nat
        BY <1>4, GrantableType
    <2>2. /\ l \in CoreType /\ Calm(k, l)
          /\ l.todo = k.todo \ {c} /\ l.cur = c /\ l.inflight = k.inflight
          /\ \A d \in Calls : Kept(k, l, d, now)
        BY <1>3, <1>4, <2>1, StartPollEffect
    <2>3. l \in CoreType /\ l.next = k.next /\ l.finished = k.finished
        BY <2>2 DEF Calm
    <2>4. Polling(s, l)
        BY <1>3, <2>2, <2>3 DEF Polling, Inflight
    <2>5. \A d \in Calls : Local(s, k, l, d, now)
        BY <2>2, <2>3, AllLocal
    <2> QED
        BY <1>1, <1>2, <1>3, <2>3, <2>4, <2>5, LocalStep
<1>5. ASSUME NEW status \in Failures, l = GrantRefused(s, k, c, status)
      PROVE  Inv'
    <2>1. status \in Statuses
        BY StatusTypes
    <2>2. /\ l \in CoreType /\ Calm(k, l)
          /\ l.todo = k.todo \ {c} /\ l.cur = k.cur
          /\ Finished(s, k, l, c)
          /\ \A d \in Calls : d # c => Same(k, l, d)
        BY <1>3, <1>5, <2>1, GrantRefusedEffect
    <2>3. l \in CoreType /\ l.next = k.next /\ l.finished = k.finished
        BY <2>2 DEF Calm
    <2>4. \A d \in l.todo : Inflight(l, d)
        <3>1. k.todo \subseteq Calls
            BY DEF CoreType
        <3> QED
            BY <1>3, <2>2, <3>1 DEF Polling, Same, Alike, SameLife
    <2>5. Polling(s, l)
        BY <1>3, <2>2, <2>3, <2>4 DEF Polling
    <2>6. \A d \in Calls : Local(s, k, l, d, now)
        BY <2>2, <2>3, AllLocal
    <2> QED
        BY <1>1, <1>2, <1>3, <2>3, <2>5, <2>6, LocalStep
<1> QED
    BY <1>2, <1>4, <1>5

LEMMA PollLoopKeeps ==
    ASSUME Inv, NEW s \in Side, NEW c \in Calls, PollLoop(s, c)
    PROVE  Inv'
<1>1. PICK k \in CoreType : k = core[s]
    BY InvAt
<1>2. PICK t \in Nat : t = now
    BY InvAt
<1>3. PICK l : core' = [core EXCEPT ![s] = l] /\ LoopTurn(s, k, l, c, t)
    BY <1>1, <1>2 DEF PollLoop, Become, LoopTurn
<1>4. k.cur = c /\ UNCHANGED <<net, now>> /\ Polling(s, k)
    BY <1>1, InvAt DEF PollLoop
<1>5. Inflight(k, c) /\ c \notin k.todo
    BY <1>4, CallsAreNat DEF Polling
<1>6. PolledOnce(s, k, l, c, t)
    BY <1>3, <1>4, <1>5, LoopTurnEffect
<1>7. /\ l \in CoreType /\ l.next = k.next /\ l.finished = k.finished /\ l.todo = k.todo
      /\ \A d \in Calls : d # c => Same(k, l, d)
      /\ Kept(k, l, c, t) \/ Finished(s, k, l, c) \/ Queued(s, k, l, c)
    BY <1>6 DEF PolledOnce, Calm
<1>8. \A d \in l.todo : Inflight(l, d)
    <2>1. k.todo \subseteq Calls
        BY DEF CoreType
    <2> QED
        BY <1>4, <1>5, <1>7, <2>1 DEF Polling, Same, Alike, SameLife
<1>9. l.cur # NoCall => Inflight(l, l.cur) /\ l.cur \notin l.todo
    BY <1>5, <1>6, <1>7 DEF PolledOnce, Queued, SameLife
<1>10. Polling(s, l)
    BY <1>4, <1>7, <1>8, <1>9 DEF Polling
<1>11. \A d \in Calls : Local(s, k, l, d, t)
    BY <1>7, AllLocal
<1>12. l \in CoreType
    BY <1>7
<1> QED
    BY <1>1, <1>2, <1>3, <1>4, <1>7, <1>10, <1>11, <1>12, LocalStep

-----------------------------------------------------------------------------
\* What goes through the link.

LEMMA ArrivingTail ==
    ASSUME NEW s, NEW n, Arriving(s, n), n # <<>>
    PROVE  /\ Arriving(s, Tail(n))
           /\ Head(n) \in Frame /\ Head(n).call \in Calls /\ Head(n) \in FrameFrom(Peer(s), Head(n).call)
<1>1. /\ n \in Seq(Frame) /\ Tail(n) \in Seq(Frame) /\ Len(n) \in Nat /\ Len(n) > 0
      /\ Len(Tail(n)) = Len(n) - 1 /\ Head(n) = n[1]
      /\ \A i \in 1..Len(Tail(n)) : Tail(n)[i] = n[i + 1]
    BY DEF Arriving
<1>2. \A i \in 1..Len(Tail(n)) : i + 1 \in 1..Len(n)
    BY <1>1
<1>3. 1 \in 1..Len(n)
    BY <1>1
<1>4. Head(n) \in Frame
    BY <1>1, <1>3
<1>5. Head(n).call \in Calls
    BY <1>4 DEF Frame
<1> QED
    BY <1>1, <1>2, <1>3, <1>4, <1>5 DEF Arriving

LEMMA ArrivingAppend ==
    ASSUME NEW s, NEW n, Arriving(s, n), NEW c, NEW f \in FrameFrom(Peer(s), c)
    PROVE  Arriving(s, Append(n, f))
<1>1. f \in Frame /\ f.call = c
    BY DEF FrameFrom
<1>2. /\ Append(n, f) \in Seq(Frame) /\ Len(n) \in Nat /\ Len(Append(n, f)) = Len(n) + 1
      /\ \A i \in 1..Len(n) : Append(n, f)[i] = n[i]
      /\ Append(n, f)[Len(n) + 1] = f
    BY <1>1 DEF Arriving
<1>3. \A i \in 1..Len(Append(n, f)) : i \in 1..Len(n) \/ i = Len(n) + 1
    BY <1>2
<1> QED
    BY <1>1, <1>2, <1>3 DEF Arriving

LEMMA ArrivingPrefix ==
    ASSUME NEW s, NEW n, Arriving(s, n), NEW j \in 0..Len(n)
    PROVE  Arriving(s, SubSeq(n, 1, j))
<1>1. n \in Seq(Frame) /\ Len(n) \in Nat /\ j \in Nat /\ j <= Len(n)
    BY DEF Arriving
<1>2. \A i \in 1..j : i \in 1..Len(n) /\ n[i] \in Frame
    BY <1>1
<1>3. SubSeq(n, 1, j) \in Seq(Frame) /\ Len(SubSeq(n, 1, j)) = j /\ \A i \in 1..j : SubSeq(n, 1, j)[i] = n[i]
    BY <1>1, <1>2
<1> QED
    BY <1>2, <1>3 DEF Arriving

LEMMA ArrivingNone == \A s : Arriving(s, <<>>)
BY DEF Arriving

\* Reading frame f = Head(from): other calls.
LEMMA ReadOther ==
    ASSUME NEW s \in Side, NEW k \in CoreType, NEW c \in Calls, NEW t \in Nat, CallOK(s, k, c, t),
           NEW l \in CoreType, l.finished = k.finished, Local(s, k, l, c, t),
           NEW m, NEW to \in Seq(Frame), NEW from \in Seq(Frame), Joined(s, k, m, to, from, c),
           NEW to2, NEW from2, Agree(to, to2, c), Agree(from, from2, c)
    PROVE  Joined(s, l, m, to2, from2, c)
<1>1. Joined(s, l, m, to, from, c)
    BY LocalJoined
<1> QED
    BY <1>1, LinkedAgree DEF Joined

\* Its own call, at the caller.
LEMMA CallerReads ==
    ASSUME NEW s \in Side, NEW k \in CoreType, NEW c \in Calls, NEW t \in Nat, CallOK(s, k, c, t),
           Allocates(s, c), NEW l \in CoreType, l.finished = k.finished, l.next = k.next,
           NEW m, NEW to, NEW from \in Seq(Frame), Linked(k, m, to, from, c), from # <<>>,
           NEW f \in FrameFrom(Peer(s), c), f = Head(from), Heard(s, k, l, f, t),
           NEW from2, from2 = Tail(from)
    PROVE  CallOK(s, l, c, t) /\ Linked(l, m, to, from2, c)
<1>1. f.call = c /\ f.kind # "REQUEST"
    BY PeerSide, OneAllocates DEF FrameFrom
<1>2. ~Finished(s, k, l, c) /\ k.next <= l.next
    BY DEF CallOK, Finished, CoreType
<1>3. Mentions(from, c)
    BY <1>1, NetTail
<1>4. \/ Kept(k, l, c, t) /\ (f.kind \in LastKinds => ~Pending(k, c))
      \/ Answered(k, l, c) /\ f.kind \in LastKinds
      \/ Abandoned(s, k, l, c)
      \/ Refused(s, k, l, c)
    BY <1>1, <1>2 DEF Heard, Ended
<1>5. CASE Kept(k, l, c, t) /\ (f.kind \in LastKinds => ~Pending(k, c))
    <2>1. Linked(l, m, to, from, c) /\ CallOK(s, l, c, t)
        BY <1>2, <1>5, CallerKept, KeptOK
    <2>2. f.kind \in LastKinds => ~Pending(l, c)
        BY <1>5 DEF Kept, SameLife
    <2> QED
        BY <1>1, <2>1, <2>2, DropBack
<1>6. CASE Answered(k, l, c) /\ f.kind \in LastKinds
    <2>1. Says(from, c, LastKinds)
        BY <1>1, <1>6, NetTail
    <2>2. Linked(l, m, to, from, c) /\ CallOK(s, l, c, t)
        BY <1>6, <2>1, CallerAnswered, AnsweredOK
    <2>3. ~Pending(l, c)
        BY <1>6 DEF Answered, Settled
    <2> QED
        BY <1>1, <2>2, <2>3, DropBack
<1>7. CASE Abandoned(s, k, l, c)
    <2>1. Linked(l, m, to, from, c) /\ CallOK(s, l, c, t)
        BY <1>7, CallerAbandoned, AbandonedOK
    <2>2. ~Pending(l, c)
        BY <1>7 DEF Abandoned, Settled
    <2> QED
        BY <1>1, <2>1, <2>2, DropBack
<1>8. CASE Refused(s, k, l, c)
    <2>1. Linked(l, m, to, from, c) /\ CallOK(s, l, c, t)
        BY <1>3, <1>8, CallerRefused, RefusedOK
    <2>2. ~Pending(l, c)
        BY <1>8 DEF Refused, SameLife
    <2> QED
        BY <1>1, <2>1, <2>2, DropBack
<1> QED
    BY <1>4, <1>5, <1>6, <1>7, <1>8

\* ... and at the callee.
LEMMA CalleeReads ==
    ASSUME NEW s \in Side, NEW m \in CoreType, NEW c \in Calls, NEW t \in Nat, CallOK(s, m, c, t),
           ~Allocates(s, c), NEW l \in CoreType, l.finished = m.finished, l.next = m.next,
           NEW k, NEW out \in Seq(Frame), NEW back, Linked(k, m, out, back, c), out # <<>>,
           NEW f \in FrameFrom(Peer(s), c), f = Head(out), Heard(s, m, l, f, t),
           NEW out2, out2 = Tail(out)
    PROVE  CallOK(s, l, c, t) /\ Linked(k, l, out2, back, c)
<1>1. f.call = c /\ m.next <= l.next
    BY DEF FrameFrom, CoreType
<1>2. ~Pending(m, c) /\ ~Answered(m, l, c) /\ ~Abandoned(s, m, l, c)
    BY DEF CallOK, Answered, Abandoned, Settled
<1>3. /\ c \in k.issued /\ ~Has(Queue(k, c), Requests)
      /\ Says(out, c, Requests) <=> f.kind \in Requests
    BY <1>1, OutMentions
<1>4. CASE f.kind = "REQUEST"
    <2>1. f.kind \in Requests
        BY <1>4, KindSets
    <2>2. ~Inflight(m, c) /\ Queue(m, c) = <<>>
        BY <1>3, <2>1 DEF Linked, Unopened, Silent
    <2>3. RequestsKnown => Owns(s, f.mid) \/ f.ctx.len <= MaxCtxLen[s]
        BY <1>4, PeerSide DEF RequestsKnown, FrameFrom
    <2>4. ~(f.ctx.len <= MaxCtxLen[s] /\ f.ctx.len > MaxCtxLen[s])
        BY SMTT(60), LinkConstants DEF FrameFrom, Frame, Ctx
    <2>5. Refused(s, m, l, c) \/ Started(m, l, c) \/ (Kept(m, l, c, t) /\ ~RequestsKnown)
        BY <1>1, <1>2, <1>4, <2>2, <2>3, <2>4 DEF Heard, Ended, Finished
    <2>6. Linked(k, l, out2, back, c)
        BY <1>1, <2>1, <2>5, RequestTaken
    <2>7. CallOK(s, l, c, t)
        BY <1>1, <2>2, <2>5, RefusedOK, StartedOK, KeptOK
    <2> QED
        BY <2>6, <2>7
<1>5. CASE f.kind # "REQUEST"
    <2>1. f.kind \notin Requests
        BY <1>5, KindSets
    <2>2. ~Unopened(k, out, c)
        BY <1>3, <2>1 DEF Unopened
    <2>3. \/ Kept(m, l, c, t) /\ (f.kind = "CANCEL" => ~Inflight(m, c))
          \/ Finished(s, m, l, c)
          \/ Refused(s, m, l, c)
        BY <1>1, <1>2, <1>5 DEF Heard, Ended
    <2>4. CASE Kept(m, l, c, t) /\ (f.kind = "CANCEL" => ~Inflight(m, c))
        <3>1. Linked(k, l, out, back, c) /\ CallOK(s, l, c, t)
            BY <1>1, <2>4, CalleeKept, KeptOK
        <3>2. f.kind \in Cancels => ~Inflight(l, c)
            BY <2>4, KindSets DEF Kept, SameLife
        <3> QED
            BY <1>1, <2>1, <3>1, <3>2, DropOut
    <2>5. CASE Finished(s, m, l, c)
        <3>1. Linked(k, l, out, back, c) /\ CallOK(s, l, c, t)
            BY <2>5, CalleeFinished, FinishedOK
        <3>2. ~Inflight(l, c)
            BY <2>5 DEF Finished
        <3> QED
            BY <1>1, <2>1, <3>1, <3>2, DropOut
    <2>6. CASE Refused(s, m, l, c)
        <3>1. Linked(k, l, out, back, c) /\ CallOK(s, l, c, t)
            BY <1>3, <2>2, <2>6, CalleeRefused, RefusedOK
        <3>2. ~Inflight(l, c)
            BY <2>6 DEF Refused, SameLife
        <3> QED
            BY <1>1, <2>1, <3>1, <3>2, DropOut
    <2> QED
        BY <2>3, <2>4, <2>5, <2>6
<1> QED
    BY <1>4, <1>5

LEMMA DeliverKeeps ==
    ASSUME Inv, NEW s \in Side, Deliver(s)
    PROVE  Inv'
<1>1. PICK k \in CoreType : k = core[s]
    BY InvAt
<1>2. PICK t \in Nat : t = now
    BY InvAt
<1>3. PICK p \in Side : p = Peer(s) /\ p # s
    BY PeerSide
<1>4. PICK to \in Seq(Frame), from \in Seq(Frame) : to = net[p] /\ from = net[s]
    BY <1>3, InvAt
<1>5. PICK m : m = core[p]
    OBVIOUS
<1>6. from # <<>> /\ Arriving(s, from)
    BY <1>4, InvAt DEF Deliver
<1>7. PICK f : f = Head(from)
    OBVIOUS
<1>8. PICK c \in Calls : c = f.call
    BY <1>6, <1>7, ArrivingTail
<1>9. f \in FrameFrom(Peer(s), c)
    BY <1>6, <1>7, <1>8, ArrivingTail
<1>10. PICK answer \in {"OK"} \cup Failures : core' = [core EXCEPT ![s] = OnMessage(s, k, f, t, answer)]
    BY <1>1, <1>2, <1>4, <1>7 DEF Deliver, Become
<1>11. PICK l : l = OnMessage(s, k, f, t, answer)
    OBVIOUS
<1>12. Apart(s, k, c)
    BY <1>1, InvAt
<1>13. Around(k, l, f) /\ Heard(s, k, l, f, t)
    BY <1>9, <1>11, <1>12, OnMessageEffect DEF Delivered
<1>14. /\ l \in CoreType /\ l.next = k.next /\ l.finished = k.finished /\ l.cur = k.cur
       /\ \A d \in l.todo : d \in k.todo \/ (d = c /\ Inflight(l, d))
       /\ \A d \in Calls : d # c => Same(k, l, d)
    BY <1>8, <1>13 DEF Around, Calm
<1>15. Quiet(k) /\ Polling(s, k)
    BY <1>1, InvAt DEF Deliver, Free
<1>16. Polling(s, l)
    BY <1>14, <1>15 DEF Polling, Quiet
<1>17. PICK from2 : from2 = Tail(from)
    OBVIOUS
<1>18. net' = [net EXCEPT ![s] = from2] /\ now' = now
    BY <1>4, <1>17 DEF Deliver
<1>19. Arriving(s, from2) /\ Arriving(p, to)
    BY <1>3, <1>4, <1>6, <1>17, ArrivingTail, InvAt
<1>20. from2 \in Seq(Frame)
    BY <1>19 DEF Arriving
<1>21. net' \in [Side -> Seq(Frame)] /\ net'[s] = from2 /\ net'[p] = to
    BY <1>3, <1>4, <1>18, <1>20 DEF Inv
<1>22. \A d \in Calls : CallOK(s, k, d, t) /\ Joined(s, k, m, to, from, d)
    BY <1>1, <1>2, <1>3, <1>4, <1>5, InvAt
<1>23. CallOK(s, l, c, t) /\ Joined(s, l, m, to, from2, c)
    <2>1. CallOK(s, k, c, t) /\ Joined(s, k, m, to, from, c)
        BY <1>22
    <2>2. l \in CoreType /\ l.next = k.next /\ l.finished = k.finished
        BY <1>14
    <2>3. CASE Allocates(s, c)
        <3>1. Linked(k, m, to, from, c)
            BY <2>1, <2>3 DEF Joined
        <3>2. CallOK(s, l, c, t) /\ Linked(l, m, to, from2, c)
            BY <1>6, <1>7, <1>9, <1>13, <1>17, <2>1, <2>2, <2>3, <3>1, CallerReads
        <3> QED
            BY <2>3, <3>2 DEF Joined
    <2>4. CASE ~Allocates(s, c)
        <3>1. Linked(m, k, from, to, c)
            BY <2>1, <2>4 DEF Joined
        <3>2. CallOK(s, l, c, t) /\ Linked(m, l, from2, to, c)
            BY ZenonT(60), <1>6, <1>7, <1>9, <1>13, <1>17, <2>1, <2>2, <2>4, <3>1, CalleeReads
        <3> QED
            BY <2>4, <3>2 DEF Joined
    <2> QED
        BY <2>3, <2>4
<1>24. ASSUME NEW d \in Calls, d # c
       PROVE  CallOK(s, l, d, t) /\ Joined(s, l, m, to, from2, d)
    <2>1. CallOK(s, k, d, t) /\ Joined(s, k, m, to, from, d)
        BY <1>22
    <2>2. l \in CoreType /\ l.finished = k.finished
        BY <1>14
    <2>3. Local(s, k, l, d, t)
        <3>1. Same(k, l, d) /\ l.next = k.next /\ k.next \in Nat
            BY <1>14, <1>24 DEF CoreType
        <3>2. Kept(k, l, d, t) /\ k.next <= l.next
            BY <3>1, SameKept
        <3> QED
            BY <3>2 DEF Local
    <2>4. Head(from).call # d
        BY <1>7, <1>8, <1>24
    <2>5. Agree(from, from2, d) /\ Agree(to, to, d)
        BY <1>6, <1>17, <2>4, AgreeTail, AgreeSelf
    <2> QED
        BY <2>1, <2>2, <2>3, <2>5, LocalOK, ReadOther
<1>25. Endpoint(s, l, now)
    BY <1>2, <1>14, <1>16, <1>23, <1>24 DEF Endpoint
<1>26. \A d \in Calls : Joined(s, l, core[Peer(s)], net'[Peer(s)], net'[s], d)
    BY <1>3, <1>5, <1>21, <1>23, <1>24
<1>27. Arriving(s, net'[s]) /\ Arriving(Peer(s), net'[Peer(s)])
    BY <1>3, <1>19, <1>21
<1>28. core' = [core EXCEPT ![s] = l]
    BY <1>10, <1>11
<1> QED
    BY <1>18, <1>21, <1>25, <1>26, <1>27, <1>28, SideStep

\* Side s hands f, of call c, to the connection.
LEMMA TransmitStep ==
    ASSUME Inv, NEW s \in Side, Free(s), NEW c \in Calls, NEW f \in FrameFrom(s, c), Transmit(s, f),
           NEW k \in CoreType, k = core[s], NEW l \in CoreType, Calm(k, l), l.todo = k.todo, l.cur = k.cur,
           core' = [core EXCEPT ![s] = l], now' = now, CallOK(s, l, c, now),
           \A d \in Calls : d # c => Same(k, l, d),
           core[Peer(s)].finished => Joined(s, l, core[Peer(s)], net[Peer(s)], net[s], c),
           Joined(s, l, core[Peer(s)], Append(net[Peer(s)], f), net[s], c)
    PROVE  Inv'
<1>1. PICK t \in Nat : t = now
    BY InvAt
<1>2. PICK p \in Side : p = Peer(s) /\ p # s /\ Peer(p) = s
    BY PeerSide
<1>3. PICK to \in Seq(Frame), from \in Seq(Frame) : to = net[p] /\ from = net[s]
    BY <1>2, InvAt
<1>4. PICK m : m = core[p]
    OBVIOUS
<1>5. PICK to2 : net'[p] = to2 /\ net'[s] = from /\ net' \in [Side -> Seq(Frame)]
                 /\ (to2 = Append(to, f) \/ (to2 = to /\ m.finished))
    <2>1. f \in Frame
        BY DEF FrameFrom
    <2>2. Append(to, f) \in Seq(Frame)
        BY <2>1
    <2>3. CASE m.finished
        <3>1. net' = net
            BY <1>2, <1>4, <2>3 DEF Transmit
        <3> QED
            BY <1>3, <2>3, <3>1 DEF Inv
    <2>4. CASE ~m.finished
        <3>1. net' = [net EXCEPT ![p] = Append(to, f)]
            BY <1>2, <1>3, <1>4, <2>4 DEF Transmit
        <3> QED
            BY <1>2, <1>3, <2>2, <3>1 DEF Inv
    <2> QED
        BY <2>3, <2>4
<1>6. Arriving(s, from) /\ Arriving(p, to2)
    <2>1. Arriving(s, from) /\ Arriving(p, to)
        BY <1>2, <1>3, InvAt
    <2>2. f \in FrameFrom(Peer(p), c)
        BY <1>2
    <2>3. Arriving(p, Append(to, f))
        BY <2>1, <2>2, ArrivingAppend
    <2> QED
        BY <1>5, <2>1, <2>3
<1>7. Joined(s, l, m, to2, from, c)
    BY <1>2, <1>3, <1>4, <1>5
<1>8. ASSUME NEW d \in Calls, d # c
      PROVE  CallOK(s, l, d, t) /\ Joined(s, l, m, to2, from, d)
    <2>1. CallOK(s, k, d, t) /\ Joined(s, k, m, to, from, d)
        BY <1>1, <1>2, <1>3, <1>4, InvAt
    <2>2. l.finished = k.finished /\ Local(s, k, l, d, t)
        <3>1. Same(k, l, d) /\ l.next = k.next /\ k.next \in Nat /\ l.finished = k.finished
            BY <1>8 DEF CoreType, Calm
        <3>2. Kept(k, l, d, t) /\ k.next <= l.next
            BY <3>1, SameKept
        <3> QED
            BY <3>1, <3>2 DEF Local
    <2>3. f \in Frame /\ f.call # d
        BY <1>8 DEF FrameFrom
    <2>4. Agree(to, to2, d) /\ Agree(from, from, d)
        BY <1>5, <2>3, AgreeAppend, AgreeSelf
    <2> QED
        BY <2>1, <2>2, <2>4, LocalOK, ReadOther
<1>9. Polling(s, l)
    <2>1. Quiet(k) /\ Allocates(s, l.next)
        BY InvAt DEF Free, Polling, Calm
    <2> QED
        BY <2>1, FreePolling
<1>10. Endpoint(s, l, now)
    BY <1>1, <1>8, <1>9 DEF Endpoint
<1>11. \A d \in Calls : Joined(s, l, core[Peer(s)], net'[Peer(s)], net'[s], d)
    BY <1>2, <1>4, <1>5, <1>7, <1>8
<1>12. Arriving(s, net'[s]) /\ Arriving(Peer(s), net'[Peer(s)])
    BY <1>2, <1>5, <1>6
<1>13. net' \in [Side -> Seq(Frame)]
    BY <1>5
<1> QED
    BY <1>10, <1>11, <1>12, <1>13, SideStep

LEMMA SendFrameKeeps ==
    ASSUME Inv, NEW s \in Side, NEW c \in Calls, SendFrame(s, c)
    PROVE  Inv'
<1>1. PICK k \in CoreType : k = core[s]
    BY InvAt
<1>2. PICK t \in Nat : t = now
    BY InvAt
<1>3. PICK l : l = Leaves(k, c, t)
    OBVIOUS
<1>4. /\ Free(s) /\ k.box.queues[c] # <<>> /\ Transmit(s, Head(k.box.queues[c]))
      /\ core' = [core EXCEPT ![s] = l] /\ now' = now
    BY <1>1, <1>2, <1>3 DEF SendFrame, Become, Leaves
<1>5. /\ l \in CoreType /\ Calm(k, l) /\ l.todo = k.todo /\ l.cur = k.cur
      /\ Popped(k, l, c, t)
      /\ \A d \in Calls : d # c => Same(k, l, d)
    <2>1. k.box.queues[c] # <<>>
        BY <1>4
    <2> QED
        BY <1>3, <2>1, SendFrameEffect
<1>6. CallOK(s, k, c, t) /\ Joined(s, k, core[Peer(s)], net[Peer(s)], net[s], c)
    BY <1>1, <1>2, InvAt
<1>7. PICK f \in FrameFrom(s, c) : f = Head(Queue(k, c))
    <2>1. Queue(k, c) \in Seq(FrameFrom(s, c)) /\ Queue(k, c) # <<>>
        BY <1>4, <1>6 DEF CallOK, Queue
    <2> QED
        BY <2>1, FramesTail
<1>8. l \in CoreType /\ l.next = k.next /\ l.finished = k.finished /\ Popped(k, l, c, t)
    BY <1>5 DEF Calm
<1>9. CallOK(s, l, c, t)
    BY <1>6, <1>8, PoppedOK
<1>10. PICK m \in CoreType, to \in Seq(Frame), from \in Seq(Frame) :
        m = core[Peer(s)] /\ to = net[Peer(s)] /\ from = net[s]
    BY InvAt
<1>11. PICK to2 : to2 = Append(to, Head(Queue(k, c)))
    OBVIOUS
<1>12. Joined(s, l, m, to2, from, c) /\ (m.finished => Joined(s, l, m, to, from, c))
    <2>1. CASE Allocates(s, c)
        <3>1. Linked(k, m, to, from, c)
            BY <1>6, <1>10, <2>1 DEF Joined
        <3>2. Linked(l, m, to2, from, c)
            BY <1>6, <1>8, <1>11, <3>1, CallerSent
        <3>3. m.finished => Linked(l, m, to, from, c)
            BY <1>8, <3>1, CallerLost
        <3> QED
            BY <2>1, <3>2, <3>3 DEF Joined
    <2>2. CASE ~Allocates(s, c)
        <3>1. Linked(m, k, from, to, c)
            BY <1>6, <1>10, <2>2 DEF Joined
        <3>2. Linked(m, l, from, to2, c)
            BY <1>6, <1>8, <1>11, <3>1, CalleeSent
        <3>3. m.finished => Linked(m, l, from, to, c)
            BY <1>8, <3>1, CalleeLost
        <3> QED
            BY <2>2, <3>2, <3>3 DEF Joined
    <2> QED
        BY <2>1, <2>2
<1>13. /\ Transmit(s, f) /\ Free(s) /\ now' = now
       /\ core[Peer(s)].finished => Joined(s, l, core[Peer(s)], net[Peer(s)], net[s], c)
       /\ Joined(s, l, core[Peer(s)], Append(net[Peer(s)], f), net[s], c)
    BY <1>4, <1>7, <1>10, <1>11, <1>12 DEF Queue
<1> QED
    BY <1>1, <1>2, <1>4, <1>5, <1>8, <1>9, <1>13, TransmitStep

LEMMA SendCreditKeeps ==
    ASSUME Inv, NEW s \in Side, NEW c \in Calls, SendCredit(s, c)
    PROVE  Inv'
<1>1. PICK k \in CoreType : k = core[s]
    BY InvAt
<1>2. PICK t \in Nat : t = now
    BY InvAt
<1>3. PICK l : l = CreditLeaves(k, c)
    OBVIOUS
<1>4. /\ Free(s) /\ c \in ReadyCredits(k.box) /\ Transmit(s, CreditFrame(s, c, k.box.credits[c]))
      /\ core' = [core EXCEPT ![s] = l] /\ now' = now
    BY <1>1, <1>3 DEF SendCredit, Become, CreditLeaves
<1>5. k.box.credits[c] # NoCredit /\ ~OpensWithRequest(k.box, c)
    BY <1>4 DEF ReadyCredits
<1>6. PICK items \in Nat : items = k.box.credits[c]
    <2>1. k.box.credits[c] \in Credits
        BY DEF CoreType, Box
    <2> QED
        BY <1>5, <2>1, QueueConstants DEF Credits
<1>7. PICK f : f = CreditFrame(s, c, items)
    OBVIOUS
<1>8. f \in FrameFrom(s, c) /\ f.kind = "CREDIT"
    BY <1>7, CreditFrameType
<1>9. f \in Frame /\ f.call = c
    BY <1>8 DEF FrameFrom
<1>10. /\ l \in CoreType /\ Calm(k, l) /\ l.todo = k.todo /\ l.cur = k.cur
       /\ Kept(k, l, c, t)
       /\ \A d \in Calls : d # c => Same(k, l, d)
    BY <1>3, SendCreditEffect
<1>11. /\ l \in CoreType /\ k.next <= l.next /\ l.finished = k.finished /\ Kept(k, l, c, t)
    <2>1. k.next \in Nat
        BY DEF CoreType
    <2>2. l.next = k.next /\ l.finished = k.finished
        BY <1>10 DEF Calm
    <2>3. k.next <= l.next
        BY <2>1, <2>2
    <2> QED
        BY <1>10, <2>2, <2>3
<1>12. CallOK(s, k, c, t) /\ Joined(s, k, core[Peer(s)], net[Peer(s)], net[s], c)
    BY <1>1, <1>2, InvAt
<1>13. CallOK(s, l, c, t)
    BY <1>11, <1>12, KeptOK
<1>14. PICK m \in CoreType, to \in Seq(Frame), from \in Seq(Frame) :
        m = core[Peer(s)] /\ to = net[Peer(s)] /\ from = net[s]
    BY InvAt
<1>15. PICK to2 : to2 = Append(to, f)
    OBVIOUS
<1>16. Queue(l, c) = Queue(k, c) /\ (c \in l.issued <=> c \in k.issued)
    BY <1>11 DEF Kept, SamePast
<1>17. Joined(s, l, m, to2, from, c) /\ Joined(s, l, m, to, from, c)
    <2>1. CASE Allocates(s, c)
        <3>1. Linked(k, m, to, from, c)
            BY <1>12, <1>14, <2>1 DEF Joined
        <3>2. Linked(l, m, to, from, c)
            BY <1>11, <1>12, <2>1, <3>1, CallerKept
        <3>3. HeadOnly(Queue(k, c)) /\ c \in k.issued
            BY <1>5, <3>1 DEF Linked
        <3>4. ~Has(Queue(l, c), Requests) /\ c \in l.issued
            BY <1>5, <1>16, <3>3, HeldBack
        <3>5. Linked(l, m, to2, from, c)
            BY <1>8, <1>9, <1>15, <3>2, <3>4, CreditOut
        <3> QED
            BY <2>1, <3>2, <3>5 DEF Joined
    <2>2. CASE ~Allocates(s, c)
        <3>1. Linked(m, k, from, to, c)
            BY <1>12, <1>14, <2>2 DEF Joined
        <3>2. Linked(m, l, from, to, c)
            BY <1>11, <1>12, <2>2, <3>1, CalleeKept
        <3>3. ~Unopened(m, from, c) /\ c \in m.issued
            BY <1>5, <3>1 DEF Linked, Silent
        <3>4. Linked(m, l, from, to2, c)
            BY <1>8, <1>9, <1>15, <3>2, <3>3, CreditBack
        <3> QED
            BY <2>2, <3>2, <3>4 DEF Joined
    <2> QED
        BY <2>1, <2>2
<1>18. /\ Transmit(s, f) /\ Free(s) /\ now' = now
       /\ core[Peer(s)].finished => Joined(s, l, core[Peer(s)], net[Peer(s)], net[s], c)
       /\ Joined(s, l, core[Peer(s)], Append(net[Peer(s)], f), net[s], c)
    BY <1>4, <1>6, <1>7, <1>14, <1>15, <1>17
<1> QED
    BY <1>1, <1>2, <1>4, <1>8, <1>10, <1>13, <1>18, TransmitStep

LEMMA SessionEndKeeps ==
    ASSUME Inv, NEW s \in Side, SessionEnd(s)
    PROVE  Inv'
<1>1. PICK k \in CoreType : k = core[s]
    BY InvAt
<1>2. PICK t \in Nat : t = now
    BY InvAt
<1>3. PICK l : l = OnSessionEnd(k)
    OBVIOUS
<1>4. PICK p \in Side : p = Peer(s) /\ p # s
    BY PeerSide
<1>5. PICK m \in CoreType, to \in Seq(Frame), from \in Seq(Frame) : m = core[p] /\ to = net[p] /\ from = net[s]
    BY <1>4, InvAt
<1>6. Quiet(k) /\ core' = [core EXCEPT ![s] = l] /\ now' = now
    BY <1>1, <1>3 DEF SessionEnd, Free, Become
<1>7. PICK j \in 0..Len(to) : net' = [net EXCEPT ![s] = <<>>, ![p] = SubSeq(to, 1, j)]
    BY <1>4, <1>5 DEF SessionEnd
<1>8. PICK to2 : to2 = SubSeq(to, 1, j)
    OBVIOUS
<1>9. Arriving(s, <<>>) /\ Arriving(p, to2)
    BY <1>4, <1>5, <1>8, ArrivingPrefix, ArrivingNone, InvAt
<1>10. <<>> \in Seq(Frame) /\ to2 \in Seq(Frame)
    BY <1>9 DEF Arriving
<1>11. net' \in [Side -> Seq(Frame)] /\ net'[s] = <<>> /\ net'[p] = to2
    BY <1>4, <1>7, <1>8, <1>10 DEF Inv
<1>12. /\ l \in CoreType /\ l.next = k.next /\ l.finished
       /\ l.todo = k.todo /\ l.cur = k.cur
       /\ \A d \in Calls : Dropped(k, l, d)
    BY <1>3, OnSessionEndEffect
<1>13. ASSUME NEW c \in Calls
       PROVE  CallOK(s, l, c, t) /\ Joined(s, l, m, to2, <<>>, c)
    <2>1. CallOK(s, k, c, t) /\ Joined(s, k, m, to, from, c)
        BY <1>1, <1>2, <1>4, <1>5, InvAt
    <2>2. l \in CoreType /\ l.next = k.next /\ l.finished /\ Dropped(k, l, c)
        BY <1>12
    <2>3. CallOK(s, l, c, t)
        BY <2>1, <2>2, DroppedOK
    <2>4. CASE Allocates(s, c)
        <3>1. Linked(k, m, to, from, c)
            BY <2>1, <2>4 DEF Joined
        <3>2. Linked(l, m, to2, <<>>, c)
            BY <1>8, <2>2, <3>1, CallerDropped
        <3> QED
            BY <2>3, <2>4, <3>2 DEF Joined
    <2>5. CASE ~Allocates(s, c)
        <3>1. Linked(m, k, from, to, c)
            BY <2>1, <2>5 DEF Joined
        <3>2. Linked(m, l, <<>>, to2, c)
            BY <1>8, <2>2, <3>1, CalleeDropped
        <3> QED
            BY <2>3, <2>5, <3>2 DEF Joined
    <2> QED
        BY <2>4, <2>5
<1>14. Allocates(s, l.next)
    BY <1>1, <1>12, InvAt DEF Polling
<1>15. Polling(s, l)
    BY <1>6, <1>12, <1>14, FreePolling
<1>16. Endpoint(s, l, now)
    BY <1>2, <1>12, <1>13, <1>15 DEF Endpoint
<1>17. \A c \in Calls : Joined(s, l, core[Peer(s)], net'[Peer(s)], net'[s], c)
    BY <1>4, <1>5, <1>11, <1>13
<1>18. Arriving(s, net'[s]) /\ Arriving(Peer(s), net'[Peer(s)])
    BY <1>4, <1>9, <1>11
<1> QED
    BY <1>6, <1>11, <1>16, <1>17, <1>18, SideStep

LEMMA AdvanceKeeps ==
    ASSUME Inv, Advance
    PROVE  Inv'
<1>1. now \in Nat /\ now' = now + 1 /\ now' \in 1..MaxTime
    BY LinkConstants DEF Inv, Advance
<1>2. core' = core /\ net' = net
    BY DEF Advance
<1>3. ASSUME NEW s \in Side PROVE Endpoint(s, core[s], now')
    <2>1. core[s] \in CoreType /\ Polling(s, core[s])
        BY InvAt
    <2>2. ASSUME NEW c \in Calls PROVE CallOK(s, core[s], c, now')
        <3>1. CallOK(s, core[s], c, now)
            BY InvAt
        <3>2. core[s].leftAt[c] \in Nat
            BY <2>1 DEF CoreType
        <3> QED
            BY <1>1, <3>1, <3>2 DEF CallOK
    <2> QED
        BY <2>1, <2>2 DEF Endpoint
<1> QED
    BY <1>1, <1>2, <1>3 DEF Inv

LEMMA NewLinked ==
    ASSUME NEW p \in Side, NEW q \in Side, NEW k, k = NewCore(p), NEW m, m = NewCore(q), NEW c \in Calls
    PROVE  Linked(k, m, <<>>, <<>>, c)
<1>1. /\ Queue(k, c) = <<>> /\ k.box.credits[c] = NoCredit /\ ~Pending(k, c)
    BY NewCoreType
<1>2. Queue(m, c) = <<>> /\ m.box.credits[c] = NoCredit /\ ~Inflight(m, c)
    BY NewCoreType
<1>3. \A K : ~Says(<<>>, c, K)
    BY NetEmpty
<1>4. ~Mentions(<<>>, c) /\ ReqFirst(<<>>, c)
    BY NetEmpty
<1>5. \A K : ~Has(Queue(k, c), K) /\ ~Has(Queue(m, c), K)
    BY <1>1, <1>2, QueueEmpty
<1>6. HeadOnly(Queue(k, c))
    BY <1>1, QueueEmpty
<1>7. ~Unopened(k, <<>>, c) /\ ~AnswerDue(m, <<>>, c)
    BY <1>3, <1>5 DEF Unopened, AnswerDue
<1>8. Silent(m, <<>>, c)
    BY <1>2, <1>4 DEF Silent
<1>9. Alive(k, m, <<>>, <<>>, c)
    BY <1>1, <1>2, <1>3 DEF Alive
<1> QED
    BY <1>1, <1>4, <1>5, <1>6, <1>7, <1>8, <1>9 DEF Linked

LEMMA NewEndpoint ==
    ASSUME NEW s \in Side, NEW k, k = NewCore(s)
    PROVE  Endpoint(s, k, 1)
<1>1. /\ k \in CoreType /\ Allocates(s, k.next) /\ k.todo = {} /\ k.cur = NoCall
      /\ \A c : ~Pending(k, c) /\ ~Inflight(k, c)
      /\ \A c \in Calls : c \notin k.issued
      /\ \A c \in Calls : Queue(k, c) = <<>> /\ k.outcomes[c] = <<>> /\ k.chain[c] = 0 /\ k.leftAt[c] = 0
    BY NewCoreType
<1>2. Polling(s, k)
    BY <1>1 DEF Polling
<1>3. ASSUME NEW c \in Calls PROVE CallOK(s, k, c, 1)
    <2>1. Ends(<<>>) = {}
        BY DEF Ends
    <2>2. Completed(k, c)
        BY <1>1, <2>1 DEF Completed
    <2>3. Unwound(k, c)
        BY <1>1 DEF Unwound
    <2>4. Queue(k, c) \in Seq(FrameFrom(s, c))
        BY <1>1, FramesFew
    <2>5. k.leftAt[c] <= 1
        <3>1. k.leftAt[c] = 0
            BY <1>1
        <3> QED
            BY <3>1
    <2> QED
        BY <1>1, <2>2, <2>3, <2>4, <2>5 DEF CallOK
<1> QED
    BY <1>1, <1>2, <1>3 DEF Endpoint

LEMMA InitInv == Init => Inv
<1> SUFFICES ASSUME Init PROVE Inv
    OBVIOUS
<1>1. net = [s \in Side |-> <<>>] /\ now = 1
    BY DEF Init
<1>2. \A s \in Side : core[s] = NewCore(s)
    BY DEF Init
<1>3. core \in [Side -> CoreType]
    <2>1. \A s \in Side : NewCore(s) \in CoreType
        BY NewCoreType
    <2> QED
        BY <2>1 DEF Init
<1>4. net \in [Side -> Seq(Frame)]
    <2>1. <<>> \in Seq(Frame)
        BY EmptySeq
    <2> QED
        BY <1>1, <2>1
<1>5. now \in 1..MaxTime
    <2>1. MaxTime \in Nat \ {0}
        BY LinkConstants
    <2> QED
        BY <1>1, <2>1
<1>6. ASSUME NEW s \in Side PROVE Endpoint(s, core[s], now) /\ Arriving(s, net[s])
    <2>1. Endpoint(s, core[s], 1)
        BY <1>2, NewEndpoint
    <2>2. Arriving(s, <<>>)
        BY ArrivingNone
    <2> QED
        BY <1>1, <2>1, <2>2
<1>7. ASSUME NEW s \in Side, NEW c \in Calls
      PROVE  Joined(s, core[s], core[Peer(s)], net[Peer(s)], net[s], c)
    <2>1. PICK p \in Side : p = Peer(s)
        BY PeerSide
    <2>2. PICK k, m : k = NewCore(s) /\ m = NewCore(p)
        OBVIOUS
    <2>3. Linked(k, m, <<>>, <<>>, c) /\ Linked(m, k, <<>>, <<>>, c)
        BY <2>2, NewLinked
    <2>4. core[s] = k /\ core[Peer(s)] = m /\ net[Peer(s)] = <<>> /\ net[s] = <<>>
        BY <1>1, <1>2, <2>1, <2>2
    <2> QED
        BY <2>3, <2>4 DEF Joined
<1> QED
    BY <1>3, <1>4, <1>5, <1>6, <1>7 DEF Inv

\* The invariant is inductive: one lemma per action of the link.
LEMMA NextInv == Inv /\ [Next]_vars => Inv'
<1> SUFFICES ASSUME Inv, [Next]_vars PROVE Inv'
    OBVIOUS
<1>1. CASE UNCHANGED vars
    BY <1>1 DEF Inv, vars
<1>2. CASE Advance
    BY <1>2, AdvanceKeeps
<1>3. ASSUME NEW s \in Side,
             OnReady(s) \/ SessionEnd(s) \/ Deliver(s) \/ TickCore(s) \/ AppCall(s) \/ AppCallRefused(s)
      PROVE  Inv'
    BY <1>3, OnReadyKeeps, SessionEndKeeps, DeliverKeeps, TickCoreKeeps, AppCallKeeps,
       AppCallRefusedKeeps
<1>4. ASSUME NEW s \in Side, NEW c \in Calls,
             BeginPoll(s, c) \/ PollLoop(s, c) \/ SendFrame(s, c) \/ SendCredit(s, c)
      PROVE  Inv'
    BY <1>4, BeginPollKeeps, PollLoopKeeps, SendFrameKeeps, SendCreditKeeps
<1>5. ASSUME NEW s \in Side, NEW c \in Calls,
             AppSendItem(s, c) \/ AppCloseSend(s, c) \/ AppGrant(s, c) \/ AppCancel(s, c)
      PROVE  Inv'
    BY <1>5, AppSendItemKeeps, AppCloseSendKeeps, AppGrantKeeps, AppCancelKeeps
<1> QED
    BY <1>1, <1>2, <1>3, <1>4, <1>5 DEF Next, Poll, Send

-----------------------------------------------------------------------------
\* What the invariant says of the properties.

LEMMA InvTyped == Inv => TypeOK
<1> SUFFICES ASSUME Inv PROVE TypeOK
    OBVIOUS
<1>1. ASSUME NEW s \in Side PROVE CoreOK(core[s])
    <2>1. PICK k \in CoreType : k = core[s] /\ Polling(s, k)
        BY InvAt
    <2>2. /\ DOMAIN k.pending \subseteq Calls
          /\ \A c \in DOMAIN k.pending : k.pending[c] \in Waiting
        BY PendingInCalls
    <2>3. /\ DOMAIN k.inflight \subseteq Calls
          /\ \A c \in DOMAIN k.inflight : k.inflight[c] \in Running
        BY InflightInCalls
    <2>4. k.todo \subseteq DOMAIN k.inflight /\ k.cur \in DOMAIN k.inflight \cup {NoCall}
        BY <2>1 DEF Polling, Inflight
    <2>5. k.box \in Box /\ k.outcomes \in [Calls -> Seq(Outcome)] /\ k.next \in Nat
        BY DEF CoreType
    <2>6. k.box.queues \in [Calls -> Seq(Frame)] /\ k.box.credits \in [Calls -> Credits]
        BY <2>5 DEF Box
    <2> QED
        BY <2>1, <2>2, <2>3, <2>4, <2>5, <2>6 DEF CoreOK
<1>2. \A s \in Side : net[s] \in Seq(Frame)
    BY InvAt
<1>3. now \in 1..MaxTime
    BY DEF Inv
<1> QED
    BY <1>1, <1>2, <1>3 DEF TypeOK

LEMMA InvApart == Inv => SidesApart
<1> SUFFICES ASSUME Inv, NEW s \in Side
             PROVE  /\ \A c \in DOMAIN core[s].pending : Allocates(s, c)
                    /\ \A c \in DOMAIN core[s].inflight : ~Allocates(s, c)
    BY DEF SidesApart
<1>1. PICK k \in CoreType : k = core[s] /\ \A c \in Calls : CallOK(s, k, c, now)
    BY InvAt
<1>2. DOMAIN k.pending \subseteq Calls /\ DOMAIN k.inflight \subseteq Calls
    BY PendingInCalls, InflightInCalls
<1>3. ASSUME NEW c \in DOMAIN k.pending PROVE Allocates(s, c)
    BY <1>1, <1>2 DEF CallOK, Pending
<1>4. ASSUME NEW c \in DOMAIN k.inflight PROVE ~Allocates(s, c)
    BY <1>1, <1>2 DEF CallOK, Inflight
<1> QED
    BY <1>1, <1>3, <1>4

LEMMA InvStall == Inv => StallIsReal
<1> SUFFICES ASSUME Inv, NEW s \in Side, NEW c \in DOMAIN core[s].inflight,
                    core[s].inflight[c].fullSince # 0, FullFor(core[s].box, c)
             PROVE  core[s].leftAt[c] <= core[s].inflight[c].fullSince
    BY DEF StallIsReal
<1>1. PICK k \in CoreType : k = core[s] /\ \A d \in Calls : CallOK(s, k, d, now)
    BY InvAt
<1>2. c \in Calls
    BY <1>1, InflightInCalls
<1>3. Fresh(k, c)
    BY <1>1, <1>2 DEF CallOK, Inflight
<1>4. Len(Queue(k, c)) = MaxPerCall
    <2>1. Len(Queue(k, c)) >= MaxPerCall
        BY <1>1 DEF FullFor, Queue
    <2>2. Len(Queue(k, c)) \in Nat
        BY <1>2, OutcomesType
    <2> QED
        BY <1>3, <2>1, <2>2, QueueConstants DEF Fresh
<1> QED
    BY <1>1, <1>3, <1>4 DEF Fresh

LEMMA InvCompletes == Inv => CompletesOnce /\ ChainBalanced
<1> SUFFICES ASSUME Inv PROVE CompletesOnce /\ ChainBalanced
    OBVIOUS
<1>1. \A s \in Side, c \in Calls : Completed(core[s], c) /\ Unwound(core[s], c)
    BY InvAt DEF CallOK
<1>2. CompletesOnce
    BY <1>1 DEF CompletesOnce, Completed, Ends, Pending
<1>3. ChainBalanced
    BY <1>1 DEF ChainBalanced, Unwound, Pending, Inflight
<1> QED
    BY <1>2, <1>3

\* While both sessions live, seen from the caller.
LEMMA InvAlive ==
    ASSUME Inv, BothLive, NEW s \in Side, NEW c \in Calls, Allocates(s, c)
    PROVE  Alive(core[s], core[Peer(s)], net[Peer(s)], net[s], c)
<1>1. Linked(core[s], core[Peer(s)], net[Peer(s)], net[s], c)
    BY InvAt DEF Joined
<1>2. ~core[s].finished /\ ~core[Peer(s)].finished
    BY PeerSide DEF BothLive
<1> QED
    BY <1>1, <1>2 DEF Linked

LEMMA InvNoOrphan == Inv => NoOrphan
<1> SUFFICES ASSUME Inv, BothLive, NEW s \in Side, NEW c \in DOMAIN core[Peer(s)].inflight
             PROVE  c \in DOMAIN core[s].pending \/ Sent(s, c, {"CANCEL"})
    BY DEF NoOrphan
<1>1. PICK p \in Side : p = Peer(s)
    BY PeerSide
<1>2. c \in Calls /\ ~Allocates(p, c)
    BY <1>1, InvAt, InflightInCalls, InvApart DEF SidesApart
<1>3. Allocates(s, c)
    BY <1>1, <1>2, OneAllocates
<1>4. Pending(core[s], c) \/ CalledOff(core[s], net[Peer(s)], c)
    BY <1>2, <1>3, InvAlive DEF Alive, Inflight
<1> QED
    BY <1>4 DEF Pending, CalledOff, Has, Says, Queue, Cancels, Sent, InBox, InNet

LEMMA InvNoLostCall == Inv /\ RequestsKnown => NoLostCall
<1> SUFFICES ASSUME Inv, RequestsKnown, BothLive, NEW s \in Side, NEW c \in DOMAIN core[s].pending
             PROVE  \/ Sent(s, c, {"REQUEST"})
                    \/ c \in DOMAIN core[Peer(s)].inflight
                    \/ Sent(Peer(s), c, {"RESPONSE", "ERROR", "END"})
    BY DEF NoLostCall
<1>1. c \in Calls /\ Allocates(s, c)
    BY InvAt, PendingInCalls, InvApart DEF SidesApart
<1>2. \/ Unopened(core[s], net[Peer(s)], c)
      \/ Inflight(core[Peer(s)], c)
      \/ AnswerDue(core[Peer(s)], net[s], c)
    BY <1>1, InvAlive DEF Alive, Pending
<1>3. Peer(Peer(s)) = s
    BY DEF Side, Peer
<1>4. CASE Unopened(core[s], net[Peer(s)], c)
    BY <1>4 DEF Unopened, Has, Says, Queue, Requests, Sent, InBox, InNet
<1>5. CASE Inflight(core[Peer(s)], c)
    BY <1>5 DEF Inflight
<1>6. CASE AnswerDue(core[Peer(s)], net[s], c)
    BY <1>3, <1>6 DEF AnswerDue, Has, Says, Queue, LastKinds, Sent, InBox, InNet
<1> QED
    BY <1>2, <1>4, <1>5, <1>6

-----------------------------------------------------------------------------
\* The theorems.

LEMMA SpecInv == Spec => []Inv
BY InitInv, NextInv, PTL DEF Spec

(* Both endpoints of a session keep the shapes of their structs, whatever  *)
(* the applications, the handlers, the link and the clock do; the handlers *)
(* still to be polled are handlers that run, and an allowance that SendItem *)
(* or pollOne spends never goes below zero.                                *)
THEOREM LinkTyped == Spec => []TypeOK
BY SpecInv, InvTyped, PTL

(* nextCallId counts by two from a start of the side's own parity, and no  *)
(* frame the peer sends can open a call under an id of this side's parity: *)
(* so a call is pending at one side and inflight at the other, and onItem, *)
(* onEnd, onCredit and Grant never mistake one for the other.              *)
THEOREM SidesStayApart == Spec => []SidesApart
BY SpecInv, InvApart, PTL

(* pollOne gives up on a full queue ("the peer stopped consuming this      *)
(* call") by a clock that started after the last frame of that queue left: *)
(* a drain that makes room always stops the clock before it is read again. *)
THEOREM StallsAreReal == Spec => []StallIsReal
BY SpecInv, InvStall, PTL

(* Whichever of response, error, cancel, deadline and session end comes    *)
(* first, it settles the call, exactly once, and unwinds its interceptors  *)
(* exactly once; and while both sessions live, a handler whose caller has  *)
(* gone has a CANCEL on its way, which abandonPending queued behind, or in *)
(* place of, the REQUEST.                                                  *)
THEOREM CallsEnd == Spec => [](CompletesOnce /\ ChainBalanced /\ NoOrphan)
BY SpecInv, InvCompletes, InvNoOrphan, PTL

(* All of CallsKept, NoLostCall included: while both sessions live, a      *)
(* pending call's REQUEST, its handler or its terminating answer exists.   *)
(* The hypothesis leaves out the one REQUEST that is dropped without an    *)
(* answer: one whose ctx block is over the callee's ceiling and whose id   *)
(* the callee does not own (core.go:411-416).                              *)
THEOREM CallsAreKept ==
    ASSUME RequestsKnown
    PROVE  Spec => []CallsKept
<1>1. Inv => CallsKept
    BY InvCompletes, InvNoOrphan, InvNoLostCall DEF CallsKept
<1> QED
    BY <1>1, SpecInv, PTL
=============================================================================
