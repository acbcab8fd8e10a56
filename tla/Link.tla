--------------------------------- MODULE Link ---------------------------------
(***************************************************************************)
(* Two endpoints on one session: what the applications do, what the link   *)
(* delivers, what time and the handlers do.  The link is a FIFO in each    *)
(* direction (the fomoxa connection over TCP, not under src/): nothing is  *)
(* lost or reordered while both sessions live, and a session that ends may *)
(* take a suffix of what it sent with it.                                  *)
(*                                                                         *)
(* An endpoint is single-threaded.  A Tick or a message that polls         *)
(* handlers runs to its end before anything else happens on that side      *)
(* (Quiet), but takes one step per poll, since each poll is an answer of   *)
(* application code.                                                       *)
(***************************************************************************)
EXTENDS Core

CONSTANTS
    Openings,     \* side -> what it calls: request id, ctx, packing of the body
    Packings,     \* side -> packings of the bodies it sends: plain, squeezed, oversized
    Failures,     \* statuses application code refuses or fails with
    AppGrants,    \* <<n, items>>: who has granted n may grant items more (a bound as well)
    Enders,       \* the sides whose session may end by itself
    MaxItems,     \* bound: items per call and direction
    MaxInTransit, \* bound: frames the link holds in one direction
    MaxTime       \* bound: the clock stops here

Shapes == {"unary", "server_stream", "client_stream", "bidi_stream"}
Method == [shape : Shapes, item : STRING, reply : STRING, idle : Nat, served : BOOLEAN]
Packing == {"plain", "squeezed", "oversized"}
Ctx == [deadline : Nat, credit : 0..MaxU32, len : Nat]

ASSUME LinkConstants ==
    /\ \A s \in Side :
        /\ {Registry[s].void, Registry[s].error, Registry[s].credit} \subseteq STRING
        /\ \A r \in DOMAIN Registry[s].methods : r \in STRING /\ Registry[s].methods[r] \in Method
        /\ MaxCtxLen[s] \in Nat /\ Compressor[s] \in BOOLEAN
        /\ Openings[s] \subseteq [req : STRING, ctx : Ctx, packed : Packing]
        /\ Packings[s] \subseteq Packing
    /\ AppGrants \subseteq Nat \X Nat
    /\ {MaxPending, HandlerLimit, QueueFullLimit} \subseteq Nat
    /\ {MaxItems, MaxInTransit} \subseteq Nat /\ MaxTime \in Nat \ {0}

VARIABLES
    core,  \* side -> its Core
    net,   \* side -> the frames on their way to it
    now    \* the clock both sides read

vars == <<core, net, now>>

Statuses == {"OK", "CANCELLED", "DEADLINE_EXCEEDED", "UNIMPLEMENTED", "INVALID_ARGUMENT",
             "RESOURCE_EXHAUSTED", "UNAVAILABLE", "INTERNAL"} \cup Failures

Init ==
    /\ core = [s \in Side |-> NewCore(s)]
    /\ net = [s \in Side |-> <<>>]
    /\ now = 1

Become(s, k) == core' = [core EXCEPT ![s] = k]

\* Side s stands between two calls of its methods.
Free(s) == Quiet(core[s])

OnReady(s) ==
    /\ Free(s) /\ ~core[s].ready /\ ~core[s].finished
    /\ Become(s, [core[s] EXCEPT !.ready = TRUE])
    /\ UNCHANGED <<net, now>>

AppCall(s) ==
    /\ Free(s)
    /\ \E o \in Openings[s] :
        /\ CanCall(s, core[s], o.req)
        /\ CallFits(s, core[s], o.ctx)
        /\ Become(s, Call(s, core[s], o.req, o.ctx, o.packed, now))
    /\ UNCHANGED <<net, now>>

\* By an interceptor, or because the ctx or the queue has no room.
AppCallRefused(s) ==
    /\ Free(s)
    /\ \E o \in Openings[s] :
        /\ CanCall(s, core[s], o.req)
        /\ Failures # {} \/ ~CallFits(s, core[s], o.ctx)
    /\ Become(s, CallRefused(core[s]))
    /\ UNCHANGED <<net, now>>

AppSendItem(s, c) ==
    /\ Free(s) /\ CanSendItem(core[s], c)
    /\ core[s].put[c] < MaxItems
    /\ \E p \in Packings[s] : Become(s, SendItem(core[s], c, p))
    /\ UNCHANGED <<net, now>>

AppCloseSend(s, c) ==
    /\ Free(s) /\ CanCloseSend(core[s], c)
    /\ Become(s, CloseSend(s, core[s], c))
    /\ UNCHANGED <<net, now>>

\* What the application, or a handler, may grant call c now.
Grantable(k, c) == {g[2] : g \in {g \in AppGrants : g[1] = k.granted[c]}}

AppGrant(s, c) ==
    /\ Free(s) /\ CanGrant(s, core[s], c)
    /\ \E items \in Grantable(core[s], c) : Become(s, Grant(core[s], c, items))
    /\ UNCHANGED <<net, now>>

AppCancel(s, c) ==
    /\ Free(s) /\ c \in DOMAIN core[s].pending
    /\ Become(s, Cancel(s, core[s], c))
    /\ UNCHANGED <<net, now>>

\* Session.Close, a refusal or a disconnection.  What this side sent and the
\* peer has not read may be lost from some point on.
SessionEnd(s) ==
    /\ Free(s) /\ ~core[s].finished
    /\ s \in Enders \/ core[Peer(s)].finished
    /\ Become(s, OnSessionEnd(core[s]))
    /\ \E n \in 0..Len(net[Peer(s)]) :
        net' = [net EXCEPT ![s] = <<>>, ![Peer(s)] = SubSeq(@, 1, n)]
    /\ UNCHANGED now

\* A frame handed to the connection; a peer that has gone reads nothing.
Transmit(s, frame) ==
    /\ Len(net[Peer(s)]) < MaxInTransit
    /\ net' = IF core[Peer(s)].finished THEN net
              ELSE [net EXCEPT ![Peer(s)] = Append(@, frame)]

SendFrame(s, c) ==
    LET k == core[s]
    IN /\ Free(s) /\ k.box.queues[c] # <<>>
       /\ Transmit(s, Head(k.box.queues[c]))
       /\ Become(s, [k EXCEPT !.box = PopFrame(@, c), !.leftAt[c] = now])
       /\ UNCHANGED now

SendCredit(s, c) ==
    LET k == core[s]
    IN /\ Free(s) /\ c \in ReadyCredits(k.box)
       /\ Transmit(s, CreditFrame(s, c, k.box.credits[c]))
       /\ Become(s, [k EXCEPT !.box = PopCredit(@, c)])
       /\ UNCHANGED now

\* The connection reports its messages in order, after EventReady and before
\* EventDisconnected.
Deliver(s) ==
    /\ Free(s) /\ core[s].ready /\ net[s] # <<>>
    /\ \E answer \in {"OK"} \cup Failures :
        Become(s, OnMessage(s, core[s], Head(net[s]), now, answer))
    /\ net' = [net EXCEPT ![s] = Tail(@)]
    /\ UNCHANGED now

TickCore(s) ==
    /\ Free(s)
    /\ Become(s, Tick(s, core[s], now))
    /\ UNCHANGED <<net, now>>

\* pollOne(c), its start.
BeginPoll(s, c) ==
    LET k == core[s]
    IN /\ k.cur = NoCall /\ c \in k.todo /\ \A d \in k.todo : c <= d
       /\ \/ Become(s, StartPoll(s, k, c, 0))
          \/ \E items \in Grantable(k, c) : Asked(s, k, c) /\ Become(s, StartPoll(s, k, c, items))
          \/ \E status \in Failures :
                Asked(s, k, c) /\ Become(s, GrantRefused(s, k, c, status))
       /\ UNCHANGED <<net, now>>

\* One turn of the loop of pollOne(c).
PollLoop(s, c) ==
    LET k == core[s]
        free == Unstalled(k, c)
    IN /\ k.cur = c
       /\ \/ /\ ~HasRoom(k.box, c) /\ ~MayPoll(k, c)
             /\ Become(s, PollBlocked(s, k, c, now))
          \/ /\ HasRoom(k.box, c) /\ ~MayPoll(k, c)
             /\ Become(s, Polled(free))
          \/ /\ MayPoll(k, c)
             /\ \/ Become(s, Polled(free))
                \/ \E p \in Packings[s] : Become(s, PollRespond(s, free, c, p))
                \/ \E p \in Packings[s] :
                      k.put[c] < MaxItems /\ Become(s, PollItem(s, free, c, p))
                \/ Become(s, PollEnd(s, free, c))
                \/ \E status \in Failures : Become(s, PollFail(s, free, c, status))
       /\ UNCHANGED <<net, now>>

Advance ==
    /\ now < MaxTime
    /\ now' = now + 1
    /\ UNCHANGED <<core, net>>

Send(s) == \E c \in Calls : SendFrame(s, c) \/ SendCredit(s, c)
Poll(s) == \E c \in Calls : BeginPoll(s, c) \/ PollLoop(s, c)

Next ==
    \/ Advance
    \/ \E s \in Side :
        \/ OnReady(s) \/ SessionEnd(s) \/ Deliver(s) \/ TickCore(s)
        \/ AppCall(s) \/ AppCallRefused(s)
        \/ Poll(s) \/ Send(s)
        \/ \E c \in Calls :
            AppSendItem(s, c) \/ AppCloseSend(s, c) \/ AppGrant(s, c) \/ AppCancel(s, c)

Spec == Init /\ [][Next]_vars

\* Both event loops go round for ever (Client.Pump, Server.serve), and every
\* round reads, ticks, polls and drains (Session.Tick); a read or a drain has
\* to wait for a poll to end, hence SF.  The link makes progress, a session
\* completes its handshake or, when its peer has gone, is told so
\* (EventReady, EventDisconnected); time passes.
FairSpec ==
    /\ Spec
    /\ WF_vars(Advance)
    /\ \A s \in Side :
        /\ SF_vars(Deliver(s)) /\ SF_vars(TickCore(s)) /\ WF_vars(Poll(s)) /\ SF_vars(Send(s))
        /\ WF_vars(OnReady(s))
        /\ SF_vars(core[Peer(s)].finished /\ SessionEnd(s))

-----------------------------------------------------------------------------
\* Properties

Frame == [kind : Kinds \cup {"CREDIT"}, mid : STRING, call : Calls, n : Nat,
          status : Statuses, packed : Packing, ctx : Ctx]
Waiting == [m : Method, deadline : Nat, sendClosed : BOOLEAN, credit : 0..MaxU32,
            established : BOOLEAN]
Running == [m : Method, limit : Nat, lastHeard : Nat, inboundClosed : BOOLEAN,
            credit : 0..MaxU32, established : BOOLEAN, fullSince : Nat]
Outcome == [kind : {"response", "item", "end", "failed"}, n : Nat, status : Statuses]

CoreOK(k) ==
    /\ DOMAIN k.pending \subseteq Calls
    /\ \A c \in DOMAIN k.pending : k.pending[c] \in Waiting
    /\ DOMAIN k.inflight \subseteq Calls
    /\ \A c \in DOMAIN k.inflight : k.inflight[c] \in Running
    /\ k.box.queues \in [Calls -> Seq(Frame)]
    /\ k.box.credits \in [Calls -> Credits]
    /\ k.outcomes \in [Calls -> Seq(Outcome)]
    /\ k.todo \subseteq DOMAIN k.inflight
    /\ k.cur \in DOMAIN k.inflight \cup {NoCall}
    /\ k.next \in Nat

(* Every record, frame and outcome has the fields and ranges of its struct; *)
(* an allowance never goes below zero (SendItem and pollOne decrement it).  *)
TypeOK ==
    /\ \A s \in Side : CoreOK(core[s]) /\ net[s] \in Seq(Frame)
    /\ now \in 1..MaxTime

(* A call is pending on the side that allocates its id and inflight on the *)
(* other only, so no frame can be taken for one of the opposite direction  *)
(* (onItem, onEnd, onCredit and Grant look in inflight first).             *)
SidesApart ==
    \A s \in Side :
        /\ \A c \in DOMAIN core[s].pending : Allocates(s, c)
        /\ \A c \in DOMAIN core[s].inflight : ~Allocates(s, c)

(* Every accepted call has exactly one terminating outcome once it is no   *)
(* longer pending, none while it is, and nothing is reported after it:     *)
(* response, error, cancel, deadline and session end all race to settle it. *)
CompletesOnce ==
    \A s \in Side, c \in Calls :
        LET o == core[s].outcomes[c]
            ends == {i \in 1..Len(o) : Terminates(o[i])}
        IN ends = IF c \in core[s].issued \ DOMAIN core[s].pending THEN {Len(o)} ELSE {}

(* auth_test.go: the interceptors entered for a call are unwound exactly   *)
(* once, whichever way the call ends, and while it lives they are not.     *)
ChainBalanced ==
    \A s \in Side, c \in Calls :
        core[s].chain[c] =
            IF c \in DOMAIN core[s].pending \cup DOMAIN core[s].inflight THEN 1 ELSE 0

InBox(s, c, kinds) ==
    \E i \in 1..Len(core[s].box.queues[c]) : core[s].box.queues[c][i].kind \in kinds
\* On its way to s.
InNet(s, c, kinds) ==
    \E i \in 1..Len(net[s]) : net[s][i].call = c /\ net[s][i].kind \in kinds
Sent(s, c, kinds) == InBox(s, c, kinds) \/ InNet(Peer(s), c, kinds)
BothLive == \A s \in Side : ~core[s].finished

(* While both sessions live, a pending call is still going somewhere: its  *)
(* REQUEST, the running handler, or a terminating answer exists.  Without  *)
(* this a call without a deadline would hang for ever.                     *)
NoLostCall ==
    BothLive => \A s \in Side : \A c \in DOMAIN core[s].pending :
        \/ Sent(s, c, {"REQUEST"})
        \/ c \in DOMAIN core[Peer(s)].inflight
        \/ Sent(Peer(s), c, {"RESPONSE", "ERROR", "END"})

(* While both sessions live, a handler whose caller has gone has a CANCEL  *)
(* coming: abandonPending leaves no handler to run for nobody.             *)
NoOrphan ==
    BothLive => \A s \in Side : \A c \in DOMAIN core[Peer(s)].inflight :
        c \in DOMAIN core[s].pending \/ Sent(s, c, {"CANCEL"})

(* What a caller and a callee may rely on for every call: one completion,  *)
(* one unwinding, no call that nobody answers, no handler nobody waits for. *)
CallsKept == CompletesOnce /\ ChainBalanced /\ NoLostCall /\ NoOrphan

Counting(n) == [i \in 1..n |-> i]

(* A stream is delivered in order without gaps, in both directions, and    *)
(* whoever hears END has been given every item the other side produced:    *)
(* the i-th outcome of a call is its i-th item or the last outcome.        *)
StreamsWhole ==
    \A s \in Side : \A c \in core[s].issued :
        LET o == core[s].outcomes[c]
            peer == core[Peer(s)]
        IN /\ \A i \in 1..Len(o) : IF Terminates(o[i]) THEN i = Len(o) ELSE o[i].n = i
           /\ (o # <<>> /\ o[Len(o)].kind = "end") => Len(o) = peer.put[c] + 1
           /\ peer.got[c] = Counting(Len(peer.got[c]))
           /\ (c \in DOMAIN peer.inflight /\ CallerStreams(peer.inflight[c].m)
                /\ peer.inflight[c].inboundClosed) => Len(peer.got[c]) = core[s].put[c]

Amount(credit) == IF credit = NoCredit THEN 0 ELSE credit
\* Allowance for call c in frame f.
Carried(f, c) ==
    IF f.call # c THEN 0
    ELSE IF f.kind = "CREDIT" THEN f.n ELSE IF f.kind = "REQUEST" THEN f.ctx.credit ELSE 0
CarriedBy(frames, c) ==
    LET sum[i \in 0..Len(frames)] == IF i = 0 THEN 0 ELSE sum[i - 1] + Carried(frames[i], c)
    IN sum[Len(frames)]
\* What side g granted on c that has not reached its peer.
Underway(g, c) ==
    Amount(core[g].box.credits[c]) + CarriedBy(core[g].box.queues[c], c)
        + CarriedBy(net[Peer(g)], c)

(* While a call is live on both sides, every unit of allowance its receiver *)
(* granted is waiting, travelling, held by the sender or spent on one item: *)
(* none is lost or counted twice.  Only a sum that saturates loses some, and *)
(* then as much as a u32 can say is still there: no sum ever wraps.        *)
CreditConserved ==
    \A g \in Side, c \in Calls :
        LET p == core[Peer(g)]
            live == DOMAIN p.pending \cup DOMAIN p.inflight
            held == IF c \in DOMAIN p.inflight THEN p.inflight[c].credit ELSE p.pending[c].credit
            known == Underway(g, c) + held + p.metered[c]
        IN c \in live /\ c \in DOMAIN core[g].pending \cup DOMAIN core[g].inflight
            => known <= core[g].granted[c]
               /\ (known = core[g].granted[c] \/ known >= MaxU32)

(* "the peer stopped consuming this call" is said only of a call none of   *)
(* whose frames has left since its queue was found full: the clock of a    *)
(* full queue is never a stale one.                                        *)
StallIsReal ==
    \A s \in Side : \A c \in DOMAIN core[s].inflight :
        LET since == core[s].inflight[c].fullSince
        IN since # 0 /\ FullFor(core[s].box, c) => core[s].leftAt[c] <= since

\* The calls side s may open: pending there, inflight at its peer (SidesApart).
OwnCalls(s) == {c \in Calls : Allocates(s, c)}

(* A call with a deadline the clock reaches does not stay pending.         *)
DeadlineKept ==
    \A s \in Side : \A c \in OwnCalls(s) :
        (c \in DOMAIN core[s].pending /\ core[s].pending[c].deadline \in 1..MaxTime)
            ~> c \notin DOMAIN core[s].pending

(* A handler whose caller has gone is not left running.                    *)
OrphansReaped ==
    \A s \in Side : \A c \in OwnCalls(Peer(s)) :
        (c \in DOMAIN core[s].inflight /\ c \notin DOMAIN core[Peer(s)].pending)
            ~> c \notin DOMAIN core[s].inflight

(* A unary call completes although it has no deadline of its own: the      *)
(* callee's handler limit ends the handler and its ERROR comes back, or    *)
(* the session ends.  (A handler whose limit lies beyond the last tick of  *)
(* the model's clock is excepted.)                                         *)
UnaryCompletes ==
    \A s \in Side : \A c \in OwnCalls(s) :
        (c \in DOMAIN core[s].pending /\ core[s].pending[c].m.shape = "unary")
            ~> \/ c \notin DOMAIN core[s].pending
               \/ LET peer == core[Peer(s)]
                  IN c \in DOMAIN peer.inflight /\ peer.inflight[c].limit > MaxTime
=============================================================================
