--------------------------------- MODULE Core ---------------------------------
(***************************************************************************)
(* One endpoint: the calls it opened (pending), the calls it serves        *)
(* (inflight), its send queue and the outcomes it reported.  core.go is a  *)
(* struct without goroutines, clock or I/O, so an endpoint is a record k   *)
(* and every method of the source is an operator from records to records;  *)
(* Link makes them actions and connects two endpoints.                     *)
(*                                                                         *)
(* s is the side k belongs to.  Time 0 is the zero time.Time: no deadline. *)
(* The send queue is the abstract one of CallQueues, which Outbox          *)
(* implements.  An item's body is its number in its stream; the text of a  *)
(* status is left out, its code kept.                                      *)
(***************************************************************************)
EXTENDS CallQueues

CONSTANTS
    Registry,        \* side -> [void, error, credit, methods]
    MaxPending,      \* Config.MaxPending
    HandlerLimit,    \* Config.HandlerLimit
    QueueFullLimit,  \* Config.QueueFullLimit
    MaxCtxLen,       \* side -> Config.MaxCtxLen
    Compressor       \* side -> is a compressor installed

Side == {"client", "server"}
Peer(s) == IF s = "client" THEN "server" ELSE "client"

\* Role.Allocates
Allocates(s, c) == (c % 2 = 0) <=> (s = "client")

CallerStreams(m) == m.shape \in {"client_stream", "bidi_stream"}
CalleeStreams(m) == m.shape \in {"server_stream", "bidi_stream"}
Unsupported == "none"
HasCredit(s) == Registry[s].credit # Unsupported

\* Registry.Owns: the ids of the registry's system models and methods.
Owns(s, mid) ==
    \/ mid \in {Registry[s].void, Registry[s].error} \/ (HasCredit(s) /\ mid = Registry[s].credit)
    \/ \E r \in DOMAIN Registry[s].methods :
        LET m == Registry[s].methods[r]
        IN mid \in {r, m.reply} \/ (CallerStreams(m) /\ mid = m.item)

NoCall == -1
NoCtx == [deadline |-> 0, credit |-> 0, len |-> 0]

\* A frame: n is an item's number or a CREDIT's allowance.
MakeFrame(kind, mid, c) ==
    [kind |-> kind, mid |-> mid, call |-> c, n |-> 0, status |-> "OK",
     packed |-> "plain", ctx |-> NoCtx]
ControlFrame(s, c, kind) == MakeFrame(kind, Registry[s].void, c)
BodyFrame(kind, mid, c, n, packed) ==
    [MakeFrame(kind, mid, c) EXCEPT !.n = n, !.packed = packed]
ErrorFrame(s, c, status) ==
    [MakeFrame("ERROR", Registry[s].error, c) EXCEPT !.status = status]
CreditFrame(s, c, items) ==
    [MakeFrame("CREDIT", Registry[s].credit, c) EXCEPT !.n = items]

\* Go maps: pending and inflight are functions whose domain is their keys.
With(map, c, v) == [d \in DOMAIN map \cup {c} |-> IF d = c THEN v ELSE map[d]]
Minus(map, P) == [d \in DOMAIN map \ P |-> map[d]]

\* earlier: the zero time is later than all others.
Earlier(a, b) == IF a = 0 THEN b ELSE IF b = 0 THEN a ELSE IF b < a THEN b ELSE a
Due(t, now) == t # 0 /\ now >= t

\* running.nextExpiry; a unary call has no idle limit.
NextExpiry(r) ==
    Earlier(r.limit, IF r.m.shape = "unary" \/ r.m.idle = 0 THEN 0 ELSE r.lastHeard + r.m.idle)

\* running.starved
Starved(r) == r.established /\ r.credit = 0

\* Mutant: both sides allocate from call 0.
NewCore_SameParity(s) ==
    [ready |-> FALSE, finished |-> FALSE, next |-> 0,
     pending |-> [c \in {} |-> 0], inflight |-> [c \in {} |-> 0], box |-> EmptyBox,
     outcomes |-> [c \in Calls |-> <<>>], chain |-> [c \in Calls |-> 0],
     todo |-> {}, cur |-> NoCall,
     issued |-> {}, put |-> [c \in Calls |-> 0], metered |-> [c \in Calls |-> 0],
     granted |-> [c \in Calls |-> 0], got |-> [c \in Calls |-> <<>>],
     leftAt |-> [c \in Calls |-> 0]]

\* NewCore.  todo and cur are where a Tick or a message is in its polling of
\* handlers.  The last line is history: calls accepted, items queued, those
\* queued under an allowance, allowance granted, items given to the handler,
\* and when a frame of the call last left.
NewCore(s) ==
    [ready |-> FALSE, finished |-> FALSE, next |-> IF s = "client" THEN 0 ELSE 1,
     pending |-> [c \in {} |-> 0], inflight |-> [c \in {} |-> 0], box |-> EmptyBox,
     outcomes |-> [c \in Calls |-> <<>>], chain |-> [c \in Calls |-> 0],
     todo |-> {}, cur |-> NoCall,
     issued |-> {}, put |-> [c \in Calls |-> 0], metered |-> [c \in Calls |-> 0],
     granted |-> [c \in Calls |-> 0], got |-> [c \in Calls |-> <<>>],
     leftAt |-> [c \in Calls |-> 0]]

Quiet(k) == k.todo = {} /\ k.cur = NoCall

Response == [kind |-> "response", n |-> 0, status |-> "OK"]
ItemOutcome(n) == [kind |-> "item", n |-> n, status |-> "OK"]
EndOutcome == [kind |-> "end", n |-> 0, status |-> "OK"]
Failed(status) == [kind |-> "failed", n |-> 0, status |-> status]
Terminates(o) == o.kind # "item"

\* Chain.Outgoing or Chain.Inbound of call c.
Enter(chain, c) == [chain EXCEPT ![c] = @ + 1]
\* Chain.Outbound of the calls in P, once each.
Unwind(chain, P) == [c \in Calls |-> IF c \in P THEN chain[c] - 1 ELSE chain[c]]

\* PushTerminal of frames[c] for each call c that has one.
PushEach(box, frames) ==
    [box EXCEPT !.queues =
        [c \in Calls |-> IF c \in DOMAIN frames THEN Append(@[c], frames[c]) ELSE @[c]]]

-----------------------------------------------------------------------------
\* How a call ends, on either side.

\* Mutant: the record stays in pending.
SettlePending_RecordKept(k, P, outcome) ==
    LET Q == P \cap DOMAIN k.pending
    IN [k EXCEPT !.box = Discard(@, Q),
                 !.chain = Unwind(@, Q),
                 !.outcomes = [c \in Calls |->
                     IF c \in Q THEN Append(@[c], outcome) ELSE @[c]]]

SettlePending(k, P, outcome) ==
    LET Q == P \cap DOMAIN k.pending
    IN [k EXCEPT !.pending = Minus(@, Q),
                 !.box = Discard(@, Q),
                 !.chain = Unwind(@, Q),
                 !.outcomes = [c \in Calls |->
                     IF c \in Q THEN Append(@[c], outcome) ELSE @[c]]]

\* Mutant: the peer is not told that the caller has gone.
AbandonPending_Silent(s, k, P, status) == SettlePending(k, P, Failed(status))

\* A CANCEL follows only a REQUEST that has left.
AbandonPending(s, k, P, status) ==
    LET sent == {c \in P : ~OpensWithRequest(k.box, c)}
        settled == SettlePending(k, P, Failed(status))
        cancels == [c \in sent |-> ControlFrame(s, c, "CANCEL")]
    IN [settled EXCEPT !.box = PushEach(@, cancels)]

FinishInflight(s, k, P, status) ==
    LET errors == [c \in P |-> ErrorFrame(s, c, status)]
    IN [k EXCEPT !.inflight = Minus(@, P),
                 !.box = PushEach(Discard(@, P), errors),
                 !.chain = Unwind(@, P \cap DOMAIN k.inflight)]

FailCall(s, k, c, status) ==
    [k EXCEPT !.box = PushTerminal(@, c, ErrorFrame(s, c, status))]

\* Mutant: a frame that cannot be read is skipped.
FailReceived_Skipped(s, k, c, status) == k

FailReceived(s, k, c, status) ==
    IF c \in DOMAIN k.inflight THEN FinishInflight(s, k, {c}, status)
    ELSE IF c \in DOMAIN k.pending THEN AbandonPending(s, k, {c}, status)
    ELSE FailCall(s, k, c, status)

-----------------------------------------------------------------------------
\* What the application does.  An early return that leaves the core as it
\* was is not an action: the guards are the conditions of the full path.

CanCall(s, k, req) ==
    /\ k.ready
    /\ req \in DOMAIN Registry[s].methods
    /\ Cardinality(DOMAIN k.pending) < MaxPending
    /\ k.next \in Calls

\* Call, refused after Allocate by the chain, the ctx ceiling or the queue:
\* the chain entered is unwound and only the call id is used up.
CallRefused(k) ==
    [k EXCEPT !.next = @ + 2, !.chain = Unwind(Enter(@, k.next), {k.next})]

CallFits(s, k, ctx) == ctx.len <= MaxCtxLen[s] /\ HasRoom(k.box, k.next)

Call(s, k, req, ctx, packed, now) ==
    LET c == k.next
        request == [BodyFrame("REQUEST", req, c, 0, packed) EXCEPT !.ctx = ctx]
        record == [m |-> Registry[s].methods[req],
                   deadline |-> IF ctx.deadline = 0 THEN 0 ELSE now + ctx.deadline,
                   sendClosed |-> FALSE, credit |-> 0, established |-> FALSE]
    IN [k EXCEPT !.next = @ + 2,
                 !.box = PushTerminal(@, c, request),
                 !.pending = With(@, c, record),
                 !.chain = Enter(@, c),
                 !.issued = @ \cup {c},
                 !.granted[c] = ctx.credit]

CanSendItem(k, c) ==
    /\ c \in DOMAIN k.pending
    /\ CallerStreams(k.pending[c].m)
    /\ ~k.pending[c].sendClosed
    /\ ~Starved(k.pending[c])
    /\ HasRoom(k.box, c)

\* Counts an item queued on the call, for the history.
CountItem(k, c, r) ==
    [k EXCEPT !.put[c] = @ + 1, !.metered[c] = IF r.established THEN @ + 1 ELSE @]

\* Mutant: the allowance is not spent.
SendItem_Free(k, c, packed) ==
    LET r == k.pending[c]
    IN CountItem([k EXCEPT !.box = PushTerminal(@, c,
                               BodyFrame("ITEM", r.m.item, c, k.put[c] + 1, packed))], c, r)

SendItem(k, c, packed) ==
    LET r == k.pending[c]
        queued == [k EXCEPT !.box = PushTerminal(@, c,
                                BodyFrame("ITEM", r.m.item, c, k.put[c] + 1, packed)),
                            !.pending[c].credit = IF r.established THEN @ - 1 ELSE @]
    IN CountItem(queued, c, r)

CanCloseSend(k, c) ==
    /\ c \in DOMAIN k.pending
    /\ CallerStreams(k.pending[c].m)
    /\ ~k.pending[c].sendClosed
    /\ HasRoom(k.box, c)

\* Mutant: CloseSend does not close the caller direction.
CloseSend_StaysOpen(s, k, c) ==
    [k EXCEPT !.box = PushTerminal(@, c, ControlFrame(s, c, "END"))]

CloseSend(s, k, c) ==
    [k EXCEPT !.box = PushTerminal(@, c, ControlFrame(s, c, "END")),
              !.pending[c].sendClosed = TRUE]

CanGrant(s, k, c) ==
    /\ HasCredit(s)
    /\ IF c \in DOMAIN k.inflight THEN CallerStreams(k.inflight[c].m)
       ELSE c \in DOMAIN k.pending /\ CalleeStreams(k.pending[c].m)

Grant(k, c, items) ==
    [k EXCEPT !.box = GrantTo(@, c, items), !.granted[c] = @ + items]

Cancel(s, k, c) == AbandonPending(s, k, {c}, "CANCELLED")

\* Handlers are cancelled and every chain is unwound.
OnSessionEnd(k) ==
    [SettlePending(k, DOMAIN k.pending, Failed("UNAVAILABLE")) EXCEPT
        !.finished = TRUE, !.ready = FALSE, !.box = EmptyBox,
        !.inflight = Minus(@, DOMAIN @),
        !.chain = Unwind(@, DOMAIN k.inflight)]

-----------------------------------------------------------------------------
\* What a received frame does.  `answer` is what the application code run by
\* the frame answers: "OK", or the status an interceptor, a factory or a
\* handler refuses with (a panic is one, see guard).

\* inflate: the status of a body that cannot be read, or "OK".
Inflate(s, f) ==
    IF f.packed = "plain" THEN "OK"
    ELSE IF ~Compressor[s] THEN "INTERNAL"
    ELSE IF f.packed = "oversized" THEN "RESOURCE_EXHAUSTED" ELSE "OK"

\* Why onRequest refuses before any application code runs, or "OK".
RequestRefusal(s, k, f) ==
    IF Allocates(s, f.call) THEN "INVALID_ARGUMENT"
    ELSE IF f.mid \notin DOMAIN Registry[s].methods \/ ~Registry[s].methods[f.mid].served
         THEN "UNIMPLEMENTED"
    ELSE IF Cardinality(DOMAIN k.inflight) >= MaxPending THEN "RESOURCE_EXHAUSTED"
    ELSE "OK"

NewRunning(m, ctx, now) ==
    [m |-> m,
     limit |-> Earlier(IF ctx.deadline = 0 THEN 0 ELSE now + ctx.deadline,
                       IF m.shape = "unary" THEN now + HandlerLimit ELSE 0),
     lastHeard |-> now, inboundClosed |-> ~CallerStreams(m),
     credit |-> ctx.credit, established |-> ctx.credit # 0, fullSince |-> 0]

\* Mutant: a refused REQUEST leaves the chain entered.
RefuseRequest_Entered(s, k, c, status) ==
    FailCall(s, [k EXCEPT !.chain = Enter(@, c)], c, status)
\* A refusal after the chain was entered unwinds it before the ERROR.
RefuseRequest(s, k, c, status) ==
    FailCall(s, [k EXCEPT !.chain = Unwind(Enter(@, c), {c})], c, status)

\* Mutant: a REQUEST nothing serves is dropped without an answer.
OnRequest_NoAnswer(s, k, f, now, answer) ==
    IF ~Allocates(s, f.call) /\ f.call \in DOMAIN k.inflight THEN k
    ELSE IF RequestRefusal(s, k, f) # "OK" THEN k
    ELSE IF answer # "OK" THEN RefuseRequest(s, k, f.call, answer)
    ELSE IF Inflate(s, f) # "OK" THEN RefuseRequest(s, k, f.call, Inflate(s, f))
    ELSE [k EXCEPT !.inflight = With(@, f.call, NewRunning(Registry[s].methods[f.mid], f.ctx, now)),
                   !.chain = Enter(@, f.call),
                   !.todo = {f.call}]

OnRequest(s, k, f, now, answer) ==
    IF ~Allocates(s, f.call) /\ f.call \in DOMAIN k.inflight THEN k
    ELSE IF RequestRefusal(s, k, f) # "OK" THEN FailCall(s, k, f.call, RequestRefusal(s, k, f))
    ELSE IF answer # "OK" THEN RefuseRequest(s, k, f.call, answer)
    ELSE IF Inflate(s, f) # "OK" THEN RefuseRequest(s, k, f.call, Inflate(s, f))
    ELSE [k EXCEPT !.inflight = With(@, f.call, NewRunning(Registry[s].methods[f.mid], f.ctx, now)),
                   !.chain = Enter(@, f.call),
                   !.todo = {f.call}]

OnResponse(k, f) ==
    IF f.call \notin DOMAIN k.pending THEN k
    ELSE LET m == k.pending[f.call].m
         IN IF CalleeStreams(m) \/ f.mid # m.reply
            THEN SettlePending(k, {f.call}, Failed("INVALID_ARGUMENT"))
            ELSE SettlePending(k, {f.call}, Response)

OnError(s, k, f) ==
    SettlePending(k, {f.call},
                  Failed(IF f.mid = Registry[s].error THEN f.status ELSE "INVALID_ARGUMENT"))

\* onCallerItem: the handler takes the item, then is polled.
OnCallerItem(s, k, f, now, answer) ==
    LET c == f.call
        r == k.inflight[c]
        heard == [k EXCEPT !.inflight[c].lastHeard = now]
    IN IF ~CallerStreams(r.m) THEN FinishInflight(s, heard, {c}, "INVALID_ARGUMENT")
       ELSE IF r.inboundClosed THEN heard
       ELSE IF f.mid # r.m.item THEN FinishInflight(s, heard, {c}, "INVALID_ARGUMENT")
       ELSE IF answer # "OK" THEN FinishInflight(s, heard, {c}, answer)
       ELSE [heard EXCEPT !.got[c] = Append(@, f.n), !.todo = {c}]

OnItem(s, k, f, now, answer) ==
    LET c == f.call
    IN IF c \in DOMAIN k.inflight THEN OnCallerItem(s, k, f, now, answer)
       ELSE IF c \notin DOMAIN k.pending THEN k
       ELSE IF ~CalleeStreams(k.pending[c].m) \/ f.mid # k.pending[c].m.reply
            THEN AbandonPending(s, k, {c}, "INVALID_ARGUMENT")
       ELSE [k EXCEPT !.outcomes[c] = Append(@, ItemOutcome(f.n))]

OnCallerEnd(s, k, f, now, answer) ==
    LET c == f.call
        r == k.inflight[c]
        heard == [k EXCEPT !.inflight[c].lastHeard = now]
    IN IF f.mid # Registry[s].void \/ ~CallerStreams(r.m)
       THEN FinishInflight(s, heard, {c}, "INVALID_ARGUMENT")
       ELSE IF r.inboundClosed THEN heard
       ELSE IF answer # "OK" THEN FinishInflight(s, heard, {c}, answer)
       ELSE [heard EXCEPT !.inflight[c].inboundClosed = TRUE, !.todo = {c}]

OnEnd(s, k, f, now, answer) ==
    LET c == f.call
    IN IF c \in DOMAIN k.inflight THEN OnCallerEnd(s, k, f, now, answer)
       ELSE IF c \notin DOMAIN k.pending THEN k
       ELSE IF f.mid # Registry[s].void \/ ~CalleeStreams(k.pending[c].m)
            THEN AbandonPending(s, k, {c}, "INVALID_ARGUMENT")
       ELSE SettlePending(k, {c}, EndOutcome)

OnCancel(s, k, f) ==
    IF f.call \notin DOMAIN k.inflight THEN k
    ELSE FinishInflight(s, k, {f.call},
             IF f.mid = Registry[s].void THEN "CANCELLED" ELSE "INVALID_ARGUMENT")

OnCredit(s, k, f, now) ==
    LET c == f.call
    IN IF ~HasCredit(s) THEN k
       ELSE IF f.mid # Registry[s].credit
            THEN IF c \in DOMAIN k.inflight THEN FinishInflight(s, k, {c}, "INVALID_ARGUMENT")
                 ELSE IF c \in DOMAIN k.pending THEN AbandonPending(s, k, {c}, "INVALID_ARGUMENT")
                 ELSE k
       ELSE IF c \in DOMAIN k.inflight
            THEN [k EXCEPT !.inflight[c].lastHeard = now,
                           !.inflight[c].credit = SaturatingAdd(@, f.n),
                           !.inflight[c].established = TRUE]
       ELSE IF c \in DOMAIN k.pending
            THEN [k EXCEPT !.pending[c].credit = SaturatingAdd(@, f.n),
                           !.pending[c].established = TRUE]
       ELSE k

\* OnMessage, on a ready core and a frame that is not a plain message.
\* Between two endpoints of this package the only frame that does not decode
\* is a REQUEST whose ctx block is longer than the receiver's ceiling.
OnMessage(s, k, f, now, answer) ==
    IF f.ctx.len > MaxCtxLen[s]
    THEN IF Owns(s, f.mid) THEN FailReceived(s, k, f.call, "INTERNAL") ELSE k
    ELSE IF f.kind # "REQUEST" /\ Inflate(s, f) # "OK"
         THEN FailReceived(s, k, f.call, Inflate(s, f))
    ELSE CASE f.kind = "REQUEST"  -> OnRequest(s, k, f, now, answer)
           [] f.kind = "RESPONSE" -> OnResponse(k, f)
           [] f.kind = "ERROR"    -> OnError(s, k, f)
           [] f.kind = "ITEM"     -> OnItem(s, k, f, now, answer)
           [] f.kind = "END"      -> OnEnd(s, k, f, now, answer)
           [] f.kind = "CANCEL"   -> OnCancel(s, k, f)
           [] f.kind = "CREDIT"   -> OnCredit(s, k, f, now)

-----------------------------------------------------------------------------
\* Time, and the polling of handlers.

\* Mutant: pending calls do not expire.
ExpirePending_Kept(s, k, now) == k
ExpirePending(s, k, now) ==
    AbandonPending(s, k, {c \in DOMAIN k.pending : Due(k.pending[c].deadline, now)},
                   "DEADLINE_EXCEEDED")

\* Mutant: the limits of running handlers are not looked at.
ExpireInflight_Kept(s, k, now) == k
ExpireInflight(s, k, now) ==
    FinishInflight(s, k, {c \in DOMAIN k.inflight : Due(NextExpiry(k.inflight[c]), now)},
                   "DEADLINE_EXCEEDED")

\* After both expiries every call still running is due a poll.
Tick(s, k, now) ==
    LET expired == ExpireInflight(s, ExpirePending(s, k, now), now)
    IN [expired EXCEPT !.todo = DOMAIN expired.inflight]

\* The handler of c is asked for an allowance (collectGrant).
Asked(s, k, c) ==
    /\ HasCredit(s)
    /\ c \in DOMAIN k.inflight
    /\ CallerStreams(k.inflight[c].m)
    /\ ~k.inflight[c].inboundClosed

\* pollOne begins with collectGrant; calls are polled in ascending order.
StartPoll(s, k, c, items) ==
    LET polled == [k EXCEPT !.todo = @ \ {c}, !.cur = c]
    IN IF Asked(s, k, c) /\ items > 0 THEN Grant(polled, c, items) ELSE polled

Polled(k) == [k EXCEPT !.cur = NoCall]

\* Grant panicked: the call fails and there is nothing left to poll.
GrantRefused(s, k, c, status) == FinishInflight(s, [k EXCEPT !.todo = @ \ {c}], {c}, status)

\* Mutant: the handler is polled although the queue is full.
MayPoll_Always(k, c) == ~(CalleeStreams(k.inflight[c].m) /\ Starved(k.inflight[c]))

\* Mutant: a streaming handler is polled without allowance.
MayPoll_NoAllowance(k, c) == HasRoom(k.box, c)

MayPoll(k, c) ==
    /\ HasRoom(k.box, c)
    /\ ~(CalleeStreams(k.inflight[c].m) /\ Starved(k.inflight[c]))

\* Mutant: a moment of progress does not restart the clock of a full queue.
Unstalled_Kept(k, c) == k
Unstalled(k, c) == [k EXCEPT !.inflight[c].fullSince = 0]

\* The queue has no room.  Only a call whose own queue is full is timed.
PollBlocked(s, k, c, now) ==
    LET since == IF k.inflight[c].fullSince = 0 THEN now ELSE k.inflight[c].fullSince
        timed == [k EXCEPT !.inflight[c].fullSince = since]
    IN Polled(IF ~FullFor(k.box, c) THEN k
              ELSE IF now - since >= QueueFullLimit
                   THEN FinishInflight(s, timed, {c}, "RESOURCE_EXHAUSTED")
              ELSE timed)

\* The handler completed the call: its last frame and the unwinding.
Complete(k, c, last) ==
    Polled([k EXCEPT !.inflight = Minus(@, {c}),
                     !.box = PushTerminal(@, c, last),
                     !.chain = Unwind(@, {c})])

PollRespond(s, k, c, packed) ==
    LET m == k.inflight[c].m
    IN IF CalleeStreams(m) THEN Polled(FinishInflight(s, k, {c}, "INTERNAL"))
       ELSE Complete(k, c, BodyFrame("RESPONSE", m.reply, c, 0, packed))

\* Push's result is not looked at: MayPoll has seen the room.  The loop goes
\* on with the same handler after an item.
PollItem(s, k, c, packed) ==
    LET r == k.inflight[c]
        queued == [k EXCEPT !.box = Push(@, c,
                                BodyFrame("ITEM", r.m.reply, c, k.put[c] + 1, packed)),
                            !.inflight[c].credit = IF r.established THEN @ - 1 ELSE @]
    IN IF ~CalleeStreams(r.m) THEN Polled(FinishInflight(s, k, {c}, "INTERNAL"))
       ELSE CountItem(queued, c, r)

PollEnd(s, k, c) ==
    IF ~CalleeStreams(k.inflight[c].m) THEN Polled(FinishInflight(s, k, {c}, "INTERNAL"))
    ELSE Complete(k, c, ControlFrame(s, c, "END"))

PollFail(s, k, c, status) == Polled(FinishInflight(s, k, {c}, status))
=============================================================================
