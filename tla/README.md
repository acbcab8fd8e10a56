# A TLA+ model of frpc-go

frpc-go is an RPC layer over the Fomoxa message session: unary calls and
streams in both directions over one connection, with deadlines, cancellation
and credit-based flow control. This directory holds a model of it, the TLC runs
that check the model on small instances, and proofs, checked by TLAPS, of what
holds for every instance.

## 1. Inventory

| Part | Source | State | Operations | Talks to |
|---|---|---|---|---|
| Outbox | `outbox.go` | a FIFO per call, a waiting allowance per call, the turn list, a running total | Push, PushTerminal, Grant, Discard, Clear, Drain | called by Core; Drain calls the sink |
| Core | `core.go`, `handler.go` | pending (calls opened here), inflight (calls served here), outcomes, ready/finished | Call, SendItem, CloseSend, Grant, Cancel, OnReady, OnMessage, Tick, OnSessionEnd | Outbox, interceptors, handlers |
| Call ids | `call.go` | next id | Allocate | Core |
| Wire, ctx, status, bodies | `wire.go`, `ctx.go`, `status.go`, `model.go` | none | encode, decode | Core |
| Registry, reflection | `descriptor.go`, `reflection.go` | the builder; methods and message ids, fixed after Build | the builder's calls, Build, lookups | Core, Bind, Connect |
| Interceptors, identity | `interceptor.go`, `identity.go` | the chain, the session's identity | Add, Inbound, Outbound, Authenticate, ClearIdentity | Core, both ends of a call |
| Compression | `compression.go` | none | Compress, Decompress | Core |
| Retry | `retry.go` | attempt, budget | OnFailure | the application |
| Session | `rpcnet/session.go` | core, connection | Tick: events, Core.Tick, Drain; Wait; Close | Core, Fomoxa, transport |
| Transport | `rpcnet/transport.go`, `wait_unix.go` | backlog, closed, refused | Send, Receive, CloseSend, WaitReady | the socket |
| Client | `rpcnet/client.go` | backlog of outcomes | Connect, Invoke, Next, Collect, SendItem, ... | Session |
| Server | `rpcnet/server.go` | stopped, the listener, a WaitGroup, one goroutine per connection | Run, Stop, Wait | Session, the observer |
| Generated code | `examples/demo/generated` | none | a codec per model, the comparison of two schemas | Fomoxa, applications |

An endpoint is single-threaded: `Core` has no goroutine, clock or I/O; the only
shared memory is the server's flag, listener and WaitGroup. What is
hard lies between endpoints and across rounds: both ends act on one call at
once, frames cross, either clock may run out, either session may end, and the
queue is full at an awkward moment. What makes the parts correct:

* Outbox: per-call FIFO, exact bookkeeping of turns and total, a CREDIT not
  before its REQUEST, nobody starved.
* Core: every call completes exactly once; interceptors are unwound once; no
  call is lost, no handler runs for nobody; streams are whole and in order;
  allowances are conserved; a stall verdict is true; deadlines are kept.
* Client and Server: outcomes reach the caller in order and none is forgotten;
  blocking operations return; Wait covers every connection; Stop stops.
* Schema versions: both ends come to the same verdict, and after it a message
  means the same at both.
* Codecs: a cut is seen, a payload has one reading, the two readers agree.
* Registry: reflection lists what is served, with the ids dispatch uses.
* Admission: permissions never widen; entered links are unwound in reverse.
* Retry: what may have run is not repeated unless that is safe.

`PROJECT.json` lists the hazards at their lines with the properties aimed at
them.

## 2. Modules

| Module | Models | Role |
|---|---|---|
| `CallQueues` | the data of `outbox.go` | pure operators on a box of queues and allowances |
| `SendQueue` | what the core may rely on | abstract specification of an outbox |
| `Outbox` | `outbox.go` with its scheduler | implements `SendQueue` |
| `Core` | `core.go` | one endpoint as a record, every method an operator |
| `Link` | two cores, `Session.Tick`, the link, the clock | composes `Core` with itself over `CallQueues` |
| `Transport` | `rpcnet/transport.go`, `wait_unix.go`, the loop of `Session` | the byte level below a Drain, and the wait |
| `Server` | `rpcnet/server.go` | the accept loop, connection goroutines, Stop, Wait |
| `Keys` | `sortedKeys` of `core.go` | a map gone through in the order of its keys (`Client`, `Handshake`) |
| `Client` | `rpcnet/client.go` | the blocking client over one session |
| `Shell` | | composes `Server` and `Client` |
| `Codec` | `model.go`, `ctx.go`, `status.go`, generated `runtime.go` and codecs | both readers as functions of bytes and cursor |
| `Wire` | `wire.go` | Encode and Decode of a payload |
| `Handshake` | generated `handshake.go` | the comparison of two schemas |
| `Exchange` | | composes `Wire`, `Codec` and `Handshake`: two versions talk |
| `Registry` | `descriptor.go`, `reflection.go` | descriptors, builder, Build, the reflection answer |
| `Admission` | `interceptor.go`, `identity.go` | chain, authorization, onward ctx |
| `CallIds` | `call.go` | the allocator over a small word |
| `Retry` | `retry.go` | the retry decision |
| `Service` | the callers of these in `core.go` | composes `Registry`, `Admission`, `CallIds` and `Retry` |
| `MCOutbox`, `MCLink`, `MCTransport`, `MCShell`, `MCExchange`, `MCService` | | instances for TLC |
| `OutboxProofs` | | theorems about `Outbox` |
| `TransportProofs` | | theorems about `Transport` |
| `ShellProofs` | | theorems about the server and the client of `Shell` |
| `CoreProofs` | | what each operator of `Core` does to one endpoint, and the theorems about the calls of `Link` |
| `FlowProofs` | | theorems about the streams and allowances of `Link`, from `CoreProofs` |
| `Recursion` | | induction, recursion, folds and sorted keys, as first-order lemmas; what `Codec` writes and reads |
| `ServiceProofs` | | theorems about `Service`, and lemmas about `Registry` |
| `ExchangeProofs` | | theorems about `Exchange`, and lemmas about `Wire` and `Handshake` |

**CallQueues.** The Go maps are total functions, `<<>>` and `NoCredit` standing
for a missing key. Every reader of the maps treats a missing and an empty queue
alike, so this loses nothing.

**Outbox.** Drain is one call in the source, but the sink decides about every
frame, so it is a sequence of steps during which nothing else is enabled
(`drain.phase`). The sink takes `budget` frames and refuses from then on;
`Refills` lets it have room again for the late credits. A frame is its kind and
its payload length, the only things the scheduler looks at. `stage` and `opened`
are history: they say how the core uses the outbox for its own calls (a REQUEST
first and once, nothing but a CANCEL after it settled), which `CreditAfterRequest`
needs.

**Core.** `k` holds `pending`, `inflight`, the send queue, `ready`, `finished`,
the next id and the outcomes. `chain[c]` counts the entries of interceptors less
their unwindings. `todo` and `cur` say where a Tick or a message is in its loop
over handlers. The rest is history for the properties. Early returns that leave
the core as it was are not actions; refusals that change something are
(`CallRefused` uses up an id). A refusal behind the chain, here or in `onRequest`, enters
it and unwinds it (`Enter`, `Unwind`). Functions of the source that act on one call act
here on a set of calls where the source loops over them without anything
happening in between (`expirePending`, `expireInflight`, `OnSessionEnd`).

**Link.** A side takes a step only between two calls of its methods, except
that the handlers' answers inside a poll are steps of their own. The link is a
FIFO per direction. A session that ends may take a suffix of what it sent with
it, and what is on its way to it is gone. Application code (handlers, factories,
interceptors, granters) may answer anything at any time: the statuses of
`Failures`, a panic included, since `guard` turns it into one.

**Transport.** `t` is the SocketTransport, `net` the socket: every byte the kernel
took (`wire`), how many of them it still holds, and what the peer did. The kernel
takes any part of a write that fits. `loop.at` walks through one round: the
application, Receive, the core, Drain, the plan, the wait. Queued frames are
offered in any order, as in `SendQueue`; after a refusal Drain may offer another,
the late credits. `owed` is history: the bytes of all accepted frames. Fomoxa's
`Conn` lies in between and is external: it is taken to pass each frame to Send
once. `err` is only reported and left out; EINTR is left out as a reason to take
nothing.

**Server, Client, Shell.** A goroutine's steps are cut where it touches what another
one sees: `Run` at the loop test, the accept, the second test of `stopped`, and
`connections.Add` with the start of the goroutine; `serve` at each Tick with its
report, at Close, and at `Done`. `waiter` holds the caller of Wait and, as history,
the connections that were served when it called. The client is one goroutine:
`cl.at` is the operation its caller is in, and every operation is a loop over
Wait and Pump. An outcome is the n-th one of its call; `given` and `made` are
history. `Shell` gives the server one peer that is the client; the handshake's
verdict and the server's answers are external and free.

**Codec, Wire, Handshake, Exchange.** Bytes are numbers, a u32 is `WordLen` bytes,
a model is the list of its field types, and a decoder folds over it exactly as
the generated ones go field by field. `Reader` and `BodyReader` are modelled
apart, cursor and error behaviour included, because they differ there. A
fingerprint of k fields is the k fields: hashes are taken to be free of
collisions. UTF-8 validity is told by bytes below 128. In `Exchange` both ends
get any pair of versions; a payload may lose any number of its last bytes, which
TCP does not do but a broken peer may, and which is what the readers guard
against.

**Registry, Admission, CallIds, Retry, Service.** Pure operators on records, and a
state machine that lets them meet: builder calls in any order, Build, Start, then
calls with retries against a callee whose chain and identity change, over
sessions that end. A message goes over in one step, since `Link` is about what
happens to it on its way. `ins` and `outs` record which links a call entered and
which heard of its end. `setup` is chosen once, in `Init`, and says what the
application may do in this behaviour, so that one run covers several cases. The
application waits until `RetryAt` or longer; an answer of RESOURCE_EXHAUSTED by a
handler and one by the ceiling on a response are the same step.

Abstractions in `Core` and `Link`: one clock for both ends, 0 for Go's zero time; an item's body is
its number in its stream; status texts, logging and the byte layout are left
out; a compressed body is one of three packings, by what `inflate` makes of it;
ERROR bodies are plain. The endpoints use the abstract queue, not the scheduler:
that is sound because `Outbox` implements `SendQueue` (run `outbox`, theorem
`Refinement`), and it makes the results independent of the order in which calls
take turns. Frames received before the session is ready and plain messages are
not modelled: Fomoxa reports messages only after EventReady.

## 3. Runs

| Run | What it shows |
|---|---|
| `outbox` | bookkeeping, order of CREDIT and REQUEST, nobody overtaken, refinement of `SendQueue` |
| `outbox_fair` | a queued REQUEST leaves although another call is refilled for ever, if every Drain can take a credit and a quantum of each call |
| `outbox_slow_link` | the boundary of that: with one quantum per Drain it never leaves (a finding) |
| `streams` | a call of any streaming shape: types, `CallsKept`, whole streams, conserved allowances (sums that fit and sums that saturate), with refusing handlers and granters, cancels and session ends |
| `duplex` | `CallsKept` and the two directions apart: unary calls both ways, every party refusing, the pending ceiling at 1, bodies the peer cannot unpack, either session ending with calls in both directions |
| `clock` | `CallsKept` under deadlines, handler, idle and full-queue limits racing answers, cancels and the server's end; a stall is reported only of a queue that did not move; liveness: deadlines kept, unary calls complete, abandoned handlers stopped |
| `skew` | `CallsKept` and whole streams between two versions of one schema at the two ends, system models with other ids, bodies over the receiver's ceiling |
| `transport` | framing: the wire and the backlog are the accepted frames, whole and in order, at most one frame's rest is held; no lost wake-up: what is held back goes as soon as the peer reads, without the time limit |
| `transport_idle` | an idle connection that does not sleep (a finding) |
| `shell` | a client and its server: what the observer hears, what Wait covers, the order of outcomes, no outcome forgotten; liveness: Stop stops everything, a peer that left is let go, Connect and blocking operations return |
| `exchange` | the verdict is the prefix test and both ends agree; shared fields arrive; cuts are seen; payloads have one reading and a ctx within the ceiling; the two readers agree |
| `service` | a truthful reflection, permissions never wider than any link of the chain allows, links unwound in reverse, onward calls in time, unsafe methods not repeated, attempts and budgets kept, call ids apart and refused only when full |

`CallsKept` is the conjunction of `CompletesOnce`, `ChainBalanced`, `NoLostCall` and
`NoOrphan`, what a caller and a callee rely on for every call; its mutants in the
four runs break one part each. The type invariants of `Outbox` and `Link` are
checked because they bound counters (`total`, an allowance) that the code
decrements.

**Bounds.** Queues of one to three frames and a connection ceiling of one to
four reach both ceilings, separately and together. In `streams` a call
opens with an allowance of 0 or 1, whoever has granted nothing may grant 0 any number of
times or 2, and whoever has granted 1 may grant 2 more (`AppGrants`): under a `MaxU32` of 2
a grant of 2 arrives whole, and on top of a 1 that is still there it saturates.
One call is enough for the properties of a call because calls meet only in the
connection ceiling, the pending ceiling and the turn list: those have runs with
several (`outbox`, `duplex`). Two items and two units of allowance
exceed a queue and cross the switch from unbounded to metered in both orders. Two
frames in transit let frames cross and a session end lose one of two. The clock
runs to 3 with limits of 1 and 2, so each limit can fall before, with or after
the other and the answer. Frames of one and three bytes over a kernel buffer of
two are accepted whole, in part and not at all.

`shell`: one peer is enough for the WaitGroup, because connections share nothing
but its count and the flag, and each can meet Stop and Wait at every point; two
calls let outcomes of one be kept while the other is asked for. `exchange`: field
lists of up to two fields over three types contain every relation of two lists
(equal, prefix, conflict at each place); two-byte words tell byte order and a
length of which only half is there. `exchange` also has ctx blocks of exactly the
ceiling and one byte more. `service`: two links out of six (four that authorize, under two verifiers
that disagree about the same tokens, under one that knows none, with and without delegation or an
exemption) give every order of entry, narrowing and rejection; three attempts with waits of 1 and 2
meet a budget of 4 before, at and after it; two call ids for three calls reach
the wrap, the skip and the refusal.

Deadlock checking is on in the runs of `Outbox`, `Link` and `Transport`, whose
loops go round for ever. It is off in `shell`, where everything may have stopped
and returned, and in `exchange` and `service`, whose scripts end.

**Fairness.** `Outbox!FairSpec`: Session.Tick calls Drain every round, and Drain
does not stop half-way. `Link!FairSpec`: Client.Pump and Server.serve go round
for ever; a round reads, ticks, polls and drains. Reading, ticking and sending
get strong fairness because a side that is polling its handlers is not free for
them in between; polling and the clock get weak fairness. A session whose peer
has gone learns of it (Fomoxa's EventDisconnected, external). Applications and
handlers get none: nothing relies on a handler answering. `UnaryCompletes` makes
an exception for a handler whose limit lies beyond the last tick of the clock.

`Shell!Fairness`: goroutines run (weak fairness for `Run`, for every connection's
`serve`, for Stop once called, for Wait once the count is zero, and for the loop of
a blocking client operation), and time passes. A tick of a connection that need not
change anything gets fairness only when its peer has left, which it then sees.
Nobody has to dial, call, answer, stop or leave.

`Transport!FairSpec`: the loop goes round and the peer reads; the time
limit of the wait gets no fairness, so nothing is shown with its help.

**Findings.** `drainFrames` sends the call the sink has just refused to the end of
the turns, although it has not had its turn. On a link with room for one quantum
per Drain, two calls then change places twice per Drain and the same one is
served each time. Run `outbox_slow_link` shows a REQUEST that never leaves
while another stream is refilled, where `queue_test.go:32` says "the small
REQUEST waited for a few frames, not for the stream" (its sink takes
everything). `rpcnet/transport.go:59-87` is such a sink: a write taken in part
is accepted, and the next is refused until the backlog has gone.

`SocketTransport.refused` is cleared only by a later accepted Send. If the refused
frame is withdrawn instead (its call expires or is cancelled before the REQUEST
left, so that no CANCEL follows either), Backlogged stays true with nothing to
send, and the writable socket wakes the wait at once in every round, where
`README.md:61` of the repository says "an idle connection wakes about four times
a second". Run `transport_idle` shows the loop. With Backlogged reduced to the
backlog, `IdleSleeps` and `HeldBackGoes` both hold: Plan adds HasUnsentFrames by
itself.

Each property of a passing run has a mutant: a named variant of a definition
that a plausible slip in the code would amount to, under which TLC finds the
property violated.

## 4. Proofs

What is proved holds for every value of the constants that satisfies the named
assumptions of the modules (`QueueConstants`, `OutboxConstants`,
`TransportConstants`, `ServerConstants`, `ShellConstants`, `LinkConstants`,
`WordLenPositive`, `ExchangeConstants`, `RegistryConstants`, `ServiceConstants`,
`IdSpaceEven`). They say that ceilings are naturals, that the set of calls is finite and so on; TLC
evaluates each of them in the runs. `EmptyString` only tells the prover, which knows
no string, that `""` is one. TLC checked every inductive invariant below on
the instances of the runs before it was proved.

| Theorem | Property | Says |
|---|---|---|
| `OutboxProofs!TypeCorrect` | `TypeOK` | the outbox keeps its types |
| `OutboxProofs!TotalCorrect` | `TotalExact` | the running total is exact |
| `OutboxProofs!TurnsCorrect` | `TurnsExact` | one turn for every call with frames, no other |
| `OutboxProofs!CreditOrder` | `CreditAfterRequest` | no CREDIT before its REQUEST |
| `OutboxProofs!FairTurns` | `NeverOvertaken` | no step moves a waiting call back |
| `OutboxProofs!Refinement` | `ImplementsSendQueue` | `Outbox` implements `SendQueue` |
| `TransportProofs!TransportTyped` | | shapes of transport and socket |
| `TransportProofs!StreamIsFrames` | `FramesWhole` | frames on the stream are whole and in order |
| `ShellProofs!ObserverIsTold` | `ObserverContract` | Opened first, Closed last, each call once |
| `ShellProofs!WaitIsCovered` | `WaitCovers` | Wait waits for what it was called for |
| `ShellProofs!OutcomesComeInOrder` | `InOrder` | the application gets every outcome of a call once and in order |
| `ShellProofs!EndsAreReal` | `EndIsReal` | "no further outcome" is said of calls whose outcomes were all returned |
| `CoreProofs!LinkTyped` | `TypeOK` | shapes of both endpoints and the link |
| `CoreProofs!SidesStayApart` | `SidesApart` | no call is taken for one of the other direction |
| `CoreProofs!StallsAreReal` | `StallIsReal` | a full queue's clock is never stale |
| `CoreProofs!CallsEnd` | | one completion, one unwinding, no orphan |
| `CoreProofs!CallsAreKept` | `CallsKept` | `CallsEnd`, and no call is lost |
| `FlowProofs!StreamsAreWhole` | `StreamsWhole` | a stream arrives in order and without gaps, END last |
| `FlowProofs!CreditIsBounded` | | a sender never has more allowance than it was granted |
| `FlowProofs!CreditIsConserved` | `CreditConserved` | and none is lost: what is known of is what was granted, unless a sum saturated |
| `ExchangeProofs!VerdictsAreRight` | `VerdictIsPrefixTest` | the handshake decides what the shared fields say |
| `ExchangeProofs!SharedFieldsArriveWhole` | `SharedFieldsArrive` | after it, what both versions have arrives |
| `ExchangeProofs!CutsAreSeen` | `CutIsSeen` | a cut payload never yields a value nobody sent |
| `ExchangeProofs!FramesAreCanonical` | `FrameCanonical` | a payload has one reading, its ctx within the ceiling |
| `ExchangeProofs!ReadersAgree` | `TwinsAgree` | written by hand or generated, a reader finds the same |
| `ServiceProofs!ReflectionTells` | `ReflectionTrue` | the answer of reflection, read by the generated decoder, is what is served |
| `ServiceProofs!HandlersStayNarrow` | `NeverWider` | no handler runs that a link would not let run; it has what the last one allows |
| `ServiceProofs!ChainsUnwind` | `ChainUnwound` | links entered are unwound once, last first |
| `ServiceProofs!OnwardCallsEndInTime` | `OnwardInTime` | an onward call ends with its call |
| `ServiceProofs!RepeatsStayAllowed` | `RepeatsAllowed` | a method runs again only where allowed |
| `ServiceProofs!IdsStayRight` | `IdsRight` | ids are distinct, and refused only when all are taken |

**Outbox.** The inductive invariant is

    IInv == TypeOK /\ TotalExact /\ TurnsExact /\ TodoReady /\ RequestFirst
            /\ CreditAfterRequest

* `TypeOK` is not inductive by itself: Discard and a sent frame subtract from
  `total`, which stays a natural number only because it equals the number of
  queued frames (`TotalExact`). That argument is about the set `Slots` of occupied
  places: a push adds one (`SlotsAppend`), a send removes one (`SlotsTail`), a
  discard removes as many as the queue is long (`SlotsDrop`).
* `TurnsExact` rests on what Append, Tail and removal do to the elements of a
  list without duplicates (`AppendElements`, `TailElements`, `WithoutElements`).
* `CreditAfterRequest` needs `RequestFirst` (the REQUEST of a pending call heads
  its queue or has left, and only a pending call holds an allowance) and
  `TodoReady` (what Drain listed as ready stays ready until it is handed over).

For `Refinement`, each push, grant and discard, and each frame or allowance taken,
is the same step of `SendQueue` (the test for room is the same because the total is
exact), and every other step of Drain hands nothing over.

**Transport.** `IInv` is `TypeOK` with `Whole`: all bytes of the backlog are of one
frame, the stream is a prefix of what was accepted and, until Close, what was
accepted is the stream followed by the backlog. This is about an
arbitrary transport, socket and record, so that one lemma covers a Send, a
pushBacklog and the Send after it; the rest is how a sequence is cut and put
together again (`Cut`).

**Server.** `SInv` adds to the two properties the shapes of the records, `Handing`
(who holds a connection between the accept and the start of its goroutine) and
`Covering` (the connections Wait was called for have all been started, and a Run
that had returned does not come back). `WaitCovers` without it is not inductive:
between the accept and the start the count has not risen yet. `ObserverContract` quantifies over the log; `Heard` is the
same said of what a step appends. The client's steps leave the server's variables
alone, except the one that dials.

**Client.** `ClientInv` is about one record, whatever the operation is doing with it. `Fine`
says of every call that what was given is `1..g` and that backlog and core hold
exactly `g + 1..made` of it, ascending (`Following`); that a call the caller was told
has ended is over and has been returned in full, or the client was closed
(`Truthful`); and that outcomes stay in the core between two steps only after a
Close, since every Pump empties it. `EndIsReal` alone is not inductive: an outcome
that arrives after NoFurther would break it, and what excludes that is that the call
is no longer pending and only a pending call produces outcomes. One lemma per
operator carries `Honest`, the part that holds even inside an operation, through the
events of a read, the end of the session and the deadlines (`PumpHonest`); `AbandonAll`
needs that the sorted keys of a map exist (`SortedKeysType`), and `TakeOutcome` that
the first outcome of a call in the backlog is the lowest (`FollowingTaken`).

**Link.** `CoreProofs` reduces each method of the core, whatever it does inside, to
one of ten relations between the endpoint before and after, per call: it goes on
(`Kept`), is `Opened`, has a frame `Queued`, is `Answered`, `Abandoned`, `Finished`,
`Refused` or `Started`, loses its first frame to the link (`Popped`), or is
`Dropped` with its session. The invariant `Inv` says per call

* `CallOK`, of one endpoint: what is pending was issued by this side under an id of
  its parity below `next`; what is inflight is of the other parity; the queue holds
  only frames of its call that this side may send; outcomes and interceptors are as
  `CompletesOnce` and `ChainBalanced` say; and `Fresh`, that a queue under a running
  clock is not longer than the ceiling and, if full, has let nothing go since;
* `Linked`, of both ends and the link: a REQUEST is the first frame of its call
  wherever it is; while it has not been read the callee is silent (no handler,
  nothing queued, nothing on its way back); once a terminating frame exists there is
  no handler; and while both sessions live the call is `Alive`: pending means
  REQUEST, handler or answer, and a handler or a REQUEST on the link means pending
  or a CANCEL behind it.

`NoLostCall` and `NoOrphan` are not inductive without `Linked`: a CANCEL in place of an
unsent REQUEST, a second REQUEST under the same id, or an ERROR behind an ERROR
would each break them, and what excludes those is where frames of one call can be.
There is one lemma per action, built on `LocalStep` (a side does something
by itself), `TransmitStep` (a frame leaves) and `DeliverKeeps` (a frame is read).

`CallsAreKept` has a hypothesis, `RequestsKnown`: every request a side opens is
either in the callee's registry or small enough in ctx for it. Without it the claim
is false, and rightly so: `core.go:411-416` drops a frame with an oversized ctx
unless it opens a call the callee owns, so a REQUEST with an id the callee
does not know *and* a ctx over its ceiling gets no answer at all. All runs that
check `CallsKept` satisfy it. No other theorem needs it.

**Flow.** `StreamsWhole` and `CreditConserved` count frames, so `FlowProofs` says what
the frames in a queue or on the link amount to, as folds: `Carried`, the allowance
they bring, and `Reach`, how far they take a reader who has heard `v` items (to
`Broken` if one is out of turn, to a negative number that remembers the count after
an END). A frame appended, taken from the front or moved from the queue to the link
changes either fold in the obvious way, once for all queues. `FlowInv` adds to `Inv`
that a finished endpoint has nothing left (`Rest`), that a side without the CREDIT
message sends none (`Licensed`), and per call

* `Past`: the histories of a call nobody has taken up are empty, and a caller that has
  read an END of its callee has read everything before it;
* `Owed` and `Square`: before the REQUEST is read and while the call lives on both sides,
  box, queue, link, holder and what was spent add up to what was granted;
* `Down` and `Up`: while the writer may go on, reading everything on its way would take
  the reader to exactly what was put (`Said`, with an END if there was one);
  afterwards to some beginning of it, with an END only at the end (`Sound`).

Neither property is inductive without these, for both speak only of what has been
read. Each method of the core is reduced to what it does to the books (`put`,
`metered`, `granted`, `got`) and to the terms of a call in
`CoreProofs`, and each such effect keeps `Flow` by one lemma of `FlowProofs`.

`CreditIsConserved` has the hypothesis `CreditsShared`: both registries know the CREDIT
message or neither does. `onCredit` compares a frame's id with the one in its own
registry, so an endpoint without it drops a peer's CREDIT, and the allowance in it is
lost. What holds without the hypothesis, and after the 32-bit sum has
saturated, is `CreditBounded`: nobody spends what was not granted. The runs that check
`CreditConserved` satisfy the hypothesis.

**Service.** `Inv` has a part for the application (`Configured`: what is served is what
Build made of an acceptable builder), one for the session (`Serving`), `Apart` (open
calls have different ids) and, per call, `Sound`:

* `Repeats` ties runs to attempts by where the call stands. `RepeatsAllowed` is not
  inductive: a call that is ready again must have run *less* often than it has
  attempts, and an unsafe one no more often than RESOURCE_EXHAUSTED was answered,
  or the next run would be one too many.
* `Unwinding` says that a running call has entered the first links of the chain as
  it is now, which a chain that grows keeps true (`SoundWithMore`).
* `Running` says that each authorization link among them has `Cleared` the context, by
  its own verifier, and that the last of them had the last word (`LastWord`).
  `InboundEffect` gets that from the chain by induction on its length; the step is
  `ClearedAgain`: what a link decides depends on the call and on its own verifier alone,
  so no later link changes it. A later link does change the permissions: each starts from the
  session again (`interceptor.go:142`), and `LastWordMoves` follows what is left.

`ReflectionTrue` is about a writer written by hand and a reader the schema generates,
over any number of methods with names of any length; what it needs of `Codec` is in
`Recursion`. `ValueOfWord` is the u32: the
remainders the writer puts down are put together again from the last to the first.
`Holds` says that a part lies in the buffer behind a place; from it `HoldsField` gets one
field back, `DecodeEffect` a model, `MethodsDecoded` the list and `AnswerDecoded` the
answer, each by induction on how many the reader has gone through, and each saying
where the cursor stands after it, since that is where the next one is looked for.
`FlattenEffect` and `HoldsEach` take the writer apart the same way. `ServedEffect` is that
the sorted places of the served entries are each listed once. This needs what the
types of the Go code do not all enforce: ids and lengths fit a u32 (`U32`, `Bytes`), the
number of methods does (`RegistryConstants`), and the name of a method is valid UTF-8
(`Text`), which the reader checks and the writer does not.

`IdsRight` rests on arithmetic of the round: every candidate is of the caller's
parity (`CandidateType`), a round reaches every id (`RoundIsWhole`), and there are
half as many as the space is large (`IdsCount`). `ServiceConstants` asks for policies
that make at least one attempt; both policies of `retry.go` do.

**Exchange.** `Asked` is about the handshake: `VerdictIsPrefixTest` with, where an end
still needs more, that it has refused nothing (`NoneRefused`), for its verdict after the
prefix round is about all messages and only the answers are looked at then.
`SearchEffect` is that the binary search ends at the least place whose id is not less:
`Bounds` holds after every turn (`HalveEffect`), over a table sorted by `SortedKeys`.

`Arriving` adds the message on its way. `Travels` says how its payload was made and where
it was cut, `Reads` where the reader is, and `Found` that for some `k` it has `Reached(k)`:
the first `k` fields are as they were sent, the others zero, and the reader is behind the
bytes of the `k`-th, or further only at the end. Neither `SharedFieldsArrive` nor
`CutIsSeen` is inductive alone: both speak of a reader that is done, and nothing in
them says that a reader halfway stands where a field begins. `FieldComes` is the step:
in a beginning of what was written, behind the first `k` fields, a reader finds the
field that was sent, or nothing at all, or fails. It needs that a field cut
anywhere is not taken for a shorter one (`LeftReads`), and that the two ends agree on
the fields up to there (`SameFields`), which is what the handshake has decided.

`FrameCanonical` is `DecodeEncodes` (what is accepted is written back the same: the
flags, the call id and the length put together from their bytes are taken apart
again, `WordOfValue`) and `CtxArrives`. `TwinsAgree` is `CtxAgrees` and `StatusAgrees`,
both by induction on the fields from `FieldTwins`, which compares one read of the
two readers on any bytes at any place, failures included. `ExchangeConstants` asks that
samples are values of their types and that a ctx that is set is within the ceiling
(`core.go:313` refuses a longer one with ErrCtxTooLarge before it is sent).

The chain, the shifted backoff and the least free id are recursive functions or
minima. The library's induction theorems take operators, which the provers
cannot instantiate; `Recursion` states induction over an interval, definition by
recursion and the least element for *sets and functions*, from the library's
well-founded order on finite sets.

**Only model-checked.** All liveness (`RequestLeaves`, `DeadlineKept`,
`OrphansReaped`, `UnaryCompletes`, `HeldBackGoes`, `ConnectionsEnd`,
`OperationsReturn`): TLAPS does not reason about fairness here. Every invariant and every
other action property of the passing runs is stated by a theorem above.

## 5. Not modelled, and what is left

* The demo's scenario, its descriptors and the interop driver: scripts without
  protocol state.
* Fomoxa itself, compression algorithms and SHA-256: external.
* Scalars other than u32, whose readers differ in width only, and the limits of a
  `Reader`, which are at a default no u32 exceeds.
* Plain messages in `Core`, `Server` and `Client`: they go past the RPC core.
* `NextDeadline`, `HasRunnableWork` and the time limit of the wait plan: `Transport` lets
  the limit be anything.
* Widths of durations in `retry.go`: the doubling is capped at 2^16.

Three things met while modelling are recorded with the hazards, because no
statement of the repository speaks about them: Build does not compare plain ids
with system ids (`descriptor.go:253`), so FRpcError's id can be declared plain and its
frames go to the application; RequireDeclaredIn does not ask for the system
models (`session.go:177`); Client.Close leaves outcomes in the core
(`client.go:114`).

Next: `Transport` as the implementation of the FIFO link of `Link`.
