-------------------------------- MODULE Service --------------------------------
(***************************************************************************)
(* An application that builds a registry, serves it behind a chain of      *)
(* interceptors, and calls it with retries.  Builder, admission, call ids  *)
(* and retry policy are the four modules below; this one lets them meet.   *)
(* A message goes over in one step: what may happen to it on its way is    *)
(* Link, and the steps of a request after admission are Core.              *)
(*                                                                         *)
(* A behaviour starts from one of the Setups, which says what the          *)
(* application may do in it, so that one run covers several small cases.   *)
(***************************************************************************)
EXTENDS Registry, Admission, CallIds, Retry

CONSTANTS
    Setups,         \* what the application may do
    HandlerLimit    \* ticks a unary handler may take

\* A method may require no permission: the prover knows no string by itself.
ASSUME EmptyString == "" \in STRING

\* A policy makes one attempt at least, as those of retry.go do.
ASSUME ServiceConstants ==
    /\ \A s \in Setups :
        /\ s.builder \in Builder /\ IsFiniteSet(s.builder.reflection)
        /\ s.methods \subseteq Method /\ s.reflections \subseteq U32 \X U32
        /\ s.system \cup s.plain \subseteq U32
        /\ s.identities \subseteq Identity /\ s.links \subseteq Interceptor
        /\ s.tokens \subseteq Tokens /\ s.budgets \cup s.deadlines \subseteq Nat
        /\ IsFiniteSet(s.calls)
    /\ NoToken \in Tokens
    /\ HandlerLimit \in Nat /\ TicksPerMs \in Nat \ {0}
    /\ MaxAttempts \in Nat \ {0} /\ {InitialBackoff, MaxBackoff} \subseteq Nat

VARIABLES
    setup,
    stage,      \* building, built, serving or refused
    builder,    \* the RegistryBuilder
    registry,   \* what Build returned
    identity,   \* the identity of the session
    links,      \* the interceptors of the callee's chain
    work,       \* the application's calls
    next,       \* the allocator of the caller
    sessions,   \* how many sessions there have been
    now

vars == <<setup, stage, builder, registry, identity, links, work, next, sessions, now>>
building == <<setup, stage, builder, registry>>

NoRegistry == [credit |-> {}, entries |-> <<>>, plain |-> {}, ids |-> {}, answer |-> <<>>]
Idle == [at |-> "idle", request |-> 0, token |-> NoToken, ms |-> 0, retry |-> NewRetryState(0, 0),
         retryAt |-> 0, id |-> NoId, context |-> <<>>, ins |-> <<>>, outs |-> <<>>,
         onward |-> {}, runs |-> 0, exhausted |-> 0, result |-> "none"]

Init ==
    /\ setup \in Setups
    /\ stage = "building" /\ builder = setup.builder /\ registry = NoRegistry
    /\ identity = NoOne /\ links = <<>>
    /\ work = [c \in setup.calls |-> Idle]
    /\ next = FirstId("client") /\ sessions = 1 /\ now = 1

-----------------------------------------------------------------------------
\* The calls of the builder, in any order.
AddToBuilder ==
    /\ stage = "building"
    /\ \/ \E id \in setup.system : builder' = WithCredit(builder, id)
       \/ \E r \in setup.reflections : builder' = WithReflection(builder, r[1], r[2])
       \/ \E id \in setup.plain : builder' = PlainMessage(builder, id)
       \/ \E m \in setup.methods :
            /\ Len(builder.entries) < setup.maxEntries
            /\ builder' = Declare(builder, m) \/ builder' = Serve(builder, m)
    /\ UNCHANGED <<setup, stage, registry, identity, links, work, next, sessions, now>>

BuildRegistry ==
    /\ stage = "building"
    /\ stage' = IF Acceptable(builder) THEN "built" ELSE "refused"
    /\ registry' = IF Acceptable(builder) THEN Build(builder) ELSE NoRegistry
    /\ UNCHANGED <<setup, builder, identity, links, work, next, sessions, now>>

\* Bind and Connect ask RequireDeclared before they serve or call anything.
Start ==
    /\ stage = "built"
    /\ stage' = IF RequireDeclaredIn(registry, setup.schema) THEN "serving" ELSE "refused"
    /\ UNCHANGED <<setup, builder, registry, identity, links, work, next, sessions, now>>

-----------------------------------------------------------------------------
\* The application at the callee.
Authenticate ==
    /\ stage = "serving"
    /\ identity' \in setup.identities
    /\ UNCHANGED <<building, links, work, next, sessions, now>>
ClearIdentity ==
    /\ stage = "serving" /\ identity # NoOne
    /\ identity' = NoOne
    /\ UNCHANGED <<building, links, work, next, sessions, now>>
AddInterceptor ==
    /\ stage = "serving" /\ Len(links) < setup.maxLinks
    /\ \E link \in setup.links : links' = Append(links, link)
    /\ UNCHANGED <<building, identity, work, next, sessions, now>>

-----------------------------------------------------------------------------
\* The application at the caller: a call and its budget, and an attempt when
\* it is time for one.
At(place) == {c \in setup.calls : work[c].at = place}
Pending == {work[c].id : c \in At("sent") \cup At("running")}
MethodFor(request) == (CHOOSE entry \in EntryFor(registry, request) : TRUE).method

Open(c) ==
    /\ stage = "serving" /\ work[c].at = "idle"
    /\ \E i \in DOMAIN registry.entries, token \in setup.tokens, budget \in setup.budgets, ms \in setup.deadlines :
        work' = [work EXCEPT ![c] = [Idle EXCEPT !.at = "ready", !.token = token, !.ms = ms,
                    !.request = registry.entries[i].method.request,
                    !.retry = NewRetryState(now, budget), !.retryAt = now]]
    /\ UNCHANGED <<building, identity, links, next, sessions, now>>

Attempt(c) ==
    /\ work[c].at = "ready" /\ now >= work[c].retryAt
    /\ LET given == Allocate(next, Pending)
           w == [work[c] EXCEPT !.id = given.id, !.ins = <<>>, !.outs = <<>>]
       IN /\ next' = given.next
          /\ work' = [work EXCEPT ![c] =
                IF given.id = NoId THEN [w EXCEPT !.at = "done", !.result = "NO_CALL_ID"]
                ELSE [w EXCEPT !.at = "sent"]]
    /\ UNCHANGED <<building, identity, links, sessions, now>>

\* A failure of the attempt, and what the retry state makes of it.
AfterFailure(w, status) ==
    LET decision == OnFailure(w.retry, status, MethodFor(w.request), now)
    IN [w EXCEPT !.at = IF decision.retry THEN "ready" ELSE "done", !.retry = decision.state,
                 !.retryAt = IF decision.retry THEN decision.at ELSE 0, !.id = NoId,
                 !.result = IF decision.retry THEN "none" ELSE status]

-----------------------------------------------------------------------------
\* onRequest, to the point where the handler is made.
EntryOf(c) == CHOOSE entry \in EntryFor(registry, work[c].request) : TRUE

Limit(method, ms) ==
    LET own == now + HandlerLimit
        asked == now + ms * TicksPerMs
    IN IF method.shape # UNARY THEN IF ms = 0 THEN NoDeadline ELSE asked
       ELSE IF ms = 0 \/ own < asked THEN own ELSE asked
ContextOf(c) ==
    NewCallContext(EntryOf(c).method, work[c].token, identity, Limit(EntryOf(c).method, work[c].ms))

ArriveUnserved(c) ==
    /\ work[c].at = "sent" /\ ~EntryOf(c).served
    /\ work' = [work EXCEPT ![c] = AfterFailure(@, "UNIMPLEMENTED")]
    /\ UNCHANGED <<building, identity, links, next, sessions, now>>
ArriveTooMany(c) ==
    /\ work[c].at = "sent" /\ EntryOf(c).served
    /\ Cardinality(At("running")) >= setup.maxInflight
    /\ work' = [work EXCEPT ![c] = AfterFailure(@, "RESOURCE_EXHAUSTED")]
    /\ UNCHANGED <<building, identity, links, next, sessions, now>>
ArriveInChain(c) ==
    /\ work[c].at = "sent" /\ EntryOf(c).served
    /\ Cardinality(At("running")) < setup.maxInflight
    /\ LET came == Inbound(links, ContextOf(c))
           w == [work[c] EXCEPT !.ins = [k \in 1..came.entered |-> k]]
       IN work' = [work EXCEPT ![c] =
            IF came.status # "OK"
            THEN [AfterFailure(w, came.status) EXCEPT !.outs = Outbound(links, came.entered)]
            ELSE [w EXCEPT !.at = "running", !.context = came.context, !.runs = @ + 1]]
    /\ UNCHANGED <<building, identity, links, next, sessions, now>>

\* A handler asks for the ctx of an onward call.
CallOnward(c) ==
    /\ work[c].at = "running" /\ setup.onward
    /\ \E ms \in OnwardCtx(work[c].context, now) :
        work' = [work EXCEPT ![c].onward = {IF ms = 0 THEN NoDeadline ELSE now + ms * TicksPerMs}]
    /\ UNCHANGED <<building, identity, links, next, sessions, now>>

\* The handler answers, its answer fits or it does not, it fails, or its time
\* is up: the chain is unwound at the callee, and the caller settles the call.
Unwound(c) == [work[c] EXCEPT !.outs = Outbound(links, Len(work[c].ins)), !.context = <<>>, !.onward = {}]
Respond(c) ==
    /\ work[c].at = "running"
    /\ work' = [work EXCEPT ![c] = [Unwound(c) EXCEPT !.at = "done", !.id = NoId, !.retryAt = 0, !.result = "OK"]]
    /\ UNCHANGED <<building, identity, links, next, sessions, now>>
FailRunning(c) ==
    /\ work[c].at = "running"
    /\ \E status \in {"RESOURCE_EXHAUSTED", "FAILED_PRECONDITION", "DEADLINE_EXCEEDED"} :
        /\ status = "DEADLINE_EXCEEDED" => work[c].context.deadline \in 1..now
        /\ work' = [work EXCEPT ![c] =
            LET w == AfterFailure(Unwound(c), status)
            IN IF status = "RESOURCE_EXHAUSTED" THEN [w EXCEPT !.exhausted = @ + 1] ELSE w]
    /\ UNCHANGED <<building, identity, links, next, sessions, now>>

\* The session ends: what ran is stopped, what waits is UNAVAILABLE, and the
\* next session starts with new cores on both sides.
SessionEnd ==
    /\ stage = "serving" /\ sessions < setup.sessions
    /\ sessions' = sessions + 1
    /\ work' = [c \in setup.calls |->
                 IF c \in At("running") THEN AfterFailure(Unwound(c), "UNAVAILABLE")
                 ELSE IF c \in At("sent") THEN AfterFailure(work[c], "UNAVAILABLE") ELSE work[c]]
    /\ identity' = NoOne /\ links' = <<>> /\ next' = FirstId("client")
    /\ UNCHANGED <<building, now>>

Clock ==
    /\ stage = "serving" /\ now < setup.lastTick
    /\ now' = now + 1
    /\ UNCHANGED <<building, identity, links, work, next, sessions>>

Next ==
    \/ AddToBuilder \/ BuildRegistry \/ Start
    \/ Authenticate \/ ClearIdentity \/ AddInterceptor
    \/ \E c \in setup.calls :
        \/ Open(c) \/ Attempt(c)
        \/ ArriveUnserved(c) \/ ArriveTooMany(c) \/ ArriveInChain(c)
        \/ CallOnward(c) \/ Respond(c) \/ FailRunning(c)
    \/ SessionEnd \/ Clock

Spec == Init /\ [][Next]_vars

-----------------------------------------------------------------------------
Truthful(answer) ==
    LET served(id) == \E entry \in EntryFor(registry, id) : entry.served
    IN /\ answer.ok /\ answer.json = SchemaJSON
       /\ \A i, j \in DOMAIN answer.methods : answer.methods[i][3] = answer.methods[j][3] => i = j
       /\ {answer.methods[i][3] : i \in DOMAIN answer.methods} = {id \in registry.ids : served(id)}
       /\ \A i \in DOMAIN answer.methods :
            \A entry \in EntryFor(registry, answer.methods[i][3]) : answer.methods[i] = Info(entry.method)

(* Reflection tells the truth: what the generated decoder finds in the      *)
(* answer is, once each, every method a REQUEST is dispatched to, with the  *)
(* shape and the ids dispatch uses for it, and the schema.                  *)
ReflectionTrue ==
    stage \in {"built", "serving"} /\ builder.reflection # {} =>
        Truthful(DecodeReflectResponse(registry.answer))

\* Whom a link takes the credential of a call for, whether that is someone
\* other than the session, and what both together may do.
Presented(link, context) == link.verifier[context.token]
Replaces(link, context) ==
    context.token # NoToken /\ Presented(link, context).principal # context.session.principal
Allowance(link, context) ==
    IF Replaces(link, context) THEN NarrowedBy(context.session, Presented(link, context))
    ELSE context.session.permissions

\* The authorization links a call has entered agree that it may run, and the
\* context is what the last of them made of it.
Narrow(c) ==
    LET context == work[c].context
        guards == {k \in DOMAIN work[c].ins : links[k].kind = "authorization"}
        deputies == {k \in guards : Replaces(links[k], context)}
        last(places) == {k \in places : \A j \in places : j <= k}
    IN IF context.session = NoOne THEN \A k \in guards : work[c].request \in links[k].exempt
       ELSE /\ \A k \in guards :
                /\ context.token # NoToken => Presented(links[k], context) # NoOne
                /\ context.method.permission \in {""} \cup Allowance(links[k], context)
            /\ \A k \in deputies : links[k].delegation
            /\ \A k \in last(guards) : context.permissions = Allowance(links[k], context)
            /\ \A k \in last(deputies) : context.onBehalfOf = Presented(links[k], context)

(* A handler runs only if every authorization link of its chain, by its own *)
(* verifier, knows the credential, may let it replace the session and finds *)
(* the method's permission in what both allow.  The handler itself acts     *)
(* with what the last link left, for the one the last delegating link took  *)
(* the credential for.  Without an identity only a method every link        *)
(* exempts runs.  Identities and links that change later change nothing.    *)
NeverWider == \A c \in At("running") : Narrow(c)

(* The links a call entered are unwound, each once and the last one first,  *)
(* when its attempt is over, however it ended and whatever links were added *)
(* while it ran; no other link hears of it.                                 *)
ChainUnwound ==
    \A c \in setup.calls :
        CASE work[c].at \in {"ready", "done"} -> work[c].outs = Reverse(work[c].ins)
          [] OTHER -> work[c].outs = <<>>

(* An onward call ends no later than the call it is made for, and a bounded *)
(* call never makes an unbounded one, although 0 milliseconds stand for no  *)
(* deadline.                                                                *)
OnwardInTime ==
    \A c \in At("running") : work[c].context.deadline # NoDeadline =>
        \A deadline \in work[c].onward : deadline # NoDeadline /\ deadline <= work[c].context.deadline

(* A method runs again only where that is allowed.  One that is not safe to *)
(* repeat does so only after an answer of RESOURCE_EXHAUSTED, never after a *)
(* lost session or another failure; a stream runs once; no method runs more *)
(* often than the policy says, and the next attempt is set to start while   *)
(* the budget all attempts share lasts.                                     *)
RepeatsAllowed ==
    \A c \in setup.calls : work[c].at # "idle" =>
        LET method == MethodFor(work[c].request)
            retry == work[c].retry
        IN /\ ~SurvivesUnknownOutcome(method) => work[c].runs <= 1 + work[c].exhausted
           /\ method.shape # UNARY => work[c].runs <= 1
           /\ work[c].runs <= MaxAttempts
           /\ work[c].at = "ready" /\ retry.attempt > 1 /\ retry.deadline # 0
                => work[c].retryAt < retry.deadline

(* Open calls have ids of their own, of the caller's parity, round after    *)
(* round; a call is refused an id only when all of them are taken.          *)
IdsRight ==
    /\ [](/\ \A c, d \in At("sent") \cup At("running") : work[c].id = work[d].id => c = d
          /\ \A id \in Pending : id < IdSpace /\ id % 2 = FirstId("client"))
    /\ [][\A c \in setup.calls :
            work[c].result = "none" /\ work'[c].result = "NO_CALL_ID"
                => Cardinality(Pending) = IdSpace \div 2]_vars
=============================================================================
