------------------------------- MODULE Admission -------------------------------
(***************************************************************************)
(* Identities, the chain of interceptors and the authorization link.       *)
(* NewIdentity sorts its permissions and drops repetitions and every list  *)
(* made from them keeps that order, so that the binary search of Permits   *)
(* is membership: permissions are sets here.                               *)
(***************************************************************************)
EXTENDS Naturals, Sequences, SequencesExt

CONSTANTS Tokens, TicksPerMs

NoOne == [principal |-> "", permissions |-> {}]
NoToken == ""

Identity == [principal : STRING, permissions : SUBSET STRING]
NewIdentity(principal, permissions) == [principal |-> principal, permissions |-> permissions]
\* The verifier of a link says whom a token stands for, or NoOne.  A link
\* without one rejects every token as a verifier that knows none does.
Verifier == [Tokens -> Identity]
NoVerifier == [token \in Tokens |-> NoOne]
NarrowedBy(identity, other) == identity.permissions \cap other.permissions

\* CallContext, the fields interceptors read and write.
NewCallContext(method, token, session, deadline) ==
    [method |-> method, token |-> token, session |-> session, onBehalfOf |-> NoOne,
     permissions |-> session.permissions, deadline |-> deadline]

\* The time left, in whole milliseconds, and the deadline an onward call is
\* given: {} when there is nothing left, 0 when there is no bound.
NoDeadline == 0
RemainingMs(context, now) ==
    IF context.deadline <= now THEN 0 ELSE (context.deadline - now) \div TicksPerMs
\* Mutant: what is left of a deadline is sent as it is.
OnwardCtx_Spent(context, now) ==
    IF context.deadline = NoDeadline THEN {0} ELSE {RemainingMs(context, now)}
OnwardCtx(context, now) ==
    IF context.deadline = NoDeadline THEN {0}
    ELSE IF RemainingMs(context, now) = 0 THEN {} ELSE {RemainingMs(context, now)}

-----------------------------------------------------------------------------
Admitted(context) == [status |-> "OK", context |-> context]
Rejected(status, context) == [status |-> status, context |-> context]

\* Authorization.Inbound.  A link is a record: its kind, the request types it
\* exempts, its own verifier and whether it allows delegation.
Interceptor ==
    [kind : {"pass", "unavailable"}]
        \cup [kind : {"authorization"}, exempt : SUBSET Nat, verifier : Verifier, delegation : BOOLEAN]
\* A link starts from the session again, whatever the links before it made of
\* the credential; only onBehalfOf stays.
Credential(link, context) ==
    LET presented == link.verifier[context.token]
        own == [context EXCEPT !.permissions = context.session.permissions]
    IN IF context.token = NoToken THEN Admitted(own)
       ELSE IF presented = NoOne THEN Rejected("UNAUTHENTICATED", own)
       ELSE IF presented.principal = context.session.principal THEN Admitted(own)
       ELSE IF ~link.delegation THEN Rejected("PERMISSION_DENIED", own)
       ELSE Admitted([own EXCEPT !.permissions = NarrowedBy(context.session, presented),
                                 !.onBehalfOf = presented])

Permitted(context) == context.method.permission \in {""} \cup context.permissions

\* Mutant: the method's permission is looked up in the session.
AuthorizationInbound_Session(link, context) ==
    LET credential == Credential(link, context)
    IN IF context.session = NoOne
       THEN IF context.method.request \in link.exempt THEN Admitted(context) ELSE Rejected("UNAUTHENTICATED", context)
       ELSE IF credential.status = "OK" /\ context.method.permission \notin {""} \cup context.session.permissions
            THEN Rejected("PERMISSION_DENIED", credential.context) ELSE credential
AuthorizationInbound(link, context) ==
    LET credential == Credential(link, context)
    IN IF context.session = NoOne
       THEN IF context.method.request \in link.exempt THEN Admitted(context) ELSE Rejected("UNAUTHENTICATED", context)
       ELSE IF credential.status = "OK" /\ ~Permitted(credential.context)
            THEN Rejected("PERMISSION_DENIED", credential.context) ELSE credential

\* Any other link: one that lets everything through (PassThrough), or one that
\* answers in the handler's place.
LinkInbound(link, context) ==
    CASE link.kind = "authorization" -> AuthorizationInbound(link, context)
      [] link.kind = "pass"          -> Admitted(context)
      [] link.kind = "unavailable"   -> Rejected("UNAVAILABLE", context)

-----------------------------------------------------------------------------
\* Chain.Inbound: link after link until one rejects; how many were entered.
Entering(context) == [entered |-> 0, status |-> "OK", context |-> context]
EnterLink(links, i, before) ==
    LET out == LinkInbound(links[i], before.context)
    IN IF before.status # "OK" THEN before
       ELSE [entered |-> IF out.status = "OK" THEN i ELSE i - 1,
             status |-> out.status, context |-> out.context]
Inbound(links, context) ==
    LET upTo[i \in 0..Len(links)] ==
            IF i = 0 THEN Entering(context) ELSE EnterLink(links, i, upTo[i - 1])
    IN upTo[Len(links)]

\* Chain.Outbound: the links it calls, by position, in the order it calls them.
\* Mutant: every link there is.
Outbound_All(links, entered) == [k \in 1..Len(links) |-> Len(links) + 1 - k]
Outbound(links, entered) ==
    LET first == IF entered < Len(links) THEN entered ELSE Len(links)
    IN [k \in 1..first |-> first + 1 - k]
=============================================================================
