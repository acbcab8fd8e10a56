------------------------------ MODULE ServiceProofs ------------------------------
(***************************************************************************)
(* Proofs about Service, for every application (Setups), every chain of    *)
(* interceptors, every verifier, every retry policy and every size of the  *)
(* space of call ids; and about Registry, whose list of methods is read    *)
(* back as it was written (with the lemmas about Codec in Recursion).      *)
(***************************************************************************)
EXTENDS Service, Recursion, SequenceTheorems

-----------------------------------------------------------------------------
\* The retry decision.

RetryState == [attempt : Nat, deadline : Nat]

LEMMA ShiftedType == \A d \in 0..16 : Shifted[d] \in Nat
<1>1. \E f : f = [d \in 0..16 |-> IF d = 0 THEN 1 ELSE 2 * f[d - 1]]
    <2>1. PICK step : step = [p \in (1..16) \X Nat |-> 2 * p[2]]
        OBVIOUS
    <2>2. step \in [(1..16) \X Nat -> Nat] /\ \A d \in 1..16, v \in Nat : step[<<d, v>>] = 2 * v
        BY <2>1
    <2>3. PICK f \in [0..16 -> Nat] : Follows(f, 1, step, 16)
        BY <2>2, FunctionByRecursion
    <2>4. \A d \in 0..16 : d = 0 \/ (d \in 1..16 /\ d - 1 \in 0..16)
        OBVIOUS
    <2>5. \A d \in 0..16 : f[d] = IF d = 0 THEN 1 ELSE 2 * f[d - 1]
        BY <2>2, <2>3, <2>4 DEF Follows
    <2> QED
        BY <2>5
<1>2. Shifted = [d \in 0..16 |-> IF d = 0 THEN 1 ELSE 2 * Shifted[d - 1]]
    BY <1>1 DEF Shifted
<1>3. PICK T : T = {d \in 0..16 : Shifted[d] \in Nat}
    OBVIOUS
<1>4. 0 \in T
    BY <1>2, <1>3
<1>5. ASSUME NEW d \in 1..16, d - 1 \in T PROVE d \in T
    <2>1. d \in 0..16 /\ d # 0 /\ Shifted[d - 1] \in Nat
        BY <1>3, <1>5
    <2>2. Shifted[d] = 2 * Shifted[d - 1]
        BY <1>2, <2>1
    <2> QED
        BY <1>3, <2>1, <2>2
<1> QED
    BY <1>3, <1>4, <1>5, IntervalInduction

LEMMA BackoffType ==
    ASSUME NEW attempt \in Nat
    PROVE  BackoffFor(attempt) \in Nat
<1>1. PICK from \in Nat : from = Max({attempt - 1, 0})
    <2>1. Max({attempt - 1, 0}) \in {attempt - 1, 0} /\ Max({attempt - 1, 0}) >= 0
        BY DEF Max
    <2> QED
        BY <2>1
<1>2. PICK doubling \in 0..16 : doubling = Min({from, 16})
    <2>1. Min({from, 16}) \in {from, 16} /\ Min({from, 16}) <= 16
        BY DEF Min
    <2> QED
        BY <2>1
<1>3. PICK scaled \in Nat : scaled = InitialBackoff * Shifted[doubling]
    BY ShiftedType, ServiceConstants
<1>4. Min({scaled, MaxBackoff}) \in Nat
    <2>1. MaxBackoff \in Nat
        BY ServiceConstants
    <2>2. Min({scaled, MaxBackoff}) \in {scaled, MaxBackoff}
        BY <2>1 DEF Min
    <2> QED
        BY <2>1, <2>2
<1> QED
    BY <1>1, <1>2, <1>3, <1>4 DEF BackoffFor

\* A retry is granted to a unary method whose failure allows it, while there
\* are attempts left, for a time within the budget.
Justified(decision, state, status, m) ==
    /\ decision.retry \in BOOLEAN /\ decision.state \in RetryState /\ decision.at \in Nat
    /\ ~decision.retry => decision.state = state
    /\ decision.retry =>
        /\ m.shape = UNARY /\ status \in Retryable /\ ~UnsafeToRepeat(status, m)
        /\ state.attempt < MaxAttempts
        /\ decision.state.attempt = state.attempt + 1
        /\ decision.state.deadline = state.deadline
        /\ state.deadline # 0 => decision.at < state.deadline

LEMMA OnFailureEffect ==
    ASSUME NEW state \in RetryState, NEW status, NEW m \in Method, NEW t \in Nat
    PROVE  Justified(OnFailure(state, status, m, t), state, status, m)
<1>0. PICK decision : decision = OnFailure(state, status, m, t)
    OBVIOUS
<1>1. PICK wait \in Nat : wait = BackoffFor(state.attempt)
    BY BackoffType DEF RetryState
<1>2. PICK reason : reason = GiveUp(state, status, m, t)
    OBVIOUS
<1>3. CASE reason # "retry"
    <2>1. decision = [retry |-> FALSE, reason |-> reason, at |-> t, state |-> state]
        BY <1>0, <1>2, <1>3 DEF OnFailure
    <2> QED
        BY <1>0, <2>1 DEF Justified
<1>4. CASE reason = "retry"
    <2>1. /\ m.shape = 0 /\ status \in Retryable /\ ~UnsafeToRepeat(status, m)
          /\ ~AttemptsExhausted(state) /\ ~BudgetExhausted(state, t)
        BY <1>2, <1>4 DEF GiveUp
    <2>2. /\ decision.retry = TRUE /\ decision.at = t + wait
          /\ decision.state = [state EXCEPT !.attempt = @ + 1]
        BY <1>0, <1>1, <1>2, <1>4 DEF OnFailure
    <2>3. state.attempt < MaxAttempts
        BY <2>1, ServiceConstants DEF AttemptsExhausted, RetryState
    <2>4. state.deadline # 0 => t + wait < state.deadline
        BY <1>1, <2>1 DEF BudgetExhausted, RetryState
    <2>5. /\ decision.state \in RetryState
          /\ decision.state.attempt = state.attempt + 1
          /\ decision.state.deadline = state.deadline
        BY <2>2 DEF RetryState
    <2>6. t + wait \in Nat
        OBVIOUS
    <2>7. m.shape = UNARY
        BY <2>1 DEF UNARY
    <2>8. decision.at \in Nat /\ (state.deadline # 0 => decision.at < state.deadline)
        BY <2>2, <2>4, <2>6
    <2> QED
        BY <1>0, <2>1, <2>2, <2>3, <2>5, <2>7, <2>8 DEF Justified
<1> QED
    BY <1>3, <1>4

-----------------------------------------------------------------------------
\* The allocator.  Ids are the ids of the caller's parity.

Ids == {id \in 0..(IdSpace - 1) : id % 2 = 0}

LEMMA Division ==
    ASSUME NEW m \in Nat \ {0}, NEW x \in Nat
    PROVE  \E q \in Nat, r \in 0..(m - 1) : q = x \div m /\ r = x % m /\ x = m * q + r
<1>1. x % m \in 0..(m - 1)
    OBVIOUS
<1>2. PICK q \in Nat : q = x \div m
    OBVIOUS
<1>3. x % m = x - m * (x \div m)
    OBVIOUS
<1>4. PICK p \in Int : p = m * q
    OBVIOUS
<1>5. PICK r \in 0..(m - 1) : r = x % m
    BY <1>1
<1>6. r = x - p
    BY <1>2, <1>3, <1>4, <1>5
<1>7. x = m * q + r
    BY <1>4, <1>6
<1> QED
    BY <1>2, <1>5, <1>7

LEMMA EvenIsDouble == \A x \in Nat : x % 2 = 0 => \E a \in Nat : x = 2 * a
OBVIOUS

LEMMA DoubleIsEven == \A a \in Int : (2 * a) % 2 = 0
OBVIOUS

LEMMA IdSpaceHalf ==
    \E h \in Nat \ {0} : IdSpace = 2 * h /\ IdSpace \div 2 = h /\ (IdSpace - 1) \div 2 = h - 1
<1>1. IdSpace \in Nat \ {0} /\ IdSpace % 2 = 0
    BY IdSpaceEven
<1>2. PICK h \in Nat : IdSpace = 2 * h
    BY <1>1, EvenIsDouble
<1>3. h # 0 /\ (2 * h) \div 2 = h /\ (2 * h - 1) \div 2 = h - 1
    BY <1>1, <1>2
<1> QED
    BY <1>2, <1>3

LEMMA CandidateType ==
    ASSUME NEW id \in Ids, NEW k \in Nat
    PROVE  Candidate(id, k) \in Ids
<1>1. PICK h \in Nat \ {0} : IdSpace = 2 * h
    BY IdSpaceHalf
<1>2. PICK a \in Nat : id = 2 * a
    BY EvenIsDouble DEF Ids
<1>3. PICK x \in Nat : x = id + 2 * k
    BY <1>2
<1>4. IdSpace \in Nat \ {0}
    BY <1>1
<1>5. PICK q \in Nat, r \in 0..(IdSpace - 1) : r = x % IdSpace /\ x = IdSpace * q + r
    BY <1>4, Division
<1>6. PICK p \in Nat : p = h * q
    OBVIOUS
<1>7. PICK y \in Int : y = 2 * p /\ x = y + r
    <2>1. PICK y \in Int : y = IdSpace * q
        BY <1>4
    <2>2. y = 2 * p
        BY <1>1, <1>6, <2>1
    <2> QED
        BY <1>5, <2>1, <2>2
<1>8. PICK z \in Int : z = a + k - p /\ r = 2 * z
    <2>1. r = 2 * a + 2 * k - 2 * p
        BY <1>2, <1>3, <1>7
    <2> QED
        BY <2>1
<1>9. r % 2 = 0
    <2>1. (2 * z) % 2 = 0
        BY DoubleIsEven
    <2> QED
        BY <1>8, <2>1
<1>10. Candidate(id, k) = r
    BY <1>3, <1>5 DEF Candidate
<1>11. r \in Ids
    BY <1>9 DEF Ids
<1> QED
    BY <1>10, <1>11

\* A round reaches every id.
LEMMA RoundIsWhole ==
    ASSUME NEW next0 \in Ids, NEW id \in Ids
    PROVE  \E k \in Attempts : Candidate(next0, k) = id
<1>1. PICK h \in Nat \ {0} : IdSpace = 2 * h /\ (IdSpace - 1) \div 2 = h - 1
    BY IdSpaceHalf
<1>2. PICK a \in Nat, b \in Nat : next0 = 2 * a /\ id = 2 * b
    BY EvenIsDouble DEF Ids
<1>3. a < h /\ b < h
    BY <1>1, <1>2 DEF Ids
<1>4. CASE b >= a
    <2>1. b - a \in 0..(h - 1) /\ next0 + 2 * (b - a) = id
        BY <1>2, <1>3, <1>4
    <2>2. id % IdSpace = id
        BY <1>1 DEF Ids
    <2> QED
        BY <1>1, <2>1, <2>2 DEF Attempts, Candidate
<1>5. CASE b < a
    <2>1. b + h - a \in 0..(h - 1) /\ next0 + 2 * (b + h - a) = id + IdSpace
        BY <1>1, <1>2, <1>3, <1>5
    <2>2. (id + IdSpace) % IdSpace = id
        BY <1>1 DEF Ids
    <2> QED
        BY <1>1, <2>1, <2>2 DEF Attempts, Candidate
<1> QED
    BY <1>2, <1>4, <1>5

LEMMA AllocateEffect ==
    ASSUME NEW next0 \in Ids, NEW inUse, NEW given, given = Allocate(next0, inUse)
    PROVE  /\ given.next \in Ids /\ NoId \notin Ids
           /\ given.id = NoId => Ids \subseteq inUse
           /\ given.id # NoId => given.id \in Ids /\ given.id \notin inUse
<1>1. PICK free : free = {k \in Attempts : Candidate(next0, k) \notin inUse}
    OBVIOUS
<1>2. Attempts \subseteq Nat
    BY IdSpaceHalf DEF Attempts
<1>3. NoId \notin Ids
    BY IdSpaceEven DEF NoId, Ids
<1>4. CASE free = {}
    <2>1. given = [id |-> NoId, next |-> next0]
        BY <1>1, <1>4 DEF Allocate
    <2>2. \A id \in Ids : id \in inUse
        BY <1>1, <1>4, RoundIsWhole
    <2> QED
        BY <1>3, <2>1, <2>2
<1>5. CASE free # {}
    <2>1. PICK k \in Nat : k = Min(free) /\ k \in free
        BY <1>1, <1>2, <1>5, MinOfNaturals
    <2>2. given = [id |-> Candidate(next0, k), next |-> Candidate(next0, k + 1)]
        BY <1>1, <1>5, <2>1 DEF Allocate
    <2>3. Candidate(next0, k) \in Ids /\ Candidate(next0, k + 1) \in Ids /\ Candidate(next0, k) \notin inUse
        BY <1>1, <2>1, CandidateType
    <2> QED
        BY <1>3, <2>2, <2>3
<1> QED
    BY <1>4, <1>5

\* There are half as many as the space is large.
LEMMA IdsCount == Cardinality(Ids) = IdSpace \div 2
<1>1. PICK h \in Nat \ {0} : IdSpace = 2 * h /\ IdSpace \div 2 = h
    BY IdSpaceHalf
<1>2. PICK f : f = [k \in 0..(h - 1) |-> 2 * k]
    OBVIOUS
<1>3. \A k \in 0..(h - 1) : 2 * k \in Ids
    BY <1>1, DoubleIsEven DEF Ids
<1>4. \A id \in Ids : \E k \in 0..(h - 1) : id = 2 * k
    <2>1. \A id \in Ids : \E a \in Nat : id = 2 * a
        BY EvenIsDouble DEF Ids
    <2>2. \A a \in Nat : 2 * a \in Ids => a \in 0..(h - 1)
        BY <1>1 DEF Ids
    <2> QED
        BY <2>1, <2>2
<1>5. f \in Bijection(0..(h - 1), Ids)
    <2>1. f \in [0..(h - 1) -> Ids]
        BY <1>2, <1>3
    <2>2. \A i, j \in 0..(h - 1) : f[i] = f[j] => i = j
        BY <1>2
    <2>3. \A id \in Ids : \E k \in 0..(h - 1) : f[k] = id
        BY <1>2, <1>4
    <2> QED
        BY <2>1, <2>2, <2>3 DEF Bijection, Injection, Surjection, IsInjective
<1>6. IsFiniteSet(0..(h - 1)) /\ Cardinality(0..(h - 1)) = h
    BY FS_Interval
<1> QED
    BY <1>1, <1>5, <1>6, FS_Bijection DEF ExistsBijection

-----------------------------------------------------------------------------
\* The chain of interceptors.

CallContext == [method : Method, token : Tokens, session : Identity, onBehalfOf : Identity,
                permissions : SUBSET STRING, deadline : Nat]
Verdicts == {"OK", "UNAUTHENTICATED", "PERMISSION_DENIED", "UNAVAILABLE"}

\* What no interceptor changes.
SameCall(x, y) ==
    y.method = x.method /\ y.token = x.token /\ y.session = x.session /\ y.deadline = x.deadline

\* The credential, if there is one, is good enough for link.
Vouched(link, x) ==
    /\ x.token # NoToken => Presented(link, x) # NoOne
    /\ Replaces(link, x) => link.delegation

\* An authorization link has let x through.  Nothing here depends on what
\* another link writes: a later link takes nothing of it back.
Cleared(link, x) ==
    IF x.session = NoOne THEN x.method.request \in link.exempt
    ELSE Vouched(link, x) /\ x.method.permission \in {""} \cup Allowance(link, x)

\* What an authorization link makes of x, if there is a session.
Leaves(link, x, y) ==
    x.session # NoOne =>
        /\ y.permissions = Allowance(link, y)
        /\ y.onBehalfOf = IF Replaces(link, y) THEN Presented(link, y) ELSE x.onBehalfOf

LEMMA CredentialEffect ==
    ASSUME NEW link \in Interceptor, link.kind = "authorization", NEW x \in CallContext,
           x.session # NoOne, NEW out, out = Credential(link, x)
    PROVE  /\ out.status \in Verdicts /\ out.context \in CallContext /\ SameCall(x, out.context)
           /\ out.status = "OK" => Vouched(link, out.context) /\ Leaves(link, x, out.context)
<1>1. PICK s \in Identity : s = x.session
    BY DEF CallContext
<1>2. PICK shown \in Identity : shown = link.verifier[x.token]
    BY DEF CallContext, Interceptor, Verifier
<1>3. PICK own : own = [x EXCEPT !.permissions = s.permissions]
    OBVIOUS
<1>4. /\ own \in CallContext /\ SameCall(x, own)
      /\ own.permissions = s.permissions /\ own.onBehalfOf = x.onBehalfOf
    BY <1>1, <1>3 DEF CallContext, SameCall, Identity
<1>5. PICK both : both = [own EXCEPT !.permissions = s.permissions \cap shown.permissions,
                                     !.onBehalfOf = shown]
    OBVIOUS
<1>6. /\ both \in CallContext /\ SameCall(x, both)
      /\ both.permissions = s.permissions \cap shown.permissions /\ both.onBehalfOf = shown
    BY <1>4, <1>5 DEF CallContext, SameCall, Identity
<1>7. /\ own.session = s /\ own.token = x.token /\ both.session = s /\ both.token = x.token
    BY <1>1, <1>4, <1>6 DEF SameCall
<1>8. out = IF x.token = NoToken THEN Admitted(own)
            ELSE IF shown = NoOne THEN Rejected("UNAUTHENTICATED", own)
            ELSE IF shown.principal = s.principal THEN Admitted(own)
            ELSE IF ~link.delegation THEN Rejected("PERMISSION_DENIED", own)
            ELSE Admitted(both)
    BY <1>1, <1>2, <1>3, <1>5 DEF Credential, NarrowedBy
<1>9. CASE out = Admitted(own) /\ (x.token = NoToken \/ (shown # NoOne /\ shown.principal = s.principal))
    <2>1. out.status = "OK" /\ out.context = own
        BY <1>9 DEF Admitted
    <2>2. ~Replaces(link, own) /\ (own.token # NoToken => Presented(link, own) # NoOne)
        BY <1>2, <1>7, <1>9 DEF Replaces, Presented
    <2>3. Vouched(link, own) /\ Leaves(link, x, own)
        BY <1>4, <1>7, <2>2 DEF Vouched, Leaves, Allowance
    <2> QED
        BY <1>4, <2>1, <2>3 DEF Verdicts
<1>10. CASE out = Rejected("UNAUTHENTICATED", own) \/ out = Rejected("PERMISSION_DENIED", own)
    BY <1>4, <1>10 DEF Rejected, Verdicts
<1>11. CASE /\ out = Admitted(both) /\ x.token # NoToken /\ shown # NoOne
            /\ shown.principal # s.principal /\ link.delegation
    <2>1. out.status = "OK" /\ out.context = both
        BY <1>11 DEF Admitted
    <2>2. Presented(link, both) = shown /\ Replaces(link, both)
        BY <1>2, <1>7, <1>11 DEF Replaces, Presented
    <2>3. Vouched(link, both) /\ Leaves(link, x, both)
        BY <1>6, <1>7, <1>11, <2>2 DEF Vouched, Leaves, Allowance, NarrowedBy
    <2> QED
        BY <1>6, <2>1, <2>3 DEF Verdicts
<1> QED
    BY <1>8, <1>9, <1>10, <1>11

LEMMA AuthorizationEffect ==
    ASSUME NEW link \in Interceptor, link.kind = "authorization", NEW x \in CallContext,
           NEW out, out = AuthorizationInbound(link, x)
    PROVE  /\ out.status \in Verdicts /\ out.context \in CallContext /\ SameCall(x, out.context)
           /\ out.status = "OK" => Cleared(link, out.context) /\ Leaves(link, x, out.context)
<1>1. CASE x.session = NoOne
    <2>1. out = IF x.method.request \in link.exempt THEN Admitted(x) ELSE Rejected("UNAUTHENTICATED", x)
        BY <1>1 DEF AuthorizationInbound
    <2>2. out.context = x /\ out.status \in Verdicts /\ (out.status = "OK" => x.method.request \in link.exempt)
        BY <2>1 DEF Admitted, Rejected, Verdicts
    <2> QED
        BY <1>1, <2>2 DEF Cleared, Leaves, SameCall
<1>2. CASE x.session # NoOne
    <2>1. PICK credential : credential = Credential(link, x)
        OBVIOUS
    <2>2. PICK own : own = credential.context
        OBVIOUS
    <2>3. /\ credential.status \in Verdicts /\ own \in CallContext /\ SameCall(x, own)
          /\ credential.status = "OK" => Vouched(link, own) /\ Leaves(link, x, own)
        BY <1>2, <2>1, <2>2, CredentialEffect
    <2>4. out = IF credential.status = "OK" /\ ~Permitted(own)
                THEN Rejected("PERMISSION_DENIED", own) ELSE credential
        BY <1>2, <2>1, <2>2 DEF AuthorizationInbound
    <2>5. /\ out.context = own /\ out.status \in Verdicts
          /\ out.status = "OK" => credential.status = "OK" /\ Permitted(own)
        BY <2>2, <2>3, <2>4 DEF Rejected, Verdicts
    <2>6. own.session # NoOne
        BY <1>2, <2>3 DEF SameCall
    <2>7. ASSUME out.status = "OK" PROVE Cleared(link, own)
        <3>1. own.permissions = Allowance(link, own)
            BY <1>2, <2>3, <2>5, <2>7 DEF Leaves
        <3>2. own.method.permission \in {""} \cup Allowance(link, own)
            BY <2>5, <2>7, <3>1 DEF Permitted
        <3> QED
            BY <2>3, <2>5, <2>6, <2>7, <3>2 DEF Cleared
    <2> QED
        BY <2>3, <2>5, <2>7
<1> QED
    BY <1>1, <1>2

LEMMA LinkInboundEffect ==
    ASSUME NEW link \in Interceptor, NEW x \in CallContext, NEW out, out = LinkInbound(link, x)
    PROVE  /\ out.status \in Verdicts /\ out.context \in CallContext /\ SameCall(x, out.context)
           /\ out.status = "OK" =>
                IF link.kind = "authorization" THEN Cleared(link, out.context) /\ Leaves(link, x, out.context)
                ELSE out.context = x
<1>1. link.kind \in {"authorization", "pass", "unavailable"}
    BY DEF Interceptor
<1>2. CASE link.kind = "authorization"
    BY <1>2, AuthorizationEffect DEF LinkInbound
<1>3. CASE link.kind = "pass"
    <2>1. out = Admitted(x)
        BY <1>3 DEF LinkInbound
    <2> QED
        BY <1>3, <2>1 DEF Admitted, SameCall, Verdicts
<1>4. CASE link.kind = "unavailable"
    <2>1. out = Rejected("UNAVAILABLE", x)
        BY <1>4 DEF LinkInbound
    <2> QED
        BY <1>4, <2>1 DEF Rejected, SameCall, Verdicts
<1> QED
    BY <1>1, <1>2, <1>3, <1>4

\* What a link takes a credential for depends on the call alone.
LEMMA CredentialAgain ==
    ASSUME NEW e, NEW x, NEW y, SameCall(x, y)
    PROVE  /\ Presented(e, y) = Presented(e, x)
           /\ Replaces(e, y) <=> Replaces(e, x)
           /\ Allowance(e, y) = Allowance(e, x)
<1>1. Presented(e, y) = Presented(e, x)
    BY DEF SameCall, Presented
<1>2. Replaces(e, y) <=> Replaces(e, x)
    BY <1>1 DEF SameCall, Replaces
<1> QED
    BY <1>1, <1>2 DEF SameCall, Allowance

\* What a link has cleared stays cleared.
LEMMA ClearedAgain ==
    ASSUME NEW e, NEW x, NEW y, Cleared(e, x), SameCall(x, y)
    PROVE  Cleared(e, y)
<1>1. y.method = x.method /\ y.token = x.token /\ y.session = x.session
    BY DEF SameCall
<1>2. /\ Presented(e, y) = Presented(e, x)
      /\ Replaces(e, y) <=> Replaces(e, x)
      /\ Allowance(e, y) = Allowance(e, x)
    BY CredentialAgain
<1>3. CASE x.session = NoOne
    BY <1>1, <1>3 DEF Cleared
<1>4. CASE x.session # NoOne
    BY <1>1, <1>2, <1>4 DEF Cleared, Vouched
<1> QED
    BY <1>3, <1>4

LEMMA SameCallTwice == \A x, y, z : SameCall(x, y) /\ SameCall(y, z) => SameCall(x, z)
BY DEF SameCall

\* The authorization links among the first n, those of them that took the
\* credential for someone else, and what the last of each decided.
Guards(chain, n) == {k \in 1..n : chain[k].kind = "authorization"}
Deputies(chain, n, y) == {k \in Guards(chain, n) : Replaces(chain[k], y)}
LastWord(chain, n, y) ==
    y.session # NoOne =>
        /\ \A k \in Guards(chain, n) :
            (\A j \in Guards(chain, n) : j <= k) => y.permissions = Allowance(chain[k], y)
        /\ \A k \in Deputies(chain, n, y) :
            (\A j \in Deputies(chain, n, y) : j <= k) => y.onBehalfOf = Presented(chain[k], y)

\* One more authorization link has the last word, unless it replaces nobody.
LEMMA LastWordMoves ==
    ASSUME NEW chain, NEW n \in Nat \ {0}, NEW x, NEW y, SameCall(x, y),
           LastWord(chain, n - 1, x),
           IF chain[n].kind = "authorization" THEN Leaves(chain[n], x, y) ELSE y = x
    PROVE  LastWord(chain, n, y)
<1>1. \A k : k \in Guards(chain, n) <=>
                k \in Guards(chain, n - 1) \/ (k = n /\ chain[n].kind = "authorization")
    BY DEF Guards
<1>2. \A k \in Guards(chain, n - 1) : k < n
    BY DEF Guards
<1>3. CASE chain[n].kind # "authorization"
    <2>1. Guards(chain, n) = Guards(chain, n - 1) /\ y = x
        BY <1>1, <1>3
    <2>2. Deputies(chain, n, y) = Deputies(chain, n - 1, x)
        BY <2>1 DEF Deputies
    <2> QED
        BY <2>1, <2>2 DEF LastWord
<1>4. CASE chain[n].kind = "authorization" /\ y.session # NoOne
    <2>1. x.session # NoOne
        BY <1>4 DEF SameCall
    <2>2. y.permissions = Allowance(chain[n], y)
        BY <1>4, <2>1 DEF Leaves
    <2>3. n \in Guards(chain, n)
        BY <1>1, <1>4
    <2>4. ASSUME NEW k \in Guards(chain, n), \A j \in Guards(chain, n) : j <= k PROVE k = n
        <3>1. n <= k
            BY <2>3, <2>4
        <3> QED
            BY <1>1, <1>2, <2>4, <3>1 DEF Guards
    <2>5. ASSUME NEW k \in Deputies(chain, n, y), \A j \in Deputies(chain, n, y) : j <= k
          PROVE  y.onBehalfOf = Presented(chain[k], y)
        <3>1. CASE k = n
            BY <1>4, <2>1, <2>5, <3>1 DEF Leaves, Deputies
        <3>2. CASE k # n
            <4>1. k \in Guards(chain, n - 1) /\ k < n
                BY <1>1, <1>2, <2>5, <3>2 DEF Deputies
            <4>2. ~Replaces(chain[n], y)
                <5>1. ~(n <= k)
                    BY <4>1 DEF Guards
                <5> QED
                    BY <2>3, <2>5, <5>1 DEF Deputies
            <4>3. y.onBehalfOf = x.onBehalfOf
                BY <1>4, <2>1, <4>2 DEF Leaves
            <4>4. \A e : Replaces(e, y) <=> Replaces(e, x)
                BY CredentialAgain
            <4>5. Deputies(chain, n - 1, x) \subseteq Deputies(chain, n, y)
                BY <1>1, <4>4 DEF Deputies
            <4>6. Replaces(chain[k], y)
                BY <2>5 DEF Deputies
            <4>7. k \in Deputies(chain, n - 1, x)
                BY <4>1, <4>4, <4>6 DEF Deputies
            <4>8. x.onBehalfOf = Presented(chain[k], x)
                BY <2>1, <2>5, <4>5, <4>7 DEF LastWord
            <4>9. Presented(chain[k], y) = Presented(chain[k], x)
                BY CredentialAgain
            <4> QED
                BY <4>3, <4>8, <4>9
        <3> QED
            BY <3>1, <3>2
    <2> QED
        BY <2>2, <2>4, <2>5 DEF LastWord
<1>5. CASE y.session = NoOne
    BY <1>5 DEF LastWord
<1> QED
    BY <1>3, <1>4, <1>5

\* Where the chain stands after i links.
Passage == [entered : Nat, status : Verdicts, context : CallContext]
Passed(chain, x, i, came) ==
    /\ came \in Passage /\ came.entered \in 0..i /\ SameCall(x, came.context)
    /\ came.status = "OK" =>
        /\ came.entered = i
        /\ \A k \in Guards(chain, i) : Cleared(chain[k], came.context)
        /\ LastWord(chain, i, came.context)

LEMMA EnterLinkEffect ==
    ASSUME NEW chain \in Seq(Interceptor), NEW i \in 1..Len(chain), NEW before \in Passage,
           NEW came, came = EnterLink(chain, i, before)
    PROVE  /\ came \in Passage
           /\ \A x : Passed(chain, x, i - 1, before) => Passed(chain, x, i, came)
<1>1. PICK link \in Interceptor : link = chain[i]
    OBVIOUS
<1>2. PICK y \in CallContext : y = before.context
    BY DEF Passage
<1>3. PICK out : out = LinkInbound(link, y)
    OBVIOUS
<1>4. /\ out.status \in Verdicts /\ out.context \in CallContext /\ SameCall(y, out.context)
      /\ out.status = "OK" =>
            IF link.kind = "authorization" THEN Cleared(link, out.context) /\ Leaves(link, y, out.context)
            ELSE out.context = y
    BY <1>3, LinkInboundEffect
<1>5. i \in Nat /\ i - 1 \in Nat
    OBVIOUS
<1>6. CASE before.status # "OK"
    <2>1. came = before
        BY <1>6 DEF EnterLink
    <2>2. \A x : Passed(chain, x, i - 1, before) => Passed(chain, x, i, before)
        BY <1>5, <1>6 DEF Passed
    <2> QED
        BY <2>1, <2>2
<1>7. CASE before.status = "OK"
    <2>1. came = [entered |-> IF out.status = "OK" THEN i ELSE i - 1,
                  status |-> out.status, context |-> out.context]
        BY <1>1, <1>2, <1>3, <1>7 DEF EnterLink
    <2>2. /\ came \in Passage /\ came.entered \in 0..i /\ came.status = out.status
          /\ came.context = out.context /\ (came.status = "OK" => came.entered = i)
        BY <1>4, <1>5, <2>1 DEF Passage
    <2>3. ASSUME NEW x, Passed(chain, x, i - 1, before)
          PROVE  Passed(chain, x, i, came)
        <3>1. SameCall(x, came.context)
            BY <1>2, <1>4, <2>2, <2>3, SameCallTwice DEF Passed
        <3>2. ASSUME came.status = "OK", NEW k \in Guards(chain, i)
              PROVE  Cleared(chain[k], came.context)
            <4>1. CASE k = i
                BY <1>1, <1>4, <2>2, <3>2, <4>1 DEF Guards
            <4>2. CASE k # i
                <5>1. k \in Guards(chain, i - 1)
                    BY <1>5, <3>2, <4>2 DEF Guards
                <5>2. Cleared(chain[k], y)
                    BY <1>2, <1>7, <2>3, <5>1 DEF Passed
                <5> QED
                    BY <1>4, <2>2, <5>2, ClearedAgain
            <4> QED
                BY <4>1, <4>2
        <3>3. ASSUME came.status = "OK" PROVE LastWord(chain, i, came.context)
            <4>1. LastWord(chain, i - 1, y)
                BY <1>2, <1>7, <2>3 DEF Passed
            <4>2. IF chain[i].kind = "authorization" THEN Leaves(chain[i], y, came.context)
                  ELSE came.context = y
                BY <1>1, <1>4, <2>2, <3>3
            <4>3. SameCall(y, came.context) /\ i \in Nat \ {0}
                BY <1>4, <1>5, <2>2
            <4> QED
                BY <4>1, <4>2, <4>3, LastWordMoves
        <3> QED
            BY <2>2, <3>1, <3>2, <3>3 DEF Passed
    <2> QED
        BY <2>2, <2>3
<1> QED
    BY <1>6, <1>7

LEMMA InboundEffect ==
    ASSUME NEW chain \in Seq(Interceptor), NEW x \in CallContext, NEW came, came = Inbound(chain, x)
    PROVE  Passed(chain, x, Len(chain), came)
<1>1. PICK n \in Nat : n = Len(chain)
    OBVIOUS
<1>2. PICK first \in Passage : first = Entering(x) /\ Passed(chain, x, 0, first)
    <2>1. Entering(x) \in Passage
        BY DEF Entering, Passage, Verdicts
    <2>2. Passed(chain, x, 0, Entering(x))
        BY <2>1 DEF Passed, Entering, SameCall, LastWord, Guards, Deputies
    <2> QED
        BY <2>1, <2>2
<1>3. PICK step : step = [p \in (1..n) \X Passage |-> EnterLink(chain, p[1], p[2])]
    OBVIOUS
<1>4. /\ step \in [(1..n) \X Passage -> Passage]
      /\ \A i \in 1..n, v \in Passage : step[<<i, v>>] = EnterLink(chain, i, v)
    BY <1>1, <1>3, EnterLinkEffect
<1>5. \A i \in 0..n : i = 0 \/ (i \in 1..n /\ i - 1 \in 0..n)
    OBVIOUS
<1>6. \E f : f = [i \in 0..n |-> IF i = 0 THEN Entering(x) ELSE EnterLink(chain, i, f[i - 1])]
    <2>1. PICK f \in [0..n -> Passage] : Follows(f, first, step, n)
        BY <1>4, FunctionByRecursion
    <2>2. \A i \in 0..n : f[i] = IF i = 0 THEN Entering(x) ELSE EnterLink(chain, i, f[i - 1])
        BY <1>2, <1>4, <1>5, <2>1 DEF Follows
    <2> QED
        BY <2>2
<1>7. PICK f : /\ f = [i \in 0..n |-> IF i = 0 THEN Entering(x) ELSE EnterLink(chain, i, f[i - 1])]
               /\ came = f[n]
    BY <1>1, <1>6 DEF Inbound
<1>8. PICK T : T = {i \in 0..n : Passed(chain, x, i, f[i])}
    OBVIOUS
<1>9. 0 \in T
    BY <1>2, <1>7, <1>8
<1>10. ASSUME NEW i \in 1..n, i - 1 \in T PROVE i \in T
    <2>1. i \in 0..n /\ i # 0 /\ Passed(chain, x, i - 1, f[i - 1])
        BY <1>8, <1>10
    <2>2. f[i] = EnterLink(chain, i, f[i - 1])
        BY <1>7, <2>1
    <2>3. f[i - 1] \in Passage
        BY <2>1 DEF Passed
    <2>4. Passed(chain, x, i, f[i])
        BY <1>1, <2>1, <2>2, <2>3, EnterLinkEffect
    <2> QED
        BY <1>8, <2>1, <2>4
<1>11. n \in T
    <2>1. 0..n \subseteq T
        BY <1>9, <1>10, IntervalInduction
    <2> QED
        BY <2>1
<1> QED
    BY <1>1, <1>7, <1>8, <1>11

-----------------------------------------------------------------------------
\* The inductive invariant, call by call: w is a call of the application, reg
\* the registry, chain the interceptors of the session.

Places == {"idle", "ready", "sent", "running", "done"}
Underway == {"sent", "running"}
Results == {"none", "OK", "NO_CALL_ID", "UNAVAILABLE", "RESOURCE_EXHAUSTED", "UNIMPLEMENTED",
            "FAILED_PRECONDITION", "DEADLINE_EXCEEDED", "UNAUTHENTICATED", "PERMISSION_DENIED"}
Work ==
    [at : Places, request : Nat, token : Tokens, ms : Nat, retry : RetryState, retryAt : Nat,
     id : 0..IdSpace, context : CallContext \cup {<<>>}, ins : Seq(Nat), outs : Seq(Nat),
     onward : SUBSET Nat, runs : Nat, exhausted : Nat, result : Results]

Named(reg, request) == (CHOOSE entry \in EntryFor(reg, request) : TRUE).method

\* Attempts and runs: where the call stands says how many there may have been.
Repeats(w, m) ==
    /\ w.retry.attempt \in 1..MaxAttempts
    /\ m.shape # UNARY => w.retry.attempt = 1
    /\ w.runs <= w.retry.attempt
    /\ ~SurvivesUnknownOutcome(m) => w.runs <= 1 + w.exhausted
    /\ w.at \in {"ready", "sent"} =>
        /\ w.runs < w.retry.attempt
        /\ ~SurvivesUnknownOutcome(m) => w.runs <= w.exhausted
    /\ w.at = "ready" /\ w.retry.attempt > 1 /\ w.retry.deadline # 0 => w.retryAt < w.retry.deadline

\* Links: a running call has entered the first ones of the chain.
Links(n) == [k \in 1..n |-> k]
Unwinding(w, chain) ==
    CASE w.at = "running" -> w.outs = <<>> /\ \E n \in 0..Len(chain) : w.ins = Links(n)
      [] w.at \in {"ready", "done"} -> w.outs = Reverse(w.ins)
      [] OTHER -> w.ins = <<>> /\ w.outs = <<>>

\* The context of a running call, with what the links let through.
Running(w, chain) ==
    /\ w.context \in CallContext
    /\ w.context.method.request = w.request
    /\ \A k \in Guards(chain, Len(w.ins)) : Cleared(chain[k], w.context)
    /\ LastWord(chain, Len(w.ins), w.context)
    /\ w.context.deadline # NoDeadline =>
        \A deadline \in w.onward : deadline # NoDeadline /\ deadline <= w.context.deadline

Sound(w, reg, chain) ==
    /\ Unwinding(w, chain)
    /\ w.at # "idle" => EntryFor(reg, w.request) # {} /\ Repeats(w, Named(reg, w.request))
    /\ w.at \in Underway => w.id \in Ids
    /\ w.at = "running" => Running(w, chain)
    /\ w.at # "running" => w.onward = {}

Configured ==
    /\ setup \in Setups /\ stage \in {"building", "built", "serving", "refused"}
    /\ builder \in Builder /\ IsFiniteSet(builder.reflection)
    /\ stage \in {"built", "serving"} => Acceptable(builder) /\ registry = Build(builder)
Serving ==
    /\ identity \in Identity /\ links \in Seq(Interceptor)
    /\ next \in Ids /\ now \in Nat
    /\ work \in [setup.calls -> Work]
    /\ stage # "serving" => \A c \in setup.calls : work[c].at = "idle"
Apart ==
    \A c, d \in setup.calls : work[c].at \in Underway /\ work[d].at \in Underway /\ work[c].id = work[d].id => c = d
Inv ==
    /\ Configured /\ Serving /\ Apart
    /\ \A c \in setup.calls : Sound(work[c], registry, links)

-----------------------------------------------------------------------------
\* The answer of reflection.

LEMMA InfoSendable ==
    ASSUME NEW m \in Method
    PROVE  SendableAll(InfoFields, Info(m)) /\ \E S, V : InfoFields \in Seq(S) /\ Info(m) \in Seq(V)
<1>1. DOMAIN InfoFields = 1..6 /\ DOMAIN Info(m) = 1..6
    BY DEF InfoFields, Info
<1>2. Sendable("string", m.name)
    <2>1. m.name \in Text
        BY DEF Method
    <2> QED
        BY <2>1 DEF Text, Bytes, Sendable, Byte
<1>5. {m.shape, m.request, CallerItemID(m), m.reply, m.safety} \subseteq U32
    <2>1. m.request \in U32 /\ m.item \in U32 /\ m.reply \in U32 /\ m.shape \in Byte /\ m.safety \in Byte
        BY DEF Method, Byte
    <2>2. CallerItemID(m) \in U32
        BY <2>1 DEF CallerItemID
    <2> QED
        BY <2>1, <2>2, ByteFits
<1>6. ASSUME NEW i \in 1..6 PROVE Sendable(InfoFields[i], Info(m)[i])
    <2>1. CASE i = 1
        BY <1>2, <2>1 DEF InfoFields, Info
    <2>2. CASE i # 1
        <3>1. InfoFields[i] = "u32"
            BY <2>2 DEF InfoFields
        <3>2. Info(m)[i] \in {m.shape, m.request, CallerItemID(m), m.reply, m.safety}
            <4>1. i \in {2, 3, 4, 5, 6}
                BY <2>2
            <4> QED
                BY <4>1 DEF Info
        <3> QED
            BY <1>5, <3>1, <3>2 DEF Sendable
    <2> QED
        BY <2>1, <2>2
<1>3. \E S : InfoFields \in Seq(S)
    <2>1. InfoFields \in Seq({"string", "u32"})
        BY DEF InfoFields
    <2> QED
        BY <2>1
<1>4. \E V : Info(m) \in Seq(V)
    <2>1. Info(m) \in Seq({m.name, m.shape, m.request, CallerItemID(m), m.reply, m.safety})
        BY DEF Info
    <2> QED
        BY <2>1
<1> QED
    BY <1>1, <1>3, <1>4, <1>6 DEF SendableAll

LEMMA InfoDecoded ==
    ASSUME NEW buf \in Seq(Byte), NEW pos, NEW m \in Method, Holds(buf, pos, EncodeModel(InfoFields, Info(m)))
    PROVE  DecodeFrom(InfoFields, buf, pos) = Decoded(Info(m), pos + Len(EncodeModel(InfoFields, Info(m))))
<1>1. PICK S, V : InfoFields \in Seq(S) /\ Info(m) \in Seq(V)
    BY InfoSendable
<1>2. SendableAll(InfoFields, Info(m))
    BY InfoSendable
<1> QED
    BY <1>1, <1>2, DecodeEffect

Elements(methods) == [i \in DOMAIN methods |-> EncodeModel(InfoFields, Info(methods[i]))]
Infos(methods) == [i \in DOMAIN methods |-> Info(methods[i])]

\* What the decoder of the answer makes of one more method.
NextMethod(buf, before) ==
    IF ~before.ok THEN before
    ELSE [ok |-> DecodeFrom(InfoFields, buf, before.pos).ok,
          methods |-> Append(before.methods, DecodeFrom(InfoFields, buf, before.pos).values),
          pos |-> DecodeFrom(InfoFields, buf, before.pos).pos]
Listed(methods, pos) == [ok |-> TRUE, methods |-> methods, pos |-> pos]

LEMMA ElementsType ==
    ASSUME NEW methods \in Seq(Method)
    PROVE  Elements(methods) \in Seq(Seq(Byte)) /\ Len(Elements(methods)) = Len(methods)
<1>1. PICK n \in Nat : n = Len(methods) /\ DOMAIN methods = 1..n
    BY LenProperties
<1>2. ASSUME NEW i \in 1..n PROVE EncodeModel(InfoFields, Info(methods[i])) \in Seq(Byte)
    <2>1. PICK T : InfoFields \in Seq(T)
        BY <1>1, InfoSendable
    <2>2. SendableAll(InfoFields, Info(methods[i]))
        BY <1>1, InfoSendable
    <2> QED
        BY <2>1, <2>2, PartsType
<1>3. Elements(methods) \in [1..n -> Seq(Byte)]
    BY <1>1, <1>2 DEF Elements
<1> QED
    BY <1>1, <1>3, SeqDef

\* The methods come back one by one, in the order they were written.
LEMMA MethodsDecoded ==
    ASSUME NEW buf \in Seq(Byte), NEW start, NEW methods \in Seq(Method),
           Holds(buf, start, FlattenSeq(Elements(methods)))
    PROVE  DecodeMethods(buf, Got(Len(methods), start)) =
               Listed(Infos(methods), start + Len(FlattenSeq(Elements(methods))))
<1>1. PICK n \in Nat : n = Len(methods) /\ DOMAIN methods = 1..n
    BY LenProperties
<1>2. PICK q : q = Elements(methods)
    OBVIOUS
<1>3. q \in Seq(Seq(Byte)) /\ Len(q) = n
    BY <1>1, <1>2, ElementsType
<1>4. PICK at : Begins(at, buf, start, q)
    BY <1>2, <1>3, HoldsEach
<1>5. PICK infos : infos = Infos(methods)
    OBVIOUS
<1>6. PICK I : I = {Info(methods[i]) : i \in 1..n}
    OBVIOUS
<1>7. infos \in Seq(I) /\ Len(infos) = n
    <2>1. infos \in [1..n -> I]
        BY <1>1, <1>5, <1>6 DEF Infos
    <2> QED
        BY <2>1, SeqDef
<1>8. ASSUME NEW i \in 1..n PROVE DecodeFrom(InfoFields, buf, at[i - 1]) = Decoded(infos[i], at[i])
    <2>1. q[i] = EncodeModel(InfoFields, Info(methods[i])) /\ methods[i] \in Method /\ infos[i] = Info(methods[i])
        BY <1>1, <1>2, <1>5 DEF Elements, Infos
    <2> QED
        BY <1>3, <1>4, <2>1, InfoDecoded DEF Begins
<1>9. PICK g : g = [i \in 0..n |-> Listed(SubSeq(infos, 1, i), at[i])]
    OBVIOUS
<1>10. g[0] = Listed(<<>>, start)
    <2>1. SubSeq(infos, 1, 0) = <<>>
        BY SubSeqEmpty
    <2>2. g[0] = Listed(SubSeq(infos, 1, 0), at[0])
        BY <1>9
    <2> QED
        BY <1>3, <1>4, <2>1, <2>2, Zenon DEF Begins
<1>11. g[n] = Listed(infos, start + Len(FlattenSeq(q)))
    <2>1. SubSeq(infos, 1, n) = infos
        BY <1>7, SubSeqFull
    <2>2. n \in 0..n
        OBVIOUS
    <2> QED
        BY <1>3, <1>4, <1>9, <2>1, <2>2 DEF Begins
<1>12. ASSUME NEW i \in 1..n PROVE g[i] = NextMethod(buf, g[i - 1])
    <2>1. i - 1 \in 0..n /\ i \in 0..n
        OBVIOUS
    <2>2. g[i - 1] = Listed(SubSeq(infos, 1, i - 1), at[i - 1]) /\ g[i] = Listed(SubSeq(infos, 1, i), at[i])
        BY <1>9, <2>1
    <2>3. Append(SubSeq(infos, 1, i - 1), infos[i]) = SubSeq(infos, 1, i)
        BY <1>7, CutGrows
    <2>4. PICK p : p = SubSeq(infos, 1, i - 1)
        OBVIOUS
    <2>5. NextMethod(buf, Listed(p, at[i - 1])) = Listed(Append(p, infos[i]), at[i])
        <3>1. PICK element : element = DecodeFrom(InfoFields, buf, at[i - 1])
            OBVIOUS
        <3>2. PICK v, end : v = infos[i] /\ end = at[i]
            OBVIOUS
        <3>3. element = Decoded(v, end)
            BY <1>8, <3>1, <3>2, Zenon
        <3>4. element.ok /\ element.values = v /\ element.pos = end
            BY <3>3 DEF Decoded
        <3> QED
            BY <3>1, <3>2, <3>4 DEF NextMethod, Listed
    <2> QED
        BY <2>2, <2>3, <2>4, <2>5
<1>13. g = [i \in 0..n |-> IF i = 0 THEN Listed(<<>>, start) ELSE NextMethod(buf, g[i - 1])]
    <2>1. g = [i \in 0..n |-> g[i]]
        BY <1>9
    <2>2. \A i \in 0..n : i = 0 \/ i \in 1..n
        OBVIOUS
    <2>3. \A i \in 0..n : g[i] = IF i = 0 THEN Listed(<<>>, start) ELSE NextMethod(buf, g[i - 1])
        BY <1>10, <1>12, <2>2
    <2> QED
        BY <2>1, <2>3
<1>25. PICK count : count = Got(n, start)
    OBVIOUS
<1>14. count.ok = TRUE /\ count.value = n /\ count.pos = start
    BY <1>25 DEF Got
<1> DEFINE b == CHOOSE f : f = [i \in 0..count.value |->
           IF i = 0 THEN [ok |-> count.ok, methods |-> <<>>, pos |-> count.pos]
           ELSE NextMethod(buf, f[i - 1])]
<1>15. DecodeMethods(buf, count) = b[count.value]
    BY DEF DecodeMethods, NextMethod
<1>16. [ok |-> count.ok, methods |-> <<>>, pos |-> count.pos] = Listed(<<>>, start)
    BY <1>14 DEF Listed
<1>17. g = [i \in 0..count.value |->
           IF i = 0 THEN [ok |-> count.ok, methods |-> <<>>, pos |-> count.pos]
           ELSE NextMethod(buf, g[i - 1])]
    BY <1>13, <1>14, <1>16, Zenon
<1>18. b = [i \in 0..count.value |->
           IF i = 0 THEN [ok |-> count.ok, methods |-> <<>>, pos |-> count.pos]
           ELSE NextMethod(buf, b[i - 1])]
    BY <1>17
<1> HIDE DEF b
<1>19. b = [i \in 0..n |-> IF i = 0 THEN Listed(<<>>, start) ELSE NextMethod(buf, b[i - 1])]
    BY <1>14, <1>16, <1>18, Zenon
<1>20. PICK T : T = {i \in 0..n : b[i] = g[i]}
    OBVIOUS
<1>21. 0 \in T
    BY <1>10, <1>19, <1>20
<1>22. ASSUME NEW i \in 1..n, i - 1 \in T PROVE i \in T
    <2>1. i \in 0..n /\ i # 0 /\ b[i - 1] = g[i - 1]
        BY <1>20, <1>22
    <2>2. b[i] = NextMethod(buf, b[i - 1])
        BY <1>19, <2>1
    <2> QED
        BY <1>12, <1>20, <2>1, <2>2
<1>23. 0..n \subseteq T
    BY <1>21, <1>22, IntervalInduction
<1>24. b[n] = g[n]
    BY <1>20, <1>23
<1> QED
    BY <1>1, <1>2, <1>5, <1>11, <1>14, <1>15, <1>24, <1>25

\* What the decoder finds is what the answer was made from.
LEMMA AnswerDecoded ==
    ASSUME NEW methods \in Seq(Method), Len(methods) \in U32
    PROVE  DecodeReflectResponse(EncodeReflectResponse(methods)) =
               [ok |-> TRUE, methods |-> Infos(methods), json |-> SchemaJSON]
<1>1. PICK n \in Nat : n = Len(methods) /\ n \in U32
    BY LenProperties
<1>2. PICK head, body, json : head = Word(n) /\ body = FlattenSeq(Elements(methods)) /\ json = Put("bytes", SchemaJSON)
    OBVIOUS
<1>3. head \in Seq(Byte) /\ Len(head) = WordLen
    BY <1>1, <1>2, WordBytes
<1>4. body \in Seq(Byte)
    <2>1. PICK q : q = Elements(methods) /\ q \in Seq(Seq(Byte))
        BY ElementsType
    <2>2. PICK h \in [0..Len(q) -> Seq(Byte)] : h[Len(q)] = FlattenSeq(q)
        BY <2>1, FlattenEffect
    <2>3. Len(q) \in 0..Len(q)
        BY <2>1, LenProperties
    <2> QED
        BY <1>2, <2>1, <2>2, <2>3
<1>5. Sendable("bytes", SchemaJSON)
    BY RegistryConstants DEF Sendable, Bytes, Byte
<1>6. json \in Seq(Byte)
    BY <1>2, <1>5, PutBytes
<1>7. PICK buf : buf = EncodeReflectResponse(methods)
    OBVIOUS
<1>8. buf = (head \o body) \o json
    BY <1>1, <1>2, <1>7 DEF EncodeReflectResponse, Elements
<1>9. head \o body \in Seq(Byte) /\ buf \in Seq(Byte)
    BY <1>3, <1>4, <1>6, <1>8, ConcatProperties
<1>10. PICK l \in Nat : l = Len(body) /\ Len(head \o body) = WordLen + l
    BY <1>3, <1>4, ConcatProperties, LenProperties
<1>11. Holds(buf, 0, head \o body) /\ Holds(buf, 0 + Len(head \o body), json)
    BY <1>6, <1>8, <1>9, HoldsAll, HoldsParts
<1>12. Holds(buf, 0, head) /\ Holds(buf, 0 + Len(head), body)
    BY <1>3, <1>4, <1>9, <1>11, HoldsParts
<1>13. WordLen \in Nat /\ 0 + WordLen = WordLen /\ 0 + (WordLen + l) = WordLen + l
    BY WordLenPositive
<1>14. ReadField("u32", buf, 0) = Got(n, WordLen)
    <2>1. Sendable("u32", n) /\ Put("u32", n) = head
        BY <1>1, <1>2 DEF Sendable, Put
    <2> QED
        BY <1>3, <1>9, <1>12, <1>13, <2>1, HoldsField
<1>15. DecodeMethods(buf, Got(n, WordLen)) = Listed(Infos(methods), WordLen + l)
    <2>1. Holds(buf, WordLen, FlattenSeq(Elements(methods)))
        BY <1>2, <1>3, <1>12, <1>13
    <2> QED
        BY <1>1, <1>2, <1>9, <1>10, <2>1, MethodsDecoded
<1>16. ReadField("bytes", buf, WordLen + l) = Got(SchemaJSON, WordLen + l + Len(json))
    BY <1>2, <1>5, <1>9, <1>10, <1>11, <1>13, HoldsField
<1>17. PICK elements, field : /\ elements = Listed(Infos(methods), WordLen + l)
                              /\ field = Got(SchemaJSON, WordLen + l + Len(json))
    OBVIOUS
<1>18. DecodeReflectResponse(buf) = DecodeJSON(buf, elements)
    BY <1>14, <1>15, <1>17 DEF DecodeReflectResponse
<1>19. elements.pos = WordLen + l /\ elements.ok = TRUE /\ elements.methods = Infos(methods)
    BY <1>17 DEF Listed
<1>20. field.ok = TRUE /\ field.value = SchemaJSON
    BY <1>17 DEF Got
<1>21. DecodeJSON(buf, elements) = [ok |-> TRUE, methods |-> Infos(methods), json |-> SchemaJSON]
    BY <1>16, <1>17, <1>19, <1>20 DEF DecodeJSON
<1> QED
    BY <1>7, <1>18, <1>21

-----------------------------------------------------------------------------
\* The registry.

LEMMA SetToSeqType ==
    ASSUME NEW S, IsFiniteSet(S)
    PROVE  SetToSeq(S) \in Seq(S)
<1>1. PICK n \in Nat : n = Cardinality(S) /\ ExistsBijection(1..n, S)
    BY FS_CardinalityType
<1>2. \E f \in [1..n -> S] : IsInjective(f)
    BY <1>1 DEF ExistsBijection, Bijection, Injection, IsInjective
<1>3. SetToSeq(S) \in [1..n -> S]
    BY <1>1, <1>2 DEF SetToSeq
<1> QED
    BY <1>1, <1>3

LEMMA ReflectMethodType ==
    ASSUME NEW r \in [request : U32, reply : U32]
    PROVE  ReflectMethod(r) \in Method
<1>1. PICK name \in Text : name = ReflectName
    <2>1. ReflectName \in Seq(0..255) /\ Len(ReflectName) = 1 /\ ReflectName[1] = 82
        BY DEF ReflectName
    <2>2. Len(ReflectName) \in U32
        BY <2>1, ByteFits DEF Byte
    <2>3. DOMAIN ReflectName = 1..1
        BY DEF ReflectName
    <2>4. ValidUTF8(ReflectName)
        BY <2>1, <2>3 DEF ValidUTF8
    <2>5. ReflectName \in Text
        BY <2>1, <2>2, <2>4 DEF Text, Bytes
    <2> QED
        BY <2>5
<1>2. PICK request \in U32, reply \in U32 : request = r.request /\ reply = r.reply
    OBVIOUS
<1>3. PICK plain : plain =
        [name |-> name, shape |-> 0, request |-> request, item |-> 0, hasItem |-> FALSE,
         reply |-> reply, permission |-> "", safety |-> 0]
    OBVIOUS
<1>4. Unary(name, request, reply) = plain
    BY <1>3 DEF Unary, MethodOf, UNARY, UNSAFE
<1>5. ReflectMethod(r) = [plain EXCEPT !.safety = 1]
    BY <1>1, <1>2, <1>4 DEF ReflectMethod, Idempotent, IDEMPOTENT
<1>6. plain \in Method
    <2>1. 0 \in 0..3 /\ 0 \in 0..2 /\ 0 \in U32
        BY ByteFits DEF Byte
    <2> QED
        BY <1>3, <2>1, EmptyString DEF Method
<1>7. [plain EXCEPT !.safety = 1] \in Method
    <2>1. 1 \in 0..2
        OBVIOUS
    <2> QED
        BY <1>6, <2>1 DEF Method
<1> QED
    BY <1>5, <1>7

LEMMA AllEntriesType ==
    ASSUME NEW b \in Builder, IsFiniteSet(b.reflection)
    PROVE  AllEntries(b) \in Seq(Entry)
<1>1. PICK R : R = b.reflection /\ R \subseteq [request : U32, reply : U32] /\ IsFiniteSet(R)
    BY DEF Builder
<1>2. PICK S : S = {[method |-> ReflectMethod(r), served |-> TRUE] : r \in R}
    OBVIOUS
<1>3. IsFiniteSet(S)
    <2>1. PICK f : f = [r \in R |-> [method |-> ReflectMethod(r), served |-> TRUE]]
        OBVIOUS
    <2>2. f \in Surjection(R, S)
        BY <1>2, <2>1 DEF Surjection
    <2> QED
        BY <1>1, <2>2, FS_Surjection
<1>4. S \subseteq Entry
    <2>1. ASSUME NEW r \in R PROVE [method |-> ReflectMethod(r), served |-> TRUE] \in Entry
        <3>1. PICK m \in Method : m = ReflectMethod(r)
            BY <1>1, ReflectMethodType
        <3>2. [method |-> m, served |-> TRUE] \in Entry
            BY DEF Entry
        <3> QED
            BY <3>1, <3>2
    <2> QED
        BY <1>2, <2>1
<1>5. SetToSeq(S) \in Seq(Entry)
    <2>1. SetToSeq(S) \in Seq(S)
        BY <1>3, SetToSeqType
    <2> QED
        BY <1>4, <2>1
<1>6. b.entries \in Seq(Entry)
    BY DEF Builder
<1>7. AllEntries(b) = b.entries \o SetToSeq(S)
    BY <1>1, <1>2 DEF AllEntries
<1> QED
    BY <1>5, <1>6, <1>7

\* A REQUEST that names an entry is dispatched to a method of that request type.
LEMMA NamedEffect ==
    ASSUME NEW b \in Builder, IsFiniteSet(b.reflection), NEW reg, reg = Build(b),
           NEW request, EntryFor(reg, request) # {}
    PROVE  Named(reg, request) \in Method /\ Named(reg, request).request = request
<1>1. reg.entries = AllEntries(b)
    BY DEF Build
<1>2. PICK entries \in Seq(Entry) : entries = reg.entries
    BY <1>1, AllEntriesType
<1>3. PICK entry : entry = (CHOOSE e \in EntryFor(reg, request) : TRUE) /\ entry \in EntryFor(reg, request)
    OBVIOUS
<1>4. PICK i \in DOMAIN entries : entry = entries[i] /\ entries[i].method.request = request
    BY <1>2, <1>3 DEF EntryFor
<1>5. entries[i] \in Entry
    BY <1>2, <1>4
<1>6. entry.method \in Method
    BY <1>4, <1>5 DEF Entry
<1> QED
    BY <1>3, <1>4, <1>6 DEF Named

-----------------------------------------------------------------------------
\* Reflection lists what is served.

\* served are the places of the served entries in all, each once; methods are theirs.
Picks(served, methods, all) ==
    /\ methods = [k \in DOMAIN served |-> all[served[k]].method]
    /\ methods \in Seq(Method) /\ Len(methods) \in U32 /\ DOMAIN served = DOMAIN methods
    /\ \A k \in DOMAIN served : served[k] \in DOMAIN all /\ all[served[k]].served
    /\ \A j, k \in DOMAIN served : served[j] = served[k] => j = k
    /\ \A i \in DOMAIN all : all[i].served => \E k \in DOMAIN served : served[k] = i

\* The sorted places of the served entries are such places.
LEMMA ServedEffect ==
    ASSUME NEW b \in Builder, IsFiniteSet(b.reflection), Acceptable(b),
           NEW all, all = AllEntries(b)
    PROVE  \E served : Picks(served, ServedMethods(b), all)
<1>1. all \in Seq(Entry)
    BY AllEntriesType
<1>2. PICK n \in Nat : n = Len(all) /\ DOMAIN all = 1..n /\ n <= MaxMethods
    BY <1>1, LenProperties DEF Acceptable
<1>3. PICK D \in SUBSET (1..n) : D = {i \in DOMAIN all : all[i].served}
    BY <1>2
<1>4. IsFiniteSet(D) /\ D \in SUBSET Nat /\ Cardinality(D) \in 0..n
    <2>1. IsFiniteSet(1..n) /\ Cardinality(1..n) = n
        BY FS_Interval
    <2>2. IsFiniteSet(D) /\ Cardinality(D) <= n
        BY <2>1, FS_Subset
    <2>3. Cardinality(D) \in Nat
        BY <2>2, FS_CardinalityType
    <2> QED
        BY <2>2, <2>3
<1>5. PICK k \in 0..n : k = Cardinality(D)
    BY <1>4
<1>6. PICK served : served = SortedKeys(D)
    OBVIOUS
<1>7. served \in [1..k -> D] /\ Ascending(served, k) /\ \A i \in D : \E j \in 1..k : served[j] = i
    BY <1>4, <1>5, <1>6, SortedKeysType
<1>8. PICK methods : methods = ServedMethods(b)
    OBVIOUS
<1>9. methods = [j \in 1..k |-> all[served[j]].method]
    BY <1>3, <1>6, <1>7, <1>8 DEF ServedMethods
<1>10. \A j \in 1..k : served[j] \in 1..n /\ all[served[j]].served /\ all[served[j]].method \in Method
    <2>1. \A i \in 1..n : all[i] \in Entry
        BY <1>1, <1>2, ElementOfSeq
    <2>2. \A i \in 1..n : all[i].method \in Method
        BY <2>1 DEF Entry
    <2> QED
        BY <1>3, <1>7, <2>2
<1>11. methods \in Seq(Method) /\ Len(methods) = k /\ DOMAIN methods = 1..k
    <2>1. methods \in [1..k -> Method]
        BY <1>9, <1>10
    <2> QED
        BY <2>1, SeqDef
<1>12. k \in U32
    <2>1. MaxMethods \in U32 /\ k \in 0..MaxMethods
        <3>1. MaxMethods \in Nat
            BY RegistryConstants DEF U32
        <3> QED
            BY <1>2, <3>1, RegistryConstants
    <2> QED
        BY <2>1, FitsBelow
<1>13. \A i, j \in 1..k : served[i] = served[j] => i = j
    <2>1. ASSUME NEW i \in 1..k, NEW j \in 1..k, served[i] = served[j] PROVE i = j
        <3>1. served[i] \in 1..n /\ served[j] \in 1..n
            BY <1>10
        <3>2. (i < j => served[i] < served[j]) /\ (j < i => served[j] < served[i])
            BY <1>7 DEF Ascending
        <3> QED
            BY <2>1, <3>1, <3>2
    <2> QED
        BY <2>1
<1> QED
    <2>1. DOMAIN served = 1..k
        BY <1>7
    <2>2. \A i \in DOMAIN all : all[i].served => \E j \in 1..k : served[j] = i
        BY <1>3, <1>7
    <2>3. Picks(served, methods, all)
        BY <1>2, <1>9, <1>10, <1>11, <1>12, <1>13, <2>1, <2>2 DEF Picks
    <2> QED
        BY <1>8, <2>3

LEMMA ReflectionEffect ==
    ASSUME builder \in Builder, IsFiniteSet(builder.reflection), builder.reflection # {},
           Acceptable(builder), registry = Build(builder)
    PROVE  Truthful(DecodeReflectResponse(registry.answer))
<1>1. PICK all : all = AllEntries(builder)
    OBVIOUS
<1>2. PICK methods : methods = ServedMethods(builder)
    OBVIOUS
<1>3. PICK served : Picks(served, methods, all)
    BY <1>1, <1>2, ServedEffect
<1>4. PICK answer : answer = [ok |-> TRUE, methods |-> Infos(methods), json |-> SchemaJSON]
    OBVIOUS
<1>5. DecodeReflectResponse(registry.answer) = answer
    <2>1. registry.answer = EncodeReflectResponse(methods)
        BY <1>2 DEF Build
    <2> QED
        BY <1>3, <1>4, <2>1, AnswerDecoded DEF Picks
<1>6. /\ registry.entries = all
      /\ registry.ids = SystemIDs(builder) \cup UNION {MessageIDs(all[i].method) : i \in DOMAIN all}
    BY <1>1 DEF Build
<1>7. \A i, j \in DOMAIN all : all[i].method.request = all[j].method.request => i = j
    BY <1>1 DEF Acceptable
<1>8. \A i \in DOMAIN all : EntryFor(registry, all[i].method.request) = {all[i]}
    BY <1>6, <1>7 DEF EntryFor
<1>9. /\ DOMAIN answer.methods = DOMAIN served
      /\ \A k \in DOMAIN served : answer.methods[k] = Info(all[served[k]].method)
                                  /\ answer.methods[k][3] = all[served[k]].method.request
    <2>1. answer.methods = Infos(methods)
        BY <1>4
    <2>2. \A m : Info(m)[3] = m.request
        BY DEF Info
    <2> QED
        BY <1>3, <2>1, <2>2 DEF Infos, Picks
<1>10. \A i, j \in DOMAIN answer.methods : answer.methods[i][3] = answer.methods[j][3] => i = j
    BY <1>3, <1>7, <1>9 DEF Picks
<1>11. {answer.methods[i][3] : i \in DOMAIN answer.methods} =
           {id \in registry.ids : \E entry \in EntryFor(registry, id) : entry.served}
    <2>1. ASSUME NEW k \in DOMAIN served
          PROVE  answer.methods[k][3] \in {id \in registry.ids : \E entry \in EntryFor(registry, id) : entry.served}
        <3>1. PICK i \in DOMAIN all : i = served[k] /\ all[i].served /\ answer.methods[k][3] = all[i].method.request
            BY <1>3, <1>9 DEF Picks
        <3>2. all[i].method.request \in registry.ids
            BY <1>6 DEF MessageIDs
        <3>3. all[i] \in EntryFor(registry, all[i].method.request)
            BY <1>8
        <3> QED
            BY <3>1, <3>2, <3>3
    <2>2. ASSUME NEW id \in registry.ids, NEW entry \in EntryFor(registry, id), entry.served
          PROVE  id \in {answer.methods[k][3] : k \in DOMAIN served}
        <3>1. PICK i \in DOMAIN all : entry = all[i] /\ all[i].method.request = id
            BY <1>6 DEF EntryFor
        <3>2. PICK k \in DOMAIN served : served[k] = i
            BY <1>3, <2>2, <3>1 DEF Picks
        <3> QED
            BY <1>9, <3>1, <3>2
    <2> QED
        BY <1>9, <2>1, <2>2
<1>12. ASSUME NEW k \in DOMAIN answer.methods, NEW entry \in EntryFor(registry, answer.methods[k][3])
       PROVE  answer.methods[k] = Info(entry.method)
    <2>1. PICK i \in DOMAIN all : i = served[k] /\ answer.methods[k] = Info(all[i].method)
                                  /\ answer.methods[k][3] = all[i].method.request
        BY <1>3, <1>9 DEF Picks
    <2>2. entry = all[i]
        BY <1>8, <2>1
    <2> QED
        BY <2>1, <2>2
<1>13. answer.ok /\ answer.json = SchemaJSON
    BY <1>4
<1>14. Truthful(answer)
    BY <1>10, <1>11, <1>12, <1>13 DEF Truthful
<1> QED
    BY <1>5, <1>14

-----------------------------------------------------------------------------
\* What the steps do to one call.

LEMMA NoIdType == NoId \in 0..IdSpace
BY IdSpaceEven DEF NoId

LEMMA IdleType == Idle \in Work
<1>1. NewRetryState(0, 0) \in RetryState
    BY DEF NewRetryState, RetryState
<1>2. NoToken \in Tokens
    BY ServiceConstants
<1>3. <<>> \in Seq(Nat) /\ <<>> \in CallContext \cup {<<>>} /\ {} \in SUBSET Nat /\ 0 \in Nat
    OBVIOUS
<1>4. "idle" \in Places /\ "none" \in Results
    BY DEF Places, Results
<1> QED
    BY <1>1, <1>2, <1>3, <1>4, NoIdType DEF Idle, Work

Failures == Results \ {"none", "OK", "NO_CALL_ID"}

LEMMA AfterFailureEffect ==
    ASSUME NEW w \in Work, NEW status \in Failures, now \in Nat,
           NEW m \in Method, m = MethodFor(w.request), NEW v, v = AfterFailure(w, status)
    PROVE  /\ v \in Work /\ v.at \in {"ready", "done"} /\ v.result \in {"none", status}
           /\ v.request = w.request /\ v.ins = w.ins /\ v.outs = w.outs /\ v.onward = w.onward
           /\ v.runs = w.runs /\ v.exhausted = w.exhausted
           /\ v.at = "done" => v.retry = w.retry
           /\ v.at = "ready" =>
                /\ m.shape = UNARY /\ ~UnsafeToRepeat(status, m) /\ status \in Retryable
                /\ w.retry.attempt < MaxAttempts
                /\ v.retry.attempt = w.retry.attempt + 1
                /\ v.retry.deadline = w.retry.deadline
                /\ w.retry.deadline # 0 => v.retryAt < w.retry.deadline
<1>1. PICK s \in RetryState : s = w.retry
    BY DEF Work
<1>2. PICK t \in Nat : t = now
    OBVIOUS
<1>2a. PICK decision : decision = OnFailure(s, status, m, t)
    OBVIOUS
<1>3. Justified(decision, s, status, m)
    BY <1>2a, OnFailureEffect
<1>4. PICK place \in {"ready", "done"} : place = IF decision.retry THEN "ready" ELSE "done"
    OBVIOUS
<1>5. PICK state \in RetryState : state = decision.state
    BY <1>3 DEF Justified
<1>6. PICK when \in Nat : when = IF decision.retry THEN decision.at ELSE 0
    BY <1>3 DEF Justified
<1>7. PICK result \in {"none", status} : result = IF decision.retry THEN "none" ELSE status
    OBVIOUS
<1>8. v = [w EXCEPT !.at = place, !.retry = state, !.retryAt = when, !.id = NoId, !.result = result]
    BY <1>1, <1>2, <1>2a, <1>4, <1>5, <1>6, <1>7 DEF AfterFailure
<1>9. place \in Places /\ result \in Results
    BY <1>4, <1>7 DEF Places, Results, Failures
<1>10. v \in Work
    BY <1>8, <1>9, NoIdType DEF Work
<1>11. /\ v.at = place /\ v.retry = state /\ v.retryAt = when /\ v.result = result
       /\ v.request = w.request /\ v.ins = w.ins /\ v.outs = w.outs /\ v.onward = w.onward
       /\ v.runs = w.runs /\ v.exhausted = w.exhausted
    BY <1>8 DEF Work
<1>12. CASE decision.retry
    BY <1>1, <1>3, <1>4, <1>5, <1>6, <1>7, <1>10, <1>11, <1>12 DEF Justified
<1>13. CASE ~decision.retry
    BY <1>1, <1>3, <1>4, <1>5, <1>6, <1>7, <1>10, <1>11, <1>13 DEF Justified
<1> QED
    BY <1>12, <1>13

\* u is what a failure makes of a call, but for what it counts as an answer of
\* RESOURCE_EXHAUSTED and for the links it names.
FailedAs(u, v) ==
    /\ u.at = v.at /\ u.retry = v.retry /\ u.retryAt = v.retryAt /\ u.runs = v.runs
    /\ u.request = v.request /\ u.onward = v.onward
    /\ u.exhausted \in {v.exhausted, v.exhausted + 1}

LEMMA RepeatsAgain ==
    ASSUME NEW w \in Work, NEW status \in Failures, now \in Nat,
           NEW m \in Method, m = MethodFor(w.request), NEW v, v = AfterFailure(w, status),
           Repeats(w, m), NEW u \in Work, FailedAs(u, v),
           w.at = "sent" \/ (status = "RESOURCE_EXHAUSTED" => u.exhausted = v.exhausted + 1)
    PROVE  Repeats(u, m)
<1>1. /\ v \in Work /\ v.at \in {"ready", "done"}
      /\ v.runs = w.runs /\ v.exhausted = w.exhausted
      /\ v.at = "done" => v.retry = w.retry
      /\ v.at = "ready" =>
            /\ m.shape = UNARY /\ ~UnsafeToRepeat(status, m) /\ status \in Retryable
            /\ w.retry.attempt < MaxAttempts
            /\ v.retry.attempt = w.retry.attempt + 1
            /\ v.retry.deadline = w.retry.deadline
            /\ w.retry.deadline # 0 => v.retryAt < w.retry.deadline
    BY AfterFailureEffect
<1>2. PICK a \in Nat, runs \in Nat, exhausted \in Nat :
        a = w.retry.attempt /\ runs = w.runs /\ exhausted = w.exhausted
    BY DEF Work, RetryState
<1>3. /\ a \in 1..MaxAttempts /\ runs <= a /\ (m.shape # UNARY => a = 1)
      /\ ~SurvivesUnknownOutcome(m) => runs <= 1 + exhausted
      /\ w.at = "sent" => runs < a /\ (~SurvivesUnknownOutcome(m) => runs <= exhausted)
    BY <1>2 DEF Repeats
<1>4. PICK more \in Nat : more = u.exhausted /\ more \in {exhausted, exhausted + 1}
    BY <1>1, <1>2 DEF FailedAs
<1>5. MaxAttempts \in Nat
    BY ServiceConstants
<1>6. CASE v.at = "done"
    <2>1. u.at = "done" /\ u.retry.attempt = a /\ u.runs = runs
        BY <1>1, <1>2, <1>6 DEF FailedAs
    <2>2. ~SurvivesUnknownOutcome(m) => runs <= 1 + more
        BY <1>3, <1>4
    <2> QED
        BY <1>3, <1>4, <2>1, <2>2 DEF Repeats
<1>7. CASE v.at = "ready"
    <2>1. u.at = "ready" /\ u.retry.attempt = a + 1 /\ u.runs = runs /\ a < MaxAttempts /\ m.shape = UNARY
        BY <1>1, <1>2, <1>7 DEF FailedAs
    <2>2. u.retry.deadline # 0 => u.retryAt < u.retry.deadline
        BY <1>1, <1>7 DEF FailedAs
    <2>3. ~SurvivesUnknownOutcome(m) => status = "RESOURCE_EXHAUSTED"
        BY <1>1, <1>7 DEF UnsafeToRepeat, Retryable
    <2>4. ~SurvivesUnknownOutcome(m) => runs <= more
        BY <1>1, <1>2, <1>3, <1>4, <2>3
    <2>5. /\ a + 1 \in 1..MaxAttempts /\ runs <= a + 1 /\ runs < a + 1
          /\ ~SurvivesUnknownOutcome(m) => runs <= 1 + more
        BY <1>3, <1>4, <1>5, <2>1, <2>4
    <2> QED
        BY <1>4, <2>1, <2>2, <2>4, <2>5 DEF Repeats
<1> QED
    BY <1>1, <1>6, <1>7

LEMMA LinksType ==
    ASSUME NEW n \in Nat
    PROVE  Links(n) \in Seq(Nat) /\ Len(Links(n)) = n /\ DOMAIN Links(n) = 1..n /\ \A k \in 1..n : Links(n)[k] = k
<1>1. Links(n) \in [1..n -> Nat] /\ \A k \in 1..n : Links(n)[k] = k
    BY DEF Links
<1> QED
    BY <1>1

\* Outbound calls the links that were entered, the last one first.
LEMMA OutboundEffect ==
    ASSUME NEW chain \in Seq(Interceptor), NEW n \in 0..Len(chain)
    PROVE  Outbound(chain, n) \in Seq(Nat) /\ Outbound(chain, n) = Reverse(Links(n))
<1>1. n \in Nat /\ (n < Len(chain) \/ n = Len(chain))
    OBVIOUS
<1>2. PICK l \in Seq(Nat) : l = Links(n) /\ Len(l) = n /\ \A k \in 1..n : l[k] = k
    BY <1>1, LinksType
<1>3. Outbound(chain, n) = [k \in 1..n |-> n + 1 - k]
    BY <1>1 DEF Outbound
<1>4. [k \in 1..n |-> n + 1 - k] \in Seq(Nat)
    <2>1. \A k \in 1..n : n + 1 - k \in Nat
        BY <1>1
    <2>2. [k \in 1..n |-> n + 1 - k] \in [1..n -> Nat]
        BY <2>1
    <2> QED
        BY <1>1, <2>2
<1>5. Reverse(l) = [k \in 1..n |-> n + 1 - k]
    <2>1. \A k \in 1..n : n - k + 1 \in 1..n /\ n - k + 1 = n + 1 - k
        BY <1>1
    <2>2. Reverse(l) = [k \in 1..n |-> l[n - k + 1]]
        BY <1>2 DEF Reverse
    <2> QED
        BY <1>2, <2>1, <2>2
<1> QED
    BY <1>2, <1>3, <1>4, <1>5

\* A chain that grows leaves the links a call has entered where they were.
LEMMA SoundWithMore ==
    ASSUME NEW w \in Work, NEW reg, NEW chain \in Seq(Interceptor), NEW link \in Interceptor,
           Sound(w, reg, chain)
    PROVE  Sound(w, reg, Append(chain, link))
<1>1. PICK longer \in Seq(Interceptor) :
        /\ longer = Append(chain, link) /\ Len(longer) = Len(chain) + 1
        /\ \A k \in 1..Len(chain) : longer[k] = chain[k]
    <2>1. Append(chain, link) \in Seq(Interceptor)
        BY AppendProperties
    <2>2. Len(Append(chain, link)) = Len(chain) + 1
        BY AppendProperties
    <2>3. \A k \in 1..Len(chain) : Append(chain, link)[k] = chain[k]
        BY AppendProperties
    <2> QED
        BY <2>1, <2>2, <2>3
<1>2. PICK n \in Nat : n = Len(chain) /\ Len(longer) = n + 1 /\ \A k \in 1..n : longer[k] = chain[k]
    BY <1>1
<1>3. CASE w.at # "running"
    BY <1>3 DEF Sound, Unwinding
<1>4. CASE w.at = "running"
    <2>1. PICK e \in 0..n : w.ins = Links(e)
        BY <1>2, <1>4 DEF Sound, Unwinding
    <2>2. e \in 0..Len(longer) /\ 1..e \subseteq 1..n /\ e \in Nat
        BY <1>2
    <2>3. Len(w.ins) = e /\ \A k \in 1..e : longer[k] = chain[k]
        BY <1>2, <2>1, <2>2, LinksType
    <2>4. Running(w, longer)
        <3>1. Guards(longer, e) = Guards(chain, e) /\ \A k \in Guards(chain, e) : longer[k] = chain[k]
            BY <2>3 DEF Guards
        <3>2. Deputies(longer, e, w.context) = Deputies(chain, e, w.context)
            BY <3>1 DEF Deputies
        <3>3. LastWord(chain, e, w.context) => LastWord(longer, e, w.context)
            BY <3>1, <3>2 DEF LastWord, Deputies
        <3> QED
            BY <1>4, <2>3, <3>1, <3>3 DEF Sound, Running
    <2>5. Unwinding(w, longer)
        BY <1>4, <2>1, <2>2 DEF Sound, Unwinding
    <2> QED
        BY <1>1, <1>4, <2>4, <2>5 DEF Sound
<1> QED
    BY <1>3, <1>4

-----------------------------------------------------------------------------
\* A step that changes one call.
LEMMA OneCall ==
    ASSUME Inv, stage = "serving", NEW c \in setup.calls, NEW w \in Work,
           UNCHANGED <<building, identity, links, now>>, next' \in Ids,
           work' = [work EXCEPT ![c] = w], Sound(w, registry, links),
           w.at \in Underway =>
                \A d \in setup.calls : d # c /\ work[d].at \in Underway => work[d].id # w.id
    PROVE  Inv'
<1>1. Configured'
    BY DEF Inv, Configured, building
<1>2. PICK calls : calls = setup.calls
    OBVIOUS
<1>3. PICK before \in [calls -> Work], after \in [calls -> Work] :
        /\ before = work /\ after = work' /\ after[c] = w
        /\ \A d \in calls : d # c => after[d] = before[d]
    <2>1. work \in [calls -> Work]
        BY <1>2 DEF Inv, Serving
    <2>2. work' \in [calls -> Work] /\ work'[c] = w /\ \A d \in calls : d # c => work'[d] = work[d]
        BY <1>2, <2>1
    <2> QED
        BY <2>1, <2>2
<1>4. setup' = setup /\ stage' = stage /\ registry' = registry /\ links' = links
    BY DEF building
<1>5. Serving'
    BY <1>2, <1>3, <1>4 DEF Inv, Serving
<1>6. Apart'
    <2>1. \A d, e \in calls : before[d].at \in Underway /\ before[e].at \in Underway /\ before[d].id = before[e].id => d = e
        BY <1>2, <1>3 DEF Inv, Apart
    <2>2. \A d, e \in calls : after[d].at \in Underway /\ after[e].at \in Underway /\ after[d].id = after[e].id => d = e
        BY <1>2, <1>3, <2>1
    <2> QED
        BY <1>2, <1>3, <1>4, <2>2 DEF Apart
<1>7. (\A d \in setup.calls : Sound(work[d], registry, links))'
    <2>1. \A d \in calls : Sound(before[d], registry, links)
        BY <1>2, <1>3 DEF Inv
    <2>2. \A d \in calls : Sound(after[d], registry, links)
        BY <1>3, <2>1
    <2> QED
        BY <1>2, <1>3, <1>4, <2>2
<1> QED
    BY <1>1, <1>5, <1>6, <1>7 DEF Inv

\* What is known of a call that is not idle.
LEMMA CallKnown ==
    ASSUME Inv, NEW c \in setup.calls
    PROVE  /\ work[c] \in Work /\ Sound(work[c], registry, links)
           /\ work[c].at # "idle" =>
                /\ stage = "serving" /\ EntryFor(registry, work[c].request) # {}
                /\ MethodFor(work[c].request) \in Method
                /\ MethodFor(work[c].request).request = work[c].request
                /\ Repeats(work[c], MethodFor(work[c].request))
<1>1. PICK w \in Work : w = work[c]
    BY DEF Inv, Serving
<1>2. Sound(w, registry, links)
    BY <1>1 DEF Inv
<1>3. ASSUME w.at # "idle"
      PROVE  /\ stage = "serving" /\ EntryFor(registry, w.request) # {}
             /\ MethodFor(w.request) \in Method /\ MethodFor(w.request).request = w.request
             /\ Repeats(w, MethodFor(w.request))
    <2>1. stage = "serving"
        BY <1>1, <1>3 DEF Inv, Serving
    <2>2. EntryFor(registry, w.request) # {} /\ Repeats(w, Named(registry, w.request))
        BY <1>2, <1>3 DEF Sound
    <2>3. PICK b \in Builder : b = builder /\ IsFiniteSet(b.reflection) /\ registry = Build(b)
        BY <2>1 DEF Inv, Configured
    <2>4. PICK request : request = w.request
        OBVIOUS
    <2>5. Named(registry, request) \in Method /\ Named(registry, request).request = request
        BY <2>2, <2>3, <2>4, NamedEffect
    <2>6. MethodFor(request) = Named(registry, request)
        BY DEF MethodFor, Named
    <2> QED
        BY <2>1, <2>2, <2>4, <2>5, <2>6
<1> QED
    BY <1>1, <1>2, <1>3

\* A call whose attempt has failed and whose links have been unwound.
LEMMA FailedSound ==
    ASSUME NEW w \in Work, w.at \in Underway, w.onward = {}, EntryFor(registry, w.request) # {},
           NEW status \in Failures, now \in Nat, MethodFor(w.request) \in Method,
           Repeats(w, MethodFor(w.request)), NEW v, v = AfterFailure(w, status),
           NEW u \in Work, FailedAs(u, v), u.outs = Reverse(u.ins),
           w.at = "sent" \/ (status = "RESOURCE_EXHAUSTED" => u.exhausted = v.exhausted + 1)
    PROVE  Sound(u, registry, links) /\ u.at \notin Underway
<1>1. PICK m \in Method : m = MethodFor(w.request)
    OBVIOUS
<1>2. v.at \in {"ready", "done"} /\ v.request = w.request /\ v.onward = w.onward
    BY <1>1, AfterFailureEffect
<1>3. Repeats(u, m)
    BY <1>1, RepeatsAgain
<1>4. u.at \in {"ready", "done"} /\ u.request = w.request /\ u.onward = {}
    BY <1>2 DEF FailedAs
<1>5. Repeats(u, Named(registry, u.request))
    BY <1>1, <1>3, <1>4 DEF MethodFor, Named
<1>6. Unwinding(u, links)
    BY <1>4 DEF Unwinding
<1> QED
    BY <1>4, <1>5, <1>6 DEF Sound, Underway

LEMMA UnwoundEffect ==
    ASSUME Inv, NEW c \in setup.calls, work[c].at = "running", NEW u, u = Unwound(c)
    PROVE  /\ u \in Work /\ u.at = "running" /\ u.request = work[c].request
           /\ u.outs = Reverse(u.ins) /\ u.onward = {}
           /\ u.retry = work[c].retry /\ u.runs = work[c].runs /\ u.exhausted = work[c].exhausted
<1>1. PICK w \in Work : w = work[c] /\ Sound(w, registry, links)
    BY CallKnown
<1>2. PICK chain \in Seq(Interceptor) : chain = links
    BY DEF Inv, Serving
<1>3. PICK n \in 0..Len(chain) : w.ins = Links(n)
    BY <1>1, <1>2 DEF Sound, Unwinding
<1>4. Len(w.ins) = n
    BY <1>3, LinksType
<1>5. PICK outs \in Seq(Nat) : outs = Outbound(chain, n) /\ outs = Reverse(w.ins)
    BY <1>3, OutboundEffect
<1>6. u = [w EXCEPT !.outs = outs, !.context = <<>>, !.onward = {}]
    BY <1>1, <1>2, <1>4, <1>5 DEF Unwound
<1>7. u \in Work
    BY <1>6 DEF Work
<1>8. /\ u.at = w.at /\ u.request = w.request /\ u.outs = outs /\ u.ins = w.ins /\ u.onward = {}
      /\ u.retry = w.retry /\ u.runs = w.runs /\ u.exhausted = w.exhausted
    BY <1>6 DEF Work
<1> QED
    BY <1>1, <1>5, <1>7, <1>8

-----------------------------------------------------------------------------
\* The steps of the caller.

LEMMA OpenPreserves ==
    ASSUME Inv, NEW c \in setup.calls, Open(c)
    PROVE  Inv'
<1>1. PICK b \in Builder : b = builder /\ IsFiniteSet(b.reflection) /\ registry = Build(b)
    BY DEF Open, Inv, Configured
<1>2. PICK entries \in Seq(Entry) : entries = registry.entries
    BY <1>1, AllEntriesType DEF Build
<1>2a. PICK i \in DOMAIN registry.entries, token \in setup.tokens, budget \in setup.budgets, ms \in setup.deadlines :
        work' = [work EXCEPT ![c] = [Idle EXCEPT !.at = "ready", !.token = token, !.ms = ms,
                    !.request = registry.entries[i].method.request,
                    !.retry = NewRetryState(now, budget), !.retryAt = now]]
    BY DEF Open
<1>3. /\ i \in DOMAIN entries
      /\ work' = [work EXCEPT ![c] = [Idle EXCEPT !.at = "ready", !.token = token, !.ms = ms,
                    !.request = entries[i].method.request,
                    !.retry = NewRetryState(now, budget), !.retryAt = now]]
    BY <1>2, <1>2a
<1>4. token \in Tokens /\ budget \in Nat /\ ms \in Nat
    <2>1. PICK s \in Setups : s = setup
        BY DEF Inv, Configured
    <2>2. s.tokens \subseteq Tokens /\ s.budgets \cup s.deadlines \subseteq Nat
        BY ServiceConstants
    <2> QED
        BY <1>3, <2>1, <2>2
<1>5. PICK t \in Nat : t = now
    BY DEF Inv, Serving
<1>6. PICK request \in Nat : request = entries[i].method.request
    <2>1. PICK entry \in Entry : entry = entries[i]
        BY <1>2, <1>3
    <2>2. PICK m \in Method : m = entry.method
        BY DEF Entry
    <2>3. m.request \in U32
        BY DEF Method
    <2>4. m.request \in Nat
        BY <2>3 DEF U32
    <2> QED
        BY <2>1, <2>2, <2>4
<1>7. PICK retry \in RetryState : retry = NewRetryState(t, budget) /\ retry.attempt = 1
    <2>1. PICK ends \in Nat : ends = IF budget > 0 THEN t + budget ELSE 0
        BY <1>4
    <2>2. NewRetryState(t, budget) = [attempt |-> 1, deadline |-> ends]
        BY <2>1 DEF NewRetryState
    <2>3. 1 \in Nat
        OBVIOUS
    <2> QED
        BY <2>2, <2>3 DEF RetryState
<1>8. PICK w : w = [Idle EXCEPT !.at = "ready", !.token = token, !.ms = ms,
                    !.request = request, !.retry = retry, !.retryAt = t]
    OBVIOUS
<1>9. w \in Work
    <2>1. "ready" \in Places
        BY DEF Places
    <2> QED
        BY <1>4, <1>8, <2>1, IdleType DEF Work
<1>10. /\ w.at = "ready" /\ w.request = request /\ w.retry = retry
       /\ w.ins = <<>> /\ w.outs = <<>> /\ w.onward = {} /\ w.runs = 0 /\ w.exhausted = 0
    BY <1>8 DEF Idle
<1>11. EntryFor(registry, request) # {}
    BY <1>2, <1>3, <1>6 DEF EntryFor
<1>12. Repeats(w, Named(registry, w.request))
    BY <1>7, <1>10, ServiceConstants DEF Repeats
<1>13. Unwinding(w, links)
    <2>1. Reverse(<<>>) = <<>>
        BY DEF Reverse
    <2> QED
        BY <1>10, <2>1 DEF Unwinding
<1>14. Sound(w, registry, links) /\ w.at \notin Underway
    BY <1>10, <1>11, <1>12, <1>13 DEF Sound, Underway
<1>15. work' = [work EXCEPT ![c] = w] /\ stage = "serving" /\ next' \in Ids
    BY <1>3, <1>5, <1>6, <1>7, <1>8 DEF Open, Inv, Serving
<1> QED
    BY <1>9, <1>14, <1>15, OneCall DEF Open

\* What the allocator may return: an id of no call, or none if all are taken.
LEMMA AllocatedId ==
    ASSUME Inv, NEW given, given = Allocate(next, Pending)
    PROVE  /\ given.next \in Ids
           /\ given.id = NoId => Pending = Ids
           /\ given.id # NoId => given.id \in Ids /\ given.id \notin Pending
<1>1. PICK first, inUse : first = next /\ first \in Ids /\ inUse = Pending
    BY DEF Inv, Serving
<1>2. /\ given.next \in Ids
      /\ given.id = NoId => Ids \subseteq inUse
      /\ given.id # NoId => given.id \in Ids /\ given.id \notin inUse
    BY <1>1, AllocateEffect
<1>3. Pending \subseteq Ids
    BY DEF Inv, Sound, Pending, At, Underway
<1> QED
    BY <1>1, <1>2, <1>3

LEMMA AttemptPreserves ==
    ASSUME Inv, NEW c \in setup.calls, Attempt(c)
    PROVE  Inv'
<1>1. PICK w \in Work : w = work[c] /\ w.at = "ready" /\ Sound(w, registry, links) /\ stage = "serving"
    BY CallKnown DEF Attempt
<1>2. PICK given : given = Allocate(next, Pending)
    OBVIOUS
<1>3. /\ given.next \in Ids
      /\ given.id # NoId => given.id \in Ids /\ given.id \notin Pending
    BY <1>2, AllocatedId
<1>4. given.id \in 0..IdSpace
    <2>1. \A id \in Ids : id \in 0..IdSpace
        BY IdSpaceEven DEF Ids
    <2> QED
        BY <1>3, <2>1, NoIdType
<1>5. PICK place \in {"done", "sent"}, result \in {w.result, "NO_CALL_ID"} :
        /\ place = IF given.id = NoId THEN "done" ELSE "sent"
        /\ result = IF given.id = NoId THEN "NO_CALL_ID" ELSE w.result
    OBVIOUS
<1>6. PICK u : u = [w EXCEPT !.id = given.id, !.ins = <<>>, !.outs = <<>>, !.at = place, !.result = result]
    OBVIOUS
<1>7. u \in Work
    <2>1. place \in Places /\ result \in Results /\ <<>> \in Seq(Nat)
        BY <1>5 DEF Places, Results, Work
    <2> QED
        BY <1>4, <1>6, <2>1 DEF Work
<1>8. /\ u.at = place /\ u.id = given.id /\ u.ins = <<>> /\ u.outs = <<>>
      /\ u.request = w.request /\ u.retry = w.retry /\ u.runs = w.runs
      /\ u.exhausted = w.exhausted /\ u.onward = w.onward
    BY <1>6 DEF Work
<1>9. work' = [work EXCEPT ![c] = u] /\ next' = given.next
    <2>1. PICK x : x = [w EXCEPT !.id = given.id, !.ins = <<>>, !.outs = <<>>]
        OBVIOUS
    <2>2. work' = [work EXCEPT ![c] =
                IF given.id = NoId THEN [x EXCEPT !.at = "done", !.result = "NO_CALL_ID"]
                ELSE [x EXCEPT !.at = "sent"]]
        BY <1>1, <1>2, <2>1 DEF Attempt
    <2>3. u = IF given.id = NoId THEN [x EXCEPT !.at = "done", !.result = "NO_CALL_ID"]
              ELSE [x EXCEPT !.at = "sent"]
        BY <1>5, <1>6, <2>1 DEF Work
    <2> QED
        BY <1>2, <2>2, <2>3 DEF Attempt
<1>10. EntryFor(registry, u.request) # {} /\ Repeats(w, Named(registry, u.request))
    BY <1>1, <1>8 DEF Sound
<1>11. Repeats(u, Named(registry, u.request))
    BY <1>1, <1>5, <1>8, <1>10 DEF Repeats
<1>12. Unwinding(u, links) /\ u.onward = {}
    <2>1. Reverse(<<>>) = <<>>
        BY DEF Reverse
    <2> QED
        BY <1>1, <1>5, <1>8, <2>1 DEF Sound, Unwinding
<1>13. Sound(u, registry, links)
    BY <1>3, <1>5, <1>8, <1>10, <1>11, <1>12 DEF Sound, Underway
<1>14. u.at \in Underway => \A d \in setup.calls : d # c /\ work[d].at \in Underway => work[d].id # u.id
    BY <1>3, <1>5, <1>8 DEF Pending, At, Underway
<1> QED
    BY <1>1, <1>3, <1>7, <1>9, <1>13, <1>14, OneCall DEF Attempt

-----------------------------------------------------------------------------
\* The steps of the callee.

LEMMA NoOneType == NoOne \in Identity
BY EmptyString DEF NoOne, Identity

LEMMA LimitType ==
    ASSUME now \in Nat, NEW m \in Method, NEW ms \in Nat
    PROVE  Limit(m, ms) \in Nat
<1>1. PICK own \in Nat : own = now + HandlerLimit
    BY ServiceConstants
<1>2. PICK span \in Nat : span = ms * TicksPerMs
    BY ServiceConstants
<1>3. PICK asked \in Nat : asked = now + span
    OBVIOUS
<1>4. Limit(m, ms) \in {own, asked, NoDeadline}
    BY <1>1, <1>2, <1>3 DEF Limit
<1> QED
    BY <1>4 DEF NoDeadline

LEMMA ContextType ==
    ASSUME Inv, NEW c \in setup.calls, work[c].at = "sent"
    PROVE  ContextOf(c) \in CallContext /\ ContextOf(c).method.request = work[c].request
<1>1. PICK w \in Work : w = work[c]
    BY CallKnown
<1>2. PICK m \in Method : m = MethodFor(w.request) /\ m.request = w.request
    BY <1>1, CallKnown
<1>3. PICK token \in Tokens, ms \in Nat : token = w.token /\ ms = w.ms
    BY DEF Work
<1>4. PICK limit \in Nat : limit = Limit(m, ms)
    BY LimitType DEF Inv, Serving
<1>5. PICK session \in Identity : session = identity
    BY DEF Inv, Serving
<1>6. EntryOf(c).method = m
    BY <1>1, <1>2 DEF EntryOf, MethodFor
<1>7. ContextOf(c) = [method |-> m, token |-> token, session |-> session, onBehalfOf |-> NoOne,
                      permissions |-> session.permissions, deadline |-> limit]
    BY <1>1, <1>3, <1>4, <1>5, <1>6 DEF ContextOf, NewCallContext
<1>8. session.permissions \in SUBSET STRING
    BY DEF Identity
<1> QED
    BY <1>1, <1>2, <1>7, <1>8, NoOneType DEF CallContext

LEMMA ArriveRefusedPreserves ==
    ASSUME Inv, NEW c \in setup.calls, ArriveUnserved(c) \/ ArriveTooMany(c)
    PROVE  Inv'
<1>1. PICK w \in Work : w = work[c] /\ w.at = "sent" /\ Sound(w, registry, links) /\ stage = "serving"
    BY CallKnown DEF ArriveUnserved, ArriveTooMany
<1>2. PICK m \in Method : m = MethodFor(w.request) /\ Repeats(w, m) /\ EntryFor(registry, w.request) # {}
    BY <1>1, CallKnown
<1>3. PICK status \in Failures : work' = [work EXCEPT ![c] = AfterFailure(w, status)]
    <2>1. "UNIMPLEMENTED" \in Failures /\ "RESOURCE_EXHAUSTED" \in Failures
        BY DEF Failures, Results
    <2> QED
        BY <1>1, <2>1 DEF ArriveUnserved, ArriveTooMany, Inv, Serving
<1>4. PICK v : v = AfterFailure(w, status)
    OBVIOUS
<1>5. now \in Nat /\ next \in Ids
    BY DEF Inv, Serving
<1>6. v \in Work /\ v.ins = w.ins /\ v.outs = w.outs
    BY <1>2, <1>4, <1>5, AfterFailureEffect
<1>7. v.outs = Reverse(v.ins) /\ w.onward = {}
    <2>1. Reverse(<<>>) = <<>>
        BY DEF Reverse
    <2> QED
        BY <1>1, <1>6, <2>1 DEF Sound, Unwinding
<1>8. FailedAs(v, v) /\ w.at \in Underway
    BY <1>1 DEF FailedAs, Underway
<1>9. Sound(v, registry, links) /\ v.at \notin Underway
    BY <1>1, <1>2, <1>4, <1>5, <1>6, <1>7, <1>8, FailedSound
<1>10. UNCHANGED <<building, identity, links, next, now>>
    BY DEF ArriveUnserved, ArriveTooMany
<1> QED
    BY <1>1, <1>3, <1>4, <1>5, <1>6, <1>9, <1>10, OneCall

LEMMA ArriveInChainPreserves ==
    ASSUME Inv, NEW c \in setup.calls, ArriveInChain(c)
    PROVE  Inv'
<1>1. PICK w \in Work : w = work[c] /\ w.at = "sent" /\ Sound(w, registry, links) /\ stage = "serving"
    BY CallKnown DEF ArriveInChain
<1>2. PICK m \in Method : m = MethodFor(w.request) /\ Repeats(w, m) /\ EntryFor(registry, w.request) # {}
    BY <1>1, CallKnown
<1>3. PICK chain \in Seq(Interceptor) : chain = links
    BY DEF Inv, Serving
<1>4. PICK x \in CallContext : x = ContextOf(c) /\ x.method.request = w.request
    BY <1>1, ContextType
<1>5. PICK came : came = Inbound(chain, x)
    OBVIOUS
<1>6. Passed(chain, x, Len(chain), came)
    BY <1>5, InboundEffect
<1>7. PICK e \in 0..Len(chain) : e = came.entered
    BY <1>6 DEF Passed
<1>8. PICK status \in Verdicts, y \in CallContext : status = came.status /\ y = came.context
    BY <1>6 DEF Passed, Passage
<1>9. PICK v : v = [w EXCEPT !.ins = Links(e)]
    OBVIOUS
<1>10. v \in Work
    <2>1. PICK ins \in Seq(Nat) : ins = Links(e)
        <3>1. e \in Nat
            OBVIOUS
        <3> QED
            BY <3>1, LinksType
    <2> QED
        BY <1>9, <2>1 DEF Work
<1>11. /\ v.at = w.at /\ v.request = w.request /\ v.ins = Links(e) /\ v.outs = w.outs
       /\ v.retry = w.retry /\ v.runs = w.runs /\ v.exhausted = w.exhausted /\ v.onward = w.onward
       /\ v.id = w.id /\ v.retryAt = w.retryAt
    BY <1>9 DEF Work
<1>12. work' = [work EXCEPT ![c] =
            IF status # "OK" THEN [AfterFailure(v, status) EXCEPT !.outs = Outbound(chain, e)]
            ELSE [v EXCEPT !.at = "running", !.context = y, !.runs = @ + 1]]
    BY <1>1, <1>3, <1>4, <1>5, <1>7, <1>8, <1>9 DEF ArriveInChain, Links
<1>13. now \in Nat /\ next \in Ids /\ UNCHANGED <<building, identity, links, next, now>>
    BY DEF ArriveInChain, Inv, Serving
<1>14. w.outs = <<>> /\ w.onward = {} /\ w.id \in Ids
    BY <1>1 DEF Sound, Unwinding, Underway
<1>15. Repeats(v, m)
    BY <1>2, <1>11 DEF Repeats
<1>16. CASE status # "OK"
    <2>1. status \in Failures
        BY <1>16 DEF Verdicts, Failures, Results
    <2>2. PICK f : f = AfterFailure(v, status)
        OBVIOUS
    <2>3. f \in Work /\ f.ins = Links(e)
        BY <1>2, <1>10, <1>11, <1>13, <2>1, <2>2, AfterFailureEffect
    <2>4. PICK outs \in Seq(Nat) : outs = Outbound(chain, e) /\ outs = Reverse(Links(e))
        BY OutboundEffect
    <2>5. PICK u : u = [f EXCEPT !.outs = outs]
        OBVIOUS
    <2>6. u \in Work
        BY <2>3, <2>5 DEF Work
    <2>7. FailedAs(u, f) /\ u.outs = Reverse(u.ins)
        BY <2>3, <2>4, <2>5 DEF Work, FailedAs
    <2>8. v.at \in Underway /\ v.at = "sent" /\ v.onward = {} /\ EntryFor(registry, v.request) # {}
        BY <1>1, <1>2, <1>11, <1>14 DEF Underway
    <2>9. m = MethodFor(v.request)
        BY <1>2, <1>11
    <2>10. Sound(u, registry, links) /\ u.at \notin Underway
        BY <1>10, <1>13, <1>15, <2>1, <2>2, <2>6, <2>7, <2>8, <2>9, FailedSound
    <2>11. work' = [work EXCEPT ![c] = u]
        BY <1>12, <1>16, <2>2, <2>4, <2>5
    <2> QED
        BY <1>1, <1>13, <2>6, <2>10, <2>11, OneCall
<1>17. CASE status = "OK"
    <2>1. PICK runs \in Nat : runs = w.runs
        BY DEF Work
    <2>2. PICK u : u = [v EXCEPT !.at = "running", !.context = y, !.runs = runs + 1]
        OBVIOUS
    <2>3. work' = [work EXCEPT ![c] = u]
        BY <1>11, <1>12, <1>17, <2>1, <2>2
    <2>4. u \in Work
        <3>1. "running" \in Places /\ runs + 1 \in Nat
            BY DEF Places
        <3> QED
            BY <1>10, <2>2, <3>1 DEF Work
    <2>5. /\ u.at = "running" /\ u.request = w.request /\ u.ins = Links(e) /\ u.outs = <<>>
          /\ u.retry = w.retry /\ u.runs = runs + 1 /\ u.exhausted = w.exhausted /\ u.onward = {}
          /\ u.id = w.id /\ u.context = y
        BY <1>10, <1>11, <1>14, <2>2 DEF Work
    <2>6. Repeats(u, m)
        <3>1. PICK a \in Nat, exhausted \in Nat : a = w.retry.attempt /\ exhausted = w.exhausted
            BY DEF Work, RetryState
        <3>2. /\ a \in 1..MaxAttempts /\ (m.shape # UNARY => a = 1) /\ runs < a
              /\ ~SurvivesUnknownOutcome(m) => runs <= exhausted
            BY <1>1, <1>2, <2>1, <3>1 DEF Repeats
        <3>3. runs + 1 <= a /\ (~SurvivesUnknownOutcome(m) => runs + 1 <= 1 + exhausted)
            BY <3>2
        <3> QED
            BY <2>5, <3>1, <3>2, <3>3 DEF Repeats
    <2>7. m = Named(registry, u.request)
        BY <1>2, <2>5 DEF MethodFor, Named
    <2>8. Unwinding(u, links)
        BY <1>3, <2>5 DEF Unwinding
    <2>9. Running(u, links)
        <3>1. y.method.request = w.request
            BY <1>4, <1>6, <1>8 DEF Passed, SameCall
        <3>2. /\ e = Len(chain) /\ LastWord(chain, e, y)
              /\ \A k \in Guards(chain, e) : Cleared(chain[k], y)
            BY <1>6, <1>7, <1>8, <1>17 DEF Passed
        <3>3. Len(u.ins) = e
            <4>1. e \in Nat
                OBVIOUS
            <4> QED
                BY <2>5, <4>1, LinksType
        <3> QED
            BY <1>3, <2>5, <3>1, <3>2, <3>3 DEF Running
    <2>10. Sound(u, registry, links)
        BY <1>2, <1>14, <2>5, <2>6, <2>7, <2>8, <2>9 DEF Sound
    <2>11. \A d \in setup.calls : d # c /\ work[d].at \in Underway => work[d].id # u.id
        BY <1>1, <2>5 DEF Inv, Apart, Underway
    <2> QED
        BY <1>1, <1>13, <2>3, <2>4, <2>10, <2>11, OneCall
<1> QED
    BY <1>16, <1>17

\* Whole milliseconds of what is left end no later than what is left.
LEMMA OnwardEffect ==
    ASSUME NEW x \in CallContext, NEW t \in Nat, NEW ms \in OnwardCtx(x, t)
    PROVE  /\ (IF ms = 0 THEN NoDeadline ELSE t + ms * TicksPerMs) \in Nat
           /\ x.deadline # NoDeadline =>
                ms # 0 /\ t + ms * TicksPerMs # NoDeadline /\ t + ms * TicksPerMs <= x.deadline
<1>1. PICK d \in Nat : d = x.deadline
    BY DEF CallContext
<1>2. PICK ticks \in Nat \ {0} : ticks = TicksPerMs
    BY ServiceConstants
<1>3. CASE d = NoDeadline
    BY <1>1, <1>3 DEF OnwardCtx, NoDeadline
<1>4. CASE d # NoDeadline
    <2>1. ms # 0 /\ ms = RemainingMs(x, t)
        BY <1>1, <1>4 DEF OnwardCtx
    <2>2. t < d /\ ms = (d - t) \div ticks
        BY <1>1, <1>2, <2>1 DEF RemainingMs
    <2>3. PICK left \in Nat : left = d - t
        BY <2>2
    <2>4. PICK q \in Nat, r \in 0..(ticks - 1) : q = left \div ticks /\ left = ticks * q + r
        BY <1>2, Division
    <2>5. ms = q
        BY <2>2, <2>3, <2>4
    <2>6. PICK span \in Nat : span = ms * ticks /\ span = ticks * q
        BY <2>5
    <2>7. span <= left
        BY <2>4, <2>6
    <2>8. span # 0
        <3>1. \A a, b \in Nat \ {0} : a * b # 0
            OBVIOUS
        <3>2. q \in Nat \ {0} /\ span = q * ticks
            BY <2>1, <2>5, <2>6
        <3> QED
            BY <3>1, <3>2
    <2>9. t + span \in Nat /\ t + span # 0 /\ t + span <= d
        BY <2>3, <2>7, <2>8
    <2> QED
        BY <1>1, <1>2, <2>1, <2>6, <2>9 DEF NoDeadline
<1> QED
    BY <1>3, <1>4

LEMMA CallOnwardPreserves ==
    ASSUME Inv, NEW c \in setup.calls, CallOnward(c)
    PROVE  Inv'
<1>1. PICK w \in Work : w = work[c] /\ w.at = "running" /\ Sound(w, registry, links) /\ stage = "serving"
    BY CallKnown DEF CallOnward
<1>2. PICK x \in CallContext : x = w.context
    BY <1>1 DEF Sound, Running
<1>3. PICK t \in Nat : t = now
    BY DEF Inv, Serving
<1>4. PICK ms \in OnwardCtx(x, t) :
        work' = [work EXCEPT ![c].onward = {IF ms = 0 THEN NoDeadline ELSE t + ms * TicksPerMs}]
    BY <1>1, <1>2, <1>3 DEF CallOnward
<1>5. PICK deadline \in Nat :
        /\ deadline = IF ms = 0 THEN NoDeadline ELSE t + ms * TicksPerMs
        /\ x.deadline # NoDeadline => deadline # NoDeadline /\ deadline <= x.deadline
    BY OnwardEffect
<1>6. PICK u : u = [w EXCEPT !.onward = {deadline}]
    OBVIOUS
<1>7. u \in Work
    BY <1>6 DEF Work
<1>8. /\ u.at = w.at /\ u.request = w.request /\ u.ins = w.ins /\ u.outs = w.outs
      /\ u.retry = w.retry /\ u.retryAt = w.retryAt /\ u.runs = w.runs /\ u.exhausted = w.exhausted
      /\ u.id = w.id /\ u.context = w.context /\ u.onward = {deadline}
    BY <1>6 DEF Work
<1>9. work' = [work EXCEPT ![c] = u]
    BY <1>1, <1>4, <1>5, <1>6 DEF Inv, Serving
<1>10. Running(u, links)
    BY <1>1, <1>2, <1>5, <1>8 DEF Sound, Running
<1>11. \A m : Repeats(w, m) => Repeats(u, m)
    BY <1>8 DEF Repeats
<1>12. Unwinding(u, links)
    BY <1>1, <1>8 DEF Sound, Unwinding
<1>13. Sound(u, registry, links)
    BY <1>1, <1>8, <1>10, <1>11, <1>12 DEF Sound
<1>14. \A d \in setup.calls : d # c /\ work[d].at \in Underway => work[d].id # u.id
    BY <1>1, <1>8 DEF Inv, Apart, Underway
<1>15. next' \in Ids /\ UNCHANGED <<building, identity, links, now>>
    BY DEF CallOnward, Inv, Serving
<1> QED
    BY <1>1, <1>7, <1>9, <1>13, <1>14, <1>15, OneCall

LEMMA RespondPreserves ==
    ASSUME Inv, NEW c \in setup.calls, Respond(c)
    PROVE  Inv'
<1>1. PICK w \in Work : w = work[c] /\ w.at = "running" /\ Sound(w, registry, links) /\ stage = "serving"
    BY CallKnown DEF Respond
<1>2. PICK m : m = MethodFor(w.request) /\ Repeats(w, m) /\ EntryFor(registry, w.request) # {}
    BY <1>1, CallKnown
<1>3. PICK v : v = Unwound(c)
    OBVIOUS
<1>4. /\ v \in Work /\ v.request = w.request /\ v.outs = Reverse(v.ins) /\ v.onward = {}
      /\ v.retry = w.retry /\ v.runs = w.runs /\ v.exhausted = w.exhausted
    BY <1>1, <1>3, UnwoundEffect
<1>5. PICK u : u = [v EXCEPT !.at = "done", !.id = NoId, !.retryAt = 0, !.result = "OK"]
    OBVIOUS
<1>6. u \in Work
    <2>1. "done" \in Places /\ "OK" \in Results /\ 0 \in Nat
        BY DEF Places, Results
    <2> QED
        BY <1>4, <1>5, <2>1, NoIdType DEF Work
<1>7. /\ u.at = "done" /\ u.request = w.request /\ u.outs = v.outs /\ u.ins = v.ins /\ u.onward = {}
      /\ u.retry = w.retry /\ u.runs = w.runs /\ u.exhausted = w.exhausted
    BY <1>4, <1>5 DEF Work
<1>8. Repeats(u, Named(registry, u.request))
    BY <1>2, <1>7 DEF Repeats, MethodFor, Named
<1>9. Sound(u, registry, links) /\ u.at \notin Underway
    BY <1>2, <1>4, <1>7, <1>8 DEF Sound, Unwinding, Underway
<1>10. work' = [work EXCEPT ![c] = u] /\ next' \in Ids /\ UNCHANGED <<building, identity, links, now>>
    BY <1>3, <1>5 DEF Respond, Inv, Serving
<1> QED
    BY <1>1, <1>6, <1>9, <1>10, OneCall

LEMMA FailRunningPreserves ==
    ASSUME Inv, NEW c \in setup.calls, FailRunning(c)
    PROVE  Inv'
<1>1. PICK w \in Work : w = work[c] /\ w.at = "running" /\ Sound(w, registry, links) /\ stage = "serving"
    BY CallKnown DEF FailRunning
<1>2. PICK m \in Method : m = MethodFor(w.request) /\ Repeats(w, m) /\ EntryFor(registry, w.request) # {}
    BY <1>1, CallKnown
<1>3. PICK v : v = Unwound(c)
    OBVIOUS
<1>4. /\ v \in Work /\ v.at = "running" /\ v.request = w.request /\ v.outs = Reverse(v.ins) /\ v.onward = {}
      /\ v.retry = w.retry /\ v.runs = w.runs /\ v.exhausted = w.exhausted
    BY <1>1, <1>3, UnwoundEffect
<1>5. PICK status \in {"RESOURCE_EXHAUSTED", "FAILED_PRECONDITION", "DEADLINE_EXCEEDED"} :
        work' = [work EXCEPT ![c] =
            LET f == AfterFailure(v, status)
            IN IF status = "RESOURCE_EXHAUSTED" THEN [f EXCEPT !.exhausted = @ + 1] ELSE f]
    BY <1>3 DEF FailRunning
<1>6. status \in Failures
    BY <1>5 DEF Failures, Results
<1>7. PICK f : f = AfterFailure(v, status)
    OBVIOUS
<1>8. now \in Nat /\ next' \in Ids /\ UNCHANGED <<building, identity, links, now>>
    BY DEF FailRunning, Inv, Serving
<1>9. m = MethodFor(v.request)
    BY <1>2, <1>4
<1>10. f \in Work /\ f.ins = v.ins /\ f.outs = v.outs
    BY <1>4, <1>6, <1>7, <1>8, <1>9, AfterFailureEffect
<1>11. PICK count \in Nat : count = f.exhausted
    BY <1>10 DEF Work
<1>12. PICK more \in {count, count + 1} : more = IF status = "RESOURCE_EXHAUSTED" THEN count + 1 ELSE count
    OBVIOUS
<1>13. PICK u : u = [f EXCEPT !.exhausted = more]
    OBVIOUS
<1>14. work' = [work EXCEPT ![c] = u]
    <2>1. status # "RESOURCE_EXHAUSTED" => u = f
        BY <1>10, <1>11, <1>12, <1>13 DEF Work
    <2>2. status = "RESOURCE_EXHAUSTED" => u = [f EXCEPT !.exhausted = @ + 1]
        BY <1>11, <1>12, <1>13
    <2> QED
        BY <1>5, <1>7, <2>1, <2>2
<1>15. u \in Work
    <2>1. more \in Nat
        BY <1>12
    <2> QED
        BY <1>10, <1>13, <2>1 DEF Work
<1>16. FailedAs(u, f) /\ u.outs = Reverse(u.ins) /\ (status = "RESOURCE_EXHAUSTED" => u.exhausted = f.exhausted + 1)
    BY <1>4, <1>10, <1>11, <1>12, <1>13 DEF Work, FailedAs
<1>17. Repeats(v, m)
    BY <1>1, <1>2, <1>4 DEF Repeats
<1>18. v.at \in Underway /\ EntryFor(registry, v.request) # {}
    BY <1>2, <1>4 DEF Underway
<1>19. Sound(u, registry, links) /\ u.at \notin Underway
    BY <1>4, <1>6, <1>7, <1>8, <1>9, <1>15, <1>16, <1>17, <1>18, FailedSound
<1> QED
    BY <1>1, <1>8, <1>14, <1>15, <1>19, OneCall

-----------------------------------------------------------------------------
\* The end of a session, and the steps of no call.

\* A call outside its session: no link of the next one concerns it.
LEMMA SoundBetween ==
    ASSUME NEW w, NEW reg, NEW chain, NEW other, Sound(w, reg, chain), w.at # "running"
    PROVE  Sound(w, reg, other)
BY DEF Sound, Unwinding

LEMMA SessionEndPreserves ==
    ASSUME Inv, SessionEnd
    PROVE  Inv'
<1>1. "UNAVAILABLE" \in Failures /\ now \in Nat
    BY DEF Failures, Results, Inv, Serving
<1>2. ASSUME NEW c \in setup.calls
      PROVE  /\ work'[c] \in Work /\ work'[c].at \notin Underway
             /\ Sound(work'[c], registry, links)
    <2>1. PICK w \in Work : w = work[c] /\ Sound(w, registry, links)
        BY CallKnown
    <2>2. CASE w.at \notin Underway
        <3>1. work'[c] = w
            BY <2>1, <2>2 DEF SessionEnd, At, Underway
        <3> QED
            BY <2>1, <2>2, <3>1
    <2>3. CASE w.at = "running"
        <3>1. PICK m \in Method : m = MethodFor(w.request) /\ Repeats(w, m) /\ EntryFor(registry, w.request) # {}
            BY <2>1, <2>3, CallKnown
        <3>2. PICK v : v = Unwound(c)
            OBVIOUS
        <3>3. /\ v \in Work /\ v.at = "running" /\ v.request = w.request /\ v.outs = Reverse(v.ins)
              /\ v.onward = {} /\ v.retry = w.retry /\ v.runs = w.runs /\ v.exhausted = w.exhausted
            BY <2>1, <2>3, <3>2, UnwoundEffect
        <3>4. PICK u : u = AfterFailure(v, "UNAVAILABLE")
            OBVIOUS
        <3>5. m = MethodFor(v.request)
            BY <3>1, <3>3
        <3>6. u \in Work /\ u.ins = v.ins /\ u.outs = v.outs
            BY <1>1, <3>3, <3>4, <3>5, AfterFailureEffect
        <3>7. FailedAs(u, u) /\ u.outs = Reverse(u.ins)
            BY <3>3, <3>6 DEF FailedAs
        <3>8. Repeats(v, m) /\ v.at \in Underway /\ EntryFor(registry, v.request) # {}
            BY <2>1, <2>3, <3>1, <3>3 DEF Repeats, Underway
        <3>9. Sound(u, registry, links) /\ u.at \notin Underway
            BY <1>1, <3>3, <3>4, <3>5, <3>6, <3>7, <3>8, FailedSound
        <3>10. work'[c] = u
            BY <2>1, <2>3, <3>2, <3>4 DEF SessionEnd, At
        <3> QED
            BY <3>6, <3>9, <3>10
    <2>4. CASE w.at = "sent"
        <3>1. PICK m \in Method : m = MethodFor(w.request) /\ Repeats(w, m) /\ EntryFor(registry, w.request) # {}
            BY <2>1, <2>4, CallKnown
        <3>2. PICK u : u = AfterFailure(w, "UNAVAILABLE")
            OBVIOUS
        <3>3. u \in Work /\ u.ins = w.ins /\ u.outs = w.outs
            BY <1>1, <3>1, <3>2, AfterFailureEffect
        <3>4. u.outs = Reverse(u.ins) /\ w.onward = {}
            <4>1. Reverse(<<>>) = <<>>
                BY DEF Reverse
            <4> QED
                BY <2>1, <2>4, <3>3, <4>1 DEF Sound, Unwinding
        <3>5. FailedAs(u, u) /\ w.at \in Underway
            BY <2>4 DEF FailedAs, Underway
        <3>6. Sound(u, registry, links) /\ u.at \notin Underway
            BY <1>1, <2>4, <3>1, <3>2, <3>3, <3>4, <3>5, FailedSound
        <3>7. work'[c] = u
            BY <2>1, <2>4, <3>2 DEF SessionEnd, At
        <3> QED
            BY <3>3, <3>6, <3>7
    <2> QED
        BY <2>2, <2>3, <2>4 DEF Underway
<1>3. /\ setup' = setup /\ stage' = "serving" /\ stage = "serving" /\ builder' = builder
      /\ registry' = registry /\ now' = now
      /\ identity' = NoOne /\ links' = <<>> /\ next' = FirstId("client")
    BY DEF SessionEnd, building
<1>4. Configured'
    BY <1>3 DEF Inv, Configured
<1>5. Serving'
    <2>1. <<>> \in Seq(Interceptor)
        OBVIOUS
    <2>2. FirstId("client") \in Ids
        BY IdSpaceEven DEF FirstId, Ids
    <2>3. PICK f : f = work' /\ f = [c \in setup.calls |-> f[c]]
        BY DEF SessionEnd
    <2>4. work' \in [setup.calls -> Work]
        BY <1>2, <2>3
    <2> QED
        BY <1>1, <1>3, <2>1, <2>2, <2>4, NoOneType DEF Serving
<1>6. Apart'
    BY <1>2, <1>3 DEF Apart
<1>7. (\A c \in setup.calls : Sound(work[c], registry, links))'
    BY <1>2, <1>3, SoundBetween DEF Underway
<1> QED
    BY <1>4, <1>5, <1>6, <1>7 DEF Inv

\* An idle call asks nothing of the registry, which is complete before the
\* first call is made.
LEMMA SoundIdle ==
    ASSUME NEW w, NEW reg, NEW chain, NEW other, Sound(w, reg, chain), w.at = "idle"
    PROVE  Sound(w, other, chain)
BY DEF Sound, Unwinding, Underway

LEMMA BuilderType ==
    ASSUME NEW b \in Builder, IsFiniteSet(b.reflection)
    PROVE  /\ \A id \in U32 : WithCredit(b, id) \in Builder /\ WithCredit(b, id).reflection = b.reflection
           /\ \A id \in U32 : PlainMessage(b, id) \in Builder /\ PlainMessage(b, id).reflection = b.reflection
           /\ \A r, s \in U32 : WithReflection(b, r, s) \in Builder /\ IsFiniteSet(WithReflection(b, r, s).reflection)
           /\ \A m \in Method : Declare(b, m) \in Builder /\ Declare(b, m).reflection = b.reflection
           /\ \A m \in Method : Serve(b, m) \in Builder /\ Serve(b, m).reflection = b.reflection
<1>1. \A id \in U32 : WithCredit(b, id) \in Builder /\ WithCredit(b, id).reflection = b.reflection
    BY DEF WithCredit, Builder
<1>2. \A id \in U32 : PlainMessage(b, id) \in Builder /\ PlainMessage(b, id).reflection = b.reflection
    BY DEF PlainMessage, Builder
<1>3. ASSUME NEW r \in U32, NEW s \in U32
      PROVE  WithReflection(b, r, s) \in Builder /\ IsFiniteSet(WithReflection(b, r, s).reflection)
    <2>1. PICK one : one = {[request |-> r, reply |-> s]}
        OBVIOUS
    <2>2. IsFiniteSet(one)
        BY <2>1, FS_Singleton
    <2>3. one \in SUBSET [request : U32, reply : U32]
        BY <2>1
    <2>4. WithReflection(b, r, s) = [b EXCEPT !.reflection = one]
        BY <2>1 DEF WithReflection
    <2>5. WithReflection(b, r, s) \in Builder /\ WithReflection(b, r, s).reflection = one
        BY <2>3, <2>4 DEF Builder
    <2> QED
        BY <2>2, <2>5
<1>4. ASSUME NEW m \in Method, NEW served \in BOOLEAN,
             NEW d, d = [b EXCEPT !.entries = Append(@, [method |-> m, served |-> served])]
      PROVE  d \in Builder /\ d.reflection = b.reflection
    <2>1. PICK entry \in Entry : entry = [method |-> m, served |-> served]
        BY DEF Entry
    <2>2. PICK entries \in Seq(Entry) : entries = b.entries
        BY DEF Builder
    <2>3. PICK more \in Seq(Entry) : more = Append(entries, entry)
        BY AppendProperties
    <2>4. d = [b EXCEPT !.entries = more]
        BY <1>4, <2>1, <2>2, <2>3
    <2> QED
        BY <2>4 DEF Builder
<1>5. \A m \in Method : Declare(b, m) \in Builder /\ Declare(b, m).reflection = b.reflection
    BY <1>4 DEF Declare
<1>6. \A m \in Method : Serve(b, m) \in Builder /\ Serve(b, m).reflection = b.reflection
    BY <1>4 DEF Serve
<1> QED
    BY <1>1, <1>2, <1>3, <1>5, <1>6

\* A step that leaves every call alone, while none is underway or none of what
\* the calls depend on changes.
LEMMA CallsAlone ==
    ASSUME Inv, Configured', setup' = setup, identity' \in Identity, links' \in Seq(Interceptor),
           UNCHANGED <<work, next>>, now' \in Nat,
           \/ stage # "serving" /\ links' = links
           \/ /\ stage' = "serving" /\ stage = "serving" /\ registry' = registry
              /\ links' = links \/ \E link \in Interceptor : links' = Append(links, link)
    PROVE  Inv'
<1>1. Apart'
    BY DEF Inv, Apart
<1>2. Serving'
    <2>1. \A c \in setup.calls : work[c].at = "idle" \/ stage' = "serving"
        BY DEF Inv, Serving
    <2> QED
        BY <2>1 DEF Inv, Serving
<1>3. ASSUME NEW c \in setup.calls PROVE Sound(work[c], registry', links')
    <2>1. PICK w \in Work : w = work[c] /\ Sound(w, registry, links)
        BY CallKnown
    <2>2. CASE stage # "serving"
        <3>1. w.at = "idle" /\ links' = links
            BY <2>1, <2>2 DEF Inv, Serving
        <3> QED
            BY <2>1, <3>1, SoundIdle
    <2>3. CASE stage = "serving"
        <3>1. PICK chain \in Seq(Interceptor) : chain = links
            BY DEF Inv, Serving
        <3>2. registry' = registry /\ (links' = chain \/ \E link \in Interceptor : links' = Append(chain, link))
            BY <2>3, <3>1
        <3> QED
            BY <2>1, <3>1, <3>2, SoundWithMore
    <2> QED
        BY <2>2, <2>3
<1> QED
    BY <1>1, <1>2, <1>3 DEF Inv

LEMMA AddToBuilderPreserves ==
    ASSUME Inv, AddToBuilder
    PROVE  Inv'
<1>1. PICK b \in Builder : b = builder /\ IsFiniteSet(b.reflection)
    BY DEF Inv, Configured
<1>2. PICK s \in Setups : s = setup
    BY DEF Inv, Configured
<1>3. s.methods \subseteq Method /\ s.reflections \subseteq U32 \X U32 /\ s.system \cup s.plain \subseteq U32
    BY ServiceConstants
<1>4. builder' \in Builder /\ IsFiniteSet(builder'.reflection)
    <2>1. CASE \E id \in s.system : builder' = WithCredit(b, id)
        <3>1. PICK id \in U32 : builder' = WithCredit(b, id)
            BY <1>3, <2>1
        <3>2. WithCredit(b, id) \in Builder /\ WithCredit(b, id).reflection = b.reflection
            BY <1>1, BuilderType
        <3> QED
            BY <1>1, <3>1, <3>2
    <2>2. CASE \E r \in s.reflections : builder' = WithReflection(b, r[1], r[2])
        <3>1. PICK x \in U32, y \in U32 : builder' = WithReflection(b, x, y)
            BY <1>3, <2>2
        <3>2. WithReflection(b, x, y) \in Builder /\ IsFiniteSet(WithReflection(b, x, y).reflection)
            BY <1>1, BuilderType
        <3> QED
            BY <3>1, <3>2
    <2>3. CASE \E id \in s.plain : builder' = PlainMessage(b, id)
        <3>1. PICK id \in U32 : builder' = PlainMessage(b, id)
            BY <1>3, <2>3
        <3>2. PlainMessage(b, id) \in Builder /\ PlainMessage(b, id).reflection = b.reflection
            BY <1>1, BuilderType
        <3> QED
            BY <1>1, <3>1, <3>2
    <2>4. CASE \E m \in s.methods : builder' = Declare(b, m) \/ builder' = Serve(b, m)
        BY <1>1, <1>3, <2>4, BuilderType
    <2> QED
        BY <1>1, <1>2, <2>1, <2>2, <2>3, <2>4 DEF AddToBuilder
<1>5. stage = "building" /\ UNCHANGED <<setup, stage, registry, identity, links, work, next, now>>
    BY DEF AddToBuilder
<1>6. Configured'
    BY <1>4, <1>5 DEF Inv, Configured
<1> QED
    BY <1>5, <1>6, CallsAlone DEF Inv, Serving

LEMMA BuildPreserves ==
    ASSUME Inv, BuildRegistry \/ Start
    PROVE  Inv'
<1>1. Configured'
    <2>1. CASE BuildRegistry
        BY <2>1 DEF BuildRegistry, Inv, Configured
    <2>2. CASE Start
        BY <2>2 DEF Start, Inv, Configured
    <2> QED
        BY <2>1, <2>2
<1>2. stage # "serving" /\ UNCHANGED <<setup, identity, links, work, next, now>>
    BY DEF BuildRegistry, Start
<1> QED
    BY <1>1, <1>2, CallsAlone DEF Inv, Serving

LEMMA AroundPreserves ==
    ASSUME Inv, Authenticate \/ ClearIdentity \/ AddInterceptor \/ Clock
    PROVE  Inv'
<1>1. stage = "serving" /\ UNCHANGED building /\ UNCHANGED <<work, next>>
    BY DEF Authenticate, ClearIdentity, AddInterceptor, Clock
<1>2. Configured'
    BY <1>1 DEF Inv, Configured, building
<1>3. PICK s \in Setups : s = setup /\ s.identities \subseteq Identity /\ s.links \subseteq Interceptor
    BY ServiceConstants DEF Inv, Configured
<1>4. identity' \in Identity
    <2>1. identity' \in s.identities \cup {NoOne, identity}
        BY <1>3 DEF Authenticate, ClearIdentity, AddInterceptor, Clock
    <2> QED
        BY <1>3, <2>1, NoOneType DEF Inv, Serving
<1>5. links' = links \/ \E link \in Interceptor : links' = Append(links, link)
    BY <1>3 DEF Authenticate, ClearIdentity, AddInterceptor, Clock
<1>6. links' \in Seq(Interceptor)
    <2>1. PICK chain \in Seq(Interceptor) : chain = links
        BY DEF Inv, Serving
    <2> QED
        BY <1>5, <2>1, AppendProperties
<1>7. now' \in Nat
    <2>1. now \in Nat /\ now' \in {now, now + 1}
        BY DEF Authenticate, ClearIdentity, AddInterceptor, Clock, Inv, Serving
    <2> QED
        BY <2>1
<1> QED
    BY <1>1, <1>2, <1>4, <1>5, <1>6, <1>7, CallsAlone DEF building

LEMMA InvInit == Init => Inv
<1> SUFFICES ASSUME Init PROVE Inv
    OBVIOUS
<1>1. PICK s \in Setups : s = setup
    BY DEF Init
<1>2. s.builder \in Builder /\ IsFiniteSet(s.builder.reflection)
    BY ServiceConstants
<1>3. Configured
    BY <1>1, <1>2 DEF Init, Configured
<1>4. Idle.at = "idle" /\ Idle.ins = <<>> /\ Idle.outs = <<>> /\ Idle.onward = {}
    BY DEF Idle
<1>5. \A c \in setup.calls : work[c] = Idle
    BY DEF Init
<1>6. Serving
    <2>1. next \in Ids
        BY IdSpaceEven DEF Init, FirstId, Ids
    <2>2. <<>> \in Seq(Interceptor) /\ 1 \in Nat
        OBVIOUS
    <2>3. work \in [setup.calls -> Work]
        BY IdleType DEF Init
    <2> QED
        BY <1>4, <1>5, <2>1, <2>2, <2>3, NoOneType DEF Init, Serving
<1>7. Apart
    BY <1>4, <1>5 DEF Apart, Underway
<1>8. \A c \in setup.calls : Sound(work[c], registry, links)
    BY <1>4, <1>5 DEF Sound, Unwinding, Underway
<1> QED
    BY <1>3, <1>6, <1>7, <1>8 DEF Inv

LEMMA InvNext == Inv /\ [Next]_vars => Inv'
<1> SUFFICES ASSUME Inv, [Next]_vars PROVE Inv'
    OBVIOUS
<1>1. CASE AddToBuilder
    BY <1>1, AddToBuilderPreserves
<1>2. CASE BuildRegistry \/ Start
    BY <1>2, BuildPreserves
<1>3. CASE Authenticate \/ ClearIdentity \/ AddInterceptor \/ Clock
    BY <1>3, AroundPreserves
<1>4. ASSUME NEW c \in setup.calls, Open(c) PROVE Inv'
    BY <1>4, OpenPreserves
<1>5. ASSUME NEW c \in setup.calls, Attempt(c) PROVE Inv'
    BY <1>5, AttemptPreserves
<1>6. ASSUME NEW c \in setup.calls, ArriveUnserved(c) \/ ArriveTooMany(c) PROVE Inv'
    BY <1>6, ArriveRefusedPreserves
<1>7. ASSUME NEW c \in setup.calls, ArriveInChain(c) PROVE Inv'
    BY <1>7, ArriveInChainPreserves
<1>8. ASSUME NEW c \in setup.calls, CallOnward(c) PROVE Inv'
    BY <1>8, CallOnwardPreserves
<1>9. ASSUME NEW c \in setup.calls, Respond(c) PROVE Inv'
    BY <1>9, RespondPreserves
<1>10. ASSUME NEW c \in setup.calls, FailRunning(c) PROVE Inv'
    BY <1>10, FailRunningPreserves
<1>11. CASE SessionEnd
    BY <1>11, SessionEndPreserves
<1>12. CASE UNCHANGED vars
    BY <1>12 DEF vars, Inv, Configured, Serving, Apart
<1> QED
    BY <1>1, <1>2, <1>3, <1>4, <1>5, <1>6, <1>7, <1>8, <1>9, <1>10, <1>11, <1>12 DEF Next

LEMMA InvAlways == Spec => []Inv
BY InvInit, InvNext, PTL DEF Spec

-----------------------------------------------------------------------------
\* The theorems.

(* The reflection method tells the truth about every registry Build         *)
(* accepts: the decoder of the answer, which the schema generates, finds in *)
(* the bytes the core writes by hand every served method, once, with the    *)
(* shape and the ids dispatch uses, and the whole schema.                   *)
THEOREM ReflectionTells == Spec => []ReflectionTrue
<1>1. Inv => ReflectionTrue
    BY ReflectionEffect DEF Inv, Configured, ReflectionTrue
<1> QED
    BY <1>1, InvAlways, PTL

(* The chain of interceptors, of whatever links and verifiers and however   *)
(* long, runs no handler that one of its authorization links would not let  *)
(* run, and the handler acts with what the last of them left it.            *)
THEOREM HandlersStayNarrow == Spec => []NeverWider
<1>1. Inv => NeverWider
    <2> SUFFICES ASSUME Inv, NEW c \in setup.calls, work[c].at = "running"
                 PROVE  Narrow(c)
        BY DEF NeverWider, At
    <2>1. PICK w \in Work : w = work[c] /\ Running(w, links)
        BY CallKnown DEF Sound
    <2>2. PICK x \in CallContext : x = w.context /\ x.method.request = w.request
        BY <2>1 DEF Running
    <2>3. PICK n \in Nat : n = Len(w.ins) /\ DOMAIN w.ins = 1..n
        BY <2>1 DEF Work
    <2>4. PICK guards : /\ guards = {k \in DOMAIN work[c].ins : links[k].kind = "authorization"}
                        /\ guards = Guards(links, n)
        BY <2>1, <2>3 DEF Guards
    <2>5. PICK deputies : deputies = {k \in guards : Replaces(links[k], x)} /\ deputies = Deputies(links, n, x)
        BY <2>4 DEF Deputies
    <2>6. (\A k \in guards : Cleared(links[k], x)) /\ LastWord(links, n, x)
        BY <2>1, <2>2, <2>3, <2>4 DEF Running
    <2>7. CASE x.session = NoOne
        <3>1. \A k \in guards : w.request \in links[k].exempt
            BY <2>2, <2>6, <2>7 DEF Cleared
        <3> QED
            BY <2>1, <2>2, <2>4, <2>7, <3>1 DEF Narrow
    <2>8. CASE x.session # NoOne
        <3>1. \A k \in guards : Vouched(links[k], x) /\ x.method.permission \in {""} \cup Allowance(links[k], x)
            BY <2>6, <2>8 DEF Cleared
        <3>2. /\ \A k \in guards : x.token # NoToken => Presented(links[k], x) # NoOne
              /\ \A k \in deputies : links[k].delegation
            BY <2>5, <3>1 DEF Vouched
        <3>3. /\ \A k \in {k \in guards : \A j \in guards : j <= k} : x.permissions = Allowance(links[k], x)
              /\ \A k \in {k \in deputies : \A j \in deputies : j <= k} : x.onBehalfOf = Presented(links[k], x)
            BY <2>4, <2>5, <2>6, <2>8 DEF LastWord
        <3> QED
            BY <2>1, <2>2, <2>4, <2>5, <2>8, <3>1, <3>2, <3>3 DEF Narrow
    <2> QED
        BY <2>7, <2>8
<1> QED
    BY <1>1, InvAlways, PTL

(* Every link that was entered is unwound once, the last one first, and no  *)
(* other one, at every end of every attempt.                                *)
THEOREM ChainsUnwind == Spec => []ChainUnwound
<1>1. Inv => ChainUnwound
    <2> SUFFICES ASSUME Inv, NEW c \in setup.calls
                 PROVE  CASE work[c].at \in {"ready", "done"} -> work[c].outs = Reverse(work[c].ins)
                          [] OTHER -> work[c].outs = <<>>
        BY DEF ChainUnwound
    <2>1. PICK w \in Work : w = work[c] /\ Unwinding(w, links)
        BY CallKnown DEF Sound
    <2>2. CASE w.at \in {"ready", "done"}
        BY <2>1, <2>2 DEF Unwinding
    <2>3. CASE w.at \notin {"ready", "done"}
        BY <2>1, <2>3 DEF Unwinding
    <2> QED
        BY <2>1, <2>2, <2>3
<1> QED
    BY <1>1, InvAlways, PTL

(* Whole milliseconds of a remaining time never outlive it, however long a  *)
(* millisecond is in ticks of the clock.                                    *)
THEOREM OnwardCallsEndInTime == Spec => []OnwardInTime
<1>1. Inv => OnwardInTime
    BY CallKnown DEF Sound, Running, OnwardInTime, At
<1> QED
    BY <1>1, InvAlways, PTL

(* Under every retry policy and every backoff, a method runs again only     *)
(* where its safety, its shape, the attempts and the budget allow it.       *)
THEOREM RepeatsStayAllowed == Spec => []RepeatsAllowed
<1>1. Inv => RepeatsAllowed
    <2> SUFFICES ASSUME Inv, NEW c \in setup.calls, work[c].at # "idle", NEW m, m = MethodFor(work[c].request)
                 PROVE  /\ ~SurvivesUnknownOutcome(m) => work[c].runs <= 1 + work[c].exhausted
                        /\ m.shape # UNARY => work[c].runs <= 1
                        /\ work[c].runs <= MaxAttempts
                        /\ work[c].at = "ready" /\ work[c].retry.attempt > 1 /\ work[c].retry.deadline # 0
                            => work[c].retryAt < work[c].retry.deadline
        BY DEF RepeatsAllowed
    <2>1. PICK w \in Work : w = work[c] /\ Repeats(w, m)
        BY CallKnown
    <2>2. PICK a \in Nat, runs \in Nat : a = w.retry.attempt /\ runs = w.runs
        BY DEF Work, RetryState
    <2>3. a \in 1..MaxAttempts /\ runs <= a /\ (m.shape # UNARY => a = 1)
        BY <2>1, <2>2 DEF Repeats
    <2>4. runs <= MaxAttempts /\ (m.shape # UNARY => runs <= 1)
        BY <2>3, ServiceConstants
    <2> QED
        BY <2>1, <2>2, <2>4 DEF Repeats
<1> QED
    BY <1>1, InvAlways, PTL

-----------------------------------------------------------------------------
\* Only an attempt that finds no id settles a call with NO_CALL_ID.

LEMMA FailureResult ==
    ASSUME NEW w \in Work, NEW status, status # "NO_CALL_ID"
    PROVE  AfterFailure(w, status).result # "NO_CALL_ID"
<1>1. PICK decision : decision = OnFailure(w.retry, status, MethodFor(w.request), now)
    OBVIOUS
<1>2. PICK result : result = IF decision.retry THEN "none" ELSE status
    OBVIOUS
<1>3. AfterFailure(w, status).result = result
    BY <1>1, <1>2 DEF AfterFailure, Work
<1> QED
    BY <1>2, <1>3

Refused(before, after) == before.result = "none" /\ after.result = "NO_CALL_ID"

LEMMA OneResult ==
    ASSUME Inv, NEW c \in setup.calls, NEW u, work' = [work EXCEPT ![c] = u],
           u.result # "NO_CALL_ID" \/ u.result = work[c].result
    PROVE  \A d \in setup.calls : ~Refused(work[d], work'[d])
<1>1. work \in [setup.calls -> Work]
    BY DEF Inv, Serving
<1>2. \A d \in setup.calls : work'[d] = IF d = c THEN u ELSE work[d]
    BY <1>1
<1>3. ~Refused(work[c], u)
    BY DEF Refused
<1>4. \A d \in setup.calls : ~Refused(work[d], work[d])
    BY DEF Refused
<1> QED
    BY <1>2, <1>3, <1>4

LEMMA NotRefusedInChain ==
    ASSUME Inv, NEW c \in setup.calls, ArriveInChain(c)
    PROVE  \A d \in setup.calls : ~Refused(work[d], work'[d])
<1>1. PICK w \in Work : w = work[c] /\ w.at = "sent"
    BY CallKnown DEF ArriveInChain
<1>2. PICK chain \in Seq(Interceptor) : chain = links
    BY DEF Inv, Serving
<1>3. PICK x \in CallContext : x = ContextOf(c)
    BY <1>1, ContextType
<1>4. PICK came : came = Inbound(chain, x)
    OBVIOUS
<1>5. Passed(chain, x, Len(chain), came)
    BY <1>4, InboundEffect
<1>6. PICK e \in Nat, status \in Verdicts : e = came.entered /\ status = came.status
    BY <1>5 DEF Passed, Passage
<1>7. PICK v : v = [w EXCEPT !.ins = Links(e)]
    OBVIOUS
<1>8. v \in Work
    <2>1. PICK ins \in Seq(Nat) : ins = Links(e)
        BY LinksType
    <2> QED
        BY <1>7, <2>1 DEF Work
<1>9. work' = [work EXCEPT ![c] =
            IF status # "OK" THEN [AfterFailure(v, status) EXCEPT !.outs = Outbound(chain, e)]
            ELSE [v EXCEPT !.at = "running", !.context = came.context, !.runs = @ + 1]]
    BY <1>1, <1>2, <1>3, <1>4, <1>6, <1>7 DEF ArriveInChain, Links
<1>10. CASE status # "OK"
    <2>1. AfterFailure(v, status).result # "NO_CALL_ID"
        BY <1>8, FailureResult DEF Verdicts
    <2>2. PICK u : u = [AfterFailure(v, status) EXCEPT !.outs = Outbound(chain, e)]
        OBVIOUS
    <2>3. u.result = AfterFailure(v, status).result
        BY <1>8, <2>2 DEF AfterFailure, Work
    <2>4. work' = [work EXCEPT ![c] = u]
        BY <1>9, <1>10, <2>2
    <2> QED
        BY <2>1, <2>3, <2>4, OneResult
<1>11. CASE status = "OK"
    <2>1. PICK u : u = [v EXCEPT !.at = "running", !.context = came.context, !.runs = @ + 1]
        OBVIOUS
    <2>2. u.result = w.result
        BY <1>7, <2>1 DEF Work
    <2>3. work' = [work EXCEPT ![c] = u]
        BY <1>9, <1>11, <2>1
    <2> QED
        BY <1>1, <2>2, <2>3, OneResult
<1> QED
    BY <1>10, <1>11

LEMMA NotRefusedRunning ==
    ASSUME Inv, NEW c \in setup.calls, Respond(c) \/ FailRunning(c) \/ CallOnward(c)
    PROVE  \A d \in setup.calls : ~Refused(work[d], work'[d])
<1>1. PICK w \in Work : w = work[c] /\ w.at = "running"
    BY CallKnown DEF Respond, FailRunning, CallOnward
<1>2. PICK v \in Work : v = Unwound(c)
    BY <1>1, UnwoundEffect
<1>3. CASE Respond(c)
    <2>1. PICK u : u = [v EXCEPT !.at = "done", !.id = NoId, !.retryAt = 0, !.result = "OK"]
        OBVIOUS
    <2>2. u.result = "OK" /\ work' = [work EXCEPT ![c] = u]
        BY <1>2, <1>3, <2>1 DEF Respond, Work
    <2> QED
        BY <2>2, OneResult
<1>4. CASE FailRunning(c)
    <2>1. PICK status \in {"RESOURCE_EXHAUSTED", "FAILED_PRECONDITION", "DEADLINE_EXCEEDED"} :
            work' = [work EXCEPT ![c] =
                LET f == AfterFailure(v, status)
                IN IF status = "RESOURCE_EXHAUSTED" THEN [f EXCEPT !.exhausted = @ + 1] ELSE f]
        BY <1>2, <1>4 DEF FailRunning
    <2>2. PICK f : f = AfterFailure(v, status) /\ f.result # "NO_CALL_ID"
        BY <2>1, FailureResult
    <2>3. PICK u : u = IF status = "RESOURCE_EXHAUSTED" THEN [f EXCEPT !.exhausted = @ + 1] ELSE f
        OBVIOUS
    <2>4. u.result = f.result
        BY <2>2, <2>3 DEF AfterFailure, Work
    <2>5. work' = [work EXCEPT ![c] = u]
        BY <2>1, <2>2, <2>3
    <2> QED
        BY <2>2, <2>4, <2>5, OneResult
<1>5. CASE CallOnward(c)
    <2>1. PICK deadlines : work' = [work EXCEPT ![c].onward = deadlines]
        BY <1>5 DEF CallOnward
    <2>2. PICK u : u = [w EXCEPT !.onward = deadlines]
        OBVIOUS
    <2>3. u.result = w.result
        BY <2>2 DEF Work
    <2>4. work' = [work EXCEPT ![c] = u]
        BY <1>1, <2>1, <2>2 DEF Inv, Serving
    <2> QED
        BY <1>1, <2>3, <2>4, OneResult
<1> QED
    BY <1>3, <1>4, <1>5

LEMMA NotRefusedElsewhere ==
    ASSUME Inv, NEW c \in setup.calls, Open(c) \/ ArriveUnserved(c) \/ ArriveTooMany(c)
    PROVE  \A d \in setup.calls : ~Refused(work[d], work'[d])
<1>1. PICK w \in Work : w = work[c]
    BY CallKnown
<1>2. CASE Open(c)
    <2>1. PICK i \in DOMAIN registry.entries, token \in setup.tokens, budget \in setup.budgets, ms \in setup.deadlines :
            work' = [work EXCEPT ![c] = [Idle EXCEPT !.at = "ready", !.token = token, !.ms = ms,
                        !.request = registry.entries[i].method.request,
                        !.retry = NewRetryState(now, budget), !.retryAt = now]]
        BY <1>2 DEF Open
    <2>2. PICK u : u = [Idle EXCEPT !.at = "ready", !.token = token, !.ms = ms,
                        !.request = registry.entries[i].method.request,
                        !.retry = NewRetryState(now, budget), !.retryAt = now]
        OBVIOUS
    <2>3. u.result = "none"
        BY <2>2 DEF Idle
    <2>4. work' = [work EXCEPT ![c] = u]
        BY <2>1, <2>2
    <2> QED
        BY <2>3, <2>4, OneResult
<1>3. CASE ArriveUnserved(c) \/ ArriveTooMany(c)
    <2>1. PICK status \in {"UNIMPLEMENTED", "RESOURCE_EXHAUSTED"} :
            work' = [work EXCEPT ![c] = AfterFailure(w, status)]
        BY <1>1, <1>3 DEF ArriveUnserved, ArriveTooMany, Inv, Serving
    <2>2. AfterFailure(w, status).result # "NO_CALL_ID"
        BY <2>1, FailureResult
    <2> QED
        BY <2>1, <2>2, OneResult
<1> QED
    BY <1>2, <1>3

LEMMA NotRefusedAtEnd ==
    ASSUME Inv, SessionEnd
    PROVE  \A d \in setup.calls : ~Refused(work[d], work'[d])
<1> SUFFICES ASSUME NEW d \in setup.calls PROVE ~Refused(work[d], work'[d])
    OBVIOUS
<1>1. PICK w \in Work : w = work[d]
    BY CallKnown
<1>2. CASE w.at = "running"
    <2>1. PICK v \in Work : v = Unwound(d)
        BY <1>1, <1>2, UnwoundEffect
    <2>2. work'[d] = AfterFailure(v, "UNAVAILABLE")
        BY <1>1, <1>2, <2>1 DEF SessionEnd, At
    <2>3. AfterFailure(v, "UNAVAILABLE").result # "NO_CALL_ID"
        BY FailureResult
    <2> QED
        BY <2>2, <2>3 DEF Refused
<1>3. CASE w.at = "sent"
    <2>1. work'[d] = AfterFailure(w, "UNAVAILABLE")
        BY <1>1, <1>3 DEF SessionEnd, At
    <2>2. AfterFailure(w, "UNAVAILABLE").result # "NO_CALL_ID"
        BY FailureResult
    <2> QED
        BY <2>1, <2>2 DEF Refused
<1>4. CASE w.at \notin {"sent", "running"}
    <2>1. work'[d] = w
        BY <1>1, <1>4 DEF SessionEnd, At
    <2> QED
        BY <1>1, <2>1 DEF Refused
<1> QED
    BY <1>2, <1>3, <1>4

LEMMA RefusedWhenFull ==
    ASSUME Inv, [Next]_vars, NEW c \in setup.calls, Refused(work[c], work'[c])
    PROVE  Cardinality(Pending) = IdSpace \div 2
<1>1. work' # work
    BY DEF Refused
<1>2. PICK d \in setup.calls : Attempt(d)
    BY <1>1, NotRefusedInChain, NotRefusedRunning, NotRefusedElsewhere, NotRefusedAtEnd
       DEF Next, vars, AddToBuilder, BuildRegistry, Start, Authenticate, ClearIdentity, AddInterceptor, Clock
<1>3. PICK given : given = Allocate(next, Pending)
    OBVIOUS
<1>4. CASE given.id = NoId
    BY <1>3, <1>4, AllocatedId, IdsCount
<1>5. CASE given.id # NoId
    <2>1. PICK w \in Work : w = work[d]
        BY CallKnown
    <2>2. PICK u : u = [[w EXCEPT !.id = given.id, !.ins = <<>>, !.outs = <<>>] EXCEPT !.at = "sent"]
        OBVIOUS
    <2>3. u.result = w.result
        BY <2>2 DEF Work
    <2>4. work' = [work EXCEPT ![d] = u]
        BY <1>2, <1>3, <1>5, <2>1, <2>2 DEF Attempt
    <2> QED
        BY <2>1, <2>3, <2>4, OneResult
<1> QED
    BY <1>4, <1>5

(* For every size of the id space: open calls have ids of their own, of the *)
(* caller's parity, after any number of rounds, and the allocator turns a   *)
(* call away only when every one of its ids is taken.                       *)
THEOREM IdsStayRight == Spec => IdsRight
<1>1. Inv => /\ \A c, d \in At("sent") \cup At("running") : work[c].id = work[d].id => c = d
             /\ \A id \in Pending : id < IdSpace /\ id % 2 = FirstId("client")
    <2> SUFFICES ASSUME Inv
                 PROVE  /\ \A c, d \in At("sent") \cup At("running") : work[c].id = work[d].id => c = d
                        /\ \A id \in Pending : id < IdSpace /\ id % 2 = FirstId("client")
        OBVIOUS
    <2>1. \A c \in At("sent") \cup At("running") : c \in setup.calls /\ work[c].at \in Underway /\ work[c].id \in Ids
        BY DEF At, Underway, Inv, Sound
    <2>2. \A c, d \in At("sent") \cup At("running") : work[c].id = work[d].id => c = d
        BY <2>1 DEF Inv, Apart
    <2>3. \A id \in Ids : id < IdSpace /\ id % 2 = FirstId("client")
        <3>1. FirstId("client") = 0
            BY DEF FirstId
        <3> QED
            BY <3>1, IdSpaceEven DEF Ids
    <2>4. \A id \in Pending : id \in Ids
        BY <2>1 DEF Pending
    <2>5. \A id \in Pending : id < IdSpace /\ id % 2 = FirstId("client")
        BY <2>3, <2>4
    <2> QED
        BY <2>2, <2>5
<1>2. Inv /\ [Next]_vars =>
        [\A c \in setup.calls :
            work[c].result = "none" /\ work'[c].result = "NO_CALL_ID"
                => Cardinality(Pending) = IdSpace \div 2]_vars
    BY RefusedWhenFull DEF Refused
<1> QED
    BY <1>1, <1>2, InvAlways, PTL DEF Spec, IdsRight

=============================================================================
