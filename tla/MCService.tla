------------------------------ MODULE MCService ------------------------------
\* Small cases for Service.  The ids: 1 void, 2 error, 3 credit, 4..9 free.
EXTENDS Service

Nothing ==
    [builder |-> NewRegistry, system |-> {}, reflections |-> {}, plain |-> {}, methods |-> {},
     maxEntries |-> 0, schema |-> {}, identities |-> {}, links |-> {}, maxLinks |-> 0,
     calls |-> {}, tokens |-> {NoToken}, budgets |-> {0}, deadlines |-> {0}, maxInflight |-> 2,
     sessions |-> 1, lastTick |-> 1, onward |-> FALSE]

SmallJSON == <<123, 200>>

\* Every order of builder calls, with collisions of every kind.
A == Unary(<<65>>, 4, 5)
B == Keyed(BidiStream(<<66>>, 6, 4, 7))
BuilderCase ==
    [Nothing EXCEPT
        !.system = {3, 7}, !.reflections = {<<8, 9>>, <<4, 9>>}, !.plain = {5, 2},
        !.methods = {A, B, ServerStream(<<>>, 7, 3), ClientStream(<<67>>, 8, 8, 1), Idempotent(Unary(<<68>>, 5, 6))},
        !.maxEntries = 3, !.schema = {4, 5, 8, 9}]

\* One call after another behind a chain that grows, under changing identities.
Guarded == Requiring(Unary(<<65>>, 4, 5), "write")
Authorization(exempt, verifier, delegation) ==
    [kind |-> "authorization", exempt |-> exempt, verifier |-> verifier, delegation |-> delegation]
SmallTokens == {NoToken, "user", "admin", "bad"}
\* Two verifiers that disagree on a credential: the second takes one for the
\* session's own and the other for someone who may do more.
First ==
    [NoVerifier EXCEPT !["user"]  = NewIdentity("user", {"read"}),
                       !["admin"] = NewIdentity("admin", {"write", "export"})]
Second ==
    [NoVerifier EXCEPT !["user"]  = NewIdentity("service", {"read"}),
                       !["admin"] = NewIdentity("auditor", {"read", "write"})]
AdmissionCase ==
    [Nothing EXCEPT
        !.builder = Declare(Serve(Serve(NewRegistry, Guarded), ServerStream(<<66>>, 6, 7)), Unary(<<90>>, 8, 9)),
        !.schema = 4..9,
        !.identities = {NewIdentity("service", {"read", "write"}), NewIdentity("user", {"read"})},
        !.links = {Authorization({}, First, TRUE), Authorization({4}, First, FALSE),
                   Authorization({}, Second, TRUE), Authorization({6}, NoVerifier, FALSE),
                   [kind |-> "pass"], [kind |-> "unavailable"]},
        !.maxLinks = 2, !.calls = {1}, !.tokens = SmallTokens,
        !.deadlines = {0, 1}, !.lastTick = 3, !.onward = TRUE]

\* Calls with retries, of methods of every safety, and room for one of them.
RetryCase(calls, method, budget) ==
    [Nothing EXCEPT
        !.builder = Serve(NewRegistry, method), !.schema = 4..7,
        !.calls = calls, !.budgets = {budget}, !.maxInflight = 1, !.sessions = 3, !.lastTick = 5]

\* More calls than call ids.
IdCase ==
    [Nothing EXCEPT
        !.builder = Serve(NewRegistry, A), !.schema = {4, 5},
        !.calls = {1, 2, 3}, !.maxInflight = 3]

SmallSetups ==
    {BuilderCase, AdmissionCase, IdCase}
        \cup {RetryCase({1, 2}, A, 0), RetryCase({1, 2}, Keyed(A), 0), RetryCase({1, 2}, B, 4),
             RetryCase({1}, Idempotent(A), 4)}
=============================================================================
