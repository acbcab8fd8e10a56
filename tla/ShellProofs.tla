------------------------------ MODULE ShellProofs ------------------------------
(***************************************************************************)
(* Proofs about the server of Shell, for every set of peers and every set  *)
(* of calls its handlers open, with the client's operations interleaved;   *)
(* and about the client, for every set of calls, with whatever the server  *)
(* sends it interleaved.                                                   *)
(***************************************************************************)
EXTENDS Shell, Recursion, FiniteSetTheorems, FunctionTheorems, SequenceTheorems, TLAPS

-----------------------------------------------------------------------------
\* What the steps of the client leave alone: all of the server but `left`.
core == <<stopped, listening, sock, run, conn, count, accepted, waiter>>

\* The steps of the server, whoever takes them.
ServerNext ==
    \/ RunTop \/ RunCheck \/ Spawn \/ AcceptFails
    \/ Stop \/ StopListening \/ CallWait \/ WaitReturns
    \/ \E p \in Peers : Accept(p) \/ Dial(p) \/ ServeFails(p) \/ ServeOpens(p)
                            \/ ServeStopped(p) \/ ServeClose(p) \/ ServeExit(p)
    \/ \E p \in Peers, ended \in BOOLEAN : ServeTick(p, ended)
    \/ UNCHANGED core

LEMMA NextIsServerNext == [ShellNext]_vars => ServerNext
<1> SUFFICES ASSUME [ShellNext]_vars PROVE ServerNext
    OBVIOUS
<1>1. CASE (RunStep \/ StopListening \/ WaitReturns) /\ UNCHANGED shellVars
    BY <1>1 DEF RunStep, AcceptClosed, ServerNext
<1>2. CASE (Strangers \/ Caller) /\ UNCHANGED shellVars
    BY <1>2 DEF Strangers, Caller, Leave, ServerNext, core
<1>3. ASSUME NEW p \in Peers, ConnStep(p) PROVE ServerNext
    <2>1. CASE TickStep(p)
        <3>1. PICK ended \in BOOLEAN : ServeTick(p, ended)
            BY <2>1 DEF TickStep, TickQuiet, TickVerdict, TickAnswer
        <3> QED
            BY <3>1 DEF ServerNext
    <2>2. CASE ServeStep(p)
        BY <2>2 DEF ServeStep, ServerNext
    <2> QED
        BY <1>3, <2>1, <2>2 DEF ConnStep
<1>4. CASE ClientDials
    BY <1>4, ShellConstants DEF ClientDials, svars, core, ServerNext
<1>5. CASE ClientLoop \/ ClientMay
    BY <1>5 DEF ClientLoop, ClientMay, Beside, core, ServerNext
<1>6. CASE Clock \/ UNCHANGED vars
    BY <1>6 DEF Clock, vars, svars, core, ServerNext
<1> QED
    BY <1>1, <1>2, <1>3, <1>4, <1>5, <1>6 DEF ShellNext

-----------------------------------------------------------------------------
\* The shapes, and where each goroutine stands with respect to the others.

Event(p) == {<<"opened">>, <<"closed">>} \cup {<<"outcome", c>> : c \in OwnCalls[p]}
Conn(p) == [at : {"none", "start", "loop", "close", "exit", "done"}, number : Nat,
            fresh : SUBSET OwnCalls[p], live : SUBSET OwnCalls[p], log : Seq(Event(p))]

Shapes ==
    /\ sock \in [Peers -> {"none", "queued", "accepted", "shut"}]
    /\ run \in [at : {"top", "accept", "check", "spawn", "returned"}, peer : Peers \cup {"none"}]
    /\ DOMAIN conn = Peers
    /\ accepted \in Nat
    /\ waiter \in [at : {"off", "waiting", "returned"}, covers : SUBSET Peers, afterRun : BOOLEAN]

\* The connection in Run's hands is not served yet, and only one that was
\* accepted ever is.
Handing ==
    /\ run.at \in {"check", "spawn"} =>
        run.peer \in Peers /\ sock[run.peer] = "accepted" /\ conn[run.peer].at = "none"
    /\ \A p \in Peers : conn[p].at # "none" => sock[p] \in {"accepted", "shut"}

\* What Wait was called for has been started; Run does not come back.
Covering ==
    /\ \A p \in waiter.covers : conn[p].at # "none"
    /\ waiter.afterRun => run.at = "returned"

\* How the steps of one goroutine change the connections.
Moved(p, c) == conn' = [conn EXCEPT ![p] = c]

LEMMA ServingFinite == IsFiniteSet(Serving)
BY ServerConstants, FS_Subset DEF Serving

\* A connection that is served stays served: the counter need not change.
LEMMA ServingSame ==
    ASSUME NEW p \in Peers, DOMAIN conn = Peers, NEW c, Moved(p, c),
           conn[p].at \notin {"none", "done"}, c.at \notin {"none", "done"}
    PROVE  Serving' = Serving
<1>1. \A q \in Peers : conn'[q] = IF q = p THEN c ELSE conn[q]
    BY DEF Moved
<1> QED
    BY <1>1 DEF Serving

LEMMA ServingAdds ==
    ASSUME NEW p \in Peers, DOMAIN conn = Peers, NEW c, Moved(p, c),
           conn[p].at = "none", c.at \notin {"none", "done"}, count = Cardinality(Serving)
    PROVE  Cardinality(Serving') = count + 1
<1>1. \A q \in Peers : conn'[q] = IF q = p THEN c ELSE conn[q]
    BY DEF Moved
<1>2. Serving' = Serving \cup {p} /\ p \notin Serving
    BY <1>1 DEF Serving
<1> QED
    BY <1>2, ServingFinite, FS_AddElement

LEMMA ServingRemoves ==
    ASSUME NEW p \in Peers, DOMAIN conn = Peers, NEW c, Moved(p, c),
           conn[p].at \notin {"none", "done"}, c.at = "done", count = Cardinality(Serving)
    PROVE  Cardinality(Serving') = count - 1
<1>1. \A q \in Peers : conn'[q] = IF q = p THEN c ELSE conn[q]
    BY DEF Moved
<1>2. Serving' = Serving \ {p} /\ p \in Serving
    BY <1>1 DEF Serving
<1> QED
    BY <1>2, ServingFinite, FS_RemoveElement

-----------------------------------------------------------------------------
\* Outcomes: the calls, each once, in some order.

LEMMA OutcomesOnce ==
    ASSUME NEW p \in Peers, NEW S \in SUBSET OwnCalls[p]
    PROVE  /\ Outcomes(S) \in Seq(Event(p))
           /\ \A i, j \in DOMAIN Outcomes(S) : Outcomes(S)[i] = Outcomes(S)[j] => i = j
           /\ \A i \in DOMAIN Outcomes(S) : \E c \in S : Outcomes(S)[i] = <<"outcome", c>>
           /\ \A c \in S : \E i \in DOMAIN Outcomes(S) : Outcomes(S)[i] = <<"outcome", c>>
<1>1. IsFiniteSet(S)
    BY ServerConstants, FS_Subset
<1> DEFINE n == Cardinality(S)
           q == SetToSeq(S)
<1>2. n \in Nat /\ ExistsBijection(1..n, S)
    BY <1>1, FS_CardinalityType
<1>3. PICK g : g \in Bijection(1..n, S)
    BY <1>2 DEF ExistsBijection
<1>4. g \in [1..n -> S] /\ IsInjective(g)
    BY <1>3 DEF Bijection, Injection
<1>5. q \in [1..n -> S] /\ IsInjective(q)
    BY <1>4 DEF SetToSeq
<1>6. q \in Injection(1..n, S)
    BY <1>5 DEF Injection
<1>7. q \in Surjection(1..n, S)
    <2>1. IsFiniteSet(1..n) /\ Cardinality(1..n) = n
        BY <1>2, FS_Interval
    <2> QED
        BY <1>1, <1>6, <2>1, FS_Injection
<1> HIDE DEF q, n
<1>8. \A c \in S : \E i \in 1..n : q[i] = c
    BY <1>7 DEF Surjection
<1>9. \A i, j \in 1..n : q[i] = q[j] => i = j
    BY <1>5 DEF IsInjective
<1> DEFINE o == [i \in 1..n |-> <<"outcome", q[i]>>]
<1>10. Outcomes(S) = o
    BY DEF Outcomes, q, n
<1>11. o \in [1..n -> Event(p)]
    BY <1>5 DEF Event
<1>12. o \in Seq(Event(p)) /\ DOMAIN o = 1..n
    BY <1>2, <1>11
<1>13. \A i \in 1..n : o[i] = <<"outcome", q[i]>> /\ q[i] \in S
    BY <1>5
<1> HIDE DEF o
<1> QED
    BY <1>8, <1>9, <1>10, <1>12, <1>13

-----------------------------------------------------------------------------
\* What the observer has heard of a connection, against where its goroutine is:
\* no event twice, "opened" first, "closed" last and only at the end, and an
\* outcome for exactly the calls that were opened and are over.

Has(log, e) == \E i \in DOMAIN log : log[i] = e
Distinct(log) == \A i, j \in DOMAIN log : log[i] = log[j] => i = j
OpenedFirst(log) == log # <<>> => log[1] = <<"opened">>
ClosedLast(log) == \A i \in DOMAIN log : log[i] = <<"closed">> => i = Len(log)

Heard(p, c) ==
    /\ c \in Conn(p)
    /\ Distinct(c.log) /\ OpenedFirst(c.log) /\ ClosedLast(c.log)
    /\ c.fresh \cap c.live = {}
    /\ c.at \in {"none", "start"} => c.log = <<>> /\ c.live = {}
    /\ c.at = "start" => c.fresh = OwnCalls[p]
    /\ c.at \in {"loop", "close"} => c.log # <<>> /\ ~Has(c.log, <<"closed">>)
    /\ c.at \in {"exit", "done"} => c.live = {}
    /\ c.log # <<>> => \A x \in OwnCalls[p] :
                            Has(c.log, <<"outcome", x>>) <=> x \notin c.fresh \cup c.live

\* A log followed by distinct events it does not hold.
LEMMA LogGrows ==
    ASSUME NEW E, NEW l \in Seq(E), NEW m \in Seq(E), Distinct(l), Distinct(m),
           \A i \in DOMAIN l, j \in DOMAIN m : l[i] # m[j]
    PROVE  /\ l \o m \in Seq(E)
           /\ Len(l \o m) = Len(l) + Len(m)
           /\ Distinct(l \o m)
           /\ \A e : Has(l \o m, e) <=> Has(l, e) \/ Has(m, e)
           /\ l # <<>> => l \o m # <<>> /\ (l \o m)[1] = l[1]
<1>1. /\ Len(l) \in Nat /\ DOMAIN l = 1..Len(l) /\ Len(m) \in Nat /\ DOMAIN m = 1..Len(m)
      /\ l \o m \in Seq(E) /\ Len(l \o m) = Len(l) + Len(m)
      /\ DOMAIN (l \o m) = 1..(Len(l) + Len(m))
    BY LenProperties, ConcatProperties
<1>2. \A i \in 1..(Len(l) + Len(m)) :
        (l \o m)[i] = IF i <= Len(l) THEN l[i] ELSE m[i - Len(l)]
    BY ConcatProperties
<1>3. ASSUME NEW i \in 1..(Len(l) + Len(m)), NEW j \in 1..(Len(l) + Len(m)),
             (l \o m)[i] = (l \o m)[j]
      PROVE  i = j
    <2>1. CASE i <= Len(l) /\ j <= Len(l)
        <3>1. i \in DOMAIN l /\ j \in DOMAIN l /\ l[i] = l[j]
            BY <1>1, <1>2, <1>3, <2>1
        <3> QED
            BY <3>1 DEF Distinct
    <2>2. CASE i <= Len(l) /\ ~(j <= Len(l))
        <3>1. i \in DOMAIN l /\ j - Len(l) \in DOMAIN m /\ l[i] = m[j - Len(l)]
            BY <1>1, <1>2, <1>3, <2>2
        <3> QED
            BY <3>1
    <2>3. CASE ~(i <= Len(l)) /\ j <= Len(l)
        <3>1. i - Len(l) \in DOMAIN m /\ j \in DOMAIN l /\ m[i - Len(l)] = l[j]
            BY <1>1, <1>2, <1>3, <2>3
        <3> QED
            BY <3>1
    <2>4. CASE ~(i <= Len(l)) /\ ~(j <= Len(l))
        <3>1. i - Len(l) \in DOMAIN m /\ j - Len(l) \in DOMAIN m
                /\ m[i - Len(l)] = m[j - Len(l)]
            BY <1>1, <1>2, <1>3, <2>4
        <3>2. i - Len(l) = j - Len(l)
            BY <3>1 DEF Distinct
        <3> QED
            BY <1>1, <3>2
    <2> QED
        BY <2>1, <2>2, <2>3, <2>4
<1>4. Distinct(l \o m)
    BY <1>1, <1>3 DEF Distinct
<1>5. ASSUME NEW e PROVE Has(l \o m, e) <=> Has(l, e) \/ Has(m, e)
    <2>1. ASSUME NEW i \in DOMAIN (l \o m), (l \o m)[i] = e
          PROVE  Has(l, e) \/ Has(m, e)
        <3>1. CASE i <= Len(l)
            <4>1. i \in DOMAIN l /\ l[i] = e
                BY <1>1, <1>2, <2>1, <3>1
            <4> QED
                BY <4>1 DEF Has
        <3>2. CASE ~(i <= Len(l))
            <4>1. i - Len(l) \in DOMAIN m /\ m[i - Len(l)] = e
                BY <1>1, <1>2, <2>1, <3>2
            <4> QED
                BY <4>1 DEF Has
        <3> QED
            BY <3>1, <3>2
    <2>2. ASSUME NEW i \in DOMAIN l, l[i] = e PROVE Has(l \o m, e)
        <3>1. i \in DOMAIN (l \o m) /\ (l \o m)[i] = e
            BY <1>1, <1>2, <2>2
        <3> QED
            BY <3>1 DEF Has
    <2>3. ASSUME NEW i \in DOMAIN m, m[i] = e PROVE Has(l \o m, e)
        <3>1. i + Len(l) \in DOMAIN (l \o m) /\ (l \o m)[i + Len(l)] = e
            BY <1>1, <1>2, <2>3
        <3> QED
            BY <3>1 DEF Has
    <2> QED
        BY <2>1, <2>2, <2>3 DEF Has
<1>6. l # <<>> => l \o m # <<>> /\ (l \o m)[1] = l[1]
    <2> SUFFICES ASSUME l # <<>> PROVE l \o m # <<>> /\ (l \o m)[1] = l[1]
        OBVIOUS
    <2>1. Len(l) \in Nat \ {0}
        BY EmptySeq
    <2>2. (l \o m)[1] = l[1]
        BY <1>1, <1>2, <2>1
    <2>3. l \o m # <<>>
        BY <1>1, <2>1, EmptySeq
    <2> QED
        BY <2>2, <2>3
<1> QED
    BY <1>1, <1>4, <1>5, <1>6

\* An event by itself.
LEMMA OneEvent ==
    ASSUME NEW E, NEW e \in E
    PROVE  /\ <<e>> \in Seq(E) /\ Len(<<e>>) = 1 /\ DOMAIN <<e>> = {1} /\ <<e>>[1] = e
           /\ <<e>> # <<>>
           /\ Distinct(<<e>>)
           /\ \A d : Has(<<e>>, d) <=> d = e
<1>1. <<e>> \in Seq(E) /\ Len(<<e>>) = 1 /\ DOMAIN <<e>> = {1} /\ <<e>>[1] = e /\ <<e>> # <<>>
    OBVIOUS
<1> QED
    BY <1>1 DEF Distinct, Has

\* The log after the outcomes of calls that were live.
LEMMA LogOutcomes ==
    ASSUME NEW p \in Peers, NEW l \in Seq(Event(p)), Distinct(l), OpenedFirst(l),
           l # <<>>, NEW S \in SUBSET OwnCalls[p],
           \A x \in S : ~Has(l, <<"outcome", x>>)
    PROVE  LET m == l \o Outcomes(S)
           IN /\ m \in Seq(Event(p)) /\ Distinct(m) /\ m # <<>> /\ OpenedFirst(m)
              /\ Has(m, <<"closed">>) <=> Has(l, <<"closed">>)
              /\ \A x : Has(m, <<"outcome", x>>) <=> Has(l, <<"outcome", x>>) \/ x \in S
<1> DEFINE o == Outcomes(S)
<1>1. /\ o \in Seq(Event(p)) /\ Distinct(o)
      /\ \A i \in DOMAIN o : \E c \in S : o[i] = <<"outcome", c>>
      /\ \A c \in S : \E i \in DOMAIN o : o[i] = <<"outcome", c>>
    BY OutcomesOnce DEF Distinct
<1> HIDE DEF o
<1>2. \A i \in DOMAIN l, j \in DOMAIN o : l[i] # o[j]
    BY <1>1 DEF Has
<1>3. /\ l \o o \in Seq(Event(p)) /\ Distinct(l \o o)
      /\ \A e : Has(l \o o, e) <=> Has(l, e) \/ Has(o, e)
      /\ l \o o # <<>> /\ (l \o o)[1] = l[1]
    BY <1>1, <1>2, LogGrows
<1>4. ~Has(o, <<"closed">>)
    BY <1>1 DEF Has
<1>5. \A x : Has(o, <<"outcome", x>>) <=> x \in S
    BY <1>1 DEF Has
<1> QED
    BY <1>3, <1>4, <1>5 DEF OpenedFirst, o

-----------------------------------------------------------------------------
\* The goroutine of a connection, step by step.

Started(p, c, n) == [c EXCEPT !.at = "start", !.number = n, !.fresh = OwnCalls[p]]
Opened(c) == [Log(c, <<<<"opened">>>>) EXCEPT !.at = "loop"]
Ticked(c, opens, over, at) ==
    [Log(c, Outcomes(over)) EXCEPT !.at = at, !.fresh = @ \ opens,
                                   !.live = (c.live \cup opens) \ over]
Closed(c) == [Log(c, Outcomes(c.live) \o <<<<"closed">>>>) EXCEPT !.at = "exit", !.live = {}]
At(c, at) == [c EXCEPT !.at = at]

LEMMA HeardStarted ==
    ASSUME NEW p \in Peers, NEW c, Heard(p, c), c.at = "none", NEW n \in Nat
    PROVE  Heard(p, Started(p, c, n))
BY DEF Heard, Started, Conn

LEMMA HeardFails ==
    ASSUME NEW p \in Peers, NEW c, Heard(p, c), c.at = "start"
    PROVE  Heard(p, At(c, "exit"))
BY DEF Heard, At, Conn

LEMMA HeardStopped ==
    ASSUME NEW p \in Peers, NEW c, Heard(p, c), c.at = "loop"
    PROVE  Heard(p, At(c, "close"))
BY DEF Heard, At, Conn

LEMMA HeardExit ==
    ASSUME NEW p \in Peers, NEW c, Heard(p, c), c.at = "exit"
    PROVE  Heard(p, At(c, "done"))
BY DEF Heard, At, Conn

LEMMA HeardOpened ==
    ASSUME NEW p \in Peers, NEW c, Heard(p, c), c.at = "start"
    PROVE  Heard(p, Opened(c))
<1> DEFINE o == <<<<"opened">>>>
<1>1. c \in Conn(p) /\ c.log = <<>> /\ c.live = {} /\ c.fresh = OwnCalls[p]
    BY DEF Heard
<1>2. /\ o \in Seq(Event(p)) /\ Len(o) = 1 /\ DOMAIN o = {1} /\ o[1] = <<"opened">>
      /\ o # <<>> /\ Distinct(o) /\ \A d : Has(o, d) <=> d = <<"opened">>
    BY OneEvent DEF Event
<1>3. <<>> \o o = o
    BY <1>2, ConcatEmptySeq
<1> HIDE DEF o
<1> DEFINE d == [c EXCEPT !.log = o, !.at = "loop"]
<1>4. Opened(c) = d
    BY <1>1, <1>3 DEF Opened, Log, Conn, o
<1>5. /\ d \in Conn(p) /\ d.at = "loop" /\ d.log = o
      /\ d.live = {} /\ d.fresh = OwnCalls[p]
    BY <1>1, <1>2 DEF Conn
<1>6. <<"opened">> # <<"closed">> /\ \A x : <<"outcome", x>> # <<"opened">>
    OBVIOUS
<1>7. OpenedFirst(o) /\ ClosedLast(o) /\ ~Has(o, <<"closed">>)
        /\ \A x : ~Has(o, <<"outcome", x>>)
    BY <1>2, <1>6 DEF OpenedFirst, ClosedLast
<1> HIDE DEF d
<1> QED
    BY <1>2, <1>4, <1>5, <1>7 DEF Heard

LEMMA HeardTicked ==
    ASSUME NEW p \in Peers, NEW c, Heard(p, c), c.at = "loop",
           NEW opens \in SUBSET c.fresh, NEW over \in SUBSET (c.live \cup opens),
           NEW at \in {"loop", "close"}
    PROVE  Heard(p, Ticked(c, opens, over, at))
<1>1. /\ c \in Conn(p) /\ c.log \in Seq(Event(p)) /\ c.log # <<>>
      /\ c.fresh \subseteq OwnCalls[p] /\ c.live \subseteq OwnCalls[p]
      /\ Distinct(c.log) /\ OpenedFirst(c.log) /\ ~Has(c.log, <<"closed">>)
      /\ c.fresh \cap c.live = {}
      /\ \A x \in OwnCalls[p] : Has(c.log, <<"outcome", x>>) <=> x \notin c.fresh \cup c.live
    BY DEF Heard, Conn
<1>2. over \in SUBSET OwnCalls[p] /\ \A x \in over : ~Has(c.log, <<"outcome", x>>)
    BY <1>1
<1> DEFINE m == c.log \o Outcomes(over)
<1>3. /\ m \in Seq(Event(p)) /\ Distinct(m) /\ m # <<>> /\ OpenedFirst(m)
      /\ ~Has(m, <<"closed">>)
      /\ \A x : Has(m, <<"outcome", x>>) <=> Has(c.log, <<"outcome", x>>) \/ x \in over
    BY <1>1, <1>2, LogOutcomes
<1>4. ClosedLast(m)
    BY <1>3 DEF ClosedLast, Has
<1> DEFINE d == Ticked(c, opens, over, at)
<1>5. /\ d.at = at /\ d.log = m /\ d.fresh = c.fresh \ opens
      /\ d.live = (c.live \cup opens) \ over /\ d \in Conn(p)
    BY <1>1, <1>3 DEF Ticked, Log, Conn
<1> HIDE DEF m, d
<1>6. \A x \in OwnCalls[p] : Has(m, <<"outcome", x>>) <=> x \notin d.fresh \cup d.live
    BY <1>1, <1>3, <1>5
<1>7. d.fresh \cap d.live = {}
    BY <1>1, <1>5
<1>8. Heard(p, d)
    BY <1>3, <1>4, <1>5, <1>6, <1>7 DEF Heard
<1> QED
    BY <1>8 DEF d

LEMMA HeardClosed ==
    ASSUME NEW p \in Peers, NEW c, Heard(p, c), c.at = "close"
    PROVE  Heard(p, Closed(c))
<1>1. /\ c \in Conn(p) /\ c.log \in Seq(Event(p)) /\ c.log # <<>>
      /\ c.fresh \subseteq OwnCalls[p] /\ c.live \in SUBSET OwnCalls[p]
      /\ Distinct(c.log) /\ OpenedFirst(c.log) /\ ~Has(c.log, <<"closed">>)
      /\ c.fresh \cap c.live = {}
      /\ \A x \in OwnCalls[p] : Has(c.log, <<"outcome", x>>) <=> x \notin c.fresh \cup c.live
    BY DEF Heard, Conn
<1> DEFINE m == c.log \o Outcomes(c.live)
           k == <<<<"closed">>>>
<1>2. \A x \in c.live : ~Has(c.log, <<"outcome", x>>)
    BY <1>1
<1>3. /\ m \in Seq(Event(p)) /\ Distinct(m) /\ m # <<>> /\ OpenedFirst(m)
      /\ ~Has(m, <<"closed">>)
      /\ \A x : Has(m, <<"outcome", x>>) <=> Has(c.log, <<"outcome", x>>) \/ x \in c.live
    BY <1>1, <1>2, LogOutcomes
<1>4. /\ k \in Seq(Event(p)) /\ Len(k) = 1 /\ DOMAIN k = {1} /\ k[1] = <<"closed">>
      /\ Distinct(k) /\ \A e : Has(k, e) <=> e = <<"closed">>
    BY OneEvent DEF Event
<1> DEFINE w == c.log \o (Outcomes(c.live) \o k)
<1>5. w = m \o k
    <2>1. Outcomes(c.live) \in Seq(Event(p))
        BY <1>1, OutcomesOnce
    <2> HIDE DEF k
    <2>2. \A x, y, z \in Seq(Event(p)) : (x \o y) \o z = x \o (y \o z)
        BY ConcatAssociative
    <2>3. (c.log \o Outcomes(c.live)) \o k = c.log \o (Outcomes(c.live) \o k)
        BY <1>1, <1>4, <2>1, <2>2, Zenon
    <2> QED
        BY <2>3, Zenon
<1>6. Closed(c) = [c EXCEPT !.log = w, !.at = "exit", !.live = {}]
    BY <1>1 DEF Closed, Log, Conn
<1> HIDE DEF m, k, w
<1>7. \A i \in DOMAIN m, j \in DOMAIN k : m[i] # k[j]
    BY <1>3, <1>4 DEF Has
<1>8. /\ w \in Seq(Event(p)) /\ Len(w) = Len(m) + 1 /\ Distinct(w)
      /\ \A e : Has(w, e) <=> Has(m, e) \/ Has(k, e)
      /\ w # <<>> /\ w[1] = m[1]
    BY <1>3, <1>4, <1>5, <1>7, LogGrows
<1>9. w[Len(w)] = <<"closed">> /\ Len(w) \in DOMAIN w
    <2>1. Len(m) \in Nat /\ Len(m) + 1 \in 1..(Len(m) + Len(k))
        BY <1>3, <1>4, LenProperties
    <2>2. w[Len(m) + 1] = k[1]
        BY <1>3, <1>4, <1>5, <2>1, ConcatProperties
    <2>3. DOMAIN w = 1..(Len(m) + 1)
        BY <1>8, LenProperties
    <2> QED
        BY <1>4, <1>8, <2>1, <2>2, <2>3
<1>10. ClosedLast(w)
    BY <1>8, <1>9 DEF ClosedLast, Distinct
<1>11. \A x : Has(w, <<"outcome", x>>) <=> Has(c.log, <<"outcome", x>>) \/ x \in c.live
    BY <1>3, <1>4, <1>8
<1> DEFINE d == [c EXCEPT !.log = w, !.at = "exit", !.live = {}]
<1>12. /\ d.at = "exit" /\ d.log = w /\ d.fresh = c.fresh /\ d.live = {} /\ d \in Conn(p)
    BY <1>1, <1>8 DEF Conn
<1> HIDE DEF d
<1>13. \A x \in OwnCalls[p] : Has(w, <<"outcome", x>>) <=> x \notin d.fresh \cup d.live
    BY <1>1, <1>11, <1>12
<1>14. OpenedFirst(w)
    BY <1>3, <1>8 DEF OpenedFirst
<1>15. Heard(p, d)
    BY <1>8, <1>10, <1>12, <1>13, <1>14 DEF Heard
<1> QED
    BY <1>6, <1>15 DEF d

-----------------------------------------------------------------------------
\* The inductive invariant.

Told == \A p \in Peers : Heard(p, conn[p])

SInv == Shapes /\ Told /\ Handing /\ Covering /\ WaitCovers

LEMMA InitServer == ShellInit => SInv
<1> SUFFICES ASSUME ShellInit PROVE SInv
    OBVIOUS
<1> USE DEF ShellInit, ServerInit
<1>1. Shapes
    BY DEF Shapes
<1>2. Told
    <2> SUFFICES ASSUME NEW p \in Peers PROVE Heard(p, Unserved)
        BY DEF Told
    <2>1. <<>> \in Seq(Event(p)) /\ DOMAIN <<>> = {}
        BY EmptySeq
    <2>2. Distinct(<<>>) /\ OpenedFirst(<<>>) /\ ClosedLast(<<>>)
        BY <2>1 DEF Distinct, OpenedFirst, ClosedLast
    <2> QED
        BY <2>1, <2>2 DEF Heard, Unserved, Conn
<1>3. Serving = {}
    BY DEF Serving, Unserved
<1>4. Handing /\ Covering
    BY DEF Handing, Covering, Unserved
<1>5. WaitCovers
    BY <1>3, FS_EmptySet DEF WaitCovers
<1> QED
    BY <1>1, <1>2, <1>4, <1>5 DEF SInv

\* A step that leaves the connections and the counter alone, and what Run and
\* the sockets do meanwhile does not disturb the rest.
LEMMA Unmoved ==
    ASSUME SInv, UNCHANGED <<conn, count, waiter>>, Shapes', Handing', Covering'
    PROVE  SInv'
<1>1. Serving' = Serving
    BY DEF Serving
<1>2. Told'
    BY DEF SInv, Told
<1> QED
    BY <1>1, <1>2 DEF SInv, WaitCovers

\* A step of the goroutine of p that is neither its first nor its last.
LEMMA GoesOn ==
    ASSUME SInv, NEW p \in Peers, NEW c, Moved(p, c), Heard(p, c),
           conn[p].at \in {"start", "loop", "close"}, c.at \in {"loop", "close", "exit"},
           \/ UNCHANGED sock
           \/ sock' = [sock EXCEPT ![p] = "shut"],
           UNCHANGED <<run, count, accepted, waiter>>
    PROVE  SInv'
<1>1. /\ DOMAIN conn' = Peers
      /\ \A q \in Peers : conn'[q] = IF q = p THEN c ELSE conn[q]
      /\ \A q \in Peers : sock'[q] = sock[q] \/ (q = p /\ sock'[q] = "shut")
    BY DEF SInv, Shapes, Moved
<1>2. Shapes'
    BY <1>1 DEF SInv, Shapes
<1>3. Told'
    BY <1>1 DEF SInv, Told
<1>4. Handing'
    BY <1>1 DEF SInv, Handing
<1>5. Covering'
    BY <1>1 DEF SInv, Shapes, Covering
<1>6. Serving' = Serving
    BY ServingSame DEF SInv, Shapes
<1>7. WaitCovers'
    BY <1>1, <1>6 DEF SInv, WaitCovers, Shapes
<1> QED
    BY <1>2, <1>3, <1>4, <1>5, <1>7 DEF SInv

LEMMA NextServer == SInv /\ ServerNext => SInv'
<1> SUFFICES ASSUME SInv, ServerNext PROVE SInv'
    OBVIOUS
<1>1. CASE RunTop
    BY <1>1, Unmoved DEF RunTop, RunReturns, SInv, Shapes, Handing, Covering
<1>2. CASE RunCheck
    BY <1>2, Unmoved DEF RunCheck, RunReturns, SInv, Shapes, Handing, Covering
<1>3. CASE AcceptFails
    BY <1>3, Unmoved DEF AcceptFails, RunReturns, SInv, Shapes, Handing, Covering
<1>4. CASE Stop
    BY <1>4, Unmoved DEF Stop, SInv, Shapes, Handing, Covering
<1>5. CASE StopListening
    BY <1>5, Unmoved DEF StopListening, SInv, Shapes, Handing, Covering
<1>6. ASSUME NEW p \in Peers, Accept(p) PROVE SInv'
    BY <1>6, Unmoved DEF Accept, SInv, Shapes, Handing, Covering
<1>7. ASSUME NEW p \in Peers, Dial(p) PROVE SInv'
    BY <1>7, Unmoved DEF Dial, SInv, Shapes, Handing, Covering
<1>8. CASE UNCHANGED core
    BY <1>8, Unmoved DEF core, SInv, Shapes, Handing, Covering
<1>9. CASE CallWait
    <2>1. Serving' = Serving
        BY <1>9 DEF CallWait, Serving
    <2>2. Shapes' /\ Told'
        BY <1>9 DEF CallWait, SInv, Shapes, Told, Serving
    <2>3. Handing' /\ Covering'
        BY <1>9 DEF CallWait, SInv, Handing, Covering, Serving
    <2>4. WaitCovers'
        BY <1>9, <2>1 DEF CallWait, SInv, WaitCovers
    <2> QED
        BY <2>2, <2>3, <2>4 DEF SInv
<1>10. CASE WaitReturns
    <2>1. Serving' = Serving /\ Serving = {}
        <3>1. Serving' = Serving
            BY <1>10 DEF WaitReturns, Serving
        <3>2. Serving = {}
            BY <1>10, ServingFinite, FS_EmptySet DEF WaitReturns, SInv, WaitCovers
        <3> QED
            BY <3>1, <3>2
    <2>2. Shapes' /\ Told'
        BY <1>10 DEF WaitReturns, SInv, Shapes, Told
    <2>3. Handing' /\ Covering'
        BY <1>10 DEF WaitReturns, SInv, Shapes, Handing, Covering
    <2>4. \A p \in waiter.covers : conn[p].at = "done"
        BY <2>1 DEF SInv, Shapes, Covering, Serving
    <2>5. WaitCovers'
        BY <1>10, <2>1, <2>4 DEF WaitReturns, SInv, Shapes, WaitCovers
    <2> QED
        BY <2>2, <2>3, <2>5 DEF SInv
<1>11. CASE Spawn
    <2> DEFINE p == run.peer
               c == Started(p, conn[p], accepted + 1)
    <2>1. p \in Peers /\ sock[p] = "accepted" /\ conn[p].at = "none"
        BY <1>11 DEF Spawn, SInv, Handing
    <2>2. Heard(p, conn[p]) /\ conn[p] \in Conn(p)
        BY <2>1 DEF SInv, Told, Heard
    <2>3. Moved(p, c)
        BY <1>11, <2>1, <2>2 DEF Spawn, Moved, Started, Conn, SInv, Shapes
    <2>4. Heard(p, c)
        BY <2>1, <2>2, HeardStarted DEF SInv, Shapes
    <2>5. c.at = "start"
        BY <2>2 DEF Started, Conn
    <2> HIDE DEF c
    <2>6. /\ DOMAIN conn' = Peers
          /\ \A q \in Peers : conn'[q] = IF q = p THEN c ELSE conn[q]
        BY <2>1, <2>3 DEF SInv, Shapes, Moved
    <2>7. run' = [run EXCEPT !.at = "top"] /\ UNCHANGED <<sock, waiter>>
            /\ count' = count + 1 /\ accepted' = accepted + 1 /\ run.at = "spawn"
        BY <1>11 DEF Spawn
    <2>8. Shapes'
        BY <2>6, <2>7 DEF SInv, Shapes
    <2>9. Told'
        BY <2>4, <2>6 DEF SInv, Told
    <2>10. Handing'
        BY <2>1, <2>6, <2>7 DEF SInv, Shapes, Handing
    <2>11. Covering' /\ ~waiter.afterRun
        BY <2>5, <2>6, <2>7 DEF SInv, Shapes, Covering
    <2>12. count' = Cardinality(Serving')
        BY <2>1, <2>3, <2>5, <2>7, ServingAdds DEF SInv, Shapes, WaitCovers
    <2>13. WaitCovers'
        <3>1. p \notin waiter.covers
            BY <2>1 DEF SInv, Covering
        <3> QED
            BY <2>6, <2>7, <2>11, <2>12, <3>1 DEF SInv, Shapes, WaitCovers
    <2> QED
        BY <2>8, <2>9, <2>10, <2>11, <2>13 DEF SInv
<1>12. ASSUME NEW p \in Peers, ServeExit(p) PROVE SInv'
    <2> DEFINE c == At(conn[p], "done")
    <2>1. conn[p].at = "exit" /\ Heard(p, conn[p]) /\ conn[p] \in Conn(p)
        BY <1>12 DEF ServeExit, SInv, Told, Heard
    <2>2. Moved(p, c)
        BY <1>12 DEF ServeExit, Moved, At
    <2>3. Heard(p, c)
        BY <2>1, HeardExit
    <2>4. c.at = "done"
        BY <2>1 DEF At, Conn
    <2> HIDE DEF c
    <2>5. /\ DOMAIN conn' = Peers
          /\ \A q \in Peers : conn'[q] = IF q = p THEN c ELSE conn[q]
        BY <2>2 DEF SInv, Shapes, Moved
    <2>6. UNCHANGED <<run, sock, waiter, accepted>> /\ count' = count - 1
        BY <1>12 DEF ServeExit
    <2>7. Shapes' /\ Told'
        BY <2>3, <2>5, <2>6 DEF SInv, Shapes, Told
    <2>8. Handing' /\ Covering'
        BY <2>1, <2>4, <2>5, <2>6 DEF SInv, Shapes, Handing, Covering
    <2>9. count' = Cardinality(Serving')
        BY <2>1, <2>2, <2>4, <2>6, ServingRemoves DEF SInv, Shapes, WaitCovers
    <2>10. Serving' \subseteq Serving
        BY <2>1, <2>4, <2>5 DEF Serving
    <2>11. WaitCovers'
        BY <2>4, <2>5, <2>6, <2>9, <2>10 DEF SInv, Shapes, WaitCovers
    <2> QED
        BY <2>7, <2>8, <2>11 DEF SInv
<1>13. ASSUME NEW p \in Peers, ServeFails(p) PROVE SInv'
    <2>1. conn[p].at = "start" /\ Heard(p, conn[p]) /\ conn[p] \in Conn(p)
        BY <1>13 DEF ServeFails, SInv, Told, Heard
    <2>2. Moved(p, At(conn[p], "exit")) /\ At(conn[p], "exit").at = "exit"
        BY <1>13, <2>1 DEF ServeFails, Moved, At, Conn
    <2> QED
        BY <1>13, <2>1, <2>2, HeardFails, GoesOn DEF ServeFails
<1>14. ASSUME NEW p \in Peers, ServeOpens(p) PROVE SInv'
    <2>1. conn[p].at = "start" /\ Heard(p, conn[p]) /\ conn[p] \in Conn(p)
        BY <1>14 DEF ServeOpens, SInv, Told, Heard
    <2>2. Moved(p, Opened(conn[p])) /\ Opened(conn[p]).at = "loop"
        BY <1>14, <2>1 DEF ServeOpens, Moved, Opened, Log, Conn, SInv, Shapes
    <2> QED
        BY <1>14, <2>1, <2>2, HeardOpened, GoesOn DEF ServeOpens
<1>15. ASSUME NEW p \in Peers, ServeStopped(p) PROVE SInv'
    <2>1. conn[p].at = "loop" /\ Heard(p, conn[p]) /\ conn[p] \in Conn(p)
        BY <1>15 DEF ServeStopped, SInv, Told, Heard
    <2>2. Moved(p, At(conn[p], "close")) /\ At(conn[p], "close").at = "close"
        BY <1>15, <2>1 DEF ServeStopped, Moved, At, Conn
    <2> QED
        BY <1>15, <2>1, <2>2, HeardStopped, GoesOn DEF ServeStopped
<1>16. ASSUME NEW p \in Peers, ServeClose(p) PROVE SInv'
    <2>1. conn[p].at = "close" /\ Heard(p, conn[p]) /\ conn[p] \in Conn(p)
        BY <1>16 DEF ServeClose, SInv, Told, Heard
    <2>2. Moved(p, Closed(conn[p])) /\ Closed(conn[p]).at = "exit"
        BY <1>16, <2>1 DEF ServeClose, Moved, Closed, Log, Conn, SInv, Shapes
    <2> QED
        BY <1>16, <2>1, <2>2, HeardClosed, GoesOn DEF ServeClose
<1>17. ASSUME NEW p \in Peers, NEW ended \in BOOLEAN, ServeTick(p, ended) PROVE SInv'
    <2>1. conn[p].at = "loop" /\ Heard(p, conn[p]) /\ conn[p] \in Conn(p)
        BY <1>17 DEF ServeTick, SInv, Told, Heard
    <2>2. PICK opens \in SUBSET conn[p].fresh :
            \E done \in SUBSET (conn[p].live \cup opens) : \E broken \in BOOLEAN :
                conn' = [conn EXCEPT ![p] =
                    [Log(conn[p], Outcomes(IF ended THEN conn[p].live \cup opens ELSE done)) EXCEPT
                        !.at = IF ended \/ broken THEN "close" ELSE "loop",
                        !.fresh = @ \ opens,
                        !.live = (conn[p].live \cup opens)
                                    \ (IF ended THEN conn[p].live \cup opens ELSE done)]]
        BY <1>17, Zenon DEF ServeTick
    <2>3. PICK done \in SUBSET (conn[p].live \cup opens), broken \in BOOLEAN :
                conn' = [conn EXCEPT ![p] =
                    [Log(conn[p], Outcomes(IF ended THEN conn[p].live \cup opens ELSE done)) EXCEPT
                        !.at = IF ended \/ broken THEN "close" ELSE "loop",
                        !.fresh = @ \ opens,
                        !.live = (conn[p].live \cup opens)
                                    \ (IF ended THEN conn[p].live \cup opens ELSE done)]]
        BY <2>2
    <2> DEFINE over == IF ended THEN conn[p].live \cup opens ELSE done
               at == IF ended \/ broken THEN "close" ELSE "loop"
    <2>4. over \in SUBSET (conn[p].live \cup opens) /\ at \in {"loop", "close"}
        OBVIOUS
    <2>5. conn' = [conn EXCEPT ![p] =
                    [Log(conn[p], Outcomes(over)) EXCEPT
                        !.at = at, !.fresh = @ \ opens,
                        !.live = (conn[p].live \cup opens) \ over]]
        BY <2>3
    <2> HIDE DEF over, at
    <2>6. Moved(p, Ticked(conn[p], opens, over, at))
        BY <2>5 DEF Moved, Ticked
    <2>7. Heard(p, Ticked(conn[p], opens, over, at))
        BY <2>1, <2>4, HeardTicked
    <2>8. Ticked(conn[p], opens, over, at).at = at
        BY <2>1 DEF Ticked, Log, Conn
    <2> QED
        BY <1>17, <2>1, <2>4, <2>6, <2>7, <2>8, GoesOn DEF ServeTick
<1> QED
    BY <1>1, <1>2, <1>3, <1>4, <1>5, <1>6, <1>7, <1>8, <1>9, <1>10, <1>11, <1>12, <1>13,
       <1>14, <1>15, <1>16, <1>17 DEF ServerNext

-----------------------------------------------------------------------------
\* From the log to the contract: an event that occurs, and none occurs twice,
\* is counted once.
LEMMA CountOnce ==
    ASSUME NEW log, Distinct(log), NEW e
    PROVE  Cardinality({i \in DOMAIN log : log[i] = e}) = IF Has(log, e) THEN 1 ELSE 0
<1>1. CASE Has(log, e)
    <2>1. PICK i \in DOMAIN log : log[i] = e
        BY <1>1 DEF Has
    <2>2. {j \in DOMAIN log : log[j] = e} = {i}
        BY <2>1 DEF Distinct
    <2> QED
        BY <1>1, <2>2, FS_Singleton
<1>2. CASE ~Has(log, e)
    <2>1. {j \in DOMAIN log : log[j] = e} = {}
        BY <1>2 DEF Has
    <2> QED
        BY <1>2, <2>1, FS_EmptySet
<1> QED
    BY <1>1, <1>2

LEMMA ToldIsContract == SInv => ObserverContract
<1> SUFFICES ASSUME SInv, NEW p \in Peers
             PROVE  LET log == conn[p].log
                        Count(e) == Cardinality({i \in DOMAIN log : log[i] = e})
                    IN /\ log # <<>> => log[1] = <<"opened">> /\ Count(<<"opened">>) = 1
                       /\ \A i \in DOMAIN log : log[i] = <<"closed">> => i = Len(log)
                       /\ \A c \in OwnCalls[p] : Count(<<"outcome", c>>) <= 1
                       /\ log # <<>> /\ Last(log) = <<"closed">>
                            => \A c \in OwnCalls[p] \ conn[p].fresh : Count(<<"outcome", c>>) = 1
    BY Zenon DEF ObserverContract
<1> DEFINE log == conn[p].log
           Count(e) == Cardinality({i \in DOMAIN log : log[i] = e})
<1>1. Heard(p, conn[p])
    BY DEF SInv, Told
<1>2. /\ log \in Seq(Event(p)) /\ Distinct(log) /\ OpenedFirst(log) /\ ClosedLast(log)
      /\ conn[p].at \in {"none", "start", "loop", "close", "exit", "done"}
    BY <1>1 DEF Heard, Conn
<1>3. log # <<>> => 1 \in DOMAIN log /\ Len(log) \in DOMAIN log
    BY <1>2, LenProperties, EmptySeq
<1>4. \A e : Count(e) = IF Has(log, e) THEN 1 ELSE 0
    BY <1>2, CountOnce
<1>5. log # <<>> => log[1] = <<"opened">> /\ Count(<<"opened">>) = 1
    <2> HIDE DEF log, Count
    <2> QED
        BY <1>2, <1>3, <1>4 DEF OpenedFirst, Has
<1>6. \A i \in DOMAIN log : log[i] = <<"closed">> => i = Len(log)
    BY <1>2 DEF ClosedLast
<1>7. \A c \in OwnCalls[p] : Count(<<"outcome", c>>) <= 1
    <2> HIDE DEF log, Count
    <2> QED
        BY <1>4
<1>8. ASSUME log # <<>>, Last(log) = <<"closed">>, NEW c \in OwnCalls[p] \ conn[p].fresh
      PROVE  Count(<<"outcome", c>>) = 1
    <2>1. Has(log, <<"closed">>)
        BY <1>3, <1>8 DEF Last, Has
    <2>2. conn[p].live = {} /\ (Has(log, <<"outcome", c>>) <=> c \notin conn[p].fresh \cup conn[p].live)
        BY <1>1, <1>2, <1>8, <2>1 DEF Heard
    <2> HIDE DEF log, Count
    <2> QED
        BY <1>4, <1>8, <2>2
<1> QED
    BY <1>5, <1>6, <1>7, <1>8, Zenon

-----------------------------------------------------------------------------
LEMMA ServerInductive == Spec => []SInv
<1>1. SInv /\ [ShellNext]_vars => SInv'
    BY NextIsServerNext, NextServer
<1> QED
    BY <1>1, InitServer, PTL DEF Spec

\* For any number of peers and calls, and whenever Stop comes: an observer
\* hears Opened first and Closed last, once each, and by then of every call the
\* server opened on the connection exactly once (serve and report).
THEOREM ObserverIsTold == Spec => []ObserverContract
<1>1. SInv => ObserverContract
    BY ToldIsContract
<1> QED
    BY <1>1, ServerInductive, PTL

\* For any number of peers, and wherever Run and Wait meet: the WaitGroup counts
\* the connections being served, and Wait returns only once those it was called
\* for are done, all of them when Run had returned.
THEOREM WaitIsCovered == Spec => []WaitCovers
<1>1. SInv => WaitCovers
    BY DEF SInv
<1> QED
    BY <1>1, ServerInductive, PTL

-----------------------------------------------------------------------------
\* The shapes of the client and of what the server sends it.
Produced == [call : Calls, n : Nat, last : BOOLEAN]
ClientType ==
    [at : {"off", "connect", "free", "failed", "next", "collect", "send"}, call : Calls \cup {0},
     late : BOOLEAN, ready : BOOLEAN, refused : BOOLEAN, over : BOOLEAN, closedHere : BOOLEAN,
     asked : SUBSET Calls, pending : SUBSET Calls,
     outcomes : Seq(Produced), backlog : Seq(Produced),
     made : [Calls -> Nat], given : [Calls -> Seq(Nat)], told : SUBSET Calls]
Message == {Ready, Refused} \cup [kind : {"answer"}, call : Calls, last : BOOLEAN]

-----------------------------------------------------------------------------
\* In q the outcomes of call d are those from g + 1 to m, in order.
Following(q, g, m, d) ==
    /\ \A i \in DOMAIN q : q[i].call = d => q[i].n \in (g + 1)..m
    /\ \A n \in (g + 1)..m : \E i \in DOMAIN q : q[i].call = d /\ q[i].n = n
    /\ \A i, j \in DOMAIN q : q[i].call = d /\ q[j].call = d /\ i < j => q[i].n < q[j].n

LEMMA ConcatPlaces ==
    ASSUME NEW D, NEW p \in Seq(D), NEW q \in Seq(D)
    PROVE  /\ p \o q \in Seq(D)
           /\ \A i \in DOMAIN p : i \in DOMAIN (p \o q) /\ (p \o q)[i] = p[i]
           /\ \A i \in DOMAIN q : Len(p) + i \in DOMAIN (p \o q) /\ (p \o q)[Len(p) + i] = q[i]
           /\ \A i \in DOMAIN (p \o q) : i \in DOMAIN p \/ \E j \in DOMAIN q : i = Len(p) + j
           /\ \A i \in DOMAIN p, j \in DOMAIN q : i < Len(p) + j
<1>1. /\ Len(p) \in Nat /\ DOMAIN p = 1..Len(p) /\ Len(q) \in Nat /\ DOMAIN q = 1..Len(q)
      /\ p \o q \in Seq(D) /\ Len(p \o q) = Len(p) + Len(q)
      /\ DOMAIN (p \o q) = 1..(Len(p) + Len(q))
    BY LenProperties, ConcatProperties
<1>2. \A i \in 1..(Len(p) + Len(q)) : (p \o q)[i] = IF i <= Len(p) THEN p[i] ELSE q[i - Len(p)]
    BY ConcatProperties
<1>3. PICK r : r = p \o q
    OBVIOUS
<1>4. PICK a \in Nat, b \in Nat : a = Len(p) /\ b = Len(q)
    BY <1>1
<1>5. ASSUME NEW i \in 1..b PROVE a + i \in 1..(a + b) /\ r[a + i] = q[i]
    <2>1. a + i \in 1..(a + b) /\ ~(a + i <= a) /\ (a + i) - a = i
        OBVIOUS
    <2> QED
        BY <1>2, <1>3, <1>4, <2>1
<1>6. \A i \in 1..a : i \in 1..(a + b) /\ r[i] = p[i]
    BY <1>2, <1>3, <1>4
<1>7. ASSUME NEW i \in 1..(a + b), i \notin 1..a PROVE \E j \in 1..b : i = a + j
    <2>1. i - a \in 1..b /\ i = a + (i - a)
        BY <1>7
    <2> QED
        BY <2>1
<1>8. \A i \in 1..a, j \in 1..b : i < a + j
    OBVIOUS
<1> QED
    BY <1>1, <1>3, <1>4, <1>5, <1>6, <1>7, <1>8

\* One more outcome of d at the end, or none.
LEMMA FollowingGrows ==
    ASSUME NEW q \in Seq(Produced), NEW more \in Seq(Produced), NEW d \in Calls,
           NEW g \in Nat, NEW m \in Nat, g <= m, Following(q, g, m, d), NEW made \in Nat,
           \A i \in DOMAIN more : more[i].call = d => more[i].n = m + 1 /\ made = m + 1,
           \A i, j \in DOMAIN more : more[i].call = d /\ more[j].call = d => i = j,
           made = m \/ (made = m + 1 /\ \E i \in DOMAIN more : more[i].call = d)
    PROVE  Following(q \o more, g, made, d)
<1>1. PICK r : r = q \o more
    OBVIOUS
<1>2. PICK a \in Nat : a = Len(q)
    BY LenProperties
<1>3. /\ \A i \in DOMAIN q : i \in DOMAIN r /\ r[i] = q[i]
      /\ \A i \in DOMAIN more : a + i \in DOMAIN r /\ r[a + i] = more[i]
      /\ \A i \in DOMAIN r : i \in DOMAIN q \/ \E j \in DOMAIN more : i = a + j
      /\ \A i \in DOMAIN q, j \in DOMAIN more : i < a + j
    <2>1. /\ \A i \in DOMAIN q : i \in DOMAIN r /\ r[i] = q[i]
          /\ \A i \in DOMAIN more : Len(q) + i \in DOMAIN r /\ r[Len(q) + i] = more[i]
          /\ \A i \in DOMAIN r : i \in DOMAIN q \/ \E j \in DOMAIN more : i = Len(q) + j
          /\ \A i \in DOMAIN q, j \in DOMAIN more : i < Len(q) + j
        BY <1>1, ConcatPlaces
    <2> QED
        BY <1>2, <2>1, Zenon
<1>4. DOMAIN q \subseteq Nat /\ DOMAIN more \subseteq Nat
    BY LenProperties
<1>5. ASSUME NEW i \in DOMAIN r, r[i].call = d PROVE r[i].n \in (g + 1)..made
    <2>1. CASE i \in DOMAIN q
        <3>1. q[i].n \in (g + 1)..m /\ r[i] = q[i]
            BY <1>3, <1>5, <2>1 DEF Following
        <3> QED
            BY <3>1
    <2>2. ASSUME NEW j \in DOMAIN more, i = a + j PROVE r[i].n \in (g + 1)..made
        <3>1. more[j].n = m + 1 /\ made = m + 1 /\ r[i] = more[j]
            BY <1>3, <1>5, <2>2
        <3> QED
            BY <3>1
    <2> QED
        BY <1>3, <2>1, <2>2
<1>6. ASSUME NEW n \in (g + 1)..made PROVE \E i \in DOMAIN r : r[i].call = d /\ r[i].n = n
    <2>1. CASE n \in (g + 1)..m
        <3>1. PICK i \in DOMAIN q : q[i].call = d /\ q[i].n = n
            BY <2>1 DEF Following
        <3> QED
            BY <1>3, <3>1
    <2>2. CASE n \notin (g + 1)..m
        <3>1. made = m + 1 /\ n = m + 1
            BY <2>2
        <3>2. PICK i \in DOMAIN more : more[i].call = d
            BY <3>1
        <3> QED
            BY <1>3, <3>1, <3>2
    <2> QED
        BY <2>1, <2>2
<1>7. ASSUME NEW i \in DOMAIN r, NEW j \in DOMAIN r, r[i].call = d, r[j].call = d, i < j
      PROVE  r[i].n < r[j].n
    <2>1. CASE i \in DOMAIN q /\ j \in DOMAIN q
        <3>1. r[i] = q[i] /\ r[j] = q[j]
            BY <1>3, <2>1
        <3> QED
            BY <1>7, <2>1, <3>1 DEF Following
    <2>2. ASSUME i \in DOMAIN q, NEW y \in DOMAIN more, j = a + y PROVE r[i].n < r[j].n
        <3>1. r[i] = q[i] /\ r[j] = more[y]
            BY <1>3, <2>2
        <3>2. q[i].n \in (g + 1)..m /\ more[y].n = m + 1
            BY <1>7, <2>2, <3>1 DEF Following
        <3> QED
            BY <3>1, <3>2
    <2>3. ASSUME NEW x \in DOMAIN more, i = a + x, j \in DOMAIN q PROVE FALSE
        <3>1. j < a + x /\ j \in Nat /\ x \in Nat
            BY <1>3, <1>4, <2>3
        <3> QED
            BY <1>7, <2>3, <3>1
    <2>4. ASSUME NEW x \in DOMAIN more, i = a + x, NEW y \in DOMAIN more, j = a + y PROVE FALSE
        <3>1. r[i] = more[x] /\ r[j] = more[y]
            BY <1>3, <2>4
        <3>2. x = y /\ x \in Nat
            BY <1>4, <1>7, <3>1
        <3> QED
            BY <1>7, <2>4, <3>2
    <2> QED
        BY <1>3, <2>1, <2>2, <2>3, <2>4
<1> QED
    BY <1>1, <1>5, <1>6, <1>7 DEF Following

\* q without its i-th entry.
Without(q, i, r) ==
    /\ \A k \in DOMAIN r : \E l \in DOMAIN q \ {i} : r[k] = q[l] /\ l = IF k < i THEN k ELSE k + 1
    /\ \A l \in DOMAIN q \ {i} : \E k \in DOMAIN r : r[k] = q[l] /\ k = IF l < i THEN l ELSE l - 1

LEMMA FollowingRest ==
    ASSUME NEW q \in Seq(Produced), NEW r \in Seq(Produced), NEW i \in DOMAIN q, Without(q, i, r),
           NEW d \in Calls, q[i].call # d, NEW g \in Nat, NEW m \in Nat, Following(q, g, m, d)
    PROVE  Following(r, g, m, d)
<1>1. DOMAIN q \subseteq Nat /\ DOMAIN r \subseteq Nat /\ i \in Nat
    BY LenProperties
<1>2. \A k \in DOMAIN r : r[k].call = d => r[k].n \in (g + 1)..m
    BY DEF Following, Without
<1>3. ASSUME NEW n \in (g + 1)..m PROVE \E k \in DOMAIN r : r[k].call = d /\ r[k].n = n
    <2>1. PICK l \in DOMAIN q : q[l].call = d /\ q[l].n = n
        BY DEF Following
    <2>2. PICK k \in DOMAIN r : r[k] = q[l]
        BY <2>1 DEF Without
    <2> QED
        BY <2>1, <2>2
<1>4. ASSUME NEW x \in DOMAIN r, NEW y \in DOMAIN r, r[x].call = d, r[y].call = d, x < y
      PROVE  r[x].n < r[y].n
    <2>1. PICK v \in DOMAIN q : r[x] = q[v] /\ v = IF x < i THEN x ELSE x + 1
        BY DEF Without
    <2>2. PICK w \in DOMAIN q : r[y] = q[w] /\ w = IF y < i THEN y ELSE y + 1
        BY DEF Without
    <2>3. v < w
        BY <1>1, <1>4, <2>1, <2>2
    <2> QED
        BY <1>4, <2>1, <2>2, <2>3 DEF Following
<1> QED
    BY <1>2, <1>3, <1>4 DEF Following

First(q, i, d) == q[i].call = d /\ \A j \in DOMAIN q : q[j].call = d => i <= j

LEMMA FollowingTaken ==
    ASSUME NEW q \in Seq(Produced), NEW r \in Seq(Produced), NEW i \in DOMAIN q, Without(q, i, r),
           NEW d \in Calls, First(q, i, d), NEW g \in Nat, NEW m \in Nat, Following(q, g, m, d)
    PROVE  q[i].n = g + 1 /\ g + 1 <= m /\ Following(r, g + 1, m, d)
<1>0. q[i].call = d /\ \A j \in DOMAIN q : q[j].call = d => i <= j
    BY DEF First
<1>1. DOMAIN q \subseteq Nat /\ DOMAIN r \subseteq Nat /\ i \in Nat
    BY LenProperties
<1>2. q[i].n \in (g + 1)..m
    BY <1>0 DEF Following
<1>3. g + 1 \in (g + 1)..m
    BY <1>2
<1>4. PICK j \in DOMAIN q : q[j].call = d /\ q[j].n = g + 1
    BY <1>3 DEF Following
<1>5. i = j
    <2>1. i <= j /\ i \in Nat /\ j \in Nat
        BY <1>0, <1>1, <1>4
    <2>2. CASE i < j
        <3>1. q[i].n < q[j].n
            BY <1>0, <1>4, <2>2 DEF Following
        <3> QED
            BY <1>2, <1>4, <3>1
    <2> QED
        BY <2>1, <2>2
<1>6. q[i].n = g + 1
    BY <1>4, <1>5
<1>7. ASSUME NEW k \in DOMAIN r, r[k].call = d PROVE r[k].n \in (g + 2)..m
    <2>1. PICK l \in DOMAIN q : l # i /\ r[k] = q[l]
        BY DEF Without
    <2>2. i < l
        <3>1. i <= l /\ l \in Nat
            BY <1>0, <1>1, <1>7, <2>1
        <3> QED
            BY <1>1, <2>1, <3>1
    <2>3. q[i].n < q[l].n /\ q[l].n \in (g + 1)..m
        BY <1>0, <1>7, <2>1, <2>2 DEF Following
    <2> QED
        BY <1>6, <2>1, <2>3
<1>8. ASSUME NEW n \in (g + 2)..m PROVE \E k \in DOMAIN r : r[k].call = d /\ r[k].n = n
    <2>1. n \in (g + 1)..m /\ n # g + 1
        OBVIOUS
    <2>2. PICK l \in DOMAIN q : q[l].call = d /\ q[l].n = n
        BY <2>1 DEF Following
    <2>3. l # i
        BY <1>6, <2>1, <2>2
    <2> QED
        BY <2>2, <2>3 DEF Without
<1>9. ASSUME NEW x \in DOMAIN r, NEW y \in DOMAIN r, r[x].call = d, r[y].call = d, x < y
      PROVE  r[x].n < r[y].n
    <2>1. PICK v \in DOMAIN q : r[x] = q[v] /\ v = IF x < i THEN x ELSE x + 1
        BY DEF Without
    <2>2. PICK w \in DOMAIN q : r[y] = q[w] /\ w = IF y < i THEN y ELSE y + 1
        BY DEF Without
    <2>3. v < w
        BY <1>1, <1>9, <2>1, <2>2
    <2> QED
        BY <1>9, <2>1, <2>2, <2>3 DEF Following
<1>10. PICK h \in Nat : h = g + 1 /\ h + 1 = g + 2
    OBVIOUS
<1>11. Following(r, h, m, d)
    BY <1>7, <1>8, <1>9, <1>10 DEF Following
<1> QED
    BY <1>2, <1>6, <1>10, <1>11

-----------------------------------------------------------------------------
\* What holds of a client, whatever its operation is doing.

Ahead(c) == c.backlog \o c.outcomes
InTurn(c, d) ==
    /\ Len(c.given[d]) <= c.made[d]
    /\ \A i \in 1..Len(c.given[d]) : c.given[d][i] = i
    /\ Following(Ahead(c), Len(c.given[d]), c.made[d], d)
Truthful(c) ==
    \A d \in c.told : d \notin c.pending /\ (c.closedHere \/ Len(c.given[d]) = c.made[d])
Honest(c) == c \in ClientType /\ (\A d \in Calls : InTurn(c, d)) /\ Truthful(c)

LEMMA AheadType == \A c \in ClientType : Ahead(c) \in Seq(Produced)
<1> SUFFICES ASSUME NEW c \in ClientType PROVE Ahead(c) \in Seq(Produced)
    OBVIOUS
<1>1. c.backlog \in Seq(Produced) /\ c.outcomes \in Seq(Produced)
    BY DEF ClientType
<1> QED
    BY <1>1, ConcatProperties DEF Ahead

LEMMA GivenType ==
    \A c \in ClientType : \A d \in Calls :
        c.made[d] \in Nat /\ c.given[d] \in Seq(Nat) /\ Len(c.given[d]) \in Nat
<1> SUFFICES ASSUME NEW c \in ClientType, NEW d \in Calls
             PROVE  c.made[d] \in Nat /\ c.given[d] \in Seq(Nat) /\ Len(c.given[d]) \in Nat
    OBVIOUS
<1>1. c.made[d] \in Nat /\ c.given[d] \in Seq(Nat)
    BY DEF ClientType
<1> QED
    BY <1>1, LenProperties

\* The core completes calls of S, or adds an item to the only call of S.
Produces(c, b, S, more) ==
    /\ b.outcomes = c.outcomes \o more /\ b.pending \subseteq c.pending
    /\ b.backlog = c.backlog /\ b.given = c.given /\ b.told = c.told /\ b.closedHere = c.closedHere
    /\ \A d \in Calls : b.made[d] = IF d \in S THEN c.made[d] + 1 ELSE c.made[d]
    /\ \A i \in DOMAIN more : more[i].call \in S /\ more[i].n = c.made[more[i].call] + 1
    /\ \A i, j \in DOMAIN more : more[i].call = more[j].call => i = j
    /\ \A d \in S : \E i \in DOMAIN more : more[i].call = d
LEMMA CoreProduces ==
    ASSUME NEW c, Honest(c), NEW S \in SUBSET c.pending, NEW more \in Seq(Produced),
           NEW b \in ClientType, Produces(c, b, S, more)
    PROVE  Honest(b)
<1>1. c \in ClientType /\ c.pending \in SUBSET Calls /\ c.told \in SUBSET Calls
    BY DEF Honest, ClientType
<1>2. Ahead(b) = Ahead(c) \o more
    <2>1. c.backlog \in Seq(Produced) /\ c.outcomes \in Seq(Produced)
        BY <1>1 DEF ClientType
    <2>2. PICK p \in Seq(Produced), o \in Seq(Produced) : p = c.backlog /\ o = c.outcomes
        BY <2>1
    <2>3. (p \o o) \o more = p \o (o \o more)
        BY ConcatAssociative
    <2> QED
        BY <2>2, <2>3 DEF Ahead, Produces
<1>3. ASSUME NEW d \in Calls PROVE InTurn(b, d)
    <2>1. InTurn(c, d)
        BY DEF Honest
    <2>2. PICK q \in Seq(Produced) : q = Ahead(c)
        BY <1>1, AheadType
    <2>3. PICK g \in Nat, m \in Nat, made \in Nat : g = Len(c.given[d]) /\ m = c.made[d] /\ made = b.made[d]
        BY <1>1, GivenType
    <2>4. g <= m /\ Following(q, g, m, d)
        BY <2>1, <2>2, <2>3 DEF InTurn
    <2>5. made = IF d \in S THEN m + 1 ELSE m
        BY <2>3 DEF Produces
    <2>6. \A i \in DOMAIN more : more[i].call = d => more[i].n = m + 1 /\ made = m + 1
        BY <2>3, <2>5 DEF Produces
    <2>7. made = m \/ (made = m + 1 /\ \E i \in DOMAIN more : more[i].call = d)
        BY <2>5 DEF Produces
    <2>8. \A i, j \in DOMAIN more : more[i].call = d /\ more[j].call = d => i = j
        BY DEF Produces
    <2>9. Following(q \o more, g, made, d)
        BY <2>4, <2>6, <2>7, <2>8, FollowingGrows
    <2>10. g <= made
        BY <2>4, <2>5
    <2> QED
        BY <1>2, <2>1, <2>2, <2>3, <2>9, <2>10 DEF InTurn, Produces
<1>4. Truthful(b)
    BY <1>1 DEF Honest, Truthful, Produces
<1> QED
    BY <1>3, <1>4 DEF Honest

\* The core of the client goes on; what its caller is doing stays the same.
Onward(c, b) == Honest(b) /\ b.at = c.at /\ b.call = c.call /\ b.closedHere = c.closedHere

LEMMA OnwardOn ==
    ASSUME NEW c, NEW b, NEW d, Onward(c, b), Onward(b, d)
    PROVE  Onward(c, d)
BY DEF Onward

LEMMA AddHonest ==
    ASSUME NEW c, Honest(c), NEW call \in c.pending, NEW last \in BOOLEAN
    PROVE  Onward(c, AddOutcome(c, call, last))
<1>1. c \in ClientType /\ call \in Calls
    BY DEF Honest, ClientType
<1>2. PICK made \in [Calls -> Nat] : made = c.made
    BY <1>1 DEF ClientType
<1>3. PICK n \in Nat : n = made[call] + 1
    BY <1>1
<1>4. PICK x \in Produced : x = [call |-> call, n |-> n, last |-> last]
    BY <1>1 DEF Produced
<1>5. PICK outs \in Seq(Produced) : outs = c.outcomes
    BY <1>1 DEF ClientType
<1>6. PICK more : more = <<x>>
    OBVIOUS
<1>7. more \in Seq(Produced) /\ DOMAIN more = {1} /\ more[1] = x /\ outs \o more = Append(outs, x)
    BY <1>6
<1>8. PICK made2 : made2 = [made EXCEPT ![call] = n]
    OBVIOUS
<1>9. made2 \in [Calls -> Nat] /\ \A d \in Calls : made2[d] = IF d = call THEN made[d] + 1 ELSE made[d]
    BY <1>1, <1>3, <1>8
<1>10. PICK pending \in SUBSET Calls :
            pending \subseteq c.pending /\ pending = IF last THEN c.pending \ {call} ELSE c.pending
    BY <1>1 DEF ClientType
<1>11. PICK outs2 \in Seq(Produced) : outs2 = Append(outs, x)
    BY AppendProperties
<1>12. PICK b : b = [c EXCEPT !.made = made2, !.outcomes = outs2, !.pending = pending]
    OBVIOUS
<1>13. b = AddOutcome(c, call, last)
    <2>1. AddOutcome(c, call, last) =
            [c EXCEPT !.made = [made EXCEPT ![call] = made[call] + 1],
                      !.outcomes = Append(outs, [call |-> call, n |-> made[call] + 1, last |-> last]),
                      !.pending = IF last THEN c.pending \ {call} ELSE c.pending]
        BY <1>1, <1>2, <1>5 DEF AddOutcome, ClientType
    <2> QED
        BY <1>3, <1>4, <1>8, <1>10, <1>11, <1>12, <2>1
<1>14. /\ b \in ClientType /\ b.made = made2 /\ b.outcomes = outs2 /\ b.pending = pending
       /\ b.backlog = c.backlog /\ b.given = c.given /\ b.told = c.told /\ b.closedHere = c.closedHere
       /\ b.at = c.at /\ b.call = c.call
    BY <1>1, <1>9, <1>12 DEF ClientType
<1>15. PICK S : S = {call}
    OBVIOUS
<1>16. S \in SUBSET c.pending /\ b.pending \subseteq c.pending /\ b.outcomes = c.outcomes \o more
    BY <1>5, <1>7, <1>10, <1>11, <1>14, <1>15
<1>17. \A d \in Calls : b.made[d] = IF d \in S THEN c.made[d] + 1 ELSE c.made[d]
    BY <1>2, <1>9, <1>14, <1>15
<1>18. \A i \in DOMAIN more : more[i].call \in S /\ more[i].n = c.made[more[i].call] + 1
    BY <1>2, <1>3, <1>4, <1>7, <1>15
<1>19. /\ \A i, j \in DOMAIN more : more[i].call = more[j].call => i = j
       /\ \A d \in S : \E i \in DOMAIN more : more[i].call = d
    BY <1>4, <1>7, <1>15
<1>20. Produces(c, b, S, more)
    BY <1>14, <1>16, <1>17, <1>18, <1>19 DEF Produces
<1>21. Honest(b)
    BY <1>7, <1>14, <1>16, <1>20, CoreProduces
<1> QED
    BY <1>13, <1>14, <1>21 DEF Onward

LEMMA AbandonHonest ==
    ASSUME NEW c, Honest(c), NEW S \in SUBSET c.pending
    PROVE  Onward(c, AbandonAll(c, S))
<1>1. c \in ClientType /\ S \in SUBSET Calls /\ c.pending \in SUBSET Calls
    BY DEF Honest, ClientType
<1>2. S \in SUBSET Nat /\ IsFiniteSet(S)
    BY <1>1, ClientConstants, FS_Subset
<1>3. PICK ids : ids = SortedKeys(S)
    OBVIOUS
<1>4. PICK n \in Nat : n = Cardinality(S)
    BY <1>2, FS_CardinalityType
<1>5. ids \in [1..n -> S] /\ Ascending(ids, n) /\ \A r \in S : \E i \in 1..n : ids[i] = r
    BY <1>2, <1>3, <1>4, SortedKeysType
<1>6. \A i, j \in 1..n : ids[i] = ids[j] => i = j
    <2>1. ASSUME NEW i \in 1..n, NEW j \in 1..n, ids[i] = ids[j] PROVE i = j
        <3>1. ids[i] \in Nat /\ ids[j] \in Nat
            BY <1>2, <1>5
        <3>2. (i < j => ids[i] < ids[j]) /\ (j < i => ids[j] < ids[i])
            BY <1>5 DEF Ascending
        <3> QED
            BY <2>1, <3>1, <3>2
    <2> QED
        BY <2>1
<1>7. PICK made \in [Calls -> Nat] : made = c.made
    BY <1>1 DEF ClientType
<1>8. PICK more : more = [i \in 1..n |-> [call |-> ids[i], n |-> made[ids[i]] + 1, last |-> TRUE]]
    OBVIOUS
<1>9. \A i \in 1..n : more[i] \in Produced /\ more[i].call = ids[i] /\ more[i].n = made[ids[i]] + 1
    <2>1. ASSUME NEW i \in 1..n
          PROVE  more[i] \in Produced /\ more[i].call = ids[i] /\ more[i].n = made[ids[i]] + 1
        <3>1. ids[i] \in Calls /\ made[ids[i]] + 1 \in Nat
            BY <1>1, <1>5
        <3>2. more[i] = [call |-> ids[i], n |-> made[ids[i]] + 1, last |-> TRUE]
            BY <1>8
        <3> QED
            BY <3>1, <3>2 DEF Produced
    <2> QED
        BY <2>1
<1>10. more \in [1..n -> Produced]
    <2>1. DOMAIN more = 1..n
        BY <1>8
    <2>2. more = [i \in 1..n |-> more[i]]
        BY <1>8, <2>1
    <2> QED
        BY <1>9, <2>2
<1>11. more \in Seq(Produced) /\ DOMAIN more = 1..n
    BY <1>10
<1>12. PICK outs \in Seq(Produced) : outs = c.outcomes
    BY <1>1 DEF ClientType
<1>13. PICK outs2 \in Seq(Produced) : outs2 = outs \o more
    BY <1>11, <1>12, ConcatProperties
<1>14. PICK made2 : made2 = [d \in Calls |-> IF d \in S THEN made[d] + 1 ELSE made[d]]
    OBVIOUS
<1>15. made2 \in [Calls -> Nat] /\ \A d \in Calls : made2[d] = IF d \in S THEN made[d] + 1 ELSE made[d]
    <2>1. \A d \in Calls : (IF d \in S THEN made[d] + 1 ELSE made[d]) \in Nat
        OBVIOUS
    <2> QED
        BY <1>14, <2>1
<1>16. PICK pending \in SUBSET Calls : pending = c.pending \ S
    BY <1>1
<1>17. PICK b : b = [c EXCEPT !.made = made2, !.outcomes = outs2, !.pending = pending]
    OBVIOUS
<1>18. b = AbandonAll(c, S)
    <2>1. DOMAIN ids = 1..n
        BY <1>5
    <2>2. AbandonAll(c, S) =
            [c EXCEPT !.made = [d \in Calls |-> IF d \in S THEN c.made[d] + 1 ELSE c.made[d]],
                      !.outcomes = c.outcomes \o [i \in DOMAIN ids |-> [call |-> ids[i], n |-> c.made[ids[i]] + 1, last |-> TRUE]],
                      !.pending = c.pending \ S]
        BY <1>1, <1>3 DEF AbandonAll, ClientType
    <2> QED
        BY <1>7, <1>8, <1>12, <1>13, <1>14, <1>16, <1>17, <2>1, <2>2
<1>19. /\ b \in ClientType /\ b.made = made2 /\ b.outcomes = outs2 /\ b.pending = pending
       /\ b.backlog = c.backlog /\ b.given = c.given /\ b.told = c.told /\ b.closedHere = c.closedHere
       /\ b.at = c.at /\ b.call = c.call
    BY <1>1, <1>15, <1>17 DEF ClientType
<1>20. b.pending \subseteq c.pending /\ b.outcomes = c.outcomes \o more
    BY <1>12, <1>13, <1>16, <1>19
<1>21. \A d \in Calls : b.made[d] = IF d \in S THEN c.made[d] + 1 ELSE c.made[d]
    BY <1>7, <1>15, <1>19
<1>22. \A i \in DOMAIN more : more[i].call \in S /\ more[i].n = c.made[more[i].call] + 1
    BY <1>5, <1>7, <1>9, <1>11
<1>23. \A i, j \in DOMAIN more : more[i].call = more[j].call => i = j
    BY <1>6, <1>9, <1>11
<1>24. \A d \in S : \E i \in DOMAIN more : more[i].call = d
    <2>1. ASSUME NEW d \in S PROVE \E i \in DOMAIN more : more[i].call = d
        <3>1. PICK i \in 1..n : ids[i] = d
            BY <1>5
        <3> QED
            BY <1>9, <1>11, <3>1
    <2> QED
        BY <2>1
<1>25. Produces(c, b, S, more)
    BY <1>19, <1>20, <1>21, <1>22, <1>23, <1>24 DEF Produces
<1>26. Honest(b)
    BY <1>11, <1>19, <1>25, CoreProduces
<1> QED
    BY <1>18, <1>19, <1>26 DEF Onward

\* A client that differs in nothing the promises are about.
LEMMA HonestSame ==
    ASSUME NEW c, Honest(c), NEW b \in ClientType, b.backlog = c.backlog, b.outcomes = c.outcomes,
           b.given = c.given, b.made = c.made, b.told = c.told, b.pending = c.pending,
           c.closedHere => b.closedHere
    PROVE  Honest(b)
<1>1. Ahead(b) = Ahead(c)
    BY DEF Ahead
<1>2. \A d \in Calls : InTurn(b, d)
    BY <1>1 DEF Honest, InTurn
<1>3. Truthful(b)
    BY DEF Honest, Truthful
<1> QED
    BY <1>2, <1>3 DEF Honest

LEMMA EndHonest ==
    ASSUME NEW c, Honest(c)
    PROVE  Onward(c, EndSession(c))
<1>1. PICK m : m = AbandonAll(c, c.pending)
    OBVIOUS
<1>2. Honest(m) /\ m.at = c.at /\ m.call = c.call /\ m.closedHere = c.closedHere
    <2>1. c.pending \in SUBSET c.pending
        OBVIOUS
    <2> QED
        BY <1>1, <2>1, AbandonHonest DEF Onward
<1>3. PICK b : b = [m EXCEPT !.over = TRUE, !.ready = FALSE]
    OBVIOUS
<1>4. /\ b \in ClientType /\ b.backlog = m.backlog /\ b.outcomes = m.outcomes
      /\ b.given = m.given /\ b.made = m.made /\ b.told = m.told /\ b.pending = m.pending
      /\ b.closedHere = m.closedHere /\ b.at = m.at /\ b.call = m.call
    BY <1>2, <1>3 DEF Honest, ClientType
<1>5. Honest(b)
    BY <1>2, <1>4, HonestSame
<1>6. b = EndSession(c)
    BY <1>1, <1>3 DEF EndSession
<1> QED
    BY <1>2, <1>4, <1>5, <1>6 DEF Onward

LEMMA EventHonest ==
    ASSUME NEW c, Honest(c), NEW event \in Message
    PROVE  Onward(c, OnEvent(c, event))
<1>1. CASE event = Ready
    <2>1. PICK b : b = [c EXCEPT !.ready = TRUE]
        OBVIOUS
    <2>2. /\ b \in ClientType /\ b.backlog = c.backlog /\ b.outcomes = c.outcomes
          /\ b.given = c.given /\ b.made = c.made /\ b.told = c.told /\ b.pending = c.pending
          /\ b.closedHere = c.closedHere /\ b.at = c.at /\ b.call = c.call
        BY <2>1 DEF Honest, ClientType
    <2>3. Honest(b)
        BY <2>2, HonestSame
    <2>4. b = OnEvent(c, event)
        BY <1>1, <2>1 DEF OnEvent, Ready
    <2> QED
        BY <2>2, <2>3, <2>4 DEF Onward
<1>2. CASE event = Refused
    <2>1. PICK m : m = EndSession(c)
        OBVIOUS
    <2>2. Honest(m) /\ m.at = c.at /\ m.call = c.call /\ m.closedHere = c.closedHere
        BY <2>1, EndHonest DEF Onward
    <2>3. PICK b : b = [m EXCEPT !.refused = TRUE]
        OBVIOUS
    <2>4. /\ b \in ClientType /\ b.backlog = m.backlog /\ b.outcomes = m.outcomes
          /\ b.given = m.given /\ b.made = m.made /\ b.told = m.told /\ b.pending = m.pending
          /\ b.closedHere = m.closedHere /\ b.at = m.at /\ b.call = m.call
        BY <2>2, <2>3 DEF Honest, ClientType
    <2>5. Honest(b)
        BY <2>2, <2>4, HonestSame
    <2>6. b = OnEvent(c, event)
        BY <1>2, <2>1, <2>3 DEF OnEvent, Refused
    <2> QED
        BY <2>2, <2>4, <2>5, <2>6 DEF Onward
<1>3. CASE event \in [kind : {"answer"}, call : Calls, last : BOOLEAN]
    <2>1. event.kind = "answer" /\ event.last \in BOOLEAN
        BY <1>3
    <2>2. OnEvent(c, event) = IF event.call \in c.pending THEN AddOutcome(c, event.call, event.last) ELSE c
        BY <2>1 DEF OnEvent
    <2>3. CASE event.call \in c.pending
        <3>1. Onward(c, AddOutcome(c, event.call, event.last))
            BY <2>1, <2>3, AddHonest
        <3> QED
            BY <2>2, <2>3, <3>1
    <2>4. CASE event.call \notin c.pending
        BY <2>2, <2>4 DEF Onward
    <2> QED
        BY <2>3, <2>4
<1> QED
    BY <1>1, <1>2, <1>3 DEF Message

LEMMA EventsHonest ==
    ASSUME NEW c, Honest(c), NEW events \in Seq(Message)
    PROVE  Onward(c, AfterEvents(c, events))
<1>1. PICK S : S = {b \in ClientType : Onward(c, b)}
    OBVIOUS
<1>2. c \in S
    BY <1>1 DEF Onward, Honest
<1>3. \A b \in S, e \in Message : OnEvent(b, e) \in S
    <2>1. ASSUME NEW b \in S, NEW e \in Message PROVE OnEvent(b, e) \in S
        <3>1. Onward(c, b) /\ Honest(b)
            BY <1>1 DEF Onward
        <3>2. Onward(b, OnEvent(b, e))
            BY <3>1, EventHonest
        <3>3. Onward(c, OnEvent(b, e)) /\ OnEvent(b, e) \in ClientType
            BY <3>1, <3>2, OnwardOn DEF Onward, Honest
        <3> QED
            BY <1>1, <3>3
    <2> QED
        BY <2>1
<1>4. PICK step : step = [p \in S \X Message |-> OnEvent(p[1], p[2])]
    OBVIOUS
<1>5. Steps(step, S, Message)
    <2>1. \A p \in S \X Message : OnEvent(p[1], p[2]) \in S
        BY <1>3
    <2> QED
        BY <1>4, <2>1 DEF Steps
<1>6. PICK n \in Nat : n = Len(events)
    BY LenProperties
<1>7. PICK h \in [0..n -> S] : Run(h, c, step, events)
    BY <1>2, <1>5, <1>6, RunExists
<1>8. ASSUME NEW i \in 1..n PROVE h[i] = OnEvent(h[i - 1], events[i])
    <2>1. i - 1 \in 0..n /\ i \in 1..Len(events) /\ events[i] \in Message
        BY <1>6, LenProperties
    <2>2. h[i - 1] \in S
        BY <2>1
    <2>3. h[i] = step[<<h[i - 1], events[i]>>]
        BY <1>7, <2>1 DEF Run
    <2> QED
        BY <1>4, <2>1, <2>2, <2>3
<1>9. h = [i \in 0..n |-> IF i = 0 THEN c ELSE OnEvent(h[i - 1], events[i])]
    <2>1. h = [i \in 0..n |-> h[i]]
        OBVIOUS
    <2>2. h[0] = c
        BY <1>7 DEF Run
    <2>3. \A i \in 0..n : h[i] = IF i = 0 THEN c ELSE OnEvent(h[i - 1], events[i])
        BY <1>8, <2>2
    <2> QED
        BY <2>1, <2>3
<1>10. PICK g : g = CHOOSE f : f = [i \in 0..n |-> IF i = 0 THEN c ELSE OnEvent(f[i - 1], events[i])]
    OBVIOUS
<1>11. g = [i \in 0..n |-> IF i = 0 THEN c ELSE OnEvent(g[i - 1], events[i])]
    BY <1>9, <1>10
<1>12. AfterEvents(c, events) = g[n]
    BY <1>6, <1>10 DEF AfterEvents
<1>13. PICK T : T = {i \in 0..n : g[i] = h[i]}
    OBVIOUS
<1>14. 0 \in T
    BY <1>9, <1>11, <1>13
<1>15. ASSUME NEW i \in 1..n, i - 1 \in T PROVE i \in T
    <2>1. i # 0 /\ i \in 0..n
        OBVIOUS
    <2>2. g[i] = OnEvent(g[i - 1], events[i])
        BY <1>11, <2>1
    <2> QED
        BY <1>8, <1>13, <1>15, <2>1, <2>2
<1>16. 0..n \subseteq T
    BY <1>14, <1>15, IntervalInduction
<1>17. g[n] = h[n] /\ h[n] \in S
    BY <1>13, <1>16
<1> QED
    BY <1>1, <1>12, <1>17

\* Pump hands all outcomes over to the backlog.
LEMMA PumpHonest ==
    ASSUME NEW c, Honest(c), NEW events \in Seq(Message), NEW ended
    PROVE  Onward(c, Pump(c, events, ended)) /\ Pump(c, events, ended).outcomes = <<>>
<1>1. PICK read : read = AfterEvents(c, events)
    OBVIOUS
<1>2. Onward(c, read) /\ Honest(read)
    BY <1>1, EventsHonest DEF Onward
<1>3. PICK rest : rest = IF ended THEN EndSession(read) ELSE read
    OBVIOUS
<1>4. Onward(read, rest) /\ Honest(rest)
    BY <1>2, <1>3, EndHonest DEF Onward
<1>5. PICK over : over = AbandonAll(rest, rest.pending \cap due)
    OBVIOUS
<1>6. Onward(rest, over) /\ Honest(over)
    <2>1. rest.pending \cap due \in SUBSET rest.pending
        OBVIOUS
    <2> QED
        BY <1>4, <1>5, <2>1, AbandonHonest DEF Onward
<1>7. Onward(c, over)
    BY <1>2, <1>4, <1>6, OnwardOn
<1>8. PICK backlog \in Seq(Produced), outs \in Seq(Produced) : backlog = over.backlog /\ outs = over.outcomes
    BY <1>6 DEF Honest, ClientType
<1>9. PICK more \in Seq(Produced) : more = backlog \o outs
    BY ConcatProperties
<1>10. PICK none \in Seq(Produced) : none = <<>>
    BY EmptySeq
<1>11. PICK b : b = [over EXCEPT !.backlog = more, !.outcomes = none]
    OBVIOUS
<1>12. /\ b \in ClientType /\ b.backlog = more /\ b.outcomes = none
       /\ b.given = over.given /\ b.made = over.made /\ b.told = over.told /\ b.pending = over.pending
       /\ b.closedHere = over.closedHere /\ b.at = over.at /\ b.call = over.call
    BY <1>6, <1>11 DEF Honest, ClientType
<1>13. Ahead(b) = Ahead(over)
    <2>1. more \o none = more
        BY <1>10, ConcatEmptySeq
    <2> QED
        BY <1>8, <1>9, <1>12, <2>1 DEF Ahead
<1>14. \A d \in Calls : InTurn(b, d)
    BY <1>6, <1>12, <1>13 DEF Honest, InTurn
<1>15. Truthful(b)
    BY <1>6, <1>12 DEF Honest, Truthful
<1>16. b = Pump(c, events, ended)
    BY <1>1, <1>3, <1>5, <1>8, <1>9, <1>10, <1>11 DEF Pump
<1> QED
    BY <1>7, <1>10, <1>12, <1>14, <1>15, <1>16 DEF Onward, Honest

-----------------------------------------------------------------------------
\* The first outcome of a call is taken out of the backlog.

LEMMA RemoveAtEffect ==
    ASSUME NEW D, NEW q \in Seq(D), NEW i \in DOMAIN q
    PROVE  /\ RemoveAt(q, i) \in Seq(D) /\ Len(RemoveAt(q, i)) = Len(q) - 1
           /\ \A k \in 1..(Len(q) - 1) : RemoveAt(q, i)[k] = IF k < i THEN q[k] ELSE q[k + 1]
<1>1. PICK n \in Nat : n = Len(q)
    BY LenProperties
<1>2. i \in 1..n
    BY <1>1, LenProperties
<1>3. PICK a, b : a = SubSeq(q, 1, i - 1) /\ b = SubSeq(q, i + 1, n)
    OBVIOUS
<1>4. RemoveAt(q, i) = a \o b
    BY <1>1, <1>3 DEF RemoveAt
<1>5. a \in Seq(D) /\ Len(a) = i - 1 /\ \A k \in 1..(i - 1) : a[k] = q[k]
    BY <1>1, <1>2, <1>3
<1>6. b \in Seq(D) /\ Len(b) = n - i /\ \A k \in 1..(n - i) : b[k] = q[i + k]
    BY <1>1, <1>2, <1>3
<1>7. a \o b \in Seq(D) /\ Len(a \o b) = n - 1
    <2>1. a \o b \in Seq(D) /\ Len(a \o b) = Len(a) + Len(b)
        BY <1>5, <1>6, ConcatProperties
    <2>2. (i - 1) + (n - i) = n - 1
        BY <1>2
    <2> QED
        BY <1>5, <1>6, <2>1, <2>2
<1>8. ASSUME NEW k \in 1..(n - 1) PROVE (a \o b)[k] = IF k < i THEN q[k] ELSE q[k + 1]
    <2>1. (a \o b)[k] = IF k <= Len(a) THEN a[k] ELSE b[k - Len(a)]
        BY <1>2, <1>5, <1>6, <1>7, ConcatProperties
    <2>2. CASE k < i
        <3>1. k \in 1..(i - 1) /\ k <= i - 1
            BY <1>2, <2>2
        <3> QED
            BY <1>5, <2>1, <2>2, <3>1
    <2>3. CASE ~(k < i)
        <3>1. k - (i - 1) \in 1..(n - i) /\ ~(k <= i - 1) /\ i + (k - (i - 1)) = k + 1
            BY <1>2, <2>3
        <3>2. b[k - (i - 1)] = q[k + 1]
            BY <1>6, <3>1
        <3> QED
            BY <1>5, <2>1, <2>3, <3>1, <3>2
    <2> QED
        BY <2>2, <2>3
<1> QED
    BY <1>1, <1>4, <1>7, <1>8

LEMMA RemoveAtWithout ==
    ASSUME NEW q \in Seq(Produced), NEW i \in DOMAIN q, NEW o \in Seq(Produced)
    PROVE  i \in DOMAIN (q \o o) /\ Without(q \o o, i, RemoveAt(q, i) \o o)
<1>1. PICK n \in Nat, m \in Nat : n = Len(q) /\ m = Len(o)
    BY LenProperties
<1>2. i \in 1..n
    BY <1>1, LenProperties
<1>3. PICK p : p = RemoveAt(q, i)
    OBVIOUS
<1>4. /\ p \in Seq(Produced) /\ Len(p) = n - 1 /\ n - 1 \in Nat
      /\ \A k \in 1..(n - 1) : p[k] = IF k < i THEN q[k] ELSE q[k + 1]
    <2>1. /\ RemoveAt(q, i) \in Seq(Produced) /\ Len(RemoveAt(q, i)) = Len(q) - 1
          /\ \A k \in 1..(Len(q) - 1) : RemoveAt(q, i)[k] = IF k < i THEN q[k] ELSE q[k + 1]
        BY RemoveAtEffect
    <2>2. n - 1 \in Nat
        BY <1>2
    <2> QED
        BY <1>1, <1>3, <2>1, <2>2, Zenon
<1>5. PICK s, r : s = q \o o /\ r = p \o o
    OBVIOUS
<1>6. DOMAIN s = 1..(n + m) /\ \A k \in 1..(n + m) : s[k] = IF k <= n THEN q[k] ELSE o[k - n]
    BY <1>1, <1>5, ConcatProperties, LenProperties
<1>7. DOMAIN r = 1..(n - 1 + m) /\ \A k \in 1..(n - 1 + m) : r[k] = IF k <= n - 1 THEN p[k] ELSE o[k - (n - 1)]
    BY <1>1, <1>4, <1>5, ConcatProperties, LenProperties
<1>8. ASSUME NEW k \in DOMAIN r, NEW l, l = IF k < i THEN k ELSE k + 1
      PROVE  l \in DOMAIN s \ {i} /\ r[k] = s[l]
    <2>1. k \in 1..(n - 1 + m) /\ l \in 1..(n + m) /\ l # i
        BY <1>2, <1>7, <1>8
    <2>2. CASE k <= n - 1
        <3>1. r[k] = p[k] /\ k \in 1..(n - 1) /\ l <= n
            BY <1>2, <1>7, <1>8, <2>1, <2>2
        <3>2. p[k] = q[l]
            BY <1>4, <1>8, <3>1
        <3> QED
            BY <1>6, <2>1, <3>1, <3>2
    <2>3. CASE ~(k <= n - 1)
        <3>1. r[k] = o[k - (n - 1)]
            BY <1>7, <2>1, <2>3
        <3>2. l = k + 1 /\ ~(l <= n) /\ l - n = k - (n - 1)
            <4>1. k \in Nat /\ ~(k < i)
                BY <1>2, <2>1, <2>3
            <4>2. l = k + 1
                BY <1>8, <4>1
            <4> QED
                BY <2>3, <4>1, <4>2
        <3>3. s[l] = o[l - n]
            BY <1>6, <2>1, <3>2
        <3>4. l \in DOMAIN s \ {i}
            BY <1>6, <2>1
        <3> QED
            BY <3>1, <3>2, <3>3, <3>4
    <2> QED
        BY <2>2, <2>3
<1>9. \A k \in DOMAIN r : \E l \in DOMAIN s \ {i} : r[k] = s[l] /\ l = IF k < i THEN k ELSE k + 1
    BY <1>8
<1>10. ASSUME NEW l \in DOMAIN s \ {i}
       PROVE  \E k \in DOMAIN r : r[k] = s[l] /\ k = IF l < i THEN l ELSE l - 1
    <2>1. PICK k : k = IF l < i THEN l ELSE l - 1
        OBVIOUS
    <2>2. k \in 1..(n - 1 + m) /\ l = IF k < i THEN k ELSE k + 1
        BY <1>2, <1>6, <2>1
    <2> QED
        BY <1>7, <1>8, <2>1, <2>2
<1>11. i \in DOMAIN s
    BY <1>2, <1>6
<1>12. Without(s, i, r)
    BY <1>9, <1>10 DEF Without
<1> QED
    BY <1>3, <1>5, <1>11, <1>12

-----------------------------------------------------------------------------
\* Between two steps: outcomes stay in a core only if nobody will take them.
Fine(c) ==
    /\ Honest(c)
    /\ c.at \in {"next", "collect", "send"} => c.call \in Calls
    /\ c.outcomes # <<>> => c.closedHere

LEMMA FineSame ==
    ASSUME NEW c, Fine(c), NEW b \in ClientType, b.backlog = c.backlog, b.outcomes = c.outcomes,
           b.given = c.given, b.made = c.made, b.told = c.told, b.pending = c.pending,
           b.closedHere = c.closedHere, b.at \in {"next", "collect", "send"} => b.call \in Calls
    PROVE  Fine(b)
BY HonestSame DEF Fine

LEMMA FreeFine ==
    ASSUME NEW c, Fine(c)
    PROVE  Fine(Free(c)) /\ Free(c).told = c.told
<1>1. /\ Free(c) \in ClientType /\ Free(c).backlog = c.backlog /\ Free(c).outcomes = c.outcomes
      /\ Free(c).given = c.given /\ Free(c).made = c.made /\ Free(c).told = c.told
      /\ Free(c).pending = c.pending /\ Free(c).closedHere = c.closedHere /\ Free(c).at = "free"
    BY DEF Fine, Honest, ClientType, Free
<1> QED
    BY <1>1, FineSame

\* A Close: outcomes are left in the core.
LEMMA CloseFine ==
    ASSUME NEW c, Fine(c)
    PROVE  Fine(CloseOf(c))
<1>1. PICK m : m = EndSession(c)
    OBVIOUS
<1>2. Honest(m) /\ m.at = c.at /\ m.call = c.call
    BY <1>1, EndHonest DEF Fine, Onward
<1>3. PICK b : b = [m EXCEPT !.closedHere = TRUE]
    OBVIOUS
<1>4. /\ b \in ClientType /\ b.backlog = m.backlog /\ b.outcomes = m.outcomes
      /\ b.given = m.given /\ b.made = m.made /\ b.told = m.told /\ b.pending = m.pending
      /\ b.closedHere = TRUE /\ b.at = m.at /\ b.call = m.call
    BY <1>2, <1>3 DEF Honest, ClientType
<1>5. Honest(b)
    BY <1>2, <1>4, HonestSame
<1>6. b = CloseOf(c)
    BY <1>1, <1>3 DEF CloseOf
<1> QED
    BY <1>2, <1>4, <1>5, <1>6 DEF Fine

LEMMA FailedFine ==
    ASSUME NEW c, Fine(c)
    PROVE  Fine([CloseOf(c) EXCEPT !.at = "failed"])
<1>1. PICK m : m = CloseOf(c)
    OBVIOUS
<1>2. Fine(m)
    BY <1>1, CloseFine
<1>3. PICK b : b = [m EXCEPT !.at = "failed"]
    OBVIOUS
<1>4. /\ b \in ClientType /\ b.backlog = m.backlog /\ b.outcomes = m.outcomes
      /\ b.given = m.given /\ b.made = m.made /\ b.told = m.told /\ b.pending = m.pending
      /\ b.closedHere = m.closedHere /\ b.at = "failed"
    BY <1>2, <1>3 DEF Fine, Honest, ClientType
<1> QED
    BY <1>1, <1>2, <1>3, <1>4, FineSame

LEMMA VerdictFine ==
    ASSUME NEW c, Fine(c)
    PROVE  Fine(Verdict(c))
<1>1. Verdict(c) = Free(c) \/ Verdict(c) = [CloseOf(c) EXCEPT !.at = "failed"] \/ Verdict(c) = c
    BY DEF Verdict
<1> QED
    BY <1>1, FreeFine, FailedFine

LEMMA PumpFine ==
    ASSUME NEW c, Fine(c), NEW events \in Seq(Message), NEW ended
    PROVE  Fine(Pump(c, events, ended))
BY PumpHonest DEF Fine, Onward

LEMMA CancelFine ==
    ASSUME NEW c, Honest(c), c.at \notin {"next", "collect", "send"}, NEW S \in SUBSET c.pending,
           NEW events \in Seq(Message), NEW ended
    PROVE  Fine(Pump(AbandonAll(c, S), events, ended))
<1>1. PICK m : m = AbandonAll(c, S)
    OBVIOUS
<1>2. Honest(m) /\ m.at = c.at
    BY <1>1, AbandonHonest DEF Onward
<1>3. PICK b : b = Pump(m, events, ended)
    OBVIOUS
<1>4. Honest(b) /\ b.at = m.at /\ b.outcomes = <<>>
    BY <1>2, <1>3, PumpHonest DEF Onward
<1>5. Fine(b)
    BY <1>2, <1>4 DEF Fine
<1> QED
    BY <1>1, <1>3, <1>5

\* Next and Collect return the first outcome of their call.
LEMMA TakeFine ==
    ASSUME NEW c, Fine(c), NEW i \in DOMAIN c.backlog, c.backlog[i].call = c.call,
           \A j \in DOMAIN c.backlog : c.backlog[j].call = c.call => i <= j,
           NEW at \in {"next", "collect", "free"}, NEW call \in Calls \cup {0},
           at \in {"next", "collect"} => call \in Calls, NEW x, x = c.call,
           NEW b, b = [c EXCEPT !.backlog = RemoveAt(c.backlog, i),
                                !.given = [c.given EXCEPT ![x] = Append(c.given[x], c.backlog[i].n)],
                                !.at = at, !.call = call]
    PROVE  Fine(b)
<1>1. c \in ClientType /\ c.backlog[i] \in Produced
    BY DEF Fine, Honest, ClientType
<1>2. x \in Calls
    BY <1>1 DEF Produced
<1>3. PICK q \in Seq(Produced), o \in Seq(Produced) : q = c.backlog /\ o = c.outcomes
    BY <1>1 DEF ClientType
<1>4. PICK r : r = RemoveAt(q, i)
    OBVIOUS
<1>5. r \in Seq(Produced) /\ i \in DOMAIN q
    BY <1>3, <1>4, RemoveAtEffect
<1>6. PICK given \in [Calls -> Seq(Nat)] : given = c.given
    BY <1>1 DEF ClientType
<1>7. PICK n \in Nat : n = q[i].n
    BY <1>1, <1>3 DEF Produced
<1>8. PICK more \in Seq(Nat) : more = Append(given[x], n)
    BY <1>2, AppendProperties
<1>9. PICK given2 : given2 = [given EXCEPT ![x] = more]
    OBVIOUS
<1>10. given2 \in [Calls -> Seq(Nat)] /\ given2[x] = more /\ \A d \in Calls : d # x => given2[d] = given[d]
    BY <1>2, <1>9
<1>11. b = [c EXCEPT !.backlog = r, !.given = given2, !.at = at, !.call = call]
    BY <1>3, <1>4, <1>6, <1>7, <1>8, <1>9
<1>12. /\ b \in ClientType /\ b.backlog = r /\ b.outcomes = o /\ b.given = given2
       /\ b.made = c.made /\ b.told = c.told /\ b.pending = c.pending /\ b.closedHere = c.closedHere
       /\ b.at = at /\ b.call = call
    BY <1>1, <1>3, <1>5, <1>10, <1>11 DEF ClientType
<1>13. PICK s \in Seq(Produced), t \in Seq(Produced) : s = q \o o /\ t = r \o o
    BY <1>5, ConcatProperties
<1>14. Ahead(c) = s /\ Ahead(b) = t
    BY <1>3, <1>12, <1>13 DEF Ahead
<1>15. i \in DOMAIN s /\ Without(s, i, t)
    BY <1>4, <1>5, <1>13, RemoveAtWithout
<1>16. s[i] = q[i] /\ \A j \in DOMAIN s : s[j].call = x => i <= j
    <2>1. /\ \A j \in DOMAIN q : s[j] = q[j]
          /\ \A j \in DOMAIN s : j \in DOMAIN q \/ \E l \in DOMAIN o : j = Len(q) + l
          /\ \A j \in DOMAIN q, l \in DOMAIN o : j < Len(q) + l
        BY <1>13, ConcatPlaces
    <2>2. DOMAIN q \subseteq Nat /\ DOMAIN s \subseteq Nat
        BY LenProperties
    <2>3. ASSUME NEW j \in DOMAIN s, s[j].call = x PROVE i <= j
        <3>1. CASE j \in DOMAIN q
            BY <1>3, <2>1, <2>3, <3>1
        <3>2. CASE j \notin DOMAIN q
            <4>1. i < j
                BY <1>5, <2>1, <2>3, <3>2
            <4> QED
                BY <1>5, <2>2, <2>3, <4>1
        <3> QED
            BY <3>1, <3>2
    <2> QED
        BY <1>5, <2>1, <2>3
<1>17. ASSUME NEW d \in Calls PROVE InTurn(b, d)
    <2>1. InTurn(c, d)
        BY DEF Fine, Honest
    <2>2. PICK g \in Nat, m \in Nat : g = Len(given[d]) /\ m = c.made[d]
        BY <1>1, <1>6, GivenType
    <2>3. g <= m /\ Following(s, g, m, d) /\ \A j \in 1..g : given[d][j] = j
        BY <1>6, <1>14, <2>1, <2>2 DEF InTurn
    <2>4. CASE d # x
        <3>1. Following(t, g, m, d)
            BY <1>3, <1>15, <1>16, <2>3, <2>4, FollowingRest
        <3>2. b.given[d] = given[d] /\ b.made[d] = m
            BY <1>10, <1>12, <2>2, <2>4
        <3> QED
            BY <1>14, <2>2, <2>3, <3>1, <3>2 DEF InTurn
    <2>5. CASE d = x
        <3>1. s[i].n = g + 1 /\ g + 1 <= m /\ Following(t, g + 1, m, d)
            <4>1. First(s, i, d) /\ i \in DOMAIN s
                BY <1>3, <1>15, <1>16, <2>5 DEF First
            <4>2. s \in Seq(Produced) /\ t \in Seq(Produced) /\ Without(s, i, t)
                BY <1>13, <1>15
            <4>3. Following(s, g, m, d) /\ g \in Nat /\ m \in Nat /\ d \in Calls
                BY <2>2, <2>3
            <4> QED
                BY <4>1, <4>2, <4>3, FollowingTaken
        <3>2. b.given[d] = more /\ b.made[d] = m /\ n = g + 1
            BY <1>7, <1>10, <1>12, <1>16, <2>2, <2>5, <3>1
        <3>3. Len(more) = g + 1 /\ more[g + 1] = n /\ \A j \in 1..g : more[j] = given[d][j]
            BY <1>2, <1>8, <2>2, <2>5, AppendProperties
        <3>4. \A j \in 1..(g + 1) : more[j] = j
            <4>1. \A j \in 1..(g + 1) : j \in 1..g \/ j = g + 1
                OBVIOUS
            <4> QED
                BY <2>3, <3>2, <3>3, <4>1
        <3> QED
            BY <1>14, <3>1, <3>2, <3>3, <3>4 DEF InTurn
    <2> QED
        BY <2>4, <2>5
<1>18. Truthful(b)
    <2>1. ASSUME NEW d \in c.told PROVE d \notin c.pending /\ (c.closedHere \/ Len(b.given[d]) = c.made[d])
        <3>1. d \notin c.pending /\ (c.closedHere \/ Len(c.given[d]) = c.made[d]) /\ d \in Calls
            BY <1>1 DEF Fine, Honest, Truthful, ClientType
        <3>2. CASE d # x
            BY <1>6, <1>10, <1>12, <3>1, <3>2
        <3>3. CASE d = x
            <4>1. InTurn(c, d)
                BY <3>1 DEF Fine, Honest
            <4>2. PICK g \in Nat, m \in Nat : g = Len(given[d]) /\ m = c.made[d]
                BY <1>1, <1>6, <3>1, GivenType
            <4>3. s[i].n \in (g + 1)..m
                BY <1>3, <1>6, <1>14, <1>15, <1>16, <3>3, <4>1, <4>2 DEF InTurn, Following
            <4>4. g # m
                BY <4>3
            <4> QED
                BY <1>6, <3>1, <4>2, <4>4
        <3> QED
            BY <3>2, <3>3
    <2> QED
        BY <1>12, <2>1 DEF Truthful
<1>19. Honest(b)
    BY <1>12, <1>17, <1>18 DEF Honest
<1> QED
    BY <1>3, <1>12, <1>19 DEF Fine

-----------------------------------------------------------------------------
\* The steps of the client.

ClientInv == Fine(cl) /\ wire \in Seq(Message)

\* What one read of the socket takes, and what it leaves.
LEMMA ReadParts ==
    ASSUME wire \in Seq(Message), NEW shut, NEW r \in Reads(shut)
    PROVE  SubSeq(wire, 1, r[1]) \in Seq(Message) /\ SubSeq(wire, r[1] + 1, Len(wire)) \in Seq(Message)
<1>1. r[1] \in 0..Len(wire)
    BY DEF Reads
<1> QED
    BY <1>1, CutParts

\* The wire after a Pump.
LEMMA ReadLeaves ==
    ASSUME wire \in Seq(Message), NEW shut, NEW r \in Reads(shut), NEW over,
           wire' = IF over THEN <<>> ELSE SubSeq(wire, r[1] + 1, Len(wire))
    PROVE  wire' \in Seq(Message)
<1>1. CASE over
    BY <1>1
<1>2. CASE ~over
    BY <1>2, ReadParts
<1> QED
    BY <1>1, <1>2

\* A step that pumps from a client that is fine.
LEMMA PumpingSame ==
    ASSUME ClientInv, NEW shut, NEW before, Fine(before), Pumping(before, shut, Same)
    PROVE  ClientInv'
<1>1. PICK r \in Reads(shut) :
        /\ cl' = Same(Pump(before, SubSeq(wire, 1, r[1]), r[2]))
        /\ wire' = IF cl'.over THEN <<>> ELSE SubSeq(wire, r[1] + 1, Len(wire))
    BY DEF Pumping
<1>2. PICK events \in Seq(Message) : events = SubSeq(wire, 1, r[1])
    BY ReadParts DEF ClientInv
<1>3. PICK b : b = Pump(before, events, r[2])
    OBVIOUS
<1>4. Fine(b)
    BY <1>3, PumpFine
<1>5. cl' = b
    BY <1>1, <1>2, <1>3 DEF Same
<1>6. wire' \in Seq(Message)
    BY <1>1, ReadLeaves DEF ClientInv
<1> QED
    BY <1>4, <1>5, <1>6 DEF ClientInv

LEMMA PumpingFree ==
    ASSUME ClientInv, NEW shut, Pumping(cl, shut, Free)
    PROVE  ClientInv'
<1>1. PICK r \in Reads(shut) :
        /\ cl' = Free(Pump(cl, SubSeq(wire, 1, r[1]), r[2]))
        /\ wire' = IF cl'.over THEN <<>> ELSE SubSeq(wire, r[1] + 1, Len(wire))
    BY DEF Pumping
<1>2. PICK events \in Seq(Message) : events = SubSeq(wire, 1, r[1])
    BY ReadParts DEF ClientInv
<1>3. PICK b : b = Pump(cl, events, r[2])
    OBVIOUS
<1>4. Fine(Free(b))
    BY <1>3, PumpFine, FreeFine DEF ClientInv
<1>5. cl' = Free(b)
    BY <1>1, <1>2, <1>3
<1>6. wire' \in Seq(Message)
    BY <1>1, ReadLeaves DEF ClientInv
<1> QED
    BY <1>4, <1>5, <1>6 DEF ClientInv

LEMMA ConnectFine ==
    ASSUME ClientInv, NEW shut, ConnectLoop(shut)
    PROVE  ClientInv'
<1>1. PICK r \in Reads(shut) :
        /\ cl' = Verdict(Pump(cl, SubSeq(wire, 1, r[1]), r[2]))
        /\ wire' = IF cl'.over THEN <<>> ELSE SubSeq(wire, r[1] + 1, Len(wire))
    BY DEF ConnectLoop, Pumping
<1>2. PICK events \in Seq(Message) : events = SubSeq(wire, 1, r[1])
    BY ReadParts DEF ClientInv
<1>3. PICK b : b = Pump(cl, events, r[2])
    OBVIOUS
<1>4. Fine(Verdict(b))
    BY <1>3, PumpFine, VerdictFine DEF ClientInv
<1>5. cl' = Verdict(b)
    BY <1>1, <1>2, <1>3
<1>6. wire' \in Seq(Message)
    BY <1>1, ReadLeaves DEF ClientInv
<1> QED
    BY <1>4, <1>5, <1>6 DEF ClientInv

\* A new operation forgets what the last one was told.
LEMMA ForgetFine ==
    ASSUME NEW c, Fine(c), NEW b \in ClientType, b.backlog = c.backlog, b.outcomes = c.outcomes,
           b.given = c.given, b.made = c.made, b.told = {}, b.closedHere = c.closedHere,
           b.at \in {"next", "collect", "send"} => b.call \in Calls
    PROVE  Fine(b)
<1>1. Ahead(b) = Ahead(c)
    BY DEF Ahead
<1>2. \A d \in Calls : InTurn(b, d)
    BY <1>1 DEF Fine, Honest, InTurn
<1>3. Truthful(b)
    BY DEF Truthful
<1> QED
    BY <1>2, <1>3 DEF Fine, Honest

LEMMA CallFine ==
    ASSUME ClientInv, NEW c \in Calls, NEW then \in {"free", "next"}, NEW shut, MakeCall(c, then, shut)
    PROVE  ClientInv'
<1>1. PICK b : b = [cl EXCEPT !.asked = @ \cup {c}, !.pending = @ \cup {c}, !.at = then,
                              !.call = IF then = "free" THEN 0 ELSE c, !.told = {}]
    OBVIOUS
<1>2. /\ b \in ClientType /\ b.backlog = cl.backlog /\ b.outcomes = cl.outcomes
      /\ b.given = cl.given /\ b.made = cl.made /\ b.told = {} /\ b.closedHere = cl.closedHere
      /\ b.at = then /\ (then = "next" => b.call = c)
    BY <1>1 DEF ClientInv, Fine, Honest, ClientType
<1>3. Fine(b)
    <2>1. b.at \in {"next", "collect", "send"} => b.call \in Calls
        BY <1>2
    <2> QED
        BY <1>2, <2>1, ForgetFine DEF ClientInv
<1>4. Pumping(b, shut, Same)
    BY <1>1 DEF MakeCall
<1> QED
    BY <1>3, <1>4, PumpingSame

LEMMA BeginFine ==
    ASSUME ClientInv, NEW c \in Calls, NEW operation \in {"next", "collect", "send"}, Begin(operation, c)
    PROVE  ClientInv'
<1>1. PICK b : b = [cl EXCEPT !.at = operation, !.call = c, !.told = {}]
    OBVIOUS
<1>2. /\ b \in ClientType /\ b.backlog = cl.backlog /\ b.outcomes = cl.outcomes
      /\ b.given = cl.given /\ b.made = cl.made /\ b.told = {} /\ b.closedHere = cl.closedHere
      /\ b.call = c
    BY <1>1 DEF ClientInv, Fine, Honest, ClientType
<1>3. Fine(b)
    BY <1>2, ForgetFine DEF ClientInv
<1> QED
    BY <1>1, <1>3 DEF Begin, ClientInv

LEMMA WaitFine ==
    ASSUME ClientInv, WaitFails
    PROVE  ClientInv'
<1>1. cl' = Free(cl) \/ cl' = [CloseOf(cl) EXCEPT !.at = "failed"]
    BY DEF WaitFails
<1>2. Fine(cl')
    BY <1>1, FreeFine, FailedFine DEF ClientInv
<1>3. wire' \in Seq(Message)
    BY DEF WaitFails, ClientInv
<1> QED
    BY <1>2, <1>3 DEF ClientInv

LEMMA TakenFine ==
    ASSUME ClientInv, TakeOutcome
    PROVE  ClientInv'
<1>1. PICK q \in Seq(Produced), x \in Calls : q = cl.backlog /\ x = cl.call
    BY DEF ClientInv, Fine, Honest, ClientType, TakeOutcome
<1>2. PICK K : K = Kept
    OBVIOUS
<1>3. K \in SUBSET Nat /\ K # {} /\ K = {j \in DOMAIN q : q[j].call = x}
    <2>1. DOMAIN q \subseteq Nat
        BY LenProperties
    <2> QED
        BY <1>1, <1>2, <2>1 DEF Kept, TakeOutcome
<1>4. \E i \in K : \A j \in K : i <= j
    BY <1>3, Least
<1>5. PICK i : i = CHOOSE k \in K : \A j \in K : k <= j
    OBVIOUS
<1>6. i \in K /\ \A j \in K : i <= j
    BY <1>4, <1>5
<1>7. PICK last : last = cl.backlog[i].last
    OBVIOUS
<1>8. PICK at : at = IF cl.at = "next" \/ last THEN "free" ELSE cl.at
    OBVIOUS
<1>9. PICK call : call = IF cl.at = "next" \/ last THEN 0 ELSE cl.call
    OBVIOUS
<1>10. PICK b : b = [cl EXCEPT !.backlog = RemoveAt(cl.backlog, i),
                               !.given = [cl.given EXCEPT ![x] = Append(cl.given[x], cl.backlog[i].n)],
                               !.at = at, !.call = call]
    OBVIOUS
<1>11. Fine(b)
    <2>1. at \in {"next", "collect", "free"} /\ call \in Calls \cup {0}
        BY <1>1, <1>8, <1>9 DEF TakeOutcome
    <2>2. at \in {"next", "collect"} => call \in Calls
        BY <1>1, <1>8, <1>9
    <2>3. i \in DOMAIN cl.backlog /\ cl.backlog[i].call = cl.call
        BY <1>1, <1>3, <1>6
    <2>4. \A j \in DOMAIN cl.backlog : cl.backlog[j].call = cl.call => i <= j
        BY <1>1, <1>3, <1>6
    <2> QED
        BY <1>1, <1>10, <2>1, <2>2, <2>3, <2>4, TakeFine DEF ClientInv
<1>12. cl' = b /\ wire' = wire
    BY <1>1, <1>2, <1>5, <1>7, <1>8, <1>9, <1>10 DEF TakeOutcome
<1> QED
    BY <1>11, <1>12 DEF ClientInv

\* Next says there is no further outcome.
LEMMA ToldFine ==
    ASSUME ClientInv, NoFurther
    PROVE  ClientInv'
<1>1. /\ cl \in ClientType /\ Truthful(cl) /\ \A d \in Calls : InTurn(cl, d)
      /\ cl.at \in {"next", "collect"} /\ cl.call \notin cl.pending /\ Kept = {}
      /\ cl' = Free([cl EXCEPT !.told = {cl.call}]) /\ wire' = wire
    BY DEF ClientInv, Fine, Honest, NoFurther
<1>2. PICK x \in Calls : x = cl.call
    BY <1>1 DEF ClientInv, Fine
<1>3. PICK b : b = [cl EXCEPT !.told = {x}]
    OBVIOUS
<1>4. /\ b \in ClientType /\ b.backlog = cl.backlog /\ b.outcomes = cl.outcomes
      /\ b.given = cl.given /\ b.made = cl.made /\ b.told = {x} /\ b.closedHere = cl.closedHere
      /\ b.pending = cl.pending /\ b.at = cl.at /\ b.call = x
    BY <1>1, <1>2, <1>3 DEF ClientType
<1>5. Ahead(b) = Ahead(cl)
    BY <1>4 DEF Ahead
<1>6. \A d \in Calls : InTurn(b, d)
    BY <1>1, <1>4, <1>5 DEF InTurn
<1>7. ASSUME ~cl.closedHere PROVE Len(cl.given[x]) = cl.made[x]
    <2>1. PICK q \in Seq(Produced) : q = cl.backlog
        BY <1>1 DEF ClientType
    <2>2. cl.outcomes = <<>> /\ q \o <<>> = q
        BY <1>7, <2>1, ConcatEmptySeq DEF ClientInv, Fine
    <2>3. Ahead(cl) = q
        BY <2>1, <2>2 DEF Ahead
    <2>4. \A i \in DOMAIN q : q[i].call # x
        BY <1>1, <1>2, <2>1 DEF Kept
    <2>5. PICK g \in Nat, m \in Nat : g = Len(cl.given[x]) /\ m = cl.made[x]
        BY <1>1, GivenType
    <2>6. g <= m /\ Following(q, g, m, x)
        BY <1>1, <2>3, <2>5 DEF InTurn
    <2>7. (g + 1)..m = {}
        BY <2>4, <2>6 DEF Following
    <2>8. g = m
        <3>1. CASE g < m
            <4>1. g + 1 \in (g + 1)..m
                BY <3>1
            <4> QED
                BY <2>7, <4>1
        <3> QED
            BY <2>6, <3>1
    <2> QED
        BY <2>5, <2>8
<1>8. Truthful(b)
    BY <1>1, <1>2, <1>4, <1>7 DEF Truthful
<1>9. Fine(b)
    BY <1>4, <1>6, <1>8 DEF ClientInv, Fine, Honest
<1>10. cl' = Free(b)
    BY <1>1, <1>2, <1>3
<1>11. Fine(Free(b))
    BY <1>9, FreeFine
<1> QED
    BY <1>1, <1>10, <1>11 DEF ClientInv

LEMMA CancelsFine ==
    ASSUME ClientInv, NEW c \in Calls, NEW shut, Cancel(c, shut)
    PROVE  ClientInv'
<1>1. PICK S : S = cl.pending \cap {c}
    OBVIOUS
<1>2. PICK r \in Reads(shut) :
        /\ cl' = Same(Pump(AbandonAll(cl, S), SubSeq(wire, 1, r[1]), r[2]))
        /\ wire' = IF cl'.over THEN <<>> ELSE SubSeq(wire, r[1] + 1, Len(wire))
    BY <1>1 DEF Cancel, Pumping
<1>3. PICK events \in Seq(Message) : events = SubSeq(wire, 1, r[1])
    BY ReadParts DEF ClientInv
<1>4. Honest(cl) /\ cl.at \notin {"next", "collect", "send"} /\ S \in SUBSET cl.pending
    BY <1>1 DEF Cancel, ClientInv, Fine
<1>5. PICK b : b = Pump(AbandonAll(cl, S), events, r[2])
    OBVIOUS
<1>6. Fine(b)
    BY <1>4, <1>5, CancelFine
<1>7. cl' = b
    BY <1>2, <1>3, <1>5 DEF Same
<1>8. wire' \in Seq(Message)
    BY <1>2, ReadLeaves DEF ClientInv
<1> QED
    BY <1>6, <1>7, <1>8 DEF ClientInv

LEMMA ClosesFine ==
    ASSUME ClientInv, Close
    PROVE  ClientInv'
<1>1. Fine(CloseOf(cl)) /\ cl' = CloseOf(cl) /\ wire' = <<>>
    BY CloseFine DEF ClientInv, Close
<1> QED
    BY <1>1 DEF ClientInv

\* The client dials, or finds nobody listening.
LEMMA DialsFine ==
    ASSUME ClientInv, NEW at \in {"connect", "failed"}, cl' = [cl EXCEPT !.at = at], wire' = wire
    PROVE  ClientInv'
<1>1. /\ cl' \in ClientType /\ cl'.backlog = cl.backlog /\ cl'.outcomes = cl.outcomes
      /\ cl'.given = cl.given /\ cl'.made = cl.made /\ cl'.told = cl.told
      /\ cl'.pending = cl.pending /\ cl'.closedHere = cl.closedHere /\ cl'.at = at
    BY DEF ClientInv, Fine, Honest, ClientType
<1> QED
    BY <1>1, FineSame DEF ClientInv

LEMMA LateFine ==
    ASSUME ClientInv, ConnectExpires
    PROVE  ClientInv'
<1>1. /\ cl' \in ClientType /\ cl'.backlog = cl.backlog /\ cl'.outcomes = cl.outcomes
      /\ cl'.given = cl.given /\ cl'.made = cl.made /\ cl'.told = cl.told
      /\ cl'.pending = cl.pending /\ cl'.closedHere = cl.closedHere /\ cl'.at = cl.at
      /\ cl'.call = cl.call /\ wire' = wire
    BY DEF ClientInv, Fine, Honest, ClientType, ConnectExpires
<1> QED
    BY <1>1, FineSame DEF ClientInv, Fine

\* The server sends the client a message.
LEMMA SentFine ==
    ASSUME ClientInv, NEW message \in Message, wire' = Append(wire, message), cl' = cl
    PROVE  ClientInv'
BY AppendProperties DEF ClientInv

LEMMA ClientStepFine ==
    ASSUME ClientInv, ClientLoop \/ ClientMay \/ ClientDials
    PROVE  ClientInv'
<1>1. CASE ClientLoop
    <2>1. CASE ConnectLoop(Shut)
        BY <2>1, ConnectFine
    <2>2. CASE TakeOutcome
        BY <2>2, TakenFine
    <2>3. CASE NoFurther
        BY <2>3, ToldFine
    <2>4. CASE NextWaits(Shut) \/ SendWaits(Shut)
        BY <2>4, PumpingSame DEF NextWaits, SendWaits, ClientInv
    <2>5. CASE SendUnknown(Shut)
        BY <2>5, PumpingFree DEF SendUnknown
    <2> QED
        BY <1>1, <2>1, <2>2, <2>3, <2>4, <2>5 DEF ClientLoop
<1>2. CASE ClientMay
    <2>1. CASE WaitFails
        BY <2>1, WaitFine
    <2>2. CASE SendReturns(Shut)
        BY <2>2, PumpingFree DEF SendReturns
    <2>3. CASE PumpNow(Shut)
        BY <2>3, PumpingSame DEF PumpNow, ClientInv
    <2>4. CASE Close
        BY <2>4, ClosesFine
    <2>5. ASSUME NEW c \in Calls, NEW then \in {"free", "next"}, MakeCall(c, then, Shut) PROVE ClientInv'
        BY <2>5, CallFine
    <2>6. ASSUME NEW c \in Calls, NEW operation \in {"next", "collect", "send"}, Begin(operation, c)
          PROVE  ClientInv'
        BY <2>6, BeginFine
    <2>7. ASSUME NEW c \in Calls, Cancel(c, Shut) PROVE ClientInv'
        BY <2>7, CancelsFine
    <2> QED
        BY <1>2, <2>1, <2>2, <2>3, <2>4, <2>5, <2>6, <2>7 DEF ClientMay
<1>3. CASE ClientDials
    <2>1. wire' = wire /\ (cl' = [cl EXCEPT !.at = "connect"] \/ cl' = [cl EXCEPT !.at = "failed"])
        BY <1>3 DEF ClientDials
    <2> QED
        BY <2>1, DialsFine
<1> QED
    BY <1>1, <1>2, <1>3

LEMMA ShellStepFine ==
    ASSUME ClientInv, [ShellNext]_vars
    PROVE  ClientInv'
<1>1. CASE UNCHANGED <<cl, wire>>
    BY <1>1 DEF ClientInv
<1>2. CASE (RunStep \/ StopListening \/ WaitReturns) /\ UNCHANGED shellVars
    BY <1>1, <1>2 DEF shellVars, cvars
<1>3. CASE (Strangers \/ Caller) /\ UNCHANGED shellVars
    BY <1>1, <1>3 DEF shellVars, cvars
<1>4. ASSUME NEW p \in Peers, ConnStep(p) PROVE ClientInv'
    <2>1. CASE ServeStep(p) /\ UNCHANGED shellVars
        BY <1>1, <2>1 DEF shellVars, cvars
    <2>2. ASSUME NEW ended \in BOOLEAN, TickQuiet(p, ended) PROVE ClientInv'
        BY <1>1, <2>2 DEF TickQuiet, shellVars, cvars
    <2>3. ASSUME NEW verdict \in {Ready, Refused}, TickVerdict(verdict) PROVE ClientInv'
        <3>1. verdict \in Message /\ wire' = Append(wire, verdict) /\ cl' = cl
            BY <2>3 DEF TickVerdict, Message
        <3> QED
            BY <3>1, SentFine
    <2>4. ASSUME NEW c \in Calls, NEW last \in BOOLEAN, TickAnswer(c, last) PROVE ClientInv'
        <3>1. PICK message : message = [kind |-> "answer", call |-> c, last |-> last]
            OBVIOUS
        <3>2. message \in Message /\ wire' = Append(wire, message) /\ cl' = cl
            BY <2>4, <3>1 DEF TickAnswer, Message
        <3> QED
            BY <3>2, SentFine
    <2> QED
        BY <1>4, <2>1, <2>2, <2>3, <2>4 DEF ConnStep, TickStep
<1>5. CASE ClientDials \/ ClientLoop \/ ClientMay
    BY <1>5, ClientStepFine
<1>6. CASE Clock
    <2>1. CASE ConnectExpires
        BY <2>1, LateFine
    <2>2. ASSUME NEW c \in Calls, CallExpires(c) PROVE ClientInv'
        BY <1>1, <2>2 DEF CallExpires
    <2> QED
        BY <1>6, <2>1, <2>2 DEF Clock
<1>7. CASE UNCHANGED vars
    BY <1>1, <1>7 DEF vars, cvars
<1> QED
    BY <1>2, <1>3, <1>4, <1>5, <1>6, <1>7 DEF ShellNext

LEMMA ClientStarts == ShellInit => ClientInv
<1> SUFFICES ASSUME ShellInit PROVE ClientInv
    OBVIOUS
<1>1. cl \in ClientType
    BY DEF ShellInit, ClientInit, ClientType
<1>2. /\ cl.backlog = <<>> /\ cl.outcomes = <<>> /\ cl.told = {} /\ cl.at = "off" /\ wire = <<>>
      /\ \A c \in Calls : cl.made[c] = 0 /\ cl.given[c] = <<>>
    BY DEF ShellInit, ClientInit
<1>3. Ahead(cl) = <<>>
    <2>1. <<>> \o <<>> = <<>>
        OBVIOUS
    <2> QED
        BY <1>2, <2>1 DEF Ahead
<1>4. ASSUME NEW c \in Calls PROVE InTurn(cl, c)
    <2>1. Following(<<>>, 0, 0, c)
        BY DEF Following
    <2> QED
        BY <1>2, <1>3, <2>1 DEF InTurn
<1>5. Truthful(cl)
    BY <1>2 DEF Truthful
<1> QED
    BY <1>1, <1>2, <1>4, <1>5 DEF ClientInv, Fine, Honest

LEMMA ClientInductive == Spec => []ClientInv
<1>1. ClientInv /\ [ShellNext]_vars => ClientInv'
    BY ShellStepFine
<1> QED
    BY <1>1, ClientStarts, PTL DEF Spec

LEMMA FollowingIsInOrder ==
    ASSUME ClientInv
    PROVE  InOrder
<1> SUFFICES ASSUME NEW c \in Calls
             PROVE  LET o == cl.backlog \o cl.outcomes
                        kept == {i \in DOMAIN o : o[i].call = c}
                        given == Len(cl.given[c])
                    IN /\ given <= cl.made[c] /\ \A i \in 1..given : cl.given[c][i] = i
                       /\ {o[i].n : i \in kept} = (given + 1)..cl.made[c]
                       /\ \A i, j \in kept : i < j => o[i].n < o[j].n
    BY DEF InOrder
<1>1. PICK o : o = cl.backlog \o cl.outcomes
    OBVIOUS
<1>2. InTurn(cl, c) /\ Ahead(cl) = o
    BY <1>1 DEF ClientInv, Fine, Honest, Ahead
<1>3. PICK given, made : given = Len(cl.given[c]) /\ made = cl.made[c]
    OBVIOUS
<1>4. given <= made /\ (\A i \in 1..given : cl.given[c][i] = i) /\ Following(o, given, made, c)
    BY <1>2, <1>3 DEF InTurn
<1>5. PICK kept : kept = {i \in DOMAIN o : o[i].call = c}
    OBVIOUS
<1>6. {o[i].n : i \in kept} = (given + 1)..made
    <2>1. \A i \in kept : o[i].n \in (given + 1)..made
        BY <1>4, <1>5 DEF Following
    <2>2. \A n \in (given + 1)..made : \E i \in kept : o[i].n = n
        BY <1>4, <1>5 DEF Following
    <2> QED
        BY <2>1, <2>2
<1>7. \A i, j \in kept : i < j => o[i].n < o[j].n
    BY <1>4, <1>5 DEF Following
<1> QED
    BY <1>1, <1>3, <1>4, <1>5, <1>6, <1>7

\* For any set of calls, whatever the server sends and however the operations
\* are interleaved: the outcomes of a call reach the application in the order in
\* which the core produced them, none twice and none dropped (Client.Next).
THEOREM OutcomesComeInOrder == Spec => []InOrder
<1>1. ClientInv => InOrder
    BY FollowingIsInOrder
<1> QED
    BY <1>1, ClientInductive, PTL

\* For any set of calls: when Next says there is no further outcome of a call,
\* the application has all of them, unless it closed the client itself
\* (ErrNoFurtherOutcome).
THEOREM EndsAreReal == Spec => []EndIsReal
<1>1. ClientInv => EndIsReal
    BY DEF ClientInv, Fine, Honest, Truthful, EndIsReal
<1> QED
    BY <1>1, ClientInductive, PTL

=============================================================================
