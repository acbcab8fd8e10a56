-------------------------------- MODULE Server --------------------------------
(***************************************************************************)
(* The server of rpcnet: the goroutine of Run accepts, one goroutine per   *)
(* connection serves, and Stop and Wait are called from elsewhere.  They   *)
(* share the flag stopped, the listener and the WaitGroup connections.     *)
(*                                                                         *)
(* A connection is named by its peer.  A session is reduced to the calls   *)
(* its handlers opened at the peer, whose outcomes the observer is owed;   *)
(* what a session does inside is Link.  Plain messages, which report hands *)
(* over beside the outcomes, are left out.                                 *)
(***************************************************************************)
EXTENDS Naturals, Sequences, FiniteSets, SequencesExt

CONSTANTS
    Peers,      \* who may dial
    OwnCalls    \* peer -> the calls the server's handlers may open at it

ASSUME ServerConstants == IsFiniteSet(Peers) /\ \A p \in Peers : IsFiniteSet(OwnCalls[p])

VARIABLES
    stopped,     \* Server.stopped
    listening,   \* the listener is open
    sock,        \* peer -> its connection: none, queued in the kernel, accepted, shut
    left,        \* the peers that closed their end
    run,         \* where Run is, and the connection it has just accepted
    conn,        \* peer -> the goroutine that serves it
    count,       \* the WaitGroup connections
    accepted,    \* nextConnection
    waiter       \* the caller of Wait, and the connections being served when it called

svars == <<stopped, listening, sock, left, run, conn, count, accepted, waiter>>

Unserved == [at |-> "none", number |-> 0, fresh |-> {}, live |-> {}, log |-> <<>>]

ServerInit ==
    /\ stopped = FALSE /\ listening = TRUE
    /\ sock = [p \in Peers |-> "none"] /\ left = {}
    /\ run = [at |-> "top", peer |-> "none"]
    /\ conn = [p \in Peers |-> Unserved]
    /\ count = 0 /\ accepted = 0
    /\ waiter = [at |-> "off", covers |-> {}, afterRun |-> FALSE]

Serving == {p \in Peers : conn[p].at \notin {"none", "done"}}

-----------------------------------------------------------------------------
\* The loop of Run: the flag, AcceptTCP, the flag again, then the goroutine.

RunReturns == run' = [at |-> "returned", peer |-> "none"]
RunTop ==
    /\ run.at = "top"
    /\ IF stopped THEN RunReturns ELSE run' = [run EXCEPT !.at = "accept"]
    /\ UNCHANGED <<stopped, listening, sock, left, conn, count, accepted, waiter>>

Accept(p) ==
    /\ run.at = "accept" /\ sock[p] = "queued"
    /\ sock' = [sock EXCEPT ![p] = "accepted"]
    /\ run' = [at |-> "check", peer |-> p]
    /\ UNCHANGED <<stopped, listening, left, conn, count, accepted, waiter>>

\* AcceptTCP fails: for good when the listener is closed, else for another reason.
AcceptFails ==
    /\ run.at = "accept"
    /\ IF stopped \/ ~listening THEN RunReturns ELSE run' = [run EXCEPT !.at = "top"]
    /\ UNCHANGED <<stopped, listening, sock, left, conn, count, accepted, waiter>>
AcceptClosed == ~listening /\ AcceptFails

RunCheck ==
    /\ run.at = "check"
    /\ IF stopped
       THEN RunReturns /\ sock' = [sock EXCEPT ![run.peer] = "shut"]
       ELSE run' = [run EXCEPT !.at = "spawn"] /\ UNCHANGED sock
    /\ UNCHANGED <<stopped, listening, left, conn, count, accepted, waiter>>

\* Mutant: the goroutine counts itself when it starts to serve.
Spawn_Uncounted ==
    /\ run.at = "spawn"
    /\ accepted' = accepted + 1
    /\ conn' = [conn EXCEPT ![run.peer].at = "start", ![run.peer].number = accepted + 1,
                            ![run.peer].fresh = OwnCalls[run.peer]]
    /\ run' = [run EXCEPT !.at = "top"]
    /\ UNCHANGED <<stopped, listening, sock, left, count, waiter>>

Spawn ==
    /\ run.at = "spawn"
    /\ accepted' = accepted + 1 /\ count' = count + 1
    /\ conn' = [conn EXCEPT ![run.peer].at = "start", ![run.peer].number = accepted + 1,
                            ![run.peer].fresh = OwnCalls[run.peer]]
    /\ run' = [run EXCEPT !.at = "top"]
    /\ UNCHANGED <<stopped, listening, sock, left, waiter>>

-----------------------------------------------------------------------------
\* The goroutine of a connection: serve.

Log(c, events) == [c EXCEPT !.log = @ \o events]
Outcomes(calls) == [i \in 1..Cardinality(calls) |-> <<"outcome", SetToSeq(calls)[i]>>]

\* The transport or the session cannot be made: the observer hears nothing.
ServeFails(p) ==
    /\ conn[p].at = "start"
    /\ conn' = [conn EXCEPT ![p].at = "exit"]
    /\ sock' = [sock EXCEPT ![p] = "shut"]
    /\ UNCHANGED <<stopped, listening, left, run, count, accepted, waiter>>

ServeOpens(p) ==
    /\ conn[p].at = "start"
    /\ conn' = [conn EXCEPT ![p] = [Log(@, <<<<"opened">>>>) EXCEPT !.at = "loop"]]
    /\ UNCHANGED <<stopped, listening, sock, left, run, count, accepted, waiter>>

\* The loop ends when the server was stopped.
ServeStopped(p) ==
    /\ conn[p].at = "loop" /\ stopped
    /\ conn' = [conn EXCEPT ![p].at = "close"]
    /\ UNCHANGED <<stopped, listening, sock, left, run, count, accepted, waiter>>

\* One turn of the loop: Session.Tick, report, and a Wait that ends within the
\* idle cap or fails.  Handlers open calls and calls complete; the end of the
\* session completes every call.
ServeTick(p, ended) ==
    /\ conn[p].at = "loop" /\ ~stopped
    /\ p \in left => ended
    /\ \E opens \in SUBSET conn[p].fresh : \E done \in SUBSET (conn[p].live \cup opens) :
       \E broken \in BOOLEAN :
        LET live == conn[p].live \cup opens
            over == IF ended THEN live ELSE done
        IN conn' = [conn EXCEPT ![p] =
                [Log(conn[p], Outcomes(over)) EXCEPT
                    !.at = IF ended \/ broken THEN "close" ELSE "loop",
                    !.fresh = @ \ opens, !.live = live \ over]]
    /\ UNCHANGED <<stopped, listening, sock, left, run, count, accepted, waiter>>

\* Mutant: what Close completed is not reported.
ServeClose_Unreported(p) ==
    /\ conn[p].at = "close"
    /\ conn' = [conn EXCEPT ![p] = [Log(@, <<<<"closed">>>>) EXCEPT !.at = "exit", !.live = {}]]
    /\ sock' = [sock EXCEPT ![p] = "shut"]
    /\ UNCHANGED <<stopped, listening, left, run, count, accepted, waiter>>

\* Session.Close completes the calls that are left; they are reported, then Closed.
ServeClose(p) ==
    /\ conn[p].at = "close"
    /\ conn' = [conn EXCEPT ![p] = [Log(@, Outcomes(@.live) \o <<<<"closed">>>>) EXCEPT
                                        !.at = "exit", !.live = {}]]
    /\ sock' = [sock EXCEPT ![p] = "shut"]
    /\ UNCHANGED <<stopped, listening, left, run, count, accepted, waiter>>

\* The deferred connections.Done.
ServeExit(p) ==
    /\ conn[p].at = "exit"
    /\ conn' = [conn EXCEPT ![p].at = "done"]
    /\ count' = count - 1
    /\ UNCHANGED <<stopped, listening, sock, left, run, accepted, waiter>>

-----------------------------------------------------------------------------
\* Stop sets the flag, then closes the listener; what it had queued is reset.
Stop ==
    /\ ~stopped
    /\ stopped' = TRUE
    /\ UNCHANGED <<listening, sock, left, run, conn, count, accepted, waiter>>
\* Mutant: the listener stays open.
StopListening_Forgotten == FALSE /\ UNCHANGED svars
StopListening ==
    /\ stopped /\ listening
    /\ listening' = FALSE
    /\ sock' = [p \in Peers |-> IF sock[p] = "queued" THEN "shut" ELSE sock[p]]
    /\ UNCHANGED <<stopped, left, run, conn, count, accepted, waiter>>

\* Wait is called by who has stopped the server, after Run returned or before,
\* and returns once the counter is zero.
CallWait ==
    /\ waiter.at = "off" /\ ~listening
    /\ waiter' = [at |-> "waiting", covers |-> Serving, afterRun |-> run.at = "returned"]
    /\ UNCHANGED <<stopped, listening, sock, left, run, conn, count, accepted>>
WaitReturns ==
    /\ waiter.at = "waiting" /\ count = 0
    /\ waiter' = [waiter EXCEPT !.at = "returned"]
    /\ UNCHANGED <<stopped, listening, sock, left, run, conn, count, accepted>>

\* The peers: a connection is queued by the kernel while the listener is open.
Dial(p) ==
    /\ listening /\ sock[p] = "none"
    /\ sock' = [sock EXCEPT ![p] = "queued"]
    /\ UNCHANGED <<stopped, listening, left, run, conn, count, accepted, waiter>>
Leave(p) ==
    /\ sock[p] # "none" /\ p \notin left
    /\ left' = left \cup {p}
    /\ UNCHANGED <<stopped, listening, sock, run, conn, count, accepted, waiter>>

RunStep == RunTop \/ AcceptClosed \/ RunCheck \/ Spawn \/ \E p \in Peers : Accept(p)
ServeStep(p) == ServeFails(p) \/ ServeOpens(p) \/ ServeStopped(p)
                    \/ ServeClose(p) \/ ServeExit(p)

-----------------------------------------------------------------------------
(* What an observer may rely on: Opened comes first and Closed last, each   *)
(* once, every call the server opened on the connection is reported exactly *)
(* once by then, and a connection it never heard of is silent.              *)
ObserverContract ==
    \A p \in Peers :
        LET log == conn[p].log
            Count(e) == Cardinality({i \in DOMAIN log : log[i] = e})
        IN /\ log # <<>> => log[1] = <<"opened">> /\ Count(<<"opened">>) = 1
           /\ \A i \in DOMAIN log : log[i] = <<"closed">> => i = Len(log)
           /\ \A c \in OwnCalls[p] : Count(<<"outcome", c>>) <= 1
           /\ log # <<>> /\ Last(log) = <<"closed">>
                => \A c \in OwnCalls[p] \ conn[p].fresh : Count(<<"outcome", c>>) = 1

(* The WaitGroup counts the connections that are served, and Wait returns   *)
(* only after every one that was served when it was called; called after    *)
(* Run has returned, as Stop, the channel of Start and Wait are meant to be *)
(* used, it leaves no connection behind.                                    *)
WaitCovers ==
    /\ count = Cardinality(Serving)
    /\ waiter.at = "returned" =>
        /\ \A p \in waiter.covers : conn[p].at = "done"
        /\ waiter.afterRun => Serving = {}
=============================================================================
