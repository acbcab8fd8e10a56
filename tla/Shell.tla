--------------------------------- MODULE Shell ---------------------------------
(***************************************************************************)
(* A client and the server it talks to: the goroutines of the server, the  *)
(* peers that come and go, and the blocking operations of the client named *)
(* "client" among them, whose connection the server serves like any other. *)
(***************************************************************************)
EXTENDS Server, Client

CONSTANTS
    MaxAnswers,     \* call -> messages the server sends about it
    MaxUnread       \* messages sent and not read by the client

VARIABLE answers        \* call -> the messages the server sent about it

Me == "client"
ASSUME ShellConstants == Me \in Peers /\ MaxAnswers \in [Calls -> Nat] /\ MaxUnread \in Nat \ {0}

vars == <<svars, cvars, answers>>
shellVars == <<cvars, answers>>

ShellInit == ServerInit /\ ClientInit /\ answers = [c \in Calls |-> [sent |-> 0, last |-> FALSE]]

Ready   == [kind |-> "ready"]
Refused == [kind |-> "refused"]
Shut    == sock[Me] = "shut"

-----------------------------------------------------------------------------
\* The server's side of the client's connection: the verdict of the handshake
\* first; afterwards the answers to the requests the client sent.
Judged == wire # <<>> \/ cl.ready \/ cl.over

TickVerdict(verdict) ==
    /\ ~Judged /\ cl.at # "off"
    /\ ServeTick(Me, verdict = Refused)
    /\ wire' = Append(wire, verdict)
    /\ UNCHANGED <<cl, due, answers>>
TickAnswer(c, last) ==
    /\ c \in cl.asked /\ ~answers[c].last /\ answers[c].sent < MaxAnswers[c] /\ Len(wire) < MaxUnread
    /\ ServeTick(Me, FALSE)
    /\ wire' = Append(wire, [kind |-> "answer", call |-> c, last |-> last])
    /\ answers' = [answers EXCEPT ![c] = [sent |-> @.sent + 1, last |-> last]]
    /\ UNCHANGED <<cl, due>>
TickQuiet(p, ended) == ServeTick(p, ended) /\ UNCHANGED shellVars

TickStep(p) ==
    \/ \E ended \in BOOLEAN : TickQuiet(p, ended)
    \/ p = Me /\ \E verdict \in {Ready, Refused} : TickVerdict(verdict)
    \/ p = Me /\ \E c \in Calls, last \in BOOLEAN : TickAnswer(c, last)

ConnStep(p) == TickStep(p) \/ (ServeStep(p) /\ UNCHANGED shellVars)

\* What the goroutine does by itself: a turn of its loop need not change
\* anything, unless the peer has left.
ConnGoesOn(p) ==
    \/ ServeStep(p) /\ UNCHANGED shellVars
    \/ p \in left /\ TickQuiet(p, TRUE)

-----------------------------------------------------------------------------
\* The client dials, or finds nobody listening; closing leaves the connection.
ClientDials ==
    /\ cl.at = "off"
    /\ IF listening THEN Dial(Me) /\ cl' = [cl EXCEPT !.at = "connect"]
                    ELSE cl' = [cl EXCEPT !.at = "failed"] /\ UNCHANGED svars
    /\ UNCHANGED <<wire, due, answers>>

Leaves == left' = (IF cl'.closedHere THEN left \cup {Me} ELSE left)
Beside == UNCHANGED <<stopped, listening, sock, run, conn, count, accepted, waiter, answers>>

ClientLoop ==
    /\ \/ ConnectLoop(Shut) \/ TakeOutcome \/ NoFurther \/ NextWaits(Shut)
       \/ SendWaits(Shut) \/ SendUnknown(Shut)
    /\ Leaves /\ Beside
ClientMay ==
    /\ \/ WaitFails \/ SendReturns(Shut) \/ PumpNow(Shut) \/ Close
       \/ \E c \in Calls : \/ \E then \in {"free", "next"} : MakeCall(c, then, Shut)
                           \/ \E operation \in {"next", "collect", "send"} : Begin(operation, c)
                           \/ Cancel(c, Shut)
    /\ Leaves /\ Beside

Clock == (ConnectExpires \/ \E c \in Calls : CallExpires(c)) /\ UNCHANGED <<svars, answers>>

-----------------------------------------------------------------------------
Strangers == \E p \in Peers \ {Me} : Dial(p) \/ Leave(p)
Caller    == Stop \/ CallWait \/ AcceptFails

ShellNext ==
    \/ (RunStep \/ StopListening \/ WaitReturns) /\ UNCHANGED shellVars
    \/ (Strangers \/ Caller) /\ UNCHANGED shellVars
    \/ \E p \in Peers : ConnStep(p)
    \/ ClientDials \/ ClientLoop \/ ClientMay \/ Clock

\* Goroutines run, Stop returns, time passes, and the caller of a blocking
\* operation stays in it; nobody has to dial, call, answer, stop or leave.
Fairness ==
    /\ WF_vars(RunStep /\ UNCHANGED shellVars)
    /\ WF_vars(StopListening /\ UNCHANGED shellVars)
    /\ WF_vars(WaitReturns /\ UNCHANGED shellVars)
    /\ \A p \in Peers : WF_vars(ConnGoesOn(p))
    /\ WF_vars(ClientLoop)
    /\ WF_vars(Clock)

Spec == ShellInit /\ [][ShellNext]_vars /\ Fairness

-----------------------------------------------------------------------------
(* Nothing is served for ever.  Stop is enough: Run returns even while it   *)
(* is blocked in AcceptTCP, every connection is closed, and a caller of     *)
(* Wait gets its answer; and a connection whose peer has left is let go.    *)
ConnectionsEnd ==
    /\ stopped ~> run.at = "returned" /\ Serving = {} /\ waiter.at # "waiting"
    /\ \A p \in Peers : p \in left /\ p \in Serving ~> conn[p].at = "done"

(* A blocking operation does not outlive its reason.  On a call with a      *)
(* deadline, and on any call once the server was stopped, Next, Collect and *)
(* SendItem return; Connect does whatever the server makes of it.           *)
OperationsReturn ==
    /\ Busy /\ (cl.call \in Timed \/ stopped) ~> ~Busy
    /\ cl.at = "connect" ~> cl.at # "connect"
=============================================================================
