-------------------------------- MODULE Client --------------------------------
(***************************************************************************)
(* The blocking client of rpcnet: one caller drives a session whose core   *)
(* completes calls out of the order in which they are asked for.  Between  *)
(* Connect and Close every operation is a loop of Wait and Pump over the   *)
(* same session, so an operation on one call collects the outcomes of all. *)
(*                                                                         *)
(* An outcome is the n-th one its call produced.  How a core produces them *)
(* is Core; here a call is pending until its last outcome.                 *)
(***************************************************************************)
EXTENDS Keys, Sequences, SequencesExt

CONSTANTS
    Calls,      \* the calls the application may make, in the order of their ids
    Timed       \* those made with a deadline

ASSUME ClientConstants == Calls \subseteq Nat /\ IsFiniteSet(Calls) /\ Timed \subseteq Calls

VARIABLES
    cl,     \* the client: what its caller is doing, its session and its core
    wire,   \* what the server sent and the client has not read
    due     \* the pending calls whose deadline has passed

cvars == <<cl, wire, due>>

ClientInit ==
    /\ cl = [at |-> "off", call |-> 0, late |-> FALSE, ready |-> FALSE, refused |-> FALSE, over |-> FALSE,
             closedHere |-> FALSE, asked |-> {}, pending |-> {},
             outcomes |-> <<>>, backlog |-> <<>>,
             made |-> [c \in Calls |-> 0], given |-> [c \in Calls |-> <<>>], told |-> {}]
    /\ wire = <<>> /\ due = {}

Busy == cl.at \in {"next", "collect", "send"}

-----------------------------------------------------------------------------
\* The core completes a call, or adds an item to it.
AddOutcome(c, call, last) ==
    [c EXCEPT !.made[call] = @ + 1,
              !.outcomes = Append(@, [call |-> call, n |-> c.made[call] + 1, last |-> last]),
              !.pending = IF last THEN @ \ {call} ELSE @]
\* Each of these calls is over, in the order of their ids.
AbandonAll(c, calls) ==
    LET ids == SortedKeys(calls)
        ends == [i \in DOMAIN ids |-> [call |-> ids[i], n |-> c.made[ids[i]] + 1, last |-> TRUE]]
    IN [c EXCEPT !.made = [d \in Calls |-> IF d \in calls THEN @[d] + 1 ELSE @[d]],
                 !.outcomes = @ \o ends, !.pending = @ \ calls]

\* Core.OnSessionEnd, on which every pending call is UNAVAILABLE.
EndSession(c) == [AbandonAll(c, c.pending) EXCEPT !.over = TRUE, !.ready = FALSE]

\* Session.Tick for one event; an answer to a call that is over is dropped.
OnEvent(c, event) ==
    CASE event.kind = "ready"   -> [c EXCEPT !.ready = TRUE]
      [] event.kind = "refused" -> [EndSession(c) EXCEPT !.refused = TRUE]
      [] event.kind = "answer"  ->
            IF event.call \in c.pending THEN AddOutcome(c, event.call, event.last) ELSE c
AfterEvents(c, events) ==
    LET read[i \in 0..Len(events)] == IF i = 0 THEN c ELSE OnEvent(read[i - 1], events[i])
    IN read[Len(events)]

\* Mutant: calls past their deadline stay pending.
Pump_Patient(c, events, ended) ==
    LET read == AfterEvents(c, events)
        rest == IF ended THEN EndSession(read) ELSE read
    IN [rest EXCEPT !.backlog = @ \o rest.outcomes, !.outcomes = <<>>]

\* Client.Pump: the events, the end of the session, the deadlines of Core.Tick;
\* then the outcomes are taken.
Pump(c, events, ended) ==
    LET read == AfterEvents(c, events)
        rest == IF ended THEN EndSession(read) ELSE read
        over == AbandonAll(rest, rest.pending \cap due)
    IN [over EXCEPT !.backlog = @ \o over.outcomes, !.outcomes = <<>>]

\* What one read of the socket may bring, <<messages, end>>: some of what was
\* sent and, once the server shut its end, the end, after all of it or, by a
\* reset, before.
Reads(shut) ==
    {r \in (0..Len(wire)) \X BOOLEAN :
        /\ r[2] => shut /\ ~cl.over
        /\ r[1] = Len(wire) /\ shut /\ ~cl.over => r[2]
        /\ cl.over => r[1] = 0}

\* A step of an operation: `before` is the client before its Pump, `After` what
\* the operation does with the client after it.
Pumping(before, shut, After(_)) ==
    \E r \in Reads(shut) :
        /\ cl' = After(Pump(before, SubSeq(wire, 1, r[1]), r[2]))
        /\ wire' = IF cl'.over THEN <<>> ELSE SubSeq(wire, r[1] + 1, Len(wire))
        /\ due' = due \cap cl'.pending

Same(c) == c
Free(c) == [c EXCEPT !.at = "free", !.call = 0, !.late = FALSE]

-----------------------------------------------------------------------------
\* Session.Close: nothing is taken from the core afterwards.
CloseOf(c) == [EndSession(c) EXCEPT !.closedHere = TRUE]

\* Connect after a Pump: ready, refused, closed, too late, or wait again.
Verdict(c) ==
    CASE c.ready                            -> Free(c)
      [] ~c.ready /\ (c.refused \/ c.over \/ c.late)
                                            -> [CloseOf(c) EXCEPT !.at = "failed"]
      [] OTHER                              -> c
ConnectLoop(shut) == cl.at = "connect" /\ Pumping(cl, shut, Verdict)

\* What the backlog holds of the call that is asked for.
Kept == {i \in DOMAIN cl.backlog : cl.backlog[i].call = cl.call}

\* poll(2) fails: the operation ends with its error, Connect after a Close.
WaitFails ==
    /\ cl.at = "connect" \/ Busy
    /\ Busy => cl.call \in cl.pending /\ (cl.at = "send" \/ Kept = {})
    /\ cl' = IF Busy THEN Free(cl) ELSE [CloseOf(cl) EXCEPT !.at = "failed"]
    /\ wire' = IF cl'.over THEN <<>> ELSE wire
    /\ UNCHANGED due

\* Call, and InvokeWith, which goes on to Next.
MakeCall(c, then, shut) ==
    /\ cl.at = "free" /\ cl.ready
    /\ c \in Calls \ cl.asked /\ \A d \in Calls \ cl.asked : c <= d
    /\ Pumping([cl EXCEPT !.asked = @ \cup {c}, !.pending = @ \cup {c},
                          !.at = then, !.call = IF then = "free" THEN 0 ELSE c,
                          !.told = {}], shut, Same)

Begin(operation, c) ==
    /\ cl.at = "free" /\ c \in cl.asked
    /\ cl' = [cl EXCEPT !.at = operation, !.call = c, !.told = {}]
    /\ UNCHANGED <<wire, due>>

\* Next takes the first outcome of its call; Collect goes on until the last one.
\* Mutant: the outcome found is returned, the oldest one is removed.
TakeOutcome_Oldest ==
    /\ cl.at \in {"next", "collect"} /\ Kept # {}
    /\ LET i == CHOOSE i \in Kept : \A j \in Kept : i <= j
           found == cl.backlog[i]
       IN cl' = [cl EXCEPT !.backlog = Tail(@), !.given[cl.call] = Append(@, found.n),
                           !.at = IF @ = "next" \/ found.last THEN "free" ELSE @,
                           !.call = IF cl.at = "next" \/ found.last THEN 0 ELSE @]
    /\ UNCHANGED <<wire, due>>
TakeOutcome ==
    /\ cl.at \in {"next", "collect"} /\ Kept # {}
    /\ LET i == CHOOSE i \in Kept : \A j \in Kept : i <= j
           found == cl.backlog[i]
       IN cl' = [cl EXCEPT !.backlog = RemoveAt(@, i), !.given[cl.call] = Append(@, found.n),
                           !.at = IF @ = "next" \/ found.last THEN "free" ELSE @,
                           !.call = IF cl.at = "next" \/ found.last THEN 0 ELSE @]
    /\ UNCHANGED <<wire, due>>

\* Mutant: whether the call is pending is asked before the backlog is searched.
NoFurther_Early ==
    /\ cl.at \in {"next", "collect"} /\ cl.call \notin cl.pending
    /\ cl' = Free([cl EXCEPT !.told = {cl.call}])
    /\ UNCHANGED <<wire, due>>
NoFurther ==
    /\ cl.at \in {"next", "collect"} /\ Kept = {} /\ cl.call \notin cl.pending
    /\ cl' = Free([cl EXCEPT !.told = {cl.call}])
    /\ UNCHANGED <<wire, due>>
NextWaits(shut) ==
    /\ cl.at \in {"next", "collect"} /\ Kept = {} /\ cl.call \in cl.pending
    /\ Pumping(cl, shut, Same)

\* SendItem: the core takes or refuses the item for good, or is out of credit
\* or room and the client waits.  The end of the session makes the call unknown,
\* so the loop never meets a closed session.
SendReturns(shut) ==
    /\ cl.at = "send" /\ cl.call \in cl.pending
    /\ Pumping(cl, shut, Free)
SendWaits(shut) ==
    /\ cl.at = "send" /\ cl.call \in cl.pending
    /\ Pumping(cl, shut, Same)
SendUnknown(shut) ==
    /\ cl.at = "send" /\ cl.call \notin cl.pending
    /\ Pumping(cl, shut, Free)

\* CloseSend, Grant and Cancel act on the core, then pump.
Cancel(c, shut) ==
    /\ cl.at = "free" /\ c \in cl.asked
    /\ Pumping(AbandonAll(cl, cl.pending \cap {c}), shut, Same)
PumpNow(shut) == cl.at = "free" /\ Pumping(cl, shut, Same)

Close ==
    /\ cl.at = "free" /\ ~cl.closedHere
    /\ cl' = CloseOf(cl) /\ wire' = <<>> /\ due' = {}

CallExpires(c) ==
    /\ c \in (Timed \cap cl.pending) \ due
    /\ due' = due \cup {c}
    /\ UNCHANGED <<cl, wire>>
ConnectExpires ==
    /\ cl.at = "connect" /\ ~cl.late
    /\ cl' = [cl EXCEPT !.late = TRUE]
    /\ UNCHANGED <<wire, due>>

-----------------------------------------------------------------------------
(* The outcomes of a call reach the application in the order in which the   *)
(* core produced them, none twice and none dropped, whichever calls the     *)
(* client was asked about meanwhile.                                        *)
InOrder ==
    \A c \in Calls :
        LET o == cl.backlog \o cl.outcomes
            kept == {i \in DOMAIN o : o[i].call = c}
            given == Len(cl.given[c])
        IN /\ given <= cl.made[c] /\ \A i \in 1..given : cl.given[c][i] = i
           /\ {o[i].n : i \in kept} = (given + 1)..cl.made[c]
           /\ \A i, j \in kept : i < j => o[i].n < o[j].n

(* ErrNoFurtherOutcome is the truth: Next says so only when every outcome of *)
(* the call has been returned.  The exception is a session the application   *)
(* closed itself: Close completes the calls, and nothing takes their         *)
(* outcomes from the core.                                                   *)
EndIsReal ==
    \A c \in cl.told : cl.closedHere \/ Len(cl.given[c]) = cl.made[c]
=============================================================================
