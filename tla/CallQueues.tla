------------------------------ MODULE CallQueues ------------------------------
(***************************************************************************)
(* The data an outbox holds: one FIFO queue of frames per call and one     *)
(* allowance (CREDIT) waiting per call.  Everything here is a pure operator *)
(* on a record  box = [queues, credits].  A call with an empty queue and a *)
(* call with no queue are the same to every reader of the Go map, so the   *)
(* map is a total function and <<>> its missing entry.                     *)
(*                                                                         *)
(* Source: outbox.go.                                                      *)
(***************************************************************************)
EXTENDS Integers, Sequences, FiniteSets

CONSTANTS
    Calls,       \* the call ids that may have a queue
    MaxPerCall,  \* Config.MaxCallQueue
    MaxTotal,    \* Config.MaxConnectionQueue
    MaxU32       \* math.MaxUint32, the largest allowance a CREDIT can carry

ASSUME QueueConstants ==
    /\ Calls \subseteq Nat
    /\ IsFiniteSet(Calls)
    /\ MaxPerCall \in Nat \ {0}
    /\ MaxTotal \in Nat \ {0}
    /\ MaxU32 \in Nat

\* The kinds a queue holds; a CREDIT is made when it leaves.
Kinds == {"REQUEST", "RESPONSE", "ERROR", "ITEM", "END", "CANCEL"}

\* No allowance waits for the call: its key is not in Outbox.credits.
NoCredit == -1

EmptyBox ==
    [queues |-> [c \in Calls |-> <<>>], credits |-> [c \in Calls |-> NoCredit]]

\* The places occupied by queued frames, and their number.
Slots(queues) == UNION {{<<c, i>> : i \in 1..Len(queues[c])} : c \in Calls}
Load(box) == Cardinality(Slots(box.queues))

FullFor(box, c) == Len(box.queues[c]) >= MaxPerCall

HasRoom(box, c) == Load(box) < MaxTotal /\ ~FullFor(box, c)

\* Mutant: a sum that is too wide loses its carry.
SaturatingAdd_Wraps(left, right) == (left + right) % (MaxU32 + 1)
\* A wider carry is cut off at the type's maximum.
SaturatingAdd(left, right) ==
    IF left + right > MaxU32 THEN MaxU32 ELSE left + right

\* The REQUEST of an own call has not left yet: it heads the call's queue.
OpensWithRequest(box, c) ==
    box.queues[c] # <<>> /\ Head(box.queues[c]).kind = "REQUEST"

\* Allowances granted before a CREDIT leaves are added up in one.
GrantTo(box, c, items) ==
    [box EXCEPT !.credits[c] =
        SaturatingAdd(IF @ = NoCredit THEN 0 ELSE @, items)]

PushTerminal(box, c, frame) == [box EXCEPT !.queues[c] = Append(@, frame)]

\* Push; a caller that looks at its result tests HasRoom first.
Push(box, c, frame) == IF HasRoom(box, c) THEN PushTerminal(box, c, frame) ELSE box

Discard(box, P) ==
    [queues  |-> [c \in Calls |-> IF c \in P THEN <<>> ELSE box.queues[c]],
     credits |-> [c \in Calls |-> IF c \in P THEN NoCredit ELSE box.credits[c]]]

\* What leaving the queue does to it.
PopFrame(box, c) == [box EXCEPT !.queues[c] = Tail(@)]
PopCredit(box, c) == [box EXCEPT !.credits[c] = NoCredit]

\* Mutant: an allowance does not wait for its call's REQUEST.
ReadyCredits_Unordered(box) == {c \in Calls : box.credits[c] # NoCredit}

\* The calls whose waiting allowance may leave now.
ReadyCredits(box) ==
    {c \in Calls : box.credits[c] # NoCredit /\ ~OpensWithRequest(box, c)}

Credits == {NoCredit} \cup 0..MaxU32
=============================================================================
