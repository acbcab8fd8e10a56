-------------------------------- MODULE Outbox --------------------------------
(***************************************************************************)
(* The outbox of one endpoint, with the scheduling of outbox.go: a queue   *)
(* per call, the list of calls waiting for a turn, a running total, and a  *)
(* Drain that spends a byte quantum per turn until the sink refuses.       *)
(*                                                                         *)
(* Drain is one call of the source and nothing else runs meanwhile, so the *)
(* other operations need  drain.phase = "idle".  It is several steps here  *)
(* because the sink answers each frame by itself: it takes `budget` frames *)
(* and refuses the next; a refused sink may have room again (Refills) when *)
(* Drain turns to the late credits.                                        *)
(***************************************************************************)
EXTENDS CallQueues

CONSTANTS
    Own, Frames, Grants, \* as in SendQueue
    Quantum,             \* Config.SchedulerQuantum
    Budgets,             \* frames the sink may take in one Drain
    Refills,             \* frames it may take after it has refused one
    MaxTail              \* bound: terminal frames queued above MaxPerCall

ASSUME OutboxConstants ==
    /\ Own \subseteq Calls
    /\ Frames \subseteq [kind : Kinds, size : Nat \ {0}]
    /\ Grants \subseteq 0..MaxU32
    /\ Quantum \in Nat \ {0}
    /\ Budgets \subseteq Nat
    /\ Refills \subseteq Nat
    /\ MaxTail \in Nat

VARIABLES
    queues,   \* Outbox.queues
    credits,  \* Outbox.credits
    turns,    \* Outbox.turns
    total,    \* Outbox.total
    drain,    \* where Drain is: phase, ready calls to do, call in turn, bytes spent
    stage,    \* as in SendQueue: how the core uses its own calls
    opened,   \* own calls whose REQUEST has left
    out       \* what the last step handed to the sink

vars == <<queues, credits, turns, total, drain, stage, opened, out>>

box == [queues |-> queues, credits |-> credits]

Abstract == INSTANCE SendQueue WITH box <- box

Phases == {"idle", "credits", "frames", "turn", "late"}
NoCall == -1
Drains == [phase : Phases, todo : SUBSET Calls, cur : Calls \cup {NoCall},
           spent : Nat, budget : Nat]
Idle == [phase |-> "idle", todo |-> {}, cur |-> NoCall, spent |-> 0, budget |-> 0]

TypeOK ==
    /\ queues \in [Calls -> Seq(Frames)]
    /\ credits \in [Calls -> Credits]
    /\ turns \in Seq(Calls)
    /\ total \in Nat
    /\ drain \in Drains
    /\ drain.phase = "turn" => drain.cur \in Calls
    /\ stage \in [Own -> Abstract!Stages]
    /\ opened \subseteq Calls
    /\ out \in [what : {"nothing", "frame", "credit"}, call : Calls \cup {NoCall}]

-----------------------------------------------------------------------------
\* Operations of the core on an outbox that is not draining.

\* NewOutbox
Init ==
    /\ queues = EmptyBox.queues
    /\ credits = EmptyBox.credits
    /\ turns = <<>>
    /\ total = 0
    /\ drain = Idle
    /\ stage = [c \in Own |-> "new"]
    /\ opened = {}
    /\ out = Abstract!Nothing

Quiet == drain.phase = "idle"

\* Mutants: a call's first frame is not counted; a call is given a turn for
\* every frame; a new call goes ahead of those that wait.
Enqueue_FirstUncounted(c, f) ==
    /\ turns' = IF queues[c] = <<>> THEN Append(turns, c) ELSE turns
    /\ queues' = [queues EXCEPT ![c] = Append(@, f)]
    /\ total' = IF queues[c] = <<>> THEN total ELSE total + 1
Enqueue_EveryFrame(c, f) ==
    /\ turns' = Append(turns, c)
    /\ queues' = [queues EXCEPT ![c] = Append(@, f)]
    /\ total' = total + 1
Enqueue_AheadOfOthers(c, f) ==
    /\ turns' = IF queues[c] = <<>> THEN <<c>> \o turns ELSE turns
    /\ queues' = [queues EXCEPT ![c] = Append(@, f)]
    /\ total' = total + 1

\* append: a call gets a turn with its first frame.
Enqueue(c, f) ==
    /\ turns' = IF queues[c] = <<>> THEN Append(turns, c) ELSE turns
    /\ queues' = [queues EXCEPT ![c] = Append(@, f)]
    /\ total' = total + 1

\* HasRoom, on the running total.
Room(c) == total < MaxTotal /\ ~FullFor(box, c)

PushRequest(c, f) ==
    /\ Quiet
    /\ c \in Own /\ stage[c] = "new"
    /\ f.kind = "REQUEST"
    /\ Room(c)
    /\ Enqueue(c, f)
    /\ stage' = [stage EXCEPT ![c] = "live"]
    /\ out' = Abstract!Nothing
    /\ UNCHANGED <<credits, drain, opened>>

PushOrdinary(c, f) ==
    /\ Quiet
    /\ Abstract!Live(c)
    /\ f.kind \in Abstract!Ordinary
    /\ Room(c)
    /\ Enqueue(c, f)
    /\ out' = Abstract!Nothing
    /\ UNCHANGED <<credits, drain, stage, opened>>

PushLast(c, f) ==
    /\ Quiet
    /\ c \in Own => c \in opened /\ stage[c] = "done"
    /\ f.kind \in Abstract!Terminal
    /\ Len(queues[c]) < MaxPerCall + MaxTail
    /\ Enqueue(c, f)
    /\ out' = Abstract!Nothing
    /\ UNCHANGED <<credits, drain, stage, opened>>

Allow(c, items) ==
    /\ Quiet
    /\ Abstract!Live(c)
    /\ credits' = GrantTo(box, c, items).credits
    /\ out' = Abstract!Nothing
    /\ UNCHANGED <<queues, turns, total, drain, stage, opened>>

\* The turn list without call c, which holds it at most once (TurnsExact).
Without(s, c) ==
    IF \E i \in 1..Len(s) : s[i] = c
    THEN LET i == CHOOSE i \in 1..Len(s) : s[i] = c
         IN [j \in 1..(Len(s) - 1) |-> IF j < i THEN s[j] ELSE s[j + 1]]
    ELSE s

\* Mutant: the discarded frames stay in the total.
Drop_TotalKept(c) ==
    /\ Quiet
    /\ Abstract!Live(c)
    /\ queues' = Discard(box, {c}).queues
    /\ credits' = Discard(box, {c}).credits
    /\ turns' = Without(turns, c)
    /\ stage' = [d \in Own |-> IF d = c THEN "done" ELSE stage[d]]
    /\ out' = Abstract!Nothing
    /\ UNCHANGED <<total, drain, opened>>

\* Discard
Drop(c) ==
    /\ Quiet
    /\ Abstract!Live(c)
    /\ total' = total - Len(queues[c])
    /\ queues' = Discard(box, {c}).queues
    /\ credits' = Discard(box, {c}).credits
    /\ turns' = Without(turns, c)
    /\ stage' = [d \in Own |-> IF d = c THEN "done" ELSE stage[d]]
    /\ out' = Abstract!Nothing
    /\ UNCHANGED <<drain, opened>>

\* Clear
DropAll ==
    /\ Quiet
    /\ queues' = EmptyBox.queues
    /\ credits' = EmptyBox.credits
    /\ turns' = <<>>
    /\ total' = 0
    /\ stage' = [c \in Own |-> "done"]
    /\ out' = Abstract!Nothing
    /\ UNCHANGED <<drain, opened>>

-----------------------------------------------------------------------------
\* Drain

StartDrain ==
    /\ Quiet
    /\ \E b \in Budgets :
        drain' = [Idle EXCEPT !.phase = "credits", !.todo = ReadyCredits(box), !.budget = b]
    /\ out' = Abstract!Nothing
    /\ UNCHANGED <<queues, credits, turns, total, stage, opened>>

\* drainCredits goes through the ready calls in ascending order.
FirstOf(S, c) == c \in S /\ \A d \in S : c <= d

CreditTaken ==
    /\ drain.phase \in {"credits", "late"}
    /\ drain.budget > 0
    /\ \E c \in drain.todo :
        /\ FirstOf(drain.todo, c)
        /\ credits' = PopCredit(box, c).credits
        /\ drain' = [drain EXCEPT !.todo = @ \ {c}, !.budget = @ - 1]
        /\ out' = [what |-> "credit", call |-> c]
    /\ UNCHANGED <<queues, turns, total, stage, opened>>

\* A refused CREDIT ends Drain, before the frames or after them.
CreditRefused ==
    /\ drain.phase \in {"credits", "late"}
    /\ drain.todo # {} /\ drain.budget = 0
    /\ drain' = Idle
    /\ out' = Abstract!Nothing
    /\ UNCHANGED <<queues, credits, turns, total, stage, opened>>

CreditsDone ==
    /\ drain.phase \in {"credits", "late"}
    /\ drain.todo = {}
    /\ drain' = IF drain.phase = "credits" THEN [drain EXCEPT !.phase = "frames"] ELSE Idle
    /\ out' = Abstract!Nothing
    /\ UNCHANGED <<queues, credits, turns, total, stage, opened>>

\* Mutant: the turn is taken from the wrong end of the list.
NextTurn_Latest ==
    /\ drain.phase = "frames"
    /\ total > 0 /\ turns # <<>>
    /\ drain' = [drain EXCEPT !.phase = "turn", !.cur = turns[Len(turns)], !.spent = 0]
    /\ turns' = SubSeq(turns, 1, Len(turns) - 1)
    /\ out' = Abstract!Nothing
    /\ UNCHANGED <<queues, credits, total, stage, opened>>

NextTurn ==
    /\ drain.phase = "frames"
    /\ total > 0 /\ turns # <<>>
    /\ drain' = [drain EXCEPT !.phase = "turn", !.cur = Head(turns), !.spent = 0]
    /\ turns' = Tail(turns)
    /\ out' = Abstract!Nothing
    /\ UNCHANGED <<queues, credits, total, stage, opened>>

\* The late credits are those that are ready now.
FramesDone ==
    /\ drain.phase = "frames"
    /\ total = 0 \/ turns = <<>>
    /\ drain' = [drain EXCEPT !.phase = "late", !.todo = ReadyCredits(box), !.cur = NoCall]
    /\ out' = Abstract!Nothing
    /\ UNCHANGED <<queues, credits, turns, total, stage, opened>>

TurnGoesOn ==
    drain.phase = "turn" /\ drain.spent < Quantum /\ queues[drain.cur] # <<>>

\* Mutant: the newest frame of the call leaves first.
FrameTaken_NewestFirst ==
    LET c == drain.cur
        q == queues[c]
    IN /\ TurnGoesOn /\ drain.budget > 0
       /\ queues' = [queues EXCEPT ![c] = SubSeq(q, 1, Len(q) - 1)]
       /\ total' = total - 1
       /\ drain' = [drain EXCEPT !.spent = @ + q[Len(q)].size, !.budget = @ - 1]
       /\ opened' = IF q[Len(q)].kind = "REQUEST" THEN opened \cup {c} ELSE opened
       /\ out' = [what |-> "frame", call |-> c]
       /\ UNCHANGED <<credits, turns, stage>>

FrameTaken ==
    LET c == drain.cur
    IN /\ TurnGoesOn /\ drain.budget > 0
       /\ queues' = PopFrame(box, c).queues
       /\ total' = total - 1
       /\ drain' = [drain EXCEPT !.spent = @ + Head(queues[c]).size, !.budget = @ - 1]
       /\ opened' = IF OpensWithRequest(box, c) THEN opened \cup {c} ELSE opened
       /\ out' = [what |-> "frame", call |-> c]
       /\ UNCHANGED <<credits, turns, stage>>

\* The refused call keeps its frame and goes to the end of the turns.
FrameRefused ==
    /\ TurnGoesOn /\ drain.budget = 0
    /\ turns' = Append(turns, drain.cur)
    /\ \E b \in Refills :
        drain' = [drain EXCEPT !.phase = "late", !.todo = ReadyCredits(box),
                               !.cur = NoCall, !.budget = b]
    /\ out' = Abstract!Nothing
    /\ UNCHANGED <<queues, credits, total, stage, opened>>

TurnOver ==
    /\ drain.phase = "turn" /\ ~TurnGoesOn
    /\ turns' = IF queues[drain.cur] # <<>> THEN Append(turns, drain.cur) ELSE turns
    /\ drain' = [drain EXCEPT !.phase = "frames", !.cur = NoCall]
    /\ out' = Abstract!Nothing
    /\ UNCHANGED <<queues, credits, total, stage, opened>>

DrainStep ==
    \/ CreditTaken \/ CreditRefused \/ CreditsDone
    \/ NextTurn \/ FramesDone \/ FrameTaken \/ FrameRefused \/ TurnOver

Next ==
    \/ DropAll
    \/ \E c \in Calls :
        \/ \E f \in Frames : PushRequest(c, f) \/ PushOrdinary(c, f) \/ PushLast(c, f)
        \/ \E items \in Grants : Allow(c, items)
        \/ Drop(c)
    \/ StartDrain
    \/ DrainStep

Spec == Init /\ [][Next]_vars

\* Session.Tick calls Drain over and over, and Drain runs to its end.
FairSpec == Spec /\ WF_vars(StartDrain) /\ WF_vars(DrainStep)

-----------------------------------------------------------------------------
\* Properties

InTurn == {turns[i] : i \in 1..Len(turns)}

(* Every call with queued frames has exactly one turn, waiting or being    *)
(* spent, so no queue is forgotten and none is served twice in a round     *)
(* (append, Discard and both ends of drainFrames keep `turns` by hand).    *)
TurnsExact ==
    /\ \A i, j \in 1..Len(turns) : turns[i] = turns[j] => i = j
    /\ \A c \in Calls \ {drain.cur} : queues[c] # <<>> <=> c \in InTurn
    /\ drain.cur \notin InTurn
    /\ drain.phase # "turn" => drain.cur = NoCall

(* The running total that Push compares with the connection ceiling is the *)
(* number of queued frames, so the ceiling neither leaks nor jams.         *)
TotalExact == IsFiniteSet(Slots(queues)) /\ total = Cardinality(Slots(queues))

\* The allowances Drain has still to hand over are those that may leave.
TodoReady ==
    /\ drain.todo \subseteq ReadyCredits(box)
    /\ drain.phase \in {"idle", "frames", "turn"} => drain.todo = {}

\* The REQUEST of a pending call heads its queue until it has left, and only
\* a pending call holds an allowance.
RequestFirst ==
    \A c \in Own :
        /\ stage[c] = "new" => queues[c] = <<>>
        /\ stage[c] = "live" => c \in opened \/ OpensWithRequest(box, c)
        /\ credits[c] # NoCredit => stage[c] = "live"

(* stream_test.go, TestCreditNeverOvertakesItsOwnRequest: a CREDIT for an  *)
(* own call is handed to the sink only after its REQUEST was.              *)
CreditAfterRequest ==
    out.what = "credit" /\ out.call \in Own => out.call \in opened

(* A call that waits for its turn is never overtaken: only the call in turn *)
(* goes to the end of `turns`, everyone else keeps or improves its place.  *)
NeverOvertaken ==
    [][\A i \in 1..Len(turns) :
        \A j \in 1..Len(turns') : turns'[j] = turns[i] => j <= i]_vars

(* queue_test.go, "the small REQUEST waited for a few frames, not for the  *)
(* stream": a queued REQUEST leaves the queue, or its call is dropped,     *)
(* however long the other calls keep refilling theirs.                     *)
RequestLeaves ==
    \A c \in Own : OpensWithRequest(box, c) ~> ~OpensWithRequest(box, c)

(* The scheduler implements the abstract queue: per-call FIFO, the         *)
(* ceilings, one CREDIT per accumulated grant and never before its REQUEST. *)
ImplementsSendQueue == Abstract!Spec
=============================================================================
