------------------------------- MODULE SendQueue -------------------------------
(***************************************************************************)
(* What an outbox promises to the core, whatever its scheduling.           *)
(*                                                                         *)
(* A frame enters only while there is room, except a terminal one, which   *)
(* always enters.  Frames of one call leave in the order they entered; the *)
(* order between calls is free.  An allowance leaves at any time, as one   *)
(* CREDIT carrying the sum of what was granted, but not ahead of the       *)
(* REQUEST of its own call.  Core composes with this module; Outbox        *)
(* implements it.                                                          *)
(*                                                                         *)
(* How the core uses an outbox (core.go): the REQUEST is the first frame   *)
(* of an own call and is pushed once; an own call is granted and pushed to *)
(* only while it is pending; when it settles its queue is discarded and    *)
(* what may follow is one CANCEL, only if the REQUEST has left.            *)
(***************************************************************************)
EXTENDS CallQueues

CONSTANTS
    Own,     \* the calls this side opens; the others were opened by the peer
    Frames,  \* what may be queued: a kind and a payload length
    Grants   \* the amounts Grant is called with (Outbox states the assumptions)

VARIABLES
    box,     \* queued frames and waiting allowances
    stage,   \* of an own call: new, live (pending) or done (settled)
    opened,  \* own calls whose REQUEST has left
    out      \* what the last step handed to the sink

qvars == <<box, stage, opened, out>>

Ordinary == {"ITEM", "END"}
Terminal == {"RESPONSE", "ERROR", "END", "CANCEL"}
Stages == {"new", "live", "done"}
Nothing == [what |-> "nothing", call |-> -1]

Live(c) == c \in Own => stage[c] = "live"

Init ==
    /\ box = EmptyBox
    /\ stage = [c \in Own |-> "new"]
    /\ opened = {}
    /\ out = Nothing

PushRequest(c, f) ==
    /\ c \in Own /\ stage[c] = "new"
    /\ f.kind = "REQUEST"
    /\ HasRoom(box, c)
    /\ box' = PushTerminal(box, c, f)
    /\ stage' = [stage EXCEPT ![c] = "live"]
    /\ out' = Nothing
    /\ UNCHANGED opened

PushOrdinary(c, f) ==
    /\ Live(c)
    /\ f.kind \in Ordinary
    /\ HasRoom(box, c)
    /\ box' = PushTerminal(box, c, f)
    /\ out' = Nothing
    /\ UNCHANGED <<stage, opened>>

PushLast(c, f) ==
    /\ c \in Own => c \in opened /\ stage[c] = "done"
    /\ f.kind \in Terminal
    /\ box' = PushTerminal(box, c, f)
    /\ out' = Nothing
    /\ UNCHANGED <<stage, opened>>

Allow(c, items) ==
    /\ Live(c)
    /\ box' = GrantTo(box, c, items)
    /\ out' = Nothing
    /\ UNCHANGED <<stage, opened>>

Drop(c) ==
    /\ Live(c)
    /\ box' = Discard(box, {c})
    /\ stage' = [d \in Own |-> IF d = c THEN "done" ELSE stage[d]]
    /\ out' = Nothing
    /\ UNCHANGED opened

DropAll ==
    /\ box' = EmptyBox
    /\ stage' = [c \in Own |-> "done"]
    /\ out' = Nothing
    /\ UNCHANGED opened

FrameLeaves(c) ==
    /\ box.queues[c] # <<>>
    /\ box' = PopFrame(box, c)
    /\ opened' = IF OpensWithRequest(box, c) THEN opened \cup {c} ELSE opened
    /\ out' = [what |-> "frame", call |-> c]
    /\ UNCHANGED stage

CreditLeaves(c) ==
    /\ c \in ReadyCredits(box)
    /\ box' = PopCredit(box, c)
    /\ out' = [what |-> "credit", call |-> c]
    /\ UNCHANGED <<stage, opened>>

\* A step that hands nothing over: scheduling, or a refusal by the sink.
NothingLeaves ==
    /\ out' = Nothing
    /\ UNCHANGED <<box, stage, opened>>

Next ==
    \/ NothingLeaves
    \/ DropAll
    \/ \E c \in Calls :
        \/ \E f \in Frames : PushRequest(c, f) \/ PushOrdinary(c, f) \/ PushLast(c, f)
        \/ \E items \in Grants : Allow(c, items)
        \/ Drop(c)
        \/ FrameLeaves(c)
        \/ CreditLeaves(c)

Spec == Init /\ [][Next]_qvars
=============================================================================
