------------------------------ MODULE OutboxProofs ------------------------------
(***************************************************************************)
(* Proofs about Outbox, for every set of calls, every ceiling and every    *)
(* behaviour of the sink.                                                  *)
(***************************************************************************)
EXTENDS Outbox, FiniteSetTheorems, SequenceTheorems, TLAPS

-----------------------------------------------------------------------------
\* The places of the queue.

LEMMA SlotsMember ==
    \A q, x : x \in Slots(q) <=> \E c \in Calls : \E i \in 1..Len(q[c]) : x = <<c, i>>
BY DEF Slots

\* A frame appended to a queue takes one new place.
LEMMA SlotsAppend ==
    ASSUME NEW q \in [Calls -> Seq(Frames)], NEW c \in Calls, NEW f \in Frames,
           NEW p, p[c] = Append(q[c], f), \A d \in Calls : d # c => p[d] = q[d]
    PROVE  /\ <<c, Len(q[c]) + 1>> \notin Slots(q)
           /\ Slots(p) = Slots(q) \cup {<<c, Len(q[c]) + 1>>}
<1>1. \A d \in Calls : q[d] \in Seq(Frames) /\ Len(q[d]) \in Nat
    BY LenProperties
<1>2. \A d \in Calls : Len(p[d]) = IF d = c THEN Len(q[c]) + 1 ELSE Len(q[d])
    BY <1>1, AppendProperties
<1>3. \A x : x \in Slots(q) <=> \E d \in Calls : \E i \in 1..Len(q[d]) : x = <<d, i>>
    BY SlotsMember, Zenon
<1>4. \A x : x \in Slots(p) <=> \E d \in Calls : \E i \in 1..Len(p[d]) : x = <<d, i>>
    BY SlotsMember, Zenon
<1>5. <<c, Len(q[c]) + 1>> \notin Slots(q)
    BY <1>1, <1>3
<1>6. ASSUME NEW x \in Slots(p)
      PROVE  x \in Slots(q) \cup {<<c, Len(q[c]) + 1>>}
    <2>0. PICK d \in Calls : \E i \in 1..Len(p[d]) : x = <<d, i>>
        BY <1>4
    <2>1. PICK i \in 1..Len(p[d]) : x = <<d, i>>
        BY <2>0
    <2>2. CASE d = c
        <3>1. i \in 1..Len(q[c]) \/ i = Len(q[c]) + 1
            BY <1>1, <1>2, <2>2
        <3> QED
            BY <1>3, <2>1, <2>2, <3>1
    <2>3. CASE d # c
        BY <1>2, <1>3, <2>1, <2>3
    <2> QED
        BY <2>2, <2>3
<1>7. \A x : x \in Slots(q) \cup {<<c, Len(q[c]) + 1>>} => x \in Slots(p)
    BY SMTT(60), <1>1, <1>2, <1>3, <1>4
<1> QED
    BY <1>5, <1>6, <1>7

\* The frame at the head of a queue frees one place.
LEMMA SlotsTail ==
    ASSUME NEW q \in [Calls -> Seq(Frames)], NEW c \in Calls, q[c] # <<>>,
           NEW p, p[c] = Tail(q[c]), \A d \in Calls : d # c => p[d] = q[d]
    PROVE  /\ <<c, Len(q[c])>> \in Slots(q)
           /\ Slots(p) = Slots(q) \ {<<c, Len(q[c])>>}
<1>1. \A d \in Calls : q[d] \in Seq(Frames) /\ Len(q[d]) \in Nat
    BY LenProperties
<1>2. Len(q[c]) >= 1
    BY <1>1, EmptySeq
<1>3. \A d \in Calls : Len(p[d]) = IF d = c THEN Len(q[c]) - 1 ELSE Len(q[d])
    BY <1>1, HeadTailProperties
<1>4. \A x : x \in Slots(q) <=> \E d \in Calls : \E i \in 1..Len(q[d]) : x = <<d, i>>
    BY SlotsMember, Zenon
<1>5. \A x : x \in Slots(p) <=> \E d \in Calls : \E i \in 1..Len(p[d]) : x = <<d, i>>
    BY SlotsMember, Zenon
<1>6. <<c, Len(q[c])>> \in Slots(q)
    BY <1>1, <1>2, <1>4
<1>7. \A x : x \in Slots(p) => x \in Slots(q) \ {<<c, Len(q[c])>>}
    BY <1>1, <1>2, <1>3, <1>4, <1>5
<1>8. \A x : x \in Slots(q) \ {<<c, Len(q[c])>>} => x \in Slots(p)
    BY <1>1, <1>2, <1>3, <1>4, <1>5
<1> QED
    BY <1>6, <1>7, <1>8

\* The places of one call are as many as its frames.
LEMMA CallSlots ==
    ASSUME NEW c, NEW n \in Nat
    PROVE  /\ IsFiniteSet({<<c, i>> : i \in 1..n})
           /\ Cardinality({<<c, i>> : i \in 1..n}) = n
<1> DEFINE f == [i \in 1..n |-> <<c, i>>]
<1>1. f \in Bijection(1..n, {<<c, i>> : i \in 1..n})
    BY DEF Bijection, Injection, Surjection, IsInjective
<1>2. IsFiniteSet(1..n) /\ Cardinality(1..n) = n
    BY FS_Interval
<1> QED
    BY <1>1, <1>2, FS_Bijection, Zenon DEF ExistsBijection

\* Discarding a queue frees the places of its frames.
LEMMA SlotsDrop ==
    ASSUME NEW q \in [Calls -> Seq(Frames)], NEW c \in Calls,
           IsFiniteSet(Slots(q)),
           NEW p, p[c] = <<>>, \A d \in Calls : d # c => p[d] = q[d]
    PROVE  /\ IsFiniteSet(Slots(p))
           /\ Cardinality(Slots(p)) = Cardinality(Slots(q)) - Len(q[c])
<1> DEFINE mine == {<<c, i>> : i \in 1..Len(q[c])}
<1>1. \A d \in Calls : q[d] \in Seq(Frames) /\ Len(q[d]) \in Nat
    BY LenProperties
<1>2. \A d \in Calls : Len(p[d]) = IF d = c THEN 0 ELSE Len(q[d])
    BY <1>1, EmptySeq
<1>3. \A x : x \in Slots(q) <=> \E d \in Calls : \E i \in 1..Len(q[d]) : x = <<d, i>>
    BY SlotsMember, Zenon
<1>4. \A x : x \in Slots(p) <=> \E d \in Calls : \E i \in 1..Len(p[d]) : x = <<d, i>>
    BY SlotsMember, Zenon
<1>5. \A x : x \in Slots(p) => x \in Slots(q) \ mine
    BY <1>1, <1>2, <1>3, <1>4
<1>6. \A x : x \in Slots(q) \ mine => x \in Slots(p)
    BY <1>1, <1>2, <1>3, <1>4
<1>7. Slots(p) = Slots(q) \ mine
    BY <1>5, <1>6
<1>8. mine \subseteq Slots(q)
    BY <1>3
<1>9. IsFiniteSet(mine) /\ Cardinality(mine) = Len(q[c])
    BY <1>1, CallSlots
<1>10. Slots(q) \cap mine = mine
    BY <1>8
<1>11. /\ IsFiniteSet(Slots(q) \ mine)
       /\ Cardinality(Slots(q) \ mine) = Cardinality(Slots(q)) - Cardinality(Slots(q) \cap mine)
    BY FS_Difference, Zenon
<1> QED
    BY <1>7, <1>9, <1>10, <1>11

-----------------------------------------------------------------------------
\* Type correctness.

LEMMA EmptyBoxType ==
    /\ EmptyBox.queues \in [Calls -> Seq(Frames)]
    /\ EmptyBox.credits \in [Calls -> Credits]
    /\ \A c \in Calls : EmptyBox.queues[c] = <<>> /\ EmptyBox.credits[c] = NoCredit
BY EmptySeq DEF EmptyBox, Credits

LEMMA SaturatingAddType ==
    ASSUME NEW left \in 0..MaxU32, NEW right \in 0..MaxU32
    PROVE  SaturatingAdd(left, right) \in 0..MaxU32
BY QueueConstants DEF SaturatingAdd

\* A list without one of its entries is a list of the others.
LEMMA WithoutType ==
    ASSUME NEW S, NEW s \in Seq(S), NEW c
    PROVE  Without(s, c) \in Seq(S)
<1>1. Len(s) \in Nat /\ \A i \in 1..Len(s) : s[i] \in S
    BY LenProperties, ElementOfSeq
<1>2. CASE \E i \in 1..Len(s) : s[i] = c
    <2> DEFINE i == CHOOSE i \in 1..Len(s) : s[i] = c
               w == [j \in 1..(Len(s) - 1) |-> IF j < i THEN s[j] ELSE s[j + 1]]
    <2>1. i \in 1..Len(s)
        BY <1>2
    <2>2. Len(s) - 1 \in Nat
        BY <1>1, <2>1
    <2>3. \A j \in 1..(Len(s) - 1) : (IF j < i THEN s[j] ELSE s[j + 1]) \in S
        BY <1>1, <2>1
    <2>4. w \in Seq(S)
        <3> HIDE DEF i
        <3> QED
            BY <2>2, <2>3, SeqDef
    <2> QED
        BY <1>2, <2>4 DEF Without
<1>3. CASE ~\E i \in 1..Len(s) : s[i] = c
    BY <1>3 DEF Without
<1> QED
    BY <1>2, <1>3

LEMMA TypeInit == Init => TypeOK
BY EmptyBoxType, EmptySeq, QueueConstants, OutboxConstants
   DEF Init, TypeOK, Drains, Idle, NoCall, Phases, Abstract!Nothing, Abstract!Stages


-----------------------------------------------------------------------------
\* The operators on a box, field by field.

LEMMA GrantToFields ==
    ASSUME NEW c, NEW items
    PROVE  /\ GrantTo(box, c, items) =
                [queues |-> queues, credits |-> GrantTo(box, c, items).credits]
           /\ GrantTo(box, c, items).credits =
                [credits EXCEPT ![c] = SaturatingAdd(IF @ = NoCredit THEN 0 ELSE @, items)]
BY DEF GrantTo, box

LEMMA PushTerminalFields ==
    ASSUME NEW c, NEW f
    PROVE  PushTerminal(box, c, f) =
             [queues |-> [queues EXCEPT ![c] = Append(@, f)], credits |-> credits]
BY DEF PushTerminal, box

LEMMA PopFrameFields ==
    ASSUME NEW c
    PROVE  /\ PopFrame(box, c) = [queues |-> PopFrame(box, c).queues, credits |-> credits]
           /\ PopFrame(box, c).queues = [queues EXCEPT ![c] = Tail(@)]
<1>1. box = [queues |-> queues, credits |-> credits] /\ box.queues = queues
    BY DEF box
<1>2. \A r, t : r = [queues |-> queues, credits |-> credits] =>
                  [r EXCEPT !.queues[c] = t] =
                  [queues |-> [queues EXCEPT ![c] = t], credits |-> credits]
    OBVIOUS
<1>3. PopFrame(box, c) = [queues |-> [queues EXCEPT ![c] = Tail(@)], credits |-> credits]
    BY <1>1, <1>2, Zenon DEF PopFrame
<1> QED
    BY <1>3

LEMMA PopCreditFields ==
    ASSUME NEW c
    PROVE  /\ PopCredit(box, c) = [queues |-> queues, credits |-> PopCredit(box, c).credits]
           /\ PopCredit(box, c).credits = [credits EXCEPT ![c] = NoCredit]
BY DEF PopCredit, box

LEMMA DiscardFields ==
    ASSUME NEW c
    PROVE  /\ Discard(box, {c}) =
                [queues |-> Discard(box, {c}).queues, credits |-> Discard(box, {c}).credits]
           /\ Discard(box, {c}).queues = [d \in Calls |-> IF d = c THEN <<>> ELSE queues[d]]
           /\ Discard(box, {c}).credits =
                [d \in Calls |-> IF d = c THEN NoCredit ELSE credits[d]]
BY DEF Discard, box

-----------------------------------------------------------------------------
\* The running total.

LEMMA TotalInit == Init => TotalExact
<1> SUFFICES ASSUME Init PROVE TotalExact
    OBVIOUS
<1>1. \A c \in Calls : Len(queues[c]) = 0
    BY EmptyBoxType, EmptySeq DEF Init
<1>2. \A x : x \notin Slots(queues)
    BY <1>1, SlotsMember
<1>3. Slots(queues) = {}
    BY <1>2
<1> QED
    BY <1>3, FS_EmptySet DEF Init, TotalExact

LEMMA TotalEnqueue ==
    ASSUME TypeOK, TotalExact, NEW c \in Calls, NEW f \in Frames, Enqueue(c, f)
    PROVE  TotalExact'
<1>1. /\ queues'[c] = Append(queues[c], f)
      /\ \A d \in Calls : d # c => queues'[d] = queues[d]
    BY DEF TypeOK, Enqueue
<1>2. queues \in [Calls -> Seq(Frames)]
    BY DEF TypeOK
<1>3. /\ <<c, Len(queues[c]) + 1>> \notin Slots(queues)
      /\ Slots(queues') = Slots(queues) \cup {<<c, Len(queues[c]) + 1>>}
    BY SMTT(60), <1>1, <1>2, SlotsAppend, Zenon
<1>4. /\ IsFiniteSet(Slots(queues'))
      /\ Cardinality(Slots(queues')) = Cardinality(Slots(queues)) + 1
    BY <1>3, FS_AddElement DEF TotalExact
<1> QED
    BY <1>4 DEF TotalExact, Enqueue, Slots

LEMMA TotalDrop ==
    ASSUME TypeOK, TotalExact, NEW c \in Calls, Drop(c)
    PROVE  TotalExact'
<1>1. queues' = [d \in Calls |-> IF d = c THEN <<>> ELSE queues[d]]
    BY DiscardFields, Zenon DEF Drop
<1>2. /\ queues'[c] = <<>>
      /\ \A d \in Calls : d # c => queues'[d] = queues[d]
    BY <1>1
<1>3. queues \in [Calls -> Seq(Frames)]
    BY DEF TypeOK
<1>4. IsFiniteSet(Slots(queues))
    BY DEF TotalExact
<1>5. /\ IsFiniteSet(Slots(queues'))
      /\ Cardinality(Slots(queues')) = Cardinality(Slots(queues)) - Len(queues[c])
    BY <1>2, <1>3, <1>4, SlotsDrop, Zenon
<1> QED
    BY <1>5 DEF TotalExact, Drop, Slots

LEMMA TotalDropAll ==
    ASSUME DropAll
    PROVE  TotalExact'
<1>1. \A c \in Calls : Len(queues'[c]) = 0
    BY EmptyBoxType, EmptySeq DEF DropAll
<1>2. \A x : x \notin Slots(queues')
    BY <1>1, SlotsMember
<1>3. Slots(queues') = {}
    BY <1>2
<1> QED
    BY <1>3, FS_EmptySet DEF DropAll, TotalExact, Slots

LEMMA TotalFrameTaken ==
    ASSUME TypeOK, TotalExact, FrameTaken
    PROVE  TotalExact'
<1> DEFINE c == drain.cur
<1>1. c \in Calls /\ queues[c] # <<>>
    BY DEF TypeOK, FrameTaken, TurnGoesOn
<1>2. queues' = [queues EXCEPT ![c] = Tail(@)]
    BY PopFrameFields, Zenon DEF FrameTaken
<1>3. queues \in [Calls -> Seq(Frames)]
    BY DEF TypeOK
<1>4. /\ queues'[c] = Tail(queues[c])
      /\ \A d \in Calls : d # c => queues'[d] = queues[d]
    BY <1>1, <1>2, <1>3
<1>5. /\ <<c, Len(queues[c])>> \in Slots(queues)
      /\ Slots(queues') = Slots(queues) \ {<<c, Len(queues[c])>>}
    BY <1>1, <1>3, <1>4, SlotsTail, Zenon
<1>6. /\ IsFiniteSet(Slots(queues'))
      /\ Cardinality(Slots(queues')) = Cardinality(Slots(queues)) - 1
    <2>1. IsFiniteSet(Slots(queues))
        BY DEF TotalExact
    <2>2. \A x \in Slots(queues) :
            /\ IsFiniteSet(Slots(queues) \ {x})
            /\ Cardinality(Slots(queues) \ {x}) = Cardinality(Slots(queues)) - 1
        BY <2>1, FS_RemoveElement
    <2> QED
        BY <1>5, <2>2, Zenon
<1> QED
    BY <1>6 DEF TotalExact, FrameTaken, Slots

\* The steps that leave the queues alone.
LEMMA TotalUnchanged ==
    ASSUME TotalExact, UNCHANGED <<queues, total>>
    PROVE  TotalExact'
BY DEF TotalExact, Slots

\* No step makes the running total and the queues disagree.
LEMMA TotalNext ==
    ASSUME TypeOK, TotalExact, [Next]_vars
    PROVE  TotalExact'
<1>1. ASSUME NEW c \in Calls, NEW f \in Frames,
             PushRequest(c, f) \/ PushOrdinary(c, f) \/ PushLast(c, f)
      PROVE  TotalExact'
    BY <1>1, TotalEnqueue DEF PushRequest, PushOrdinary, PushLast
<1>2. ASSUME NEW c \in Calls, NEW items \in Grants, Allow(c, items)
      PROVE  TotalExact'
    BY <1>2, TotalUnchanged DEF Allow
<1>3. ASSUME NEW c \in Calls, Drop(c)
      PROVE  TotalExact'
    BY <1>3, TotalDrop
<1>4. CASE DropAll
    BY <1>4, TotalDropAll
<1>5. CASE FrameTaken
    BY <1>5, TotalFrameTaken
<1>6. CASE \/ StartDrain \/ CreditTaken \/ CreditRefused \/ CreditsDone
           \/ NextTurn \/ FramesDone \/ FrameRefused \/ TurnOver \/ UNCHANGED vars
    BY <1>6, TotalUnchanged
       DEF StartDrain, CreditTaken, CreditRefused, CreditsDone, NextTurn, FramesDone,
           FrameRefused, TurnOver, vars
<1> QED
    BY <1>1, <1>2, <1>3, <1>4, <1>5, <1>6 DEF Next, DrainStep

-----------------------------------------------------------------------------
\* Type correctness of every step.  That the total stays a natural number
\* follows from TotalExact only.

LEMMA TypeEnqueue ==
    ASSUME TypeOK, NEW c \in Calls, NEW f \in Frames, Enqueue(c, f)
    PROVE  /\ queues' \in [Calls -> Seq(Frames)]
           /\ turns' \in Seq(Calls)
BY AppendProperties DEF TypeOK, Enqueue

LEMMA ReadyInCalls == ReadyCredits(box) \subseteq Calls
BY DEF ReadyCredits

LEMMA TypeNext ==
    ASSUME TypeOK, TotalExact', [Next]_vars
    PROVE  TypeOK'
<1> USE OutboxConstants
<1>0. total' \in Nat
    BY FS_CardinalityType DEF TotalExact
<1>1. ASSUME NEW c \in Calls, NEW f \in Frames, PushRequest(c, f)
      PROVE  TypeOK'
    BY <1>0, <1>1, TypeEnqueue
       DEF TypeOK, Drains, PushRequest, Abstract!Stages, Abstract!Nothing, NoCall
<1>2. ASSUME NEW c \in Calls, NEW f \in Frames, PushOrdinary(c, f) \/ PushLast(c, f)
      PROVE  TypeOK'
    BY <1>0, <1>2, TypeEnqueue DEF TypeOK, Drains, PushOrdinary, PushLast, Abstract!Nothing, NoCall
<1>3. ASSUME NEW c \in Calls, NEW items \in Grants, Allow(c, items)
      PROVE  TypeOK'
    <2>1. credits \in [Calls -> Credits]
        BY DEF TypeOK
    <2>2. SaturatingAdd(IF credits[c] = NoCredit THEN 0 ELSE credits[c], items) \in Credits
        <3>1. (IF credits[c] = NoCredit THEN 0 ELSE credits[c]) \in 0..MaxU32
            BY <2>1, QueueConstants DEF Credits
        <3> QED
            BY <3>1, SaturatingAddType DEF Credits
    <2>3. credits' = [credits EXCEPT ![c] =
                        SaturatingAdd(IF @ = NoCredit THEN 0 ELSE @, items)]
        BY <1>3, GrantToFields, Zenon DEF Allow
    <2>4. credits' \in [Calls -> Credits]
        BY <2>1, <2>2, <2>3
    <2> QED
        BY <1>0, <1>3, <2>4 DEF TypeOK, Drains, Allow, Abstract!Nothing, NoCall
<1>4. ASSUME NEW c \in Calls, Drop(c)
      PROVE  TypeOK'
    <2>1. queues' \in [Calls -> Seq(Frames)]
        <3>1. queues' = [d \in Calls |-> IF d = c THEN <<>> ELSE queues[d]]
            BY <1>4, DiscardFields, Zenon DEF Drop
        <3> QED
            BY <3>1, EmptySeq DEF TypeOK
    <2>2. credits' \in [Calls -> Credits]
        <3>1. credits' = [d \in Calls |-> IF d = c THEN NoCredit ELSE credits[d]]
            BY <1>4, DiscardFields, Zenon DEF Drop
        <3> QED
            BY <3>1 DEF TypeOK, Drains, Credits
    <2>3. turns' \in Seq(Calls)
        BY <1>4, WithoutType DEF TypeOK, Drains, Drop
    <2>4. stage' \in [Own -> Abstract!Stages]
        BY <1>4 DEF TypeOK, Drains, Drop, Abstract!Stages
    <2> QED
        BY <1>0, <1>4, <2>1, <2>2, <2>3, <2>4 DEF TypeOK, Drains, Drop, Abstract!Nothing, NoCall
<1>5. CASE DropAll
    BY <1>0, <1>5, EmptyBoxType, EmptySeq
       DEF TypeOK, Drains, DropAll, Abstract!Stages, Abstract!Nothing, NoCall
<1>6. CASE StartDrain
    <2>1. PICK b \in Budgets :
            drain' = [Idle EXCEPT !.phase = "credits", !.todo = ReadyCredits(box), !.budget = b]
        BY <1>6 DEF StartDrain
    <2>2. drain' = [phase |-> "credits", todo |-> ReadyCredits(box), cur |-> NoCall,
                    spent |-> 0, budget |-> b]
        BY <2>1 DEF Idle
    <2>3. drain' \in Drains
        BY <2>2, ReadyInCalls DEF Drains, Phases
    <2> QED
        BY <1>0, <1>6, <2>2, <2>3 DEF TypeOK, Drains, StartDrain, Abstract!Nothing, NoCall
<1>7. CASE CreditTaken
    <2>1. PICK c \in drain.todo :
            /\ credits' = PopCredit(box, c).credits
            /\ drain' = [drain EXCEPT !.todo = @ \ {c}, !.budget = @ - 1]
            /\ out' = [what |-> "credit", call |-> c]
        BY <1>7 DEF CreditTaken
    <2>2. c \in Calls
        BY DEF TypeOK, Drains
    <2>3. credits' = [credits EXCEPT ![c] = NoCredit]
        BY <2>1, PopCreditFields, Zenon
    <2>4. credits' \in [Calls -> Credits]
        BY <2>2, <2>3 DEF TypeOK, Drains, Credits
    <2>5. /\ drain' \in Drains
          /\ drain'.phase # "turn"
        <3>1. /\ drain.budget - 1 \in Nat
              /\ drain.todo \ {c} \in SUBSET Calls
              /\ drain.phase # "turn"
            BY <1>7 DEF TypeOK, Drains, CreditTaken
        <3> QED
            BY <2>1, <3>1 DEF TypeOK, Drains
    <2> QED
        BY <1>0, <1>7, <2>1, <2>2, <2>4, <2>5 DEF TypeOK, Drains, CreditTaken
<1>8. CASE CreditRefused \/ CreditsDone
    <2>1. Idle \in Drains /\ [drain EXCEPT !.phase = "frames"] \in Drains
        BY DEF TypeOK, Drains, Idle, Phases
    <2>2. drain' \in Drains /\ drain'.phase # "turn"
        <3>1. drain' = Idle \/ drain' = [drain EXCEPT !.phase = "frames"]
            BY <1>8, Zenon DEF CreditRefused, CreditsDone
        <3>2. Idle.phase # "turn" /\ [drain EXCEPT !.phase = "frames"].phase # "turn"
            BY DEF Idle, TypeOK, Drains
        <3> QED
            BY <2>1, <3>1, <3>2, Zenon
    <2> QED
        BY <1>0, <1>8, <2>2 DEF TypeOK, CreditRefused, CreditsDone, Abstract!Nothing, NoCall
<1>9. CASE NextTurn
    BY <1>0, <1>9, HeadTailProperties DEF TypeOK, Drains, NextTurn, Phases, Abstract!Nothing, NoCall
<1>10. CASE FramesDone
    <2>1. /\ drain' \in Drains
          /\ drain'.phase # "turn"
        BY <1>10, ReadyInCalls DEF TypeOK, Drains, FramesDone, Phases
    <2> QED
        BY <1>0, <1>10, <2>1 DEF TypeOK, Drains, FramesDone, Abstract!Nothing, NoCall
<1>11. CASE FrameTaken
    <2> DEFINE c == drain.cur
    <2>1. c \in Calls /\ queues[c] # <<>> /\ queues[c] \in Seq(Frames)
        BY <1>11 DEF TypeOK, Drains, FrameTaken, TurnGoesOn
    <2>2. Head(queues[c]) \in Frames /\ Tail(queues[c]) \in Seq(Frames)
        BY <2>1, HeadTailProperties
    <2>3. queues' = [queues EXCEPT ![c] = Tail(@)]
        BY <1>11, PopFrameFields, Zenon DEF FrameTaken
    <2>4. queues' \in [Calls -> Seq(Frames)]
        BY <2>2, <2>3 DEF TypeOK
    <2>5. /\ drain' \in Drains
          /\ drain'.cur = c
        <3>0. Head(queues[c]).size \in Nat
            BY <2>2
        <3>1. /\ drain.spent + Head(queues[c]).size \in Nat
              /\ drain.budget - 1 \in Nat
            <4>1. drain.budget > 0
                BY <1>11, Zenon DEF FrameTaken
            <4>2. drain.spent \in Nat /\ drain.budget \in Nat
                BY DEF TypeOK, Drains
            <4> QED
                BY <3>0, <4>1, <4>2
        <3>2. drain' = [drain EXCEPT !.spent = @ + Head(queues[c]).size, !.budget = @ - 1]
            BY <1>11, Zenon DEF FrameTaken
        <3> QED
            BY <3>1, <3>2 DEF TypeOK, Drains
    <2>6. opened' \subseteq Calls
        BY <1>11, <2>1 DEF TypeOK, Drains, FrameTaken
    <2> QED
        BY <1>0, <1>11, <2>1, <2>4, <2>5, <2>6 DEF TypeOK, Drains, FrameTaken
<1>12. CASE FrameRefused
    <2>1. /\ drain' \in Drains
          /\ drain'.phase # "turn"
        BY <1>12, ReadyInCalls DEF TypeOK, Drains, FrameRefused, Phases
    <2>2. turns' \in Seq(Calls)
        BY <1>12, AppendProperties DEF TypeOK, Drains, FrameRefused, TurnGoesOn
    <2> QED
        BY <1>0, <1>12, <2>1, <2>2 DEF TypeOK, Drains, FrameRefused, Abstract!Nothing, NoCall
<1>13. CASE TurnOver
    BY <1>0, <1>13, AppendProperties DEF TypeOK, Drains, TurnOver, Phases, Abstract!Nothing, NoCall
<1>14. CASE UNCHANGED vars
    BY <1>14 DEF TypeOK, Drains, vars
<1> QED
    BY <1>1, <1>2, <1>3, <1>4, <1>5, <1>6, <1>7, <1>8, <1>9, <1>10, <1>11, <1>12, <1>13,
       <1>14 DEF Next, DrainStep

-----------------------------------------------------------------------------
\* The turn list.

Elements(s) == {s[i] : i \in 1..Len(s)}
Distinct(s) == \A i, j \in 1..Len(s) : s[i] = s[j] => i = j

LEMMA AppendElements ==
    ASSUME NEW s \in Seq(Calls), NEW c \in Calls, c \notin Elements(s), Distinct(s)
    PROVE  Distinct(Append(s, c)) /\ Elements(Append(s, c)) = Elements(s) \cup {c}
<1> DEFINE t == Append(s, c)
<1>1. /\ Len(s) \in Nat /\ Len(t) = Len(s) + 1
      /\ t[Len(s) + 1] = c /\ \A i \in 1..Len(s) : t[i] = s[i]
    BY AppendProperties, LenProperties
<1>2. \A i \in 1..Len(t) : i \in 1..Len(s) \/ i = Len(s) + 1
    BY <1>1
<1>3. \A i \in 1..Len(s) : s[i] # c
    BY DEF Elements
<1> HIDE DEF t
<1>4. Distinct(t)
    BY <1>1, <1>2, <1>3 DEF Distinct
<1>5. \A x : x \in Elements(t) <=> x \in Elements(s) \cup {c}
    BY <1>1, <1>2 DEF Elements
<1>6. Elements(t) = Elements(s) \cup {c}
    BY <1>5
<1> QED
    BY <1>4, <1>6 DEF t

LEMMA TailElements ==
    ASSUME NEW s \in Seq(Calls), s # <<>>, Distinct(s)
    PROVE  /\ Distinct(Tail(s))
           /\ Elements(Tail(s)) = Elements(s) \ {Head(s)}
           /\ Head(s) \in Elements(s)
<1> DEFINE t == Tail(s)
<1>1. /\ Len(s) \in Nat \ {0} /\ Len(t) = Len(s) - 1
      /\ Head(s) = s[1] /\ \A i \in 1..Len(t) : t[i] = s[i + 1]
    BY HeadTailProperties, LenProperties, EmptySeq
<1> HIDE DEF t
<1>2. \A i \in 1..Len(t) : i + 1 \in 1..Len(s) /\ i + 1 # 1
    BY <1>1
<1>3. \A i \in 1..Len(s) : i = 1 \/ (i - 1 \in 1..Len(t) /\ t[i - 1] = s[i])
    BY <1>1
<1>4. Distinct(t)
    <2> SUFFICES ASSUME NEW i \in 1..Len(t), NEW j \in 1..Len(t), t[i] = t[j] PROVE i = j
        BY DEF Distinct
    <2>1. i + 1 = j + 1
        BY <1>1, <1>2 DEF Distinct
    <2> QED
        BY <1>1, <2>1
<1>5. \A x : x \in Elements(t) => x \in Elements(s) \ {Head(s)}
    BY <1>1, <1>2 DEF Elements, Distinct
<1>6. \A x : x \in Elements(s) \ {Head(s)} => x \in Elements(t)
    BY <1>1, <1>3 DEF Elements
<1>7. Head(s) \in Elements(s)
    BY <1>1 DEF Elements
<1> QED
    BY <1>4, <1>5, <1>6, <1>7 DEF t

LEMMA WithoutElements ==
    ASSUME NEW s \in Seq(Calls), NEW c, Distinct(s)
    PROVE  Distinct(Without(s, c)) /\ Elements(Without(s, c)) = Elements(s) \ {c}
<1>0. Len(s) \in Nat
    BY LenProperties
<1>1. CASE \E i \in 1..Len(s) : s[i] = c
    <2> DEFINE k == CHOOSE i \in 1..Len(s) : s[i] = c
               w == [j \in 1..(Len(s) - 1) |-> IF j < k THEN s[j] ELSE s[j + 1]]
    <2>1. k \in 1..Len(s) /\ s[k] = c
        BY <1>1
    <2>2. Without(s, c) = w
        BY <1>1 DEF Without
    <2> HIDE DEF k
    <2>3. Len(w) = Len(s) - 1
        <3>1. Len(s) - 1 \in Nat
            BY <1>0, <2>1
        <3>2. w \in Seq(Calls)
            BY <2>2, WithoutType
        <3> QED
            BY <3>1, <3>2, LenProperties
    <2>4. \A j \in 1..Len(w) :
            \E i \in 1..Len(s) : i # k /\ w[j] = s[i] /\ i = IF j < k THEN j ELSE j + 1
        <3> SUFFICES ASSUME NEW j \in 1..Len(w)
                     PROVE  \E i \in 1..Len(s) :
                                i # k /\ w[j] = s[i] /\ i = IF j < k THEN j ELSE j + 1
            OBVIOUS
        <3> DEFINE i == IF j < k THEN j ELSE j + 1
        <3>1. i \in 1..Len(s) /\ i # k
            BY <1>0, <2>1, <2>3
        <3>2. w[j] = s[i]
            BY <2>3
        <3> QED
            BY <3>1, <3>2
    <2>5. \A i \in 1..Len(s) : i # k => \E j \in 1..Len(w) : w[j] = s[i]
        <3> SUFFICES ASSUME NEW i \in 1..Len(s), i # k PROVE \E j \in 1..Len(w) : w[j] = s[i]
            OBVIOUS
        <3>1. CASE i < k
            BY <1>0, <2>1, <2>3, <3>1
        <3>2. CASE i > k
            <4>1. i - 1 \in 1..Len(w) /\ w[i - 1] = s[i]
                BY <1>0, <2>1, <2>3, <3>2
            <4> QED
                BY <4>1
        <3>3. i < k \/ i > k
            BY <2>1
        <3> QED
            BY <3>1, <3>2, <3>3, Zenon
    <2> HIDE DEF w
    <2>6. Distinct(w)
        <3> SUFFICES ASSUME NEW i \in 1..Len(w), NEW j \in 1..Len(w), w[i] = w[j] PROVE i = j
            BY DEF Distinct
        <3>1. PICK a \in 1..Len(s) : w[i] = s[a] /\ a = IF i < k THEN i ELSE i + 1
            BY <2>4
        <3>2. PICK b \in 1..Len(s) : w[j] = s[b] /\ b = IF j < k THEN j ELSE j + 1
            BY <2>4
        <3>3. a = b
            BY <3>1, <3>2 DEF Distinct
        <3> QED
            BY <1>0, <2>1, <2>3, <3>1, <3>2, <3>3
    <2>7. \A x : x \in Elements(w) => x \in Elements(s) \ {c}
        BY <2>1, <2>4 DEF Elements, Distinct
    <2>8. \A x : x \in Elements(s) \ {c} => x \in Elements(w)
        BY <2>1, <2>5 DEF Elements
    <2>9. Elements(w) = Elements(s) \ {c}
        BY <2>7, <2>8
    <2> QED
        BY <2>2, <2>6, <2>9
<1>2. CASE ~\E i \in 1..Len(s) : s[i] = c
    BY <1>2 DEF Without, Elements
<1> QED
    BY <1>1, <1>2

LEMMA TurnsMeaning ==
    /\ TurnsExact <=>
        /\ Distinct(turns)
        /\ \A c \in Calls : c # drain.cur => (queues[c] # <<>> <=> c \in Elements(turns))
        /\ drain.cur \notin Elements(turns)
        /\ drain.phase # "turn" => drain.cur = NoCall
    /\ TurnsExact' <=>
        /\ Distinct(turns')
        /\ \A c \in Calls : c # drain'.cur => (queues'[c] # <<>> <=> c \in Elements(turns'))
        /\ drain'.cur \notin Elements(turns')
        /\ drain'.phase # "turn" => drain'.cur = NoCall
BY DEF TurnsExact, InTurn, Distinct, Elements

LEMMA TurnsInit == Init => TurnsExact
<1> SUFFICES ASSUME Init PROVE TurnsExact
    OBVIOUS
<1>1. turns = <<>> /\ Len(turns) = 0
    BY EmptySeq DEF Init
<1>2. Elements(turns) = {} /\ Distinct(turns)
    BY <1>1 DEF Elements, Distinct
<1>3. \A c \in Calls : queues[c] = <<>>
    BY EmptyBoxType DEF Init
<1>4. drain.cur = NoCall
    BY DEF Init, Idle
<1> QED
    BY <1>2, <1>3, <1>4, TurnsMeaning

LEMMA TurnsEnqueue ==
    ASSUME TypeOK, TurnsExact, NEW c \in Calls, NEW f \in Frames,
           Quiet, Enqueue(c, f), UNCHANGED drain
    PROVE  TurnsExact'
<1>1. /\ queues \in [Calls -> Seq(Frames)] /\ turns \in Seq(Calls)
      /\ drain.cur = NoCall /\ NoCall \notin Calls
    BY QueueConstants DEF TypeOK, TurnsExact, Quiet, NoCall
<1>2. /\ queues'[c] # <<>>
      /\ \A d \in Calls : d # c => queues'[d] = queues[d]
    <2>1. queues'[c] = Append(queues[c], f) /\ \A d \in Calls : d # c => queues'[d] = queues[d]
        BY <1>1 DEF Enqueue
    <2>2. Append(queues[c], f) # <<>>
        BY <1>1, AppendProperties, EmptySeq
    <2> QED
        BY <2>1, <2>2
<1>3. CASE queues[c] = <<>>
    <2>1. turns' = Append(turns, c)
        BY <1>3 DEF Enqueue
    <2>2. c \notin Elements(turns) /\ Distinct(turns)
        BY <1>1, <1>3, TurnsMeaning
    <2>3. Distinct(turns') /\ Elements(turns') = Elements(turns) \cup {c}
        BY <1>1, <2>1, <2>2, AppendElements, Zenon
    <2> QED
        BY <1>1, <1>2, <2>3, TurnsMeaning
<1>4. CASE queues[c] # <<>>
    <2>1. turns' = turns
        BY <1>4 DEF Enqueue
    <2> QED
        BY <1>1, <1>2, <1>4, <2>1, TurnsMeaning
<1> QED
    BY <1>3, <1>4

LEMMA TurnsNext ==
    ASSUME TypeOK, TurnsExact, [Next]_vars
    PROVE  TurnsExact'
<1>0. /\ queues \in [Calls -> Seq(Frames)] /\ turns \in Seq(Calls)
      /\ NoCall \notin Calls
      /\ NoCall \notin Elements(turns)
    BY QueueConstants, ElementOfSeq DEF TypeOK, NoCall, Elements
<1>1. ASSUME NEW c \in Calls, NEW f \in Frames,
             PushRequest(c, f) \/ PushOrdinary(c, f) \/ PushLast(c, f)
      PROVE  TurnsExact'
    BY <1>1, TurnsEnqueue DEF PushRequest, PushOrdinary, PushLast
<1>2. ASSUME NEW c \in Calls, Drop(c)
      PROVE  TurnsExact'
    <2>1. queues' = [d \in Calls |-> IF d = c THEN <<>> ELSE queues[d]]
        BY <1>2, DiscardFields, Zenon DEF Drop
    <2>2. queues'[c] = <<>> /\ \A d \in Calls : d # c => queues'[d] = queues[d]
        BY <2>1
    <2>3. drain.cur = NoCall /\ drain' = drain /\ turns' = Without(turns, c)
        BY <1>2 DEF Drop, Quiet, TurnsExact
    <2>4. Distinct(turns') /\ Elements(turns') = Elements(turns) \ {c}
        BY <1>0, <2>3, WithoutElements, TurnsMeaning
    <2> QED
        BY <1>0, <2>2, <2>3, <2>4, TurnsMeaning
<1>3. CASE DropAll
    <2>1. turns' = <<>> /\ Len(turns') = 0
        BY <1>3, EmptySeq DEF DropAll
    <2>2. Elements(turns') = {} /\ Distinct(turns')
        BY <2>1 DEF Elements, Distinct
    <2>3. \A c \in Calls : queues'[c] = <<>>
        BY <1>3, EmptyBoxType DEF DropAll
    <2>4. drain' = drain /\ drain.cur = NoCall
        BY <1>3 DEF DropAll, Quiet, TurnsExact
    <2> QED
        BY <1>0, <2>2, <2>3, <2>4, TurnsMeaning
<1>4. CASE NextTurn
    <2>1. turns' = Tail(turns) /\ turns # <<>> /\ queues' = queues
        BY <1>4 DEF NextTurn
    <2>2. drain'.phase = "turn" /\ drain'.cur = Head(turns) /\ drain.cur = NoCall
        BY <1>4 DEF NextTurn, TypeOK, Drains, TurnsExact
    <2>3. /\ Distinct(turns')
          /\ Elements(turns') = Elements(turns) \ {Head(turns)}
        BY <1>0, <2>1, TailElements, TurnsMeaning
    <2> QED
        BY <1>0, <2>1, <2>2, <2>3, TurnsMeaning
<1>5. CASE FrameTaken
    <2> DEFINE c == drain.cur
    <2>1. c \in Calls
        BY <1>5 DEF TypeOK, FrameTaken, TurnGoesOn
    <2>2. queues' = [queues EXCEPT ![c] = Tail(@)]
        BY <1>5, PopFrameFields, Zenon DEF FrameTaken
    <2>3. \A d \in Calls : d # c => queues'[d] = queues[d]
        BY <1>0, <2>2
    <2>4. turns' = turns /\ drain'.cur = c /\ drain'.phase = drain.phase
        BY <1>5 DEF FrameTaken, TypeOK, Drains
    <2> QED
        BY <2>3, <2>4, TurnsMeaning
<1>6. CASE FrameRefused \/ (TurnOver /\ queues[drain.cur] # <<>>)
    <2> DEFINE c == drain.cur
    <2>1. /\ c \in Calls /\ queues[c] # <<>>
          /\ turns' = Append(turns, c) /\ queues' = queues
          /\ drain'.cur = NoCall
        BY <1>6 DEF TypeOK, Drains, FrameRefused, TurnOver, TurnGoesOn
    <2>2. Distinct(turns') /\ Elements(turns') = Elements(turns) \cup {c}
        BY <1>0, <2>1, AppendElements, TurnsMeaning
    <2> QED
        BY <1>0, <2>1, <2>2, TurnsMeaning
<1>7. CASE TurnOver /\ queues[drain.cur] = <<>>
    <2>1. /\ drain.cur \in Calls /\ turns' = turns /\ queues' = queues
          /\ drain'.cur = NoCall
        BY <1>7 DEF TypeOK, Drains, TurnOver
    <2> QED
        BY <1>0, <1>7, <2>1, TurnsMeaning
<1>8. CASE StartDrain \/ CreditTaken \/ CreditRefused \/ CreditsDone \/ FramesDone
    <2>1. queues' = queues /\ turns' = turns
        BY <1>8 DEF StartDrain, CreditTaken, CreditRefused, CreditsDone, FramesDone
    <2>2. drain.phase # "turn" /\ drain.cur = NoCall
        BY <1>8
           DEF StartDrain, Quiet, CreditTaken, CreditRefused, CreditsDone, FramesDone, TurnsExact
    <2>3. drain'.cur = NoCall
        <3>1. CASE StartDrain
            BY <3>1 DEF StartDrain, Idle
        <3>2. CASE CreditTaken
            BY <2>2, <3>2 DEF CreditTaken, TypeOK, Drains
        <3>3. CASE CreditRefused
            BY <3>3 DEF CreditRefused, Idle
        <3>4. CASE CreditsDone
            BY <2>2, <3>4 DEF CreditsDone, Idle, TypeOK, Drains
        <3>5. CASE FramesDone
            BY <3>5 DEF FramesDone, TypeOK, Drains
        <3> QED
            BY <1>8, <3>1, <3>2, <3>3, <3>4, <3>5
    <2> QED
        BY <2>1, <2>2, <2>3, TurnsMeaning
<1>10. CASE UNCHANGED vars
    BY <1>10 DEF vars, TurnsExact, InTurn
<1>9. ASSUME NEW c \in Calls, NEW items \in Grants, Allow(c, items)
      PROVE  TurnsExact'
    BY <1>9 DEF Allow, TurnsExact, InTurn
<1> QED
    BY <1>1, <1>2, <1>3, <1>4, <1>5, <1>6, <1>7, <1>8, <1>9, <1>10 DEF Next, DrainStep

-----------------------------------------------------------------------------
\* The allowances a Drain has still to hand over.

LEMMA TodoInit == Init => TodoReady
BY DEF Init, TodoReady, Idle

LEMMA TodoNext ==
    ASSUME TypeOK, TodoReady, [Next]_vars
    PROVE  TodoReady'
<1>1. CASE drain' = drain /\ Quiet
    BY <1>1 DEF TodoReady, Quiet
<1>2. CASE drain' = Idle
    BY <1>2 DEF TodoReady, Idle
<1>3. CASE StartDrain \/ FramesDone \/ FrameRefused
    <2>1. box' = box
        BY <1>3 DEF StartDrain, FramesDone, FrameRefused, box
    <2>2. drain'.todo = ReadyCredits(box) /\ drain'.phase \in {"credits", "late"}
        BY <1>3 DEF StartDrain, FramesDone, FrameRefused, Idle, TypeOK, Drains
    <2>3. ReadyCredits(box') = ReadyCredits(box)
        BY <2>1, Zenon
    <2> QED
        BY <2>2, <2>3 DEF TodoReady
<1>4. CASE CreditTaken
    <2>1. PICK c \in drain.todo :
            /\ credits' = PopCredit(box, c).credits
            /\ drain' = [drain EXCEPT !.todo = @ \ {c}, !.budget = @ - 1]
        BY <1>4 DEF CreditTaken
    <2>2. credits' = [credits EXCEPT ![c] = NoCredit] /\ queues' = queues
        BY <1>4, <2>1, PopCreditFields, Zenon DEF CreditTaken
    <2>3. \A d : OpensWithRequest(box', d) <=> OpensWithRequest(box, d)
        BY <2>2 DEF OpensWithRequest, box
    <2>4. \A d \in Calls : d # c => credits'[d] = credits[d]
        BY <2>2 DEF TypeOK
    <2>5. \A d \in ReadyCredits(box) : d # c => d \in ReadyCredits(box')
        BY <2>3, <2>4 DEF ReadyCredits, box
    <2>6. drain'.todo = drain.todo \ {c} /\ drain'.phase \in {"credits", "late"}
        BY <1>4, <2>1 DEF CreditTaken, TypeOK, Drains
    <2> QED
        BY <2>5, <2>6 DEF TodoReady
<1>5. CASE drain.phase = "credits" /\ CreditsDone
    <2>1. drain'.todo = {}
        BY <1>5 DEF CreditsDone, TypeOK, Drains
    <2> QED
        BY <2>1 DEF TodoReady
<1>6. CASE NextTurn \/ FrameTaken \/ TurnOver
    <2>1. drain.todo = {} /\ drain'.todo = drain.todo
        BY <1>6 DEF NextTurn, FrameTaken, TurnGoesOn, TurnOver, TodoReady, TypeOK, Drains
    <2> QED
        BY <2>1 DEF TodoReady
<1>7. CASE UNCHANGED vars
    <2>1. box' = box /\ drain' = drain
        BY <1>7 DEF vars, box
    <2>2. ReadyCredits(box') = ReadyCredits(box)
        BY <2>1, Zenon
    <2> QED
        BY <2>1, <2>2 DEF TodoReady
<1>8. CASE CreditRefused \/ (CreditsDone /\ drain.phase # "credits")
    BY <1>2, <1>8 DEF CreditRefused, CreditsDone
<1>9. CASE \/ DropAll
           \/ \E c \in Calls :
                \/ \E f \in Frames : PushRequest(c, f) \/ PushOrdinary(c, f) \/ PushLast(c, f)
                \/ \E items \in Grants : Allow(c, items)
                \/ Drop(c)
    BY <1>1, <1>9 DEF DropAll, PushRequest, PushOrdinary, PushLast, Allow, Drop
<1> QED
    BY <1>3, <1>4, <1>5, <1>6, <1>7, <1>8, <1>9 DEF Next, DrainStep

-----------------------------------------------------------------------------
\* The REQUEST of a pending call is first in its queue, or has left.

LEMMA RequestInit == Init => RequestFirst
<1> SUFFICES ASSUME Init PROVE RequestFirst
    OBVIOUS
<1>1. \A c \in Own : queues[c] = <<>> /\ credits[c] = NoCredit /\ stage[c] = "new"
    BY EmptyBoxType, OutboxConstants DEF Init
<1> QED
    BY <1>1 DEF RequestFirst

\* What RequestFirst says of one call depends on that call's entries alone.
RequestFirstOf(c) ==
    /\ stage[c] = "new" => queues[c] = <<>>
    /\ stage[c] = "live" => c \in opened \/ OpensWithRequest(box, c)
    /\ credits[c] # NoCredit => stage[c] = "live"

LEMMA RequestSame ==
    ASSUME NEW c \in Own, RequestFirstOf(c), opened \subseteq opened',
           queues'[c] = queues[c], credits'[c] = credits[c], stage'[c] = stage[c]
    PROVE  RequestFirstOf(c)'
BY DEF RequestFirstOf, OpensWithRequest, box

\* A frame behind others does not change what heads the queue.
LEMMA AppendHead ==
    ASSUME NEW s \in Seq(Frames), NEW f \in Frames
    PROVE  /\ Append(s, f) # <<>>
           /\ Head(Append(s, f)) = IF s = <<>> THEN f ELSE Head(s)
BY AppendProperties, HeadTailProperties, EmptySeq

LEMMA RequestEnqueue ==
    ASSUME TypeOK, NEW c \in Own, NEW f \in Frames, Enqueue(c, f)
    PROVE  /\ OpensWithRequest(box, c) => OpensWithRequest(box', c)
           /\ queues[c] = <<>> /\ f.kind = "REQUEST" => OpensWithRequest(box', c)
<1>1. c \in Calls /\ queues[c] \in Seq(Frames) /\ queues'[c] = Append(queues[c], f)
    BY OutboxConstants DEF TypeOK, Enqueue
<1>2. /\ queues'[c] # <<>>
      /\ Head(queues'[c]) = IF queues[c] = <<>> THEN f ELSE Head(queues[c])
    BY <1>1, AppendHead
<1> QED
    BY <1>2 DEF OpensWithRequest, box

LEMMA RequestNext ==
    ASSUME TypeOK, RequestFirst, [Next]_vars
    PROVE  RequestFirst'
<1> SUFFICES ASSUME NEW d \in Own PROVE RequestFirstOf(d)'
    BY DEF RequestFirst, RequestFirstOf
<1> USE OutboxConstants
<1>0. /\ RequestFirstOf(d) /\ d \in Calls
      /\ queues \in [Calls -> Seq(Frames)] /\ credits \in [Calls -> Credits]
      /\ stage \in [Own -> Abstract!Stages]
    BY DEF RequestFirst, RequestFirstOf, TypeOK
<1>1. ASSUME NEW c \in Calls, NEW f \in Frames,
             PushRequest(c, f) \/ PushOrdinary(c, f) \/ PushLast(c, f)
      PROVE  RequestFirstOf(d)'
    <2>1. Enqueue(c, f) /\ credits' = credits /\ opened' = opened
        BY <1>1 DEF PushRequest, PushOrdinary, PushLast
    <2>2. CASE d # c
        <3>1. queues'[d] = queues[d] /\ stage'[d] = stage[d]
            BY <1>0, <1>1, <2>2 DEF Enqueue, PushRequest, PushOrdinary, PushLast
        <3> QED
            BY <1>0, <2>1, <3>1, RequestSame
    <2>3. CASE d = c /\ PushRequest(c, f)
        <3>1. stage[d] = "new" /\ stage'[d] = "live" /\ f.kind = "REQUEST"
            BY <1>0, <2>3 DEF PushRequest
        <3>2. OpensWithRequest(box', d)
            BY <1>0, <2>1, <2>3, <3>1, RequestEnqueue DEF RequestFirstOf
        <3> QED
            BY <3>1, <3>2 DEF RequestFirstOf
    <2>4. CASE d = c /\ (PushOrdinary(c, f) \/ PushLast(c, f))
        <3>1. stage' = stage /\ stage[d] # "new"
            BY <2>4 DEF PushOrdinary, PushLast, Abstract!Live
        <3>2. OpensWithRequest(box, d) => OpensWithRequest(box', d)
            BY <2>1, <2>4, RequestEnqueue
        <3> QED
            BY <1>0, <2>1, <3>1, <3>2 DEF RequestFirstOf
    <2> QED
        BY <1>1, <2>2, <2>3, <2>4
<1>2. ASSUME NEW c \in Calls, NEW items \in Grants, Allow(c, items)
      PROVE  RequestFirstOf(d)'
    <2>1. credits' = [credits EXCEPT ![c] =
                        SaturatingAdd(IF @ = NoCredit THEN 0 ELSE @, items)]
        BY <1>2, GrantToFields, Zenon DEF Allow
    <2>2. queues' = queues /\ stage' = stage /\ opened' = opened
        BY <1>2 DEF Allow
    <2>3. CASE d # c
        <3>1. credits'[d] = credits[d]
            BY <1>0, <2>1, <2>3
        <3> QED
            BY <1>0, <2>2, <3>1, RequestSame
    <2>4. CASE d = c
        <3>1. stage[d] = "live"
            BY <1>2, <2>4 DEF Allow, Abstract!Live
        <3> QED
            BY <1>0, <2>2, <3>1 DEF RequestFirstOf, OpensWithRequest, box
    <2> QED
        BY <2>3, <2>4
<1>3. ASSUME NEW c \in Calls, Drop(c)
      PROVE  RequestFirstOf(d)'
    <2>1. /\ queues' = [e \in Calls |-> IF e = c THEN <<>> ELSE queues[e]]
          /\ credits' = [e \in Calls |-> IF e = c THEN NoCredit ELSE credits[e]]
        BY <1>3, DiscardFields, Zenon DEF Drop
    <2>2. /\ stage'[d] = IF d = c THEN "done" ELSE stage[d]
          /\ opened' = opened
        BY <1>3 DEF Drop
    <2>3. CASE d # c
        BY <1>0, <2>1, <2>2, <2>3, RequestSame
    <2>4. CASE d = c
        BY <1>0, <2>1, <2>2, <2>4 DEF RequestFirstOf
    <2> QED
        BY <2>3, <2>4
<1>4. CASE DropAll
    <2>1. stage'[d] = "done" /\ credits'[d] = NoCredit
        BY <1>0, <1>4, EmptyBoxType DEF DropAll
    <2> QED
        BY <2>1 DEF RequestFirstOf
<1>5. CASE CreditTaken
    <2>1. PICK c \in drain.todo : credits' = PopCredit(box, c).credits
        BY <1>5 DEF CreditTaken
    <2>2. credits' = [credits EXCEPT ![c] = NoCredit]
        BY <2>1, PopCreditFields, Zenon
    <2>3. credits'[d] = credits[d] \/ credits'[d] = NoCredit
        BY <1>0, <2>2
    <2>4. queues' = queues /\ stage' = stage /\ opened' = opened
        BY <1>5 DEF CreditTaken
    <2> QED
        BY <1>0, <2>3, <2>4 DEF RequestFirstOf, OpensWithRequest, box
<1>6. CASE FrameTaken
    <2> DEFINE c == drain.cur
    <2>1. queues' = [queues EXCEPT ![c] = Tail(@)]
        BY <1>6, PopFrameFields, Zenon DEF FrameTaken
    <2>2. /\ credits' = credits /\ stage' = stage
          /\ opened' = IF OpensWithRequest(box, c) THEN opened \cup {c} ELSE opened
        BY <1>6 DEF FrameTaken
    <2>3. queues[c] # <<>>
        BY <1>6 DEF FrameTaken, TurnGoesOn
    <2>4. CASE d # c
        <3>1. queues'[d] = queues[d] /\ opened \subseteq opened'
            BY <1>0, <2>1, <2>2, <2>4
        <3> QED
            BY <1>0, <2>2, <3>1, RequestSame
    <2>5. CASE d = c
        BY <1>0, <2>2, <2>3, <2>5 DEF RequestFirstOf
    <2> QED
        BY <2>4, <2>5
<1>7. CASE \/ StartDrain \/ CreditRefused \/ CreditsDone \/ NextTurn \/ FramesDone
           \/ FrameRefused \/ TurnOver \/ UNCHANGED vars
    <2>1. queues' = queues /\ credits' = credits /\ stage' = stage /\ opened' = opened
        BY <1>7 DEF StartDrain, CreditRefused, CreditsDone, NextTurn, FramesDone,
                    FrameRefused, TurnOver, vars
    <2> QED
        BY <1>0, <2>1, RequestSame
<1> QED
    BY <1>1, <1>2, <1>3, <1>4, <1>5, <1>6, <1>7 DEF Next, DrainStep

-----------------------------------------------------------------------------
\* The inductive invariant and what follows from it.

IInv ==
    /\ TypeOK
    /\ TotalExact
    /\ TurnsExact
    /\ TodoReady
    /\ RequestFirst
    /\ CreditAfterRequest

LEMMA CreditNext ==
    ASSUME IInv, [Next]_vars
    PROVE  CreditAfterRequest'
<1>1. CASE CreditTaken
    <2>1. PICK c \in drain.todo : out' = [what |-> "credit", call |-> c]
        BY <1>1 DEF CreditTaken
    <2>2. opened' = opened
        BY <1>1 DEF CreditTaken
    <2>3. c \in ReadyCredits(box)
        BY DEF IInv, TodoReady
    <2>4. c \in Own => c \in opened
        BY <2>3 DEF IInv, RequestFirst, ReadyCredits, box
    <2> QED
        BY <2>1, <2>2, <2>4 DEF CreditAfterRequest
<1>2. CASE UNCHANGED vars
    BY <1>2 DEF vars, IInv, CreditAfterRequest
<1>3. CASE Next /\ ~CreditTaken
    <2>1. out' = Abstract!Nothing \/ FrameTaken
        BY <1>3, Zenon
           DEF Next, DrainStep, PushRequest, PushOrdinary, PushLast, Allow, Drop, DropAll,
               StartDrain, CreditRefused, CreditsDone, NextTurn, FramesDone, FrameRefused,
               TurnOver
    <2>2. FrameTaken => out' = [what |-> "frame", call |-> drain.cur]
        BY Zenon DEF FrameTaken
    <2>3. out'.what # "credit"
        BY <2>1, <2>2 DEF Abstract!Nothing
    <2> QED
        BY <2>3 DEF CreditAfterRequest
<1> QED
    BY <1>1, <1>2, <1>3

LEMMA InvInit == Init => IInv
<1> SUFFICES ASSUME Init PROVE IInv
    OBVIOUS
<1>1. CreditAfterRequest
    BY DEF Init, CreditAfterRequest, Abstract!Nothing
<1> QED
    BY <1>1, TypeInit, TotalInit, TurnsInit, TodoInit, RequestInit DEF IInv

LEMMA InvNext == IInv /\ [Next]_vars => IInv'
<1> SUFFICES ASSUME IInv, [Next]_vars PROVE IInv'
    OBVIOUS
<1>1. TypeOK /\ TotalExact /\ TurnsExact /\ TodoReady /\ RequestFirst
    BY DEF IInv
<1>2. TotalExact'
    BY <1>1, TotalNext
<1>3. TypeOK'
    BY <1>1, <1>2, TypeNext
<1>4. TurnsExact' /\ TodoReady' /\ RequestFirst'
    BY <1>1, TurnsNext, TodoNext, RequestNext
<1>5. CreditAfterRequest'
    BY CreditNext
<1> QED
    BY <1>2, <1>3, <1>4, <1>5 DEF IInv

THEOREM Invariance == Spec => []IInv
BY InvInit, InvNext, PTL DEF Spec

(* Every variable keeps its type, for every set of calls and every sink.   *)
THEOREM TypeCorrect == Spec => []TypeOK
<1>1. IInv => TypeOK
    BY DEF IInv
<1> QED
    BY <1>1, Invariance, PTL

(* Outbox.total is always the number of queued frames.                     *)
THEOREM TotalCorrect == Spec => []TotalExact
<1>1. IInv => TotalExact
    BY DEF IInv
<1> QED
    BY <1>1, Invariance, PTL

(* Outbox.turns names every waiting call once, and nobody else.            *)
THEOREM TurnsCorrect == Spec => []TurnsExact
<1>1. IInv => TurnsExact
    BY DEF IInv
<1> QED
    BY <1>1, Invariance, PTL

(* No CREDIT of an own call is handed to the sink before its REQUEST.      *)
THEOREM CreditOrder == Spec => []CreditAfterRequest
<1>1. IInv => CreditAfterRequest
    BY DEF IInv
<1> QED
    BY <1>1, Invariance, PTL

-----------------------------------------------------------------------------
\* Nobody is overtaken.

NoWorse(s, t) == \A i \in 1..Len(s) : \A j \in 1..Len(t) : t[j] = s[i] => j <= i

LEMMA NoWorseAppend ==
    ASSUME NEW s \in Seq(Calls), NEW c \in Calls, c \notin Elements(s), Distinct(s)
    PROVE  NoWorse(s, Append(s, c))
<1> DEFINE t == Append(s, c)
<1>1. /\ Len(s) \in Nat /\ Len(t) = Len(s) + 1
      /\ t[Len(s) + 1] = c /\ \A i \in 1..Len(s) : t[i] = s[i]
    BY AppendProperties, LenProperties
<1> HIDE DEF t
<1>2. \A i \in 1..Len(t) : i \in 1..Len(s) \/ i = Len(s) + 1
    BY <1>1
<1>3. \A i \in 1..Len(s) : s[i] # c
    BY DEF Elements
<1>4. NoWorse(s, t)
    BY <1>1, <1>2, <1>3 DEF NoWorse, Distinct
<1> QED
    BY <1>4 DEF t

LEMMA NoWorseTail ==
    ASSUME NEW s \in Seq(Calls), s # <<>>, Distinct(s)
    PROVE  NoWorse(s, Tail(s))
<1> DEFINE t == Tail(s)
<1>1. /\ Len(s) \in Nat \ {0} /\ Len(t) = Len(s) - 1
      /\ \A i \in 1..Len(t) : t[i] = s[i + 1]
    BY HeadTailProperties, LenProperties, EmptySeq
<1> HIDE DEF t
<1>2. ASSUME NEW i \in 1..Len(s), NEW j \in 1..Len(t), t[j] = s[i]
      PROVE  j <= i
    <2>1. j + 1 \in 1..Len(s) /\ s[j + 1] = s[i]
        BY <1>1, <1>2
    <2>2. j + 1 = i
        BY <2>1 DEF Distinct
    <2> QED
        BY <1>1, <2>2
<1>3. NoWorse(s, t)
    BY <1>2 DEF NoWorse
<1> QED
    BY <1>3 DEF t

LEMMA NoWorseWithout ==
    ASSUME NEW s \in Seq(Calls), NEW c, Distinct(s)
    PROVE  NoWorse(s, Without(s, c))
<1>0. Len(s) \in Nat
    BY LenProperties
<1>1. CASE \E i \in 1..Len(s) : s[i] = c
    <2> DEFINE k == CHOOSE i \in 1..Len(s) : s[i] = c
               w == [j \in 1..(Len(s) - 1) |-> IF j < k THEN s[j] ELSE s[j + 1]]
    <2>1. k \in 1..Len(s)
        BY <1>1
    <2>2. Without(s, c) = w
        BY <1>1 DEF Without
    <2> HIDE DEF k
    <2>3. Len(w) = Len(s) - 1
        <3>1. Len(s) - 1 \in Nat
            BY <1>0, <2>1
        <3>2. w \in Seq(Calls)
            BY <2>2, WithoutType
        <3> QED
            BY <3>1, <3>2, LenProperties
    <2>4. ASSUME NEW i \in 1..Len(s), NEW j \in 1..Len(w), w[j] = s[i]
          PROVE  j <= i
        <3> DEFINE a == IF j < k THEN j ELSE j + 1
        <3>1. a \in 1..Len(s) /\ j <= a
            BY <1>0, <2>1, <2>3
        <3>2. w[j] = s[a]
            BY <2>3
        <3>3. a = i
            BY <2>4, <3>1, <3>2 DEF Distinct
        <3> QED
            BY <3>1, <3>3
    <2> QED
        BY <2>2, <2>4, Zenon DEF NoWorse
<1>2. CASE ~\E i \in 1..Len(s) : s[i] = c
    BY <1>2 DEF Without, NoWorse, Distinct
<1> QED
    BY <1>1, <1>2

LEMMA NoWorseNext ==
    ASSUME IInv, [Next]_vars
    PROVE  NoWorse(turns, turns')
<1>0. /\ turns \in Seq(Calls) /\ Distinct(turns) /\ NoCall \notin Calls
      /\ \A c \in Calls : c # drain.cur => (queues[c] # <<>> <=> c \in Elements(turns))
      /\ drain.cur \notin Elements(turns)
      /\ drain.phase # "turn" => drain.cur = NoCall
      /\ drain.phase = "turn" => drain.cur \in Calls
    BY TurnsMeaning, QueueConstants DEF IInv, TypeOK, NoCall
<1>1. CASE turns' = turns
    <2>1. Len(turns) \in Nat
        BY <1>0, LenProperties
    <2> QED
        BY <1>0, <1>1, <2>1 DEF NoWorse, Distinct
<1>2. ASSUME NEW c \in Calls, c \notin Elements(turns), turns' = Append(turns, c)
      PROVE  NoWorse(turns, turns')
    BY <1>0, <1>2, NoWorseAppend
<1>3. ASSUME NEW c \in Calls, NEW f \in Frames,
             PushRequest(c, f) \/ PushOrdinary(c, f) \/ PushLast(c, f)
      PROVE  NoWorse(turns, turns')
    <2>1. Enqueue(c, f) /\ drain.cur = NoCall
        BY <1>0, <1>3 DEF PushRequest, PushOrdinary, PushLast, Quiet
    <2>2. turns' = turns \/ (queues[c] = <<>> /\ turns' = Append(turns, c))
        BY <2>1 DEF Enqueue
    <2> QED
        BY <1>0, <1>1, <1>2, <2>1, <2>2
<1>4. CASE \E c \in Calls : Drop(c)
    BY <1>0, <1>4, NoWorseWithout DEF Drop
<1>5. CASE DropAll
    BY <1>5, EmptySeq DEF DropAll, NoWorse
<1>6. CASE NextTurn
    BY <1>0, <1>6, NoWorseTail DEF NextTurn
<1>7. CASE FrameRefused \/ TurnOver
    <2>1. /\ drain.cur \in Calls
          /\ turns' = turns \/ turns' = Append(turns, drain.cur)
        BY <1>0, <1>7 DEF FrameRefused, TurnOver, TurnGoesOn
    <2> QED
        BY <1>0, <1>1, <1>2, <2>1
<1>8. CASE \/ \E c \in Calls : \E items \in Grants : Allow(c, items)
           \/ StartDrain \/ CreditTaken \/ CreditRefused \/ CreditsDone \/ FramesDone
           \/ FrameTaken \/ UNCHANGED vars
    <2>1. turns' = turns
        BY <1>8 DEF Allow, StartDrain, CreditTaken, CreditRefused, CreditsDone, FramesDone,
                    FrameTaken, vars
    <2> QED
        BY <1>1, <2>1
<1> QED
    BY <1>3, <1>4, <1>5, <1>6, <1>7, <1>8 DEF Next, DrainStep

(* No step moves a waiting call further from its turn.                     *)
THEOREM FairTurns == Spec => NeverOvertaken
<1>1. IInv /\ [Next]_vars =>
        [\A i \in 1..Len(turns) :
            \A j \in 1..Len(turns') : turns'[j] = turns[i] => j <= i]_vars
    BY NoWorseNext DEF NoWorse
<1> QED
    BY <1>1, Invariance, PTL DEF Spec, NeverOvertaken

-----------------------------------------------------------------------------
\* The scheduler of outbox.go implements SendQueue, the queue that Core
\* composes with.  The mapping keeps the queues, the allowances and the history,
\* and forgets the turns, the running total and where Drain is.

\* SendQueue reaches CallQueues through its own instance: the operators are
\* the same ones.
LEMMA SameQueues ==
    /\ Abstract!EmptyBox = EmptyBox
    /\ \A b : Abstract!ReadyCredits(b) = ReadyCredits(b)
    /\ \A b, c : /\ Abstract!HasRoom(b, c) <=> HasRoom(b, c)
                 /\ Abstract!OpensWithRequest(b, c) <=> OpensWithRequest(b, c)
                 /\ Abstract!PopFrame(b, c) = PopFrame(b, c)
                 /\ Abstract!PopCredit(b, c) = PopCredit(b, c)
                 /\ Abstract!Discard(b, {c}) = Discard(b, {c})
    /\ \A b, c, f : Abstract!PushTerminal(b, c, f) = PushTerminal(b, c, f)
    /\ \A b, c, n : Abstract!GrantTo(b, c, n) = GrantTo(b, c, n)
<1>1. Abstract!NoCredit = NoCredit
    BY DEF Abstract!NoCredit, NoCredit
<1>2. \A l, r : Abstract!SaturatingAdd(l, r) = SaturatingAdd(l, r)
    BY Zenon DEF Abstract!SaturatingAdd, SaturatingAdd
<1>3. \A b, c : Abstract!OpensWithRequest(b, c) <=> OpensWithRequest(b, c)
    BY Zenon DEF Abstract!OpensWithRequest, OpensWithRequest
<1>4. \A b, c : Abstract!HasRoom(b, c) <=> HasRoom(b, c)
    <2>1. \A q : Abstract!Slots(q) = Slots(q)
        BY DEF Abstract!Slots, Slots
    <2>2. \A b : Abstract!Load(b) = Load(b)
        <3> TAKE b
        <3>1. Abstract!Slots(b.queues) = Slots(b.queues)
            BY <2>1, Zenon
        <3> QED
            BY <3>1, Zenon DEF Abstract!Load, Load, Abstract!Cardinality, Cardinality
    <2>3. \A b, c : Abstract!FullFor(b, c) <=> FullFor(b, c)
        BY Zenon DEF Abstract!FullFor, FullFor
    <2> QED
        BY <2>2, <2>3 DEF Abstract!HasRoom, HasRoom
<1>5. Abstract!EmptyBox = EmptyBox
    BY <1>1, Zenon DEF Abstract!EmptyBox, EmptyBox
<1>6. \A b : Abstract!ReadyCredits(b) = ReadyCredits(b)
    BY <1>1, <1>3 DEF Abstract!ReadyCredits, ReadyCredits
<1>7. \A b, c : /\ Abstract!PopFrame(b, c) = PopFrame(b, c)
                /\ Abstract!PopCredit(b, c) = PopCredit(b, c)
                /\ Abstract!Discard(b, {c}) = Discard(b, {c})
    BY <1>1, Zenon DEF Abstract!PopFrame, PopFrame, Abstract!PopCredit, PopCredit,
                       Abstract!Discard, Discard
<1>8. \A b, c, f : Abstract!PushTerminal(b, c, f) = PushTerminal(b, c, f)
    BY Zenon DEF Abstract!PushTerminal, PushTerminal
<1>9. \A b, c, n : Abstract!GrantTo(b, c, n) = GrantTo(b, c, n)
    BY <1>1, <1>2, Zenon DEF Abstract!GrantTo, GrantTo
<1> QED
    BY <1>3, <1>4, <1>5, <1>6, <1>7, <1>8, <1>9

LEMMA MapInit == Init => Abstract!Init
<1> SUFFICES ASSUME Init PROVE Abstract!Init
    OBVIOUS
<1>1. box = EmptyBox
    BY DEF Init, box, EmptyBox
<1> QED
    BY <1>1, SameQueues, Zenon DEF Init, Abstract!Init

\* The running total stands for the load of the box, so both make the same
\* test for room.
LEMMA MapRoom ==
    ASSUME IInv, NEW c
    PROVE  Room(c) => HasRoom(box, c)
<1>1. Load(box) = Cardinality(Slots(queues))
    BY DEF Load, box
<1> QED
    BY <1>1 DEF IInv, TotalExact, Room, HasRoom

LEMMA MapEnqueue ==
    ASSUME NEW c, NEW f, Enqueue(c, f), credits' = credits
    PROVE  box' = PushTerminal(box, c, f)
<1>1. queues' = [queues EXCEPT ![c] = Append(@, f)]
    BY DEF Enqueue
<1>2. box' = [queues |-> queues', credits |-> credits']
    BY DEF box
<1> QED
    BY <1>1, <1>2, PushTerminalFields, Zenon

\* A step of the core, or a frame or an allowance handed over, is the same
\* step of the abstract queue; every other step of Drain hands nothing over.
LEMMA MapNext == IInv /\ [Next]_vars => [Abstract!Next]_Abstract!qvars
<1> SUFFICES ASSUME IInv, [Next]_vars PROVE [Abstract!Next]_Abstract!qvars
    OBVIOUS
<1>0. box' = [queues |-> queues', credits |-> credits']
    BY DEF box
<1>1. ASSUME NEW c \in Calls, NEW f \in Frames, PushRequest(c, f)
      PROVE  Abstract!PushRequest(c, f)
    <2>1. box' = PushTerminal(box, c, f)
        BY <1>1, MapEnqueue DEF PushRequest
    <2>2. HasRoom(box, c)
        BY <1>1, MapRoom DEF PushRequest
    <2> QED
        BY <1>1, <2>1, <2>2, SameQueues, Zenon DEF PushRequest, Abstract!PushRequest
<1>2. ASSUME NEW c \in Calls, NEW f \in Frames, PushOrdinary(c, f)
      PROVE  Abstract!PushOrdinary(c, f)
    <2>1. box' = PushTerminal(box, c, f)
        BY <1>2, MapEnqueue DEF PushOrdinary
    <2>2. HasRoom(box, c)
        BY <1>2, MapRoom DEF PushOrdinary
    <2> QED
        BY <1>2, <2>1, <2>2, SameQueues, Zenon DEF PushOrdinary, Abstract!PushOrdinary
<1>3. ASSUME NEW c \in Calls, NEW f \in Frames, PushLast(c, f)
      PROVE  Abstract!PushLast(c, f)
    <2>1. box' = PushTerminal(box, c, f)
        BY <1>3, MapEnqueue DEF PushLast
    <2> QED
        BY <1>3, <2>1, SameQueues, Zenon DEF PushLast, Abstract!PushLast
<1>4. ASSUME NEW c \in Calls, NEW items \in Grants, Allow(c, items)
      PROVE  Abstract!Allow(c, items)
    <2>1. box' = GrantTo(box, c, items)
        BY <1>0, <1>4, GrantToFields, SameQueues, Zenon DEF Allow
    <2> QED
        BY <1>4, <2>1, SameQueues, Zenon DEF Allow, Abstract!Allow
<1>5. ASSUME NEW c \in Calls, Drop(c)
      PROVE  Abstract!Drop(c)
    <2>1. box' = Discard(box, {c})
        BY <1>0, <1>5, DiscardFields, SameQueues, Zenon DEF Drop
    <2> QED
        BY <1>5, <2>1, SameQueues, Zenon DEF Drop, Abstract!Drop
<1>6. CASE DropAll
    <2>1. box' = EmptyBox
        BY <1>0, <1>6 DEF DropAll, EmptyBox
    <2>2. Abstract!DropAll
        BY <1>6, <2>1, SameQueues, Zenon DEF DropAll, Abstract!DropAll
    <2> QED
        BY <2>2, Zenon DEF Abstract!Next
<1>7. CASE CreditTaken
    <2>1. PICK c \in drain.todo :
            /\ credits' = PopCredit(box, c).credits
            /\ out' = [what |-> "credit", call |-> c]
        BY <1>7 DEF CreditTaken
    <2>2. c \in ReadyCredits(box) /\ c \in Calls
        BY DEF IInv, TodoReady, ReadyCredits
    <2>3. queues' = queues /\ stage' = stage /\ opened' = opened
        BY <1>7 DEF CreditTaken
    <2>4. box' = PopCredit(box, c)
        BY <1>0, <2>1, <2>3, PopCreditFields, Zenon
    <2>5. Abstract!CreditLeaves(c)
        BY <2>1, <2>2, <2>3, <2>4, SameQueues, Zenon DEF Abstract!CreditLeaves
    <2> QED
        BY <2>2, <2>5, Zenon DEF Abstract!Next
<1>8. CASE FrameTaken
    <2> DEFINE c == drain.cur
    <2>1. c \in Calls /\ box.queues[c] # <<>>
        BY <1>8 DEF IInv, TypeOK, FrameTaken, TurnGoesOn, box
    <2>2. /\ queues' = PopFrame(box, c).queues
          /\ opened' = IF OpensWithRequest(box, c) THEN opened \cup {c} ELSE opened
          /\ out' = [what |-> "frame", call |-> c]
          /\ credits' = credits /\ stage' = stage
        BY <1>8, Zenon DEF FrameTaken
    <2>3. box' = PopFrame(box, c)
        BY <1>0, <2>2, PopFrameFields, Zenon
    <2>4. Abstract!FrameLeaves(c)
        BY <2>1, <2>2, <2>3, SameQueues, Zenon DEF Abstract!FrameLeaves
    <2> QED
        BY <2>1, <2>4, Zenon DEF Abstract!Next
<1>9. CASE \/ StartDrain \/ CreditRefused \/ CreditsDone \/ NextTurn \/ FramesDone
           \/ FrameRefused \/ TurnOver
    <2>1. /\ out' = Abstract!Nothing
          /\ queues' = queues /\ credits' = credits /\ stage' = stage /\ opened' = opened
        BY <1>9 DEF StartDrain, CreditRefused, CreditsDone, NextTurn, FramesDone,
                    FrameRefused, TurnOver
    <2>2. Abstract!NothingLeaves
        BY <1>0, <2>1 DEF Abstract!NothingLeaves, box
    <2> QED
        BY <2>2, Zenon DEF Abstract!Next
<1>10. CASE UNCHANGED vars
    BY <1>10 DEF vars, Abstract!qvars, box
<1> QED
    BY <1>1, <1>2, <1>3, <1>4, <1>5, <1>6, <1>7, <1>8, <1>9, <1>10, Zenon
       DEF Next, DrainStep, Abstract!Next

(* Whatever the sink does, the frames of a call leave in order, within the *)
(* ceilings, and each allowance once: the outbox is a SendQueue.           *)
THEOREM Refinement == Spec => ImplementsSendQueue
BY MapInit, MapNext, Invariance, PTL DEF Spec, ImplementsSendQueue, Abstract!Spec

=============================================================================
