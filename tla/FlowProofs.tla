------------------------------- MODULE FlowProofs -------------------------------
(***************************************************************************)
(* What flows on a call between its two endpoints: that a stream arrives    *)
(* whole and in order in both directions (StreamsWhole), and that no        *)
(* allowance is lost or counted twice (CreditConserved), for every          *)
(* registry, configuration and number of calls.                            *)
(*                                                                         *)
(* What one endpoint does to the flow of a call is at the end of            *)
(* CoreProofs.  Here are the frames on their way (Carried, Reach: what they *)
(* carry, and how far they take their reader), the inductive invariant      *)
(* (Flow: the books and the streams of one call, on the endpoints and the   *)
(* link between them) and what each step of an endpoint does to it.         *)
(***************************************************************************)
EXTENDS CoreProofs, Recursion

-----------------------------------------------------------------------------
\* What the frames in a queue, or on the link, amount to for a call.

LEMMA CarriedType == \A f \in Frame, c \in Calls : Carried(f, c) \in Nat
<1>1. ASSUME NEW f \in Frame PROVE f.n \in Nat /\ f.ctx.credit \in Nat
    <2>1. f.ctx \in Ctx /\ f.n \in Nat
        BY DEF Frame
    <2> QED
        BY <2>1, QueueConstants DEF Ctx
<1> QED
    BY <1>1 DEF Carried

Adding(c) == [p \in Nat \X Frame |-> p[1] + Carried(p[2], c)]

LEMMA AddingType ==
    ASSUME NEW c \in Calls
    PROVE  /\ Steps(Adding(c), Nat, Frame)
           /\ \A n \in Nat, f \in Frame : Adding(c)[<<n, f>>] = n + Carried(f, c)
BY CarriedType DEF Adding, Steps

LEMMA CarriedIsFold ==
    ASSUME NEW c \in Calls, NEW q \in Seq(Frame)
    PROVE  CarriedBy(q, c) = Fold(0, Adding(c), q)
<1>1. PICK h \in [0..Len(q) -> Nat] : Run(h, 0, Adding(c), q)
    BY AddingType, RunExists
<1>2. PICK n \in Nat : n = Len(q)
    OBVIOUS
<1>3. ASSUME NEW i \in 1..n PROVE h[i] = h[i - 1] + Carried(q[i], c)
    <2>1. i - 1 \in 0..Len(q) /\ i \in 1..Len(q) /\ q[i] \in Frame
        BY <1>2
    <2>2. h[i - 1] \in Nat
        BY <1>1, <2>1
    <2> QED
        BY <1>1, <2>1, <2>2, AddingType DEF Run
<1>4. h = [i \in 0..n |-> IF i = 0 THEN 0 ELSE h[i - 1] + Carried(q[i], c)]
    <2>1. h = [i \in 0..n |-> h[i]]
        BY <1>1, <1>2
    <2>2. \A i \in 0..n : h[i] = IF i = 0 THEN 0 ELSE h[i - 1] + Carried(q[i], c)
        BY <1>1, <1>3 DEF Run
    <2> QED
        BY <2>1, <2>2
<1>5. PICK g : g = (CHOOSE f : f = [i \in 0..n |-> IF i = 0 THEN 0 ELSE f[i - 1] + Carried(q[i], c)])
    OBVIOUS
<1>6. g = [i \in 0..n |-> IF i = 0 THEN 0 ELSE g[i - 1] + Carried(q[i], c)]
    BY <1>4, <1>5
<1>7. CarriedBy(q, c) = g[n]
    BY <1>2, <1>5 DEF CarriedBy
<1>8. PICK T : T = {i \in 0..n : g[i] = h[i]}
    OBVIOUS
<1>9. 0 \in T
    BY <1>4, <1>6, <1>8
<1>10. ASSUME NEW i \in 1..n, i - 1 \in T PROVE i \in T
    <2>1. i # 0 /\ i \in 0..n
        OBVIOUS
    <2>2. g[i] = g[i - 1] + Carried(q[i], c)
        BY <1>6, <2>1
    <2> QED
        BY <1>3, <1>8, <1>10, <2>1, <2>2
<1>11. 0..n \subseteq T
    BY <1>9, <1>10, IntervalInduction
<1>12. g[n] = h[n]
    BY <1>8, <1>11
<1> QED
    BY <1>1, <1>2, <1>7, <1>12, FoldIsRun

\* A greater sum to start with is a greater sum in the end.
LEMMA AddingFrom ==
    ASSUME NEW c \in Calls, NEW q \in Seq(Frame), NEW n \in Nat
    PROVE  Fold(n, Adding(c), q) = n + Fold(0, Adding(c), q)
<1>1. PICK h \in [0..Len(q) -> Nat] : Run(h, 0, Adding(c), q)
    BY AddingType, RunExists
<1>2. PICK g : g = [i \in 0..Len(q) |-> n + h[i]]
    OBVIOUS
<1>3. ASSUME NEW i \in 1..Len(q) PROVE g[i] = Adding(c)[<<g[i - 1], q[i]>>]
    <2>1. i - 1 \in 0..Len(q) /\ i \in 0..Len(q) /\ q[i] \in Frame
        OBVIOUS
    <2>2. h[i - 1] \in Nat /\ n + h[i - 1] \in Nat /\ Carried(q[i], c) \in Nat
        BY <1>1, <2>1, CarriedType
    <2>3. h[i] = h[i - 1] + Carried(q[i], c)
        BY <1>1, <2>1, <2>2, AddingType DEF Run
    <2>4. Adding(c)[<<n + h[i - 1], q[i]>>] = (n + h[i - 1]) + Carried(q[i], c)
        BY <2>1, <2>2, AddingType
    <2> QED
        BY <1>2, <2>1, <2>2, <2>3, <2>4
<1>4. Run(g, n, Adding(c), q)
    <2>1. 0 \in 0..Len(q) /\ h[0] = 0
        BY <1>1 DEF Run
    <2>2. g[0] = n /\ DOMAIN g = 0..Len(q)
        BY <1>2, <2>1
    <2> QED
        BY <1>3, <2>2 DEF Run
<1>5. Len(q) \in 0..Len(q) /\ Len(q) \in Nat
    OBVIOUS
<1>6. Fold(n, Adding(c), q) = g[Len(q)] /\ Fold(0, Adding(c), q) = h[Len(q)]
    BY <1>1, <1>4, <1>5, FoldIsRun
<1> QED
    BY <1>2, <1>5, <1>6

LEMMA CarriedFacts ==
    ASSUME NEW c \in Calls, NEW q \in Seq(Frame)
    PROVE  /\ CarriedBy(q, c) \in Nat
           /\ CarriedBy(<<>>, c) = 0
           /\ \A f \in Frame : CarriedBy(Append(q, f), c) = CarriedBy(q, c) + Carried(f, c)
           /\ q # <<>> => CarriedBy(q, c) = Carried(Head(q), c) + CarriedBy(Tail(q), c)
           /\ (\A i \in 1..Len(q) : Carried(q[i], c) = 0) => CarriedBy(q, c) = 0
<1>00. PICK S, step : S = Nat /\ step = Adding(c) /\ Steps(step, S, Frame) /\ 0 \in S
    BY AddingType
<1>01. Steps(step, S, Frame) /\ 0 \in S
    BY <1>00
<1>0. /\ step = Adding(c) /\ Steps(step, Nat, Frame)
      /\ \A n \in Nat, f \in Frame : step[<<n, f>>] = n + Carried(f, c)
    BY <1>00, AddingType
<1>1. CarriedBy(q, c) = Fold(0, step, q) /\ CarriedBy(q, c) \in Nat
    <2>1. Fold(0, step, q) \in Nat
        BY <1>0, FoldType
    <2> QED
        BY <1>0, <2>1, CarriedIsFold
<1>2. CarriedBy(<<>>, c) = 0
    <2>1. <<>> \in Seq(Frame)
        OBVIOUS
    <2> QED
        BY <2>1, CarriedIsFold, FoldStart
<1>3. ASSUME NEW f \in Frame PROVE CarriedBy(Append(q, f), c) = CarriedBy(q, c) + Carried(f, c)
    <2>1. Append(q, f) \in Seq(Frame)
        OBVIOUS
    <2>2. CarriedBy(Append(q, f), c) = Fold(0, step, Append(q, f))
        BY <1>0, <2>1, CarriedIsFold
    <2>3. Fold(0, step, Append(q, f)) = step[<<Fold(0, step, q), f>>]
        <3>1. PICK r \in Seq(Frame) : r = Append(q, f) /\ Grown(q, f, r)
            BY AppendGrows
        <3>2. Grown(q, f, r)
            BY <3>1
        <3>3. Fold(0, step, r) = step[<<Fold(0, step, q), f>>]
            BY <1>01, <3>2, FoldAppend
        <3> QED
            BY <3>1, <3>3
    <2> QED
        BY <1>0, <1>1, <2>2, <2>3
<1>4. ASSUME q # <<>> PROVE CarriedBy(q, c) = Carried(Head(q), c) + CarriedBy(Tail(q), c)
    <2>1. Head(q) \in Frame /\ Tail(q) \in Seq(Frame)
        BY <1>4
    <2>2. PICK n \in Nat : n = Carried(Head(q), c)
        BY <2>1, CarriedType
    <2>3. step[<<0, Head(q)>>] = n
        BY <1>0, <2>1, <2>2
    <2>4. Fold(0, step, q) = Fold(n, step, Tail(q))
        <3>1. PICK f \in Frame, r \in Seq(Frame) : f = Head(q) /\ r = Tail(q) /\ Shrunk(q, f, r)
            BY <1>4, TailShrinks
        <3>2. Shrunk(q, f, r)
            BY <3>1
        <3>3. Fold(0, step, q) = Fold(step[<<0, f>>], step, r)
            BY <1>01, <3>2, FoldTail
        <3> QED
            BY <2>3, <3>1, <3>3
    <2>5. Fold(n, step, Tail(q)) = n + Fold(0, step, Tail(q))
        BY <1>0, <2>1, AddingFrom
    <2>6. CarriedBy(Tail(q), c) = Fold(0, step, Tail(q))
        BY <1>0, <2>1, CarriedIsFold
    <2> QED
        BY <1>1, <2>2, <2>4, <2>5, <2>6
<1>5. ASSUME \A i \in 1..Len(q) : Carried(q[i], c) = 0 PROVE CarriedBy(q, c) = 0
    <2>1. PICK T : T = {0}
        OBVIOUS
    <2>2. \A i \in 1..Len(q) : \A v \in Nat : v \in T => step[<<v, q[i]>>] \in T
        BY <1>0, <1>5, <2>1
    <2>3. Fold(0, step, q) \in T
        BY <1>0, <2>1, <2>2, FoldStays
    <2> QED
        BY <1>1, <2>1, <2>3
<1> QED
    BY <1>1, <1>2, <1>3, <1>4, <1>5

-----------------------------------------------------------------------------
\* Where a stream has got to: n items heard and open, or Shut(n) after its END;
\* Broken if an item was not the next one.  Reach(v, q, c) is where the frames
\* of q lead a reader of call c that has got to v.

Shut(n) == -2 - n
Broken == -1
Follow(v, f, c) ==
    IF f.call # c THEN v
    ELSE IF f.kind = "ITEM" THEN IF v >= 0 /\ f.n = v + 1 THEN v + 1 ELSE Broken
    ELSE IF f.kind = "END" /\ v >= 0 THEN Shut(v)
    ELSE v
Following(c) == [p \in Int \X Frame |-> Follow(p[1], p[2], c)]
Reach(v, q, c) == Fold(v, Following(c), q)

LEMMA FollowType == \A v \in Int, f \in Frame, c \in Calls : Follow(v, f, c) \in Int
<1>1. ASSUME NEW f \in Frame PROVE f.n \in Nat
    BY DEF Frame
<1> QED
    BY <1>1 DEF Follow, Shut, Broken

LEMMA FollowingType ==
    ASSUME NEW c \in Calls
    PROVE  /\ Steps(Following(c), Int, Frame)
           /\ \A v \in Int, f \in Frame : Following(c)[<<v, f>>] = Follow(v, f, c)
BY FollowType DEF Following, Steps

LEMMA ReachFacts ==
    ASSUME NEW c \in Calls, NEW q \in Seq(Frame), NEW v \in Int
    PROVE  /\ Reach(v, q, c) \in Int
           /\ Reach(v, <<>>, c) = v
           /\ \A f \in Frame : Reach(v, Append(q, f), c) = Follow(Reach(v, q, c), f, c)
           /\ q # <<>> => Reach(v, q, c) = Reach(Follow(v, Head(q), c), Tail(q), c)
           /\ (\A i \in 1..Len(q) : Follow(v, q[i], c) = v) => Reach(v, q, c) = v
           /\ v = Broken => Reach(v, q, c) = Broken
           /\ v < 0 => Reach(v, q, c) \in {v, Broken}
<1>00. PICK S, step : S = Int /\ step = Following(c) /\ Steps(step, S, Frame) /\ v \in S
    BY FollowingType
<1>01. Steps(step, S, Frame) /\ v \in S
    BY <1>00
<1>0. /\ step = Following(c) /\ Steps(step, Int, Frame)
      /\ \A n \in Int, f \in Frame : step[<<n, f>>] = Follow(n, f, c)
    BY <1>00, FollowingType
<1>1. Reach(v, q, c) = Fold(v, step, q) /\ Reach(v, q, c) \in Int
    <2>1. Fold(v, step, q) \in Int
        BY <1>0, FoldType
    <2> QED
        BY <1>0, <2>1 DEF Reach
<1>2. Reach(v, <<>>, c) = v
    BY FoldStart DEF Reach
<1>3. ASSUME NEW f \in Frame PROVE Reach(v, Append(q, f), c) = Follow(Reach(v, q, c), f, c)
    <2>1. Fold(v, step, Append(q, f)) = step[<<Fold(v, step, q), f>>]
        <3>1. PICK r \in Seq(Frame) : r = Append(q, f) /\ Grown(q, f, r)
            BY AppendGrows
        <3>2. Grown(q, f, r)
            BY <3>1
        <3>3. Fold(v, step, r) = step[<<Fold(v, step, q), f>>]
            BY <1>01, <3>2, FoldAppend
        <3> QED
            BY <3>1, <3>3
    <2> QED
        BY <1>0, <1>1, <2>1 DEF Reach
<1>4. ASSUME q # <<>> PROVE Reach(v, q, c) = Reach(Follow(v, Head(q), c), Tail(q), c)
    <2>1. Head(q) \in Frame
        BY <1>4
    <2>2. Fold(v, step, q) = Fold(step[<<v, Head(q)>>], step, Tail(q))
        <3>1. PICK f \in Frame, r \in Seq(Frame) : f = Head(q) /\ r = Tail(q) /\ Shrunk(q, f, r)
            BY <1>4, TailShrinks
        <3>2. Shrunk(q, f, r)
            BY <3>1
        <3>3. Fold(v, step, q) = Fold(step[<<v, f>>], step, r)
            BY <1>01, <3>2, FoldTail
        <3> QED
            BY <3>1, <3>3
    <2> QED
        BY <1>0, <2>1, <2>2 DEF Reach
<1>5. ASSUME NEW T, v \in T, \A i \in 1..Len(q) : \A w \in Int : w \in T => Follow(w, q[i], c) \in T
      PROVE  Reach(v, q, c) \in T
    <2>1. \A i \in 1..Len(q) : \A w \in Int : w \in T => step[<<w, q[i]>>] \in T
        BY <1>0, <1>5
    <2>2. Fold(v, step, q) \in T
        BY <1>0, <1>5, <2>1, FoldStays
    <2> QED
        BY <1>1, <2>2
<1>6. ASSUME \A i \in 1..Len(q) : Follow(v, q[i], c) = v PROVE Reach(v, q, c) = v
    <2>1. PICK T : T = {v}
        OBVIOUS
    <2>2. Reach(v, q, c) \in T
        BY <1>5, <1>6, <2>1
    <2> QED
        BY <2>1, <2>2
<1>7. ASSUME v < 0 PROVE Reach(v, q, c) \in {v, Broken}
    <2>1. PICK T : T = {v, Broken}
        OBVIOUS
    <2>2. \A i \in 1..Len(q) : \A w \in Int : w \in T => Follow(w, q[i], c) \in T
        BY <1>7, <2>1 DEF Follow, Broken
    <2> QED
        BY <1>5, <2>1, <2>2
<1>8. v = Broken => v < 0
    BY DEF Broken
<1> QED
    BY <1>1, <1>2, <1>3, <1>4, <1>6, <1>7, <1>8

\* A reader of a part has got no further, and nothing it hears is out of order.
LEMMA ReachPart ==
    ASSUME NEW c \in Calls, NEW q \in Seq(Frame), NEW v \in Int, NEW n \in 0..Len(q)
    PROVE  LET w == Reach(v, SubSeq(q, 1, n), c)
           IN /\ w \in Int
              /\ \E r \in Seq(Frame) : Reach(v, q, c) = Reach(w, r, c)
<1>0. PICK S, step : S = Int /\ step = Following(c) /\ Steps(step, S, Frame) /\ v \in S
    BY FollowingType
<1>01. Steps(step, S, Frame) /\ v \in S
    BY <1>0
<1>1. PICK p \in Seq(Frame), r \in Seq(Frame) : p = SubSeq(q, 1, n) /\ Parted(q, p, r)
    BY CutParts
<1>2. Fold(v, step, p) \in Int
    BY <1>0, FoldType
<1>3. Fold(v, step, q) = Fold(Fold(v, step, p), step, r)
    <2>1. Parted(q, p, r)
        BY <1>1
    <2> QED
        BY <1>01, <2>1, FoldRest
<1> QED
    BY <1>0, <1>1, <1>2, <1>3 DEF Reach

-----------------------------------------------------------------------------
\* The way of a frame: the queue q of its call, then the link n.  Through is
\* where a reader that has got to v ends when it has heard everything, Coming
\* the allowance it will have been given, a the one that waits.

Through(v, n, q, c) == Reach(Reach(v, n, c), q, c)
Coming(a, n, q, c) == Amount(a) + CarriedBy(q, c) + CarriedBy(n, c)

LEMMA AmountType == \A a \in Credits : Amount(a) \in Nat /\ (a # NoCredit => Amount(a) = a)
<1>1. ASSUME NEW a \in Credits PROVE a = NoCredit \/ a \in Nat
    BY QueueConstants DEF Credits
<1> QED
    BY <1>1 DEF Amount

LEMMA WayType ==
    ASSUME NEW v \in Int, NEW n \in Seq(Frame), NEW q \in Seq(Frame), NEW a \in Credits, NEW c \in Calls
    PROVE  Through(v, n, q, c) \in Int /\ Coming(a, n, q, c) \in Nat
<1>1. Reach(v, n, c) \in Int /\ CarriedBy(q, c) \in Nat /\ CarriedBy(n, c) \in Nat /\ Amount(a) \in Nat
    BY ReachFacts, CarriedFacts, AmountType
<1>2. Through(v, n, q, c) \in Int
    BY <1>1, ReachFacts DEF Through
<1> QED
    BY <1>1, <1>2 DEF Coming

\* What happens to a way: from n and q to n2 and q2 it grows by f at its end, is
\* the same to its reader, or shrinks by f, the next to be heard.
Grows(n, q, n2, q2, f, c) ==
    /\ \A v \in Int : Through(v, n2, q2, c) = Follow(Through(v, n, q, c), f, c)
    /\ \A a \in Credits : Coming(a, n2, q2, c) = Coming(a, n, q, c) + Carried(f, c)
Keeps(n, q, n2, q2, c) ==
    /\ \A v \in Int : Through(v, n2, q2, c) = Through(v, n, q, c)
    /\ \A a \in Credits : Coming(a, n2, q2, c) = Coming(a, n, q, c)
Shrinks(n, q, n2, f, c) ==
    /\ \A v \in Int : /\ Through(v, n, q, c) = Through(Follow(v, f, c), n2, q, c)
                      /\ Follow(v, f, c) \in Int
    /\ \A a \in Credits : /\ Coming(a, n, q, c) = Carried(f, c) + Coming(a, n2, q, c)
                          /\ Coming(a, n2, q, c) \in Nat
    /\ Carried(f, c) \in Nat
\* A frame that is no item and no END joins the link.
Joins(n, q, n2, f, c) ==
    /\ \A v \in Int : Through(v, n2, q, c) = Through(v, n, q, c)
    /\ \A a \in Credits : Coming(a, n2, q, c) = Coming(a, n, q, c) + IF f.call = c THEN f.n ELSE 0

\* A frame is queued.
LEMMA WayQueued ==
    ASSUME NEW n \in Seq(Frame), NEW q \in Seq(Frame), NEW c \in Calls,
           NEW f \in Frame, NEW r, r = Append(q, f)
    PROVE  Grows(n, q, n, r, f, c)
<1>1. ASSUME NEW v \in Int, NEW a \in Credits
      PROVE  /\ Through(v, n, r, c) = Follow(Through(v, n, q, c), f, c)
             /\ Coming(a, n, r, c) = Coming(a, n, q, c) + Carried(f, c)
    <2>1. PICK w \in Int : w = Reach(v, n, c)
        BY ReachFacts
    <2>2. Reach(w, r, c) = Follow(Reach(w, q, c), f, c)
        BY ReachFacts
    <2>3. CarriedBy(r, c) = CarriedBy(q, c) + Carried(f, c)
        BY CarriedFacts
    <2>4. CarriedBy(q, c) \in Nat /\ CarriedBy(n, c) \in Nat /\ Amount(a) \in Nat /\ Carried(f, c) \in Nat
        BY CarriedFacts, CarriedType, AmountType
    <2> QED
        BY <2>1, <2>2, <2>3, <2>4 DEF Through, Coming
<1>2. NoCredit \in Credits /\ 0 \in Int
    BY DEF Credits
<1> QED
    BY <1>1, <1>2 DEF Grows

\* A frame goes from the queue to the link.
LEMMA WaySent ==
    ASSUME NEW n \in Seq(Frame), NEW q \in Seq(Frame), NEW c \in Calls,
           q # <<>>, NEW r, r = Tail(q), NEW n2, n2 = Append(n, Head(q))
    PROVE  Keeps(n, q, n2, r, c)
<1>1. ASSUME NEW v \in Int, NEW a \in Credits
      PROVE  /\ Through(v, n2, r, c) = Through(v, n, q, c)
             /\ Coming(a, n2, r, c) = Coming(a, n, q, c)
    <2>1. PICK f \in Frame : f = Head(q)
        OBVIOUS
    <2>2. PICK w \in Int : w = Reach(v, n, c)
        BY ReachFacts
    <2>3. Reach(v, n2, c) = Follow(w, f, c)
        BY ZenonT(60), <2>1, <2>2, ReachFacts
    <2>4. Reach(w, q, c) = Reach(Follow(w, f, c), r, c)
        BY <2>1, ReachFacts
    <2>5. CarriedBy(n2, c) = CarriedBy(n, c) + Carried(f, c)
        BY <2>1, CarriedFacts
    <2>6. CarriedBy(q, c) = Carried(f, c) + CarriedBy(r, c)
        BY <2>1, CarriedFacts
    <2>7. /\ CarriedBy(q, c) \in Nat /\ CarriedBy(n, c) \in Nat /\ Amount(a) \in Nat /\ Carried(f, c) \in Nat
          /\ CarriedBy(r, c) \in Nat
        <3>1. r \in Seq(Frame)
            OBVIOUS
        <3> QED
            BY <3>1, CarriedFacts, CarriedType, AmountType
    <2> QED
        BY <2>2, <2>3, <2>4, <2>5, <2>6, <2>7 DEF Through, Coming
<1>2. NoCredit \in Credits /\ 0 \in Int
    BY DEF Credits
<1> QED
    BY <1>1, <1>2 DEF Keeps

\* The first frame on the link is heard.
LEMMA WayHeard ==
    ASSUME NEW n \in Seq(Frame), NEW q \in Seq(Frame), NEW c \in Calls,
           n # <<>>, NEW f \in Frame, f = Head(n), NEW r, r = Tail(n)
    PROVE  Shrinks(n, q, r, f, c)
<1>1. ASSUME NEW v \in Int, NEW a \in Credits
      PROVE  /\ Through(v, n, q, c) = Through(Follow(v, f, c), r, q, c)
             /\ Follow(v, f, c) \in Int
             /\ Coming(a, n, q, c) = Carried(f, c) + Coming(a, r, q, c)
             /\ Carried(f, c) \in Nat /\ Coming(a, r, q, c) \in Nat
    <2>0. Head(n) = f /\ Tail(n) = r
        OBVIOUS
    <2>1. Reach(v, n, c) = Reach(Follow(v, Head(n), c), Tail(n), c)
        BY ReachFacts
    <2>2. CarriedBy(n, c) = Carried(Head(n), c) + CarriedBy(Tail(n), c)
        BY CarriedFacts
    <2>3. Follow(v, f, c) \in Int
        BY FollowType
    <2>5. r \in Seq(Frame)
        OBVIOUS
    <2>4. CarriedBy(q, c) \in Nat /\ CarriedBy(r, c) \in Nat /\ Amount(a) \in Nat /\ Carried(f, c) \in Nat
        BY <2>5, CarriedFacts, CarriedType, AmountType
    <2> QED
        BY <2>0, <2>1, <2>2, <2>3, <2>4 DEF Through, Coming
<1>2. NoCredit \in Credits /\ 0 \in Int
    BY DEF Credits
<1> QED
    BY <1>1, <1>2 DEF Shrinks

\* A frame that is no item and no END is added to the link.
LEMMA WayAside ==
    ASSUME NEW n \in Seq(Frame), NEW q \in Seq(Frame), NEW c \in Calls,
           NEW f \in Frame, f.call # c \/ f.kind = "CREDIT", NEW r, r = Append(n, f)
    PROVE  Joins(n, q, r, f, c)
<1>1. ASSUME NEW v \in Int, NEW a \in Credits
      PROVE  /\ Through(v, r, q, c) = Through(v, n, q, c)
             /\ Coming(a, r, q, c) = Coming(a, n, q, c) + IF f.call = c THEN f.n ELSE 0
    <2>1. PICK w \in Int : w = Reach(v, n, c)
        BY ReachFacts
    <2>2. Reach(v, r, c) = Follow(w, f, c)
        BY <2>1, ReachFacts
    <2>3. Follow(w, f, c) = w
        BY DEF Follow
    <2>4. CarriedBy(r, c) = CarriedBy(n, c) + Carried(f, c)
        BY CarriedFacts
    <2>5. CarriedBy(q, c) \in Nat /\ CarriedBy(n, c) \in Nat /\ Amount(a) \in Nat /\ Carried(f, c) \in Nat
        BY CarriedFacts, CarriedType, AmountType
    <2>6. Carried(f, c) = IF f.call = c THEN f.n ELSE 0
        BY DEF Carried
    <2> QED
        BY <2>1, <2>2, <2>3, <2>4, <2>5, <2>6 DEF Through, Coming
<1>2. NoCredit \in Credits /\ 0 \in Int
    BY DEF Credits
<1> QED
    BY <1>1, <1>2 DEF Joins

\* A way on which nothing is said of the call.
LEMMA WayEmpty ==
    ASSUME NEW v \in Int, NEW n \in Seq(Frame), NEW q \in Seq(Frame), NEW a \in Credits, NEW c \in Calls,
           ~Mentions(n, c)
    PROVE  /\ Through(v, n, q, c) = Reach(v, q, c) /\ Through(v, n, <<>>, c) = v
           /\ Coming(a, n, q, c) = Amount(a) + CarriedBy(q, c)
           /\ Coming(a, n, <<>>, c) = Amount(a)
<1>1. \A i \in 1..Len(n) : n[i].call # c
    BY DEF Mentions
<1>2. \A i \in 1..Len(n) : Follow(v, n[i], c) = v
    BY <1>1 DEF Follow
<1>3. \A i \in 1..Len(n) : Carried(n[i], c) = 0
    BY <1>1 DEF Carried
<1>4. Reach(v, n, c) = v /\ Reach(v, <<>>, c) = v
    BY <1>2, ReachFacts
<1>5. CarriedBy(n, c) = 0 /\ CarriedBy(<<>>, c) = 0
    BY <1>3, CarriedFacts
<1>6. CarriedBy(q, c) \in Nat /\ Amount(a) \in Nat
    BY CarriedFacts, AmountType
<1> QED
    BY <1>4, <1>5, <1>6 DEF Through, Coming

-----------------------------------------------------------------------------
\* A reader whose writer has stopped somewhere: whatever it hears is in order,
\* and an END comes after all n items.
Sound(v, n) == v >= 0 \/ v = Shut(n)

LEMMA SoundBefore ==
    ASSUME NEW w \in Int, NEW r \in Seq(Frame), NEW c \in Calls, NEW n \in Nat, Sound(Reach(w, r, c), n)
    PROVE  Sound(w, n)
<1>1. CASE w >= 0
    BY <1>1 DEF Sound
<1>2. CASE w < 0
    <2>1. Reach(w, r, c) \in {w, Broken}
        BY <1>2, ReachFacts
    <2>2. ~Sound(Broken, n)
        BY DEF Sound, Broken, Shut
    <2> QED
        BY <2>1, <2>2
<1> QED
    BY <1>1, <1>2

LEMMA SoundPart ==
    ASSUME NEW v \in Int, NEW n \in Seq(Frame), NEW q \in Seq(Frame), NEW c \in Calls, NEW x \in Nat,
           Sound(Through(v, n, q, c), x)
    PROVE  /\ Sound(Through(v, n, <<>>, c), x)
           /\ \A r \in Seq(Frame) : Mute(r) => Sound(Through(v, n, r, c), x)
           /\ \A j \in 0..Len(n) : Sound(Through(v, SubSeq(n, 1, j), <<>>, c), x)
           /\ Sound(v, x)
<1>1. PICK w \in Int : w = Reach(v, n, c)
    BY ReachFacts
<1>2. Sound(w, x)
    BY <1>1, SoundBefore DEF Through
<1>3. Reach(w, <<>>, c) = w
    BY ReachFacts
<1>4. ASSUME NEW r \in Seq(Frame), Mute(r) PROVE Reach(w, r, c) = w
    <2>1. \A i \in 1..Len(r) : Follow(w, r[i], c) = w
        BY <1>4 DEF Mute, Follow
    <2> QED
        BY <2>1, ReachFacts
<1>5. ASSUME NEW j \in 0..Len(n) PROVE Sound(Through(v, SubSeq(n, 1, j), <<>>, c), x)
    <2>1. PICK u \in Int, r \in Seq(Frame) : u = Reach(v, SubSeq(n, 1, j), c) /\ w = Reach(u, r, c)
        BY <1>1, ReachPart
    <2>2. Sound(u, x)
        BY <1>2, <2>1, SoundBefore
    <2>3. Reach(u, <<>>, c) = u
        BY ReachFacts
    <2> QED
        BY <2>1, <2>2, <2>3 DEF Through
<1>6. Sound(v, x)
    BY <1>1, <1>2, SoundBefore
<1> QED
    BY <1>1, <1>2, <1>3, <1>4, <1>5, <1>6 DEF Through

LEMMA SoundExact == \A n \in Nat : Sound(n, n) /\ Sound(Shut(n), n)
BY DEF Sound

-----------------------------------------------------------------------------
\* The flow of one call on both endpoints and on the link between them: k is
\* its caller, m its callee, out the frames on their way to the callee, back
\* the others.

\* Both registries know the CREDIT message, or neither.
CreditsShared == HasCredit("client") <=> HasCredit("server")

Balanced(granted, known) ==
    /\ known <= granted
    /\ CreditsShared => known = granted \/ known >= MaxU32
OutOf(k, n, c) == Coming(k.box.credits[c], n, Queue(k, c), c)

Counted(o) == \A i \in 1..Len(o) : Terminates(o[i]) \/ o[i].n = i

\* The callee has done nothing for the call, and the caller nothing that needs
\* an allowance of the callee.
Untouched(k, m, c) ==
    /\ m.granted[c] = 0 /\ m.metered[c] = 0 /\ m.put[c] = 0 /\ m.got[c] = <<>>
    /\ k.metered[c] = 0
Past(k, m, out, c) ==
    /\ c \notin k.issued => k.put[c] = 0 /\ k.outcomes[c] = <<>>
    /\ c \notin k.issued \/ Unopened(k, out, c) => Untouched(k, m, c)
    /\ Counted(k.outcomes[c]) /\ m.got[c] = Counting(Len(m.got[c]))
    /\ EndsWell(k.outcomes[c]) =>
        /\ Len(k.outcomes[c]) = m.put[c] + 1 /\ ~Inflight(m, c) /\ ~Unopened(k, out, c)

\* The books of the allowances: of a call that nobody has taken up, and of one
\* that lives on both sides.
Owed(k, out, c) ==
    Pending(k, c) /\ Unopened(k, out, c) =>
        /\ ~k.pending[c].established /\ k.pending[c].credit = 0
        /\ Balanced(k.granted[c], OutOf(k, out, c))
Square(k, m, out, back, c) ==
    Pending(k, c) /\ Inflight(m, c) =>
        /\ Balanced(k.granted[c], OutOf(k, out, c) + m.inflight[c].credit + m.metered[c])
        /\ Balanced(m.granted[c], OutOf(m, back, c) + k.pending[c].credit + k.metered[c])

\* The streams.  As long as the writer may still say something, everything it
\* has said is heard or on its way; afterwards its reader hears a beginning of
\* it, and an END only when it has heard it all.
Down(k, m, out, back, c) ==
    Pending(k, c) =>
        LET v == Through(Len(k.outcomes[c]), back, Queue(m, c), c)
        IN IF Inflight(m, c) \/ Unopened(k, out, c) THEN v = m.put[c] ELSE Sound(v, m.put[c])
ReadUpTo(m, c) ==
    IF Inflight(m, c) /\ CallerStreams(m.inflight[c].m) /\ m.inflight[c].inboundClosed
    THEN Shut(Len(m.got[c])) ELSE Len(m.got[c])
Said(k, c) == IF k.pending[c].sendClosed THEN Shut(k.put[c]) ELSE k.put[c]
Up(k, m, out, c) ==
    Inflight(m, c) \/ Unopened(k, out, c) =>
        LET v == Through(ReadUpTo(m, c), out, Queue(k, c), c)
        IN IF Pending(k, c) THEN v = Said(k, c) ELSE Sound(v, k.put[c])

Flow(k, m, out, back, c) ==
    /\ Past(k, m, out, c) /\ Owed(k, out, c) /\ Square(k, m, out, back, c)
    /\ Down(k, m, out, back, c) /\ Up(k, m, out, c)

\* What is known of the call otherwise.
Scene(k, m, out, back, c) ==
    /\ k \in CoreType /\ m \in CoreType /\ out \in Seq(Frame) /\ back \in Seq(Frame)
    /\ Linked(k, m, out, back, c)
    /\ ~Inflight(k, c) /\ ~Pending(m, c) /\ (Pending(k, c) => c \in k.issued)
    /\ Ends(k.outcomes[c]) = IF c \in k.issued /\ ~Pending(k, c) THEN {Len(k.outcomes[c])} ELSE {}
    /\ m.finished => ~Inflight(m, c) /\ out = <<>>
    /\ k.finished => ~Pending(k, c)

LEMMA CallTypes ==
    ASSUME NEW k \in CoreType, NEW c \in Calls
    PROVE  /\ k.put[c] \in Nat /\ k.metered[c] \in Nat /\ k.granted[c] \in Nat
           /\ k.got[c] \in Seq(Nat) /\ Len(k.got[c]) \in Nat
           /\ k.outcomes[c] \in Seq(Outcome) /\ Len(k.outcomes[c]) \in Nat
           /\ Queue(k, c) \in Seq(Frame) /\ k.box.credits[c] \in Credits
<1>1. k.outcomes[c] \in Seq(Outcome) /\ k.got[c] \in Seq(Nat)
    BY DEF CoreType
<1>2. Queue(k, c) \in Seq(Frame) /\ k.box.credits[c] \in Credits
    BY DEF CoreType, Box, Queue
<1>3. k.put[c] \in Nat /\ k.metered[c] \in Nat /\ k.granted[c] \in Nat
    BY DEF CoreType
<1> QED
    BY <1>1, <1>2, <1>3

LEMMA RecordTypes ==
    ASSUME NEW k \in CoreType, NEW c \in Calls
    PROVE  /\ Pending(k, c) => /\ k.pending[c].credit \in Nat /\ k.pending[c].sendClosed \in BOOLEAN
                               /\ k.pending[c].established \in BOOLEAN
           /\ Inflight(k, c) => k.inflight[c].credit \in Nat /\ k.inflight[c].inboundClosed \in BOOLEAN
<1>1. ASSUME Pending(k, c)
      PROVE /\ k.pending[c].credit \in Nat /\ k.pending[c].sendClosed \in BOOLEAN
            /\ k.pending[c].established \in BOOLEAN
    <2>1. k.pending[c] \in Waiting
        BY <1>1, PendingInCalls DEF Pending
    <2> QED
        BY <2>1, QueueConstants DEF Waiting
<1>2. ASSUME Inflight(k, c)
      PROVE k.inflight[c].credit \in Nat /\ k.inflight[c].inboundClosed \in BOOLEAN
    <2>1. k.inflight[c] \in Running
        BY <1>2, InflightInCalls DEF Inflight
    <2> QED
        BY <2>1, QueueConstants DEF Running
<1> QED
    BY <1>1, <1>2

LEMMA ReadType ==
    ASSUME NEW m \in CoreType, NEW c \in Calls
    PROVE  ReadUpTo(m, c) \in Int /\ Len(m.got[c]) \in Int
BY CallTypes DEF ReadUpTo, Shut

\* The numbers of a scene.
LEMMA SceneTypes ==
    ASSUME NEW c \in Calls, NEW k, NEW m, NEW out, NEW back, Scene(k, m, out, back, c)
    PROVE  /\ OutOf(k, out, c) \in Nat /\ OutOf(m, back, c) \in Nat
           /\ Through(Len(k.outcomes[c]), back, Queue(m, c), c) \in Int
           /\ Through(ReadUpTo(m, c), out, Queue(k, c), c) \in Int
<1>1. k \in CoreType /\ m \in CoreType /\ out \in Seq(Frame) /\ back \in Seq(Frame)
    BY DEF Scene
<1>2. /\ Queue(k, c) \in Seq(Frame) /\ Queue(m, c) \in Seq(Frame)
      /\ k.box.credits[c] \in Credits /\ m.box.credits[c] \in Credits
      /\ Len(k.outcomes[c]) \in Int
    BY <1>1, CallTypes
<1>3. ReadUpTo(m, c) \in Int
    BY <1>1, ReadType
<1> QED
    BY <1>1, <1>2, <1>3, WayType DEF OutOf

\* Frames n and r say the same of the call to whoever reads them.
Level(n, r, c) ==
    /\ Says(r, c, Requests) <=> Says(n, c, Requests)
    /\ Says(r, c, {"CREDIT"}) <=> Says(n, c, {"CREDIT"})
    /\ \A q \in Seq(Frame) : Keeps(n, q, r, q, c)

LEMMA LevelSelf == \A n, c : Level(n, n, c)
BY DEF Level, Keeps

LEMMA LevelAppend ==
    ASSUME NEW n \in Seq(Frame), NEW c \in Calls, NEW f \in Frame, f.call # c, NEW r, r = Append(n, f)
    PROVE  Level(n, r, c)
<1>1. \A K : Says(r, c, K) <=> Says(n, c, K)
    BY NetAppend
<1>2. ASSUME NEW q \in Seq(Frame) PROVE Keeps(n, q, r, q, c)
    <2>1. Joins(n, q, r, f, c)
        BY WayAside
    <2>2. \A a \in Credits : Coming(a, n, q, c) \in Nat
        <3>1. 0 \in Int
            OBVIOUS
        <3> QED
            BY <3>1, WayType
    <2> QED
        BY <2>1, <2>2 DEF Joins, Keeps
<1> QED
    BY <1>1, <1>2 DEF Level

LEMMA LevelTail ==
    ASSUME NEW n \in Seq(Frame), n # <<>>, NEW c \in Calls, Head(n).call # c, NEW r, r = Tail(n)
    PROVE  Level(n, r, c)
<1>1. \A K : Says(r, c, K) <=> Says(n, c, K)
    BY NetTail
<1>2. PICK f \in Frame : f = Head(n)
    OBVIOUS
<1>3. Carried(f, c) = 0 /\ \A v : Follow(v, f, c) = v
    BY <1>2 DEF Carried, Follow
<1>4. ASSUME NEW q \in Seq(Frame) PROVE Keeps(n, q, r, q, c)
    <2>1. Shrinks(n, q, r, f, c)
        BY <1>2, WayHeard
    <2> QED
        BY <1>3, <2>1 DEF Shrinks, Keeps
<1> QED
    BY <1>1, <1>4 DEF Level

LEMMA SceneFacts ==
    ASSUME NEW c \in Calls, NEW k, NEW m, NEW out, NEW back, Scene(k, m, out, back, c)
    PROVE  /\ k \in CoreType /\ m \in CoreType /\ out \in Seq(Frame) /\ back \in Seq(Frame)
           /\ Queue(k, c) \in Seq(Frame) /\ Queue(m, c) \in Seq(Frame)
           /\ k.box.credits[c] \in Credits /\ m.box.credits[c] \in Credits
           /\ Len(k.outcomes[c]) \in Nat /\ Len(k.outcomes[c]) \in Int /\ ReadUpTo(m, c) \in Int
           /\ OutOf(k, out, c) \in Nat /\ OutOf(m, back, c) \in Nat
           /\ k.put[c] \in Nat /\ m.put[c] \in Nat /\ k.granted[c] \in Nat /\ m.granted[c] \in Nat
           /\ k.metered[c] \in Nat /\ m.metered[c] \in Nat
<1>1. k \in CoreType /\ m \in CoreType /\ out \in Seq(Frame) /\ back \in Seq(Frame)
    BY DEF Scene
<1>2. /\ Queue(k, c) \in Seq(Frame) /\ Queue(m, c) \in Seq(Frame)
      /\ k.box.credits[c] \in Credits /\ m.box.credits[c] \in Credits
      /\ Len(k.outcomes[c]) \in Nat /\ Len(k.outcomes[c]) \in Int
      /\ k.put[c] \in Nat /\ m.put[c] \in Nat /\ k.granted[c] \in Nat /\ m.granted[c] \in Nat
      /\ k.metered[c] \in Nat /\ m.metered[c] \in Nat
    BY <1>1, CallTypes
<1> QED
    BY <1>1, <1>2, ReadType, SceneTypes

\* A call that nobody touches, whatever passes on the link for others.
LEMMA FlowSame ==
    ASSUME NEW c \in Calls, NEW k, NEW m, NEW out, NEW back, Scene(k, m, out, back, c),
           Flow(k, m, out, back, c),
           NEW k2, Idle(k, k2, c), NEW m2, Idle(m, m2, c),
           NEW out2, Level(out, out2, c), NEW back2, Level(back, back2, c)
    PROVE  Flow(k2, m2, out2, back2, c)
<1>1. /\ Queue(k, c) \in Seq(Frame) /\ Queue(m, c) \in Seq(Frame)
      /\ k.box.credits[c] \in Credits /\ m.box.credits[c] \in Credits
      /\ Len(k.outcomes[c]) \in Int /\ ReadUpTo(m, c) \in Int
    BY SceneFacts
<1>2. /\ Keeps(out, Queue(k, c), out2, Queue(k, c), c)
      /\ Keeps(back, Queue(m, c), back2, Queue(m, c), c)
      /\ Says(out2, c, Requests) <=> Says(out, c, Requests)
    BY <1>1 DEF Level
<1>3. /\ Queue(k2, c) = Queue(k, c) /\ k2.box.credits[c] = k.box.credits[c]
      /\ k2.outcomes[c] = k.outcomes[c] /\ (Pending(k2, c) <=> Pending(k, c))
      /\ (c \in k2.issued <=> c \in k.issued)
      /\ k2.put[c] = k.put[c] /\ k2.metered[c] = k.metered[c] /\ k2.granted[c] = k.granted[c]
      /\ Pending(k, c) => k2.pending[c] = k.pending[c]
    BY DEF Idle, Alike, SameLife, SamePast, Books, Terms, WaitTerms
<1>4. /\ Queue(m2, c) = Queue(m, c) /\ m2.box.credits[c] = m.box.credits[c]
      /\ (Inflight(m2, c) <=> Inflight(m, c))
      /\ m2.put[c] = m.put[c] /\ m2.metered[c] = m.metered[c] /\ m2.granted[c] = m.granted[c]
      /\ m2.got[c] = m.got[c]
      /\ Inflight(m, c) => /\ m2.inflight[c].m = m.inflight[c].m
                           /\ m2.inflight[c].credit = m.inflight[c].credit
                           /\ m2.inflight[c].inboundClosed = m.inflight[c].inboundClosed
    BY DEF Idle, Alike, SameLife, Books, Terms, RunTerms
<1>5. Unopened(k2, out2, c) <=> Unopened(k, out, c)
    BY <1>2, <1>3 DEF Unopened
<1>6. OutOf(k2, out2, c) = OutOf(k, out, c) /\ OutOf(m2, back2, c) = OutOf(m, back, c)
    BY <1>1, <1>2, <1>3, <1>4 DEF Keeps, OutOf
<1>7. ReadUpTo(m2, c) = ReadUpTo(m, c)
    BY <1>4 DEF ReadUpTo
<1>8. /\ Through(Len(k2.outcomes[c]), back2, Queue(m2, c), c) = Through(Len(k.outcomes[c]), back, Queue(m, c), c)
      /\ Through(ReadUpTo(m2, c), out2, Queue(k2, c), c) = Through(ReadUpTo(m, c), out, Queue(k, c), c)
    BY <1>1, <1>2, <1>3, <1>4, <1>7 DEF Keeps
<1>9. Past(k2, m2, out2, c)
    BY <1>3, <1>4, <1>5 DEF Flow, Past, Untouched
<1>10. Owed(k2, out2, c)
    BY <1>3, <1>5, <1>6 DEF Flow, Owed
<1>11. Square(k2, m2, out2, back2, c)
    BY <1>3, <1>4, <1>6 DEF Flow, Square
<1>12. Down(k2, m2, out2, back2, c)
    BY <1>3, <1>4, <1>5, <1>8 DEF Flow, Down
<1>13. Up(k2, m2, out2, c)
    BY <1>3, <1>4, <1>5, <1>8 DEF Flow, Up, Said
<1> QED
    BY <1>9, <1>10, <1>11, <1>12, <1>13 DEF Flow

-----------------------------------------------------------------------------
\* What the caller does by itself.

LEMMA CallerBegins ==
    ASSUME NEW s \in Side, NEW c \in Calls, NEW k, NEW m, NEW out, NEW back, Scene(k, m, out, back, c),
           Flow(k, m, out, back, c), c \notin k.issued,
           NEW l \in CoreType, Begun(s, k, l, c)
    PROVE  Flow(l, m, out, back, c)
<1>1. /\ k \in CoreType /\ m \in CoreType /\ out \in Seq(Frame) /\ back \in Seq(Frame)
    BY SceneFacts
<1>2. /\ ~Inflight(m, c) /\ Queue(m, c) = <<>> /\ m.box.credits[c] = NoCredit /\ ~Mentions(back, c)
      /\ Queue(k, c) = <<>> /\ k.box.credits[c] = NoCredit /\ ~Mentions(out, c)
    BY DEF Scene, Linked, Silent
<1>3. k.put[c] = 0 /\ k.outcomes[c] = <<>> /\ Untouched(k, m, c)
      /\ m.got[c] = Counting(Len(m.got[c]))
    BY DEF Flow, Past
<1>4. PICK f \in Frame : /\ f.kind = "REQUEST" /\ f.call = c /\ Queue(l, c) = Append(Queue(k, c), f)
                         /\ l.granted[c] = f.ctx.credit
    BY DEF Begun
<1>5. /\ c \in l.issued /\ Pending(l, c) /\ l.box.credits[c] = NoCredit /\ l.outcomes[c] = <<>>
      /\ l.put[c] = 0 /\ l.metered[c] = k.metered[c]
      /\ ~l.pending[c].established /\ ~l.pending[c].sendClosed /\ l.pending[c].credit = 0
    BY <1>2, <1>3 DEF Begun, Opened
<1>6. PICK q \in Seq(Frame) : q = Append(<<>>, f)
    <2>1. <<>> \in Seq(Frame)
        OBVIOUS
    <2>2. Append(<<>>, f) \in Seq(Frame)
        BY <2>1
    <2> QED
        BY <2>2
<1>7. Queue(l, c) = q
    BY <1>2, <1>4, <1>6
<1>8. Unopened(l, out, c)
    <2>1. <<>> \in Seq(Frame)
        OBVIOUS
    <2>2. Has(q, Requests)
        BY ZenonT(60), <1>4, <1>6, <2>1, QueueAppend, KindSets
    <2> QED
        BY <1>7, <2>2 DEF Unopened
<1>9. Reach(0, q, c) = 0 /\ CarriedBy(q, c) = f.ctx.credit /\ f.ctx.credit \in Nat /\ Carried(f, c) \in Nat
    <2>1. PICK e \in Seq(Frame), z \in Int : e = <<>> /\ z = 0
        <3>1. <<>> \in Seq(Frame) /\ 0 \in Int
            OBVIOUS
        <3> QED
            BY <3>1
    <2>2. Reach(z, <<>>, c) = z
        BY ReachFacts
    <2>3. CarriedBy(<<>>, c) = 0
        BY <2>1, CarriedFacts
    <2>4. Reach(z, Append(e, f), c) = Follow(Reach(z, e, c), f, c)
        BY ReachFacts
    <2>5. CarriedBy(Append(e, f), c) = CarriedBy(e, c) + Carried(f, c)
        BY CarriedFacts
    <2>6. Follow(z, f, c) = z
        BY <1>4 DEF Follow
    <2>7. Carried(f, c) = f.ctx.credit
        BY <1>4 DEF Carried
    <2>8. Carried(f, c) \in Nat
        BY CarriedType
    <2> QED
        BY <1>6, <2>1, <2>2, <2>3, <2>4, <2>5, <2>6, <2>7, <2>8
<1>10. 0 \in Int /\ NoCredit \in Credits /\ <<>> \in Seq(Frame)
    BY DEF Credits
<1>11. /\ Through(0, out, q, c) = Reach(0, q, c)
       /\ Coming(NoCredit, out, q, c) = Amount(NoCredit) + CarriedBy(q, c)
    BY <1>1, <1>2, <1>10, WayEmpty
<1>12. Through(0, back, <<>>, c) = 0
    BY <1>1, <1>2, <1>10, WayEmpty
<1>13. OutOf(l, out, c) = l.granted[c] /\ l.granted[c] \in Nat
    <2>1. Amount(NoCredit) = 0
        BY DEF Amount
    <2> QED
        BY <1>4, <1>5, <1>7, <1>9, <1>11, <2>1 DEF OutOf
<1>14. Past(l, m, out, c)
    <2>1. Untouched(l, m, c)
        BY <1>3, <1>5 DEF Untouched
    <2>2. Counted(l.outcomes[c]) /\ ~EndsWell(l.outcomes[c])
        BY <1>5 DEF Counted, EndsWell
    <2> QED
        BY <1>3, <1>5, <2>1, <2>2 DEF Past
<1>15. Owed(l, out, c)
    BY <1>5, <1>13 DEF Owed, Balanced
<1>16. Square(l, m, out, back, c)
    BY <1>2 DEF Square
<1>17. Down(l, m, out, back, c)
    <2>1. Len(l.outcomes[c]) = 0 /\ m.put[c] = 0
        BY <1>3, <1>5 DEF Untouched
    <2> QED
        BY <1>2, <1>8, <1>12, <2>1 DEF Down
<1>18. Up(l, m, out, c)
    <2>1. ReadUpTo(m, c) = 0
        BY <1>2, <1>3 DEF ReadUpTo, Untouched
    <2> QED
        BY <1>5, <1>7, <1>9, <1>11, <2>1 DEF Up, Said
<1> QED
    BY <1>14, <1>15, <1>16, <1>17, <1>18 DEF Flow

LEMMA BalancedAllowed ==
    ASSUME NEW g \in Nat, NEW b \in Nat, NEW x \in Nat, Balanced(g, b + x), NEW items \in Nat
    PROVE  Balanced(g + items, SaturatingAdd(b, items) + x)
<1>1. MaxU32 \in Nat
    BY QueueConstants
<1> QED
    BY <1>1 DEF Balanced, SaturatingAdd

LEMMA BalancedTaken ==
    ASSUME NEW g \in Nat, NEW n \in Nat, NEW h \in Nat, NEW x \in Nat, Balanced(g, n + h + x)
    PROVE  Balanced(g, SaturatingAdd(h, n) + x)
<1>1. MaxU32 \in Nat
    BY QueueConstants
<1> QED
    BY <1>1 DEF Balanced, SaturatingAdd

LEMMA SaturatingAmount ==
    ASSUME NEW b \in Nat, NEW items \in Nat, NEW a, a = SaturatingAdd(b, items)
    PROVE  Amount(a) = a /\ a \in Nat /\ a # NoCredit
<1>1. MaxU32 \in Nat
    BY QueueConstants
<1> QED
    BY <1>1 DEF SaturatingAdd, Amount, NoCredit

LEMMA CountedAppend ==
    ASSUME NEW o \in Seq(Outcome), Counted(o), NEW x \in Outcome, NEW p, p = Append(o, x),
           Terminates(x) \/ x.n = Len(o) + 1
    PROVE  Counted(p)
<1>1. ASSUME NEW i \in 1..Len(p) PROVE Terminates(p[i]) \/ p[i].n = i
    <2>1. CASE i = Len(o) + 1
        BY <2>1
    <2>2. CASE i # Len(o) + 1
        <3>1. i \in 1..Len(o) /\ p[i] = o[i]
            BY <2>2
        <3> QED
            BY <3>1 DEF Counted
    <2> QED
        BY <2>1, <2>2
<1> QED
    BY <1>1 DEF Counted

LEMMA CallerItem ==
    ASSUME NEW s \in Side, NEW c \in Calls, NEW k, NEW m, NEW out, NEW back, Scene(k, m, out, back, c),
           Flow(k, m, out, back, c), NEW l \in CoreType, ItemSaid(s, k, l, c)
    PROVE  Flow(l, m, out, back, c)
<1>1. PICK f \in Frame : /\ f.kind = "ITEM" /\ f.call = c /\ f.n = k.put[c] + 1
                         /\ Queue(l, c) = Append(Queue(k, c), f)
    BY DEF ItemSaid
<1>2. /\ Pending(k, c) /\ ~Inflight(k, c) /\ k \in CoreType /\ m \in CoreType
    BY DEF Scene, ItemSaid, Queued
<1>3. /\ Pending(l, c) /\ (c \in l.issued <=> c \in k.issued)
      /\ l.box.credits[c] = k.box.credits[c] /\ l.outcomes[c] = k.outcomes[c]
      /\ l.put[c] = k.put[c] + 1 /\ l.granted[c] = k.granted[c]
      /\ ~k.pending[c].sendClosed /\ ~l.pending[c].sendClosed
      /\ l.pending[c].established = k.pending[c].established
      /\ Spends(k.pending[c], l.pending[c], k.metered[c], l.metered[c])
    BY <1>2 DEF ItemSaid, Queued, SameLife, SamePast
<1>4. /\ out \in Seq(Frame) /\ Queue(k, c) \in Seq(Frame) /\ k.box.credits[c] \in Credits
      /\ ReadUpTo(m, c) \in Int /\ k.put[c] \in Nat /\ OutOf(k, out, c) \in Nat /\ OutOf(m, back, c) \in Nat
      /\ k.metered[c] \in Nat
    BY SceneFacts
<1>5. k.pending[c].credit \in Nat /\ l.pending[c].credit \in Nat /\ l.metered[c] \in Nat
    BY <1>2, <1>3, RecordTypes, CallTypes
<1>6. Unopened(l, out, c) <=> Unopened(k, out, c)
    <2>1. Has(Queue(l, c), Requests) <=> Has(Queue(k, c), Requests) \/ f.kind \in Requests
        BY <1>1, <1>4, QueueAppend
    <2> QED
        BY <1>1, <2>1, KindSets DEF Unopened
<1>7. Grows(out, Queue(k, c), out, Queue(l, c), f, c) /\ Carried(f, c) = 0
    <2>1. Grows(out, Queue(k, c), out, Queue(l, c), f, c)
        BY <1>1, <1>4, WayQueued
    <2> QED
        BY <1>1, <2>1 DEF Carried
<1>8. OutOf(l, out, c) = OutOf(k, out, c)
    <2>1. OutOf(l, out, c) = OutOf(k, out, c) + 0
        BY <1>3, <1>4, <1>7 DEF Grows, OutOf
    <2> QED
        BY <1>4, <2>1
<1>9. Past(l, m, out, c)
    <2>1. c \in k.issued
        BY <1>2 DEF Scene
    <2>2. Unopened(k, out, c) => ~k.pending[c].established
        BY <1>2 DEF Flow, Owed
    <2>3. Unopened(k, out, c) => l.metered[c] = k.metered[c]
        BY <1>3, <2>2 DEF Spends
    <2>4. Unopened(k, out, c) => Untouched(l, m, c)
        BY <2>3 DEF Flow, Past, Untouched
    <2> QED
        BY <1>3, <1>6, <2>1, <2>4 DEF Flow, Past
<1>10. Owed(l, out, c)
    <2>1. ASSUME Unopened(k, out, c)
          PROVE  /\ ~k.pending[c].established /\ k.pending[c].credit = 0
                 /\ Balanced(k.granted[c], OutOf(k, out, c))
        BY <1>2, <2>1 DEF Flow, Owed
    <2>2. ASSUME Unopened(k, out, c) PROVE l.pending[c].credit = 0
        BY <1>3, <2>1, <2>2 DEF Spends
    <2> QED
        BY <1>3, <1>6, <1>8, <2>1, <2>2 DEF Owed
<1>11. Square(l, m, out, back, c)
    <2>1. OutOf(m, back, c) + l.pending[c].credit + l.metered[c] = OutOf(m, back, c) + k.pending[c].credit + k.metered[c]
        <3>1. l.pending[c].credit + l.metered[c] = k.pending[c].credit + k.metered[c]
            BY <1>3 DEF Spends
        <3>2. PICK a \in Nat, b \in Nat, d \in Nat, e \in Nat, x \in Nat :
                  /\ a = l.pending[c].credit /\ b = l.metered[c] /\ d = k.pending[c].credit
                  /\ e = k.metered[c] /\ x = OutOf(m, back, c)
            BY <1>4, <1>5
        <3>3. x + a + b = x + d + e
            BY <3>1, <3>2
        <3> QED
            BY <3>2, <3>3
    <2> QED
        BY <1>2, <1>3, <1>8, <2>1 DEF Flow, Square
<1>12. Down(l, m, out, back, c)
    BY <1>2, <1>3, <1>6 DEF Flow, Down
<1>13. Up(l, m, out, c)
    <2>1. ASSUME Inflight(m, c) \/ Unopened(k, out, c)
          PROVE  Through(ReadUpTo(m, c), out, Queue(l, c), c) = l.put[c]
        <3>1. Through(ReadUpTo(m, c), out, Queue(k, c), c) = k.put[c]
            BY <1>2, <1>3, <2>1 DEF Flow, Up, Said
        <3>2. Through(ReadUpTo(m, c), out, Queue(l, c), c) = Follow(k.put[c], f, c)
            BY <1>4, <1>7, <3>1 DEF Grows
        <3> QED
            BY <1>1, <1>3, <1>4, <3>2 DEF Follow
    <2> QED
        BY <1>3, <1>6, <2>1 DEF Up, Said
<1> QED
    BY <1>9, <1>10, <1>11, <1>12, <1>13 DEF Flow

LEMMA CallerEnds ==
    ASSUME NEW s \in Side, NEW c \in Calls, NEW k, NEW m, NEW out, NEW back, Scene(k, m, out, back, c),
           Flow(k, m, out, back, c), NEW l \in CoreType, EndSaid(s, k, l, c)
    PROVE  Flow(l, m, out, back, c)
<1>1. PICK f \in Frame : f.kind = "END" /\ f.call = c /\ Queue(l, c) = Append(Queue(k, c), f)
    BY DEF EndSaid
<1>2. /\ Pending(k, c) /\ ~Inflight(k, c) /\ k \in CoreType /\ m \in CoreType
    BY DEF Scene, EndSaid
<1>3. /\ Pending(l, c) /\ (c \in l.issued <=> c \in k.issued)
      /\ l.box.credits[c] = k.box.credits[c] /\ l.outcomes[c] = k.outcomes[c]
      /\ l.put[c] = k.put[c] /\ l.granted[c] = k.granted[c] /\ l.metered[c] = k.metered[c]
      /\ ~k.pending[c].sendClosed /\ l.pending[c].sendClosed
      /\ l.pending[c].established = k.pending[c].established
      /\ l.pending[c].credit = k.pending[c].credit
    BY <1>2 DEF EndSaid, Queued, SameLife, SamePast, Books
<1>4. /\ out \in Seq(Frame) /\ Queue(k, c) \in Seq(Frame) /\ k.box.credits[c] \in Credits
      /\ ReadUpTo(m, c) \in Int /\ k.put[c] \in Nat /\ OutOf(k, out, c) \in Nat
    BY SceneFacts
<1>5. Unopened(l, out, c) <=> Unopened(k, out, c)
    <2>1. Has(Queue(l, c), Requests) <=> Has(Queue(k, c), Requests) \/ f.kind \in Requests
        BY <1>1, <1>4, QueueAppend
    <2>2. f.kind \notin Requests
        BY <1>1 DEF Requests
    <2> QED
        BY <2>1, <2>2 DEF Unopened
<1>6. Grows(out, Queue(k, c), out, Queue(l, c), f, c) /\ Carried(f, c) = 0
    <2>1. Grows(out, Queue(k, c), out, Queue(l, c), f, c)
        BY <1>1, <1>4, WayQueued
    <2> QED
        BY <1>1, <2>1 DEF Carried
<1>7. OutOf(l, out, c) = OutOf(k, out, c)
    <2>1. OutOf(l, out, c) = OutOf(k, out, c) + 0
        BY <1>3, <1>4, <1>6 DEF Grows, OutOf
    <2> QED
        BY <1>4, <2>1
<1>8. Past(l, m, out, c)
    <2>1. c \in k.issued
        BY <1>2 DEF Scene
    <2> QED
        BY <1>3, <1>5, <2>1 DEF Flow, Past, Untouched
<1>9. Owed(l, out, c)
    BY <1>2, <1>3, <1>5, <1>7 DEF Flow, Owed
<1>10. Square(l, m, out, back, c)
    BY <1>2, <1>3, <1>7 DEF Flow, Square
<1>11. Down(l, m, out, back, c)
    BY <1>2, <1>3, <1>5 DEF Flow, Down
<1>12. Up(l, m, out, c)
    <2>1. ASSUME Inflight(m, c) \/ Unopened(k, out, c)
          PROVE  Through(ReadUpTo(m, c), out, Queue(l, c), c) = Shut(l.put[c])
        <3>1. Through(ReadUpTo(m, c), out, Queue(k, c), c) = k.put[c]
            BY <1>2, <1>3, <2>1 DEF Flow, Up, Said
        <3>2. Through(ReadUpTo(m, c), out, Queue(l, c), c) = Follow(k.put[c], f, c)
            BY <1>4, <1>6, <3>1 DEF Grows
        <3> QED
            BY <1>1, <1>3, <1>4, <3>2 DEF Follow
    <2> QED
        BY <1>3, <1>5, <2>1 DEF Up, Said
<1> QED
    BY <1>8, <1>9, <1>10, <1>11, <1>12 DEF Flow

\* An allowance that waits behind others is worth what was granted, until the
\* sum saturates.
LEMMA AllowedBalance ==
    ASSUME NEW s, NEW c \in Calls, NEW k \in CoreType, NEW l, Allowed(s, k, l, c),
           NEW n \in Seq(Frame), NEW h \in Nat, Balanced(k.granted[c], OutOf(k, n, c) + h)
    PROVE  Balanced(l.granted[c], OutOf(l, n, c) + h)
<1>1. PICK items \in Nat : /\ l.box.credits[c] = SaturatingAdd(Amount(k.box.credits[c]), items)
                           /\ l.granted[c] = k.granted[c] + items
    BY DEF Allowed
<1>2. Queue(l, c) = Queue(k, c)
    BY DEF Allowed
<1>3. PICK b \in Nat, x \in Nat, y \in Nat, g \in Nat :
        /\ b = Amount(k.box.credits[c]) /\ x = CarriedBy(Queue(k, c), c)
        /\ y = CarriedBy(n, c) /\ g = k.granted[c]
    BY CallTypes, CarriedFacts, AmountType
<1>4. PICK a : a = SaturatingAdd(b, items)
    OBVIOUS
<1>5. Amount(a) = a /\ a \in Nat
    BY <1>4, SaturatingAmount
<1>6. OutOf(k, n, c) = b + x + y /\ OutOf(l, n, c) = a + x + y
    BY <1>1, <1>2, <1>3, <1>4, <1>5 DEF OutOf, Coming
<1>7. PICK z \in Nat : z = x + y + h
    OBVIOUS
<1>8. Balanced(g, b + z)
    <2>1. b + z = b + x + y + h
        BY <1>7
    <2> QED
        BY <1>3, <1>6, <2>1
<1>9. Balanced(g + items, SaturatingAdd(b, items) + z)
    BY <1>8, BalancedAllowed
<1>10. a + z = a + x + y + h
    BY <1>5, <1>7
<1> QED
    BY <1>1, <1>3, <1>4, <1>6, <1>9, <1>10

LEMMA CallerAllows ==
    ASSUME NEW s \in Side, NEW c \in Calls, NEW k, NEW m, NEW out, NEW back, Scene(k, m, out, back, c),
           Flow(k, m, out, back, c), NEW l \in CoreType, Allowed(s, k, l, c)
    PROVE  Flow(l, m, out, back, c)
<1>1. Pending(k, c) /\ ~Inflight(k, c) /\ k \in CoreType /\ m \in CoreType
    BY DEF Scene, Allowed
<1>2. /\ Pending(l, c) /\ (c \in l.issued <=> c \in k.issued)
      /\ Queue(l, c) = Queue(k, c) /\ l.outcomes[c] = k.outcomes[c]
      /\ l.put[c] = k.put[c] /\ l.metered[c] = k.metered[c]
      /\ l.pending[c] = k.pending[c]
    BY <1>1 DEF Allowed, SameLife, SamePast, Terms, WaitTerms
<1>3. /\ out \in Seq(Frame) /\ OutOf(k, out, c) \in Nat /\ m.metered[c] \in Nat
    BY SceneFacts
<1>4. Unopened(l, out, c) <=> Unopened(k, out, c)
    BY <1>2 DEF Unopened
<1>5. ASSUME NEW h \in Nat, Balanced(k.granted[c], OutOf(k, out, c) + h)
      PROVE  Balanced(l.granted[c], OutOf(l, out, c) + h)
    BY <1>1, <1>3, <1>5, AllowedBalance
<1>6. Past(l, m, out, c)
    BY <1>2, <1>4 DEF Flow, Past, Untouched
<1>7. Owed(l, out, c)
    <2>1. ASSUME Unopened(k, out, c)
          PROVE  /\ ~k.pending[c].established /\ k.pending[c].credit = 0
                 /\ Balanced(k.granted[c], OutOf(k, out, c))
        BY <1>1, <2>1 DEF Flow, Owed
    <2>2. OutOf(k, out, c) = OutOf(k, out, c) + 0
        BY <1>3
    <2>3. OutOf(l, out, c) \in Nat
        BY <1>2, <1>3, CallTypes, WayType DEF OutOf
    <2>4. OutOf(l, out, c) = OutOf(l, out, c) + 0
        BY <2>3
    <2>5. 0 \in Nat
        OBVIOUS
    <2> QED
        BY <1>2, <1>4, <1>5, <2>1, <2>2, <2>4, <2>5 DEF Owed
<1>8. Square(l, m, out, back, c)
    <2>1. SUFFICES ASSUME Inflight(m, c)
                   PROVE  /\ Balanced(l.granted[c], OutOf(l, out, c) + m.inflight[c].credit + m.metered[c])
                          /\ Balanced(m.granted[c], OutOf(m, back, c) + k.pending[c].credit + k.metered[c])
        BY <1>2 DEF Square
    <2>2. /\ Balanced(k.granted[c], OutOf(k, out, c) + m.inflight[c].credit + m.metered[c])
          /\ Balanced(m.granted[c], OutOf(m, back, c) + k.pending[c].credit + k.metered[c])
        BY <1>1, <2>1 DEF Flow, Square
    <2>3. PICK a \in Nat, b \in Nat, x \in Nat, y \in Nat :
            /\ a = m.inflight[c].credit /\ b = m.metered[c]
            /\ x = OutOf(k, out, c) /\ y = OutOf(l, out, c)
        <3>1. m.inflight[c].credit \in Nat
            BY <1>1, <2>1, RecordTypes
        <3>2. OutOf(l, out, c) \in Nat
            BY <1>2, <1>3, CallTypes, WayType DEF OutOf
        <3> QED
            BY <1>3, <3>1, <3>2
    <2>4. PICK h \in Nat : h = a + b /\ x + a + b = x + h /\ y + a + b = y + h
        OBVIOUS
    <2>5. Balanced(l.granted[c], OutOf(l, out, c) + h)
        BY <1>5, <2>2, <2>3, <2>4
    <2> QED
        BY <2>2, <2>3, <2>4, <2>5
<1>9. Down(l, m, out, back, c)
    BY <1>1, <1>2, <1>4 DEF Flow, Down
<1>10. Up(l, m, out, c)
    BY <1>1, <1>2, <1>4 DEF Flow, Up, Said
<1> QED
    BY <1>6, <1>7, <1>8, <1>9, <1>10 DEF Flow

\* A call that completes at its caller leaves the callee a beginning to hear.
LEMMA MuteHas ==
    ASSUME NEW q, Mute(q)
    PROVE  ~Has(q, Requests) /\ ~Has(q, {"CREDIT"})
BY DEF Mute, Has, Requests

LEMMA CallerGone ==
    ASSUME NEW c \in Calls, NEW k, NEW m, NEW out, NEW back, Scene(k, m, out, back, c),
           Flow(k, m, out, back, c), NEW l \in CoreType, Gone(k, l, c)
    PROVE  Flow(l, m, out, back, c)
<1>1. Pending(k, c) /\ c \in k.issued /\ k \in CoreType /\ m \in CoreType
    BY DEF Scene, Gone, Settled
<1>2. /\ ~Pending(l, c) /\ (c \in l.issued <=> c \in k.issued)
      /\ l.put[c] = k.put[c] /\ l.metered[c] = k.metered[c]
      /\ Mute(Queue(l, c)) /\ ~EndsWell(l.outcomes[c])
    BY DEF Gone, Settled, SamePast, Books
<1>3. Unopened(l, out, c) => Unopened(k, out, c)
    BY <1>2, MuteHas DEF Unopened
<1>4. /\ out \in Seq(Frame) /\ Queue(k, c) \in Seq(Frame) /\ ReadUpTo(m, c) \in Int /\ k.put[c] \in Nat
    BY SceneFacts
<1>5. Past(l, m, out, c)
    <2>1. PICK o \in Outcome : Terminates(o) /\ l.outcomes[c] = Append(k.outcomes[c], o)
        BY DEF Gone, Settled
    <2>2. k.outcomes[c] \in Seq(Outcome)
        BY <1>1, CallTypes
    <2>3. Counted(k.outcomes[c])
        BY DEF Flow, Past
    <2>4. Counted(l.outcomes[c])
        BY <2>1, <2>2, <2>3, CountedAppend
    <2> QED
        BY <1>1, <1>2, <1>3, <2>4 DEF Flow, Past, Untouched
<1>6. Owed(l, out, c) /\ Square(l, m, out, back, c) /\ Down(l, m, out, back, c)
    BY <1>2 DEF Owed, Square, Down
<1>7. Up(l, m, out, c)
    <2>1. SUFFICES ASSUME Inflight(m, c) \/ Unopened(l, out, c)
                   PROVE  Sound(Through(ReadUpTo(m, c), out, Queue(l, c), c), l.put[c])
        BY <1>2 DEF Up
    <2>2. Through(ReadUpTo(m, c), out, Queue(k, c), c) = Said(k, c)
        BY <1>1, <1>3, <2>1 DEF Flow, Up
    <2>3. Sound(Through(ReadUpTo(m, c), out, Queue(k, c), c), k.put[c])
        BY <1>4, <2>2, SoundExact DEF Said
    <2>4. Queue(l, c) \in Seq(Frame)
        BY CallTypes
    <2>5. Sound(Through(ReadUpTo(m, c), out, Queue(l, c), c), k.put[c])
        BY <1>2, <1>4, <2>3, <2>4, SoundPart
    <2> QED
        BY <1>2, <2>5
<1> QED
    BY <1>5, <1>6, <1>7 DEF Flow

-----------------------------------------------------------------------------
\* What the callee does by itself.

\* A running handler's call was opened and its REQUEST has been read.
LEMMA RunningScene ==
    ASSUME NEW c \in Calls, NEW k, NEW m, NEW out, NEW back, Scene(k, m, out, back, c), Inflight(m, c)
    PROVE  c \in k.issued /\ ~Unopened(k, out, c)
BY DEF Scene, Linked, Silent

LEMMA CalleeItem ==
    ASSUME NEW s \in Side, NEW c \in Calls, NEW k, NEW m, NEW out, NEW back, Scene(k, m, out, back, c),
           Flow(k, m, out, back, c), NEW l \in CoreType, ItemSaid(s, m, l, c)
    PROVE  Flow(k, l, out, back, c)
<1>1. PICK f \in Frame : /\ f.kind = "ITEM" /\ f.call = c /\ f.n = m.put[c] + 1
                         /\ Queue(l, c) = Append(Queue(m, c), f)
    BY DEF ItemSaid
<1>2. Inflight(m, c) /\ ~Pending(m, c) /\ k \in CoreType /\ m \in CoreType
    BY DEF Scene, ItemSaid, Queued
<1>3. c \in k.issued /\ ~Unopened(k, out, c)
    BY <1>2, RunningScene
<1>4. /\ Inflight(l, c)
      /\ l.box.credits[c] = m.box.credits[c] /\ l.got[c] = m.got[c]
      /\ l.put[c] = m.put[c] + 1 /\ l.granted[c] = m.granted[c]
      /\ l.inflight[c].m = m.inflight[c].m
      /\ l.inflight[c].inboundClosed = m.inflight[c].inboundClosed
      /\ Spends(m.inflight[c], l.inflight[c], m.metered[c], l.metered[c])
    BY <1>2 DEF ItemSaid, Queued, SameLife
<1>5. /\ back \in Seq(Frame) /\ Queue(m, c) \in Seq(Frame) /\ m.box.credits[c] \in Credits
      /\ Len(k.outcomes[c]) \in Int /\ m.put[c] \in Nat /\ OutOf(k, out, c) \in Nat /\ OutOf(m, back, c) \in Nat
      /\ m.metered[c] \in Nat
    BY SceneFacts
<1>6. Grows(back, Queue(m, c), back, Queue(l, c), f, c) /\ Carried(f, c) = 0
    <2>1. Grows(back, Queue(m, c), back, Queue(l, c), f, c)
        BY <1>1, <1>5, WayQueued
    <2> QED
        BY <1>1, <2>1 DEF Carried
<1>7. OutOf(l, back, c) = OutOf(m, back, c)
    <2>1. OutOf(l, back, c) = OutOf(m, back, c) + 0
        BY <1>4, <1>5, <1>6 DEF Grows, OutOf
    <2> QED
        BY <1>5, <2>1
<1>8. Past(k, l, out, c)
    BY <1>2, <1>3, <1>4 DEF Flow, Past
<1>9. Owed(k, out, c)
    BY DEF Flow
<1>10. Square(k, l, out, back, c)
    <2>1. l.inflight[c].credit + l.metered[c] = m.inflight[c].credit + m.metered[c]
        BY <1>4 DEF Spends
    <2>2. PICK a \in Nat, b \in Nat, d \in Nat, e \in Nat, x \in Nat :
              /\ a = l.inflight[c].credit /\ b = l.metered[c] /\ d = m.inflight[c].credit
              /\ e = m.metered[c] /\ x = OutOf(k, out, c)
        BY <1>2, <1>4, <1>5, CallTypes, RecordTypes
    <2>3. x + a + b = x + d + e
        BY <2>1, <2>2
    <2>4. OutOf(k, out, c) + l.inflight[c].credit + l.metered[c] = OutOf(k, out, c) + m.inflight[c].credit + m.metered[c]
        BY <2>2, <2>3
    <2> QED
        BY <1>2, <1>4, <1>7, <2>4 DEF Flow, Square
<1>11. Down(k, l, out, back, c)
    <2>1. ASSUME Pending(k, c) PROVE Through(Len(k.outcomes[c]), back, Queue(l, c), c) = l.put[c]
        <3>1. Through(Len(k.outcomes[c]), back, Queue(m, c), c) = m.put[c]
            BY <1>2, <2>1 DEF Flow, Down
        <3>2. Through(Len(k.outcomes[c]), back, Queue(l, c), c) = Follow(m.put[c], f, c)
            BY <1>5, <1>6, <3>1 DEF Grows
        <3> QED
            BY <1>1, <1>4, <1>5, <3>2 DEF Follow
    <2> QED
        BY <1>4, <2>1 DEF Down
<1>12. Up(k, l, out, c)
    <2>1. ReadUpTo(l, c) = ReadUpTo(m, c)
        BY <1>2, <1>4 DEF ReadUpTo
    <2> QED
        BY <1>2, <1>4, <2>1 DEF Flow, Up
<1> QED
    BY <1>8, <1>9, <1>10, <1>11, <1>12 DEF Flow

LEMMA CalleeAllows ==
    ASSUME NEW s \in Side, NEW c \in Calls, NEW k, NEW m, NEW out, NEW back, Scene(k, m, out, back, c),
           Flow(k, m, out, back, c), NEW l \in CoreType, Allowed(s, m, l, c)
    PROVE  Flow(k, l, out, back, c)
<1>1. Inflight(m, c) /\ ~Pending(m, c) /\ k \in CoreType /\ m \in CoreType
    BY DEF Scene, Allowed
<1>2. c \in k.issued /\ ~Unopened(k, out, c)
    BY <1>1, RunningScene
<1>3. /\ Inflight(l, c) /\ Queue(l, c) = Queue(m, c) /\ l.got[c] = m.got[c]
      /\ l.put[c] = m.put[c] /\ l.metered[c] = m.metered[c]
      /\ l.inflight[c].m = m.inflight[c].m /\ l.inflight[c].credit = m.inflight[c].credit
      /\ l.inflight[c].inboundClosed = m.inflight[c].inboundClosed
    BY <1>1 DEF Allowed, SameLife, Terms, RunTerms
<1>4. back \in Seq(Frame) /\ OutOf(m, back, c) \in Nat /\ k.metered[c] \in Nat
    BY SceneFacts
<1>5. Past(k, l, out, c)
    BY <1>1, <1>2, <1>3 DEF Flow, Past
<1>6. Owed(k, out, c)
    BY DEF Flow
<1>7. Square(k, l, out, back, c)
    <2>1. SUFFICES ASSUME Pending(k, c)
                   PROVE  /\ Balanced(k.granted[c], OutOf(k, out, c) + l.inflight[c].credit + l.metered[c])
                          /\ Balanced(l.granted[c], OutOf(l, back, c) + k.pending[c].credit + k.metered[c])
        BY DEF Square
    <2>2. /\ Balanced(k.granted[c], OutOf(k, out, c) + m.inflight[c].credit + m.metered[c])
          /\ Balanced(m.granted[c], OutOf(m, back, c) + k.pending[c].credit + k.metered[c])
        BY <1>1, <2>1 DEF Flow, Square
    <2>3. PICK a \in Nat, b \in Nat, x \in Nat, y \in Nat :
            /\ a = k.pending[c].credit /\ b = k.metered[c]
            /\ x = OutOf(m, back, c) /\ y = OutOf(l, back, c)
        <3>1. k.pending[c].credit \in Nat
            BY <1>1, <2>1, RecordTypes
        <3>2. OutOf(l, back, c) \in Nat
            BY <1>3, <1>4, CallTypes, WayType DEF OutOf
        <3> QED
            BY <1>4, <3>1, <3>2
    <2>4. PICK h \in Nat : h = a + b /\ x + a + b = x + h /\ y + a + b = y + h
        OBVIOUS
    <2>5. Balanced(m.granted[c], OutOf(m, back, c) + h)
        BY <2>2, <2>3, <2>4
    <2>6. Balanced(l.granted[c], OutOf(l, back, c) + h)
        BY <1>1, <1>4, <2>5, AllowedBalance
    <2> QED
        BY <1>3, <2>2, <2>3, <2>4, <2>6
<1>8. Down(k, l, out, back, c)
    BY <1>1, <1>3 DEF Flow, Down
<1>9. Up(k, l, out, c)
    <2>1. ReadUpTo(l, c) = ReadUpTo(m, c)
        BY <1>1, <1>3 DEF ReadUpTo
    <2> QED
        BY <1>1, <1>3, <2>1 DEF Flow, Up
<1> QED
    BY <1>5, <1>6, <1>7, <1>8, <1>9 DEF Flow

\* A handler that ends leaves its caller a beginning to hear, or, if its END
\* is queued behind all its items, the whole.
LEMMA CalleeOver ==
    ASSUME NEW s \in Side, NEW c \in Calls, NEW k, NEW m, NEW out, NEW back, Scene(k, m, out, back, c),
           Flow(k, m, out, back, c), NEW l \in CoreType, Over(s, m, l, c)
    PROVE  Flow(k, l, out, back, c)
<1>1. Inflight(m, c) /\ k \in CoreType /\ m \in CoreType
    BY DEF Scene, Over, Finished
<1>2. c \in k.issued /\ ~Unopened(k, out, c)
    BY <1>1, RunningScene
<1>3. /\ ~Inflight(l, c) /\ l.got[c] = m.got[c] /\ l.put[c] = m.put[c]
      /\ \/ Mute(Queue(l, c))
         \/ \E f \in Frame : f.call = c /\ f.kind \in LastKinds /\ Queue(l, c) = Append(Queue(m, c), f)
    BY DEF Over, Finished, Books
<1>4. /\ back \in Seq(Frame) /\ Queue(m, c) \in Seq(Frame) /\ Len(k.outcomes[c]) \in Int /\ m.put[c] \in Nat
      /\ Queue(l, c) \in Seq(Frame)
    BY SceneFacts, CallTypes
<1>5. Past(k, l, out, c)
    BY <1>1, <1>2, <1>3 DEF Flow, Past
<1>6. Owed(k, out, c) /\ Square(k, l, out, back, c) /\ Up(k, l, out, c)
    BY <1>2, <1>3 DEF Owed, Square, Up
<1>7. Down(k, l, out, back, c)
    <2>1. SUFFICES ASSUME Pending(k, c)
                   PROVE  Sound(Through(Len(k.outcomes[c]), back, Queue(l, c), c), m.put[c])
        BY <1>2, <1>3 DEF Down
    <2>2. Through(Len(k.outcomes[c]), back, Queue(m, c), c) = m.put[c]
        BY <1>1, <2>1 DEF Flow, Down
    <2>3. CASE Mute(Queue(l, c))
        <3>1. Sound(Through(Len(k.outcomes[c]), back, Queue(m, c), c), m.put[c])
            BY <1>4, <2>2, SoundExact
        <3> QED
            BY <1>4, <2>3, <3>1, SoundPart
    <2>4. CASE \E f \in Frame : f.call = c /\ f.kind \in LastKinds /\ Queue(l, c) = Append(Queue(m, c), f)
        <3>1. PICK f \in Frame : f.call = c /\ f.kind \in LastKinds /\ Queue(l, c) = Append(Queue(m, c), f)
            BY <2>4
        <3>2. Grows(back, Queue(m, c), back, Queue(l, c), f, c)
            BY <1>4, <3>1, WayQueued
        <3>3. Through(Len(k.outcomes[c]), back, Queue(l, c), c) = Follow(m.put[c], f, c)
            BY <1>4, <2>2, <3>2 DEF Grows
        <3>4. Follow(m.put[c], f, c) \in {m.put[c], Shut(m.put[c])}
            BY <1>4, <3>1 DEF Follow, LastKinds
        <3> QED
            BY <1>4, <3>3, <3>4, SoundExact
    <2> QED
        BY <1>3, <2>3, <2>4
<1> QED
    BY <1>5, <1>6, <1>7 DEF Flow

-----------------------------------------------------------------------------
\* The caller hears f, the next frame of the callee.

Hears(n, f, r, c) == n \in Seq(Frame) /\ n # <<>> /\ f = Head(n) /\ f \in Frame /\ f.call = c /\ r = Tail(n)

LEMMA HearsFirst ==
    ASSUME NEW c \in Calls, NEW n, NEW f, NEW r, Hears(n, f, r, c)
    PROVE  /\ f \in Frame /\ f.call = c /\ n \in Seq(Frame) /\ r \in Seq(Frame)
           /\ \A q \in Seq(Frame) : Shrinks(n, q, r, f, c)
           /\ \A K : Says(n, c, K) <=> f.kind \in K \/ Says(r, c, K)
           /\ Mentions(n, c)
<1>1. f \in Frame /\ f.call = c /\ n \in Seq(Frame) /\ n # <<>> /\ f = Head(n) /\ r = Tail(n)
    BY DEF Hears
<1>2. ASSUME NEW q \in Seq(Frame) PROVE Shrinks(n, q, r, f, c)
    BY <1>1, WayHeard
<1>3. /\ r \in Seq(Frame)
      /\ \A K : Says(n, c, K) <=> (Head(n).call = c /\ Head(n).kind \in K) \/ Says(r, c, K)
      /\ Mentions(n, c) <=> Head(n).call = c \/ Mentions(r, c)
    BY <1>1, NetTail
<1> QED
    BY <1>1, <1>2, <1>3

\* Of a call that has completed nobody counts what still comes back.
LEMMA BackUnheard ==
    ASSUME NEW k, NEW m, NEW out, NEW back, NEW c, ~Pending(k, c), Flow(k, m, out, back, c), NEW back2
    PROVE  Flow(k, m, out, back2, c)
BY DEF Flow, Owed, Square, Down

LEMMA CallerSkips ==
    ASSUME NEW s \in Side, NEW c \in Calls, NEW k, NEW m, NEW out, NEW back, Scene(k, m, out, back, c),
           Flow(k, m, out, back, c), NEW f, NEW back2, Hears(back, f, back2, c),
           f.kind # "REQUEST", f.kind = "CREDIT" /\ CreditsShared => HasCredit(s),
           NEW l \in CoreType, Skipped(s, k, l, f)
    PROVE  Flow(l, m, out, back2, c)
<1>1. f \in Frame /\ f.call = c /\ Mentions(back, c)
    BY HearsFirst
<1>2. Idle(k, l, c) /\ (Pending(k, c) => f.kind = "CANCEL" \/ (f.kind = "CREDIT" /\ ~HasCredit(s)))
    BY <1>1 DEF Skipped
<1>3. Level(out, out, c) /\ Level(back, back, c) /\ Idle(m, m, c)
    BY LevelSelf, IdleSelf
<1>4. Flow(l, m, out, back, c)
    BY <1>2, <1>3, FlowSame
<1>5. CASE ~Pending(k, c)
    <2>1. ~Pending(l, c)
        BY <1>2, <1>5 DEF Idle, Alike, SameLife
    <2> QED
        BY <1>4, <2>1, BackUnheard
<1>6. CASE Pending(k, c)
    <2>1. /\ Queue(m, c) \in Seq(Frame) /\ m.box.credits[c] \in Credits /\ Len(k.outcomes[c]) \in Int
          /\ OutOf(m, back, c) \in Nat /\ k.metered[c] \in Nat /\ m.granted[c] \in Nat
          /\ k \in CoreType /\ m \in CoreType
        BY SceneFacts
    <2>2. Shrinks(back, Queue(m, c), back2, f, c)
        BY <2>1, HearsFirst
    <2>3. l.outcomes[c] = k.outcomes[c] /\ Pending(l, c) /\ l.pending[c] = k.pending[c] /\ l.metered[c] = k.metered[c]
        BY <1>2, <1>6 DEF Idle, Alike, SameLife, Terms, WaitTerms, Books
    <2>4. \A v : Follow(v, f, c) = v
        BY <1>2, <1>6 DEF Follow
    <2>5. Through(Len(l.outcomes[c]), back2, Queue(m, c), c) = Through(Len(l.outcomes[c]), back, Queue(m, c), c)
        BY <2>1, <2>2, <2>3, <2>4 DEF Shrinks
    <2>6. Down(l, m, out, back2, c)
        BY <1>4, <2>5 DEF Flow, Down
    <2>7. Square(l, m, out, back2, c)
        <3>1. SUFFICES ASSUME Inflight(m, c)
                       PROVE  /\ Balanced(l.granted[c], OutOf(l, out, c) + m.inflight[c].credit + m.metered[c])
                              /\ Balanced(m.granted[c], OutOf(m, back2, c) + l.pending[c].credit + l.metered[c])
            BY DEF Square
        <3>2. /\ Balanced(l.granted[c], OutOf(l, out, c) + m.inflight[c].credit + m.metered[c])
              /\ Balanced(m.granted[c], OutOf(m, back, c) + l.pending[c].credit + l.metered[c])
            BY <1>4, <2>3, <3>1 DEF Flow, Square
        <3>3. OutOf(m, back, c) = Carried(f, c) + OutOf(m, back2, c) /\ OutOf(m, back2, c) \in Nat /\ Carried(f, c) \in Nat
            BY <2>1, <2>2 DEF Shrinks, OutOf
        <3>4. PICK n \in Nat, x \in Nat, a \in Nat, b \in Nat, g \in Nat :
                /\ n = Carried(f, c) /\ x = OutOf(m, back2, c) /\ a = l.pending[c].credit /\ b = l.metered[c]
                /\ g = m.granted[c]
            BY <1>6, <2>1, <2>3, <3>3, RecordTypes
        <3>5. Balanced(g, n + x + a + b)
            BY <3>2, <3>3, <3>4
        <3>6. n = 0 \/ ~CreditsShared
            BY <1>2, <1>6, <3>4 DEF Carried
        <3>7. Balanced(g, x + a + b)
            BY <3>5, <3>6 DEF Balanced
        <3> QED
            BY <3>2, <3>4, <3>7
    <2> QED
        BY <1>4, <2>6, <2>7 DEF Flow
<1> QED
    BY <1>5, <1>6

LEMMA CallerRefuses ==
    ASSUME NEW s \in Side, NEW c \in Calls, NEW k, NEW m, NEW out, NEW back, Scene(k, m, out, back, c),
           Flow(k, m, out, back, c), NEW back2,
           NEW l \in CoreType, Refused(s, k, l, c), Books(k, l, c)
    PROVE  Flow(l, m, out, back2, c)
<1>1. /\ ~Pending(l, c) /\ ~Pending(k, c) /\ (c \in l.issued <=> c \in k.issued)
      /\ l.outcomes[c] = k.outcomes[c] /\ l.put[c] = k.put[c] /\ l.metered[c] = k.metered[c]
    BY DEF Refused, SameLife, SamePast, Books
<1>2. PICK f \in Frame : f.call = c /\ f.kind = "ERROR" /\ Queue(l, c) = Append(Queue(k, c), f)
    BY FromFrame DEF Refused
<1>3. /\ out \in Seq(Frame) /\ Queue(k, c) \in Seq(Frame) /\ ReadUpTo(m, c) \in Int
    BY SceneFacts
<1>4. Unopened(l, out, c) <=> Unopened(k, out, c)
    <2>1. Has(Queue(l, c), Requests) <=> Has(Queue(k, c), Requests) \/ f.kind \in Requests
        BY <1>2, <1>3, QueueAppend
    <2>2. f.kind \notin Requests
        BY <1>2 DEF Requests
    <2> QED
        BY <2>1, <2>2 DEF Unopened
<1>5. Through(ReadUpTo(m, c), out, Queue(l, c), c) = Through(ReadUpTo(m, c), out, Queue(k, c), c)
    <2>1. Grows(out, Queue(k, c), out, Queue(l, c), f, c)
        BY <1>2, <1>3, WayQueued
    <2>2. \A v : Follow(v, f, c) = v
        BY <1>2 DEF Follow
    <2> QED
        BY <1>3, <2>1, <2>2 DEF Grows
<1>6. Past(l, m, out, c)
    BY <1>1, <1>4 DEF Flow, Past, Untouched
<1>7. Owed(l, out, c) /\ Square(l, m, out, back2, c) /\ Down(l, m, out, back2, c)
    BY <1>1 DEF Owed, Square, Down
<1>8. Up(l, m, out, c)
    BY <1>1, <1>4, <1>5 DEF Flow, Up
<1> QED
    BY <1>6, <1>7, <1>8 DEF Flow

\* What the caller of a call still pending hears next is sound.
LEMMA DownSound ==
    ASSUME NEW c \in Calls, NEW k, NEW m, NEW out, NEW back, Scene(k, m, out, back, c),
           Flow(k, m, out, back, c), Pending(k, c), NEW f, NEW back2, Hears(back, f, back2, c)
    PROVE  Sound(Follow(Len(k.outcomes[c]), f, c), m.put[c])
<1>1. /\ Queue(m, c) \in Seq(Frame) /\ Len(k.outcomes[c]) \in Int /\ m.put[c] \in Nat
    BY SceneFacts
<1>2. Sound(Through(Len(k.outcomes[c]), back, Queue(m, c), c), m.put[c])
    BY <1>1, SoundExact DEF Flow, Down
<1>3. Shrinks(back, Queue(m, c), back2, f, c) /\ back2 \in Seq(Frame)
    BY <1>1, HearsFirst
<1>4. PICK w \in Int : w = Follow(Len(k.outcomes[c]), f, c)
    BY <1>1, <1>3 DEF Shrinks
<1>5. Sound(Through(w, back2, Queue(m, c), c), m.put[c])
    BY <1>1, <1>2, <1>3, <1>4 DEF Shrinks
<1>6. Sound(w, m.put[c])
    BY <1>1, <1>3, <1>5, SoundPart
<1> QED
    BY <1>4, <1>6

LEMMA CallerItemHeard ==
    ASSUME NEW c \in Calls, NEW k, NEW m, NEW out, NEW back, Scene(k, m, out, back, c),
           Flow(k, m, out, back, c), NEW f, NEW back2, Hears(back, f, back2, c),
           NEW l \in CoreType, ItemReported(k, l, f)
    PROVE  Flow(l, m, out, back2, c)
<1>1. f \in Frame /\ f.call = c /\ Mentions(back, c) /\ f.n \in Nat
    BY HearsFirst DEF Frame
<1>2. /\ Pending(k, c) /\ Pending(l, c) /\ f.kind = "ITEM"
      /\ (c \in l.issued <=> c \in k.issued) /\ Queue(l, c) = Queue(k, c)
      /\ l.box.credits[c] = k.box.credits[c]
      /\ l.put[c] = k.put[c] /\ l.metered[c] = k.metered[c] /\ l.granted[c] = k.granted[c]
      /\ l.pending[c] = k.pending[c]
      /\ l.outcomes[c] = Append(k.outcomes[c], ItemOutcome(f.n))
    BY <1>1 DEF ItemReported, Stays, SameLife, SamePast, Terms, WaitTerms
<1>3. ~Unopened(k, out, c) /\ c \in k.issued
    BY <1>1, BackMentions DEF Scene
<1>4. Unopened(l, out, c) <=> Unopened(k, out, c)
    BY <1>2 DEF Unopened
<1>5. /\ Queue(m, c) \in Seq(Frame) /\ m.box.credits[c] \in Credits
      /\ Len(k.outcomes[c]) \in Int /\ Len(k.outcomes[c]) \in Nat /\ m.put[c] \in Nat /\ OutOf(m, back, c) \in Nat
      /\ k \in CoreType
    BY SceneFacts
<1>6. Shrinks(back, Queue(m, c), back2, f, c)
    BY <1>5, HearsFirst
<1>7. f.n = Len(k.outcomes[c]) + 1 /\ Follow(Len(k.outcomes[c]), f, c) = Len(k.outcomes[c]) + 1
    <2>1. Sound(Follow(Len(k.outcomes[c]), f, c), m.put[c])
        BY <1>2, DownSound
    <2>2. ~Sound(Broken, m.put[c])
        BY <1>5 DEF Sound, Broken, Shut
    <2>3. Follow(Len(k.outcomes[c]), f, c) = IF f.n = Len(k.outcomes[c]) + 1 THEN Len(k.outcomes[c]) + 1 ELSE Broken
        BY <1>1, <1>2, <1>5 DEF Follow
    <2> QED
        BY <2>1, <2>2, <2>3
<1>8. /\ l.outcomes[c] = Append(k.outcomes[c], ItemOutcome(f.n))
      /\ k.outcomes[c] \in Seq(Outcome) /\ ItemOutcome(f.n) \in Outcome
      /\ ItemOutcome(f.n).n = f.n /\ ItemOutcome(f.n).kind = "item"
    <2>1. k.outcomes[c] \in Seq(Outcome)
        BY <1>5, CallTypes
    <2>2. ItemOutcome(f.n) \in Outcome
        BY <1>1, OutcomeTypes
    <2>3. ItemOutcome(f.n).n = f.n /\ ItemOutcome(f.n).kind = "item"
        BY DEF ItemOutcome
    <2> QED
        BY <1>2, <2>1, <2>2, <2>3
<1>9. Len(l.outcomes[c]) = Len(k.outcomes[c]) + 1
    <2>1. PICK q \in Seq(Outcome), x \in Outcome : q = k.outcomes[c] /\ x = ItemOutcome(f.n)
        BY <1>8
    <2>2. Len(Append(q, x)) = Len(q) + 1
        OBVIOUS
    <2> QED
        BY <1>2, <2>1, <2>2
<1>10. Past(l, m, out, c)
    <2>1. PICK o \in Seq(Outcome), x \in Outcome, p \in Seq(Outcome) :
            o = k.outcomes[c] /\ x = ItemOutcome(f.n) /\ p = l.outcomes[c] /\ p = Append(o, x)
        BY <1>8, CallTypes
    <2>2. Counted(o) /\ x.n = Len(o) + 1 /\ x.kind # "end"
        BY <1>7, <1>8, <2>1 DEF Flow, Past
    <2>3. Counted(p)
        BY <2>1, <2>2, CountedAppend
    <2>4. ~EndsWell(p)
        BY <2>1, <2>2, NotWell
    <2> QED
        BY <1>2, <1>3, <1>4, <2>1, <2>3, <2>4 DEF Flow, Past
<1>11. Owed(l, out, c)
    BY <1>3, <1>4 DEF Owed
<1>12. Square(l, m, out, back2, c)
    <2>1. Carried(f, c) = 0
        BY <1>1, <1>2 DEF Carried
    <2>2. OutOf(m, back2, c) = OutOf(m, back, c)
        <3>1. OutOf(m, back, c) = Carried(f, c) + OutOf(m, back2, c) /\ OutOf(m, back2, c) \in Nat
            BY <1>5, <1>6 DEF Shrinks, OutOf
        <3> QED
            BY <2>1, <3>1
    <2>3. OutOf(l, out, c) = OutOf(k, out, c)
        BY <1>2 DEF OutOf
    <2> QED
        BY <1>2, <2>2, <2>3 DEF Flow, Square
<1>13. Down(l, m, out, back2, c)
    <2>1. Through(Len(l.outcomes[c]), back2, Queue(m, c), c) = Through(Len(k.outcomes[c]), back, Queue(m, c), c)
        BY <1>5, <1>6, <1>7, <1>9 DEF Shrinks
    <2> QED
        BY <1>2, <1>4, <2>1 DEF Flow, Down
<1>14. Up(l, m, out, c)
    BY <1>2, <1>4 DEF Flow, Up, Said
<1> QED
    BY <1>10, <1>11, <1>12, <1>13, <1>14 DEF Flow

LEMMA CallerEndHeard ==
    ASSUME NEW c \in Calls, NEW k, NEW m, NEW out, NEW back, Scene(k, m, out, back, c),
           Flow(k, m, out, back, c), NEW f, NEW back2, Hears(back, f, back2, c),
           NEW l \in CoreType, EndReported(k, l, f)
    PROVE  Flow(l, m, out, back2, c)
<1>1. f \in Frame /\ f.call = c /\ Mentions(back, c)
    BY HearsFirst
<1>2. /\ Pending(k, c) /\ ~Pending(l, c) /\ f.kind = "END"
      /\ (c \in l.issued <=> c \in k.issued) /\ Queue(l, c) = <<>>
      /\ l.metered[c] = k.metered[c]
      /\ l.outcomes[c] = Append(k.outcomes[c], EndOutcome)
    BY <1>1 DEF EndReported, Settled, SamePast, Books
<1>3. ~Unopened(k, out, c) /\ c \in k.issued
    BY <1>1, BackMentions DEF Scene
<1>4. ~Unopened(l, out, c)
    BY <1>2, <1>3, QueueEmpty DEF Unopened
<1>5. ~Inflight(m, c)
    <2>1. Says(back, c, LastKinds)
        BY <1>2, HearsFirst DEF LastKinds
    <2> QED
        BY <2>1 DEF Scene, Linked, AnswerDue
<1>6. /\ Len(k.outcomes[c]) \in Nat /\ m.put[c] \in Nat /\ k \in CoreType
    BY SceneFacts
<1>7. Len(k.outcomes[c]) = m.put[c]
    <2>1. Sound(Follow(Len(k.outcomes[c]), f, c), m.put[c])
        BY <1>2, DownSound
    <2>2. Follow(Len(k.outcomes[c]), f, c) = Shut(Len(k.outcomes[c]))
        BY <1>1, <1>2, <1>6 DEF Follow
    <2> QED
        BY <1>6, <2>1, <2>2 DEF Sound, Shut
<1>8. k.outcomes[c] \in Seq(Outcome) /\ EndOutcome \in Outcome /\ Terminates(EndOutcome)
    BY <1>6, CallTypes, OutcomeTypes
<1>9. Past(l, m, out, c)
    <2>1. PICK o \in Seq(Outcome), x \in Outcome, p \in Seq(Outcome) :
            o = k.outcomes[c] /\ x = EndOutcome /\ p = l.outcomes[c] /\ p = Append(o, x)
        BY <1>2, <1>8, CallTypes
    <2>2. Counted(o) /\ Terminates(x)
        BY <1>8, <2>1 DEF Flow, Past
    <2>3. Counted(p)
        BY <2>1, <2>2, CountedAppend
    <2>4. Len(l.outcomes[c]) = m.put[c] + 1
        BY <1>2, <1>7, <1>8
    <2> QED
        BY <1>2, <1>3, <1>4, <1>5, <2>1, <2>3, <2>4 DEF Flow, Past
<1>10. Owed(l, out, c) /\ Square(l, m, out, back2, c) /\ Down(l, m, out, back2, c)
    BY <1>2 DEF Owed, Square, Down
<1>11. Up(l, m, out, c)
    BY <1>4, <1>5 DEF Up
<1> QED
    BY <1>9, <1>10, <1>11 DEF Flow

LEMMA CallerCredited ==
    ASSUME NEW s \in Side, NEW c \in Calls, NEW k, NEW m, NEW out, NEW back, Scene(k, m, out, back, c),
           Flow(k, m, out, back, c), NEW f, NEW back2, Hears(back, f, back2, c),
           NEW l \in CoreType, Credited(s, k, l, f)
    PROVE  Flow(l, m, out, back2, c)
<1>1. f \in Frame /\ f.call = c /\ Mentions(back, c) /\ f.n \in Nat
    BY HearsFirst DEF Frame
<1>2. k \in CoreType /\ m \in CoreType /\ ~Inflight(k, c)
    BY DEF Scene
<1>3. /\ Pending(k, c) /\ Pending(l, c) /\ f.kind = "CREDIT"
      /\ (c \in l.issued <=> c \in k.issued) /\ Queue(l, c) = Queue(k, c)
      /\ l.box.credits[c] = k.box.credits[c] /\ l.outcomes[c] = k.outcomes[c]
      /\ l.put[c] = k.put[c] /\ l.metered[c] = k.metered[c] /\ l.granted[c] = k.granted[c]
      /\ l.pending[c].sendClosed = k.pending[c].sendClosed
      /\ l.pending[c].credit = SaturatingAdd(k.pending[c].credit, f.n)
    BY <1>1, <1>2 DEF Credited, Stays, SameLife, SamePast
<1>4. ~Unopened(k, out, c) /\ c \in k.issued
    BY <1>1, BackMentions DEF Scene
<1>5. Unopened(l, out, c) <=> Unopened(k, out, c)
    BY <1>3 DEF Unopened
<1>6. /\ Queue(m, c) \in Seq(Frame) /\ m.box.credits[c] \in Credits
      /\ Len(k.outcomes[c]) \in Int /\ m.granted[c] \in Nat /\ k.metered[c] \in Nat
    BY SceneFacts
<1>7. Shrinks(back, Queue(m, c), back2, f, c) /\ Carried(f, c) = f.n
    <2>1. Shrinks(back, Queue(m, c), back2, f, c)
        BY <1>6, HearsFirst
    <2> QED
        BY <1>1, <1>3, <2>1 DEF Carried
<1>8. Past(l, m, out, c)
    BY <1>3, <1>5 DEF Flow, Past, Untouched
<1>9. Owed(l, out, c)
    BY <1>4, <1>5 DEF Owed
<1>10. Square(l, m, out, back2, c)
    <2>1. SUFFICES ASSUME Inflight(m, c)
                   PROVE  /\ Balanced(l.granted[c], OutOf(l, out, c) + m.inflight[c].credit + m.metered[c])
                          /\ Balanced(m.granted[c], OutOf(m, back2, c) + l.pending[c].credit + l.metered[c])
        BY DEF Square
    <2>2. /\ Balanced(k.granted[c], OutOf(k, out, c) + m.inflight[c].credit + m.metered[c])
          /\ Balanced(m.granted[c], OutOf(m, back, c) + k.pending[c].credit + k.metered[c])
        BY <1>3, <2>1 DEF Flow, Square
    <2>3. OutOf(m, back, c) = f.n + OutOf(m, back2, c) /\ OutOf(m, back2, c) \in Nat
        BY <1>6, <1>7 DEF Shrinks, OutOf
    <2>4. PICK n \in Nat, x \in Nat, h \in Nat, b \in Nat, g \in Nat, a \in Nat :
            /\ n = f.n /\ x = OutOf(m, back2, c) /\ h = k.pending[c].credit /\ b = k.metered[c]
            /\ g = m.granted[c] /\ a = l.pending[c].credit
        BY <1>1, <1>2, <1>3, <1>6, <2>3, RecordTypes
    <2>5. PICK y \in Nat : y = x + b
        OBVIOUS
    <2>6. Balanced(g, n + h + y)
        <3>1. n + h + y = n + x + h + b
            BY <2>5
        <3> QED
            BY <2>2, <2>3, <2>4, <3>1
    <2>7. Balanced(g, SaturatingAdd(h, n) + y)
        BY <2>6, BalancedTaken
    <2>8. SaturatingAdd(h, n) = a
        BY <1>3, <2>4
    <2>9. a + y = x + a + b
        BY <2>5
    <2>10. OutOf(l, out, c) = OutOf(k, out, c)
        BY <1>3 DEF OutOf
    <2> QED
        BY <1>3, <2>2, <2>4, <2>7, <2>8, <2>9, <2>10
<1>11. Down(l, m, out, back2, c)
    <2>1. \A v : Follow(v, f, c) = v
        BY <1>3 DEF Follow
    <2>2. Through(Len(l.outcomes[c]), back2, Queue(m, c), c) = Through(Len(k.outcomes[c]), back, Queue(m, c), c)
        BY <1>3, <1>6, <1>7, <2>1 DEF Shrinks
    <2> QED
        BY <1>3, <1>5, <2>2 DEF Flow, Down
<1>12. Up(l, m, out, c)
    BY <1>3, <1>5 DEF Flow, Up, Said
<1> QED
    BY <1>8, <1>9, <1>10, <1>11, <1>12 DEF Flow

LEMMA CallerTakes ==
    ASSUME NEW s \in Side, NEW c \in Calls, NEW k, NEW m, NEW out, NEW back, Scene(k, m, out, back, c),
           Flow(k, m, out, back, c), NEW f, NEW back2, Hears(back, f, back2, c),
           f.kind # "REQUEST", f.kind = "CREDIT" /\ CreditsShared => HasCredit(s),
           NEW l \in CoreType, Heeds(s, k, l, f)
    PROVE  Flow(l, m, out, back2, c)
<1>1. f \in Frame /\ f.call = c /\ ~Inflight(k, c)
    BY HearsFirst DEF Scene
<1>2. CASE Skipped(s, k, l, f)
    BY <1>2, CallerSkips
<1>3. CASE Gone(k, l, c)
    <2>1. Flow(l, m, out, back, c)
        BY <1>3, CallerGone
    <2>2. ~Pending(l, c)
        BY <1>3 DEF Gone, Settled
    <2> QED
        BY <2>1, <2>2, BackUnheard
<1>4. CASE Refused(s, k, l, c) /\ Books(k, l, c)
    BY <1>4, CallerRefuses
<1>5. CASE ItemReported(k, l, f)
    BY <1>5, CallerItemHeard
<1>6. CASE EndReported(k, l, f)
    BY <1>6, CallerEndHeard
<1>7. CASE Credited(s, k, l, f)
    BY <1>7, CallerCredited
<1>8. ~Over(s, k, l, c) /\ ~ItemGiven(k, l, f) /\ ~EndGiven(k, l, f) /\ ~Began(k, l, f)
    BY <1>1 DEF Over, Finished, ItemGiven, EndGiven, Began
<1> QED
    BY <1>1, <1>2, <1>3, <1>4, <1>5, <1>6, <1>7, <1>8 DEF Heeds

-----------------------------------------------------------------------------
\* The callee hears f, the next frame of the caller.

LEMMA CalleeHears ==
    ASSUME NEW c \in Calls, NEW k, NEW m, NEW out, NEW back, Scene(k, m, out, back, c),
           NEW f, NEW out2, Hears(out, f, out2, c)
    PROVE  /\ f \in Frame /\ f.call = c /\ f.n \in Nat /\ out2 \in Seq(Frame)
           /\ c \in k.issued /\ ~Unopened(k, out2, c)
           /\ Unopened(k, out, c) <=> f.kind = "REQUEST"
           /\ Shrinks(out, Queue(k, c), out2, f, c)
           /\ Inflight(m, c) => f.kind # "REQUEST"
<1>1. /\ f \in Frame /\ f.call = c /\ out2 \in Seq(Frame) /\ out \in Seq(Frame) /\ out # <<>>
      /\ Head(out) = f /\ out2 = Tail(out)
    BY HearsFirst DEF Hears
<1>2. Shrinks(out, Queue(k, c), out2, f, c)
    BY SceneFacts, HearsFirst
<1>3. Linked(k, m, out, back, c)
    BY DEF Scene
<1>4. /\ c \in k.issued /\ ~Has(Queue(k, c), Requests) /\ ~Says(out2, c, Requests)
      /\ Says(out, c, Requests) <=> Head(out).kind \in Requests
    <2>1. Head(out).call = c
        BY <1>1
    <2> QED
        BY <1>1, <1>3, <2>1, OutMentions
<1>5. Unopened(k, out, c) <=> f.kind = "REQUEST"
    BY <1>1, <1>4 DEF Unopened, Requests
<1>6. Inflight(m, c) => ~Unopened(k, out, c)
    BY RunningScene
<1> QED
    BY <1>1, <1>2, <1>4, <1>5, <1>6 DEF Unopened, Frame

\* What is left of the invariant, part by part.
LEMMA PastHeard ==
    ASSUME NEW c \in Calls, NEW k, NEW m, NEW out, NEW back, Scene(k, m, out, back, c),
           Flow(k, m, out, back, c), NEW f, NEW out2, Hears(out, f, out2, c),
           NEW l, l.put[c] = m.put[c], l.got[c] = Counting(Len(l.got[c])),
           Inflight(l, c) => Inflight(m, c) \/ f.kind = "REQUEST"
    PROVE  Past(k, l, out2, c) /\ Owed(k, out2, c)
<1>1. c \in k.issued /\ ~Unopened(k, out2, c) /\ (Unopened(k, out, c) <=> f.kind = "REQUEST")
    BY CalleeHears
<1> QED
    BY <1>1 DEF Flow, Past, Owed

LEMMA DownHeard ==
    ASSUME NEW c \in Calls, NEW k, NEW m, NEW out, NEW back, Scene(k, m, out, back, c),
           Flow(k, m, out, back, c), NEW f, NEW out2, Hears(out, f, out2, c),
           NEW l, l.put[c] = m.put[c], Queue(l, c) = Queue(m, c),
           Inflight(l, c) => Inflight(m, c) \/ f.kind = "REQUEST"
    PROVE  Down(k, l, out2, back, c)
<1>1. ~Unopened(k, out2, c) /\ (Unopened(k, out, c) <=> f.kind = "REQUEST")
    BY CalleeHears
<1>2. m.put[c] \in Nat
    BY SceneFacts
<1> QED
    BY <1>1, <1>2, SoundExact DEF Flow, Down

LEMMA UpHeard ==
    ASSUME NEW c \in Calls, NEW k, NEW m, NEW out, NEW back, Scene(k, m, out, back, c),
           Flow(k, m, out, back, c), NEW f, NEW out2, Hears(out, f, out2, c),
           Inflight(m, c) \/ f.kind = "REQUEST"
    PROVE  /\ \A l : ReadUpTo(l, c) = Follow(ReadUpTo(m, c), f, c) => Up(k, l, out2, c)
           /\ Sound(Follow(ReadUpTo(m, c), f, c), k.put[c])
<1>1. /\ ~Unopened(k, out2, c) /\ (Unopened(k, out, c) <=> f.kind = "REQUEST")
      /\ Shrinks(out, Queue(k, c), out2, f, c) /\ out2 \in Seq(Frame)
    BY CalleeHears
<1>2. ReadUpTo(m, c) \in Int /\ k.put[c] \in Nat /\ Queue(k, c) \in Seq(Frame)
    BY SceneFacts
<1>3. PICK w \in Int : w = Follow(ReadUpTo(m, c), f, c)
    BY <1>1, <1>2 DEF Shrinks
<1>4. Through(w, out2, Queue(k, c), c) = Through(ReadUpTo(m, c), out, Queue(k, c), c)
    BY <1>1, <1>2, <1>3 DEF Shrinks
<1>5. IF Pending(k, c) THEN Through(w, out2, Queue(k, c), c) = Said(k, c)
      ELSE Sound(Through(w, out2, Queue(k, c), c), k.put[c])
    BY <1>1, <1>4 DEF Flow, Up
<1>6. ASSUME NEW l, ReadUpTo(l, c) = Follow(ReadUpTo(m, c), f, c) PROVE Up(k, l, out2, c)
    BY <1>3, <1>5, <1>6 DEF Up
<1>7. Sound(Through(w, out2, Queue(k, c), c), k.put[c])
    BY <1>2, <1>5, SoundExact DEF Said
<1>8. Sound(w, k.put[c])
    BY <1>1, <1>2, <1>7, SoundPart
<1> QED
    BY <1>3, <1>6, <1>8

LEMMA SquareHeard ==
    ASSUME NEW c \in Calls, NEW k, NEW m, NEW out, NEW back, Scene(k, m, out, back, c),
           Flow(k, m, out, back, c), NEW f, NEW out2, Hears(out, f, out2, c),
           Inflight(m, c), Carried(f, c) = 0 \/ ~CreditsShared,
           NEW l, Queue(l, c) = Queue(m, c), l.box.credits[c] = m.box.credits[c],
           l.inflight[c].credit = m.inflight[c].credit,
           l.metered[c] = m.metered[c], l.granted[c] = m.granted[c]
    PROVE  Square(k, l, out2, back, c)
<1>1. SUFFICES ASSUME Pending(k, c)
               PROVE  /\ Balanced(k.granted[c], OutOf(k, out2, c) + l.inflight[c].credit + l.metered[c])
                      /\ Balanced(l.granted[c], OutOf(l, back, c) + k.pending[c].credit + k.metered[c])
    BY DEF Square
<1>2. /\ Balanced(k.granted[c], OutOf(k, out, c) + m.inflight[c].credit + m.metered[c])
      /\ Balanced(m.granted[c], OutOf(m, back, c) + k.pending[c].credit + k.metered[c])
    BY <1>1 DEF Flow, Square
<1>3. OutOf(k, out, c) = Carried(f, c) + OutOf(k, out2, c) /\ OutOf(k, out2, c) \in Nat /\ Carried(f, c) \in Nat
    <2>1. Shrinks(out, Queue(k, c), out2, f, c) /\ k.box.credits[c] \in Credits
        BY CalleeHears, SceneFacts
    <2> QED
        BY <2>1 DEF Shrinks, OutOf
<1>4. OutOf(l, back, c) = OutOf(m, back, c)
    BY DEF OutOf
<1>5. PICK n \in Nat, x \in Nat, a \in Nat, b \in Nat, g \in Nat :
        /\ n = Carried(f, c) /\ x = OutOf(k, out2, c) /\ a = m.inflight[c].credit /\ b = m.metered[c]
        /\ g = k.granted[c]
    BY <1>3, SceneFacts, RecordTypes
<1>6. Balanced(g, n + x + a + b)
    BY <1>2, <1>3, <1>5
<1>7. Balanced(g, x + a + b)
    BY <1>5, <1>6 DEF Balanced
<1> QED
    BY <1>2, <1>4, <1>5, <1>7

\* Of a call that does not run nobody reads what still comes.
LEMMA OutUnheard ==
    ASSUME NEW k, NEW m, NEW out, NEW back, NEW c, ~Inflight(m, c), Flow(k, m, out, back, c),
           ~Unopened(k, out, c), NEW out2, ~Unopened(k, out2, c)
    PROVE  Flow(k, m, out2, back, c)
BY DEF Flow, Past, Owed, Square, Down, Up

LEMMA CalleeSkips ==
    ASSUME NEW s \in Side, NEW c \in Calls, NEW k, NEW m, NEW out, NEW back, Scene(k, m, out, back, c),
           Flow(k, m, out, back, c), NEW f, NEW out2, Hears(out, f, out2, c),
           f.kind = "CREDIT" /\ CreditsShared => HasCredit(s),
           NEW l \in CoreType, Skipped(s, m, l, f)
    PROVE  Flow(k, l, out2, back, c)
<1>1. f \in Frame /\ f.call = c /\ f.n \in Nat /\ (Inflight(m, c) => f.kind # "REQUEST")
    BY CalleeHears
<1>2. /\ Idle(m, l, c)
      /\ Inflight(m, c) =>
            \/ f.kind \in {"RESPONSE", "ERROR"}
            \/ /\ f.kind \in {"ITEM", "END"}
               /\ CallerStreams(m.inflight[c].m) /\ m.inflight[c].inboundClosed
            \/ f.kind = "CREDIT" /\ ~HasCredit(s)
    BY <1>1 DEF Skipped
<1>3. /\ Queue(l, c) = Queue(m, c) /\ l.box.credits[c] = m.box.credits[c]
      /\ (Inflight(l, c) <=> Inflight(m, c))
      /\ l.put[c] = m.put[c] /\ l.metered[c] = m.metered[c] /\ l.granted[c] = m.granted[c]
      /\ l.got[c] = m.got[c]
      /\ Inflight(m, c) => /\ l.inflight[c].m = m.inflight[c].m
                           /\ l.inflight[c].credit = m.inflight[c].credit
                           /\ l.inflight[c].inboundClosed = m.inflight[c].inboundClosed
    BY <1>2 DEF Idle, Alike, SameLife, Books, Terms, RunTerms
<1>4. l.got[c] = Counting(Len(l.got[c]))
    BY <1>3 DEF Flow, Past
<1>5. Past(k, l, out2, c) /\ Owed(k, out2, c)
    BY <1>3, <1>4, PastHeard
<1>6. Down(k, l, out2, back, c)
    BY <1>3, DownHeard
<1>7. CASE ~Inflight(m, c)
    <2>1. Square(k, l, out2, back, c) /\ Up(k, l, out2, c)
        BY <1>3, <1>7, CalleeHears DEF Square, Up
    <2> QED
        BY <1>5, <1>6, <2>1 DEF Flow
<1>8. CASE Inflight(m, c)
    <2>1. Carried(f, c) = 0 \/ ~CreditsShared
        BY <1>1, <1>2, <1>8 DEF Carried
    <2>2. Square(k, l, out2, back, c)
        BY <1>3, <1>8, <2>1, SquareHeard
    <2>3. ReadUpTo(l, c) = ReadUpTo(m, c)
        BY <1>3 DEF ReadUpTo
    <2>4. Sound(Follow(ReadUpTo(m, c), f, c), k.put[c])
        BY <1>8, UpHeard
    <2>5. Follow(ReadUpTo(m, c), f, c) = ReadUpTo(m, c)
        <3>1. CASE f.kind \in {"RESPONSE", "ERROR", "CREDIT"}
            BY <3>1 DEF Follow
        <3>2. CASE f.kind \in {"ITEM", "END"}
            <4>1. ReadUpTo(m, c) = Shut(Len(m.got[c])) /\ Len(m.got[c]) \in Nat /\ k.put[c] \in Nat
                BY <1>2, <1>8, <3>2, SceneFacts, CallTypes DEF ReadUpTo
            <4>2. ReadUpTo(m, c) < 0
                BY <4>1 DEF Shut
            <4>3. f.kind # "ITEM"
                <5>1. ~Sound(Broken, k.put[c])
                    BY <4>1 DEF Sound, Broken, Shut
                <5>2. f.kind = "ITEM" => Follow(ReadUpTo(m, c), f, c) = Broken
                    BY <1>1, <4>1, <4>2 DEF Follow, Shut
                <5> QED
                    BY <2>4, <5>1, <5>2
            <4> QED
                BY <3>2, <4>1, <4>2, <4>3 DEF Follow, Shut
        <3> QED
            BY <1>2, <1>8, <3>1, <3>2
    <2>6. Up(k, l, out2, c)
        BY <1>8, <2>3, <2>5, UpHeard
    <2> QED
        BY <1>5, <1>6, <2>2, <2>6 DEF Flow
<1> QED
    BY <1>7, <1>8

LEMMA CalleeStops ==
    ASSUME NEW s \in Side, NEW c \in Calls, NEW k, NEW m, NEW out, NEW back, Scene(k, m, out, back, c),
           Flow(k, m, out, back, c), NEW f, NEW out2, Hears(out, f, out2, c),
           NEW l \in CoreType, Over(s, m, l, c)
    PROVE  Flow(k, l, out2, back, c)
<1>1. Flow(k, l, out, back, c)
    BY CalleeOver
<1>2. ~Inflight(l, c) /\ Inflight(m, c)
    BY DEF Over, Finished
<1>3. ~Unopened(k, out2, c) /\ ~Unopened(k, out, c)
    BY <1>2, CalleeHears
<1> QED
    BY <1>1, <1>2, <1>3, OutUnheard

LEMMA CalleeRefuses ==
    ASSUME NEW s \in Side, NEW c \in Calls, NEW k, NEW m, NEW out, NEW back, Scene(k, m, out, back, c),
           Flow(k, m, out, back, c), NEW f, NEW out2, Hears(out, f, out2, c),
           NEW l \in CoreType, Refused(s, m, l, c), Books(m, l, c)
    PROVE  Flow(k, l, out2, back, c)
<1>1. /\ ~Inflight(m, c) /\ ~Inflight(l, c) /\ l.put[c] = m.put[c] /\ l.got[c] = m.got[c]
    BY DEF Refused, SameLife, Books
<1>2. PICK e \in Frame : e.call = c /\ e.kind = "ERROR" /\ Queue(l, c) = Append(Queue(m, c), e)
    BY FromFrame DEF Refused
<1>3. /\ back \in Seq(Frame) /\ Queue(m, c) \in Seq(Frame) /\ Len(k.outcomes[c]) \in Int /\ m.put[c] \in Nat
    BY SceneFacts
<1>4. ~Unopened(k, out2, c)
    BY CalleeHears
<1>5. Through(Len(k.outcomes[c]), back, Queue(l, c), c) = Through(Len(k.outcomes[c]), back, Queue(m, c), c)
    <2>1. Grows(back, Queue(m, c), back, Queue(l, c), e, c)
        BY <1>2, <1>3, WayQueued
    <2>2. \A v : Follow(v, e, c) = v
        BY <1>2 DEF Follow
    <2> QED
        BY <1>3, <2>1, <2>2 DEF Grows
<1>6. Past(k, l, out2, c) /\ Owed(k, out2, c)
    <2>1. l.got[c] = Counting(Len(l.got[c]))
        BY <1>1 DEF Flow, Past
    <2> QED
        BY <1>1, <2>1, PastHeard
<1>7. Down(k, l, out2, back, c)
    BY <1>1, <1>3, <1>4, <1>5, SoundExact DEF Flow, Down
<1>8. Square(k, l, out2, back, c) /\ Up(k, l, out2, c)
    BY <1>1, <1>4 DEF Square, Up
<1> QED
    BY <1>6, <1>7, <1>8 DEF Flow

LEMMA CountingAppend ==
    ASSUME NEW q \in Seq(Nat), q = Counting(Len(q)), NEW n, n = Len(q) + 1, NEW p, p = Append(q, n)
    PROVE  p = Counting(Len(p)) /\ Len(p) = Len(q) + 1
<1>1. Len(p) = Len(q) + 1 /\ DOMAIN p = 1..Len(p) /\ \A i \in 1..Len(p) : p[i] = IF i = Len(p) THEN n ELSE q[i]
    OBVIOUS
<1>2. \A i \in 1..Len(q) : q[i] = i
    BY DEF Counting
<1>3. \A i \in 1..Len(p) : p[i] = i
    BY <1>1, <1>2
<1>4. p \in Seq(Nat)
    OBVIOUS
<1>5. p = [i \in 1..Len(p) |-> p[i]]
    BY <1>4
<1> QED
    BY <1>1, <1>3, <1>5 DEF Counting

LEMMA CalleeItemHeard ==
    ASSUME NEW s \in Side, NEW c \in Calls, NEW k, NEW m, NEW out, NEW back, Scene(k, m, out, back, c),
           Flow(k, m, out, back, c), NEW f, NEW out2, Hears(out, f, out2, c),
           NEW l \in CoreType, ItemGiven(m, l, f)
    PROVE  Flow(k, l, out2, back, c)
<1>1. f \in Frame /\ f.call = c /\ f.n \in Nat /\ m \in CoreType
    BY CalleeHears, SceneFacts
<1>2. /\ f.kind = "ITEM" /\ Inflight(m, c) /\ Inflight(l, c)
      /\ Queue(l, c) = Queue(m, c) /\ l.box.credits[c] = m.box.credits[c]
      /\ l.put[c] = m.put[c] /\ l.metered[c] = m.metered[c] /\ l.granted[c] = m.granted[c]
      /\ l.inflight[c].m = m.inflight[c].m
      /\ l.inflight[c].credit = m.inflight[c].credit
      /\ l.inflight[c].inboundClosed = m.inflight[c].inboundClosed
      /\ CallerStreams(m.inflight[c].m) /\ ~m.inflight[c].inboundClosed
      /\ l.got[c] = Append(m.got[c], f.n)
    BY <1>1 DEF ItemGiven, Stays, SameLife, Terms, RunTerms
<1>3. m.got[c] \in Seq(Nat) /\ Len(m.got[c]) \in Nat /\ k.put[c] \in Nat
    BY <1>1, CallTypes, SceneFacts
<1>4. ReadUpTo(m, c) = Len(m.got[c]) /\ ReadUpTo(l, c) = Len(l.got[c])
    BY <1>2 DEF ReadUpTo
<1>5. f.n = Len(m.got[c]) + 1 /\ Follow(ReadUpTo(m, c), f, c) = Len(m.got[c]) + 1
    <2>1. Sound(Follow(ReadUpTo(m, c), f, c), k.put[c])
        BY <1>2, UpHeard
    <2>2. ~Sound(Broken, k.put[c])
        BY <1>3 DEF Sound, Broken, Shut
    <2>3. Follow(ReadUpTo(m, c), f, c) = IF f.n = Len(m.got[c]) + 1 THEN Len(m.got[c]) + 1 ELSE Broken
        BY <1>1, <1>2, <1>3, <1>4 DEF Follow
    <2> QED
        BY <2>1, <2>2, <2>3
<1>6. l.got[c] = Counting(Len(l.got[c])) /\ Len(l.got[c]) = Len(m.got[c]) + 1
    <2>1. PICK q \in Seq(Nat), n \in Nat : q = m.got[c] /\ n = f.n
        BY <1>1, <1>3
    <2>2. q = Counting(Len(q)) /\ n = Len(q) + 1
        BY <1>5, <2>1 DEF Flow, Past
    <2>3. PICK p : p = Append(q, n)
        OBVIOUS
    <2>4. p = Counting(Len(p)) /\ Len(p) = Len(q) + 1
        BY <2>2, <2>3, CountingAppend
    <2>5. p = l.got[c]
        BY <1>2, <2>1, <2>3
    <2> QED
        BY <2>1, <2>4, <2>5
<1>7. Past(k, l, out2, c) /\ Owed(k, out2, c)
    BY <1>2, <1>6, PastHeard
<1>8. Down(k, l, out2, back, c)
    BY <1>2, DownHeard
<1>9. Square(k, l, out2, back, c)
    <2>1. Carried(f, c) = 0
        BY <1>1, <1>2 DEF Carried
    <2> QED
        BY <1>2, <2>1, SquareHeard
<1>10. Up(k, l, out2, c)
    <2>1. ReadUpTo(l, c) = Follow(ReadUpTo(m, c), f, c)
        BY <1>4, <1>5, <1>6
    <2> QED
        BY <1>2, <2>1, UpHeard
<1> QED
    BY <1>7, <1>8, <1>9, <1>10 DEF Flow

LEMMA CalleeEndHeard ==
    ASSUME NEW s \in Side, NEW c \in Calls, NEW k, NEW m, NEW out, NEW back, Scene(k, m, out, back, c),
           Flow(k, m, out, back, c), NEW f, NEW out2, Hears(out, f, out2, c),
           NEW l \in CoreType, EndGiven(m, l, f)
    PROVE  Flow(k, l, out2, back, c)
<1>1. f \in Frame /\ f.call = c
    BY CalleeHears
<1>2. /\ f.kind = "END" /\ Inflight(m, c) /\ Inflight(l, c)
      /\ Queue(l, c) = Queue(m, c) /\ l.box.credits[c] = m.box.credits[c]
      /\ l.put[c] = m.put[c] /\ l.metered[c] = m.metered[c] /\ l.granted[c] = m.granted[c]
      /\ l.inflight[c].m = m.inflight[c].m
      /\ l.inflight[c].credit = m.inflight[c].credit
      /\ l.inflight[c].inboundClosed
      /\ CallerStreams(m.inflight[c].m) /\ ~m.inflight[c].inboundClosed
      /\ l.got[c] = m.got[c]
    BY <1>1 DEF EndGiven, Stays, SameLife
<1>3. ReadUpTo(m, c) = Len(m.got[c]) /\ ReadUpTo(l, c) = Shut(Len(m.got[c])) /\ Len(m.got[c]) \in Nat
    BY <1>2, SceneFacts, CallTypes DEF ReadUpTo
<1>4. Past(k, l, out2, c) /\ Owed(k, out2, c)
    <2>1. l.got[c] = Counting(Len(l.got[c]))
        BY <1>2 DEF Flow, Past
    <2> QED
        BY <1>2, <2>1, PastHeard
<1>5. Down(k, l, out2, back, c)
    BY <1>2, DownHeard
<1>6. Square(k, l, out2, back, c)
    <2>1. Carried(f, c) = 0
        BY <1>1, <1>2 DEF Carried
    <2> QED
        BY <1>2, <2>1, SquareHeard
<1>7. Up(k, l, out2, c)
    <2>1. ReadUpTo(l, c) = Follow(ReadUpTo(m, c), f, c)
        BY <1>1, <1>2, <1>3 DEF Follow
    <2> QED
        BY <1>2, <2>1, UpHeard
<1> QED
    BY <1>4, <1>5, <1>6, <1>7 DEF Flow

LEMMA WayNothing ==
    ASSUME NEW n \in Seq(Frame), NEW c \in Calls, ~Mentions(n, c)
    PROVE  Coming(NoCredit, n, <<>>, c) = 0
<1>1. \A i \in 1..Len(n) : n[i].call # c
    BY DEF Mentions
<1>2. \A i \in 1..Len(n) : Carried(n[i], c) = 0
    BY <1>1 DEF Carried
<1>3. CarriedBy(n, c) = 0 /\ CarriedBy(<<>>, c) = 0
    BY <1>2, CarriedFacts
<1>4. Amount(NoCredit) = 0
    BY DEF Amount
<1> QED
    BY <1>3, <1>4 DEF Coming

LEMMA CalleeCredited ==
    ASSUME NEW s \in Side, NEW c \in Calls, NEW k, NEW m, NEW out, NEW back, Scene(k, m, out, back, c),
           Flow(k, m, out, back, c), NEW f, NEW out2, Hears(out, f, out2, c),
           NEW l \in CoreType, Credited(s, m, l, f)
    PROVE  Flow(k, l, out2, back, c)
<1>1. f \in Frame /\ f.call = c /\ f.n \in Nat /\ ~Pending(m, c) /\ m \in CoreType
    BY CalleeHears DEF Scene
<1>2. /\ f.kind = "CREDIT" /\ Inflight(m, c) /\ Inflight(l, c)
      /\ Queue(l, c) = Queue(m, c) /\ l.box.credits[c] = m.box.credits[c]
      /\ l.put[c] = m.put[c] /\ l.metered[c] = m.metered[c] /\ l.granted[c] = m.granted[c]
      /\ l.inflight[c].m = m.inflight[c].m
      /\ l.inflight[c].credit = SaturatingAdd(m.inflight[c].credit, f.n)
      /\ l.inflight[c].inboundClosed = m.inflight[c].inboundClosed
      /\ l.got[c] = m.got[c]
    BY <1>1 DEF Credited, Stays, SameLife
<1>3. Past(k, l, out2, c) /\ Owed(k, out2, c)
    <2>1. l.got[c] = Counting(Len(l.got[c]))
        BY <1>2 DEF Flow, Past
    <2> QED
        BY <1>2, <2>1, PastHeard
<1>4. Down(k, l, out2, back, c)
    BY <1>2, DownHeard
<1>5. Square(k, l, out2, back, c)
    <2>1. SUFFICES ASSUME Pending(k, c)
                   PROVE  /\ Balanced(k.granted[c], OutOf(k, out2, c) + l.inflight[c].credit + l.metered[c])
                          /\ Balanced(l.granted[c], OutOf(l, back, c) + k.pending[c].credit + k.metered[c])
        BY DEF Square
    <2>2. /\ Balanced(k.granted[c], OutOf(k, out, c) + m.inflight[c].credit + m.metered[c])
          /\ Balanced(m.granted[c], OutOf(m, back, c) + k.pending[c].credit + k.metered[c])
        BY <1>2, <2>1 DEF Flow, Square
    <2>3. OutOf(k, out, c) = f.n + OutOf(k, out2, c) /\ OutOf(k, out2, c) \in Nat
        <3>1. Shrinks(out, Queue(k, c), out2, f, c) /\ k.box.credits[c] \in Credits /\ Carried(f, c) = f.n
            BY <1>1, <1>2, CalleeHears, SceneFacts DEF Carried
        <3> QED
            BY <3>1 DEF Shrinks, OutOf
    <2>4. PICK n \in Nat, x \in Nat, h \in Nat, b \in Nat, g \in Nat, a \in Nat :
            /\ n = f.n /\ x = OutOf(k, out2, c) /\ h = m.inflight[c].credit /\ b = m.metered[c]
            /\ g = k.granted[c] /\ a = l.inflight[c].credit
        BY <1>1, <1>2, <2>3, RecordTypes, SceneFacts
    <2>5. PICK y \in Nat : y = x + b
        OBVIOUS
    <2>6. Balanced(g, n + h + y)
        <3>1. n + h + y = n + x + h + b
            BY <2>5
        <3> QED
            BY <2>2, <2>3, <2>4, <3>1
    <2>7. Balanced(g, SaturatingAdd(h, n) + y)
        BY <2>6, BalancedTaken
    <2>8. SaturatingAdd(h, n) = a
        BY <1>2, <2>4
    <2>9. a + y = x + a + b
        BY <2>5
    <2>10. OutOf(l, back, c) = OutOf(m, back, c)
        BY <1>2 DEF OutOf
    <2> QED
        BY <1>2, <2>2, <2>4, <2>7, <2>8, <2>9, <2>10
<1>6. Up(k, l, out2, c)
    <2>1. ReadUpTo(l, c) = ReadUpTo(m, c)
        BY <1>2 DEF ReadUpTo
    <2>2. Follow(ReadUpTo(m, c), f, c) = ReadUpTo(m, c)
        BY <1>2 DEF Follow
    <2> QED
        BY <1>2, <2>1, <2>2, UpHeard
<1> QED
    BY <1>3, <1>4, <1>5, <1>6 DEF Flow

\* A handler starts with the allowance its REQUEST carries: that is all that was
\* granted, and nothing was granted the other way.
LEMMA CalleeBegins ==
    ASSUME NEW c \in Calls, NEW k, NEW m, NEW out, NEW back, Scene(k, m, out, back, c),
           Flow(k, m, out, back, c), NEW f, NEW out2, Hears(out, f, out2, c),
           NEW l \in CoreType, Began(m, l, f)
    PROVE  Flow(k, l, out2, back, c)
<1>1. f \in Frame /\ f.call = c /\ m \in CoreType
    BY CalleeHears, SceneFacts
<1>2. /\ f.kind = "REQUEST" /\ ~Inflight(m, c) /\ Inflight(l, c)
      /\ Queue(l, c) = Queue(m, c) /\ l.box.credits[c] = m.box.credits[c]
      /\ l.put[c] = m.put[c] /\ l.metered[c] = m.metered[c] /\ l.granted[c] = m.granted[c]
      /\ l.inflight[c].credit = f.ctx.credit
      /\ l.inflight[c].inboundClosed = ~CallerStreams(l.inflight[c].m)
      /\ l.got[c] = m.got[c]
    BY <1>1 DEF Began, Started, Books
<1>3. /\ m.granted[c] = 0 /\ m.metered[c] = 0 /\ m.put[c] = 0 /\ m.got[c] = <<>>
      /\ k.metered[c] = 0 /\ Unopened(k, out, c)
    <2>1. Unopened(k, out, c)
        BY <1>2, CalleeHears
    <2> QED
        BY <2>1 DEF Flow, Past, Untouched
<1>4. Past(k, l, out2, c) /\ Owed(k, out2, c)
    <2>1. l.got[c] = Counting(Len(l.got[c]))
        BY <1>2 DEF Flow, Past
    <2> QED
        BY <1>2, <2>1, PastHeard
<1>5. Down(k, l, out2, back, c)
    BY <1>2, DownHeard
<1>6. Square(k, l, out2, back, c)
    <2>1. SUFFICES ASSUME Pending(k, c)
                   PROVE  /\ Balanced(k.granted[c], OutOf(k, out2, c) + l.inflight[c].credit + l.metered[c])
                          /\ Balanced(l.granted[c], OutOf(l, back, c) + k.pending[c].credit + k.metered[c])
        BY DEF Square
    <2>2. Balanced(k.granted[c], OutOf(k, out, c)) /\ k.pending[c].credit = 0
        BY <1>3, <2>1 DEF Flow, Owed
    <2>3. OutOf(k, out, c) = f.ctx.credit + OutOf(k, out2, c) /\ OutOf(k, out2, c) \in Nat /\ f.ctx.credit \in Nat
        <3>1. Shrinks(out, Queue(k, c), out2, f, c) /\ k.box.credits[c] \in Credits /\ Carried(f, c) = f.ctx.credit
            BY <1>1, <1>2, CalleeHears, SceneFacts DEF Carried
        <3> QED
            BY <3>1 DEF Shrinks, OutOf
    <2>4. OutOf(l, back, c) = 0
        <3>1. Queue(l, c) = <<>> /\ l.box.credits[c] = NoCredit /\ ~Mentions(back, c)
            BY <1>2, <1>3 DEF Scene, Linked, Silent
        <3>2. back \in Seq(Frame)
            BY SceneFacts
        <3>3. Coming(NoCredit, back, <<>>, c) = 0
            BY <3>1, <3>2, WayNothing
        <3> QED
            BY <3>1, <3>3 DEF OutOf
    <2>5. Balanced(0, 0 + 0 + 0)
        BY DEF Balanced
    <2>6. PICK x \in Nat, a \in Nat, g \in Nat :
            x = OutOf(k, out2, c) /\ a = f.ctx.credit /\ g = k.granted[c]
        BY <2>3, SceneFacts
    <2>7. Balanced(g, x + a + 0)
        <3>1. x + a + 0 = a + x
            OBVIOUS
        <3> QED
            BY <2>2, <2>3, <2>6, <3>1
    <2> QED
        BY <1>2, <1>3, <2>2, <2>4, <2>5, <2>6, <2>7
<1>7. Up(k, l, out2, c)
    <2>1. ReadUpTo(m, c) = Len(m.got[c]) /\ ReadUpTo(l, c) = Len(m.got[c])
        BY <1>2 DEF ReadUpTo
    <2>2. Follow(ReadUpTo(m, c), f, c) = ReadUpTo(m, c)
        BY <1>2 DEF Follow
    <2> QED
        BY <1>2, <2>1, <2>2, UpHeard
<1> QED
    BY <1>4, <1>5, <1>6, <1>7 DEF Flow

LEMMA CalleeTakes ==
    ASSUME NEW s \in Side, NEW c \in Calls, NEW k, NEW m, NEW out, NEW back, Scene(k, m, out, back, c),
           Flow(k, m, out, back, c), NEW f, NEW out2, Hears(out, f, out2, c),
           f.kind = "CREDIT" /\ CreditsShared => HasCredit(s),
           NEW l \in CoreType, Heeds(s, m, l, f)
    PROVE  Flow(k, l, out2, back, c)
<1>1. f \in Frame /\ f.call = c /\ ~Pending(m, c)
    BY CalleeHears DEF Scene
<1>2. CASE Skipped(s, m, l, f)
    BY <1>2, CalleeSkips
<1>3. CASE Over(s, m, l, c)
    BY <1>3, CalleeStops
<1>4. CASE Refused(s, m, l, c) /\ Books(m, l, c)
    BY <1>4, CalleeRefuses
<1>5. CASE ItemGiven(m, l, f)
    BY <1>5, CalleeItemHeard
<1>6. CASE EndGiven(m, l, f)
    BY <1>6, CalleeEndHeard
<1>7. CASE Credited(s, m, l, f)
    BY <1>7, CalleeCredited
<1>8. CASE Began(m, l, f)
    BY <1>8, CalleeBegins
<1>9. ~Gone(m, l, c) /\ ~ItemReported(m, l, f) /\ ~EndReported(m, l, f)
    BY <1>1 DEF Gone, Settled, ItemReported, EndReported
<1> QED
    BY <1>1, <1>2, <1>3, <1>4, <1>5, <1>6, <1>7, <1>8, <1>9 DEF Heeds

-----------------------------------------------------------------------------
\* What the link does to the flow of a call: a frame of its queue leaves, an
\* allowance leaves, a session ends.

Shipped(k, l, c) ==
    /\ SameLife(k, l, c) /\ (c \in l.issued <=> c \in k.issued)
    /\ l.box.credits[c] = k.box.credits[c] /\ l.outcomes[c] = k.outcomes[c]
    /\ Books(k, l, c) /\ Terms(k, l, c)
    /\ Queue(k, c) # <<>> /\ Queue(l, c) = Tail(Queue(k, c))

LEMMA ShippedMade ==
    ASSUME NEW k, NEW l, NEW c, NEW t, Popped(k, l, c, t), AllBooks(k, l), Terms(k, l, c)
    PROVE  Shipped(k, l, c)
BY DEF Shipped, Popped, Books, AllBooks

LEMMA CallerSends ==
    ASSUME NEW c \in Calls, NEW k, NEW m, NEW out, NEW back, Scene(k, m, out, back, c),
           Flow(k, m, out, back, c), NEW l \in CoreType, Shipped(k, l, c),
           NEW f \in Frame, f.call = c, f = Head(Queue(k, c)), NEW out2, out2 = Append(out, f)
    PROVE  Flow(l, m, out2, back, c)
<1>1. /\ (Pending(l, c) <=> Pending(k, c)) /\ (c \in l.issued <=> c \in k.issued)
      /\ l.box.credits[c] = k.box.credits[c] /\ l.outcomes[c] = k.outcomes[c]
      /\ l.put[c] = k.put[c] /\ l.metered[c] = k.metered[c] /\ l.granted[c] = k.granted[c]
      /\ Pending(k, c) => l.pending[c] = k.pending[c]
      /\ Queue(k, c) # <<>> /\ Queue(l, c) = Tail(Queue(k, c))
    BY DEF Shipped, SameLife, Books, Terms, WaitTerms
<1>2. /\ Queue(k, c) \in Seq(Frame) /\ out \in Seq(Frame) /\ k.box.credits[c] \in Credits /\ ReadUpTo(m, c) \in Int
    BY SceneFacts
<1>3. Keeps(out, Queue(k, c), out2, Queue(l, c), c)
    <2>1. PICK q \in Seq(Frame), r \in Seq(Frame) : q = Queue(k, c) /\ r = Queue(l, c)
        BY <1>2, CallTypes
    <2>2. q # <<>> /\ r = Tail(q) /\ out2 = Append(out, Head(q))
        BY <1>1, <2>1
    <2> QED
        BY <1>2, <2>1, <2>2, WaySent
<1>4. Unopened(l, out2, c) <=> Unopened(k, out, c)
    <2>1. Has(Queue(k, c), Requests) <=> f.kind \in Requests \/ Has(Queue(l, c), Requests)
        BY <1>1, <1>2, QueueTail
    <2>2. Says(out2, c, Requests) <=> Says(out, c, Requests) \/ f.kind \in Requests
        BY <1>2, NetAppend
    <2> QED
        BY <2>1, <2>2 DEF Unopened
<1>5. /\ OutOf(l, out2, c) = OutOf(k, out, c)
      /\ Through(ReadUpTo(m, c), out2, Queue(l, c), c) = Through(ReadUpTo(m, c), out, Queue(k, c), c)
    BY <1>1, <1>2, <1>3 DEF Keeps, OutOf
<1>6. Past(l, m, out2, c)
    BY <1>1, <1>4 DEF Flow, Past, Untouched
<1>7. Owed(l, out2, c) /\ Square(l, m, out2, back, c)
    BY <1>1, <1>4, <1>5 DEF Flow, Owed, Square
<1>8. Down(l, m, out2, back, c) /\ Up(l, m, out2, c)
    BY <1>1, <1>4, <1>5 DEF Flow, Down, Up, Said
<1> QED
    BY <1>6, <1>7, <1>8 DEF Flow

\* The callee is gone and reads nothing.
LEMMA NobodyReads ==
    ASSUME NEW c \in Calls, NEW k, NEW m, NEW out, NEW back, Scene(k, m, out, back, c),
           Flow(k, m, out, back, c), m.finished,
           NEW l, (Pending(l, c) <=> Pending(k, c)), (c \in l.issued <=> c \in k.issued),
           l.outcomes[c] = k.outcomes[c], l.put[c] = k.put[c], l.metered[c] = k.metered[c],
           ~Has(Queue(l, c), Requests)
    PROVE  Flow(l, m, out, back, c)
<1>1. ~Inflight(m, c) /\ out = <<>> /\ m.put[c] \in Nat
    BY SceneFacts DEF Scene
<1>2. ~Unopened(l, out, c)
    BY <1>1, NetEmpty DEF Unopened
<1>3. c \notin l.issued => Untouched(l, m, c)
    BY DEF Flow, Past, Untouched
<1>4. Past(l, m, out, c)
    BY <1>1, <1>2, <1>3 DEF Flow, Past
<1>5. Owed(l, out, c) /\ Square(l, m, out, back, c) /\ Up(l, m, out, c)
    BY <1>1, <1>2 DEF Owed, Square, Up
<1>6. Down(l, m, out, back, c)
    BY <1>1, <1>2, SoundExact DEF Flow, Down
<1> QED
    BY <1>4, <1>5, <1>6 DEF Flow

LEMMA CallerLoses ==
    ASSUME NEW c \in Calls, NEW k, NEW m, NEW out, NEW back, Scene(k, m, out, back, c),
           Flow(k, m, out, back, c), m.finished, NEW l, Shipped(k, l, c)
    PROVE  Flow(l, m, out, back, c)
<1>1. Queue(k, c) \in Seq(Frame) /\ Queue(k, c) # <<>> /\ Queue(l, c) = Tail(Queue(k, c))
    BY SceneFacts DEF Shipped
<1>2. HeadOnly(Queue(k, c))
    BY DEF Scene, Linked
<1>3. ~Has(Queue(l, c), Requests)
    BY <1>1, <1>2, QueueTail
<1> QED
    BY <1>3, NobodyReads DEF Shipped, SameLife, Books

LEMMA CalleeSends ==
    ASSUME NEW c \in Calls, NEW k, NEW m, NEW out, NEW back, Scene(k, m, out, back, c),
           Flow(k, m, out, back, c), NEW l \in CoreType, Shipped(m, l, c),
           NEW f \in Frame, f.call = c, f = Head(Queue(m, c)),
           NEW back2, back2 = Append(back, f) \/ k.finished
    PROVE  Flow(k, l, out, back2, c)
<1>1. /\ (Inflight(l, c) <=> Inflight(m, c))
      /\ l.box.credits[c] = m.box.credits[c] /\ l.got[c] = m.got[c]
      /\ l.put[c] = m.put[c] /\ l.metered[c] = m.metered[c] /\ l.granted[c] = m.granted[c]
      /\ Inflight(m, c) => /\ l.inflight[c].m = m.inflight[c].m
                           /\ l.inflight[c].credit = m.inflight[c].credit
                           /\ l.inflight[c].inboundClosed = m.inflight[c].inboundClosed
      /\ Queue(m, c) # <<>> /\ Queue(l, c) = Tail(Queue(m, c))
    BY DEF Shipped, SameLife, Books, Terms, RunTerms
<1>2. /\ Queue(m, c) \in Seq(Frame) /\ back \in Seq(Frame) /\ m.box.credits[c] \in Credits
      /\ Len(k.outcomes[c]) \in Int
    BY SceneFacts
<1>3. Past(k, l, out, c) /\ Owed(k, out, c)
    BY <1>1 DEF Flow, Past, Untouched
<1>4. Up(k, l, out, c)
    <2>1. ReadUpTo(l, c) = ReadUpTo(m, c)
        BY <1>1 DEF ReadUpTo
    <2> QED
        BY <1>1, <2>1 DEF Flow, Up
<1>5. CASE ~Pending(k, c)
    BY <1>3, <1>4, <1>5 DEF Flow, Square, Down
<1>6. CASE Pending(k, c)
    <2>1. back2 = Append(back, f)
        BY <1>6 DEF Scene
    <2>2. Keeps(back, Queue(m, c), back2, Queue(l, c), c)
        <3>1. PICK q \in Seq(Frame), r \in Seq(Frame) : q = Queue(m, c) /\ r = Queue(l, c)
            BY <1>2, CallTypes
        <3>2. q # <<>> /\ r = Tail(q) /\ back2 = Append(back, Head(q))
            BY <1>1, <2>1, <3>1
        <3> QED
            BY <1>2, <3>1, <3>2, WaySent
    <2>3. /\ OutOf(l, back2, c) = OutOf(m, back, c)
          /\ Through(Len(k.outcomes[c]), back2, Queue(l, c), c) = Through(Len(k.outcomes[c]), back, Queue(m, c), c)
        BY <1>1, <1>2, <2>2 DEF Keeps, OutOf
    <2>4. Square(k, l, out, back2, c) /\ Down(k, l, out, back2, c)
        BY <1>1, <2>3 DEF Flow, Square, Down
    <2> QED
        BY <1>3, <1>4, <2>4 DEF Flow
<1> QED
    BY <1>5, <1>6

\* The allowance that waits leaves as a CREDIT.
Shed(k, l, c) ==
    /\ SameLife(k, l, c) /\ (c \in l.issued <=> c \in k.issued)
    /\ l.outcomes[c] = k.outcomes[c] /\ Queue(l, c) = Queue(k, c)
    /\ Books(k, l, c) /\ Terms(k, l, c)
    /\ k.box.credits[c] # NoCredit /\ l.box.credits[c] = NoCredit

LEMMA ShedMade ==
    ASSUME NEW k \in CoreType, NEW c \in Calls, NEW t, NEW l, l = CreditLeaves(k, c), Kept(k, l, c, t),
           AllBooks(k, l), Terms(k, l, c), k.box.credits[c] # NoCredit, l.box.credits[c] = NoCredit
    PROVE  Shed(k, l, c)
<1>1. l.outcomes = k.outcomes
    BY DEF CreditLeaves, CoreType
<1> QED
    BY <1>1 DEF Shed, Kept, SamePast, Books, AllBooks

\* What it carries is what was waiting.
Repaid(k, n, l, n2, c) ==
    /\ OutOf(l, n2, c) = OutOf(k, n, c)
    /\ \A v \in Int : Through(v, n2, Queue(l, c), c) = Through(v, n, Queue(k, c), c)
    /\ Says(n2, c, Requests) <=> Says(n, c, Requests)
LEMMA ShedLevel ==
    ASSUME NEW c \in Calls, NEW k \in CoreType, NEW n \in Seq(Frame), NEW l, Shed(k, l, c),
           NEW f \in Frame, f.call = c, f.kind = "CREDIT", f.n = k.box.credits[c],
           NEW n2, n2 = Append(n, f)
    PROVE  Repaid(k, n, l, n2, c)
<1>1. /\ Queue(k, c) \in Seq(Frame) /\ k.box.credits[c] \in Credits /\ k.box.credits[c] # NoCredit
      /\ Queue(l, c) = Queue(k, c) /\ l.box.credits[c] = NoCredit /\ NoCredit \in Credits
    BY CallTypes DEF Shed, Credits
<1>2. Joins(n, Queue(k, c), n2, f, c)
    BY <1>1, WayAside
<1>3. Coming(NoCredit, n2, Queue(k, c), c) = Coming(NoCredit, n, Queue(k, c), c) + f.n
    BY <1>1, <1>2 DEF Joins
<1>4. Amount(NoCredit) = 0 /\ Amount(k.box.credits[c]) = f.n /\ f.n \in Nat
    BY <1>1, AmountType DEF Amount
<1>5. CarriedBy(Queue(k, c), c) \in Nat /\ CarriedBy(n, c) \in Nat
    BY <1>1, CarriedFacts
<1>6. Coming(NoCredit, n, Queue(k, c), c) + f.n = Coming(k.box.credits[c], n, Queue(k, c), c)
    BY <1>4, <1>5 DEF Coming
<1>7. OutOf(l, n2, c) = OutOf(k, n, c)
    BY <1>1, <1>3, <1>6 DEF OutOf
<1>8. Says(n2, c, Requests) <=> Says(n, c, Requests)
    <2>1. f.kind \notin Requests
        BY DEF Requests
    <2> QED
        BY <2>1, NetAppend
<1> QED
    BY <1>1, <1>2, <1>7, <1>8 DEF Joins, Repaid

LEMMA CallerSheds ==
    ASSUME NEW c \in Calls, NEW k, NEW m, NEW out, NEW back, Scene(k, m, out, back, c),
           Flow(k, m, out, back, c), NEW l \in CoreType, Shed(k, l, c),
           NEW f \in Frame, f.call = c, f.kind = "CREDIT", f.n = k.box.credits[c],
           NEW out2, out2 = Append(out, f)
    PROVE  Flow(l, m, out2, back, c)
<1>1. /\ (Pending(l, c) <=> Pending(k, c)) /\ (c \in l.issued <=> c \in k.issued)
      /\ l.outcomes[c] = k.outcomes[c] /\ Queue(l, c) = Queue(k, c)
      /\ l.put[c] = k.put[c] /\ l.metered[c] = k.metered[c] /\ l.granted[c] = k.granted[c]
      /\ Pending(k, c) => l.pending[c] = k.pending[c]
    BY DEF Shed, SameLife, Books, Terms, WaitTerms
<1>2. k \in CoreType /\ out \in Seq(Frame) /\ ReadUpTo(m, c) \in Int
    BY SceneFacts
<1>3. /\ OutOf(l, out2, c) = OutOf(k, out, c)
      /\ Through(ReadUpTo(m, c), out2, Queue(l, c), c) = Through(ReadUpTo(m, c), out, Queue(k, c), c)
      /\ Says(out2, c, Requests) <=> Says(out, c, Requests)
    <2>1. Repaid(k, out, l, out2, c)
        BY <1>2, ShedLevel
    <2> QED
        BY <1>2, <2>1 DEF Repaid
<1>4. Unopened(l, out2, c) <=> Unopened(k, out, c)
    BY <1>1, <1>3 DEF Unopened
<1>5. Past(l, m, out2, c)
    BY <1>1, <1>4 DEF Flow, Past, Untouched
<1>6. Owed(l, out2, c) /\ Square(l, m, out2, back, c)
    BY <1>1, <1>3, <1>4 DEF Flow, Owed, Square
<1>7. Down(l, m, out2, back, c) /\ Up(l, m, out2, c)
    BY <1>1, <1>3, <1>4 DEF Flow, Down, Up, Said
<1> QED
    BY <1>5, <1>6, <1>7 DEF Flow

LEMMA CallerShedsVain ==
    ASSUME NEW c \in Calls, NEW k, NEW m, NEW out, NEW back, Scene(k, m, out, back, c),
           Flow(k, m, out, back, c), m.finished, NEW l, Shed(k, l, c),
           ~OpensWithRequest(k.box, c)
    PROVE  Flow(l, m, out, back, c)
<1>1. k \in CoreType /\ HeadOnly(Queue(k, c)) /\ Queue(l, c) = Queue(k, c)
    BY DEF Scene, Linked, Shed
<1>2. ~Has(Queue(l, c), Requests)
    BY <1>1, HeldBack
<1> QED
    BY <1>2, NobodyReads DEF Shed, SameLife, Books

LEMMA CalleeSheds ==
    ASSUME NEW c \in Calls, NEW k, NEW m, NEW out, NEW back, Scene(k, m, out, back, c),
           Flow(k, m, out, back, c), NEW l \in CoreType, Shed(m, l, c),
           NEW f \in Frame, f.call = c, f.kind = "CREDIT", f.n = m.box.credits[c],
           NEW back2, back2 = Append(back, f) \/ k.finished
    PROVE  Flow(k, l, out, back2, c)
<1>1. /\ (Inflight(l, c) <=> Inflight(m, c)) /\ Queue(l, c) = Queue(m, c) /\ l.got[c] = m.got[c]
      /\ l.put[c] = m.put[c] /\ l.metered[c] = m.metered[c] /\ l.granted[c] = m.granted[c]
      /\ Inflight(m, c) => /\ l.inflight[c].m = m.inflight[c].m
                           /\ l.inflight[c].credit = m.inflight[c].credit
                           /\ l.inflight[c].inboundClosed = m.inflight[c].inboundClosed
    BY DEF Shed, SameLife, Books, Terms, RunTerms
<1>2. m \in CoreType /\ back \in Seq(Frame) /\ Len(k.outcomes[c]) \in Int
    BY SceneFacts
<1>3. Past(k, l, out, c) /\ Owed(k, out, c)
    BY <1>1 DEF Flow, Past, Untouched
<1>4. Up(k, l, out, c)
    <2>1. ReadUpTo(l, c) = ReadUpTo(m, c)
        BY <1>1 DEF ReadUpTo
    <2> QED
        BY <1>1, <2>1 DEF Flow, Up
<1>5. CASE ~Pending(k, c)
    BY <1>3, <1>4, <1>5 DEF Flow, Square, Down
<1>6. CASE Pending(k, c)
    <2>1. back2 = Append(back, f)
        BY <1>6 DEF Scene
    <2>5. Repaid(m, back, l, back2, c)
        BY <1>2, <2>1, ShedLevel
    <2>2. /\ OutOf(l, back2, c) = OutOf(m, back, c)
          /\ \A v \in Int : Through(v, back2, Queue(l, c), c) = Through(v, back, Queue(m, c), c)
        BY <2>5 DEF Repaid
    <2>3. Square(k, l, out, back2, c)
        BY <1>1, <2>2 DEF Flow, Square
    <2>4. Down(k, l, out, back2, c)
        BY <1>1, <1>2, <2>2 DEF Flow, Down
    <2> QED
        BY <1>3, <1>4, <2>3, <2>4 DEF Flow
<1> QED
    BY <1>5, <1>6

LEMMA CallerCloses ==
    ASSUME NEW c \in Calls, NEW k, NEW m, NEW out, NEW back, Scene(k, m, out, back, c),
           Flow(k, m, out, back, c), NEW l \in CoreType, Closed(k, l, c),
           NEW j \in 0..Len(out), NEW out2, out2 = SubSeq(out, 1, j), NEW back2
    PROVE  Flow(l, m, out2, back2, c)
<1>1. /\ ~Pending(l, c) /\ Queue(l, c) = <<>> /\ (c \in l.issued <=> c \in k.issued)
      /\ l.put[c] = k.put[c] /\ l.metered[c] = k.metered[c]
    BY DEF Closed, Dropped, SamePast, Books
<1>2. /\ k \in CoreType /\ out \in Seq(Frame) /\ Queue(k, c) \in Seq(Frame) /\ ReadUpTo(m, c) \in Int
      /\ k.put[c] \in Nat
    BY SceneFacts
<1>3. out2 \in Seq(Frame) /\ (Says(out2, c, Requests) => Says(out, c, Requests))
    <2>1. PICK n \in Seq(Frame) : n = out
        BY <1>2
    <2>2. j \in 0..Len(n) /\ out2 = SubSeq(n, 1, j)
        BY <2>1
    <2>3. /\ out2 \in Seq(Frame)
          /\ \A K : Says(out2, c, K) => Says(n, c, K)
          /\ Mentions(out2, c) => Mentions(n, c)
          /\ ReqFirst(n, c) => ReqFirst(out2, c)
        BY <2>2, NetPrefix
    <2> QED
        BY <2>1, <2>3
<1>4. Unopened(l, out2, c) => Unopened(k, out, c)
    BY <1>1, <1>3, QueueEmpty DEF Unopened
<1>5. /\ Counted(l.outcomes[c])
      /\ EndsWell(l.outcomes[c]) => ~Pending(k, c) /\ l.outcomes[c] = k.outcomes[c]
      /\ c \notin k.issued => l.outcomes[c] = k.outcomes[c]
    <2>1. CASE ~Pending(k, c)
        BY <2>1 DEF Closed, Dropped, Flow, Past
    <2>2. CASE Pending(k, c)
        <3>1. PICK x \in Outcome : Terminates(x) /\ l.outcomes[c] = Append(k.outcomes[c], x)
            BY <2>2 DEF Closed, Dropped
        <3>2. PICK o \in Seq(Outcome), p \in Seq(Outcome) : o = k.outcomes[c] /\ p = l.outcomes[c]
            BY <1>2, CallTypes
        <3>3. Counted(o) /\ p = Append(o, x)
            BY <3>1, <3>2 DEF Flow, Past
        <3>4. Counted(p)
            BY <3>1, <3>3, CountedAppend
        <3>5. ~EndsWell(l.outcomes[c]) /\ c \in k.issued
            BY <2>2 DEF Closed, Scene
        <3> QED
            BY <3>2, <3>4, <3>5
    <2> QED
        BY <2>1, <2>2
<1>6. Past(l, m, out2, c)
    BY <1>1, <1>4, <1>5 DEF Flow, Past, Untouched
<1>7. Owed(l, out2, c) /\ Square(l, m, out2, back2, c) /\ Down(l, m, out2, back2, c)
    BY <1>1 DEF Owed, Square, Down
<1>8. Up(l, m, out2, c)
    <2>1. SUFFICES ASSUME Inflight(m, c) \/ Unopened(l, out2, c)
                   PROVE  Sound(Through(ReadUpTo(m, c), out2, <<>>, c), k.put[c])
        BY <1>1 DEF Up
    <2>2. Sound(Through(ReadUpTo(m, c), out, Queue(k, c), c), k.put[c])
        BY <1>2, <1>4, <2>1, SoundExact DEF Flow, Up, Said
    <2> QED
        BY <1>2, <2>2, SoundPart
<1> QED
    BY <1>6, <1>7, <1>8 DEF Flow

LEMMA NothingSaid ==
    ASSUME NEW c \in Calls, NEW n \in Seq(Frame), ~Mentions(n, c)
    PROVE  CarriedBy(n, c) = 0 /\ \A v \in Int : Reach(v, n, c) = v
<1>1. \A i \in 1..Len(n) : n[i].call # c
    BY DEF Mentions
<1>2. ASSUME NEW v \in Int PROVE Reach(v, n, c) = v
    <2>1. \A i \in 1..Len(n) : Follow(v, n[i], c) = v
        BY <1>1 DEF Follow
    <2> QED
        BY <2>1, ReachFacts
<1>3. \A i \in 1..Len(n) : Carried(n[i], c) = 0
    BY <1>1 DEF Carried
<1>4. CarriedBy(n, c) = 0
    BY <1>3, CarriedFacts
<1> QED
    BY <1>2, <1>4

LEMMA CalleeCloses ==
    ASSUME NEW c \in Calls, NEW k, NEW m, NEW out, NEW back, Scene(k, m, out, back, c),
           Flow(k, m, out, back, c), NEW l \in CoreType, Closed(m, l, c),
           NEW j \in 0..Len(back), NEW back2, back2 = SubSeq(back, 1, j)
    PROVE  Flow(k, l, <<>>, back2, c)
<1>1. /\ ~Inflight(l, c) /\ Queue(l, c) = <<>> /\ l.got[c] = m.got[c]
      /\ l.put[c] = m.put[c] /\ l.metered[c] = m.metered[c] /\ l.granted[c] = m.granted[c]
    BY DEF Closed, Dropped, Books
<1>2. /\ k \in CoreType /\ out \in Seq(Frame) /\ Queue(k, c) \in Seq(Frame) /\ Queue(m, c) \in Seq(Frame)
      /\ ReadUpTo(m, c) \in Int /\ Len(k.outcomes[c]) \in Int /\ m.put[c] \in Nat /\ back \in Seq(Frame)
    BY SceneFacts
<1>3. <<>> \in Seq(Frame) /\ ~Mentions(<<>>, c)
    BY NetEmpty
<1>4. Unopened(k, <<>>, c) <=> Has(Queue(k, c), Requests)
    BY NetEmpty DEF Unopened
<1>5. Unopened(k, <<>>, c) =>
        Unopened(k, out, c) /\ ~Mentions(out, c) /\ Silent(m, back, c)
    BY <1>4 DEF Scene, Linked, Unopened
<1>6. Past(k, l, <<>>, c)
    BY <1>1, <1>5 DEF Flow, Past, Untouched
<1>7. Owed(k, <<>>, c)
    <2>1. SUFFICES ASSUME Pending(k, c), Unopened(k, <<>>, c)
                   PROVE  /\ ~k.pending[c].established /\ k.pending[c].credit = 0
                          /\ Balanced(k.granted[c], OutOf(k, <<>>, c))
        BY DEF Owed
    <2>2. /\ ~k.pending[c].established /\ k.pending[c].credit = 0
          /\ Balanced(k.granted[c], OutOf(k, out, c))
        BY <1>5, <2>1 DEF Flow, Owed
    <2>3. CarriedBy(out, c) = 0 /\ CarriedBy(<<>>, c) = 0
        BY <1>2, <1>3, <1>5, <2>1, NothingSaid
    <2>4. OutOf(k, <<>>, c) = OutOf(k, out, c)
        BY <2>3 DEF OutOf, Coming
    <2> QED
        BY <2>2, <2>4
<1>8. Square(k, l, <<>>, back2, c)
    BY <1>1 DEF Square
<1>9. Up(k, l, <<>>, c)
    <2>1. SUFFICES ASSUME Unopened(k, <<>>, c)
                   PROVE  LET v == Through(ReadUpTo(l, c), <<>>, Queue(k, c), c)
                          IN IF Pending(k, c) THEN v = Said(k, c) ELSE Sound(v, k.put[c])
        BY <1>1 DEF Up
    <2>2. ReadUpTo(l, c) = ReadUpTo(m, c)
        BY <1>1, <1>5, <2>1 DEF ReadUpTo, Silent
    <2>3. Reach(ReadUpTo(m, c), out, c) = ReadUpTo(m, c) /\ Reach(ReadUpTo(m, c), <<>>, c) = ReadUpTo(m, c)
        BY <1>2, <1>3, <1>5, <2>1, NothingSaid
    <2>4. Through(ReadUpTo(l, c), <<>>, Queue(k, c), c) = Through(ReadUpTo(m, c), out, Queue(k, c), c)
        BY <2>2, <2>3 DEF Through
    <2> QED
        BY <1>5, <2>1, <2>4 DEF Flow, Up
<1>10. Down(k, l, <<>>, back2, c)
    <2>1. SUFFICES ASSUME Pending(k, c)
                   PROVE  LET v == Through(Len(k.outcomes[c]), back2, <<>>, c)
                          IN IF Unopened(k, <<>>, c) THEN v = m.put[c] ELSE Sound(v, m.put[c])
        BY <1>1 DEF Down
    <2>2. Sound(Through(Len(k.outcomes[c]), back, Queue(m, c), c), m.put[c])
        BY <1>2, <2>1, SoundExact DEF Flow, Down
    <2>3. Sound(Through(Len(k.outcomes[c]), back2, <<>>, c), m.put[c])
        BY <1>2, <2>2, SoundPart
    <2>4. ASSUME Unopened(k, <<>>, c) PROVE Through(Len(k.outcomes[c]), back2, <<>>, c) = m.put[c]
        <3>1. Queue(m, c) = <<>> /\ ~Mentions(back, c)
            BY <1>5, <2>4 DEF Silent
        <3>2. back2 \in Seq(Frame) /\ ~Mentions(back2, c)
            <4>1. /\ back2 \in Seq(Frame)
                  /\ \A K : Says(back2, c, K) => Says(back, c, K)
                  /\ Mentions(back2, c) => Mentions(back, c)
                  /\ ReqFirst(back, c) => ReqFirst(back2, c)
                BY <1>2, NetPrefix
            <4> QED
                BY <3>1, <4>1
        <3>3. Through(Len(k.outcomes[c]), back, Queue(m, c), c) = m.put[c]
            BY <1>5, <2>1, <2>4 DEF Flow, Down
        <3>4. Reach(Len(k.outcomes[c]), back, c) = Len(k.outcomes[c])
            BY <1>2, <3>1, NothingSaid
        <3>5. Reach(Len(k.outcomes[c]), back2, c) = Len(k.outcomes[c])
            BY <1>2, <3>2, NothingSaid
        <3> QED
            BY <3>1, <3>3, <3>4, <3>5 DEF Through
    <2> QED
        BY <2>3, <2>4
<1> QED
    BY <1>6, <1>7, <1>8, <1>9, <1>10 DEF Flow

-----------------------------------------------------------------------------
\* The invariant of the flows.

\* An endpoint whose session has ended has nothing left to do.
Rest(k, from) ==
    k.finished =>
        /\ ~k.ready /\ from = <<>>
        /\ \A c \in Calls : ~Pending(k, c) /\ ~Inflight(k, c)

\* Only a side that knows the CREDIT message grants allowances in one, and
\* none waits in the queue of its call.
Licensed(s, k, to, c) ==
    /\ k.box.credits[c] # NoCredit \/ Says(to, c, {"CREDIT"}) => HasCredit(s)
    /\ ~Has(Queue(k, c), {"CREDIT"})

\* As in Joined.
Flows(s, k, m, to, from, c) ==
    IF Allocates(s, c) THEN Flow(k, m, to, from, c) ELSE Flow(m, k, from, to, c)
Scenes(s, k, m, to, from, c) ==
    IF Allocates(s, c) THEN Scene(k, m, to, from, c) ELSE Scene(m, k, from, to, c)

FlowInv ==
    /\ Inv
    /\ \A s \in Side : Rest(core[s], net[s])
    /\ \A s \in Side, c \in Calls :
        /\ Licensed(s, core[s], net[Peer(s)], c)
        /\ Flows(s, core[s], core[Peer(s)], net[Peer(s)], net[s], c)

LEMMA FlowsTurned ==
    ASSUME NEW s \in Side, NEW c \in Calls, NEW k, NEW m, NEW to, NEW from
    PROVE  /\ Flows(s, k, m, to, from, c) <=> Flows(Peer(s), m, k, from, to, c)
           /\ Scenes(s, k, m, to, from, c) <=> Scenes(Peer(s), m, k, from, to, c)
BY OneAllocates DEF Flows, Scenes

LEMMA SceneMade ==
    ASSUME NEW s \in Side, NEW p \in Side, p = Peer(s), NEW c \in Calls, Allocates(s, c), NEW t,
           NEW k \in CoreType, NEW m \in CoreType, NEW to \in Seq(Frame), NEW from \in Seq(Frame),
           CallOK(s, k, c, t), CallOK(p, m, c, t), Linked(k, m, to, from, c), Rest(k, from), Rest(m, to)
    PROVE  Scene(k, m, to, from, c)
<1>1. ~Allocates(p, c)
    BY OneAllocates
<1>2. ~Inflight(k, c) /\ ~Pending(m, c) /\ (Pending(k, c) => c \in k.issued)
    BY <1>1 DEF CallOK
<1>3. Ends(k.outcomes[c]) = IF c \in k.issued /\ ~Pending(k, c) THEN {Len(k.outcomes[c])} ELSE {}
    BY DEF CallOK, Completed
<1>4. (m.finished => ~Inflight(m, c) /\ to = <<>>) /\ (k.finished => ~Pending(k, c))
    BY DEF Rest
<1> QED
    BY <1>2, <1>3, <1>4 DEF Scene

\* What the invariant says of side s.
LEMMA FlowAt ==
    ASSUME FlowInv, NEW s \in Side
    PROVE  /\ Inv /\ Rest(core[s], net[s]) /\ Rest(core[Peer(s)], net[Peer(s)])
           /\ \A c \in Calls :
                /\ Licensed(s, core[s], net[Peer(s)], c)
                /\ Licensed(Peer(s), core[Peer(s)], net[s], c)
                /\ Flows(s, core[s], core[Peer(s)], net[Peer(s)], net[s], c)
                /\ Scenes(s, core[s], core[Peer(s)], net[Peer(s)], net[s], c)
<1>1. PICK p \in Side : p = Peer(s) /\ Peer(p) = s
    BY PeerSide
<1>2. Inv /\ Rest(core[s], net[s]) /\ Rest(core[p], net[p])
    BY <1>1 DEF FlowInv
<1>3. ASSUME NEW c \in Calls
      PROVE /\ Licensed(s, core[s], net[p], c)
            /\ Licensed(p, core[p], net[s], c)
            /\ Flows(s, core[s], core[p], net[p], net[s], c)
    BY <1>1 DEF FlowInv
<1>4. ASSUME NEW c \in Calls
      PROVE Scenes(s, core[s], core[p], net[p], net[s], c)
    <2>1. PICK k \in CoreType, m \in CoreType, to \in Seq(Frame), from \in Seq(Frame) :
            k = core[s] /\ m = core[p] /\ to = net[p] /\ from = net[s]
        BY <1>1, <1>2, InvAt
    <2>2. PICK t : t = now
        OBVIOUS
    <2>3. CallOK(s, k, c, t) /\ CallOK(p, m, c, t) /\ Joined(s, k, m, to, from, c)
        BY <1>1, <1>2, <2>1, <2>2, InvAt
    <2>4. Rest(k, from) /\ Rest(m, to)
        BY <1>2, <2>1
    <2>5. CASE Allocates(s, c)
        <3>1. Linked(k, m, to, from, c)
            BY <2>3, <2>5 DEF Joined
        <3>2. Scene(k, m, to, from, c)
            BY <1>1, <2>3, <2>4, <2>5, <3>1, SceneMade
        <3> QED
            BY <2>1, <2>5, <3>2 DEF Scenes
    <2>6. CASE ~Allocates(s, c)
        <3>1. Linked(m, k, from, to, c) /\ Allocates(p, c)
            BY <1>1, <2>3, <2>6, OneAllocates DEF Joined
        <3>2. Scene(m, k, from, to, c)
            BY <1>1, <2>3, <2>4, <3>1, SceneMade
        <3> QED
            BY <2>1, <2>6, <3>2 DEF Scenes
    <2> QED
        BY <2>5, <2>6
<1> QED
    BY <1>1, <1>2, <1>3, <1>4

\* A step of side s, from what it does to s and to the link.
LEMMA FlowStep ==
    ASSUME FlowInv, Inv', NEW s \in Side, NEW l, core' = [core EXCEPT ![s] = l],
           Rest(l, net'[s]), Rest(core[Peer(s)], net'[Peer(s)]),
           \A c \in Calls :
                /\ Licensed(s, l, net'[Peer(s)], c)
                /\ Licensed(Peer(s), core[Peer(s)], net'[s], c)
                /\ Flows(s, l, core[Peer(s)], net'[Peer(s)], net'[s], c)
    PROVE  FlowInv'
<1>1. PICK p \in Side : p = Peer(s) /\ p # s /\ Peer(p) = s /\ \A x \in Side : x = s \/ x = p
    BY DEF Side, Peer
<1>2. core'[s] = l /\ core'[p] = core[p]
    BY <1>1 DEF FlowInv, Inv
<1>3. Rest(core'[s], net'[s]) /\ Rest(core'[p], net'[p])
    BY <1>1, <1>2
<1>4. ASSUME NEW c \in Calls
      PROVE /\ Licensed(s, core'[s], net'[p], c) /\ Licensed(p, core'[p], net'[s], c)
            /\ Flows(s, core'[s], core'[p], net'[p], net'[s], c)
            /\ Flows(p, core'[p], core'[s], net'[s], net'[p], c)
    BY <1>1, <1>2, FlowsTurned
<1>5. \A x \in Side : Rest(core'[x], net'[x])
    BY <1>1, <1>3
<1>6. \A x \in Side, c \in Calls :
        /\ Licensed(x, core'[x], net'[Peer(x)], c)
        /\ Flows(x, core'[x], core'[Peer(x)], net'[Peer(x)], net'[x], c)
    BY <1>1, <1>4
<1> QED
    BY <1>5, <1>6 DEF FlowInv

-----------------------------------------------------------------------------
\* What an endpoint does by itself keeps the flows.

LEMMA CreditNot == "CREDIT" \notin {"ITEM", "END"} \cup LastKinds \cup Requests \cup Cancels
BY KindSets

LEMMA HasAppend ==
    ASSUME NEW s, NEW c, NEW k \in CoreType, NEW d \in Calls, NEW f \in FrameFrom(s, c), f.kind # "CREDIT",
           NEW r, r = Append(Queue(k, d), f), ~Has(Queue(k, d), {"CREDIT"})
    PROVE  ~Has(r, {"CREDIT"})
<1>1. PICK q \in Seq(Frame) : q = Queue(k, d)
    BY CallTypes
<1>2. f \in Frame
    BY FromFrame
<1>3. Has(r, {"CREDIT"}) <=> Has(q, {"CREDIT"}) \/ f.kind \in {"CREDIT"}
    BY <1>1, <1>2, QueueAppend
<1> QED
    BY <1>1, <1>3

LEMMA MovesLicensed ==
    ASSUME NEW s \in Side, NEW k \in CoreType, NEW to, NEW c \in Calls, Licensed(s, k, to, c),
           NEW l, Moves(s, k, l, c)
    PROVE  Licensed(s, l, to, c)
<1>1. PICK K : K = {"CREDIT"}
    OBVIOUS
<1>2. (k.box.credits[c] # NoCredit \/ Says(to, c, K) => HasCredit(s)) /\ ~Has(Queue(k, c), K)
    BY <1>1 DEF Licensed
<1>3. SUFFICES (l.box.credits[c] # NoCredit => k.box.credits[c] # NoCredit \/ HasCredit(s)) /\ ~Has(Queue(l, c), K)
    BY <1>1, <1>2 DEF Licensed
<1>4. CASE Idle(k, l, c)
    BY <1>2, <1>4 DEF Idle, Alike
<1>5. CASE Begun(s, k, l, c)
    <2>1. PICK f \in FrameFrom(s, c) : f.kind = "REQUEST" /\ Queue(l, c) = Append(Queue(k, c), f)
        BY <1>5 DEF Begun, Opened
    <2>2. f.kind # "CREDIT"
        BY <2>1
    <2>3. ~Has(Queue(l, c), {"CREDIT"})
        BY <1>1, <1>2, <2>1, <2>2, HasAppend
    <2> QED
        BY <1>1, <1>5, <2>3 DEF Begun, Opened
<1>6. CASE Queued(s, k, l, c)
    <2>1. PICK f \in FrameFrom(s, c) : f.kind \in {"ITEM", "END"} /\ Queue(l, c) = Append(Queue(k, c), f)
        BY <1>6 DEF Queued
    <2>2. f.kind # "CREDIT"
        BY <2>1
    <2>3. ~Has(Queue(l, c), {"CREDIT"})
        BY <1>1, <1>2, <2>1, <2>2, HasAppend
    <2> QED
        BY <1>1, <1>6, <2>3 DEF Queued
<1>7. CASE Allowed(s, k, l, c)
    BY <1>2, <1>7 DEF Allowed
<1>8. CASE Gone(k, l, c)
    <2>1. ~Has(Queue(l, c), {"CREDIT"})
        BY <1>8, MuteHas DEF Gone
    <2> QED
        BY <1>1, <1>8, <2>1 DEF Gone, Settled
<1>9. CASE Over(s, k, l, c)
    <2>1. CASE Mute(Queue(l, c))
        <3>1. ~Has(Queue(l, c), {"CREDIT"})
            BY <2>1, MuteHas
        <3> QED
            BY <1>1, <1>9, <3>1 DEF Over, Finished
    <2>2. ASSUME NEW f \in Frame, f.call = c, f.kind \in LastKinds, Queue(l, c) = Append(Queue(k, c), f)
          PROVE  ~Has(Queue(l, c), K)
        <3>1. PICK q \in Seq(Frame) : q = Queue(k, c)
            BY CallTypes
        <3>2. f.kind \notin K
            BY <1>1, <2>2, CreditNot
        <3>3. Has(Queue(l, c), K) <=> Has(q, K) \/ f.kind \in K
            BY <2>2, <3>1, QueueAppend
        <3> QED
            BY <1>2, <3>1, <3>2, <3>3
    <2>3. ~Has(Queue(l, c), K)
        BY <1>9, <2>1, <2>2, MuteHas, <1>1 DEF Over
    <2> QED
        BY <1>9, <2>3 DEF Over, Finished
<1> QED
    BY <1>4, <1>5, <1>6, <1>7, <1>8, <1>9 DEF Moves, ItemSaid, EndSaid

\* Call k.next has not been issued yet.
LEMMA BegunNew ==
    ASSUME NEW s, NEW k \in CoreType, NEW c \in Calls, NEW t, CallOK(s, k, c, t), Allocates(s, k.next),
           NEW l, Begun(s, k, l, c)
    PROVE  c \notin k.issued /\ Allocates(s, c) /\ l.next # k.next
<1>1. c = k.next /\ c < l.next /\ c \in Nat
    BY OutcomesType DEF Begun, Opened
<1>2. ~(c < c)
    BY <1>1
<1> QED
    BY <1>1, <1>2 DEF CallOK

LEMMA MovesFlow ==
    ASSUME NEW s \in Side, NEW c \in Calls, NEW k \in CoreType, NEW m, NEW to, NEW from,
           Scenes(s, k, m, to, from, c), Flows(s, k, m, to, from, c),
           NEW t, CallOK(s, k, c, t), Allocates(s, k.next),
           NEW l \in CoreType, Moves(s, k, l, c)
    PROVE  Flows(s, l, m, to, from, c)
<1>1. Begun(s, k, l, c) => c \notin k.issued /\ Allocates(s, c)
    BY BegunNew
<1>2. Level(to, to, c) /\ Level(from, from, c) /\ Idle(m, m, c)
    BY LevelSelf, IdleSelf
<1>3. CASE Allocates(s, c)
    <2>1. Scene(k, m, to, from, c) /\ Flow(k, m, to, from, c)
        BY <1>3 DEF Scenes, Flows
    <2>2. ~Over(s, k, l, c)
        BY <1>3 DEF CallOK, Over, Finished
    <2>3. CASE Idle(k, l, c)
        <3>1. Flow(l, m, to, from, c)
            BY <1>2, <2>1, <2>3, FlowSame
        <3> QED
            BY <1>3, <3>1 DEF Flows
    <2>4. CASE Begun(s, k, l, c)
        <3>1. Flow(l, m, to, from, c)
            BY <1>1, <2>1, <2>4, CallerBegins
        <3> QED
            BY <1>3, <3>1 DEF Flows
    <2>5. CASE ItemSaid(s, k, l, c)
        <3>1. Flow(l, m, to, from, c)
            BY <2>1, <2>5, CallerItem
        <3> QED
            BY <1>3, <3>1 DEF Flows
    <2>6. CASE EndSaid(s, k, l, c)
        <3>1. Flow(l, m, to, from, c)
            BY <2>1, <2>6, CallerEnds
        <3> QED
            BY <1>3, <3>1 DEF Flows
    <2>7. CASE Allowed(s, k, l, c)
        <3>1. Flow(l, m, to, from, c)
            BY <2>1, <2>7, CallerAllows
        <3> QED
            BY <1>3, <3>1 DEF Flows
    <2>8. CASE Gone(k, l, c)
        <3>1. Flow(l, m, to, from, c)
            BY <2>1, <2>8, CallerGone
        <3> QED
            BY <1>3, <3>1 DEF Flows
    <2> QED
        BY <2>2, <2>3, <2>4, <2>5, <2>6, <2>7, <2>8 DEF Moves
<1>4. CASE ~Allocates(s, c)
    <2>1. Scene(m, k, from, to, c) /\ Flow(m, k, from, to, c)
        BY <1>4 DEF Scenes, Flows
    <2>2. ~Begun(s, k, l, c) /\ ~EndSaid(s, k, l, c) /\ ~Gone(k, l, c)
        BY <1>1, <1>4 DEF CallOK, EndSaid, Gone, Settled
    <2>3. CASE Idle(k, l, c)
        <3>1. Flow(m, l, from, to, c)
            BY <1>2, <2>1, <2>3, FlowSame
        <3> QED
            BY <1>4, <3>1 DEF Flows
    <2>4. CASE ItemSaid(s, k, l, c)
        <3>1. Flow(m, l, from, to, c)
            BY <2>1, <2>4, CalleeItem
        <3> QED
            BY <1>4, <3>1 DEF Flows
    <2>5. CASE Allowed(s, k, l, c)
        <3>1. Flow(m, l, from, to, c)
            BY <2>1, <2>5, CalleeAllows
        <3> QED
            BY <1>4, <3>1 DEF Flows
    <2>6. CASE Over(s, k, l, c)
        <3>1. Flow(m, l, from, to, c)
            BY <2>1, <2>6, CalleeOver
        <3> QED
            BY <1>4, <3>1 DEF Flows
    <2> QED
        BY <2>2, <2>3, <2>4, <2>5, <2>6 DEF Moves
<1> QED
    BY <1>3, <1>4

LEMMA MovesRest ==
    ASSUME NEW s, NEW k \in CoreType, NEW from, Rest(k, from), Allocates(s, k.next),
           NEW t, \A c \in Calls : CallOK(s, k, c, t),
           NEW l, l.finished = k.finished, k.finished => ~l.ready /\ l.next = k.next,
           \A c \in Calls : Moves(s, k, l, c)
    PROVE  Rest(l, from)
<1>1. ASSUME k.finished, NEW c \in Calls PROVE ~Pending(l, c) /\ ~Inflight(l, c)
    <2>1. ~Pending(k, c) /\ ~Inflight(k, c) /\ CallOK(s, k, c, t) /\ l.next = k.next /\ Moves(s, k, l, c)
        BY <1>1 DEF Rest
    <2>2. ~Begun(s, k, l, c)
        BY <2>1, BegunNew
    <2> QED
        BY <2>1, <2>2 DEF Moves, Idle, Alike, ItemSaid, EndSaid, Queued, SameLife, Allowed, Gone, Settled,
                          Over, Finished
<1> QED
    BY <1>1 DEF Rest

LEMMA MovesStep ==
    ASSUME FlowInv, Inv', NEW s \in Side, NEW l \in CoreType, core' = [core EXCEPT ![s] = l],
           UNCHANGED <<net, now>>, l.finished = core[s].finished,
           core[s].finished => ~l.ready /\ l.next = core[s].next,
           \A c \in Calls : Moves(s, core[s], l, c)
    PROVE  FlowInv'
<1>1. PICK k \in CoreType : k = core[s]
    BY InvAt DEF FlowInv
<1>2. PICK t : t = now
    OBVIOUS
<1>3. PICK m, to, from : m = core[Peer(s)] /\ to = net[Peer(s)] /\ from = net[s]
    OBVIOUS
<1>4. Allocates(s, k.next) /\ \A c \in Calls : CallOK(s, k, c, t)
    BY <1>1, <1>2, InvAt DEF FlowInv, Polling
<1>5. /\ Rest(k, from) /\ Rest(m, to)
      /\ \A c \in Calls : /\ Licensed(s, k, to, c) /\ Licensed(Peer(s), m, from, c)
                          /\ Flows(s, k, m, to, from, c) /\ Scenes(s, k, m, to, from, c)
    BY <1>1, <1>3, FlowAt
<1>6. \A c \in Calls : Moves(s, k, l, c)
    BY <1>1
<1>7. Rest(l, from)
    BY <1>1, <1>4, <1>5, <1>6, MovesRest
<1>8. ASSUME NEW c \in Calls
      PROVE  Licensed(s, l, to, c) /\ Licensed(Peer(s), m, from, c) /\ Flows(s, l, m, to, from, c)
    <2>1. CallOK(s, k, c, t) /\ Moves(s, k, l, c) /\ Licensed(s, k, to, c) /\ Licensed(Peer(s), m, from, c)
        BY <1>4, <1>5, <1>6
    <2>2. Flows(s, k, m, to, from, c) /\ Scenes(s, k, m, to, from, c)
        BY <1>5
    <2>3. Licensed(s, l, to, c)
        BY <2>1, MovesLicensed
    <2>4. Flows(s, l, m, to, from, c)
        BY <1>4, <2>1, <2>2, MovesFlow
    <2> QED
        BY <2>1, <2>3, <2>4
<1>9. net'[s] = from /\ net'[Peer(s)] = to
    BY <1>3
<1>10. /\ Rest(l, net'[s]) /\ Rest(core[Peer(s)], net'[Peer(s)])
       /\ \A c \in Calls :
            /\ Licensed(s, l, net'[Peer(s)], c)
            /\ Licensed(Peer(s), core[Peer(s)], net'[s], c)
            /\ Flows(s, l, core[Peer(s)], net'[Peer(s)], net'[s], c)
    BY <1>3, <1>5, <1>7, <1>8, <1>9
<1> QED
    BY <1>10, FlowStep

LEMMA CalmStep ==
    ASSUME FlowInv, Inv', NEW s \in Side, NEW l \in CoreType, core' = [core EXCEPT ![s] = l],
           UNCHANGED <<net, now>>, Calm(core[s], l), l.ready = core[s].ready,
           \A c \in Calls : Moves(s, core[s], l, c)
    PROVE  FlowInv'
<1>1. l.finished = core[s].finished /\ (core[s].finished => ~l.ready /\ l.next = core[s].next)
    BY DEF Calm, FlowInv, Rest
<1> QED
    BY <1>1, MovesStep


LEMMA OnReadyFlow ==
    ASSUME FlowInv, Inv', NEW s \in Side, OnReady(s)
    PROVE  FlowInv'
<1>1. PICK k \in CoreType : k = core[s]
    BY InvAt DEF FlowInv
<1>2. PICK l : l = [k EXCEPT !.ready = TRUE]
    OBVIOUS
<1>3. l \in CoreType /\ Calm(k, l)
    BY <1>2, OnReadyEffect
<1>4. core' = [core EXCEPT ![s] = l] /\ UNCHANGED <<net, now>> /\ ~k.finished
    BY <1>1, <1>2 DEF OnReady, Become
<1>5. \A d \in Calls : Moves(s, core[s], l, d)
    BY <1>1, <1>2, OnReadyIdle DEF Moves
<1>6. l.finished = core[s].finished /\ (core[s].finished => ~l.ready /\ l.next = core[s].next)
    BY <1>1, <1>3, <1>4 DEF Calm
<1>7. l \in CoreType
    BY <1>3
<1> QED
    BY <1>4, <1>5, <1>6, <1>7, MovesStep

LEMMA AppCallFlow ==
    ASSUME FlowInv, Inv', NEW s \in Side, AppCall(s)
    PROVE  FlowInv'
<1>1. PICK k \in CoreType : k = core[s]
    BY InvAt DEF FlowInv
<1>2. PICK t \in Nat : t = now
    BY InvAt DEF FlowInv
<1>3. PICK o \in Openings[s] : CanCall(s, k, o.req) /\ core' = [core EXCEPT ![s] = Call(s, k, o.req, o.ctx, o.packed, t)]
    BY <1>1, <1>2 DEF AppCall, Become
<1>4. PICK l : l = Call(s, k, o.req, o.ctx, o.packed, t)
    OBVIOUS
<1>5. PICK c \in Calls : c = k.next
    BY <1>3 DEF CanCall
<1>6. Allocates(s, c) /\ o.req \in DOMAIN Registry[s].methods
    BY <1>1, <1>3, <1>5, InvAt DEF CanCall, Polling, FlowInv
<1>7. l \in CoreType /\ l.finished = k.finished
    BY <1>4, <1>5, <1>6, CallEffect
<1>8. /\ l.ready = k.ready
      /\ \A d \in Calls : IF d = c THEN Begun(s, k, l, d) ELSE Idle(k, l, d)
    BY <1>4, <1>5, <1>6, CallBegins
<1>9. \A d \in Calls : Moves(s, core[s], l, d)
    BY <1>1, <1>8 DEF Moves
<1>10. core' = [core EXCEPT ![s] = l] /\ UNCHANGED <<net, now>>
    BY <1>3, <1>4 DEF AppCall
<1>11. ~core[s].finished
    BY <1>1, <1>3 DEF CanCall, FlowInv, Rest
<1>12. l \in CoreType /\ l.finished = core[s].finished
    BY <1>1, <1>7
<1> QED
    BY <1>9, <1>10, <1>11, <1>12, MovesStep

LEMMA AppCallRefusedFlow ==
    ASSUME FlowInv, Inv', NEW s \in Side, AppCallRefused(s)
    PROVE  FlowInv'
<1>1. PICK k \in CoreType : k = core[s]
    BY InvAt DEF FlowInv
<1>2. PICK l : l = CallRefused(k)
    OBVIOUS
<1>3. l \in CoreType /\ l.finished = core[s].finished
    BY <1>1, <1>2, CallRefusedEffect
<1>4. \A d \in Calls : Moves(s, core[s], l, d)
    BY <1>1, <1>2, CallRefusedIdle DEF Moves
<1>5. core' = [core EXCEPT ![s] = l] /\ UNCHANGED <<net, now>>
    BY <1>1, <1>2 DEF AppCallRefused, Become
<1>6. ~core[s].finished
    BY DEF AppCallRefused, CanCall, FlowInv, Rest
<1> QED
    BY <1>3, <1>4, <1>5, <1>6, MovesStep

LEMMA AppSendItemFlow ==
    ASSUME FlowInv, Inv', NEW s \in Side, NEW c \in Calls, AppSendItem(s, c)
    PROVE  FlowInv'
<1>1. PICK k \in CoreType : k = core[s]
    BY InvAt DEF FlowInv
<1>2. PICK p \in Packings[s] : core' = [core EXCEPT ![s] = SendItem(k, c, p)]
    BY <1>1 DEF AppSendItem, Become
<1>3. PICK l : l = SendItem(k, c, p)
    OBVIOUS
<1>4. p \in Packing /\ CanSendItem(k, c) /\ UNCHANGED <<net, now>>
    BY <1>1, LinkConstants DEF AppSendItem
<1>5. ~Inflight(k, c)
    BY <1>1, <1>4, InvAt DEF CanSendItem, Apart, Pending, FlowInv
<1>6. l \in CoreType /\ Calm(k, l)
    BY <1>3, <1>4, <1>5, SendItemEffect
<1>7. l.ready = k.ready /\ \A d \in Calls : IF d = c THEN ItemSaid(s, k, l, d) ELSE Idle(k, l, d)
    BY <1>3, <1>4, <1>5, SendItemSaid
<1>8. \A d \in Calls : Moves(s, core[s], l, d)
    BY <1>1, <1>7 DEF Moves
<1>9. l \in CoreType /\ core' = [core EXCEPT ![s] = l]
    BY <1>2, <1>3, <1>6
<1> QED
    BY <1>1, <1>4, <1>6, <1>7, <1>8, <1>9, CalmStep

LEMMA AppCloseSendFlow ==
    ASSUME FlowInv, Inv', NEW s \in Side, NEW c \in Calls, AppCloseSend(s, c)
    PROVE  FlowInv'
<1>1. PICK k \in CoreType : k = core[s]
    BY InvAt DEF FlowInv
<1>2. PICK l : l = CloseSend(s, k, c)
    OBVIOUS
<1>3. CanCloseSend(k, c) /\ UNCHANGED <<net, now>> /\ core' = [core EXCEPT ![s] = l]
    BY <1>1, <1>2 DEF AppCloseSend, Become
<1>4. ~Inflight(k, c)
    BY <1>1, <1>3, InvAt DEF CanCloseSend, Apart, Pending, FlowInv
<1>5. l \in CoreType /\ Calm(k, l)
    BY <1>2, <1>3, <1>4, CloseSendEffect
<1>6. l.ready = k.ready /\ \A d \in Calls : IF d = c THEN EndSaid(s, k, l, d) ELSE Idle(k, l, d)
    BY <1>2, <1>3, <1>4, CloseSendSaid
<1>7. \A d \in Calls : Moves(s, core[s], l, d)
    BY <1>1, <1>6 DEF Moves
<1>8. l \in CoreType
    BY <1>5
<1> QED
    BY <1>1, <1>3, <1>5, <1>6, <1>7, <1>8, CalmStep

LEMMA AppGrantFlow ==
    ASSUME FlowInv, Inv', NEW s \in Side, NEW c \in Calls, AppGrant(s, c)
    PROVE  FlowInv'
<1>1. PICK k \in CoreType : k = core[s]
    BY InvAt DEF FlowInv
<1>2. PICK items \in Grantable(k, c) : core' = [core EXCEPT ![s] = Grant(k, c, items)]
    BY <1>1 DEF AppGrant, Become
<1>3. PICK l : l = Grant(k, c, items)
    OBVIOUS
<1>4. items \in Nat /\ CanGrant(s, k, c) /\ UNCHANGED <<net, now>>
    BY <1>1, <1>2, GrantableType DEF AppGrant
<1>5. (Pending(k, c) \/ Inflight(k, c)) /\ HasCredit(s)
    BY <1>4 DEF CanGrant, Pending, Inflight
<1>6. l \in CoreType /\ Calm(k, l)
    BY <1>3, <1>4, <1>5, GrantEffect
<1>7. l.ready = k.ready /\ \A d \in Calls : IF d = c THEN Allowed(s, k, l, d) ELSE Idle(k, l, d)
    BY <1>3, <1>4, <1>5, GrantAllows
<1>8. \A d \in Calls : Moves(s, core[s], l, d)
    BY <1>1, <1>7 DEF Moves
<1>9. l \in CoreType /\ core' = [core EXCEPT ![s] = l]
    BY <1>2, <1>3, <1>6
<1> QED
    BY <1>1, <1>4, <1>6, <1>7, <1>8, <1>9, CalmStep

LEMMA AppCancelFlow ==
    ASSUME FlowInv, Inv', NEW s \in Side, NEW c \in Calls, AppCancel(s, c)
    PROVE  FlowInv'
<1>1. PICK k \in CoreType : k = core[s]
    BY InvAt DEF FlowInv
<1>2. PICK status \in Statuses : status = "CANCELLED"
    BY StatusTypes
<1>3. PICK l : l = AbandonPending(s, k, Only(c), status)
    OBVIOUS
<1>4. Pending(k, c) /\ UNCHANGED <<net, now>> /\ core' = [core EXCEPT ![s] = l]
    BY <1>1, <1>2, <1>3 DEF AppCancel, Become, Cancel, Only, Pending
<1>5. /\ l \in CoreType /\ Calm(k, l) /\ l.ready = k.ready
      /\ \A d \in Calls : IF d = c THEN Gone(k, l, d) ELSE Idle(k, l, d)
    BY <1>3, <1>4, AbandonOneGone
<1>6. \A d \in Calls : Moves(s, core[s], l, d)
    BY <1>1, <1>5 DEF Moves
<1>7. l \in CoreType
    BY <1>5
<1> QED
    BY <1>1, <1>4, <1>5, <1>6, <1>7, CalmStep

LEMMA TickCoreFlow ==
    ASSUME FlowInv, Inv', NEW s \in Side, TickCore(s)
    PROVE  FlowInv'
<1>1. PICK k \in CoreType : k = core[s]
    BY InvAt DEF FlowInv
<1>2. PICK t \in Nat : t = now
    BY InvAt DEF FlowInv
<1>3. PICK l : l = Tick(s, k, t)
    OBVIOUS
<1>4. UNCHANGED <<net, now>> /\ core' = [core EXCEPT ![s] = l]
    BY <1>1, <1>2, <1>3 DEF TickCore, Become
<1>5. \A c \in Calls : Apart(s, k, c)
    BY <1>1, InvAt DEF FlowInv
<1>6. l \in CoreType /\ Calm(k, l)
    BY <1>3, <1>5, TickEffect
<1>7. l.ready = k.ready /\ \A d \in Calls : Moves(s, k, l, d)
    BY <1>3, <1>5, TickMoves
<1>8. l \in CoreType /\ \A d \in Calls : Moves(s, core[s], l, d)
    BY <1>1, <1>6, <1>7
<1> QED
    BY <1>1, <1>4, <1>6, <1>7, <1>8, CalmStep

LEMMA BeginPollFlow ==
    ASSUME FlowInv, Inv', NEW s \in Side, NEW c \in Calls, BeginPoll(s, c)
    PROVE  FlowInv'
<1>1. PICK k \in CoreType : k = core[s]
    BY InvAt DEF FlowInv
<1>2. PICK l : /\ core' = [core EXCEPT ![s] = l]
               /\ \/ \E items \in Grantable(k, c) \cup {0} : l = StartPoll(s, k, c, items)
                  \/ \E status \in Failures : l = GrantRefused(s, k, c, status)
    BY <1>1 DEF BeginPoll, Become
<1>3. Inflight(k, c) /\ UNCHANGED <<net, now>>
    BY <1>1, InvAt DEF BeginPoll, Polling, FlowInv
<1>4. ASSUME NEW items \in Grantable(k, c) \cup {0}, l = StartPoll(s, k, c, items)
      PROVE  FlowInv'
    <2>1. items \in Nat
        BY <1>4, GrantableType
    <2>2. l \in CoreType /\ Calm(k, l)
        BY <1>3, <1>4, <2>1, StartPollEffect
    <2>3. l.ready = k.ready /\ \A d \in Calls : Moves(s, k, l, d)
        BY <1>3, <1>4, <2>1, StartPollMoves
    <2>4. l \in CoreType /\ \A d \in Calls : Moves(s, core[s], l, d)
        BY <1>1, <2>2, <2>3
    <2> QED
        BY <1>1, <1>2, <1>3, <2>2, <2>3, <2>4, CalmStep
<1>5. ASSUME NEW status \in Failures, l = GrantRefused(s, k, c, status)
      PROVE  FlowInv'
    <2>1. status \in Statuses
        BY StatusTypes
    <2>2. l \in CoreType /\ Calm(k, l)
        BY <1>3, <1>5, <2>1, GrantRefusedEffect
    <2>3. l.ready = k.ready /\ \A d \in Calls : Moves(s, k, l, d)
        BY <1>3, <1>5, <2>1, GrantRefusedMoves
    <2>4. l \in CoreType /\ \A d \in Calls : Moves(s, core[s], l, d)
        BY <1>1, <2>2, <2>3
    <2> QED
        BY <1>1, <1>2, <1>3, <2>2, <2>3, <2>4, CalmStep
<1> QED
    BY <1>2, <1>4, <1>5

LEMMA PollLoopFlow ==
    ASSUME FlowInv, Inv', NEW s \in Side, NEW c \in Calls, PollLoop(s, c)
    PROVE  FlowInv'
<1>1. PICK k \in CoreType : k = core[s]
    BY InvAt DEF FlowInv
<1>2. PICK t \in Nat : t = now
    BY InvAt DEF FlowInv
<1>3. PICK l : core' = [core EXCEPT ![s] = l] /\ LoopTurn(s, k, l, c, t)
    BY <1>1, <1>2 DEF PollLoop, Become, LoopTurn
<1>4. k.cur = c /\ UNCHANGED <<net, now>> /\ Polling(s, k)
    BY <1>1, InvAt DEF PollLoop, FlowInv
<1>5. Inflight(k, c) /\ c \notin k.todo
    BY <1>4, CallsAreNat DEF Polling
<1>6. ~Pending(k, c)
    BY <1>1, <1>5, InvAt DEF Apart, FlowInv
<1>7. PolledOnce(s, k, l, c, t)
    BY <1>3, <1>4, <1>5, LoopTurnEffect
<1>8. l \in CoreType /\ Calm(k, l)
    BY <1>7 DEF PolledOnce
<1>9. l.ready = k.ready /\ \A d \in Calls : Moves(s, k, l, d)
    BY <1>3, <1>5, <1>6, LoopTurnMoves
<1>10. l \in CoreType /\ \A d \in Calls : Moves(s, core[s], l, d)
    BY <1>1, <1>8, <1>9
<1> QED
    BY <1>1, <1>3, <1>4, <1>8, <1>9, <1>10, CalmStep

-----------------------------------------------------------------------------
\* Reading a frame.

LEMMA HeedsLicensed ==
    ASSUME NEW s \in Side, NEW k \in CoreType, NEW to, NEW c \in Calls, Licensed(s, k, to, c),
           NEW f, f.call = c, NEW l, Heeds(s, k, l, f)
    PROVE  Licensed(s, l, to, c)
<1>1. PICK K : K = {"CREDIT"}
    OBVIOUS
<1>2. (k.box.credits[c] # NoCredit \/ Says(to, c, K) => HasCredit(s)) /\ ~Has(Queue(k, c), K)
    BY <1>1 DEF Licensed
<1>3. SUFFICES \/ Licensed(s, l, to, c)
               \/ (l.box.credits[c] # NoCredit => k.box.credits[c] # NoCredit) /\ ~Has(Queue(l, c), K)
    BY <1>1, <1>2 DEF Licensed
<1>4. CASE Skipped(s, k, l, f) \/ Gone(k, l, c) \/ Over(s, k, l, c)
    <2>1. Moves(s, k, l, c)
        BY <1>4 DEF Skipped, Moves
    <2> QED
        BY <2>1, MovesLicensed
<1>5. CASE Refused(s, k, l, c)
    <2>1. PICK g \in FrameFrom(s, c) : g.kind = "ERROR" /\ Queue(l, c) = Append(Queue(k, c), g)
        BY <1>5 DEF Refused
    <2>2. g.kind # "CREDIT"
        BY <2>1
    <2>3. ~Has(Queue(l, c), {"CREDIT"})
        BY <1>1, <1>2, <2>1, <2>2, HasAppend
    <2> QED
        BY <1>1, <1>5, <2>3 DEF Refused
<1>6. CASE Queue(l, c) = Queue(k, c) /\ l.box.credits[c] = k.box.credits[c]
    BY <1>2, <1>6
<1>7. CASE Queue(l, c) = <<>> /\ l.box.credits[c] = NoCredit
    BY <1>7, QueueEmpty
<1> QED
    BY <1>4, <1>5, <1>6, <1>7
    DEF Heeds, ItemReported, EndReported, ItemGiven, EndGiven, Credited, Began, Started, Stays, Settled, Alike

\* The frame read, at its caller and at its callee.
LEMMA TakesFlow ==
    ASSUME NEW s \in Side, NEW c \in Calls, NEW k \in CoreType, NEW m, NEW to, NEW from,
           Scenes(s, k, m, to, from, c), Flows(s, k, m, to, from, c),
           NEW f \in FrameFrom(Peer(s), c), NEW from2, Hears(from, f, from2, c),
           f.kind = "CREDIT" /\ CreditsShared => HasCredit(s),
           NEW l \in CoreType, Heeds(s, k, l, f)
    PROVE  Flows(s, l, m, to, from2, c)
<1>1. CASE Allocates(s, c)
    <2>1. f.kind # "REQUEST"
        BY <1>1, PeerSide, OneAllocates DEF FrameFrom
    <2>2. Scene(k, m, to, from, c) /\ Flow(k, m, to, from, c)
        BY <1>1 DEF Scenes, Flows
    <2>3. Flow(l, m, to, from2, c)
        BY <2>1, <2>2, CallerTakes
    <2> QED
        BY <1>1, <2>3 DEF Flows
<1>2. CASE ~Allocates(s, c)
    <2>1. Scene(m, k, from, to, c) /\ Flow(m, k, from, to, c)
        BY <1>2 DEF Scenes, Flows
    <2>2. Flow(m, l, from2, to, c)
        BY <2>1, CalleeTakes
    <2> QED
        BY <1>2, <2>2 DEF Flows
<1> QED
    BY <1>1, <1>2

\* Nothing is said or done of the call.
LEMMA AsideFlow ==
    ASSUME NEW s \in Side, NEW c \in Calls, NEW k, NEW m, NEW to, NEW from,
           Scenes(s, k, m, to, from, c), Flows(s, k, m, to, from, c),
           NEW l, Idle(k, l, c), NEW to2, Level(to, to2, c), NEW from2, Level(from, from2, c)
    PROVE  Flows(s, l, m, to2, from2, c)
<1>1. Idle(m, m, c)
    BY IdleSelf
<1>2. CASE Allocates(s, c)
    <2>1. Scene(k, m, to, from, c) /\ Flow(k, m, to, from, c)
        BY <1>2 DEF Scenes, Flows
    <2>2. Flow(l, m, to2, from2, c)
        BY <1>1, <2>1, FlowSame
    <2> QED
        BY <1>2, <2>2 DEF Flows
<1>3. CASE ~Allocates(s, c)
    <2>1. Scene(m, k, from, to, c) /\ Flow(m, k, from, to, c)
        BY <1>3 DEF Scenes, Flows
    <2>2. Flow(m, l, from2, to2, c)
        BY <1>1, <2>1, FlowSame
    <2> QED
        BY <1>3, <2>2 DEF Flows
<1> QED
    BY <1>2, <1>3

LEMMA LevelLicensed ==
    ASSUME NEW s, NEW k, NEW to, NEW to2, NEW c, Level(to, to2, c)
    PROVE  Licensed(s, k, to, c) <=> Licensed(s, k, to2, c)
BY DEF Level, Licensed

LEMMA IdleLicensed ==
    ASSUME NEW s, NEW k, NEW to, NEW c, NEW l, Idle(k, l, c), Licensed(s, k, to, c)
    PROVE  Licensed(s, l, to, c)
BY DEF Idle, Alike, Licensed

LEMMA DeliverFlow ==
    ASSUME FlowInv, Inv', NEW s \in Side, Deliver(s)
    PROVE  FlowInv'
<1> USE DEF FlowInv
<1>1. PICK k \in CoreType : k = core[s]
    BY InvAt
<1>2. PICK t \in Nat : t = now
    BY InvAt
<1>3. PICK p \in Side : p = Peer(s) /\ p # s
    BY PeerSide
<1>4. PICK to \in Seq(Frame), from \in Seq(Frame) : to = net[p] /\ from = net[s]
    BY <1>3, InvAt
<1>5. PICK m : m = core[p]
    OBVIOUS
<1>6. from # <<>> /\ Arriving(s, from) /\ k.ready
    BY <1>1, <1>4, InvAt DEF Deliver
<1>7. PICK f : f = Head(from)
    OBVIOUS
<1>8. PICK c \in Calls : c = f.call
    BY <1>6, <1>7, ArrivingTail
<1>9. f \in FrameFrom(Peer(s), c) /\ f \in Frame
    BY <1>6, <1>7, <1>8, ArrivingTail
<1>10. PICK answer \in {"OK"} \cup Failures : core' = [core EXCEPT ![s] = OnMessage(s, k, f, t, answer)]
    BY <1>1, <1>2, <1>4, <1>7 DEF Deliver, Become
<1>11. PICK l : l = OnMessage(s, k, f, t, answer)
    OBVIOUS
<1>12. Apart(s, k, c)
    BY <1>1, InvAt
<1>13. l \in CoreType /\ l.finished = k.finished
    BY <1>9, <1>11, <1>12, OnMessageEffect DEF Delivered, Around, Calm
<1>14. Takes(s, k, l, f)
    BY <1>9, <1>11, <1>12, OnMessageTaken
<1>15. PICK from2 : from2 = Tail(from)
    OBVIOUS
<1>16. net' = [net EXCEPT ![s] = from2] /\ core' = [core EXCEPT ![s] = l]
    BY <1>4, <1>10, <1>11, <1>15 DEF Deliver
<1>17. net'[s] = from2 /\ net'[p] = to
    BY <1>3, <1>4, <1>16 DEF Inv
<1>18. ~k.finished /\ Rest(m, to) /\ Rest(l, from2)
    BY <1>1, <1>3, <1>4, <1>5, <1>6, <1>13, FlowAt DEF Rest
<1>19. Hears(from, f, from2, c)
    BY <1>6, <1>7, <1>8, <1>9, <1>15 DEF Hears
<1>20. \A d \in Calls : /\ Licensed(s, k, to, d) /\ Licensed(p, m, from, d)
                        /\ Flows(s, k, m, to, from, d) /\ Scenes(s, k, m, to, from, d)
    BY <1>1, <1>3, <1>4, <1>5, FlowAt
<1>21. /\ Licensed(s, l, to, c) /\ Licensed(p, m, from2, c)
       /\ Flows(s, l, m, to, from2, c)
    <2>1. Heeds(s, k, l, f) /\ l \in CoreType /\ f.call = c
        BY <1>8, <1>13, <1>14 DEF Takes
    <2>2. PICK K : K = {"CREDIT"}
        OBVIOUS
    <2>3. Says(from, c, K) <=> f.kind \in K \/ Says(from2, c, K)
        BY <1>19, HearsFirst
    <2>4. Licensed(s, k, to, c) /\ Licensed(p, m, from, c) /\ Flows(s, k, m, to, from, c) /\ Scenes(s, k, m, to, from, c)
        BY <1>20
    <2>5. f.kind = "CREDIT" /\ CreditsShared => HasCredit(s)
        <3>1. f.kind = "CREDIT" => HasCredit(p)
            BY <2>2, <2>3, <2>4 DEF Licensed
        <3> QED
            BY <1>3, <3>1 DEF CreditsShared, Side
    <2>6. Licensed(s, l, to, c)
        BY <2>1, <2>4, HeedsLicensed
    <2>7. Licensed(p, m, from2, c)
        BY <2>2, <2>3, <2>4 DEF Licensed
    <2>8. Flows(s, l, m, to, from2, c)
        BY <1>9, <1>19, <2>1, <2>4, <2>5, TakesFlow
    <2> QED
        BY <2>6, <2>7, <2>8
<1>22. ASSUME NEW d \in Calls, d # c
       PROVE /\ Licensed(s, l, to, d) /\ Licensed(p, m, from2, d)
             /\ Flows(s, l, m, to, from2, d)
    <2>1. Idle(k, l, d)
        BY <1>8, <1>14, <1>22 DEF Takes
    <2>2. Head(from).call # d
        BY <1>7, <1>8, <1>22
    <2>3. Level(from, from2, d) /\ Level(to, to, d)
        BY <1>6, <1>15, <2>2, LevelTail, LevelSelf
    <2>4. Licensed(s, k, to, d) /\ Licensed(p, m, from, d) /\ Flows(s, k, m, to, from, d) /\ Scenes(s, k, m, to, from, d)
        BY <1>20
    <2> QED
        BY <2>1, <2>3, <2>4, AsideFlow, LevelLicensed, IdleLicensed
<1>23. /\ Rest(l, net'[s]) /\ Rest(core[Peer(s)], net'[Peer(s)])
       /\ \A d \in Calls :
            /\ Licensed(s, l, net'[Peer(s)], d)
            /\ Licensed(Peer(s), core[Peer(s)], net'[s], d)
            /\ Flows(s, l, core[Peer(s)], net'[Peer(s)], net'[s], d)
    BY <1>3, <1>5, <1>17, <1>18, <1>21, <1>22
<1> QED
    BY <1>16, <1>23, FlowStep

-----------------------------------------------------------------------------
\* Side s hands f, of call c, to the connection.

LEMMA TransmitFlow ==
    ASSUME FlowInv, Inv', NEW s \in Side, NEW c \in Calls, NEW f \in Frame, f.call = c, Transmit(s, f),
           f.kind = "CREDIT" => HasCredit(s),
           NEW k \in CoreType, k = core[s], NEW l \in CoreType, Calm(k, l), l.ready = k.ready,
           core' = [core EXCEPT ![s] = l],
           l.box.credits[c] \in {NoCredit, k.box.credits[c]}, ~Has(Queue(l, c), {"CREDIT"}),
           Pending(l, c) <=> Pending(k, c), Inflight(l, c) <=> Inflight(k, c),
           \A d \in Calls : d # c => Idle(k, l, d),
           core[Peer(s)].finished => Flows(s, l, core[Peer(s)], net[Peer(s)], net[s], c),
           ~core[Peer(s)].finished => Flows(s, l, core[Peer(s)], Append(net[Peer(s)], f), net[s], c)
    PROVE  FlowInv'
<1> USE DEF FlowInv
<1>1. PICK p \in Side : p = Peer(s) /\ p # s /\ Peer(p) = s
    BY PeerSide
<1>2. PICK to \in Seq(Frame), from \in Seq(Frame) : to = net[p] /\ from = net[s]
    BY <1>1, InvAt
<1>3. PICK m : m = core[p]
    OBVIOUS
<1>4. PICK to2 : net'[p] = to2 /\ net'[s] = from
                 /\ ((to2 = Append(to, f) /\ ~m.finished) \/ (to2 = to /\ m.finished))
    <2>1. CASE m.finished
        <3>1. net' = net
            BY <1>1, <1>3, <2>1 DEF Transmit
        <3> QED
            BY <1>2, <2>1, <3>1
    <2>2. CASE ~m.finished
        <3>1. net' = [net EXCEPT ![p] = Append(to, f)]
            BY <1>1, <1>2, <1>3, <2>2 DEF Transmit
        <3> QED
            BY <1>1, <1>2, <2>2, <3>1 DEF Inv
    <2> QED
        BY <2>1, <2>2
<1>5. /\ Rest(k, from) /\ Rest(m, to)
      /\ \A d \in Calls : /\ Licensed(s, k, to, d) /\ Licensed(p, m, from, d)
                          /\ Flows(s, k, m, to, from, d) /\ Scenes(s, k, m, to, from, d)
    BY <1>1, <1>2, <1>3, FlowAt
<1>6. Rest(m, to2) /\ Rest(l, from)
    <2>1. Rest(m, to2)
        BY <1>4, <1>5 DEF Rest
    <2>2. \A d \in Calls : (Pending(l, d) <=> Pending(k, d)) /\ (Inflight(l, d) <=> Inflight(k, d))
        BY DEF Idle, Alike, SameLife
    <2> QED
        BY <1>5, <2>1, <2>2 DEF Rest, Calm
<1>7. /\ Licensed(s, l, to2, c) /\ Licensed(p, m, from, c)
      /\ Flows(s, l, m, to2, from, c)
    <2>1. Licensed(s, k, to, c) /\ Licensed(p, m, from, c)
        BY <1>5
    <2>2. PICK K : K = {"CREDIT"}
        OBVIOUS
    <2>3. Says(to2, c, K) => Says(to, c, K) \/ f.kind \in K
        BY <1>2, <1>4, NetAppend
    <2>4. Licensed(s, l, to2, c)
        BY <2>1, <2>2, <2>3 DEF Licensed
    <2>5. Flows(s, l, m, to2, from, c)
        BY <1>1, <1>2, <1>3, <1>4
    <2> QED
        BY <2>1, <2>4, <2>5
<1>8. ASSUME NEW d \in Calls, d # c
      PROVE /\ Licensed(s, l, to2, d) /\ Licensed(p, m, from, d)
            /\ Flows(s, l, m, to2, from, d)
    <2>1. Idle(k, l, d)
        BY <1>8
    <2>2. f.call # d
        BY <1>8
    <2>3. Level(to, to2, d) /\ Level(from, from, d)
        BY <1>2, <1>4, <2>2, LevelAppend, LevelSelf
    <2>4. Licensed(s, k, to, d) /\ Licensed(p, m, from, d) /\ Flows(s, k, m, to, from, d) /\ Scenes(s, k, m, to, from, d)
        BY <1>5
    <2> QED
        BY <2>1, <2>3, <2>4, AsideFlow, LevelLicensed, IdleLicensed
<1>9. /\ Rest(l, net'[s]) /\ Rest(core[Peer(s)], net'[Peer(s)])
      /\ \A d \in Calls :
            /\ Licensed(s, l, net'[Peer(s)], d)
            /\ Licensed(Peer(s), core[Peer(s)], net'[s], d)
            /\ Flows(s, l, core[Peer(s)], net'[Peer(s)], net'[s], d)
    BY <1>1, <1>3, <1>4, <1>6, <1>7, <1>8
<1> QED
    BY <1>9, FlowStep

\* A frame leaves its queue.
LEMMA ShippedFlow ==
    ASSUME NEW s \in Side, NEW c \in Calls, NEW k \in CoreType, NEW m, NEW to, NEW from,
           Scenes(s, k, m, to, from, c), Flows(s, k, m, to, from, c), Rest(k, from),
           NEW l \in CoreType, Shipped(k, l, c), NEW f \in Frame, f.call = c, f = Head(Queue(k, c))
    PROVE  /\ m.finished => Flows(s, l, m, to, from, c)
           /\ ~m.finished => Flows(s, l, m, Append(to, f), from, c)
<1>1. PICK to2 : to2 = Append(to, f)
    OBVIOUS
<1>2. CASE Allocates(s, c)
    <2>1. Scene(k, m, to, from, c) /\ Flow(k, m, to, from, c)
        BY <1>2 DEF Scenes, Flows
    <2>2. Flow(l, m, to2, from, c)
        BY <1>1, <2>1, CallerSends
    <2>3. m.finished => Flow(l, m, to, from, c)
        BY <2>1, CallerLoses
    <2> QED
        BY <1>1, <1>2, <2>2, <2>3 DEF Flows
<1>3. CASE ~Allocates(s, c)
    <2>1. Scene(m, k, from, to, c) /\ Flow(m, k, from, to, c)
        BY <1>3 DEF Scenes, Flows
    <2>2. Flow(m, l, from, to2, c)
        BY <1>1, <2>1, CalleeSends
    <2>3. m.finished => Flow(m, l, from, to, c)
        BY <2>1, CalleeSends
    <2> QED
        BY <1>1, <1>3, <2>2, <2>3 DEF Flows
<1> QED
    BY <1>2, <1>3

\* A CREDIT leaves.
LEMMA ShedFlow ==
    ASSUME NEW s \in Side, NEW c \in Calls, NEW k \in CoreType, NEW m, NEW to, NEW from,
           Scenes(s, k, m, to, from, c), Flows(s, k, m, to, from, c), ~OpensWithRequest(k.box, c),
           NEW l \in CoreType, Shed(k, l, c),
           NEW f \in Frame, f.call = c, f.kind = "CREDIT", f.n = k.box.credits[c]
    PROVE  /\ m.finished => Flows(s, l, m, to, from, c)
           /\ ~m.finished => Flows(s, l, m, Append(to, f), from, c)
<1>1. PICK to2 : to2 = Append(to, f)
    OBVIOUS
<1>2. CASE Allocates(s, c)
    <2>1. Scene(k, m, to, from, c) /\ Flow(k, m, to, from, c)
        BY <1>2 DEF Scenes, Flows
    <2>2. Flow(l, m, to2, from, c)
        BY <1>1, <2>1, CallerSheds
    <2>3. m.finished => Flow(l, m, to, from, c)
        BY <2>1, CallerShedsVain
    <2> QED
        BY <1>1, <1>2, <2>2, <2>3 DEF Flows
<1>3. CASE ~Allocates(s, c)
    <2>1. Scene(m, k, from, to, c) /\ Flow(m, k, from, to, c)
        BY <1>3 DEF Scenes, Flows
    <2>2. Flow(m, l, from, to2, c)
        BY <1>1, <2>1, CalleeSheds
    <2>3. m.finished => Flow(m, l, from, to, c)
        BY <2>1, CalleeSheds
    <2> QED
        BY <1>1, <1>3, <2>2, <2>3 DEF Flows
<1> QED
    BY <1>2, <1>3

LEMMA PoppedHas ==
    ASSUME NEW k \in CoreType, NEW c \in Calls, Queue(k, c) # <<>>, ~Has(Queue(k, c), {"CREDIT"}),
           NEW r, r = Tail(Queue(k, c))
    PROVE  ~Has(r, {"CREDIT"}) /\ Head(Queue(k, c)).kind # "CREDIT"
<1>1. PICK q \in Seq(Frame) : q = Queue(k, c)
    BY CallTypes
<1>2. PICK K : K = {"CREDIT"}
    OBVIOUS
<1>3. Has(q, K) <=> Head(q).kind \in K \/ Has(r, K)
    BY <1>1, QueueTail
<1> QED
    BY <1>1, <1>2, <1>3

LEMMA SendFrameFlow ==
    ASSUME FlowInv, Inv', NEW s \in Side, NEW c \in Calls, SendFrame(s, c)
    PROVE  FlowInv'
<1>1. PICK k \in CoreType : k = core[s]
    BY InvAt DEF FlowInv
<1>2. PICK t \in Nat : t = now
    BY InvAt DEF FlowInv
<1>3. PICK l : l = Leaves(k, c, t)
    OBVIOUS
<1>4. /\ k.box.queues[c] # <<>> /\ Transmit(s, Head(k.box.queues[c]))
      /\ core' = [core EXCEPT ![s] = l]
    BY <1>1, <1>2, <1>3 DEF SendFrame, Become, Leaves
<1>5. /\ l \in CoreType /\ Calm(k, l) /\ Popped(k, l, c, t)
      /\ \A d \in Calls : d # c => Same(k, l, d)
    <2>1. k.box.queues[c] # <<>>
        BY <1>4
    <2> QED
        BY <1>3, <2>1, SendFrameEffect
<1>6. AllBooks(k, l) /\ \A d \in Calls : Terms(k, l, d)
    BY <1>3, LeavesBooks
<1>7. Shipped(k, l, c) /\ l.ready = k.ready
    <2>1. Popped(k, l, c, t) /\ Terms(k, l, c)
        BY <1>5, <1>6
    <2> QED
        BY <1>6, <2>1, ShippedMade DEF AllBooks
<1>8. ASSUME NEW d \in Calls, d # c PROVE Idle(k, l, d)
    <2>1. Alike(k, l, d) /\ Terms(k, l, d)
        BY <1>5, <1>6, <1>8 DEF Same
    <2> QED
        BY <1>6, <2>1, IdleMade
<1>9. PICK f \in FrameFrom(s, c) : f = Head(Queue(k, c))
    <2>1. Queue(k, c) \in Seq(FrameFrom(s, c)) /\ Queue(k, c) # <<>>
        BY <1>1, <1>4, InvAt DEF CallOK, Queue, FlowInv
    <2> QED
        BY <2>1, FramesTail
<1>10. f \in Frame /\ f.call = c
    BY <1>9, FromFrame
<1>11. PICK m, to, from : m = core[Peer(s)] /\ to = net[Peer(s)] /\ from = net[s]
    OBVIOUS
<1>12. /\ Rest(k, from) /\ Licensed(s, k, to, c)
       /\ Flows(s, k, m, to, from, c) /\ Scenes(s, k, m, to, from, c)
    BY <1>1, <1>11, FlowAt
<1>13. /\ m.finished => Flows(s, l, m, to, from, c)
       /\ ~m.finished => Flows(s, l, m, Append(to, f), from, c)
    <2>1. l \in CoreType
        BY <1>5
    <2> QED
        BY <1>7, <1>9, <1>10, <1>12, <2>1, ShippedFlow
<1>14. ~Has(Queue(l, c), {"CREDIT"}) /\ f.kind # "CREDIT"
    <2>1. Queue(k, c) # <<>> /\ Queue(l, c) = Tail(Queue(k, c)) /\ ~Has(Queue(k, c), {"CREDIT"})
        BY <1>7, <1>12 DEF Shipped, Licensed
    <2> QED
        BY <1>9, <2>1, PoppedHas
<1>15. /\ l \in CoreType /\ Calm(k, l) /\ Transmit(s, f)
       /\ l.box.credits[c] \in {NoCredit, k.box.credits[c]}
       /\ Pending(l, c) <=> Pending(k, c)
       /\ Inflight(l, c) <=> Inflight(k, c)
    BY <1>4, <1>5, <1>7, <1>9 DEF Shipped, SameLife, Queue
<1>16. /\ core[Peer(s)].finished => Flows(s, l, core[Peer(s)], net[Peer(s)], net[s], c)
       /\ ~core[Peer(s)].finished => Flows(s, l, core[Peer(s)], Append(net[Peer(s)], f), net[s], c)
    BY <1>11, <1>13
<1> QED
    BY <1>1, <1>4, <1>7, <1>8, <1>10, <1>14, <1>15, <1>16, TransmitFlow

LEMMA SendCreditFlow ==
    ASSUME FlowInv, Inv', NEW s \in Side, NEW c \in Calls, SendCredit(s, c)
    PROVE  FlowInv'
<1>1. PICK k \in CoreType : k = core[s]
    BY InvAt DEF FlowInv
<1>2. PICK t \in Nat : t = now
    BY InvAt DEF FlowInv
<1>3. PICK l : l = CreditLeaves(k, c)
    OBVIOUS
<1>4. /\ c \in ReadyCredits(k.box) /\ Transmit(s, CreditFrame(s, c, k.box.credits[c]))
      /\ core' = [core EXCEPT ![s] = l]
    BY <1>1, <1>3 DEF SendCredit, Become, CreditLeaves
<1>5. k.box.credits[c] # NoCredit /\ ~OpensWithRequest(k.box, c)
    BY <1>4 DEF ReadyCredits
<1>6. PICK items \in Nat : items = k.box.credits[c]
    <2>1. k.box.credits[c] \in Credits
        BY DEF CoreType, Box
    <2> QED
        BY <1>5, <2>1, QueueConstants DEF Credits
<1>7. PICK f : f = CreditFrame(s, c, items)
    OBVIOUS
<1>8. f \in FrameFrom(s, c) /\ f.kind = "CREDIT" /\ f.n = items
    BY <1>7, CreditFrameType DEF CreditFrame
<1>9. f \in Frame /\ f.call = c
    BY <1>8, FromFrame
<1>10. /\ l \in CoreType /\ Calm(k, l) /\ l.box.credits[c] = NoCredit
       /\ Kept(k, l, c, t)
       /\ \A d \in Calls : d # c => Same(k, l, d)
    BY <1>3, SendCreditEffect
<1>11. AllBooks(k, l) /\ \A d \in Calls : Terms(k, l, d)
    BY <1>3, LeavesBooks
<1>12. Shed(k, l, c) /\ l.ready = k.ready
    <2>1. Kept(k, l, c, t) /\ Terms(k, l, c) /\ l.box.credits[c] = NoCredit
        BY <1>10, <1>11
    <2> QED
        BY <1>3, <1>5, <1>11, <2>1, ShedMade DEF AllBooks
<1>13. ASSUME NEW d \in Calls, d # c PROVE Idle(k, l, d)
    <2>1. Alike(k, l, d) /\ Terms(k, l, d)
        BY <1>10, <1>11, <1>13 DEF Same
    <2> QED
        BY <1>11, <2>1, IdleMade
<1>14. PICK m, to, from : m = core[Peer(s)] /\ to = net[Peer(s)] /\ from = net[s]
    OBVIOUS
<1>15. /\ Licensed(s, k, to, c)
       /\ Flows(s, k, m, to, from, c) /\ Scenes(s, k, m, to, from, c)
    BY <1>1, <1>14, FlowAt
<1>16. /\ m.finished => Flows(s, l, m, to, from, c)
       /\ ~m.finished => Flows(s, l, m, Append(to, f), from, c)
    <2>1. l \in CoreType /\ f.kind = "CREDIT" /\ f.n = k.box.credits[c]
        BY <1>6, <1>8, <1>10
    <2> QED
        BY <1>5, <1>9, <1>12, <1>15, <2>1, ShedFlow
<1>17. /\ HasCredit(s) /\ Transmit(s, f)
       /\ l.box.credits[c] \in {NoCredit, k.box.credits[c]} /\ ~Has(Queue(l, c), {"CREDIT"})
       /\ Pending(l, c) <=> Pending(k, c)
       /\ Inflight(l, c) <=> Inflight(k, c)
    BY <1>4, <1>5, <1>6, <1>7, <1>10, <1>12, <1>15 DEF Shed, SameLife, Licensed
<1>18. /\ core[Peer(s)].finished => Flows(s, l, core[Peer(s)], net[Peer(s)], net[s], c)
       /\ ~core[Peer(s)].finished => Flows(s, l, core[Peer(s)], Append(net[Peer(s)], f), net[s], c)
    BY <1>14, <1>16
<1>19. l \in CoreType /\ Calm(k, l)
    BY <1>10
<1> QED
    BY <1>1, <1>4, <1>9, <1>12, <1>13, <1>17, <1>18, <1>19, TransmitFlow

-----------------------------------------------------------------------------
\* The session ends, time passes, the link begins.

LEMMA SessionEndFlow ==
    ASSUME FlowInv, Inv', NEW s \in Side, SessionEnd(s)
    PROVE  FlowInv'
<1> USE DEF FlowInv
<1>1. PICK k \in CoreType : k = core[s]
    BY InvAt
<1>2. PICK l : l = OnSessionEnd(k)
    OBVIOUS
<1>3. PICK p \in Side : p = Peer(s) /\ p # s
    BY PeerSide
<1>4. PICK to \in Seq(Frame), from \in Seq(Frame) : to = net[p] /\ from = net[s]
    BY <1>3, InvAt
<1>5. PICK m : m = core[p]
    OBVIOUS
<1>6. core' = [core EXCEPT ![s] = l]
    BY <1>1, <1>2 DEF SessionEnd, Become
<1>7. PICK j \in 0..Len(to) : net' = [net EXCEPT ![s] = <<>>, ![p] = SubSeq(to, 1, j)]
    BY <1>3, <1>4 DEF SessionEnd
<1>8. PICK to2 : to2 = SubSeq(to, 1, j)
    OBVIOUS
<1>9. net'[s] = <<>> /\ net'[p] = to2
    BY <1>3, <1>7, <1>8 DEF Inv
<1>10. l \in CoreType /\ ~l.ready /\ \A d \in Calls : Closed(k, l, d)
    BY <1>2, OnSessionEndEffect, SessionEndCloses
<1>11. /\ Rest(m, to)
       /\ \A d \in Calls : /\ Licensed(s, k, to, d) /\ Licensed(p, m, from, d)
                           /\ Flows(s, k, m, to, from, d) /\ Scenes(s, k, m, to, from, d)
    BY <1>1, <1>3, <1>4, <1>5, FlowAt
<1>12. Rest(l, <<>>)
    BY <1>10 DEF Rest, Closed, Dropped
<1>13. Rest(m, to2)
    <2>1. to = <<>> => to2 = <<>>
        <3>1. to = <<>> => Len(to) = 0
            OBVIOUS
        <3> QED
            BY <1>8, <3>1
    <2> QED
        BY <1>11, <2>1 DEF Rest
<1>14. ASSUME NEW d \in Calls
       PROVE /\ Licensed(s, l, to2, d) /\ Licensed(p, m, <<>>, d)
             /\ Flows(s, l, m, to2, <<>>, d)
    <2>1. Licensed(s, k, to, d) /\ Licensed(p, m, from, d) /\ Closed(k, l, d)
        BY <1>10, <1>11
    <2>2. Flows(s, k, m, to, from, d) /\ Scenes(s, k, m, to, from, d)
        BY <1>11
    <2>3. PICK K : K = {"CREDIT"}
        OBVIOUS
    <2>4. (Says(to2, d, K) => Says(to, d, K)) /\ ~Says(<<>>, d, K)
        BY <1>8, NetPrefix, NetEmpty
    <2>5. Licensed(s, l, to2, d)
        <3>1. l.box.credits[d] = NoCredit /\ Queue(l, d) = <<>>
            BY <2>1 DEF Closed, Dropped
        <3>2. ~Has(Queue(l, d), K)
            BY <3>1, QueueEmpty
        <3> QED
            BY <2>1, <2>3, <2>4, <3>1, <3>2 DEF Licensed
    <2>6. Licensed(p, m, <<>>, d)
        BY <2>1, <2>3, <2>4 DEF Licensed
    <2>7. Flows(s, l, m, to2, <<>>, d)
        <3>1. l \in CoreType
            BY <1>10
        <3>2. CASE Allocates(s, d)
            <4>1. Scene(k, m, to, from, d) /\ Flow(k, m, to, from, d)
                BY <2>2, <3>2 DEF Scenes, Flows
            <4>2. Flow(l, m, to2, <<>>, d)
                BY <1>8, <2>1, <3>1, <4>1, CallerCloses
            <4> QED
                BY <3>2, <4>2 DEF Flows
        <3>3. CASE ~Allocates(s, d)
            <4>1. Scene(m, k, from, to, d) /\ Flow(m, k, from, to, d)
                BY <2>2, <3>3 DEF Scenes, Flows
            <4>2. Flow(m, l, <<>>, to2, d)
                BY <1>8, <2>1, <3>1, <4>1, CalleeCloses
            <4> QED
                BY <3>3, <4>2 DEF Flows
        <3> QED
            BY <3>2, <3>3
    <2> QED
        BY <2>5, <2>6, <2>7
<1>15. /\ Rest(l, net'[s]) /\ Rest(core[Peer(s)], net'[Peer(s)])
       /\ \A d \in Calls :
            /\ Licensed(s, l, net'[Peer(s)], d)
            /\ Licensed(Peer(s), core[Peer(s)], net'[s], d)
            /\ Flows(s, l, core[Peer(s)], net'[Peer(s)], net'[s], d)
    BY <1>3, <1>5, <1>9, <1>12, <1>13, <1>14
<1> QED
    BY <1>6, <1>15, FlowStep

LEMMA StillFlow ==
    ASSUME FlowInv, Inv', UNCHANGED <<core, net>>
    PROVE  FlowInv'
BY DEF FlowInv

LEMMA NewHistory ==
    ASSUME NEW s \in Side, NEW k, k = NewCore(s), NEW c \in Calls
    PROVE  /\ k.put[c] = 0 /\ k.metered[c] = 0 /\ k.granted[c] = 0 /\ k.got[c] = <<>>
BY DEF NewCore

LEMMA NewFlow ==
    ASSUME NEW p \in Side, NEW q \in Side, NEW k, k = NewCore(p), NEW m, m = NewCore(q), NEW c \in Calls
    PROVE  Flow(k, m, <<>>, <<>>, c)
<1>1. /\ Queue(k, c) = <<>> /\ ~Pending(k, c) /\ k.outcomes[c] = <<>> /\ c \notin k.issued
    BY NewCoreType
<1>2. ~Inflight(m, c)
    BY NewCoreType
<1>3. k.put[c] = 0 /\ k.metered[c] = 0
    BY NewHistory
<1>4. m.put[c] = 0 /\ m.metered[c] = 0 /\ m.granted[c] = 0 /\ m.got[c] = <<>>
    BY NewHistory
<1>5. ~Unopened(k, <<>>, c)
    BY <1>1, QueueEmpty, NetEmpty DEF Unopened
<1>6. Counted(<<>>) /\ <<>> = Counting(Len(<<>>)) /\ ~EndsWell(<<>>)
    BY DEF Counted, Counting, EndsWell
<1>7. Past(k, m, <<>>, c)
    BY <1>1, <1>3, <1>4, <1>5, <1>6 DEF Past, Untouched
<1> QED
    BY <1>1, <1>2, <1>5, <1>7 DEF Flow, Owed, Square, Down, Up

LEMMA InitFlow == Init => FlowInv
<1> SUFFICES ASSUME Init PROVE FlowInv
    OBVIOUS
<1>1. Inv
    BY InitInv
<1>2. ASSUME NEW s \in Side PROVE core[s] = NewCore(s) /\ net[s] = <<>> /\ Peer(s) \in Side
    BY PeerSide DEF Init
<1>3. ASSUME NEW s \in Side PROVE Rest(core[s], net[s])
    BY <1>2, NewCoreType DEF Rest
<1>4. ASSUME NEW s \in Side, NEW c \in Calls
      PROVE  /\ Licensed(s, core[s], net[Peer(s)], c)
             /\ Flows(s, core[s], core[Peer(s)], net[Peer(s)], net[s], c)
    <2>1. PICK k : k = NewCore(s)
        OBVIOUS
    <2>2. Queue(k, c) = <<>> /\ k.box.credits[c] = NoCredit
        BY <2>1, NewCoreType
    <2>3. Licensed(s, k, <<>>, c)
        BY <2>2, QueueEmpty, NetEmpty DEF Licensed
    <2>4. PICK p \in Side : p = Peer(s)
        BY <1>2
    <2>5. PICK m : m = NewCore(p)
        OBVIOUS
    <2>6. Flow(k, m, <<>>, <<>>, c) /\ Flow(m, k, <<>>, <<>>, c)
        BY <2>1, <2>4, <2>5, NewFlow
    <2>7. core[s] = k /\ core[Peer(s)] = m /\ net[Peer(s)] = <<>> /\ net[s] = <<>>
        BY <1>2, <2>1, <2>4, <2>5
    <2> QED
        BY <2>3, <2>6, <2>7 DEF Flows
<1> QED
    BY <1>1, <1>3, <1>4 DEF FlowInv

\* The invariant is inductive: one lemma per action of the link.
LEMMA NextFlow == FlowInv /\ [Next]_vars => FlowInv'
<1> SUFFICES ASSUME FlowInv, [Next]_vars PROVE FlowInv'
    OBVIOUS
<1>1. Inv'
    BY NextInv DEF FlowInv
<1>2. CASE UNCHANGED vars \/ Advance
    <2>1. UNCHANGED <<core, net>>
        BY <1>2 DEF vars, Advance
    <2> QED
        BY <1>1, <2>1, StillFlow
<1>3. ASSUME NEW s \in Side,
             OnReady(s) \/ SessionEnd(s) \/ Deliver(s) \/ TickCore(s) \/ AppCall(s) \/ AppCallRefused(s)
      PROVE  FlowInv'
    BY <1>1, <1>3, OnReadyFlow, SessionEndFlow, DeliverFlow, TickCoreFlow, AppCallFlow, AppCallRefusedFlow
<1>4. ASSUME NEW s \in Side, NEW c \in Calls,
             BeginPoll(s, c) \/ PollLoop(s, c) \/ SendFrame(s, c) \/ SendCredit(s, c)
      PROVE  FlowInv'
    BY <1>1, <1>4, BeginPollFlow, PollLoopFlow, SendFrameFlow, SendCreditFlow
<1>5. ASSUME NEW s \in Side, NEW c \in Calls,
             AppSendItem(s, c) \/ AppCloseSend(s, c) \/ AppGrant(s, c) \/ AppCancel(s, c)
      PROVE  FlowInv'
    BY <1>1, <1>5, AppSendItemFlow, AppCloseSendFlow, AppGrantFlow, AppCancelFlow
<1> QED
    BY <1>2, <1>3, <1>4, <1>5 DEF Next, Poll, Send

-----------------------------------------------------------------------------
\* What the invariant says of the properties.

(* The half of CreditConserved that needs no CREDIT message on either side: *)
(* of what a receiver granted nothing is counted twice, so a sender never  *)
(* holds, nor will ever hold, more than it was granted.                    *)
CreditBounded ==
    \A g \in Side, c \in Calls :
        LET p == core[Peer(g)]
            live == DOMAIN p.pending \cup DOMAIN p.inflight
            held == IF c \in DOMAIN p.inflight THEN p.inflight[c].credit ELSE p.pending[c].credit
        IN c \in live /\ c \in DOMAIN core[g].pending \cup DOMAIN core[g].inflight
            => Underway(g, c) + held + p.metered[c] <= core[g].granted[c]

\* What side g granted on a call that lives on both sides.
LEMMA InvBalanced ==
    ASSUME FlowInv, NEW g \in Side, NEW c \in Calls, NEW p, p = core[Peer(g)],
           Pending(p, c) \/ Inflight(p, c), Pending(core[g], c) \/ Inflight(core[g], c),
           NEW held, held = IF Inflight(p, c) THEN p.inflight[c].credit ELSE p.pending[c].credit
    PROVE  Balanced(core[g].granted[c], Underway(g, c) + held + p.metered[c])
<1>1. PICK k : k = core[g]
    OBVIOUS
<1>2. PICK to, from : to = net[Peer(g)] /\ from = net[g]
    OBVIOUS
<1>3. Flows(g, k, p, to, from, c) /\ Scenes(g, k, p, to, from, c)
    BY <1>1, <1>2, FlowAt
<1>4. Underway(g, c) = OutOf(k, to, c)
    BY <1>1, <1>2 DEF Underway, OutOf, Coming, Queue
<1>5. CASE Allocates(g, c)
    <2>1. Scene(k, p, to, from, c) /\ Square(k, p, to, from, c)
        BY <1>3, <1>5 DEF Scenes, Flows, Flow
    <2>2. Pending(k, c) /\ Inflight(p, c)
        BY <1>1, <2>1 DEF Scene
    <2>3. held = p.inflight[c].credit
        BY <2>2
    <2> QED
        BY <1>1, <1>4, <2>1, <2>2, <2>3 DEF Square
<1>6. CASE ~Allocates(g, c)
    <2>1. Scene(p, k, from, to, c) /\ Square(p, k, from, to, c)
        BY <1>3, <1>6 DEF Scenes, Flows, Flow
    <2>2. Pending(p, c) /\ Inflight(k, c) /\ ~Inflight(p, c)
        BY <1>1, <2>1 DEF Scene
    <2>3. held = p.pending[c].credit
        BY <2>2
    <2> QED
        BY <1>1, <1>4, <2>1, <2>2, <2>3 DEF Square
<1> QED
    BY <1>5, <1>6

LEMMA InvBounded == FlowInv => CreditBounded
<1> SUFFICES ASSUME FlowInv, NEW g \in Side, NEW c \in Calls, NEW p, p = core[Peer(g)],
                    c \in DOMAIN p.pending \cup DOMAIN p.inflight,
                    c \in DOMAIN core[g].pending \cup DOMAIN core[g].inflight
             PROVE  Underway(g, c)
                      + (IF c \in DOMAIN p.inflight THEN p.inflight[c].credit ELSE p.pending[c].credit)
                      + p.metered[c] <= core[g].granted[c]
    BY DEF CreditBounded
<1>1. PICK held : held = IF c \in DOMAIN p.inflight THEN p.inflight[c].credit ELSE p.pending[c].credit
    OBVIOUS
<1>2. Pending(p, c) \/ Inflight(p, c)
    BY DEF Pending, Inflight
<1>3. Pending(core[g], c) \/ Inflight(core[g], c)
    BY DEF Pending, Inflight
<1>4. held = IF Inflight(p, c) THEN p.inflight[c].credit ELSE p.pending[c].credit
    BY <1>1 DEF Inflight
<1>5. Balanced(core[g].granted[c], Underway(g, c) + held + p.metered[c])
    BY <1>2, <1>3, <1>4, InvBalanced
<1> QED
    BY <1>1, <1>5 DEF Balanced

LEMMA InvConserved == CreditsShared /\ FlowInv => CreditConserved
<1> SUFFICES ASSUME CreditsShared, FlowInv, NEW g \in Side, NEW c \in Calls, NEW p, p = core[Peer(g)],
                    c \in DOMAIN p.pending \cup DOMAIN p.inflight,
                    c \in DOMAIN core[g].pending \cup DOMAIN core[g].inflight,
                    NEW known, known = Underway(g, c)
                      + (IF c \in DOMAIN p.inflight THEN p.inflight[c].credit ELSE p.pending[c].credit)
                      + p.metered[c]
             PROVE  /\ known <= core[g].granted[c]
                    /\ known = core[g].granted[c] \/ known >= MaxU32
    BY DEF CreditConserved
<1>1. PICK held : held = IF c \in DOMAIN p.inflight THEN p.inflight[c].credit ELSE p.pending[c].credit
    OBVIOUS
<1>2. Pending(p, c) \/ Inflight(p, c)
    BY DEF Pending, Inflight
<1>3. Pending(core[g], c) \/ Inflight(core[g], c)
    BY DEF Pending, Inflight
<1>4. held = IF Inflight(p, c) THEN p.inflight[c].credit ELSE p.pending[c].credit
    BY <1>1 DEF Inflight
<1>5. Balanced(core[g].granted[c], Underway(g, c) + held + p.metered[c])
    BY <1>2, <1>3, <1>4, InvBalanced
<1> QED
    BY <1>1, <1>5 DEF Balanced

LEMMA ShutThrough ==
    ASSUME NEW c \in Calls, NEW n \in Seq(Frame), NEW q \in Seq(Frame), NEW i \in Nat, NEW x \in Nat,
           NEW v, v = Through(Shut(i), n, q, c), v = x \/ v = Shut(x) \/ Sound(v, x)
    PROVE  i = x
<1>1. PICK w \in Int : w = Shut(i) /\ w < 0 /\ w # Broken
    BY DEF Shut, Broken
<1>2. PICK u \in Int : u = Reach(w, n, c)
    BY ReachFacts
<1>3. u \in {w, Broken}
    BY <1>1, <1>2, ReachFacts
<1>4. u < 0
    BY <1>1, <1>3 DEF Broken
<1>5. v = Reach(u, q, c)
    BY <1>1, <1>2 DEF Through
<1>6. v \in {u, Broken}
    BY <1>4, <1>5, ReachFacts
<1>7. v \in {Shut(i), Broken} /\ v < 0
    BY <1>1, <1>3, <1>6 DEF Broken
<1> QED
    BY <1>7 DEF Sound, Shut, Broken

LEMMA InvStreams == FlowInv => StreamsWhole
<1> SUFFICES ASSUME FlowInv, NEW s \in Side, NEW c, c \in core[s].issued,
                    NEW k, k = core[s], NEW m, m = core[Peer(s)], NEW o, o = k.outcomes[c]
             PROVE  /\ \A i \in 1..Len(o) : IF Terminates(o[i]) THEN i = Len(o) ELSE o[i].n = i
                    /\ o # <<>> /\ o[Len(o)].kind = "end" => Len(o) = m.put[c] + 1
                    /\ m.got[c] = Counting(Len(m.got[c]))
                    /\ c \in DOMAIN m.inflight /\ CallerStreams(m.inflight[c].m)
                        /\ m.inflight[c].inboundClosed => Len(m.got[c]) = k.put[c]
    BY DEF StreamsWhole
<1>1. k \in CoreType /\ c \in Calls
    BY InvAt DEF FlowInv, CoreType
<1>2. Allocates(s, c)
    BY <1>1, InvAt DEF FlowInv, CallOK
<1>3. PICK to, from : to = net[Peer(s)] /\ from = net[s]
    OBVIOUS
<1>4. Scene(k, m, to, from, c) /\ Flow(k, m, to, from, c)
    BY <1>1, <1>2, <1>3, FlowAt DEF Scenes, Flows
<1>5. Past(k, m, to, c) /\ Up(k, m, to, c)
    BY <1>4 DEF Flow
<1>6. ASSUME NEW i \in 1..Len(o) PROVE IF Terminates(o[i]) THEN i = Len(o) ELSE o[i].n = i
    <2>1. Ends(o) \subseteq {Len(o)}
        BY <1>4 DEF Scene
    <2>2. Terminates(o[i]) => i = Len(o)
        BY <1>6, <2>1 DEF Ends
    <2> QED
        BY <1>5, <1>6, <2>2 DEF Past, Counted
<1>7. o # <<>> /\ o[Len(o)].kind = "end" => Len(o) = m.put[c] + 1
    BY <1>5 DEF Past, EndsWell
<1>8. m.got[c] = Counting(Len(m.got[c]))
    BY <1>5 DEF Past
<1>9. ASSUME c \in DOMAIN m.inflight, CallerStreams(m.inflight[c].m), m.inflight[c].inboundClosed
      PROVE  Len(m.got[c]) = k.put[c]
    <2>1. Inflight(m, c) /\ ReadUpTo(m, c) = Shut(Len(m.got[c]))
        BY <1>9 DEF Inflight, ReadUpTo
    <2>2. PICK v : v = Through(ReadUpTo(m, c), to, Queue(k, c), c)
        OBVIOUS
    <2>3. IF Pending(k, c) THEN v = Said(k, c) ELSE Sound(v, k.put[c])
        BY <1>5, <2>1, <2>2 DEF Up
    <2>4. PICK i \in Nat, x \in Nat : i = Len(m.got[c]) /\ x = k.put[c]
        BY <1>1, <1>4, CallTypes DEF Scene
    <2>5. to \in Seq(Frame) /\ Queue(k, c) \in Seq(Frame)
        BY <1>1, <1>4, SceneFacts
    <2>6. v = x \/ v = Shut(x) \/ Sound(v, x)
        BY <2>3, <2>4 DEF Said
    <2>7. v = Through(Shut(i), to, Queue(k, c), c)
        BY <2>1, <2>2, <2>4
    <2>8. i = x
        BY <1>1, <2>5, <2>6, <2>7, ShutThrough
    <2> QED
        BY <2>4, <2>8
<1> QED
    BY <1>6, <1>7, <1>8, <1>9

-----------------------------------------------------------------------------
\* The theorems.

LEMMA SpecFlow == Spec => []FlowInv
BY InitFlow, NextFlow, PTL DEF Spec

(* SendItem and pollOne number a call's items, and the box, the link and   *)
(* the reader's handlers keep their order and lose none, whatever settles  *)
(* the call meanwhile: the reader is given a beginning of what was sent,   *)
(* and an END only after the whole of it.                                  *)
THEOREM StreamsAreWhole == Spec => []StreamsWhole
BY SpecFlow, InvStreams, PTL

(* Neither the coalescing of grants in the box, nor a CREDIT and a REQUEST *)
(* that both carry allowance, nor the saturating sums let a sender spend   *)
(* an item more than its receiver granted.                                 *)
THEOREM CreditIsBounded == Spec => []CreditBounded
BY SpecFlow, InvBounded, PTL

(* And none of it is lost: all of CreditConserved.  The hypothesis is that *)
(* both registries have the CREDIT message or neither has it: onCredit     *)
(* drops the CREDIT of a peer whose id for it is 0 here.                   *)
THEOREM CreditIsConserved ==
    ASSUME CreditsShared
    PROVE  Spec => []CreditConserved
<1>1. FlowInv => CreditConserved
    BY InvConserved
<1> QED
    BY <1>1, SpecFlow, PTL

=============================================================================
