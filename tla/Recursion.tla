------------------------------- MODULE Recursion -------------------------------
(***************************************************************************)
(* Induction and recursion over the naturals, stated about sets and        *)
(* functions, so that the facts can be used for whatever set or function   *)
(* is put in: every set of naturals has a least element, a set that is     *)
(* closed under successor holds an interval, and a function given by its   *)
(* first value and by steps exists.  The chain of interceptors and the     *)
(* allocator of ids are proved about with them, with folds what the frames *)
(* in a queue or on the link add up to, and the order in which calls end.  *)
(*                                                                         *)
(* The second half is about Codec, which is written with such functions    *)
(* and folds: the words, the fields and the models, what their writers     *)
(* give and what their readers make of any bytes.                          *)
(***************************************************************************)
EXTENDS Codec, Keys, Integers, FiniteSetsExt, FiniteSetTheorems, SequenceTheorems, WellFoundedInduction, TLAPS

LEMMA Least ==
    ASSUME NEW T \in SUBSET Nat, T # {}
    PROVE  \E m \in T : \A n \in T : m <= n
<1>1. PICK U : U = {0..n : n \in T}
    OBVIOUS
<1>2. \A n \in T : 0..n \in FiniteSubsetsOf(Nat)
    BY FS_Interval DEF FiniteSubsetsOf
<1>3. U \subseteq FiniteSubsetsOf(Nat) /\ U # {}
    BY <1>1, <1>2
<1>4. PICK x \in U : \A y \in U : <<y, x>> \notin StrictSubsetOrdering(Nat)
    BY <1>3, WFMin, FS_StrictSubsetOrderingWellFounded
<1>5. PICK m \in T : x = 0..m
    BY <1>1
<1>6. ASSUME NEW n \in T, n < m PROVE FALSE
    <2>1. n \in Nat /\ m \in Nat /\ m \in 0..m /\ m \notin 0..n
        BY <1>6
    <2>2. 0..n \subseteq 0..m /\ 0..n # 0..m /\ 0..n \in SUBSET Nat /\ 0..m \in SUBSET Nat
        BY <1>6, <2>1
    <2>3. <<0..n, 0..m>> \in StrictSubsetOrdering(Nat)
        BY <2>2 DEF StrictSubsetOrdering
    <2> QED
        BY <1>1, <1>4, <1>5, <2>3
<1> QED
    BY <1>6

LEMMA MinOfNaturals ==
    ASSUME NEW T \in SUBSET Nat, T # {}
    PROVE  Min(T) \in T /\ \A n \in T : Min(T) <= n
<1>1. \E m \in T : \A n \in T : m <= n
    BY Least
<1> QED
    BY <1>1 DEF Min

LEMMA IntervalInduction ==
    ASSUME NEW n \in Nat, NEW T, 0 \in T, \A i \in 1..n : i - 1 \in T => i \in T
    PROVE  0..n \subseteq T
<1> SUFFICES ASSUME (0..n) \ T # {} PROVE FALSE
    OBVIOUS
<1>1. PICK m \in (0..n) \ T : \A i \in (0..n) \ T : m <= i
    <2>1. (0..n) \ T \in SUBSET Nat
        OBVIOUS
    <2> QED
        BY <2>1, Least
<1>2. m \in 1..n /\ m - 1 \in 0..n /\ m - 1 < m
    BY <1>1
<1>3. m - 1 \in T
    BY <1>1, <1>2
<1> QED
    BY <1>1, <1>2, <1>3

\* step[<<i, v>>] is the value at i if v is the value at i - 1.
Follows(f, base, step, n) ==
    f[0] = base /\ \A i \in 1..n : f[i] = step[<<i, f[i - 1]>>]

LEMMA FunctionByRecursion ==
    ASSUME NEW S, NEW base \in S, NEW n \in Nat, NEW step \in [(1..n) \X S -> S]
    PROVE  \E f \in [0..n -> S] : Follows(f, base, step, n)
<1>1. PICK T : T = {m \in 0..n : \E f \in [0..m -> S] : Follows(f, base, step, m)}
    OBVIOUS
<1>2. 0 \in T
    <2>1. PICK f : f = [i \in 0..0 |-> base]
        OBVIOUS
    <2>2. f \in [0..0 -> S] /\ Follows(f, base, step, 0)
        BY <2>1 DEF Follows
    <2> QED
        BY <1>1, <2>2
<1>3. ASSUME NEW m \in 1..n, m - 1 \in T PROVE m \in T
    <2>1. PICK f \in [0..(m - 1) -> S] : Follows(f, base, step, m - 1)
        BY <1>1, <1>3
    <2>2. m - 1 \in 0..(m - 1) /\ 0 \in 0..(m - 1)
        OBVIOUS
    <2>3. PICK v \in S : v = step[<<m, f[m - 1]>>]
        BY <2>2
    <2>4. PICK g : g = [i \in 0..m |-> IF i = m THEN v ELSE f[i]]
        OBVIOUS
    <2>5. \A i \in 0..m : i = m \/ i \in 0..(m - 1)
        OBVIOUS
    <2>6. g \in [0..m -> S]
        BY <2>4, <2>5
    <2>7. g[0] = base /\ g[m] = v /\ \A i \in 0..(m - 1) : g[i] = f[i]
        <3>1. \A i \in 0..(m - 1) : i # m /\ i \in 0..m
            OBVIOUS
        <3> QED
            BY <2>1, <2>2, <2>4, <3>1 DEF Follows
    <2>8. \A i \in 1..m : (i = m \/ i \in 1..(m - 1)) /\ i - 1 \in 0..(m - 1)
        OBVIOUS
    <2>9. \A i \in 1..(m - 1) : i \in 0..(m - 1)
        OBVIOUS
    <2>10. Follows(g, base, step, m)
        BY <2>1, <2>3, <2>7, <2>8, <2>9 DEF Follows
    <2> QED
        BY <1>1, <2>6, <2>10
<1>4. n \in T
    BY <1>2, <1>3, IntervalInduction
<1> QED
    BY <1>1, <1>4

-----------------------------------------------------------------------------
\* The value a sequence leads to, one element after the other.

Run(h, base, step, q) ==
    /\ DOMAIN h = 0..Len(q)
    /\ h[0] = base /\ \A i \in 1..Len(q) : h[i] = step[<<h[i - 1], q[i]>>]
Fold(base, step, q) == CHOOSE v : \E h : Run(h, base, step, q) /\ v = h[Len(q)]
Steps(step, S, F) == step \in [S \X F -> S]

LEMMA RunExists ==
    ASSUME NEW S, NEW F, NEW base \in S, NEW step, Steps(step, S, F), NEW q \in Seq(F)
    PROVE  \E h \in [0..Len(q) -> S] : Run(h, base, step, q)
<1>1. PICK n \in Nat : n = Len(q)
    OBVIOUS
<1>2. PICK next : next = [p \in (1..n) \X S |-> step[<<p[2], q[p[1]]>>]]
    OBVIOUS
<1>3. \A i \in 1..n : q[i] \in F
    BY <1>1
<1>4. next \in [(1..n) \X S -> S]
    <2>1. ASSUME NEW p \in (1..n) \X S PROVE step[<<p[2], q[p[1]]>>] \in S
        <3>1. q[p[1]] \in F /\ p[2] \in S
            BY <1>3
        <3> QED
            BY <3>1 DEF Steps
    <2> QED
        BY <1>2, <2>1
<1>5. PICK h \in [0..n -> S] : Follows(h, base, next, n)
    BY <1>4, FunctionByRecursion
<1>6. ASSUME NEW i \in 1..n PROVE h[i] = step[<<h[i - 1], q[i]>>]
    <2>1. i - 1 \in 0..n
        OBVIOUS
    <2>2. <<i, h[i - 1]>> \in (1..n) \X S
        BY <2>1
    <2>3. h[i] = next[<<i, h[i - 1]>>]
        BY <1>5 DEF Follows
    <2> QED
        BY <1>2, <2>2, <2>3
<1> QED
    BY <1>1, <1>5, <1>6 DEF Run, Follows

LEMMA RunUnique ==
    ASSUME NEW base, NEW step, NEW q, Len(q) \in Nat,
           NEW g, Run(g, base, step, q), NEW h, Run(h, base, step, q)
    PROVE  \A i \in 0..Len(q) : g[i] = h[i]
<1>0. PICK n \in Nat : n = Len(q)
    OBVIOUS
<1>1. PICK T : T = {i \in 0..n : g[i] = h[i]}
    OBVIOUS
<1>2. 0 \in T
    BY <1>1 DEF Run
<1>3. ASSUME NEW i \in 1..n, i - 1 \in T PROVE i \in T
    <2>1. i - 1 \in 0..n /\ i \in 0..n /\ i \in 1..Len(q)
        BY <1>0
    <2>2. g[i - 1] = h[i - 1]
        BY <1>1, <1>3
    <2>3. g[i] = h[i]
        BY <2>1, <2>2 DEF Run
    <2> QED
        BY <1>1, <2>1, <2>3
<1>4. 0..n \subseteq T
    BY <1>2, <1>3, IntervalInduction
<1> QED
    BY <1>0, <1>1, <1>4

LEMMA FoldIsRun ==
    ASSUME NEW base, NEW step, NEW q, Len(q) \in Nat, NEW h, Run(h, base, step, q)
    PROVE  Fold(base, step, q) = h[Len(q)]
<1>1. ASSUME NEW g, Run(g, base, step, q) PROVE g[Len(q)] = h[Len(q)]
    <2>1. Len(q) \in 0..Len(q)
        OBVIOUS
    <2> QED
        BY <1>1, <2>1, RunUnique
<1>2. \A v : (\E g : Run(g, base, step, q) /\ v = g[Len(q)]) <=> v = h[Len(q)]
    BY <1>1
<1> QED
    BY <1>2 DEF Fold

LEMMA FoldStart ==
    ASSUME NEW base, NEW step
    PROVE  Fold(base, step, <<>>) = base
<1>1. PICK h : h = [i \in 0..0 |-> base]
    OBVIOUS
<1>2. Run(h, base, step, <<>>)
    BY <1>1 DEF Run
<1> QED
    BY <1>1, <1>2, FoldIsRun

LEMMA FoldType ==
    ASSUME NEW S, NEW F, NEW base \in S, NEW step, Steps(step, S, F), NEW q \in Seq(F)
    PROVE  Fold(base, step, q) \in S
<1>1. PICK h \in [0..Len(q) -> S] : Run(h, base, step, q)
    BY RunExists
<1>2. Len(q) \in 0..Len(q)
    OBVIOUS
<1> QED
    BY <1>1, <1>2, FoldIsRun

\* r is q and then f; q is f and then r; q is p and then r.
Grown(q, f, r) == Len(r) = Len(q) + 1 /\ r[Len(q) + 1] = f /\ \A i \in 1..Len(q) : r[i] = q[i]
Shrunk(q, f, r) == Len(q) = Len(r) + 1 /\ f = q[1] /\ \A i \in 1..Len(r) : r[i] = q[i + 1]
Parted(q, p, r) ==
    /\ Len(q) = Len(p) + Len(r)
    /\ \A i \in 1..Len(p) : p[i] = q[i]
    /\ \A i \in 1..Len(r) : r[i] = q[Len(p) + i]

LEMMA AppendGrows ==
    ASSUME NEW F, NEW q \in Seq(F), NEW f \in F
    PROVE  Append(q, f) \in Seq(F) /\ Grown(q, f, Append(q, f))
BY DEF Grown

LEMMA TailShrinks ==
    ASSUME NEW F, NEW q \in Seq(F), q # <<>>
    PROVE  Head(q) \in F /\ Tail(q) \in Seq(F) /\ Shrunk(q, Head(q), Tail(q))
BY DEF Shrunk

LEMMA CutParts ==
    ASSUME NEW F, NEW q \in Seq(F), NEW n \in 0..Len(q)
    PROVE  /\ SubSeq(q, 1, n) \in Seq(F) /\ SubSeq(q, n + 1, Len(q)) \in Seq(F)
           /\ Parted(q, SubSeq(q, 1, n), SubSeq(q, n + 1, Len(q)))
<1>1. Len(q) \in Nat /\ n \in Nat /\ n <= Len(q)
    OBVIOUS
<1>2. PICK p : p = SubSeq(q, 1, n)
    OBVIOUS
<1>3. p \in Seq(F) /\ Len(p) = n /\ \A i \in 1..n : p[i] = q[i]
    BY <1>2
<1>4. PICK r : r = SubSeq(q, n + 1, Len(q))
    OBVIOUS
<1>5. r \in Seq(F) /\ Len(r) = Len(q) - n /\ \A i \in 1..(Len(q) - n) : r[i] = q[n + i]
    BY <1>1, <1>4
<1> QED
    <2>1. Parted(q, p, r)
        BY <1>1, <1>3, <1>5 DEF Parted
    <2> QED
        BY <1>2, <1>3, <1>4, <1>5, <2>1

LEMMA FoldAppend ==
    ASSUME NEW S, NEW F, NEW base \in S, NEW step, Steps(step, S, F), NEW q \in Seq(F),
           NEW f \in F, NEW r \in Seq(F), Grown(q, f, r)
    PROVE  Fold(base, step, r) = step[<<Fold(base, step, q), f>>]
<1>1. PICK n \in Nat : n = Len(q)
    OBVIOUS
<1>2. Len(r) = n + 1 /\ r[n + 1] = f /\ \A i \in 1..n : r[i] = q[i]
    BY <1>1 DEF Grown
<1>3. PICK h \in [0..Len(r) -> S] : Run(h, base, step, r)
    BY RunExists
<1>4. PICK g : g = [i \in 0..n |-> h[i]]
    OBVIOUS
<1>5. ASSUME NEW i \in 1..n PROVE g[i] = step[<<g[i - 1], q[i]>>]
    <2>1. i - 1 \in 0..n /\ i \in 0..n /\ i \in 1..Len(r)
        BY <1>2
    <2> QED
        BY <1>2, <1>3, <1>4, <2>1 DEF Run
<1>6. Run(g, base, step, q)
    <2>1. DOMAIN g = 0..Len(q) /\ g[0] = base
        <3>1. 0 \in 0..n
            OBVIOUS
        <3> QED
            BY <1>1, <1>3, <1>4, <3>1 DEF Run
    <2>2. \A i \in 1..Len(q) : g[i] = step[<<g[i - 1], q[i]>>]
        BY <1>1, <1>5
    <2> QED
        BY <2>1, <2>2 DEF Run
<1>7. Fold(base, step, q) = g[n]
    BY <1>1, <1>6, FoldIsRun
<1>8. Fold(base, step, r) = h[n + 1]
    BY <1>2, <1>3, FoldIsRun
<1>9. n + 1 \in 1..Len(r) /\ (n + 1) - 1 = n /\ g[n] = h[n]
    BY <1>2, <1>4
<1> QED
    BY <1>2, <1>3, <1>7, <1>8, <1>9 DEF Run

LEMMA FoldTail ==
    ASSUME NEW S, NEW F, NEW base \in S, NEW step, Steps(step, S, F), NEW q \in Seq(F),
           NEW f \in F, NEW r \in Seq(F), Shrunk(q, f, r)
    PROVE  Fold(base, step, q) = Fold(step[<<base, f>>], step, r)
<1>2. PICK n \in Nat : n = Len(r)
    OBVIOUS
<1>3. Len(q) = n + 1 /\ f = q[1] /\ \A i \in 1..n : r[i] = q[i + 1]
    BY <1>2 DEF Shrunk
<1>4. PICK h \in [0..Len(q) -> S] : Run(h, base, step, q)
    BY RunExists
<1>5. PICK g : g = [i \in 0..n |-> h[i + 1]]
    OBVIOUS
<1>6. g[0] = step[<<base, f>>]
    <2>1. 1 \in 1..Len(q) /\ 0 \in 0..n /\ 1 - 1 = 0 /\ 0 + 1 = 1
        BY <1>3
    <2>2. h[1] = step[<<h[1 - 1], q[1]>>] /\ h[0] = base
        BY <1>4, <2>1 DEF Run
    <2> QED
        BY <1>3, <1>5, <2>1, <2>2
<1>7. ASSUME NEW i \in 1..n PROVE g[i] = step[<<g[i - 1], r[i]>>]
    <2>1. i + 1 \in 1..Len(q) /\ (i + 1) - 1 = i /\ (i - 1) + 1 = i /\ i - 1 \in 0..n /\ i \in 0..n
        BY <1>3
    <2>2. h[i + 1] = step[<<h[i], q[i + 1]>>]
        BY <1>4, <2>1 DEF Run
    <2> QED
        BY <1>3, <1>5, <2>1, <2>2
<1>8. Run(g, step[<<base, f>>], step, r)
    BY <1>2, <1>5, <1>6, <1>7 DEF Run
<1>9. Fold(step[<<base, f>>], step, r) = g[n]
    BY <1>2, <1>8, FoldIsRun
<1>10. Fold(base, step, q) = h[n + 1]
    BY <1>3, <1>4, FoldIsRun
<1> QED
    BY <1>5, <1>9, <1>10

\* What no step leads out of.
LEMMA FoldStays ==
    ASSUME NEW S, NEW F, NEW base \in S, NEW step, Steps(step, S, F), NEW q \in Seq(F),
           NEW T, base \in T, \A i \in 1..Len(q) : \A v \in S : v \in T => step[<<v, q[i]>>] \in T
    PROVE  Fold(base, step, q) \in T
<1>1. PICK h \in [0..Len(q) -> S] : Run(h, base, step, q)
    BY RunExists
<1>0. PICK n \in Nat : n = Len(q)
    OBVIOUS
<1>2. PICK U : U = {i \in 0..n : h[i] \in T}
    OBVIOUS
<1>3. 0 \in U
    BY <1>1, <1>2 DEF Run
<1>4. ASSUME NEW i \in 1..n, i - 1 \in U PROVE i \in U
    <2>1. i - 1 \in 0..n /\ i \in 0..n /\ i \in 1..Len(q)
        BY <1>0
    <2>2. h[i - 1] \in T /\ h[i - 1] \in S
        BY <1>0, <1>1, <1>2, <1>4, <2>1
    <2>3. step[<<h[i - 1], q[i]>>] \in T
        BY <2>1, <2>2
    <2> QED
        BY <1>1, <1>2, <2>1, <2>3 DEF Run
<1>5. 0..n \subseteq U
    BY <1>3, <1>4, IntervalInduction
<1>6. n \in U
    BY <1>5
<1> QED
    BY <1>0, <1>1, <1>2, <1>6, FoldIsRun

\* A part of a sequence, and what the rest makes of it.
LEMMA FoldRest ==
    ASSUME NEW S, NEW F, NEW base \in S, NEW step, Steps(step, S, F), NEW q \in Seq(F),
           NEW p \in Seq(F), NEW r \in Seq(F), Parted(q, p, r)
    PROVE  Fold(base, step, q) = Fold(Fold(base, step, p), step, r)
<1>1. PICK h \in [0..Len(q) -> S] : Run(h, base, step, q)
    BY RunExists
<1>2. PICK n \in Nat, w \in Nat : n = Len(p) /\ w = Len(r)
    OBVIOUS
<1>3. Len(q) = n + w /\ (\A i \in 1..n : p[i] = q[i]) /\ (\A i \in 1..w : r[i] = q[n + i])
    BY <1>2 DEF Parted
<1>4. PICK g : g = [i \in 0..n |-> h[i]]
    OBVIOUS
<1>5. Run(g, base, step, p)
    <2>1. ASSUME NEW i \in 1..n PROVE g[i] = step[<<g[i - 1], p[i]>>]
        <3>1. i - 1 \in 0..n /\ i \in 0..n /\ i \in 1..Len(q)
            BY <1>3
        <3> QED
            BY <1>1, <1>3, <1>4, <3>1 DEF Run
    <2>2. DOMAIN g = 0..Len(p) /\ g[0] = base
        <3>1. 0 \in 0..n
            OBVIOUS
        <3> QED
            BY <1>1, <1>2, <1>4, <3>1 DEF Run
    <2>3. \A i \in 1..Len(p) : g[i] = step[<<g[i - 1], p[i]>>]
        BY <1>2, <2>1
    <2> QED
        BY <2>2, <2>3 DEF Run
<1>6. Fold(base, step, p) = h[n]
    <2>1. Fold(base, step, p) = g[n]
        BY <1>2, <1>5, FoldIsRun
    <2> QED
        BY <1>4, <2>1
<1>7. PICK u : u = [i \in 0..w |-> h[n + i]]
    OBVIOUS
<1>8. ASSUME NEW i \in 1..w PROVE u[i] = step[<<u[i - 1], r[i]>>]
    <2>1. n + i \in 1..Len(q) /\ (n + i) - 1 = n + (i - 1) /\ i - 1 \in 0..w /\ i \in 0..w
        BY <1>3
    <2>2. h[n + i] = step[<<h[n + (i - 1)], q[n + i]>>]
        BY <1>1, <2>1 DEF Run
    <2> QED
        BY <1>3, <1>7, <2>1, <2>2
<1>9. Run(u, h[n], step, r)
    <2>1. n + 0 = n /\ 0 \in 0..w
        OBVIOUS
    <2>2. DOMAIN u = 0..Len(r) /\ u[0] = h[n]
        BY <1>2, <1>7, <2>1
    <2>3. \A i \in 1..Len(r) : u[i] = step[<<u[i - 1], r[i]>>]
        BY <1>2, <1>8
    <2> QED
        BY <2>2, <2>3 DEF Run
<1>10. Fold(h[n], step, r) = u[w]
    BY <1>2, <1>9, FoldIsRun
<1>11. Fold(base, step, q) = h[Len(q)]
    BY <1>1, FoldIsRun
<1> QED
    BY <1>3, <1>6, <1>7, <1>10, <1>11

-----------------------------------------------------------------------------
(* The sorted keys of a map exist.                                         *)

Ascending(keys, n) == \A i, j \in 1..n : i < j => keys[i] < keys[j]

LEMMA AscendingExists ==
    ASSUME NEW n \in Nat, NEW S \in SUBSET Nat, IsFiniteSet(S), Cardinality(S) = n
    PROVE  \E keys \in [1..n -> S] : Ascending(keys, n)
<1>1. PICK T : T = {m \in 0..n : \A R \in SUBSET S : Cardinality(R) = m =>
                                    \E keys \in [1..m -> R] : Ascending(keys, m)}
    OBVIOUS
<1>2. 0 \in T
    <2>1. ASSUME NEW R \in SUBSET S PROVE \E keys \in [1..0 -> R] : Ascending(keys, 0)
        <3>1. PICK keys : keys = [i \in 1..0 |-> 0]
            OBVIOUS
        <3>2. keys \in [1..0 -> R] /\ Ascending(keys, 0)
            BY <3>1 DEF Ascending
        <3> QED
            BY <3>2
    <2> QED
        BY <1>1, <2>1
<1>3. ASSUME NEW m \in 1..n, m - 1 \in T PROVE m \in T
    <2>1. ASSUME NEW R \in SUBSET S, Cardinality(R) = m
          PROVE  \E keys \in [1..m -> R] : Ascending(keys, m)
        <3>1. IsFiniteSet(R) /\ R # {} /\ R \in SUBSET Nat
            <4>1. IsFiniteSet(R) /\ R \in SUBSET Nat
                BY FS_Subset
            <4>2. R # {}
                BY <2>1, FS_EmptySet
            <4> QED
                BY <4>1, <4>2
        <3>2. PICK least \in R : \A r \in R : least <= r
            BY <3>1, Least
        <3>3. Cardinality(R \ {least}) = m - 1 /\ R \ {least} \in SUBSET S
            BY <2>1, <3>1, FS_RemoveElement
        <3>4. PICK rest \in [1..(m - 1) -> R \ {least}] : Ascending(rest, m - 1)
            BY <1>1, <1>3, <3>3
        <3>5. PICK keys : keys = [i \in 1..m |-> IF i = 1 THEN least ELSE rest[i - 1]]
            OBVIOUS
        <3>6. \A i \in 1..m : i = 1 \/ i - 1 \in 1..(m - 1)
            OBVIOUS
        <3>7. keys[1] = least /\ \A i \in 1..m : i # 1 => keys[i] = rest[i - 1] /\ rest[i - 1] \in R /\ least < rest[i - 1]
            <4>1. 1 \in 1..m
                OBVIOUS
            <4>2. ASSUME NEW i \in 1..m, i # 1 PROVE rest[i - 1] \in R /\ least < rest[i - 1]
                <5>1. rest[i - 1] \in R \ {least}
                    BY <3>4, <3>6, <4>2
                <5>2. least \in Nat /\ rest[i - 1] \in Nat /\ least <= rest[i - 1] /\ rest[i - 1] # least
                    BY <3>1, <3>2, <5>1
                <5> QED
                    BY <5>1, <5>2
            <4> QED
                BY <3>5, <4>1, <4>2
        <3>8. keys \in [1..m -> R]
            BY <3>2, <3>5, <3>7
        <3>9. ASSUME NEW i \in 1..m, NEW j \in 1..m, i < j PROVE keys[i] < keys[j]
            <4>1. CASE i = 1
                <5>1. j # 1
                    BY <3>9, <4>1
                <5> QED
                    BY <3>7, <4>1, <5>1
            <4>2. CASE i # 1
                <5>1. i - 1 \in 1..(m - 1) /\ j - 1 \in 1..(m - 1) /\ i - 1 < j - 1 /\ j # 1
                    BY <3>9, <4>2
                <5>2. rest[i - 1] < rest[j - 1]
                    BY <3>4, <5>1 DEF Ascending
                <5> QED
                    BY <3>7, <4>2, <5>1, <5>2
            <4> QED
                BY <4>1, <4>2
        <3> QED
            BY <3>8, <3>9 DEF Ascending
    <2> QED
        BY <1>1, <2>1
<1>4. 0..n \subseteq T
    BY <1>2, <1>3, IntervalInduction
<1>5. n \in T /\ S \in SUBSET S
    BY <1>4
<1> QED
    BY <1>1, <1>5

LEMMA SortedKeysType ==
    ASSUME NEW S \in SUBSET Nat, IsFiniteSet(S)
    PROVE  /\ Cardinality(S) \in Nat /\ SortedKeys(S) \in [1..Cardinality(S) -> S]
           /\ Ascending(SortedKeys(S), Cardinality(S))
           /\ \A r \in S : \E i \in 1..Cardinality(S) : SortedKeys(S)[i] = r
<1>1. PICK n \in Nat : n = Cardinality(S)
    BY FS_CardinalityType
<1>2. PICK keys : keys = SortedKeys(S)
    OBVIOUS
<1>3. keys \in [1..n -> S] /\ Ascending(keys, n)
    <2>1. keys = CHOOSE f \in [1..n -> S] : Ascending(f, n)
        BY <1>1, <1>2 DEF SortedKeys, Ascending
    <2> QED
        BY <1>1, <2>1, AscendingExists
<1>4. \A i, j \in 1..n : keys[i] = keys[j] => i = j
    <2>1. ASSUME NEW i \in 1..n, NEW j \in 1..n, keys[i] = keys[j] PROVE i = j
        <3>1. keys[i] \in Nat /\ keys[j] \in Nat
            BY <1>3
        <3>2. (i < j => keys[i] < keys[j]) /\ (j < i => keys[j] < keys[i])
            BY <1>3 DEF Ascending
        <3> QED
            BY <2>1, <3>1, <3>2
    <2> QED
        BY <2>1
<1>5. keys \in Injection(1..n, S)
    BY <1>3, <1>4 DEF Injection, IsInjective
<1>6. keys \in Surjection(1..n, S)
    <2>1. IsFiniteSet(1..n) /\ Cardinality(1..n) = n
        BY FS_Interval
    <2> QED
        BY <1>1, <1>5, <2>1, FS_Injection
<1> QED
    BY <1>1, <1>2, <1>3, <1>6 DEF Surjection

-----------------------------------------------------------------------------
\* Bytes.

Byte == 0..255

LEMMA ByteDivision == \A n \in Nat : n \div 256 \in Nat /\ n % 256 \in Byte /\ n = (n \div 256) * 256 + (n % 256)
BY DEF Byte

LEMMA DivisionGrows == \A m, n \in Nat : m <= n => m \div 256 <= n \div 256
OBVIOUS

\* a counts down what is left of n.
CountsDown(a, n) ==
    /\ a \in [0..WordLen -> Nat] /\ a[0] = n
    /\ \A i \in 1..WordLen : a[i] = a[i - 1] \div 256

LEMMA AboveType == \A n \in Nat : CountsDown(Above(n), n)
<1> SUFFICES ASSUME NEW n \in Nat PROVE CountsDown(Above(n), n)
    OBVIOUS
<1>1. WordLen \in Nat
    BY WordLenPositive
<1>2. PICK step : step = [p \in (1..WordLen) \X Nat |-> p[2] \div 256]
    OBVIOUS
<1>3. step \in [(1..WordLen) \X Nat -> Nat] /\ \A i \in 1..WordLen, v \in Nat : step[<<i, v>>] = v \div 256
    BY <1>2, ByteDivision
<1>4. PICK a \in [0..WordLen -> Nat] : Follows(a, n, step, WordLen)
    BY <1>1, <1>3, FunctionByRecursion
<1>5. \A i \in 0..WordLen : i = 0 \/ (i \in 1..WordLen /\ i - 1 \in 0..WordLen)
    BY <1>1
<1>6. \A i \in 0..WordLen : a[i] = IF i = 0 THEN n ELSE a[i - 1] \div 256
    <2>1. ASSUME NEW i \in 1..WordLen PROVE a[i] = a[i - 1] \div 256
        <3>1. a[i - 1] \in Nat
            BY <1>4, <1>5
        <3>2. a[i] = step[<<i, a[i - 1]>>]
            BY <1>4 DEF Follows
        <3> QED
            BY <1>3, <3>1, <3>2
    <2> QED
        BY <1>4, <1>5, <2>1 DEF Follows
<1>7. a = [i \in 0..WordLen |-> IF i = 0 THEN n ELSE a[i - 1] \div 256]
    BY <1>6
<1> DEFINE b == CHOOSE f : f = [i \in 0..WordLen |-> IF i = 0 THEN n ELSE f[i - 1] \div 256]
<1>8. Above(n) = b
    BY DEF Above
<1>9. b = [i \in 0..WordLen |-> IF i = 0 THEN n ELSE b[i - 1] \div 256]
    BY <1>7
<1> HIDE DEF b
<1>10. PICK T : T = {i \in 0..WordLen : b[i] \in Nat}
    OBVIOUS
<1>11. 0 \in 0..WordLen /\ \A i \in 1..WordLen : i \in 0..WordLen /\ i # 0
    BY <1>1
<1>12. 0 \in T
    BY <1>9, <1>10, <1>11
<1>13. ASSUME NEW i \in 1..WordLen, i - 1 \in T PROVE i \in T
    BY <1>9, <1>10, <1>11, <1>13, ByteDivision
<1>14. 0..WordLen \subseteq T
    BY <1>1, <1>12, <1>13, IntervalInduction
<1> QED
    BY <1>8, <1>9, <1>10, <1>11, <1>14 DEF CountsDown

LEMMA WordBytes ==
    ASSUME NEW n \in Nat
    PROVE  Word(n) \in Seq(Byte) /\ Len(Word(n)) = WordLen
<1>1. PICK a : a = Above(n) /\ a \in [0..WordLen -> Nat]
    BY AboveType DEF CountsDown
<1>2. WordLen \in Nat /\ \A i \in 1..WordLen : i - 1 \in 0..WordLen
    BY WordLenPositive
<1>3. Word(n) \in [1..WordLen -> Byte]
    BY <1>1, <1>2, ByteDivision DEF Word
<1> QED
    BY <1>2, <1>3, SeqDef

\* Reading the bytes from the last to the first puts the number together.
LEMMA ValueOfWord ==
    ASSUME NEW n \in U32
    PROVE  Value(Word(n)) = n
<1>1. n \in Nat /\ WordLen \in Nat
    BY WordLenPositive DEF U32
<1>2. PICK a : a = Above(n) /\ a[WordLen] = 0 /\ CountsDown(a, n)
    BY <1>1, AboveType DEF U32
<1>3. PICK w : w = Word(n)
    OBVIOUS
<1>4. \A i \in 1..WordLen : w[i] = a[i - 1] % 256
    BY <1>2, <1>3 DEF Word
<1>5. PICK h : h = [i \in 0..WordLen |-> a[WordLen - i]]
    OBVIOUS
<1>6. ASSUME NEW i \in 1..WordLen PROVE h[i] = h[i - 1] * 256 + w[WordLen + 1 - i]
    <2>1. PICK j \in 1..WordLen : j = WordLen + 1 - i /\ j - 1 = WordLen - i /\ j = WordLen - (i - 1)
        BY <1>1
    <2>2. i - 1 \in 0..WordLen /\ i \in 0..WordLen /\ j \in 0..WordLen /\ j - 1 \in 0..WordLen
        BY <1>1, <2>1
    <2>3. h[i] = a[j - 1] /\ h[i - 1] = a[j]
        BY <1>5, <2>1, <2>2
    <2>4. a[j] = a[j - 1] \div 256 /\ w[j] = a[j - 1] % 256 /\ a[j - 1] \in Nat
        BY <1>2, <1>4, <2>2 DEF CountsDown
    <2>5. a[j - 1] = a[j] * 256 + w[j]
        BY <2>4, ByteDivision
    <2> QED
        BY <2>1, <2>3, <2>5
<1>7. h[0] = 0 /\ h[WordLen] = n
    <2>1. 0 \in 0..WordLen /\ WordLen \in 0..WordLen /\ WordLen - 0 = WordLen /\ WordLen - WordLen = 0
        BY <1>1
    <2> QED
        BY <1>2, <1>5, <2>1 DEF CountsDown
<1>8. h = [i \in 0..WordLen |-> IF i = 0 THEN 0 ELSE h[i - 1] * 256 + w[WordLen + 1 - i]]
    <2>1. h = [i \in 0..WordLen |-> h[i]]
        BY <1>5
    <2>2. \A i \in 0..WordLen : i = 0 \/ i \in 1..WordLen
        BY <1>1
    <2>3. \A i \in 0..WordLen : h[i] = IF i = 0 THEN 0 ELSE h[i - 1] * 256 + w[WordLen + 1 - i]
        BY <1>6, <1>7, <2>2
    <2> QED
        BY <2>1, <2>3
<1> DEFINE Tops(f) == f = [i \in 0..WordLen |-> IF i = 0 THEN 0 ELSE f[i - 1] * 256 + w[WordLen + 1 - i]]
<1> DEFINE g == CHOOSE f : Tops(f)
<1>10. g = [i \in 0..WordLen |-> IF i = 0 THEN 0 ELSE g[i - 1] * 256 + w[WordLen + 1 - i]]
    <2>1. Tops(h)
        BY <1>8
    <2>2. Tops(g)
        <3> HIDE DEF Tops
        <3> QED
            BY <2>1
    <2> QED
        BY <2>2
<1>11. Value(w) = g[WordLen]
    BY DEF Value
<1> HIDE DEF g
<1>12. PICK T : T = {i \in 0..WordLen : g[i] = h[i]}
    OBVIOUS
<1>13. 0 \in T
    BY <1>1, <1>7, <1>10, <1>12
<1>14. ASSUME NEW i \in 1..WordLen, i - 1 \in T PROVE i \in T
    <2>1. i \in 0..WordLen /\ i # 0
        BY <1>1
    <2>2. g[i] = g[i - 1] * 256 + w[WordLen + 1 - i] /\ g[i - 1] = h[i - 1]
        BY <1>10, <1>12, <1>14, <2>1
    <2> QED
        BY <1>6, <1>12, <2>1, <2>2
<1>15. 0..WordLen \subseteq T
    BY <1>1, <1>13, <1>14, IntervalInduction
<1>16. g[WordLen] = h[WordLen]
    BY <1>1, <1>12, <1>15
<1> QED
    BY <1>3, <1>7, <1>11, <1>16

\* A smaller number fits too.
LEMMA FitsBelow ==
    ASSUME NEW n \in U32, NEW m \in 0..n
    PROVE  m \in U32
<1>1. n \in Nat /\ m \in Nat /\ m <= n /\ WordLen \in Nat
    BY WordLenPositive DEF U32
<1>2. PICK a : a = Above(n) /\ a[WordLen] = 0 /\ CountsDown(a, n)
    BY <1>1, AboveType DEF U32
<1>3. PICK b : b = Above(m) /\ CountsDown(b, m)
    BY <1>1, AboveType
<1>4. PICK T : T = {i \in 0..WordLen : b[i] <= a[i]}
    OBVIOUS
<1>5. 0 \in T
    BY <1>1, <1>2, <1>3, <1>4 DEF CountsDown
<1>6. ASSUME NEW i \in 1..WordLen, i - 1 \in T PROVE i \in T
    <2>1. i \in 0..WordLen /\ i - 1 \in 0..WordLen /\ b[i - 1] <= a[i - 1]
        BY <1>1, <1>4, <1>6
    <2>2. a[i - 1] \in Nat /\ b[i - 1] \in Nat
        BY <1>2, <1>3, <2>1 DEF CountsDown
    <2>3. b[i] = b[i - 1] \div 256 /\ a[i] = a[i - 1] \div 256
        BY <1>2, <1>3 DEF CountsDown
    <2> QED
        BY <1>4, <2>1, <2>2, <2>3, DivisionGrows
<1>7. 0..WordLen \subseteq T
    BY <1>1, <1>5, <1>6, IntervalInduction
<1>8. b[WordLen] <= 0 /\ b[WordLen] \in Nat
    BY <1>1, <1>2, <1>3, <1>4, <1>7 DEF CountsDown
<1>9. b[WordLen] = 0
    BY <1>8
<1> QED
    BY <1>1, <1>3, <1>9 DEF U32

\* A byte fits.
LEMMA ByteFits == Byte \subseteq U32
<1> SUFFICES ASSUME NEW n \in Byte PROVE n \in U32
    OBVIOUS
<1>1. n \in Nat /\ n \div 256 = 0 /\ WordLen \in Nat /\ 1 \in 1..WordLen
    BY WordLenPositive DEF Byte
<1>2. PICK a : a = Above(n) /\ CountsDown(a, n)
    BY <1>1, AboveType
<1>3. PICK T : T = {i \in 0..WordLen : i = 0 \/ a[i] = 0}
    OBVIOUS
<1>4. ASSUME NEW i \in 1..WordLen, i - 1 \in T PROVE i \in T
    <2>1. i \in 0..WordLen /\ a[i] = a[i - 1] \div 256
        BY <1>1, <1>2 DEF CountsDown
    <2>2. a[i - 1] \in {n, 0}
        BY <1>2, <1>3, <1>4 DEF CountsDown
    <2> QED
        BY <1>1, <1>3, <2>1, <2>2
<1>5. 0 \in T
    BY <1>1, <1>3
<1>6. 0..WordLen \subseteq T
    BY <1>1, <1>4, <1>5, IntervalInduction
<1>7. a[WordLen] = 0
    BY <1>1, <1>3, <1>6, WordLenPositive
<1> QED
    BY <1>1, <1>2, <1>7 DEF U32

-----------------------------------------------------------------------------
\* The bytes of part are in buf behind pos.
Holds(buf, pos, part) ==
    /\ pos \in Nat /\ pos + Len(part) <= Len(buf)
    /\ \A i \in 1..Len(part) : buf[pos + i] = part[i]

LEMMA HoldsAll ==
    ASSUME NEW buf \in Seq(Byte)
    PROVE  Holds(buf, 0, buf)
<1>1. PICK n \in Nat : n = Len(buf)
    BY LenProperties
<1>2. \A i \in 1..n : 0 + i = i
    OBVIOUS
<1> QED
    BY <1>1, <1>2 DEF Holds

LEMMA HoldsParts ==
    ASSUME NEW buf \in Seq(Byte), NEW pos, NEW p \in Seq(Byte), NEW q \in Seq(Byte),
           Holds(buf, pos, p \o q)
    PROVE  Holds(buf, pos, p) /\ Holds(buf, pos + Len(p), q)
<1>1. PICK l \in Nat, m \in Nat, n \in Nat : l = Len(p) /\ m = Len(q) /\ n = Len(buf)
    BY LenProperties
<1>2. PICK r : r = p \o q
    OBVIOUS
<1>3. Len(r) = l + m /\ \A i \in 1..(l + m) : r[i] = IF i <= l THEN p[i] ELSE q[i - l]
    BY <1>1, <1>2, ConcatProperties
<1>4. pos \in Nat /\ pos + (l + m) <= n /\ \A i \in 1..(l + m) : buf[pos + i] = r[i]
    BY <1>1, <1>2, <1>3 DEF Holds
<1>5. ASSUME NEW i \in 1..l PROVE buf[pos + i] = p[i]
    <2>1. i \in 1..(l + m) /\ i <= l
        BY <1>1
    <2> QED
        BY <1>3, <1>4, <2>1
<1>6. ASSUME NEW i \in 1..m PROVE buf[pos + l + i] = q[i]
    <2>1. PICK j \in 1..(l + m) : j = l + i /\ ~(j <= l) /\ j - l = i
        BY <1>1
    <2>2. pos + l + i = pos + j
        BY <1>1, <1>4, <2>1
    <2> QED
        BY <1>3, <1>4, <2>1, <2>2
<1>7. pos + l <= n /\ pos + l \in Nat /\ pos + l + m <= n
    BY <1>1, <1>4
<1> QED
    BY <1>1, <1>4, <1>5, <1>6, <1>7 DEF Holds

LEMMA HoldsTaken ==
    ASSUME NEW buf \in Seq(Byte), NEW pos, NEW part \in Seq(Byte), Holds(buf, pos, part)
    PROVE  Take(buf, pos, Len(part)) = Got(part, pos + Len(part))
<1>1. PICK m \in Nat, n \in Nat : m = Len(part) /\ n = Len(buf)
    BY LenProperties
<1>2. pos \in Nat /\ pos + m <= n /\ \A i \in 1..m : buf[pos + i] = part[i]
    BY <1>1 DEF Holds
<1>3. PICK cut : cut = SubSeq(buf, pos + 1, pos + m)
    OBVIOUS
<1>4. cut \in Seq(Byte) /\ Len(cut) = m /\ \A i \in 1..m : cut[i] = buf[pos + i]
    BY <1>1, <1>2, <1>3
<1>5. cut = part
    BY <1>1, <1>2, <1>4, SeqEqual
<1>6. ~(m > n - pos)
    BY <1>1, <1>2
<1> QED
    BY <1>1, <1>3, <1>5, <1>6 DEF Take

LEMMA HoldsNumber ==
    ASSUME NEW buf \in Seq(Byte), NEW pos, NEW n \in U32, Holds(buf, pos, Word(n))
    PROVE  ReadU32(buf, pos) = Got(n, pos + WordLen)
<1>1. PICK w \in Seq(Byte) : w = Word(n) /\ Len(w) = WordLen
    BY WordBytes DEF U32
<1>2. Take(buf, pos, WordLen) = Got(w, pos + WordLen)
    BY <1>1, HoldsTaken
<1>3. Value(w) = n
    BY <1>1, ValueOfWord
<1> QED
    BY <1>2, <1>3 DEF ReadU32, Got

LEMMA HoldsBytes ==
    ASSUME NEW buf \in Seq(Byte), NEW pos, NEW v \in Seq(Byte), Len(v) \in U32,
           Holds(buf, pos, Word(Len(v)) \o v)
    PROVE  ReadBytes(buf, pos) = Got(v, pos + (WordLen + Len(v)))
<1>1. PICK n \in Nat, m \in Nat : n = Len(v) /\ m = Len(buf)
    BY LenProperties
<1>2. PICK w \in Seq(Byte) : w = Word(n) /\ Len(w) = WordLen
    BY WordBytes
<1>3. Holds(buf, pos, w) /\ Holds(buf, pos + WordLen, v)
    BY <1>1, <1>2, HoldsParts
<1>4. ReadU32(buf, pos) = Got(n, pos + WordLen)
    BY <1>1, <1>2, <1>3, HoldsNumber
<1>5. Take(buf, pos + WordLen, n) = Got(v, pos + WordLen + n)
    BY <1>1, <1>3, HoldsTaken
<1>6. ~(n > m - (pos + WordLen)) /\ pos + WordLen + n = pos + (WordLen + n)
    BY <1>1, <1>3, WordLenPositive DEF Holds
<1>7. TakeChecked(buf, Got(n, pos + WordLen), pos) = Got(v, pos + (WordLen + n))
    BY <1>1, <1>5, <1>6 DEF TakeChecked, Got
<1>8. ReadBytes(buf, pos) = TakeChecked(buf, Got(n, pos + WordLen), pos)
    BY <1>4 DEF ReadBytes, Got
<1> QED
    BY <1>1, <1>7, <1>8

\* What the writer can put and the reader can take.
Sendable(type, v) ==
    IF type = "u32" THEN v \in U32
    ELSE /\ type \in {"bytes", "string"} /\ v \in Seq(Byte) /\ Len(v) \in U32
         /\ type = "string" => ValidUTF8(v)

LEMMA PutBytes ==
    ASSUME NEW type, NEW v, Sendable(type, v)
    PROVE  Put(type, v) \in Seq(Byte) /\ Len(Put(type, v)) >= WordLen
<1>1. CASE type = "u32"
    <2>1. v \in Nat /\ Put(type, v) = Word(v)
        BY <1>1 DEF Sendable, U32, Put
    <2> QED
        BY <2>1, WordBytes, WordLenPositive
<1>2. CASE type # "u32"
    <2>1. v \in Seq(Byte) /\ Put(type, v) = Word(Len(v)) \o v
        BY <1>2 DEF Sendable, Put
    <2>2. PICK n \in Nat : n = Len(v)
        BY <2>1, LenProperties
    <2>3. PICK w \in Seq(Byte) : w = Word(n) /\ Len(w) = WordLen
        BY <2>2, WordBytes
    <2>4. w \o v \in Seq(Byte) /\ Len(w \o v) = WordLen + n
        BY <2>1, <2>2, <2>3, ConcatProperties
    <2> QED
        BY <2>1, <2>2, <2>3, <2>4, WordLenPositive
<1> QED
    BY <1>1, <1>2

\* A field that is there is read as it was written, whichever type it has.
LEMMA HoldsField ==
    ASSUME NEW buf \in Seq(Byte), NEW pos, NEW type, NEW v, Sendable(type, v),
           Holds(buf, pos, Put(type, v))
    PROVE  ReadField(type, buf, pos) = Got(v, pos + Len(Put(type, v)))
<1>1. PICK p \in Seq(Byte) : p = Put(type, v) /\ Len(p) >= WordLen
    BY PutBytes
<1>2. ~FieldAbsent(buf, pos)
    <2>1. PICK n \in Nat, m \in Nat : n = Len(p) /\ m = Len(buf)
        BY LenProperties
    <2>2. pos \in Nat /\ pos + n <= m /\ n > 0
        BY <1>1, <2>1, WordLenPositive DEF Holds
    <2>3. m - pos # 0
        BY <2>1, <2>2
    <2> QED
        BY <2>1, <2>3 DEF FieldAbsent
<1>3. CASE type = "u32"
    <2>1. v \in U32 /\ Put(type, v) = Word(v)
        BY <1>3 DEF Sendable, Put
    <2>2. Len(Word(v)) = WordLen
        BY <2>1, WordBytes DEF U32
    <2>3. ReadU32(buf, pos) = Got(v, pos + WordLen)
        BY <2>1, HoldsNumber
    <2> QED
        BY <1>2, <1>3, <2>1, <2>2, <2>3 DEF ReadField, Read
<1>4. CASE type # "u32"
    <2>1. /\ v \in Seq(Byte) /\ Len(v) \in U32 /\ Put(type, v) = Word(Len(v)) \o v
          /\ type = "bytes" \/ (type = "string" /\ ValidUTF8(v))
        BY <1>4 DEF Sendable, Put
    <2>2. ReadBytes(buf, pos) = Got(v, pos + (WordLen + Len(v)))
        BY <2>1, HoldsBytes
    <2>3. Len(Put(type, v)) = WordLen + Len(v)
        <3>1. Len(v) \in Nat
            BY <2>1, LenProperties
        <3>2. Word(Len(v)) \in Seq(Byte) /\ Len(Word(Len(v))) = WordLen
            BY <3>1, WordBytes
        <3> QED
            BY <2>1, <3>2, ConcatProperties
    <2>4. ReadString(buf, pos) = Got(v, pos + (WordLen + Len(v))) \/ type = "bytes"
        BY <2>1, <2>2 DEF ReadString, Got
    <2>5. Read(type, buf, pos) = Got(v, pos + (WordLen + Len(v)))
        BY <1>4, <2>1, <2>2, <2>4 DEF Read
    <2> QED
        BY <1>2, <2>3, <2>5 DEF ReadField
<1> QED
    BY <1>3, <1>4

-----------------------------------------------------------------------------
\* Part after part.

\* FlattenSeq puts one part behind the other.
LEMMA FlattenEffect ==
    ASSUME NEW q \in Seq(Seq(Byte))
    PROVE  \E h \in [0..Len(q) -> Seq(Byte)] :
               h[0] = <<>> /\ h[Len(q)] = FlattenSeq(q) /\ \A i \in 1..Len(q) : h[i] = h[i - 1] \o q[i]
<1>1. PICK n \in Nat : n = Len(q)
    BY LenProperties
<1>2. \A i \in 1..n : q[i] \in Seq(Byte)
    BY <1>1, ElementOfSeq
<1>3. PICK step : step = [p \in (1..n) \X Seq(Byte) |-> p[2] \o q[p[1]]]
    OBVIOUS
<1>4. step \in [(1..n) \X Seq(Byte) -> Seq(Byte)] /\ \A i \in 1..n, s \in Seq(Byte) : step[<<i, s>>] = s \o q[i]
    <2>1. ASSUME NEW p \in (1..n) \X Seq(Byte) PROVE p[2] \o q[p[1]] \in Seq(Byte)
        <3>1. p[2] \in Seq(Byte) /\ q[p[1]] \in Seq(Byte)
            BY <1>2
        <3> QED
            BY <3>1, ConcatProperties
    <2> QED
        BY <1>3, <2>1
<1>5. <<>> \in Seq(Byte)
    BY EmptySeq
<1>6. PICK h \in [0..n -> Seq(Byte)] : Follows(h, <<>>, step, n)
    BY <1>4, <1>5, FunctionByRecursion
<1>7. ASSUME NEW i \in 1..n PROVE h[i] = h[i - 1] \o q[i]
    <2>1. i - 1 \in 0..n
        OBVIOUS
    <2>2. h[i - 1] \in Seq(Byte)
        BY <1>6, <2>1
    <2>3. h[i] = step[<<i, h[i - 1]>>]
        BY <1>6 DEF Follows
    <2> QED
        BY <1>4, <2>2, <2>3
<1>8. h[0] = <<>>
    BY <1>6 DEF Follows
<1>9. CASE n = 0
    <2>1. q = <<>>
        BY <1>1, <1>9, EmptySeq
    <2>2. FlattenSeq(q) = <<>>
        BY <1>1, <1>9, <2>1 DEF FlattenSeq
    <2> QED
        BY <1>1, <1>6, <1>7, <1>8, <1>9, <2>2
<1>10. CASE n # 0
    <2>1. PICK f : f = [i \in 1..n |-> h[i]]
        OBVIOUS
    <2>2. ASSUME NEW i \in 1..n PROVE f[i] = IF i = 1 THEN q[i] ELSE f[i - 1] \o q[i]
        <3>1. CASE i = 1
            <4>1. i - 1 = 0
                BY <3>1
            <4>2. h[i] = <<>> \o q[i]
                BY <1>7, <1>8, <4>1, Zenon
            <4>3. f[i] = <<>> \o q[i]
                BY <2>1, <4>2, Zenon
            <4> QED
                BY <1>2, <3>1, <4>3, ConcatEmptySeq
        <3>2. CASE i # 1
            <4>1. i - 1 \in 1..n
                BY <3>2
            <4> QED
                BY <1>7, <2>1, <3>2, <4>1
        <3> QED
            BY <3>1, <3>2
    <2>3. f = [i \in 1..n |-> IF i = 1 THEN q[i] ELSE f[i - 1] \o q[i]]
        BY <2>1, <2>2
    <2> DEFINE g == CHOOSE x : x = [i \in 1..n |-> IF i = 1 THEN q[i] ELSE x[i - 1] \o q[i]]
    <2>4. FlattenSeq(q) = g[n]
        BY <1>1, <1>10 DEF FlattenSeq
    <2>5. g = [i \in 1..n |-> IF i = 1 THEN q[i] ELSE g[i - 1] \o q[i]]
        BY <2>3
    <2> HIDE DEF g
    <2>6. PICK T : T = {i \in 0..n : i = 0 \/ g[i] = h[i]}
        OBVIOUS
    <2>7. ASSUME NEW i \in 1..n, i - 1 \in T PROVE i \in T
        <3>1. i \in 0..n
            OBVIOUS
        <3>2. CASE i = 1
            <4>1. g[i] = q[i]
                BY <2>5, <3>2
            <4>2. h[i] = q[i]
                BY <2>1, <2>2, <3>2
            <4> QED
                BY <2>6, <3>1, <4>1, <4>2
        <3>3. CASE i # 1
            <4>1. g[i - 1] = h[i - 1]
                BY <2>6, <2>7, <3>3
            <4>2. g[i] = g[i - 1] \o q[i]
                BY <2>5, <3>3
            <4> QED
                BY <1>7, <2>6, <3>1, <4>1, <4>2
        <3> QED
            BY <3>2, <3>3
    <2>8. 0 \in T
        BY <2>6
    <2>9. 0..n \subseteq T
        BY <2>7, <2>8, IntervalInduction
    <2>10. g[n] = h[n]
        BY <1>10, <2>6, <2>9
    <2> QED
        BY <1>1, <1>6, <1>7, <1>8, <2>4, <2>10
<1> QED
    BY <1>9, <1>10

\* Where each part of a sequence of parts begins, and that it is there.
Begins(at, buf, pos, q) ==
    /\ at \in [0..Len(q) -> Nat] /\ at[0] = pos /\ at[Len(q)] = pos + Len(FlattenSeq(q))
    /\ \A i \in 1..Len(q) : at[i] = at[i - 1] + Len(q[i]) /\ Holds(buf, at[i - 1], q[i])

LEMMA HoldsEach ==
    ASSUME NEW buf \in Seq(Byte), NEW pos, NEW q \in Seq(Seq(Byte)), Holds(buf, pos, FlattenSeq(q))
    PROVE  \E at : Begins(at, buf, pos, q)
<1>1. PICK n \in Nat : n = Len(q)
    BY LenProperties
<1>2. PICK h \in [0..n -> Seq(Byte)] :
          h[0] = <<>> /\ h[n] = FlattenSeq(q) /\ \A i \in 1..n : h[i] = h[i - 1] \o q[i]
    BY <1>1, FlattenEffect
<1>3. \A i \in 1..n : q[i] \in Seq(Byte) /\ i - 1 \in 0..n /\ i \in 0..n
    BY <1>1, ElementOfSeq
<1>4. PICK at : at = [i \in 0..n |-> pos + Len(h[i])]
    OBVIOUS
<1>5. pos \in Nat
    BY DEF Holds
<1>6. \A i \in 0..n : Len(h[i]) \in Nat
    BY <1>2, LenProperties
<1>7. at \in [0..n -> Nat]
    BY <1>4, <1>5, <1>6
<1>8. at[0] = pos /\ at[n] = pos + Len(FlattenSeq(q))
    <2>1. Len(h[0]) = 0
        BY <1>2, EmptySeq
    <2>2. 0 \in 0..n /\ n \in 0..n
        OBVIOUS
    <2>3. at[0] = pos + 0 /\ at[n] = pos + Len(FlattenSeq(q))
        BY <1>2, <1>4, <2>1, <2>2
    <2> QED
        BY <1>5, <2>3
<1>9. PICK T : T = {k \in 0..n : Holds(buf, pos, h[n - k])}
    OBVIOUS
<1>10. 0 \in T
    <2>1. n - 0 = n
        OBVIOUS
    <2> QED
        BY <1>2, <1>9, <2>1
<1>11. ASSUME NEW k \in 1..n, k - 1 \in T PROVE k \in T
    <2>1. PICK i \in 1..n : i = n - (k - 1) /\ i - 1 = n - k
        OBVIOUS
    <2>2. Holds(buf, pos, h[i])
        BY <1>9, <1>11, <2>1
    <2>3. h[i] = h[i - 1] \o q[i] /\ h[i - 1] \in Seq(Byte) /\ q[i] \in Seq(Byte)
        BY <1>2, <1>3
    <2>4. Holds(buf, pos, h[i - 1])
        BY <2>2, <2>3, HoldsParts
    <2> QED
        BY <1>9, <2>1, <2>4
<1>12. 0..n \subseteq T
    BY <1>10, <1>11, IntervalInduction
<1>13. ASSUME NEW i \in 1..n PROVE at[i] = at[i - 1] + Len(q[i]) /\ Holds(buf, at[i - 1], q[i])
    <2>1. n - i \in T /\ n - (n - i) = i
        BY <1>12
    <2>2. Holds(buf, pos, h[i])
        BY <1>9, <2>1
    <2>3. h[i] = h[i - 1] \o q[i] /\ h[i - 1] \in Seq(Byte) /\ q[i] \in Seq(Byte)
        BY <1>2, <1>3
    <2>4. Holds(buf, pos + Len(h[i - 1]), q[i])
        BY <2>2, <2>3, HoldsParts
    <2>5. Len(h[i]) = Len(h[i - 1]) + Len(q[i]) /\ Len(q[i]) \in Nat /\ Len(h[i - 1]) \in Nat
        BY <1>3, <1>6, <2>3, ConcatProperties, LenProperties
    <2>6. \A x, y \in Nat : pos + (x + y) = (pos + x) + y
        BY <1>5
    <2> QED
        BY <1>3, <1>4, <2>4, <2>5, <2>6, Zenon
<1> QED
    BY <1>1, <1>7, <1>8, <1>13 DEF Begins

\* The values are what the writer of these fields can put.
SendableAll(fields, values) ==
    /\ DOMAIN fields = DOMAIN values
    /\ \A i \in DOMAIN fields : Sendable(fields[i], values[i])
Parts(fields, values) == [i \in DOMAIN fields |-> Put(fields[i], values[i])]

LEMMA PartsType ==
    ASSUME NEW S, NEW fields \in Seq(S), NEW values, SendableAll(fields, values)
    PROVE  /\ Parts(fields, values) \in Seq(Seq(Byte)) /\ Len(Parts(fields, values)) = Len(fields)
           /\ EncodeModel(fields, values) = FlattenSeq(Parts(fields, values))
           /\ EncodeModel(fields, values) \in Seq(Byte)
<1>1. PICK n \in Nat : n = Len(fields) /\ DOMAIN fields = 1..n
    BY LenProperties
<1>2. PICK q : q = Parts(fields, values)
    OBVIOUS
<1>3. ASSUME NEW i \in 1..n PROVE Put(fields[i], values[i]) \in Seq(Byte)
    BY <1>1, PutBytes DEF SendableAll
<1>4. q \in [1..n -> Seq(Byte)]
    BY <1>1, <1>2, <1>3 DEF Parts
<1>5. q \in Seq(Seq(Byte)) /\ Len(q) = n
    BY <1>4, SeqDef
<1>6. EncodeModel(fields, values) = FlattenSeq(q)
    BY <1>2 DEF EncodeModel, Parts
<1>7. FlattenSeq(q) \in Seq(Byte)
    <2>1. PICK h \in [0..n -> Seq(Byte)] : h[n] = FlattenSeq(q)
        BY <1>5, FlattenEffect
    <2>2. n \in 0..n
        OBVIOUS
    <2> QED
        BY <2>1, <2>2
<1> QED
    BY <1>1, <1>2, <1>5, <1>6, <1>7

\* What a decoder makes of one more field.
NextField(type, buf, before) ==
    IF ~before.ok THEN before
    ELSE [ok |-> ReadField(type, buf, before.pos).ok,
          values |-> Append(before.values, ReadField(type, buf, before.pos).value),
          pos |-> ReadField(type, buf, before.pos).pos]
Decoded(values, pos) == [ok |-> TRUE, values |-> values, pos |-> pos]

LEMMA CutGrows ==
    ASSUME NEW S, NEW q \in Seq(S), NEW i \in 1..Len(q)
    PROVE  Append(SubSeq(q, 1, i - 1), q[i]) = SubSeq(q, 1, i)
<1>1. Len(q) \in Nat /\ i - 1 \in 0..Len(q)
    BY LenProperties
<1>2. PICK n \in Nat : n = Len(q)
    BY <1>1
<1>3. PICK p : p = SubSeq(q, 1, i - 1)
    OBVIOUS
<1>4. p \in Seq(S) /\ Len(p) = i - 1 /\ \A k \in 1..(i - 1) : p[k] = q[k]
    BY <1>2, <1>3
<1>5. PICK r : r = SubSeq(q, 1, i)
    OBVIOUS
<1>6. r \in Seq(S) /\ Len(r) = i /\ \A k \in 1..i : r[k] = q[k]
    BY <1>2, <1>5
<1>7. q[i] \in S
    BY ElementOfSeq
<1>8. PICK a : a = Append(p, q[i])
    OBVIOUS
<1>9. a \in Seq(S) /\ Len(a) = i /\ a[i] = q[i] /\ \A k \in 1..(i - 1) : a[k] = p[k]
    BY <1>2, <1>4, <1>7, <1>8
<1>10. \A k \in 1..i : a[k] = r[k]
    <2>1. \A k \in 1..i : k = i \/ k \in 1..(i - 1)
        BY <1>2
    <2> QED
        BY <1>4, <1>6, <1>9, <2>1
<1>11. a = r
    BY <1>6, <1>9, <1>10, SeqEqual
<1> QED
    BY <1>3, <1>5, <1>8, <1>11

\* A generated decoder, put before what the writer wrote, reads every field and
\* stops behind the last.
LEMMA DecodeEffect ==
    ASSUME NEW buf \in Seq(Byte), NEW start, NEW S, NEW fields \in Seq(S), NEW V, NEW values \in Seq(V),
           SendableAll(fields, values), Holds(buf, start, EncodeModel(fields, values))
    PROVE  DecodeFrom(fields, buf, start) = Decoded(values, start + Len(EncodeModel(fields, values)))
<1>1. PICK n \in Nat : n = Len(fields) /\ n = Len(values) /\ DOMAIN fields = 1..n /\ DOMAIN values = 1..n
    BY LenProperties DEF SendableAll
<1>2. PICK q : q = Parts(fields, values)
    OBVIOUS
<1>3. q \in Seq(Seq(Byte)) /\ Len(q) = n /\ EncodeModel(fields, values) = FlattenSeq(q)
    BY <1>1, <1>2, PartsType
<1>4. PICK at : Begins(at, buf, start, q)
    BY <1>3, HoldsEach
<1>5. ASSUME NEW i \in 1..n PROVE ReadField(fields[i], buf, at[i - 1]) = Got(values[i], at[i])
    <2>1. q[i] = Put(fields[i], values[i]) /\ Sendable(fields[i], values[i])
        BY <1>1, <1>2 DEF Parts, SendableAll
    <2> QED
        BY <1>3, <1>4, <2>1, HoldsField DEF Begins
<1>6. PICK g : g = [i \in 0..n |-> Decoded(SubSeq(values, 1, i), at[i])]
    OBVIOUS
<1>7. g[0] = Decoded(<<>>, start)
    <2>1. SubSeq(values, 1, 0) = <<>>
        BY SubSeqEmpty
    <2>2. g[0] = Decoded(SubSeq(values, 1, 0), at[0])
        BY <1>6
    <2> QED
        BY <1>3, <1>4, <2>1, <2>2, Zenon DEF Begins
<1>8. g[n] = Decoded(values, start + Len(EncodeModel(fields, values)))
    <2>1. SubSeq(values, 1, n) = values
        BY <1>1, SubSeqFull
    <2>2. n \in 0..n
        OBVIOUS
    <2> QED
        BY <1>3, <1>4, <1>6, <2>1, <2>2 DEF Begins
<1>9. ASSUME NEW i \in 1..n PROVE g[i] = NextField(fields[i], buf, g[i - 1])
    <2>1. i - 1 \in 0..n /\ i \in 0..n
        OBVIOUS
    <2>2. g[i - 1] = Decoded(SubSeq(values, 1, i - 1), at[i - 1]) /\ g[i] = Decoded(SubSeq(values, 1, i), at[i])
        BY <1>6, <2>1
    <2>3. Append(SubSeq(values, 1, i - 1), values[i]) = SubSeq(values, 1, i)
        BY <1>1, CutGrows
    <2>4. PICK p : p = SubSeq(values, 1, i - 1)
        OBVIOUS
    <2>5. NextField(fields[i], buf, Decoded(p, at[i - 1])) = Decoded(Append(p, values[i]), at[i])
        <3>1. PICK read : read = ReadField(fields[i], buf, at[i - 1])
            OBVIOUS
        <3>2. PICK v, end : v = values[i] /\ end = at[i]
            OBVIOUS
        <3>3. read = Got(v, end)
            BY <1>5, <3>1, <3>2, Zenon
        <3>4. read.ok /\ read.value = v /\ read.pos = end
            BY <3>3 DEF Got
        <3> QED
            BY <3>1, <3>2, <3>4 DEF NextField, Decoded
    <2> QED
        BY <2>2, <2>3, <2>4, <2>5
<1>10. g = [i \in 0..n |-> IF i = 0 THEN Decoded(<<>>, start) ELSE NextField(fields[i], buf, g[i - 1])]
    <2>1. g = [i \in 0..n |-> g[i]]
        BY <1>6
    <2>2. \A i \in 0..n : i = 0 \/ i \in 1..n
        OBVIOUS
    <2>3. \A i \in 0..n : g[i] = IF i = 0 THEN Decoded(<<>>, start) ELSE NextField(fields[i], buf, g[i - 1])
        BY <1>7, <1>9, <2>2
    <2> QED
        BY <2>1, <2>3
<1> DEFINE b == CHOOSE f : f = [i \in 0..n |->
           IF i = 0 THEN Decoded(<<>>, start) ELSE NextField(fields[i], buf, f[i - 1])]
<1>11. DecodeFrom(fields, buf, start) = b[n]
    BY <1>1 DEF DecodeFrom, NextField, Decoded
<1>12. b = [i \in 0..n |-> IF i = 0 THEN Decoded(<<>>, start) ELSE NextField(fields[i], buf, b[i - 1])]
    BY <1>10
<1> HIDE DEF b
<1>13. PICK T : T = {i \in 0..n : b[i] = g[i]}
    OBVIOUS
<1>14. 0 \in T
    BY <1>7, <1>12, <1>13
<1>15. ASSUME NEW i \in 1..n, i - 1 \in T PROVE i \in T
    <2>1. i \in 0..n /\ i # 0 /\ b[i - 1] = g[i - 1]
        BY <1>13, <1>15
    <2>2. b[i] = NextField(fields[i], buf, b[i - 1])
        BY <1>12, <2>1
    <2> QED
        BY <1>9, <1>13, <2>1, <2>2
<1>16. 0..n \subseteq T
    BY <1>14, <1>15, IntervalInduction
<1>17. b[n] = g[n]
    BY <1>13, <1>16
<1> QED
    BY <1>8, <1>11, <1>17

\* A digit taken off again.
Digit(m, b, v) == m \in Nat /\ b \in Byte /\ v = m * 256 + b
LEMMA DigitBack ==
    ASSUME NEW m, NEW b, NEW v, Digit(m, b, v)
    PROVE  v \div 256 = m /\ v % 256 = b
BY DEF Digit, Byte

\* The other way round: a word that is read is the word that was there.
LEMMA WordOfValue ==
    ASSUME NEW w \in Seq(Byte), Len(w) = WordLen
    PROVE  Value(w) \in U32 /\ Word(Value(w)) = w
<1>1. WordLen \in Nat /\ WordLen > 0
    BY WordLenPositive
<1>2. \A i \in 1..WordLen : w[i] \in Byte
    BY ElementOfSeq
<1>3. PICK step : step = [p \in (1..WordLen) \X Nat |-> p[2] * 256 + w[WordLen + 1 - p[1]]]
    OBVIOUS
<1>4. \A i \in 1..WordLen : WordLen + 1 - i \in 1..WordLen
    BY <1>1
<1>5. step \in [(1..WordLen) \X Nat -> Nat] /\ \A i \in 1..WordLen, v \in Nat : step[<<i, v>>] = v * 256 + w[WordLen + 1 - i]
    <2>1. ASSUME NEW i \in 1..WordLen, NEW v \in Nat PROVE v * 256 + w[WordLen + 1 - i] \in Nat
        <3>1. PICK b \in Byte : b = w[WordLen + 1 - i]
            BY <1>2, <1>4
        <3>2. v * 256 + b \in Nat
            BY DEF Byte
        <3> QED
            BY <3>1, <3>2
    <2>2. step \in [(1..WordLen) \X Nat -> Nat]
        <3>1. ASSUME NEW p \in (1..WordLen) \X Nat PROVE p[2] * 256 + w[WordLen + 1 - p[1]] \in Nat
            BY <2>1
        <3> QED
            BY <1>3, <3>1
    <2> QED
        BY <1>3, <2>2
<1>6. PICK h \in [0..WordLen -> Nat] : Follows(h, 0, step, WordLen)
    BY <1>1, <1>5, FunctionByRecursion
<1>7. h[0] = 0 /\ \A i \in 1..WordLen : h[i] = h[i - 1] * 256 + w[WordLen + 1 - i]
    <2>1. \A i \in 1..WordLen : i - 1 \in 0..WordLen
        BY <1>1
    <2>2. h[0] = 0 /\ \A i \in 1..WordLen : h[i] = step[<<i, h[i - 1]>>]
        BY <1>6 DEF Follows
    <2>3. \A i \in 1..WordLen : h[i - 1] \in Nat
        BY <1>6, <2>1
    <2>4. ASSUME NEW i \in 1..WordLen PROVE h[i] = h[i - 1] * 256 + w[WordLen + 1 - i]
        <3>1. PICK v \in Nat : v = h[i - 1]
            BY <2>3
        <3>2. step[<<i, v>>] = v * 256 + w[WordLen + 1 - i]
            BY <1>5
        <3> QED
            BY <2>2, <3>1, <3>2
    <2> QED
        BY <2>2, <2>4
<1>8. h = [i \in 0..WordLen |-> IF i = 0 THEN 0 ELSE h[i - 1] * 256 + w[WordLen + 1 - i]]
    <2>1. \A i \in 0..WordLen : i = 0 \/ i \in 1..WordLen
        BY <1>1
    <2> QED
        BY <1>6, <1>7, <2>1
<1> DEFINE Tops(f) == f = [i \in 0..WordLen |-> IF i = 0 THEN 0 ELSE f[i - 1] * 256 + w[WordLen + 1 - i]]
<1> DEFINE g == CHOOSE f : Tops(f)
<1>9. g = [i \in 0..WordLen |-> IF i = 0 THEN 0 ELSE g[i - 1] * 256 + w[WordLen + 1 - i]]
    <2>1. Tops(h)
        BY <1>8
    <2>2. Tops(g)
        <3> HIDE DEF Tops
        <3> QED
            BY <2>1
    <2> QED
        BY <2>2
<1>10. Value(w) = g[WordLen]
    BY DEF Value
<1> HIDE DEF g
<1>11. PICK T : T = {i \in 0..WordLen : g[i] = h[i]}
    OBVIOUS
<1>12. 0 \in T
    BY <1>1, <1>7, <1>9, <1>11
<1>13. ASSUME NEW i \in 1..WordLen, i - 1 \in T PROVE i \in T
    <2>1. i \in 0..WordLen /\ i # 0
        BY <1>1
    <2> QED
        BY <1>7, <1>9, <1>11, <1>13, <2>1
<1>14. 0..WordLen \subseteq T
    BY <1>1, <1>12, <1>13, IntervalInduction
<1>15. PICK n \in Nat : n = Value(w) /\ n = h[WordLen]
    BY <1>1, <1>6, <1>10, <1>11, <1>14
<1>16. PICK a : a = Above(n) /\ CountsDown(a, n)
    BY AboveType
<1>17. PICK D : D = {i \in 0..WordLen : a[i] = h[WordLen - i]}
    OBVIOUS
<1>18. 0 \in D
    BY <1>1, <1>15, <1>16, <1>17 DEF CountsDown
<1>19. ASSUME NEW i \in 1..WordLen, i - 1 \in D
       PROVE  i \in D /\ a[i - 1] % 256 = w[i]
    <2>1. PICK j \in 1..WordLen : j = WordLen - (i - 1) /\ WordLen + 1 - j = i /\ j - 1 = WordLen - i
        BY <1>1
    <2>2. a[i - 1] = h[j]
        BY <1>17, <1>19, <2>1
    <2>3. h[j] = h[j - 1] * 256 + w[i] /\ h[j - 1] \in Nat /\ w[i] \in Byte
        BY <1>1, <1>2, <1>6, <1>7, <2>1
    <2>4. a[i] = a[i - 1] \div 256
        BY <1>16 DEF CountsDown
    <2>5. a[i] = h[j - 1] /\ a[i - 1] % 256 = w[i]
        <3>1. Digit(h[j - 1], w[i], a[i - 1])
            BY <2>2, <2>3 DEF Digit
        <3>2. a[i - 1] \div 256 = h[j - 1] /\ a[i - 1] % 256 = w[i]
            BY <3>1, DigitBack
        <3> QED
            BY <2>4, <3>2
    <2> QED
        BY <1>1, <1>17, <2>1, <2>5
<1>20. 0..WordLen \subseteq D
    BY <1>1, <1>18, <1>19, IntervalInduction
<1>21. a[WordLen] = 0
    BY <1>1, <1>7, <1>17, <1>20
<1>22. \A i \in 1..WordLen : i - 1 \in 0..WordLen /\ Word(n)[i] = a[i - 1] % 256
    BY <1>1, <1>16 DEF Word
<1>23. \A i \in 1..WordLen : Word(n)[i] = w[i]
    BY <1>19, <1>20, <1>22
<1>24. Word(n) = w
    BY <1>23, WordBytes, SeqEqual
<1> QED
    BY <1>15, <1>16, <1>21, <1>24 DEF U32
=============================================================================
