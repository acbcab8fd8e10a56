-------------------------------- MODULE CallIds --------------------------------
(***************************************************************************)
(* The allocator of call ids: every second id, in turn, round and round.   *)
(***************************************************************************)
EXTENDS Naturals, FiniteSetsExt

CONSTANT IdSpace    \* how many ids there are: 2^32 in the code

ASSUME IdSpaceEven == IdSpace \in Nat \ {0} /\ IdSpace % 2 = 0

FirstId(role) == IF role = "server" THEN 1 ELSE 0

NoId == IdSpace     \* CallIDAllocator.Allocate returned false

\* The candidates from `next` on, one per attempt, as places in the round.
Attempts == 0 .. (IdSpace - 1) \div 2
Candidate(next, attempt) == (next + 2 * attempt) % IdSpace

\* Mutant: an id is taken to be free when its turn comes.
Allocate_Blind(next, inUse) == [id |-> next, next |-> Candidate(next, 1)]
\* What Allocate returns and what it leaves in next.
Allocate(next, inUse) ==
    LET free == {k \in Attempts : Candidate(next, k) \notin inUse}
    IN IF free = {} THEN [id |-> NoId, next |-> next]
       ELSE [id |-> Candidate(next, Min(free)), next |-> Candidate(next, Min(free) + 1)]
=============================================================================
