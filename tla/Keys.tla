---------------------------------- MODULE Keys ----------------------------------
(***************************************************************************)
(* Go visits the entries of a map in no order at all; where the order can  *)
(* be seen, the code goes through the sorted keys.                         *)
(***************************************************************************)
EXTENDS Naturals, FiniteSets

\* The numbers of a finite set, ascending.
SortedKeys(S) ==
    CHOOSE keys \in [1..Cardinality(S) -> S] :
        \A i, j \in 1..Cardinality(S) : i < j => keys[i] < keys[j]
=============================================================================
