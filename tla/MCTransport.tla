------------------------------ MODULE MCTransport ------------------------------
(* Frames for the runs of Transport. *)
EXTENDS Transport

CONSTANTS short, long, other

\* Two frames that do not fit the kernel's buffer of 2 and one that does.
ThreeSizes == short :> 1 @@ long :> 3 @@ other :> 3
\* One frame that fits and one that does not.
TwoSizes == short :> 1 @@ long :> 3
=============================================================================
