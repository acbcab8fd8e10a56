------------------------------- MODULE MCOutbox -------------------------------
(* Small frame sets for the runs of Outbox. *)
EXTENDS Outbox

Of(kind, size) == [kind |-> kind, size |-> size]

\* One frame of each role; the ITEM alone spends the quantum of 2.
SmallFrames == {Of("REQUEST", 1), Of("ITEM", 2), Of("CANCEL", 1)}

\* Frames that each spend the whole quantum.
WideFrames == {Of("REQUEST", 2), Of("ITEM", 2)}
=============================================================================
