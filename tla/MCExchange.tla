------------------------------ MODULE MCExchange ------------------------------
\* Small schemas and payloads for Exchange.
EXTENDS Exchange

Lists == UNION {[1..n -> Types] : n \in 0..2}
\* A message that evolves in every way, and one that comes and goes.
SmallSchemas == [{2} -> Lists] \cup {(1 :> <<"u32">>) @@ (2 :> m) : m \in Lists} \cup {1 :> <<"u32">>}

SmallSamples == [u32 |-> <<0, 258>>, bytes |-> <<<<>>, <<200>>>>, string |-> <<<<>>, <<1>>>>]

\* No ctx block; one with a deadline and an allowance; one with a token.
SmallCtxs == {EmptyCtx, [EmptyCtx EXCEPT ![1] = 1, ![7] = 2], [EmptyCtx EXCEPT ![4] = <<1>>]}

\* A first byte of every sort and any few bytes after it; a ctx block of one
\* byte more than the ceiling, and one that fills it.
CtxOf(n) == <<64, 0, 0, n, 0>> \o [i \in 1..n |-> 0]
SmallForeign == {<<first>> \o rest : first \in {0, 6, 7, 8, 64, 65, 130},
                                     rest \in UNION {[1..n -> {0, 1, 200}] : n \in 0..6}}
        \cup {<<>>, CtxOf(MaxCtxLen), CtxOf(MaxCtxLen + 1)}
=============================================================================
