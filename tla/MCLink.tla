-------------------------------- MODULE MCLink --------------------------------
(* Registries, configurations and inputs for the runs of Link. *)
EXTENDS Link

Both(x) == [s \in Side |-> x]
ByRole(x, y) == [s \in Side |-> IF s = "client" THEN x ELSE y]

Serving(shape, idle) ==
    [shape |-> shape, item |-> "reqItem", reply |-> "reply", idle |-> idle, served |-> TRUE]
Offering(m) == [void |-> "void", error |-> "error", credit |-> "credit", methods |-> [open |-> m]]
Opening(deadline, credit) ==
    [req |-> "open", ctx |-> [NoCtx EXCEPT !.deadline = deadline, !.credit = credit],
     packed |-> "plain"]

AlwaysPlain == Both({"plain"})
AnyCtx == Both(0)
NoCompressor == Both(FALSE)

\* One method of each streaming shape; the server stream is opened with or
\* without an allowance.
Streaming == [open |-> Serving("server_stream", 0), push |-> Serving("client_stream", 0),
              chat |-> Serving("bidi_stream", 0)]
StreamsRegistry == Both([Offering(Serving("unary", 0)) EXCEPT !.methods = Streaming])
StreamsOpenings ==
    ByRole({[Opening(0, 0) EXCEPT !.req = r] : r \in DOMAIN Streaming} \cup {Opening(0, 1)}, {})
\* An allowance of nothing, one a u32 just holds, one too many for it.
StreamsGrants == {<<0, 0>>, <<0, 2>>, <<1, 2>>}

\* Both sides call each other: a unary method each.  The client may compress
\* what it sends; the server has no compressor.
UnaryRegistry == Both(Offering(Serving("unary", 0)))
UnaryBothWays == ByRole({Opening(0, 0), [Opening(0, 0) EXCEPT !.packed = "squeezed"]}, {Opening(0, 0)})
ClientCompresses == ByRole(TRUE, FALSE)
ClientPacks == ByRole({"plain", "squeezed"}, {"plain"})

\* A unary method, a server stream that must be heard from and one that need not.
MixedMethods == [open |-> Serving("unary", 0), watch |-> Serving("server_stream", 1),
                 feed |-> Serving("server_stream", 0)]
MixedRegistry == Both([Offering(Serving("unary", 0)) EXCEPT !.methods = MixedMethods])
TimedOpenings ==
    ByRole({Opening(0, 0), Opening(1, 0), [Opening(0, 0) EXCEPT !.req = "watch"],
            [Opening(0, 0) EXCEPT !.req = "feed"], [Opening(2, 0) EXCEPT !.req = "feed"]}, {})

\* Two versions of one schema: the server has a lower ctx ceiling, took the
\* methods over with other types and shapes, no longer serves one of them, has
\* other ids for the system models and does not declare FRpcCredit.  Both
\* compress, and the client takes smaller bodies than the server sends.
Old == [unary  |-> Serving("unary", 0),
        upload |-> Serving("client_stream", 0),
        chat   |-> Serving("bidi_stream", 0),
        gone   |-> Serving("unary", 0),
        open   |-> Serving("bidi_stream", 0)]
New == [unary  |-> [Serving("unary", 0) EXCEPT !.reply = "reply2"],
        upload |-> [Serving("client_stream", 0) EXCEPT !.item = "reqItem2"],
        chat   |-> Serving("unary", 0),
        gone   |-> [Serving("unary", 0) EXCEPT !.served = FALSE],
        open   |-> Serving("bidi_stream", 0)]
SkewedRegistry ==
    ByRole([Offering(Serving("unary", 0)) EXCEPT !.methods = Old],
           [Offering(Serving("unary", 0)) EXCEPT !.methods = New, !.credit = Unsupported,
                                                !.void = "void2", !.error = "error2"])
SkewedGrants == {<<0, 1>>}
SkewedCtx == ByRole(2, 1)
SkewedOpenings ==
    ByRole({[req |-> r, ctx |-> [NoCtx EXCEPT !.len = l], packed |-> p] :
               r \in DOMAIN Old, l \in 0..2, p \in {"plain", "oversized"}} \cup {Opening(0, 1)}, {})
BothCompress == Both(TRUE)
ServerOversized == ByRole({"plain"}, {"plain", "squeezed", "oversized"})
=============================================================================
