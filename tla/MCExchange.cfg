\* A u32 of two bytes; two messages, of which one evolves in every way.
CONSTANTS
    WordLen = 2
    Schemas <- SmallSchemas
    Samples <- SmallSamples
    Ctxs <- SmallCtxs
    Foreign <- SmallForeign
    MaxCtxLen = 20
SPECIFICATION Spec
CHECK_DEADLOCK FALSE
INVARIANTS VerdictIsPrefixTest SharedFieldsArrive CutIsSeen FrameCanonical TwinsAgree
