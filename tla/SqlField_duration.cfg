CONSTANTS
    None = None
    Precisions = {None, 3}
    Scales <- MCScales
    OtherWords = {"UUID"}
    FieldNames = {"a"}
    TzSpecs = {"With", "Without", "Unspecified"}
    NestOther = FALSE
    FallbackTypes <- MCFallback
    Dialects <- MCKeyBackends
    Depth = 0
    ArrowLeaves <- MCFieldLeaves
SPECIFICATION Spec
INVARIANT FromFieldTotal
CHECK_DEADLOCK FALSE
