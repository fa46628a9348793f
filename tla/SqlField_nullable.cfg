CONSTANTS
    None = None
    Precisions = {None, 3}
    Scales <- MCScales
    OtherWords = {"UUID"}
    FieldNames = {"a"}
    TzSpecs = {"With", "Without", "Unspecified"}
    NestOther = FALSE
    FallbackTypes <- MCFallback
    Dialects <- MCKeyBackends
    Depth = 0
    ArrowLeaves = {"Int32"}
SPECIFICATION Spec
INVARIANT NonNullableKept
CHECK_DEADLOCK FALSE
