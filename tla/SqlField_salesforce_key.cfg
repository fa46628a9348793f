CONSTANTS
    None = None
    Precisions = {None, 3}
    Scales <- MCScales
    OtherWords = {"UUID"}
    FieldNames = {"a"}
    TzSpecs = {"With", "Without", "Unspecified"}
    NestOther = FALSE
    FallbackTypes <- MCFallback
    Dialects <- MCSharedPgKey
    Depth = 1
    ArrowLeaves = {"Int32"}
SPECIFICATION Spec
INVARIANT SpecificKeyRespected
CHECK_DEADLOCK FALSE
