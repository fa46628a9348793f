CONSTANTS
    None = None
    Dialects <- MCKeyBackends
    Precisions = {None, 3}
    Scales <- MCScales
    OtherWords = {"UUID"}
    FieldNames = {"a"}
    Depth = 1
    TzSpecs = {"With", "Without", "Unspecified"}
    NestOther = FALSE
    ArrowLeaves = {"Int32", "Utf8", "Decimal128", "Timestamp", "List"}
    FallbackTypes <- MCFallback
SPECIFICATION Spec
INVARIANTS SpecificKeyRespected
CHECK_DEADLOCK FALSE
