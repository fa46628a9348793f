CONSTANTS
    None = None
    Dialects <- MCAllBackends
    Precisions = {None, 0, 3}
    Scales <- MCScales
    OtherWords = {"UUID"}
    FieldNames = {"a"}
    Depth = 1
    TzSpecs = {"With", "Without", "Unspecified"}
    NestOther = FALSE
    ArrowLeaves <- MCArrowLeaves
SPECIFICATION Spec
INVARIANTS RoundTrip
CHECK_DEADLOCK FALSE
