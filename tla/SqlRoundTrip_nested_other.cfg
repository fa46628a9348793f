CONSTANTS
    None = None
    Dialects <- MCAllBackends
    Precisions = {None, 0, 3}
    Scales <- MCScales
    OtherWords = {}
    FieldNames = {"a"}
    Depth = 1
    TzSpecs = {"With", "Without", "Unspecified"}
    NestOther = TRUE
    ArrowLeaves <- MCArrowLeaves
SPECIFICATION Spec
INVARIANT RoundTrip
CHECK_DEADLOCK FALSE
