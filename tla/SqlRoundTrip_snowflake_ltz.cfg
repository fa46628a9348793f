CONSTANTS
    None = None
    Dialects = {"Snowflake"}
    Precisions = {None, 0, 3}
    Scales <- MCScales
    OtherWords = {"UUID"}
    FieldNames = {"a"}
    Depth = 0
    TzSpecs = {"Local"}
    NestOther = FALSE
    ArrowLeaves <- MCArrowLeaves
SPECIFICATION Spec
INVARIANT RoundTrip
CHECK_DEADLOCK FALSE
