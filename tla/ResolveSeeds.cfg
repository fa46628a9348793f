CONSTANTS
    None = None
    Names = {"a", "b"}
    Exts <- MCExts
    Files <- MCFiles
    PropsIn <- MCPropsIn
SPECIFICATION Spec
INVARIANTS PropertiesUsedOnce RootOverrides ResolvedAll
CHECK_DEADLOCK FALSE
