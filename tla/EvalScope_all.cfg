\* Every tree of up to four nodes, one variable and one import.
SPECIFICATION Spec
CONSTANTS
    Ids = {"x"}
    Imports = {"lib"}
    MaxNodes = 4
INVARIANTS ScopeIsLexical FailsForACause
CHECK_DEADLOCK FALSE
