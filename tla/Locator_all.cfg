\* Every preorder of four nodes over two lines and two columns.
SPECIFICATION Spec
CONSTANTS
    Points <- MCPoints
    Ranges <- MCRanges
    Missing <- MCMissing
    MaxNodes = 4
INVARIANTS Innermost KeptIsWithin
CHECK_DEADLOCK FALSE
