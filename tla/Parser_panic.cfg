\* An unfinished text that makes the parser panic.
SPECIFICATION Spec
CONSTANT Dialects <- MCPanicking
INVARIANT NoPanic
CHECK_DEADLOCK FALSE
