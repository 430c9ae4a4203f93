\* The parser against its grammar.
SPECIFICATION Spec
CONSTANT Dialects <- MCDialects
INVARIANTS TypeOK Sound Complete
PROPERTY Terminates
CHECK_DEADLOCK FALSE
