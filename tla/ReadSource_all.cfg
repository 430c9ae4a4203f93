SPECIFICATION Spec
CONSTANT Dialects <- Sources
INVARIANTS RejectsForACause KeepsBindings FreeVariables FindsReferences Highlights
CHECK_DEADLOCK FALSE
