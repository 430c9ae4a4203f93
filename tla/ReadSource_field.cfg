SPECIFICATION Spec
CONSTANT Dialects <- FieldSources
INVARIANT HighlightsField
CHECK_DEADLOCK FALSE
