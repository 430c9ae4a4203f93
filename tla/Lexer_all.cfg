\* Texts of eleven dialects, up to twelve runes.
SPECIFICATION Spec
CONSTANT Dialects <- Texts
INVARIANTS RecognisesText Located
PROPERTY Returns
CHECK_DEADLOCK FALSE
