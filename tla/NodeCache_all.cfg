\* Everything that can go wrong with files and imports, one write, and the end of it.
SPECIFICATION Spec
CONSTANTS
    Names = {1, 2, 3}
    Docs <- OneDoc
    LibFiles <- OneDir
    Contents <- MixedContents
    LibPathChoices <- OneDirPaths
    Workers = {w1, w2}
    Nobody = Nobody
    Nothing = Nothing
    MaxClock = 1
INVARIANTS RecordedNotNewer FreshDependencies CompleteMeansCached
PROPERTIES NeverBackwards UpdatesEnd
CHECK_DEADLOCK FALSE
