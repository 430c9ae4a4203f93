\* Is an entry rebuilt when the imported file itself has changed?
SPECIFICATION Spec
CONSTANTS
    Names = {1, 2, 3}
    Docs <- OneDoc
    LibFiles <- OneDir
    Contents <- ChainContents
    LibPathChoices <- OneDirPaths
    Workers = {w1, w2}
    Nobody = Nobody
    Nothing = Nothing
    MaxClock = 1
INVARIANT FreshImport
CHECK_DEADLOCK FALSE
