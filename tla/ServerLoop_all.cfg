\* Three messages; the client answers calls when it likes.
SPECIFICATION Spec
CONSTANTS
    p1 = p1
    p2 = p2
    LibPaths <- TwoPaths
    NoPaths = NoPaths
    FirstId = 0
    Traffic <- MCTraffic
    MaxMessages = 3
INVARIANTS TypeOK RepliesInOrder SilenceIsExcused PendingMatches
PROPERTIES CallsFinish RequestsHandled LibPathsAnnounced
CHECK_DEADLOCK FALSE
