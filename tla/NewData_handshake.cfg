SPECIFICATION NewDataSpec
CONSTANTS
    Lists <- MCLists
    Entries <- MCRawEntries
    BrotliEntries <- MCBrotliEntries
    BufferSize = 1
    Failing = {"header", "command", "write", "data"}
INVARIANT NoLostWakeup
INVARIANT OwnsWriter
INVARIANT SectionsInOrder
INVARIANT SuccessMeansJoined
PROPERTY ShortTerminates
CHECK_DEADLOCK FALSE
