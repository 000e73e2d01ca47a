SPECIFICATION SurplusSpec
CONSTANTS
    Lists <- MCLists
    Entries <- MCRawEntries
    BrotliEntries <- NoEntries
    BufferSize = 1
    Failing = {}
PROPERTY Terminates
CHECK_DEADLOCK FALSE
