SPECIFICATION PSpec
CONSTANTS
    RETRY_LIMIT = 4
    Room = 6
    Faults = {"power", "format", "unlink", "reboot", "misc", "cache"}
    MaxPower = 2
    MaxRequests = 2
INVARIANT JobSurvives
INVARIANT TriesBounded
INVARIANT BootsWhereAsked
PROPERTY NothingDropped
PROPERTY ResetOnlyWhenOwed
PROPERTY Settles
