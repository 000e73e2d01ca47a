SPECIFICATION SideloadSpec
CONSTANTS
  BlockSize = 2
  FileSize = 5
  Word = 8
  TIMEOUT = 3
  Versions = {1, 2}
  Faults = {"fetch", "change", "mount", "exit"}
  MaxFaults = 2
  MaxReads = 4
  MaxSessions = 2
INVARIANTS StableReads NothingLeft
PROPERTIES Returns
CHECK_DEADLOCK FALSE
