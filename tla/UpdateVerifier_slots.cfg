CONSTANTS
  Slots = {0, 1}
  Blocks <- MCBlocks
  Faults = {"power", "service", "read", "write", "reboot", "misc", "image"}
  MaxFaults = 3
  MaxUpdates = 2
  CareMaps <- MCCareMaps
  Modes = {"enforcing", "eio", "skip", "unexpected"}
  thread_num = 2
SPECIFICATION Spec
INVARIANTS VerifiedOnly FallBack SplitRight
PROPERTIES ReachesGood
CHECK_DEADLOCK FALSE
