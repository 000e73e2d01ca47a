SPECIFICATION Spec
CONSTANTS
  Blocks <- MCBlocks
  Contents <- MCContents
  Zero = "0"
  Junk = "junk"
  Source <- MCSource
  TransferLists <- NonOverlapping
  InitialImages <- SourceOnly
  InitialStashes <- NoStash
  CacheBlocks = 2
  Faults = {"power"}
  MaxFaults = 3
INVARIANTS
  Resumable
  SpaceSuffices
