SPECIFICATION FairSpec
CONSTANTS
  Blocks <- MCBlocks
  Contents <- MCContents
  Zero = "0"
  Junk = "junk"
  Source <- MCSource
  TransferLists <- AllLists
  InitialImages <- SourceOnly
  InitialStashes <- NoStash
  CacheBlocks = 6
  Faults = {"io", "kill", "read"}
  MaxFaults = 2
INVARIANTS
  TypeOK
  Resumable
  SuccessMeansTarget
PROPERTIES
  CompletedStays
  EventuallyInstalled
  InstallsImage
