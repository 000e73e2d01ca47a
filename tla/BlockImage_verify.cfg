SPECIFICATION Spec
CONSTANTS
  Blocks <- MCBlocks
  Contents <- MCContents
  Zero = "0"
  Junk = "junk"
  Source <- MCSource
  TransferLists <- WithOverlap
  InitialImages <- AnyImage
  InitialStashes <- AnyStash
  CacheBlocks = 8
  Faults = {"rot", "kill"}
  MaxFaults = 1
INVARIANTS
  VerifyPredicts
  OnlyVerifiedData
PROPERTIES
  VerifyReadOnly
