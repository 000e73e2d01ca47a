SPECIFICATION Spec
CONSTANTS
  Partitions <- MCPartitions
  Images <- MCImages
  Junk = "junk"
  Patches <- MCPatches
  Chunks = 3
  Sha1s = TRUE
  InitialImage <- MCInitialImage
  Room = 7
  Litter <- MCLitter
  Faults = {"kill"}
  MaxFaults = 2
INVARIANTS
  Recoverable
