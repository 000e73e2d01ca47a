SPECIFICATION Spec
CONSTANTS
  Partitions <- MCPartitions
  Images <- MCImages
  Junk = "junk"
  Patches <- MCPatches
  Chunks = 3
  Sha1s = TRUE
  InitialImage <- MCInitialImage
  Room = 7
  Litter <- MCLitter
  Faults = {"io", "flash", "patch", "kill", "power"}
  MaxFaults = 1
INVARIANTS
  Recoverable
  SuccessMeansTarget
PROPERTIES
  EventuallyPatched
