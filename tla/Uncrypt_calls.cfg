SPECIFICATION Spec
CONSTANTS
  WINDOW_SIZE = 5
  Layouts <- MCLayouts
  Commands <- MCCommands
  Room = 2
  Faults = {"io", "client", "power"}
  MaxFaults = 1
  MaxCalls = 3
INVARIANTS PlainText MapRight DoneMeansDone
PROPERTIES Answered
CHECK_DEADLOCK FALSE
