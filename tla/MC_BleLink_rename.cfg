SPECIFICATION FairBleSpec
CONSTANTS
  Table <- MCTable
  QueueMax = 2
  MaxNotes = 3
  NoTable = NoTable
  Faults = TRUE
PROPERTIES
  NewNameIsShown
