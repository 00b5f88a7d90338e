SPECIFICATION FairBleSpec
CONSTANTS
  Table <- MCTable
  QueueMax = 2
  MaxNotes = 3
  NoTable = NoTable
  Faults = TRUE
INVARIANTS
  HandlesAreFresh
  ReadyIsSubscribed
  DecodesInOrder
PROPERTIES
  DiscoversOnce
  LinkSettles
  AdvertisingResumes
