CONSTANTS
  t1 = t1
  t2 = t2
  kitchen = kitchen
  garage = garage
  httpd = httpd
  None = None
  Task <- MCTask
  Bridge <- MCOneBridge
  Attempts = 2
  Faults = TRUE
SPECIFICATION FairHueSpec
INVARIANTS WindowIsOne PairedIsStored
PROPERTIES CancelBetweenStops WindowEnds
