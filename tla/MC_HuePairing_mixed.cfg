CONSTANTS
  t1 = t1
  t2 = t2
  kitchen = kitchen
  garage = garage
  httpd = httpd
  None = None
  Task <- MCTask
  Bridge <- MCBridge
  Attempts = 2
  Faults = FALSE
SPECIFICATION HueSpec
INVARIANTS OnePairing
