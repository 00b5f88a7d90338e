CONSTANTS
  home = home
  shop = shop
  k1 = k1
  k2 = k2
  Ssid <- MCSsid
  Pass <- MCPass
  Entered <- MCEntered
  Empty = Empty
  Task = {t1}
  MaxRetry = 1
  MaxEvents = 2
  Faults = TRUE
SPECIFICATION WifiSpec
INVARIANTS SavesOnlyConnected
