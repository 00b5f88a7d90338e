CONSTANTS
  x = x
  y = y
  nl = nl
  v1 = v1
  v2 = v2
  damaged = damaged
  Size = 4
  LineSize = 4
  Byte = {x, y, nl}
  newline = nl
  Line <- MCLine
  OutLen = {0, 1, 3, 5, 6}
  Logger = {t1, t2}
  MaxBytes = 3
  LineLen = {1, 2}
  MaxLines = 5
  Nobody = Nobody
  DiskFaults = TRUE
  Image = {v1, v2, damaged}
  Whole = {v1, v2}
  Shipped = v1
  Broken = Broken
  Chunks = 2
  OtaFaults = TRUE
SPECIFICATION DeviceSpec
CONSTRAINT Followed
INVARIANTS NewestAreKept FilesAreBounded RunningIsWhole
PROPERTIES ImplementsLastBytes StartsChosen
