CONSTANTS
  Base = 4
  VarintMax = 4
  Wide = 128
  Narrow = 8
  Fixed64 = 1
  Fixed32 = 2
  Unsigned = {1}
  Signed = {2}
  Clock = {4}
  Flag = {3}
  MaxUnknown = 2
  Sendable <- MCSendable
  MaxLen = 6
  MaxItems = 2
SPECIFICATION WireSpec
INVARIANTS AcceptsMessages LastValueCounts ReadsWhatWasSent
CHECK_DEADLOCK FALSE
