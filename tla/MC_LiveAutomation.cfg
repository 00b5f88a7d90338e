CONSTANTS
  FieldCount = 3
  Time = 3
  Value = {0, 1}
  UnknownId = {gear}
  gear = gear
  MaxUnknown = 1
  Message <- MCMessage
  Reader = {}
  Absent = Absent
  Cut = Cut
  NoText = NoText
  Faults = FALSE
  Fields <- MCFields
  Capacity = 2
SPECIFICATION LASpec
INVARIANTS EvaluatesLatest
