CONSTANTS
  FieldCount = 2
  Time = 2
  Value = {0, 1, 2}
  UnknownId = {gear, mode}
  gear = gear
  mode = mode
  page = page
  MaxUnknown = 1
  Message <- MCMessage
  Reader = {page}
  Absent = Absent
  Cut = Cut
  NoText = NoText
  Faults = FALSE
SPECIFICATION LiveSpec
INVARIANTS AnswersOnlyDecoded
