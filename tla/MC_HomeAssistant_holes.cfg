CONSTANTS
  bike1 = bike1
  bike2 = bike2
  Base <- MCBase
  Entered <- MCEntered
  Unset = Unset
  Entities = 2
  Faults = TRUE
SPECIFICATION HaSpec
INVARIANTS AnnouncedIsAlwaysThere
