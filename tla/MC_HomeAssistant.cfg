CONSTANTS
  bike1 = bike1
  bike2 = bike2
  Base <- MCBase
  Entered <- MCEntered
  Unset = Unset
  Entities = 1
  Faults = TRUE
SPECIFICATION FairHaSpec
INVARIANTS AnnouncedIsThere OfflineIsSaid
PROPERTIES SettingsTakeEffect
