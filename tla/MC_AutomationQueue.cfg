CONSTANTS
  speed = speed
  soc = soc
  Fields <- MCFields
  Capacity = 4
SPECIFICATION FairQueueSpec
INVARIANTS SecondSendFits
PROPERTIES KeepsRequests RequestIsEvaluated
