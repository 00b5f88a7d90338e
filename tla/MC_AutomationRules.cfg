CONSTANTS
  n1 = n1
  n2 = n2
  n3 = n3
  n4 = n4
  Nr <- MCNr
  speed = speed
  noName = noName
  automation = automation
  lamp = lamp
  plug = plug
  Fields <- MCFields
  Body <- MCBody
  NoName = noName
  FormName = automation
  MaxRules = 3
  Cooldown = 2
  MaxTime = 3
  Faults = TRUE
SYMMETRY Numbers
SPECIFICATION RulesSpec
CONSTRAINT Followed
INVARIANTS CooldownIsOwn CooldownIsKept QueuesOnlyForEnabled FlatRuleIsHeard
