CONSTANTS
  n1 = n1
  n2 = n2
  n3 = n3
  n4 = n4
  Nr <- MCNr
  speed = speed
  noName = noName
  automation = automation
  lamp = lamp
  plug = plug
  Fields <- MCNoFields
  Body <- MCBody
  NoName = noName
  FormName = automation
  MaxRules = 2
  Cooldown = 2
  MaxTime = 1
  Faults = FALSE
SYMMETRY Numbers
SPECIFICATION RulesSpec
INVARIANTS EnabledRuleIsHeard
