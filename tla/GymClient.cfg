SPECIFICATION FairSpec
CONSTANTS
  EQUIP_COUNT = 2
  MAX_LINES = 2
  MAX_COMMANDS = 1
PROPERTIES TypedHere PromptShown
CHECK_DEADLOCK FALSE
