SPECIFICATION SpecLoggedIn
CONSTANTS
  Users = {u1, u2}
  NoUser = NoUser
  ByRef = ByRef
  Keyword = Keyword
  EQUIP_COUNT = 1
  MAX_CLIENTS = 2
  MAX_QUEUE = 1
  CHECKIN_WINDOW = 2
  QUICK_CHECKIN_WINDOW = 2
  USAGE_TIME = 1
  BAN_TIME = 1
  CONTINUE_DECISION_WINDOW = 1
  MAX_LAG = 2
  MAX_MOVES = 2
SYMMETRY UserSymmetry
PROPERTIES CheckinIsTold
