SPECIFICATION Spec
CONSTANTS
  Users = {u1}
  NoUser = NoUser
  ByRef = ByRef
  Keyword = Keyword
  EQUIP_COUNT = 2
  MAX_CLIENTS = 1
  MAX_QUEUE = 1
  CHECKIN_WINDOW = 0
  QUICK_CHECKIN_WINDOW = 0
  USAGE_TIME = 0
  BAN_TIME = 1
  CONTINUE_DECISION_WINDOW = 0
  Replies <- AnyReply
  MAX_NEST = 2
INVARIANTS QuickOnlyWaiting
