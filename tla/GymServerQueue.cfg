SPECIFICATION Spec
CONSTANTS
  Users = {u1, u2}
  NoUser = NoUser
  ByRef = ByRef
  Keyword = Keyword
  EQUIP_COUNT = 1
  MAX_CLIENTS = 2
  MAX_QUEUE = 2
  CHECKIN_WINDOW = 1
  QUICK_CHECKIN_WINDOW = 0
  USAGE_TIME = 0
  BAN_TIME = 0
  CONTINUE_DECISION_WINDOW = 0
  Replies <- AnyReply
  MAX_NEST = 2
SYMMETRY UserSymmetry
INVARIANTS NoIdleQueue SomebodyAwaited PromptAlone
PROPERTIES NoOvertaking
