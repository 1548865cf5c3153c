SPECIFICATION FairSpec
CONSTANTS
  Users = {u1, u2}
  NoUser = NoUser
  Keyword = Keyword
  EQUIP_COUNT = 1
  MAX_LAG = 3
  Periods = {1, 2, 3}
INVARIANTS SomebodyReported
PROPERTIES StopHeeded UsageOver
