SPECIFICATION FairSpec
CONSTANTS
  LINE_BUF_SIZE = 6
  RECV_SIZE = 3
  MAX_LINE = 3
  STREAM = 8
  Writers = {"w1", "w2"}
  Texts <- LedTexts
  Trains = {"t1", "t2", "t3"}
  Listening = "sockfd"
  Customers = {"ann", "bob"}
  Orders <- DeliveryOrders
  MAX_ORDERS = 2
  Numbers <- MenuNumbers
  MAX_TYPED = 7
  MAX_AHEAD = 0
  WINDOW_SECONDS = 2
  MIN_SAMPLES = 2
  MAX_SAMPLES = 3
  MAX_TIME = 4
  MAX_RESULTS = 4
INVARIANTS TypeOK NothingDropped LoadingUndone AloneIsShown OwnOrder EndedByLeaving DigitsSpellTotal WindowExact SaidAtOnce
PROPERTIES InOrder AllHandled Reaped Disconnected PaysWhatWasShown TurnComes
CHECK_DEADLOCK FALSE
