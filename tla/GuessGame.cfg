SPECIFICATION FairSpec
CONSTANTS
  HIGH = 20
  Secrets <- AllSecrets
INVARIANTS AnswerFits
PROPERTIES Implements Found
CHECK_DEADLOCK FALSE
