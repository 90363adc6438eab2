\* A camera whose D2C_CR carries a session id.  The property fails.
CONSTANTS
  Replies = {"cr_sid", "t"}
  UsesProbe = FALSE
  FinalizeDelay = 1
  CrWindow = 6
  RetryInterval = 2
  Timeout = 60
  MaxReplies = 3
  MayClose = FALSE
SPECIFICATION FairSpec
CHECK_DEADLOCK FALSE
INVARIANT AnswerUsed
