\* A camera that answers in every way, with the class's delays in ticks of
\* 250 ms.  connect() ends, so the system stops.
CONSTANTS
  Replies = {"cr", "cr_sid", "t", "cfm", "cfm_ids"}
  UsesProbe = TRUE
  FinalizeDelay = 1
  CrWindow = 6
  RetryInterval = 2
  Timeout = 60
  MaxReplies = 3
  MayClose = TRUE
SPECIFICATION FairSpec
CHECK_DEADLOCK FALSE
INVARIANTS TypeOK AnswerUsedUnlessWindow TimersMatchOutcome
PROPERTY ConnectSettles
