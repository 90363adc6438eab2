\* Two streams with one uid, closed at any time.  When both have
\* connected or failed the system rests.
CONSTANTS
  Lanes = {l1, l2}
  NoLane = NoLane
  MaxCandidates = 3
  MaxProbes = 2
  MaxExpiries = 2
SPECIFICATION FairSpec
CHECK_DEADLOCK FALSE
INVARIANTS TypeOK LookupsBounded AnswerFound
PROPERTY ConnectSettles
