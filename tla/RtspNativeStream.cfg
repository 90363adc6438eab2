\* Both kinds of environment.  When the last client has left and the timers have
\* fired the system rests.
CONSTANTS
  Clients = {c1, c2}
  MaxRuns = 3
  MaxOverlaps = 2
  ApiSleeps = TRUE
  Overlaps = {TRUE, FALSE}
  MayStop = TRUE
SPECIFICATION FairSpec
CHECK_DEADLOCK FALSE
INVARIANTS TypeOK ReleasedOnce OneSource
PROPERTY NoViewerSleeps
