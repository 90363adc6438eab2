\* The camera ends the stream while a client is connected.  The property fails.
CONSTANTS
  Clients = {c1}
  MaxRuns = 2
  ApiSleeps = FALSE
  MaxOverlaps = 2
  Overlaps = {FALSE}
  MayStop = FALSE
SPECIFICATION FairSpec
CHECK_DEADLOCK FALSE
PROPERTY ClientsResumed
