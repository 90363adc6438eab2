\* Two clients with a backlog of two frames.  When the source has ended and
\* the clients are gone the system stops.
CONSTANTS
  Clients = {c1, c2}
  MaxItems = 2
  MaxFrames = 4
SPECIFICATION FairSpec
CHECK_DEADLOCK FALSE
INVARIANTS TypeOK LossCounted
PROPERTY EndReachesAll
