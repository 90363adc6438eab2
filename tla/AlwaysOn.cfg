\* Events, timers and stop() overtake transitions freely.  After the last
\* trigger the system may come to rest.
CONSTANTS
  MaxTriggers = 3
  MayFail = TRUE
  MayStop = TRUE
  MaxFaults = 2
SPECIFICATION FairSpec
CHECK_DEADLOCK FALSE
INVARIANTS TypeOK OpenWindowEnds OneProducer
PROPERTIES WindowExtended StaysContinuous SleepsUnlessOvertaken
