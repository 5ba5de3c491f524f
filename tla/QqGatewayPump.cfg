CONSTANTS
  MaxSessions <- MCMaxSessions
  MaxEvents <- MCMaxEvents
  MaxBreaks <- MCMaxBreaks
  MaxBackoff <- MCMaxBackoff
SPECIFICATION FairSpec
INVARIANTS TypeOK OnceInOrder ResumesWhereItStopped
PROPERTIES EventsArrive Recovers StopsWhenCancelled
CHECK_DEADLOCK FALSE
