\* Three strategies, a list of one key, two scans cut off.
SPECIFICATION FairSpec
CONSTANTS
  Schedules <- SchedulesDef
  KeyLimit = 1
  MaxRevision = 3
  MaxTime = 3
  MaxAborts = 2
INVARIANTS SentOnce
PROPERTIES FirstItemSent
\* The clock is bounded, so that the system stops.
CHECK_DEADLOCK FALSE
