\* Two items in one list.
SPECIFICATION FairSpec
CONSTANTS
  Schedules <- SchedulesDef
  KeyLimit = 2
  MaxRevision = 1
  MaxTime = 2
  MaxAborts = 0
PROPERTIES EveryItemSent
\* The clock is bounded, so that the system stops.
CHECK_DEADLOCK FALSE
