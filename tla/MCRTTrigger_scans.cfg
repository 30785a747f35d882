\* Every kind of trigger, lists of length one, a cut-off scan and a brake wake.
SPECIFICATION Spec
CONSTANTS
  Macro = {3}
  Submissions = {1}
  Results = {2}
  High = {3}
  Critical = {1}
  Filled = {2}
  Conditions = {"exposure"}
  InternalOnly = {}
  GlobalCooldown = 1
  KeyCooldown = 2
  Hour = 4
  MaxPerHour = 2
  Delay = 1
  Heartbeat <- BeatDef
  DetectLimit = 1
  MarkLimit = 1
  SeenLimit = 1
  MaxRevision = 1
  FirstTime = 4
  MaxTime = 9
  MaxBrakeWakes = 1
  MaxAborts = 1
INVARIANTS WakesHeldBack 
PROPERTIES HeartbeatKept
\* The clock is bounded, so that the system stops.
CHECK_DEADLOCK FALSE
