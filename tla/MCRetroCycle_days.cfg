\* A day, its midnight, and either a command or a scan that is cut off.
SPECIFICATION FairSpec
CONSTANTS
  pm = pm
  chief = chief
  Briefers = {pm}
  LearningRoles <- RolesInOrder
  DayLength = 3
  Window = 1
  BriefTicks = 0
  ChiefTicks = 0
  MaxTime = 3
  MaxRetros = 1
  MaxFaults = 1
PROPERTIES RetroInOrder RetroSettles
\* The clock is bounded, so that the system stops.
CHECK_DEADLOCK FALSE
