\* Two commands, three API submissions and the reset loop, a database error and a restart.
SPECIFICATION FairSpec
CONSTANTS
  Command = {c1, d}
  Daily = d
  Workers = 1
  Submits = 3
  MaxFaults = 1
  MaxCrashes = 1
INVARIANTS RunsOnce
PROPERTIES AcceptedEnds ResetUnlessDisturbed
\* The submissions are bounded, so that the system stops.
CHECK_DEADLOCK FALSE
