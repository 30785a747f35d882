\* Each component at its own bounds; one behaviour runs one of them.
SPECIFICATION Spec
CONSTANTS
  Inputs = {i1, i2}
  gate_Views <- Views
  gate_Breach = 1
  gate_MaxFacts = 1
  gate_MaxOpen = 1
  gate_MaxSaved = 3
  gate_MaxCuts = 1
  run_Slack = 1
  run_MaxNow = 3
  run_MaxRuns = 2
  run_MaxWrites = 2
  size_Marks = {2, 3}
  size_Shares = {0, 10, 20}
  size_Budget = 60
  size_OrderLimit = 20
  size_MinBase = 1
  size_QuoteMin = 4
  size_MaxPosition = 8
  size_MaxOrders = 3
  place_Batch = 2
  place_Retries = 1
  place_MaxBatches = 2
  place_MaxFaults = 2
  panel_Plans <- Plans
  panel_Markets <- Markets
  panel_StandardTop = 15
  panel_HighTop = 30
  panel_Many = 2
  panel_StreakLook = 3
  panel_HoldLook = 2
  panel_SinceLook = 2
  panel_MaxNow = 2
  panel_MaxLog = 3
  map_Coins = {"btc"}
  map_Reasons = {"pm_strategy_update"}
  map_LockModes = {"reduce_only"}
  map_MapReasons = {"pm_strategy_update"}
  map_Look = 2
  map_MaxRevision = 1
  map_MaxMaps = 2
  map_MaxLocks = 1
SYMMETRY Sym
INVARIANTS SilentMeansAnswered SavedInOrder AcceptedIsOfTheRun PlacedOnceAsTold
PROPERTIES FillsAsDecided  
\* Every component is bounded, so that it stops.
CHECK_DEADLOCK FALSE
