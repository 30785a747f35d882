\* Each component at its own bounds; one behaviour runs one of them.
SPECIFICATION Spec
CONSTANTS
  Keys = {k1, k2}
  wake_Rules = 2
  wake_Cron <- Cron
  wake_Silence <- Silence
  wake_CronRun = {2}
  wake_Cooldown = 2
  wake_MaxTime = 5
  wake_MaxAborts = 1
  price_Subs = {1, 2}
  price_StrategyId <- Ids
  price_KeyLimit = 2
  price_Cooldown = 2
  price_MaxRevision = 2
  price_MaxTime = 5
  price_MaxAborts = 1
  claim_Wakes = {1, 2}
  claim_Window = 2
  claim_MaxPulls = 2
  claim_MaxQueue = 1
  alert_Cooldown = 2
  alert_TailLines = 2
  alert_MaxTick = 2
  alert_MaxLines = 3
  retain_Kinds = {"bridge", "portfolio"}
  retain_TTL <- TTL
  retain_Window <- Window
  retain_MaxRows = 1
  retain_Bucket = 2
  retain_MaxTick = 3
  learn_Roles = {"pm", "rt"}
  learn_ScanLimit = 1
  learn_PackLimit = 1
  learn_Unreadable = FALSE
  learn_MaxIssued = 2
  learn_MaxWrites = 2
  notify_Handlers = {"h1", "h2"}
  notify_ChiefIsOwner = FALSE
  notify_MaxStrategies = 2
  notify_MaxFaults = 1
  desk_Sources = {"s1"}
  desk_Items = {"n1", "n2"}
  desk_Undated = {"n2"}
  desk_MeaInputs = {"m1"}
  desk_ChiefInputs = {"c1"}
  desk_FalsifiedInRow = 2
  desk_MaxSubmissions = 2
  desk_MaxBriefs = 2
  desk_MaxFaults = 2
SYMMETRY Sym
INVARIANTS WakesOnce ClaimedOnce PriceSentOnce ToldOncePerCooldown RetentionUnseen   
\* Every component is bounded, so that it stops.
CHECK_DEADLOCK FALSE
