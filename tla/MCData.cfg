\* Each component at its own bounds; one behaviour runs one of them.
SPECIFICATION Spec
CONSTANTS
  Callers = {c1, c2}
  candle_Lookbacks = {2, 3}
  candle_Fills <- Fills
  candle_Limit = 2
  candle_Trims = FALSE
  candle_MaxHoles = 2
  candle_First = 1
  candle_MaxNow = 4
  candle_MaxFetches = 2
  store_Looks = {1, 3}
  store_Padding = 1
  store_DayBars = 2
  store_Retention = 2
  store_RecentDays = 1
  store_TardisDays = {0}
  store_Coinalyze = FALSE
  store_MaxHoles = 1
  store_MaxNow = 5
  store_MaxAsks = 2
  accept_Size = 3
  accept_Levels = {0, 1}
  accept_Regimes = {"trend", "neutral"}
  accept_Unit = 10
  accept_Caps <- Caps
  accept_Grain = 4
  accept_Coverages = {2}
  walk_Coins = {"btc", "eth"}
  walk_Specialists = {"eth"}
  walk_MaxBar = 7
  walk_Horizon = 1
  walk_Embargo = 0
  walk_MinTrain = 4
  walk_Floor = 3
  walk_Slack = 4
  walk_FoldBlocks = 1
  walk_Splits = 2
  walk_MaxHoles = 1
  walk_MaxDropped = 1
  quant_Horizons <- Horizons
  quant_Threads = {"t1"}
  quant_MaxTrainings = 2
  quant_MaxForecasts = 2
  market_Calls = {"accounts", "context"}
  market_Paths <- Paths
  market_TTL = 2
  market_Lookback = 3
  market_MaxNow = 4
  market_MaxBundles = 2
  market_MaxFaults = 1
  macro_Series = {"brent", "etf"}
  macro_Interval = 2
  macro_MaxNow = 3
  macro_MaxErrors = 1
SYMMETRY Sym
INVARIANTS      BundleIsFresh GivenIsRecent
\* Every component is bounded, so that it stops.
CHECK_DEADLOCK FALSE
