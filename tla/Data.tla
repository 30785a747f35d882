-------------------------------- MODULE Data ---------------------------------
(***************************************************************************)
(* The market's data and the quantitative model, each component on its     *)
(* own: caches and stores of candles and features, the training, its       *)
(* artifacts, the bundle of a pack and macro prices.  One behaviour runs   *)
(* one of them.                                                            *)
(***************************************************************************)
EXTENDS Integers, FiniteSets, Sequences

CONSTANTS
  Callers,             \* the callers that share a cache
  \* CandleCache's
  candle_Lookbacks,    \* the lengths of their windows, in bars
  candle_Fills,        \* the windows of bars the script fills
  candle_Limit,        \* MAX_PUBLIC_CANDLES_PER_REQUEST
  candle_Trims,        \* whether the exchange keeps to the limit of a request
  candle_MaxHoles,     \* bound: bars without a trade
  candle_First,        \* the newest bar at the beginning
  candle_MaxNow,       \* bound: bars
  candle_MaxFetches,   \* bound: fetches
  \* FeatureStore's
  store_Looks,         \* the windows of the horizons, in bars
  store_Padding,       \* the bars a window reaches back further, in both stores
  store_DayBars,       \* the bars of a day
  store_Retention,     \* the bars for which Binance keeps open interest
  store_RecentDays,    \* the days for which it is asked
  store_TardisDays,    \* the days whose file Tardis gives away
  store_Coinalyze,     \* whether a key of Coinalyze is configured
  store_MaxHoles,      \* bound: bars of which an exchange has no row
  store_MaxNow,        \* bound: bars
  store_MaxAsks,       \* bound: windows asked for
  \* AcceptancePolicy's
  accept_Size,         \* bound: rows a training validated
  accept_Levels,       \* the values of a component
  accept_Regimes,      \* labels of the regimes
  accept_Unit,         \* the weights of a policy add up to this, but for rounding
  accept_Caps,         \* the caps configured: functions from the regimes
  accept_Grain,        \* what a score is rounded to
  accept_Coverages,    \* the parts of Size a policy may aim at
  \* WalkForward's
  walk_Coins,          \* the coins of the panel
  walk_Specialists,    \* those with a specialist at this horizon
  walk_MaxBar,         \* bound: bars of the history
  walk_Horizon,        \* the candles ahead a label looks
  walk_Embargo,        \* walk_forward_embargo_bars
  walk_MinTrain,       \* min_train_samples
  walk_Floor,        
  walk_Slack,        
  walk_FoldBlocks,     \* the least times in a window
  walk_Splits,         \* walk_forward_splits
  walk_MaxHoles,       \* bound: candles a coin lacks
  walk_MaxDropped,     \* bound: rows without features or of no weight
  \* QuantArtifacts's
  quant_Horizons,      \* forecast_horizons, a sequence
  quant_Threads,       \* the threads that ask for forecasts
  quant_MaxTrainings,  \* bound: retrainings
  quant_MaxForecasts,  \* bound: forecasts
  \* MarketBundle's
  market_Calls,        \* those of the six that are looked at
  market_Paths,        \* the closes of the candles, hour after hour
  market_TTL,          \* _product_cache_ttl_seconds
  market_Lookback,     \* the candles of a series
  market_MaxNow,       \* bound: the clock
  market_MaxBundles,   \* bound: bundles
  market_MaxFaults,    \* bound: calls that fail
  \* MacroPrices's
  macro_Series,        \* the quotes, the funds and the index
  macro_Interval,      \* refresh_interval_seconds
  macro_MaxNow,        \* bound: the clock
  macro_MaxErrors      \* bound: requests that fail

ASSUME CandlesAssumption ==
  /\ candle_Lookbacks \subseteq Nat /\ candle_Fills \subseteq SUBSET (0 .. candle_MaxNow)
  /\ candle_Limit \in Nat \ {0}
  /\ candle_MaxNow \in Nat /\ candle_First \in 0 .. candle_MaxNow

ASSUME FeaturesAssumption ==
  /\ store_Looks \subseteq Nat /\ store_Padding \in Nat /\ store_DayBars \in Nat \ {0}
  /\ store_Retention \in Nat /\ store_RecentDays \in Nat /\ store_MaxNow \in Nat \ {0}

ASSUME PolicyAssumption ==
  /\ accept_Size \in Nat /\ accept_Levels \subseteq Nat
  /\ \E top \in accept_Levels : \A l \in accept_Levels : l <= top
  /\ accept_Unit \in Nat /\ accept_Grain \in Nat \ {0}
  /\ accept_Caps \subseteq [accept_Regimes -> Nat] /\ accept_Coverages \subseteq Nat \ {0}

ASSUME WalkAssumption ==
  /\ IsFiniteSet(walk_Coins) /\ walk_Specialists \subseteq walk_Coins
  /\ "panel" \notin walk_Coins /\ "none" \notin walk_Coins
  /\ walk_MaxBar \in Nat /\ walk_Horizon \in Nat \ {0} /\ walk_Embargo \in Nat
  /\ walk_MinTrain \in Nat /\ walk_Floor \in Nat /\ walk_Slack \in Nat
  /\ walk_FoldBlocks \in Nat \ {0} /\ walk_Splits \in Nat

ASSUME ArtifactsAssumption ==
  /\ quant_Horizons \in Seq(STRING) /\ quant_Horizons # <<>>

ASSUME BundleAssumption ==
  /\ market_Calls \subseteq {"market", "accounts", "portfolio", "context", "history", "metadata"}
  /\ "context" \in market_Calls /\ market_TTL \in Nat \ {0}
  /\ market_Lookback \in Nat /\ market_MaxNow \in Nat
  /\ \A p \in market_Paths : p \in Seq(Nat) /\ Len(p) >= market_MaxNow + market_Lookback

ASSUME PricesAssumption ==
  /\ macro_Interval \in Nat \ {0}

VARIABLES
  part,  \* the component that runs
  candle_now, candle_traded, candle_file, candle_saved, candle_caller, candle_fetches,
  store_now, store_listed, store_raw, store_tardis, store_kept, store_daily, store_ask,
  store_asks,
  accept_rows, accept_config, accept_weights, accept_policy, accept_forecast,
  walk_candles, walk_dropped, walk_walk, walk_folds, walk_pc,
  quant_file, quant_cache, quant_trainer, quant_thread, quant_served, quant_good,
  quant_overlapped, quant_trainings, quant_forecasts,
  market_now, market_path, market_cache, market_job, market_bundle, market_faults,
  macro_now, macro_cache, macro_caller, macro_errors

Candles ==
  INSTANCE CandleCache WITH Callers <- Callers, Lookbacks <- candle_Lookbacks,
    Fills <- candle_Fills, Limit <- candle_Limit, Trims <- candle_Trims,
    MaxHoles <- candle_MaxHoles, First <- candle_First, MaxNow <- candle_MaxNow,
    MaxFetches <- candle_MaxFetches, now <- candle_now, traded <- candle_traded,
    file <- candle_file, saved <- candle_saved, caller <- candle_caller,
    fetches <- candle_fetches

Features ==
  INSTANCE FeatureStore WITH Looks <- store_Looks, Padding <- store_Padding,
    DayBars <- store_DayBars, Retention <- store_Retention, RecentDays <- store_RecentDays,
    TardisDays <- store_TardisDays, Coinalyze <- store_Coinalyze,
    MaxHoles <- store_MaxHoles, MaxNow <- store_MaxNow, MaxAsks <- store_MaxAsks,
    now <- store_now, listed <- store_listed, raw <- store_raw, tardis <- store_tardis,
    kept <- store_kept, daily <- store_daily, ask <- store_ask, asks <- store_asks

Policy ==
  INSTANCE AcceptancePolicy WITH Size <- accept_Size, Levels <- accept_Levels,
    Regimes <- accept_Regimes, Unit <- accept_Unit, Caps <- accept_Caps,
    Grain <- accept_Grain, Coverages <- accept_Coverages, rows <- accept_rows,
    config <- accept_config, weights <- accept_weights, policy <- accept_policy,
    forecast <- accept_forecast

Walk ==
  INSTANCE WalkForward WITH Coins <- walk_Coins, Specialists <- walk_Specialists,
    MaxBar <- walk_MaxBar, Horizon <- walk_Horizon, Embargo <- walk_Embargo,
    MinTrain <- walk_MinTrain, Floor <- walk_Floor, Slack <- walk_Slack,
    FoldBlocks <- walk_FoldBlocks, Splits <- walk_Splits, MaxHoles <- walk_MaxHoles,
    MaxDropped <- walk_MaxDropped, candles <- walk_candles, dropped <- walk_dropped,
    walk <- walk_walk, folds <- walk_folds, pc <- walk_pc

Artifacts ==
  INSTANCE QuantArtifacts WITH Horizons <- quant_Horizons, Threads <- quant_Threads,
    MaxTrainings <- quant_MaxTrainings, MaxForecasts <- quant_MaxForecasts,
    file <- quant_file, cache <- quant_cache, trainer <- quant_trainer,
    thread <- quant_thread, served <- quant_served, good <- quant_good,
    overlapped <- quant_overlapped, trainings <- quant_trainings,
    forecasts <- quant_forecasts

Bundle ==
  INSTANCE MarketBundle WITH Calls <- market_Calls, Paths <- market_Paths,
    TTL <- market_TTL, Lookback <- market_Lookback, MaxNow <- market_MaxNow,
    MaxBundles <- market_MaxBundles, MaxFaults <- market_MaxFaults, now <- market_now,
    path <- market_path, cache <- market_cache, job <- market_job, bundle <- market_bundle,
    faults <- market_faults

Prices ==
  INSTANCE MacroPrices WITH Callers <- Callers, Series <- macro_Series,
    Interval <- macro_Interval, MaxNow <- macro_MaxNow, MaxErrors <- macro_MaxErrors,
    now <- macro_now, cache <- macro_cache, caller <- macro_caller, errors <- macro_errors

candleVars == <<candle_now, candle_traded, candle_file, candle_saved, candle_caller,
    candle_fetches>>
storeVars == <<store_now, store_listed, store_raw, store_tardis, store_kept, store_daily,
    store_ask, store_asks>>
acceptVars == <<accept_rows, accept_config, accept_weights, accept_policy, accept_forecast>>
walkVars == <<walk_candles, walk_dropped, walk_walk, walk_folds, walk_pc>>
quantVars == <<quant_file, quant_cache, quant_trainer, quant_thread, quant_served,
    quant_good, quant_overlapped, quant_trainings, quant_forecasts>>
marketVars == <<market_now, market_path, market_cache, market_job, market_bundle,
    market_faults>>
macroVars == <<macro_now, macro_cache, macro_caller, macro_errors>>
vars == <<part, candleVars, storeVars, acceptVars, walkVars, quantVars, marketVars,
    macroVars>>

-----------------------------------------------------------------------------
\* What the components that do not run begin with.
Rows ==
  [i \in 1 .. accept_Size |->
     [first |-> 0, second |-> 0, regime |-> CHOOSE r \in accept_Regimes : TRUE]]
Config ==
  [caps |-> CHOOSE c \in accept_Caps : TRUE, override |-> <<>>, ranked |-> TRUE,
   coverage |-> CHOOSE n \in accept_Coverages : TRUE]
Whole == [coin \in walk_Coins |-> 0 .. walk_MaxBar]
None == [coin \in walk_Coins |-> {}]

\* One of them runs; the others stay as they begin.
Init ==
  /\ part \in {"candle", "store", "accept", "walk", "quant", "market", "macro"}
  /\ part # "candle" => candle_traded = Candles!Bars
  /\ Candles!Init
  /\ part # "store" => store_listed = [m \in Features!Metrics |-> Features!Bars]
  /\ Features!Init
  /\ part # "accept" => accept_rows = Rows /\ accept_config = Config
  /\ Policy!Init
  /\ part # "walk" => walk_candles = Whole /\ walk_dropped = None
  /\ Walk!Init
  /\ Artifacts!Init
  /\ Bundle!Init
  /\ Prices!Init

Next ==
  \/ part = "candle" /\ Candles!Next /\ UNCHANGED <<part, storeVars, acceptVars, walkVars, quantVars, marketVars, macroVars>>
  \/ part = "store" /\ Features!Next /\ UNCHANGED <<part, candleVars, acceptVars, walkVars, quantVars, marketVars, macroVars>>
  \/ part = "accept" /\ Policy!Next /\ UNCHANGED <<part, candleVars, storeVars, walkVars, quantVars, marketVars, macroVars>>
  \/ part = "walk" /\ Walk!Next /\ UNCHANGED <<part, candleVars, storeVars, acceptVars, quantVars, marketVars, macroVars>>
  \/ part = "quant" /\ Artifacts!Next /\ UNCHANGED <<part, candleVars, storeVars, acceptVars, walkVars, marketVars, macroVars>>
  \/ part = "market" /\ Bundle!Next /\ UNCHANGED <<part, candleVars, storeVars, acceptVars, walkVars, quantVars, macroVars>>
  \/ part = "macro" /\ Prices!Next /\ UNCHANGED <<part, candleVars, storeVars, acceptVars, walkVars, quantVars, marketVars>>

Spec == Init /\ [][Next]_vars

-----------------------------------------------------------------------------
\* CandleCache, the cached candles of a coin: a fetch catches up.
CaughtUp == Candles!CaughtUp

\* FeatureStore, the store of features: what a training is not given has a reason.
GapsExplained == Features!GapsExplained

\* AcceptancePolicy, the thresholds of a training: what was selected is acted upon.
PolicyKeepsSelection == Policy!PolicyKeepsSelection

\* WalkForward, the folds of a training: nothing is judged by what it was trained on.
OutOfSample == Walk!OutOfSample

\* QuantArtifacts, the artifacts of the models: a forecast is made with one training.
OneTraining == Artifacts!OneTraining

\* MarketBundle, collect: a bundle is whole, fresh and of one piece.
BundleIsFresh == Bundle!BundleIsFresh

\* MacroPrices, collect_snapshot: no price is older than the interval.
GivenIsRecent == Prices!GivenIsRecent

\* Every variable keeps its type.
TypesOK ==
  /\ Candles!TypeOK
  /\ Features!TypeOK
  /\ Policy!TypeOK
  /\ Walk!TypeOK
  /\ Artifacts!TypeOK
  /\ Bundle!TypeOK
  /\ Prices!TypeOK
=============================================================================
