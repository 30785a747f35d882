------------------------------- MODULE Gateway -------------------------------
(***************************************************************************)
(* The parts of the agent gateway's submissions that do not meet: the gate *)
(* of the PM's strategy, the files its agents answer with, the sizes of    *)
(* RT's orders and their placing, and what the panels of the packs say.    *)
(* One behaviour runs one of them.                                         *)
(***************************************************************************)
EXTENDS Integers, FiniteSets

CONSTANTS
  Inputs,             \* the inputs of strategies and of packs with a panel, and the callers that place orders
  \* StrategyGate's
  gate_Views,         \* what a snapshot can show: a mark and the side of the forecast
  gate_Breach,        \* the difference of two marks that counts as a breach
  gate_MaxFacts,      \* bound: macro and brake events
  gate_MaxOpen,       \* bound: leases that are issued at a time
  gate_MaxSaved,      \* bound: strategies
  gate_MaxCuts,       \* bound: submissions that raise or are cut off
  \* AgentRun's
  run_Slack,          \* how much older than a run its file may be
  run_MaxNow,         \* bound: time
  run_MaxRuns,        \* bound: submissions asked for
  run_MaxWrites,      \* bound: writes of the file
  \* OrderSizing's
  size_Marks,         \* the prices
  size_Shares,        \* the sizes RT may ask for, in percent of the budget; 0 is none
  size_Budget,        \* total equity times the maximal leverage
  size_OrderLimit,    \* max_order_pct_of_exposure_budget
  size_MinBase,       \* the smallest order, in increments
  size_QuoteMin,      \* the smallest order, in dollars
  size_MaxPosition,   \* bound: the position beyond which nobody adds
  size_MaxOrders,     \* bound: orders
  \* OrderPlacement's
  place_Batch,        \* the number of plans of a batch
  place_Retries,      \* max_retries of the client
  place_MaxBatches,   \* bound: batches
  place_MaxFaults,    \* bound: broken connections and busy replies
  \* PMPanels's
  panel_Plans,        \* what the PM may submit
  panel_Markets,      \* portfolios, the day's marks and the change of 24 hours
  panel_StandardTop,  \* the ceiling of the standard tier
  panel_HighTop,      \* the ceiling of the high tier
  panel_Many,         \* how many strategies alike, or of a day, are many
  panel_StreakLook,   \* how many strategies are looked back at
  panel_HoldLook,     \* how many batches
  panel_SinceLook,    \* how many news submissions
  panel_MaxNow,       \* bound: half days
  panel_MaxLog,       \* bound: submissions
  \* RTTacticalMap's
  map_Coins,        
  map_Reasons,        \* the reasons of RT's trigger
  map_LockModes,      \* the modes the brake locks with
  map_MapReasons,     \* those of them for which a map is asked for
  map_Look,           \* how many maps are looked back at
  map_MaxRevision,    \* bound: strategies
  map_MaxMaps,        \* bound: maps
  map_MaxLocks        \* bound: brake events

ASSUME SizingAssumption ==
  /\ size_Marks \subseteq Nat \ {0} /\ size_Shares \subseteq Nat
  /\ size_Budget \in Nat /\ size_OrderLimit \in Nat
  /\ size_MinBase \in Nat /\ size_QuoteMin \in Nat

ASSUME PlacingAssumption ==
  /\ place_Batch \in Nat \ {0}

ASSUME PanelsAssumption ==
  /\ panel_Many \in Nat \ {0} /\ panel_StreakLook \in Nat /\ panel_Many <= panel_StreakLook
  /\ panel_HoldLook \in Nat /\ 2 <= panel_HoldLook
  /\ \A p \in panel_Plans :
       /\ {p.lo, p.hi, p.discretion} \subseteq Nat /\ p.lo <= p.hi
       /\ \A sub \in p.watched : sub.op \in {">", ">=", "<", "<="} /\ sub.value \in Nat \ {0}
  /\ \A m \in panel_Markets :
       {m.notional, m.high, m.low} \subseteq Nat /\ {m.equity, m.leverage, m.open} \subseteq Nat \ {0}

ASSUME MapAssumption ==
  /\ map_Look \in Nat \ {0}
  /\ map_LockModes \subseteq {"reduce_only", "flat_only"} /\ "none" \notin map_MapReasons

VARIABLES
  part,  \* the component that runs
  gate_clock, gate_facts, gate_lease, gate_sub, gate_strategies, gate_table, gate_rt,
  gate_cuts, gate_woken,
  run_now, run_file, run_task, run_attempt, run_runs, run_taken,
  size_qty, size_mark, size_cached, size_order, size_orders,
  place_client, place_orders, place_call, place_batches, place_faults,
  panel_now, panel_log, panel_ladder, panel_lease,
  map_strategy, map_targets, map_held, map_lock, map_event, map_policies, map_trigger,
  map_maps, map_lease, map_locked

Gate ==
  INSTANCE StrategyGate WITH Inputs <- Inputs, Views <- gate_Views, Breach <- gate_Breach,
    MaxFacts <- gate_MaxFacts, MaxOpen <- gate_MaxOpen, MaxSaved <- gate_MaxSaved,
    MaxCuts <- gate_MaxCuts, clock <- gate_clock, facts <- gate_facts, lease <- gate_lease,
    sub <- gate_sub, strategies <- gate_strategies, table <- gate_table, rt <- gate_rt,
    cuts <- gate_cuts, woken <- gate_woken

Run ==
  INSTANCE AgentRun WITH Slack <- run_Slack, MaxNow <- run_MaxNow, MaxRuns <- run_MaxRuns,
    MaxWrites <- run_MaxWrites, now <- run_now, file <- run_file, task <- run_task,
    attempt <- run_attempt, runs <- run_runs, taken <- run_taken

Sizing ==
  INSTANCE OrderSizing WITH Marks <- size_Marks, Shares <- size_Shares,
    Budget <- size_Budget, OrderLimit <- size_OrderLimit, MinBase <- size_MinBase,
    QuoteMin <- size_QuoteMin, MaxPosition <- size_MaxPosition,
    MaxOrders <- size_MaxOrders, qty <- size_qty, mark <- size_mark, cached <- size_cached,
    order <- size_order, orders <- size_orders

Placing ==
  INSTANCE OrderPlacement WITH Threads <- Inputs, Batch <- place_Batch,
    Retries <- place_Retries, MaxBatches <- place_MaxBatches, MaxFaults <- place_MaxFaults,
    client <- place_client, orders <- place_orders, call <- place_call,
    batches <- place_batches, faults <- place_faults

Panels ==
  INSTANCE PMPanels WITH Leases <- Inputs, Plans <- panel_Plans, Markets <- panel_Markets,
    StandardTop <- panel_StandardTop, HighTop <- panel_HighTop, Many <- panel_Many,
    StreakLook <- panel_StreakLook, HoldLook <- panel_HoldLook,
    SinceLook <- panel_SinceLook, MaxNow <- panel_MaxNow, MaxLog <- panel_MaxLog,
    now <- panel_now, log <- panel_log, ladder <- panel_ladder, lease <- panel_lease

Map ==
  INSTANCE RTTacticalMap WITH Leases <- Inputs, Coins <- map_Coins, Reasons <- map_Reasons,
    LockModes <- map_LockModes, MapReasons <- map_MapReasons, Look <- map_Look,
    MaxRevision <- map_MaxRevision, MaxMaps <- map_MaxMaps, MaxLocks <- map_MaxLocks,
    strategy <- map_strategy, targets <- map_targets, held <- map_held, lock <- map_lock,
    event <- map_event, policies <- map_policies, trigger <- map_trigger, maps <- map_maps,
    lease <- map_lease, locked <- map_locked

gateVars == <<gate_clock, gate_facts, gate_lease, gate_sub, gate_strategies, gate_table,
    gate_rt, gate_cuts, gate_woken>>
runVars == <<run_now, run_file, run_task, run_attempt, run_runs, run_taken>>
sizeVars == <<size_qty, size_mark, size_cached, size_order, size_orders>>
placeVars == <<place_client, place_orders, place_call, place_batches, place_faults>>
panelVars == <<panel_now, panel_log, panel_ladder, panel_lease>>
mapVars == <<map_strategy, map_targets, map_held, map_lock, map_event, map_policies,
    map_trigger, map_maps, map_lease, map_locked>>
vars == <<part, gateVars, runVars, sizeVars, placeVars, panelVars, mapVars>>

-----------------------------------------------------------------------------
\* One of them runs; the others stay as they begin.
Init ==
  /\ part \in {"gate", "run", "size", "place", "panel", "map"}
  /\ Gate!Init
  /\ Run!Init
  /\ part # "size" => size_mark = CHOOSE m \in size_Marks : TRUE
  /\ Sizing!Init
  /\ Placing!Init
  /\ Panels!Init
  /\ Map!Init

Next ==
  \/ part = "gate" /\ Gate!Next /\ UNCHANGED <<part, runVars, sizeVars, placeVars, panelVars, mapVars>>
  \/ part = "run" /\ Run!Next /\ UNCHANGED <<part, gateVars, sizeVars, placeVars, panelVars, mapVars>>
  \/ part = "size" /\ Sizing!Next /\ UNCHANGED <<part, gateVars, runVars, placeVars, panelVars, mapVars>>
  \/ part = "place" /\ Placing!Next /\ UNCHANGED <<part, gateVars, runVars, sizeVars, panelVars, mapVars>>
  \/ part = "panel" /\ Panels!Next /\ UNCHANGED <<part, gateVars, runVars, sizeVars, placeVars, mapVars>>
  \/ part = "map" /\ Map!Next /\ UNCHANGED <<part, gateVars, runVars, sizeVars, placeVars, panelVars>>

Spec == Init /\ [][Next]_vars

-----------------------------------------------------------------------------
\* StrategyGate, submit_strategy: a strategy that wakes nobody leaves nothing unanswered.
SilentMeansAnswered == Gate!SilentMeansAnswered

\* StrategyGate, materialize_strategy_asset and submit_strategy: revision numbers grow
\* and an input gives one strategy, but for what was cut off half-way.
SavedInOrder == Gate!RevisionsGrow /\ Gate!InputUsedOnce

\* AgentRun, _load_workspace_fallback: what a run takes from RT's file belongs to it.
AcceptedIsOfTheRun == Run!AcceptedIsOfTheRun

\* OrderSizing, execute_market_order: an order does to the position what was decided,
\* whoever else moves it.
FillsAsDecided == Sizing!FillsAsDecided

\* OrderPlacement, ExecutionGatewayService.execute: a plan is placed at most once, and
\* the result says so.
PlacedOnceAsTold == Placing!PlacedOnceAsTold

\* PMPanels, the panels of the packs: what is done against a warning was warned of, and
\* the two panels of RT agree.
PanelsWarn == Panels!WarnedBefore /\ []Panels!PanelsAgree

\* RTTacticalMap, _build_rt_trigger_delta: RT is asked for a map until it has drawn it.
AskedUntilDrawn == Map!AskedUntilDrawn
=============================================================================
