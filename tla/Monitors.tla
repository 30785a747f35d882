------------------------------ MODULE Monitors -------------------------------
(***************************************************************************)
(* The components that watch, remember and tell, each on its own: nothing  *)
(* they do here meets, and one behaviour runs one of them.                 *)
(***************************************************************************)
EXTENDS Integers, FiniteSets

CONSTANTS
  Keys,                  \* what fails, and the ids of a kind of rows
  \* AgentWake's
  wake_Rules,            \* how many rules; they are numbered in the order of the configuration
  wake_Cron,             \* the calendar times of each rule
  wake_Silence,          \* the silence that fires a rule, 0 if it has no such predicate
  wake_CronRun,          \* the rules that run a cron job, which needs no message
  wake_Cooldown,         \* the rest after a firing
  wake_MaxTime,          \* bound: the clock
  wake_MaxAborts,        \* bound: scans that raise or are cut off
  \* PriceRecheck's
  price_Subs,            \* subscription ids, which are compared as text
  price_StrategyId,      \* the random id of each strategy, as its rank among all ids
  price_KeyLimit,        \* length of fired_keys, 128 in the code
  price_Cooldown,        \* global_cooldown_seconds
  price_MaxRevision,     \* bound: strategies published
  price_MaxTime,         \* bound: time units
  price_MaxAborts,       \* bound: scans cut off
  \* PMTriggerClaim's
  claim_Wakes,           \* the monitors' wakes
  claim_Window,          \* how many events a claim looks back over, 20 in the code
  claim_MaxPulls,        \* bound: pulls
  claim_MaxQueue,        \* bound: messages waiting when one of another's is added
  \* FailureAlert's
  alert_Cooldown,        \* the cooldown, in ticks
  alert_TailLines,       \* how many lines the end of the log holds
  alert_MaxTick,         \* bound: ticks
  alert_MaxLines,        \* bound: lines
  \* MemoryRetention's
  retain_Kinds,          \* asset types, and the table of portfolio snapshots
  retain_TTL,            \* per kind, how long its rows live, in ticks
  retain_Window,         \* per kind, how far back its readers look
  retain_MaxRows,        \* four times max_deletes_per_type_per_scan, 0 for no limit
  retain_Bucket,         \* the length of a bucket of the equity series, in ticks
  retain_MaxTick,        \* bound: ticks
  \* Learning's
  learn_Roles,         
  learn_ScanLimit,       \* the newest directives a scan looks at
  learn_PackLimit,       \* the newest directives a pack is made from
  learn_Unreadable,      \* whether reading a file that is there may fail
  learn_MaxIssued,       \* bound: directives
  learn_MaxWrites,       \* bound: writes of the files
  \* Notification's
  notify_Handlers,       \* the requests that are served side by side
  notify_ChiefIsOwner,   \* whether chief and owner are configured as one recipient
  notify_MaxStrategies,  \* bound: strategies saved
  notify_MaxFaults,      \* bound: commands that fail, raise or are cut off
  \* MacroDesk's
  desk_Sources,          \* the feeds that are polled
  desk_Items,            \* the news items
  desk_Undated,          \* those whose date the feed leaves out or nobody can parse
  desk_MeaInputs,        \* the inputs MEA pulls
  desk_ChiefInputs,      \* the inputs the chief pulls
  desk_FalsifiedInRow,   \* _MACRO_BRIEF_CONSECUTIVE_FALSIFIED_THRESHOLD
  desk_MaxSubmissions,   \* bound: news submissions
  desk_MaxBriefs,        \* bound: macro briefs
  desk_MaxFaults         \* bound: feeds that do not answer and calls that are cut off

ASSUME WakeAssumption ==
  /\ wake_Rules \in Nat
  /\ wake_Cron \in [1 .. wake_Rules -> SUBSET Nat]
  /\ wake_Silence \in [1 .. wake_Rules -> Nat]
  /\ wake_Cooldown \in Nat

ASSUME PriceAssumption ==
  /\ price_Subs \subseteq Nat /\ IsFiniteSet(price_Subs)
  /\ price_StrategyId \in [1 .. price_MaxRevision -> Nat]
  /\ \A r, s \in 1 .. price_MaxRevision : price_StrategyId[r] = price_StrategyId[s] => r = s
  /\ price_KeyLimit \in Nat \ {0} /\ price_Cooldown \in Nat
  /\ price_MaxRevision \in Nat /\ price_MaxTime \in Nat \ {0} /\ price_MaxAborts \in Nat

ASSUME ClaimAssumption ==
  /\ IsFiniteSet(claim_Wakes)
  /\ 0 \notin claim_Wakes

ASSUME AlertAssumption ==
  /\ alert_Cooldown \in Nat \ {0}

ASSUME RetentionAssumption ==
  /\ retain_TTL \in [retain_Kinds -> Nat] /\ retain_Window \in [retain_Kinds -> Nat]
  /\ \A kind \in retain_Kinds : retain_Window[kind] <= retain_TTL[kind]

ASSUME DeskAssumption ==
  /\ desk_FalsifiedInRow \in Nat

VARIABLES
  part,  \* the component that runs
  wake_now, wake_strategy, wake_saved, wake_scan, wake_sent, wake_first, wake_aborts,
  price_state, price_scan, price_strategy, price_subscribed, price_clock, price_aborts,
  price_sent, price_dispatches, price_lost, price_dropped,
  claim_events, claim_log, claim_queue, claim_horizon, claim_pulls, claim_races,
  alert_tick, alert_written, alert_seen, alert_alerted, alert_scan, alert_told, alert_missed,
  retain_tick, retain_rows, retain_ever, retain_scan,
  learn_file, learn_directive, learn_saves, learn_scan, learn_writes,
  notify_saved, notify_events, notify_told, notify_handler, notify_faults,
  desk_feed, desk_batch, desk_bridge, desk_mea, desk_submissions, desk_rows, desk_briefs,
  desk_chief, desk_faults

Wake ==
  INSTANCE AgentWake WITH Rules <- wake_Rules, Cron <- wake_Cron, Silence <- wake_Silence,
    CronRun <- wake_CronRun, Cooldown <- wake_Cooldown, MaxTime <- wake_MaxTime,
    MaxAborts <- wake_MaxAborts, now <- wake_now, strategy <- wake_strategy,
    saved <- wake_saved, scan <- wake_scan, sent <- wake_sent, first <- wake_first,
    aborts <- wake_aborts

Price ==
  INSTANCE PriceRecheck WITH Subs <- price_Subs, StrategyId <- price_StrategyId,
    KeyLimit <- price_KeyLimit, Cooldown <- price_Cooldown,
    MaxRevision <- price_MaxRevision, MaxTime <- price_MaxTime,
    MaxAborts <- price_MaxAborts, state <- price_state, scan <- price_scan,
    strategy <- price_strategy, subscribed <- price_subscribed, clock <- price_clock,
    aborts <- price_aborts, sent <- price_sent, dispatches <- price_dispatches,
    lost <- price_lost, dropped <- price_dropped

Claim ==
  INSTANCE PMTriggerClaim WITH Wakes <- claim_Wakes, Window <- claim_Window,
    MaxPulls <- claim_MaxPulls, MaxQueue <- claim_MaxQueue, events <- claim_events,
    log <- claim_log, queue <- claim_queue, horizon <- claim_horizon, pulls <- claim_pulls,
    races <- claim_races

Alert ==
  INSTANCE FailureAlert WITH Keys <- Keys, Cooldown <- alert_Cooldown,
    TailLines <- alert_TailLines, MaxTick <- alert_MaxTick, MaxLines <- alert_MaxLines,
    tick <- alert_tick, written <- alert_written, seen <- alert_seen,
    alerted <- alert_alerted, scan <- alert_scan, told <- alert_told, missed <- alert_missed

Retention ==
  INSTANCE MemoryRetention WITH Kinds <- retain_Kinds, Ids <- Keys, TTL <- retain_TTL,
    Window <- retain_Window, MaxRows <- retain_MaxRows, Bucket <- retain_Bucket,
    MaxTick <- retain_MaxTick, tick <- retain_tick, rows <- retain_rows,
    ever <- retain_ever, scan <- retain_scan

Learn ==
  INSTANCE Learning WITH Roles <- learn_Roles, ScanLimit <- learn_ScanLimit,
    PackLimit <- learn_PackLimit, Unreadable <- learn_Unreadable,
    MaxIssued <- learn_MaxIssued, MaxWrites <- learn_MaxWrites, file <- learn_file,
    directive <- learn_directive, saves <- learn_saves, scan <- learn_scan,
    writes <- learn_writes

Notify ==
  INSTANCE Notification WITH Handlers <- notify_Handlers,
    ChiefIsOwner <- notify_ChiefIsOwner, MaxStrategies <- notify_MaxStrategies,
    MaxFaults <- notify_MaxFaults, saved <- notify_saved, events <- notify_events,
    told <- notify_told, handler <- notify_handler, faults <- notify_faults

Desk ==
  INSTANCE MacroDesk WITH Sources <- desk_Sources, Items <- desk_Items,
    Undated <- desk_Undated, MeaInputs <- desk_MeaInputs, ChiefInputs <- desk_ChiefInputs,
    FalsifiedInRow <- desk_FalsifiedInRow, MaxSubmissions <- desk_MaxSubmissions,
    MaxBriefs <- desk_MaxBriefs, MaxFaults <- desk_MaxFaults, feed <- desk_feed,
    batch <- desk_batch, bridge <- desk_bridge, mea <- desk_mea,
    submissions <- desk_submissions, rows <- desk_rows, briefs <- desk_briefs,
    chief <- desk_chief, faults <- desk_faults

wakeVars == <<wake_now, wake_strategy, wake_saved, wake_scan, wake_sent, wake_first,
    wake_aborts>>
priceVars == <<price_state, price_scan, price_strategy, price_subscribed, price_clock,
    price_aborts, price_sent, price_dispatches, price_lost, price_dropped>>
claimVars == <<claim_events, claim_log, claim_queue, claim_horizon, claim_pulls, claim_races>>
alertVars == <<alert_tick, alert_written, alert_seen, alert_alerted, alert_scan,
    alert_told, alert_missed>>
retainVars == <<retain_tick, retain_rows, retain_ever, retain_scan>>
learnVars == <<learn_file, learn_directive, learn_saves, learn_scan, learn_writes>>
notifyVars == <<notify_saved, notify_events, notify_told, notify_handler, notify_faults>>
deskVars == <<desk_feed, desk_batch, desk_bridge, desk_mea, desk_submissions, desk_rows,
    desk_briefs, desk_chief, desk_faults>>
vars == <<part, wakeVars, priceVars, claimVars, alertVars, retainVars, learnVars,
    notifyVars, deskVars>>

-----------------------------------------------------------------------------
\* One of them runs; the others stay as they begin.
Init ==
  /\ part \in {"wake", "price", "claim", "alert", "retain", "learn", "notify", "desk"}
  /\ part # "wake" => wake_strategy = 1
  /\ Wake!Init
  /\ Price!Init
  /\ Claim!Init
  /\ Alert!Init
  /\ Retention!Init
  /\ Learn!Init
  /\ Notify!Init
  /\ Desk!Init

Next ==
  \/ part = "wake" /\ Wake!Next /\ UNCHANGED <<part, priceVars, claimVars, alertVars, retainVars, learnVars, notifyVars, deskVars>>
  \/ part = "price" /\ Price!Next /\ UNCHANGED <<part, wakeVars, claimVars, alertVars, retainVars, learnVars, notifyVars, deskVars>>
  \/ part = "claim" /\ Claim!Next /\ UNCHANGED <<part, wakeVars, priceVars, alertVars, retainVars, learnVars, notifyVars, deskVars>>
  \/ part = "alert" /\ Alert!Next /\ UNCHANGED <<part, wakeVars, priceVars, claimVars, retainVars, learnVars, notifyVars, deskVars>>
  \/ part = "retain" /\ Retention!Next /\ UNCHANGED <<part, wakeVars, priceVars, claimVars, alertVars, learnVars, notifyVars, deskVars>>
  \/ part = "learn" /\ Learn!Next /\ UNCHANGED <<part, wakeVars, priceVars, claimVars, alertVars, retainVars, notifyVars, deskVars>>
  \/ part = "notify" /\ Notify!Next /\ UNCHANGED <<part, wakeVars, priceVars, claimVars, alertVars, retainVars, learnVars, deskVars>>
  \/ part = "desk" /\ Desk!Next /\ UNCHANGED <<part, wakeVars, priceVars, claimVars, alertVars, retainVars, learnVars, notifyVars>>

Spec == Init /\ [][Next]_vars

-----------------------------------------------------------------------------
\* AgentWake, scan_once: two messages of a rule are a cooldown apart, and a calendar time
\* wakes an agent once, unless the scan that sent the first was cut off.
WakesOnce == Wake!SpacedOut /\ Wake!CandidateOnce

\* PMTriggerClaim, claim_pending_pm_trigger_event: two pulls claim one event only if
\* they overlap.
ClaimedOnce == Claim!ClaimedOnce

\* PriceRecheck, scan_once: a subscription is sent twice only if its key was lost with a
\* scan or dropped by the limit, and messages are a cooldown apart.
PriceSentOnce == Price!SentOnce /\ Price!SpacedOut

\* FailureAlert, scan_once: the owner hears of a failure once in a cooldown, unless a
\* scan was cut off before it saved.
ToldOncePerCooldown == Alert!ToldOncePerCooldown

\* MemoryRetention, scan_once: no reader misses a row that was pruned.
RetentionUnseen == Retention!RetentionUnseen

\* Learning, the retro's scan: a directive that counts as learned was followed by a
\* write of its file.
CompletedWasWritten == Learn!CompletedWasWritten

\* Notification, _record_events: the events of notifications tell who was told what.
SentIsTold == Notify!SentIsTold

\* MacroDesk, submit_news and submit_macro_brief: what was reported stays.
EventsKept == Desk!EventsKept

\* Every variable of the components that state a type keeps it.
TypesOK ==
  /\ Wake!TypeOK
  /\ Claim!TypeOK
  /\ Learn!TypeOK
  /\ Notify!TypeOK
  /\ Desk!TypeOK
=============================================================================
