--------------------------- MODULE RTTacticalMap ---------------------------
(***************************************************************************)
(* RT's standing tactical map: what a pull tells RT of it, when it asks    *)
(* for a new one, and what submit_execution accepts in answer              *)
(* (agent_gateway, memory_assets).                                         *)
(*                                                                         *)
(* A map is kept under the strategy and the lock mode of the pack it was   *)
(* drawn for, and serves only packs of the same two.  Several packs may be *)
(* open at a time; each is answered by what was frozen in it, while the    *)
(* PM, the risk brake, RT's trigger and the runtime bridge move on.  How   *)
(* the locks come and go is in RiskBrake and RTTrigger; here they come at  *)
(* any time, and go after a new strategy.                                  *)
(***************************************************************************)
EXTENDS Integers, Sequences, FiniteSets

CONSTANTS
  Leases,       \* the leases that may be open at once
  Coins,
  Reasons,      \* the reasons of RT's trigger
  MapReasons,   \* those of them for which a map is asked for
  LockModes,    \* the modes the brake locks with
  Look,         \* how many maps are looked back at
  MaxRevision,  \* bound: strategies
  MaxMaps,      \* bound: maps
  MaxLocks      \* bound: brake events

VARIABLES
  strategy,  \* the key of the latest strategy, 0 without one
  targets,   \* the coins whose target is active
  held,      \* the coins held on their target's side
  lock,      \* the lock in force, and the strategy it was set under
  event,     \* the lock mode of the latest brake event, "none" once it is old
  policies,  \* the lock mode of the policies in the bridge's snapshot
  trigger,   \* the reason of the latest trigger event, "none" once it is old
  maps,      \* the tactical maps, the latest last
  lease,     \* per lease, what its pack holds
  locked     \* brake events so far

vars == <<strategy, targets, held, lock, event, policies, trigger, maps, lease, locked>>

Modes == <<"none", "reduce_only", "flat_only">>
Rank(mode) == CHOOSE n \in DOMAIN Modes : Modes[n] = mode
Stricter(m, n) == IF Rank(m) >= Rank(n) THEN m ELSE n

NoPack == [open |-> FALSE]

-----------------------------------------------------------------------------
\* The event's mode counts only while the brake's own state still has a lock.
LockStatus == IF event = "none" THEN "none" ELSE IF lock.mode # "none" THEN "active" ELSE "released"

EventLock == IF LockStatus = "active" THEN event ELSE "none"

\* _rt_lock_mode_from_payload: the strictest that the pack shows.
ShownLock == Stricter(EventLock, policies)

\* _rt_pending_entry_symbols: active, unlocked, and not held as the target says.
Pending(mode) == IF mode \in {"reduce_only", "flat_only"} THEN {} ELSE targets \ held

\* _missing_first_entry_plan_symbols.
Missing(plans, required) == required \ plans

\* latest_rt_tactical_map, among the last ones: 0 if none fits.
Compatible(key, mode) ==
  LET fits == {k \in DOMAIN maps : k > Len(maps) - Look /\ maps[k].key = key
                                     /\ maps[k].lock = mode /\ maps[k].plans # {}}
  IN IF fits = {} THEN 0 ELSE CHOOSE k \in fits : \A j \in fits : j <= k

\* _standing_rt_tactical_map: one that lacks a first entry is withheld.
Standing(key, mode) ==
  LET k == Compatible(key, mode)
  IN IF k # 0 /\ Missing(maps[k].plans, Pending(mode)) = {} THEN k ELSE 0

Last == Len(maps)
LatestKey == IF maps = <<>> THEN 0 ELSE maps[Last].key
LatestLock == IF maps = <<>> THEN "none" ELSE maps[Last].lock

\* Mutant of RefreshReason: the trigger alone asks for a map.
RefreshByTrigger(key, mode) ==
  IF Standing(key, mode) = 0 /\ trigger \in MapReasons THEN trigger ELSE "none"

\* _build_rt_trigger_delta: whether, and why, a map is asked for.
RefreshReason(key, mode) ==
  IF Standing(key, mode) # 0 THEN "none"
  ELSE IF Compatible(key, mode) # 0 THEN "missing_first_entry_plan"
  ELSE IF key # 0 /\ key # LatestKey THEN "pm_strategy_revision"
  ELSE IF mode # LatestLock /\ mode # "none" THEN "risk_lock_changed"
  ELSE IF trigger \in MapReasons THEN trigger ELSE "none"

MapStatus(key, mode) ==
  IF Standing(key, mode) # 0 THEN "compatible"
  ELSE IF maps = <<>> THEN "missing"
  ELSE IF Compatible(key, mode) # 0 THEN "missing_first_entry_plan"
  ELSE IF LatestKey # 0 /\ LatestKey # key THEN "stale_strategy"
  ELSE IF LatestLock # mode THEN "stale_lock_mode" ELSE "empty"

Pack ==
  [open |-> TRUE, key |-> strategy, lock |-> ShownLock, pending |-> Pending(ShownLock),
   standing |-> Standing(strategy, ShownLock), status |-> MapStatus(strategy, ShownLock),
   refresh |-> RefreshReason(strategy, ShownLock)]

-----------------------------------------------------------------------------
Init ==
  /\ strategy = 0 /\ targets = {} /\ held = {}
  /\ lock = [mode |-> "none", key |-> 0]
  /\ event = "none" /\ policies = "none" /\ trigger = "none"
  /\ maps = <<>>
  /\ lease = [l \in Leases |-> NoPack]
  /\ locked = 0

Pull(l) ==
  /\ ~lease[l].open
  /\ lease' = [lease EXCEPT ![l] = Pack]
  /\ UNCHANGED <<strategy, targets, held, lock, event, policies, trigger, maps, locked>>

\* The entry gap is covered by an order for one of its coins or by a recheck.
Covers(opens, recheck, pending) == recheck \/ opens \cap pending # {}

\* submit_execution without a map, and with one; what is refused changes nothing
\* and may be sent again.
Answer(l, opens, recheck) ==
  /\ lease[l].open
  /\ lease[l].pending # {} => Covers(opens, recheck, lease[l].pending)
  /\ held' = held \cup opens
  /\ lease' = [lease EXCEPT ![l] = NoPack]
  /\ UNCHANGED <<strategy, targets, lock, event, policies, trigger, locked>>

SubmitWithoutMap(l, opens, recheck) ==
  /\ Answer(l, opens, recheck)
  /\ lease[l].refresh = "none"
  /\ UNCHANGED maps

SubmitMap(l, opens, recheck, plans) ==
  /\ Answer(l, opens, recheck)
  /\ Missing(plans, lease[l].pending) = {}
  /\ Last < MaxMaps
  /\ maps' = Append(maps, [key |-> lease[l].key, lock |-> lease[l].lock, plans |-> plans,
                           pending |-> lease[l].pending])

-----------------------------------------------------------------------------
PMRevises(active) ==
  /\ strategy < MaxRevision
  /\ strategy' = strategy + 1
  /\ targets' = active
  /\ UNCHANGED <<held, lock, event, policies, trigger, maps, lease, locked>>

\* The order that closes or turns a position.
PositionEnds(c) ==
  /\ c \in held
  /\ held' = held \ {c}
  /\ UNCHANGED <<strategy, targets, lock, event, policies, trigger, maps, lease, locked>>

\* A scope's own lock may be weaker than the one that another scope holds.
BrakeLocks(mode) ==
  /\ locked < MaxLocks
  /\ locked' = locked + 1
  /\ event' = mode
  /\ lock' = [mode |-> Stricter(lock.mode, mode), key |-> strategy]
  /\ UNCHANGED <<strategy, targets, held, policies, trigger, maps, lease>>

BrakeReleases ==
  /\ lock.mode # "none"
  /\ lock.key # strategy
  /\ lock' = [lock EXCEPT !.mode = "none"]
  /\ UNCHANGED <<strategy, targets, held, event, policies, trigger, maps, lease, locked>>

BridgeRefreshes ==
  /\ policies' = lock.mode
  /\ UNCHANGED <<strategy, targets, held, lock, event, trigger, maps, lease, locked>>

TriggerFires(reason) ==
  /\ trigger' = reason
  /\ UNCHANGED <<strategy, targets, held, lock, event, policies, maps, lease, locked>>

\* Half an hour after the trigger, two hours after the brake.
Ages == \/ /\ trigger' = "none" /\ trigger # "none"
           /\ UNCHANGED <<strategy, targets, held, lock, event, policies, maps, lease, locked>>
        \/ /\ event' = "none" /\ event # "none"
           /\ UNCHANGED <<strategy, targets, held, lock, policies, trigger, maps, lease, locked>>

Next ==
  \/ \E l \in Leases :
       \/ Pull(l)
       \/ \E opens \in SUBSET Coins, recheck \in BOOLEAN :
            \/ SubmitWithoutMap(l, opens, recheck)
            \/ \E plans \in SUBSET Coins : SubmitMap(l, opens, recheck, plans)
  \/ \E active \in SUBSET Coins : PMRevises(active)
  \/ \E c \in Coins : PositionEnds(c)
  \/ \E mode \in LockModes : BrakeLocks(mode)
  \/ BrakeReleases \/ BridgeRefreshes \/ Ages
  \/ \E reason \in Reasons : TriggerFires(reason)

Spec == Init /\ [][Next]_vars

-----------------------------------------------------------------------------
Pulled(l) == ~lease[l].open /\ lease'[l].open

\* RT is asked for a map as long as it has none, and not again once it has drawn
\* one for the same strategy, lock and entries: a pack without a map that asks for
\* none comes after a map of the same strategy, drawn under a lock that is gone or
\* for no coin at all, or before the first strategy
\* (_build_rt_trigger_delta, submit_execution).
AskedUntilDrawn ==
  [][\A l \in Leases : Pulled(l) =>
       LET pack == lease'[l]
       IN /\ pack.standing = 0 /\ pack.refresh = "none" /\ pack.key # 0 =>
               /\ maps # <<>> /\ maps[Last].key = pack.key
               /\ (maps[Last].lock # "none" /\ pack.lock = "none") \/ maps[Last].plans = {}
          /\ pack.refresh # "none" /\ maps # <<>> =>
               LET latest == maps[Last]
               IN latest.plans = {} \/ <<latest.key, latest.lock, latest.pending>> # <<pack.key, pack.lock, pack.pending>>
          /\ pack.status = "compatible" => pack.refresh = "none"
     ]_vars
=============================================================================
