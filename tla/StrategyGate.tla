---------------------------- MODULE StrategyGate ----------------------------
(***************************************************************************)
(* How the PM's strategies come out (agent_gateway, submit_strategy).      *)
(* A submission first passes a gate: it is silent                          *)
(* (internal_reasoning_only) if nothing happened outside since the         *)
(* strategy before it, and a silent strategy neither wakes RT nor tells    *)
(* the owner.  Then the strategy is saved as an asset, saved in a table of *)
(* its own, saved again with what the gate saw, announced, and the lease   *)
(* is consumed: five writes with no transaction around them.               *)
(*                                                                         *)
(* The event loop serves submissions one at a time, submit_news, the       *)
(* source of macro events, among them; the risk brake and RT's trigger are *)
(* threads of their own and move in between.                               *)
(*                                                                         *)
(* What makes the gateway refuse a submission whatever happened outside is *)
(* in PMPanels; a refused submission changes nothing.                      *)
(***************************************************************************)
EXTENDS Integers, Sequences, FiniteSets

CONSTANTS
  Inputs,     \* the input ids of the PM's leases
  Views,      \* what a snapshot can show: a mark and the side of the forecast
  Breach,     \* the difference of two marks that counts as a breach
  MaxOpen,    \* bound: leases that are issued at a time
  MaxFacts,   \* bound: macro and brake events
  MaxSaved,   \* bound: strategies
  MaxCuts     \* bound: submissions that raise or are cut off

VARIABLES
  clock,       \* how many stamps were given out
  facts,       \* the stamps of the macro and brake events
  lease,       \* per input, the lease with its frozen snapshot
  sub,         \* the submission in progress
  strategies,  \* the strategy assets, in the order of their creation
  table,       \* the latest row of the strategies table
  rt,          \* the strategy RT's trigger has seen
  cuts,
  woken        \* history: the strategies for which RT was woken

vars == <<clock, facts, lease, sub, strategies, table, rt, cuts, woken>>

NoSnap == [mark |-> 0, side |-> "none"]
Idle == [pc |-> "idle", input |-> "none", silent |-> FALSE, gate |-> 0]

Last == Len(strategies)
Spoken(k) == ~strategies[k].silent
Reached(k, steps) == strategies[k].upto \in steps
Announced(k) == Reached(k, {"announced", "consumed"})

-----------------------------------------------------------------------------
\* evaluate_strategy_submission_triggers against the strategy k before.

\* Mutant of NewFact: the row's own stamp is compared, which every save renews.
NewFactSinceSave(k) == \E f \in facts : f > strategies[k].created

\* A macro event or a brake event is newer than the strategy.
NewFact(k) == \E f \in facts : f > strategies[k].at

\* A mark has moved, or the forecast has changed sides, since the snapshot that
\* was kept with the strategy; a strategy without one shows neither.
PriceBreach(k, snap) ==
  LET before == strategies[k].snap
  IN before # NoSnap /\ (snap.mark - before.mark >= Breach \/ before.mark - snap.mark >= Breach)

QuantFlip(k, snap) ==
  LET before == strategies[k].snap IN before # NoSnap /\ snap.side # before.side

Silent(i) ==
  /\ Last > 0
  /\ ~lease[i].owner
  /\ ~NewFact(Last)
  /\ ~PriceBreach(Last, lease[i].snap)
  /\ ~QuantFlip(Last, lease[i].snap)

-----------------------------------------------------------------------------
Init ==
  /\ clock = 0
  /\ facts = {}
  /\ lease = [i \in Inputs |-> [status |-> "none", snap |-> NoSnap, owner |-> FALSE]]
  /\ sub = Idle
  /\ strategies = <<>>
  /\ table = 0 /\ rt = 0 /\ cuts = 0
  /\ woken = {}

\* The brake records an event at any time, submit_news between submissions.
RecordFact ==
  /\ Cardinality(facts) < MaxFacts
  /\ clock' = clock + 1
  /\ facts' = facts \cup {clock'}
  /\ UNCHANGED <<lease, sub, strategies, table, rt, cuts, woken>>

\* pull_pm_runtime_input; the market may show anything, the owner may have woken
\* the PM.
Pull(i, v, owner) ==
  /\ lease[i].status = "none"
  /\ Cardinality({j \in Inputs : lease[j].status = "issued"}) < MaxOpen
  /\ lease' = [lease EXCEPT ![i] = [status |-> "issued", snap |-> v, owner |-> owner]]
  /\ UNCHANGED <<clock, facts, sub, strategies, table, rt, cuts, woken>>

\* The lease and the submission are in order; the gate looks back.
Gate(i) ==
  /\ sub.pc = "idle"
  /\ lease[i].status = "issued"
  /\ Last < MaxSaved
  /\ sub' = [pc |-> "gated", input |-> i, silent |-> Silent(i), gate |-> clock]
  /\ UNCHANGED <<clock, facts, lease, strategies, table, rt, cuts, woken>>

\* Mutant of Revision: silent strategies do not count.
RevisionOfSpoken ==
  IF table = 0 THEN 1 ELSE strategies[table].rev + (IF Spoken(table) THEN 1 ELSE 0)

Revision == IF table = 0 THEN 1 ELSE strategies[table].rev + 1

\* materialize_strategy_asset numbers the strategy by the table's latest row.
SaveAsset ==
  /\ sub.pc = "gated"
  /\ clock' = clock + 1
  /\ strategies' = Append(strategies,
       [rev |-> Revision, supersedes |-> table, silent |-> sub.silent, input |-> sub.input,
        gate |-> sub.gate, at |-> clock', created |-> clock', snap |-> NoSnap, upto |-> "saved"])
  /\ sub' = [sub EXCEPT !.pc = "saved"]
  /\ UNCHANGED <<facts, lease, table, rt, cuts, woken>>

Advance(pc) == /\ sub' = [sub EXCEPT !.pc = pc]
               /\ UNCHANGED <<clock, facts, rt, cuts, woken>>

SaveTable ==
  /\ sub.pc = "saved"
  /\ table' = Last
  /\ strategies' = [strategies EXCEPT ![Last].upto = "tabled"]
  /\ Advance("tabled")
  /\ UNCHANGED lease

\* The asset is saved again, with the snapshot of the lease.
SaveSnapshot ==
  /\ sub.pc = "tabled"
  /\ strategies' = [strategies EXCEPT ![Last].snap = lease[sub.input].snap,
                                      ![Last].created = clock, ![Last].upto = "kept"]
  /\ Advance("kept")
  /\ UNCHANGED <<lease, table>>

\* strategy.submitted is recorded, and the owner is told unless it is silent.
Announce ==
  /\ sub.pc = "kept"
  /\ strategies' = [strategies EXCEPT ![Last].upto = "announced"]
  /\ Advance("announced")
  /\ UNCHANGED <<lease, table>>

\* Mutant of Consumed: the lease that was read is saved as it was.
ConsumedLater(i) == lease[i]

Consumed(i) == [status |-> "consumed", snap |-> NoSnap, owner |-> FALSE]

Consume ==
  /\ sub.pc = "announced"
  /\ lease' = [lease EXCEPT ![sub.input] = Consumed(sub.input)]
  /\ strategies' = [strategies EXCEPT ![Last].upto = "consumed"]
  /\ sub' = Idle
  /\ UNCHANGED <<clock, facts, table, rt, cuts, woken>>

\* A write raises, or the process restarts.
CutOff ==
  /\ sub.pc # "idle"
  /\ cuts < MaxCuts
  /\ cuts' = cuts + 1
  /\ sub' = Idle
  /\ UNCHANGED <<clock, facts, lease, strategies, table, rt, woken>>

\* RT's trigger looks at the latest strategy only (_detect_strategy_update).
RTScan ==
  /\ rt < Last
  /\ rt' = Last
  /\ woken' = IF Spoken(Last) THEN woken \cup {Last} ELSE woken
  /\ UNCHANGED <<clock, facts, lease, sub, strategies, table, cuts>>

Next ==
  \/ RecordFact
  \/ \E i \in Inputs : Gate(i) \/ \E v \in Views, owner \in BOOLEAN : Pull(i, v, owner)
  \/ SaveAsset \/ SaveTable \/ SaveSnapshot \/ Announce \/ Consume
  \/ CutOff
  \/ RTScan

Spec == Init /\ [][Next]_vars

-----------------------------------------------------------------------------
Strategy == DOMAIN strategies

\* What happened before a silent strategy was gated was answered by an announced
\* one that is not silent, unless a submission was cut off that knew of it, or it
\* happened while a submission was between its gate and its stamp
\* (evaluate_strategy_submission_triggers).
SilentMeansAnswered ==
  \A k \in Strategy : strategies[k].silent /\ Announced(k) =>
    \A f \in facts : f <= strategies[k].gate =>
      \E j \in 1 .. k - 1 :
        \/ f <= strategies[j].gate /\ (Announced(j) => Spoken(j))
        \/ strategies[j].gate < f /\ f < strategies[j].at

\* A later strategy has a larger revision number and supersedes the one before
\* it, unless that was cut off between its two tables (materialize_strategy_asset).
RevisionsGrow ==
  \A j, k \in Strategy : j < k =>
    \/ Reached(j, {"saved"})
    \/ strategies[j].rev < strategies[k].rev /\ strategies[k].supersedes >= j

\* An input id gives one strategy, unless its submission was cut off before it
\* consumed the lease (submit_strategy).
InputUsedOnce ==
  \A j, k \in Strategy :
    j < k /\ strategies[j].input = strategies[k].input => ~Reached(j, {"consumed"})

\* RT is woken for every strategy that is not silent, or for one after it
\* (specs/modules/workflow_orchestrator/spec.md).  It does not hold: a silent
\* strategy before RT's next scan hides the one it revises.
SpokenWakesRT ==
  \A k \in Strategy : k <= rt /\ Spoken(k) => \E j \in k .. Last : j \in woken
=============================================================================
