-------------------------- MODULE MemoryRetention --------------------------
(***************************************************************************)
(* The retention of memory_assets' rows (memory_retention.py) among those  *)
(* that write and read them (the repositories of assets and portfolios).   *)
(* Every kind of row has a time to live; a scan takes its time once and    *)
(* then prunes one kind after another, each by a DELETE of its own, and    *)
(* leaves a kind alone that has grown too large.  A row that is saved      *)
(* again under its id lives from then on.  Nothing locks the writers out,  *)
(* and a restart between two kinds leaves the rest to a later scan.        *)
(***************************************************************************)
EXTENDS Integers, FiniteSets

CONSTANTS
  Kinds,       \* asset types, and the table of portfolio snapshots
  Ids,         \* the ids of a kind
  TTL,         \* per kind, how long its rows live, in ticks
  Window,      \* per kind, how far back its readers look
  MaxRows,     \* four times max_deletes_per_type_per_scan, 0 for no limit
  Bucket,      \* the length of a bucket of the equity series, in ticks
  MaxTick      \* bound: ticks

VARIABLES
  tick,
  rows,  \* the rows: kind, id and the time of the last save
  ever,  \* history: what the rows were if nothing was ever deleted
  scan   \* per pruner, the pass in progress: its time and the kinds it has yet to prune

vars == <<tick, rows, ever, scan>>

\* The monitor, and the script the operator runs (scripts/prune_memory_assets.py).
Pruner == {"monitor", "script"}
NoScan == [on |-> FALSE, current |-> 0, left |-> {}]

OfKind(S, kind) == {r \in S : r.kind = kind}
Latest(S) == {r \in S : \A q \in S : q.at <= r.at}

\* INSERT OR REPLACE: the row of the id is written anew, its time with it.
\* Mutant of Saved: an id that is known keeps its time.
SavedOnce(S, row) ==
  IF \E r \in S : r.kind = row.kind /\ r.id = row.id THEN S ELSE S \cup {row}

Saved(S, row) == {r \in S : r.kind # row.kind \/ r.id # row.id} \cup {row}

\* The readers: the latest row, the latest of a day ago or before, the rows since
\* a time, and the equity series, the first row of every bucket.
LatestRow(S, kind) == Latest(OfKind(S, kind))
DayAgo(S, kind) == Latest({r \in OfKind(S, kind) : r.at <= tick - Window[kind]})
Since(S, kind) == {r \in OfKind(S, kind) : r.at >= tick - Window[kind]}
Series(S, kind) ==
  {r \in Since(S, kind) : \A q \in Since(S, kind) : q.at \div Bucket = r.at \div Bucket => r.at <= q.at}

\* A backlog is left to a script of the operator's.
TooLarge(kind) == MaxRows > 0 /\ Cardinality(OfKind(rows, kind)) > MaxRows

Kept(kind, current) == {r \in rows : r.kind # kind \/ r.at >= current - TTL[kind]}

-----------------------------------------------------------------------------
Init ==
  /\ tick = 0
  /\ rows = {} /\ ever = {}
  /\ scan = [p \in Pruner |-> NoScan]

Tick ==
  /\ tick < MaxTick
  /\ tick' = tick + 1
  /\ UNCHANGED <<rows, ever, scan>>

Save(kind, id) ==
  LET row == [kind |-> kind, id |-> id, at |-> tick]
  IN /\ rows' = Saved(rows, row)
     /\ ever' = {r \in ever : r.kind # kind \/ r.id # id} \cup {row}
     /\ UNCHANGED <<tick, scan>>

Start(p) ==
  /\ ~scan[p].on
  /\ scan' = [scan EXCEPT ![p] = [on |-> TRUE, current |-> tick, left |-> Kinds]]
  /\ UNCHANGED <<tick, rows, ever>>

Pruned(p, kind) ==
  /\ kind \in scan[p].left
  /\ scan' = [scan EXCEPT ![p].left = @ \ {kind}]
  /\ UNCHANGED <<tick, ever>>

Prune(kind) ==
  /\ Pruned("monitor", kind)
  /\ rows' = IF TooLarge(kind) THEN rows ELSE Kept(kind, scan["monitor"].current)

OfflinePrune(kind) ==
  /\ Pruned("script", kind)
  /\ rows' = Kept(kind, scan["script"].current)

\* The summary is saved; or a DELETE raises, or the process restarts.
End(p) ==
  /\ scan[p].on
  /\ scan' = [scan EXCEPT ![p] = NoScan]
  /\ UNCHANGED <<tick, rows, ever>>

Next ==
  \/ Tick
  \/ \E kind \in Kinds : Prune(kind) \/ OfflinePrune(kind) \/ \E id \in Ids : Save(kind, id)
  \/ \E p \in Pruner : Start(p) \/ End(p)

Spec == Init /\ [][Next]_vars

-----------------------------------------------------------------------------
\* Retention is unseen by readers that look back no further than a kind lives: the
\* latest row within its life, the pair a day apart, the rows since a time and the
\* series read as if no row had ever been deleted (memory_retention_policies,
\* runtime_bridge_macro_market_pair_24h, btc_position_marks_since, equity_timeseries).
RetentionUnseen ==
  \A kind \in Kinds :
    /\ Since(rows, kind) = Since(ever, kind)
    /\ Series(rows, kind) = Series(ever, kind)
    /\ \A r \in LatestRow(ever, kind) : r.at >= tick - TTL[kind] => r \in LatestRow(rows, kind)
    /\ \A r \in DayAgo(ever, kind) : r.at >= tick - TTL[kind] => r \in DayAgo(rows, kind)

\* A kind that has grown too large is pruned in time (MemoryRetentionConfig).  It
\* does not hold: a scan that finds a backlog prunes nothing, however old.
BacklogShrinks ==
  [][\A kind \in Kinds : Pruned("monitor", kind) =>
       \A r \in OfKind(rows', kind) : r.at >= scan["monitor"].current - TTL[kind]]_vars
=============================================================================
