---------------------------- MODULE FailureAlert ----------------------------
(***************************************************************************)
(* The monitor that tells the owner of an agent's model failing            *)
(* (workflow_orchestrator/agent_failure_alert.py).  It reads the end of a  *)
(* log that other programs write: lines with a time later than the start   *)
(* of the last scan are new, the latest new failure of a provider and kind *)
(* is told, and none of them again for the cooldown.  A scan keeps its     *)
(* results in one asset at its end; a restart in between loses them.       *)
(***************************************************************************)
EXTENDS Integers, Sequences

CONSTANTS
  Keys,      \* provider and kind of a failure
  Cooldown,  \* the cooldown, in ticks
  TailLines, \* how many lines the end of the log holds
  MaxTick,   \* bound: ticks
  MaxLines   \* bound: lines

VARIABLES
  tick,
  written,  \* the log: per line its time, its failure, and whether it came late
  seen,     \* last_scanned_at_utc, -1 without one
  alerted,  \* last_alerts, -1 without one
  scan,     \* the scan in progress
  told,     \* history: the alerts, and whether a saved state knows of them
  missed    \* history: the lines that had left the end of the log unread

vars == <<tick, written, seen, alerted, scan, told, missed>>

Idle == [pc |-> "idle", current |-> 0, new |-> {}, stamped |-> [k \in Keys |-> -1]]

\* A line without a failure, or whose failure names no provider.
Other == "other"

Fresh(line) == line.at > seen
InTail(k) == k > Len(written) - TailLines

\* Mutant of NewFailures: one failure of a scan is enough.
NewFailuresOne ==
  LET all == {written[k].key : k \in {j \in DOMAIN written : InTail(j) /\ Fresh(written[j])}} \ {Other}
  IN IF all = {} THEN {} ELSE {CHOOSE key \in all : TRUE}

\* The last failure of a key stands for the others.
NewFailures == {written[k].key : k \in {j \in DOMAIN written : InTail(j) /\ Fresh(written[j])}} \ {Other}

Cooling(key) == scan.stamped[key] # -1 /\ scan.current - scan.stamped[key] < Cooldown

-----------------------------------------------------------------------------
Init ==
  /\ tick = 0 /\ written = <<>> /\ seen = -1
  /\ alerted = [key \in Keys |-> -1]
  /\ scan = Idle
  /\ told = {} /\ missed = {}

Tick ==
  /\ tick < MaxTick
  /\ tick' = tick + 1
  /\ UNCHANGED <<written, seen, alerted, scan, told, missed>>

\* Another program writes a line, maybe some time after the time that it carries.
Write(key, at) ==
  /\ Len(written) < MaxLines
  /\ at >= 0
  /\ written' = Append(written,
       [at |-> at, key |-> key, late |-> at <= (IF scan.pc = "alerting" THEN scan.current ELSE seen)])
  /\ UNCHANGED <<tick, seen, alerted, scan, told, missed>>

\* The scan takes its time and the state, then reads the log.
ScanStart ==
  /\ scan.pc = "idle"
  /\ scan' = [Idle EXCEPT !.pc = "started", !.current = tick, !.stamped = alerted]
  /\ UNCHANGED <<tick, written, seen, alerted, told, missed>>

ScanRead ==
  /\ scan.pc = "started"
  /\ scan' = [scan EXCEPT !.pc = "alerting", !.new = NewFailures]
  /\ missed' = missed \cup {k \in DOMAIN written : Fresh(written[k]) /\ ~InTail(k)}
  /\ UNCHANGED <<tick, written, seen, alerted, told>>

\* A failure is told, and counts as told if the notification fails.
Alert(key) ==
  /\ scan.pc = "alerting"
  /\ key \in scan.new
  /\ IF Cooling(key)
       THEN /\ scan' = [scan EXCEPT !.new = @ \ {key}]
            /\ UNCHANGED told
       ELSE /\ scan' = [scan EXCEPT !.new = @ \ {key}, !.stamped[key] = scan.current]
            /\ told' = told \cup {[key |-> key, at |-> scan.current, saved |-> FALSE]}
  /\ UNCHANGED <<tick, written, seen, alerted, missed>>

ScanSave ==
  /\ scan.pc = "alerting" /\ scan.new = {}
  /\ seen' = scan.current
  /\ alerted' = scan.stamped
  /\ told' = {[t EXCEPT !.saved = t.saved \/ scan.stamped[t.key] = t.at] : t \in told}
  /\ scan' = Idle
  /\ UNCHANGED <<tick, written, missed>>

\* The state cannot be read or saved, or the process restarts.
ScanCutOff ==
  /\ scan.pc # "idle"
  /\ scan' = Idle
  /\ UNCHANGED <<tick, written, seen, alerted, told, missed>>

Next ==
  \/ Tick
  \/ \E key \in Keys \cup {Other}, at \in {tick - 1, tick} : Write(key, at)
  \/ ScanStart \/ ScanRead \/ ScanSave \/ ScanCutOff
  \/ \E key \in Keys : Alert(key)

Spec == Init /\ [][Next]_vars

-----------------------------------------------------------------------------
\* A failure that a scan has passed was told, or its key was told less than the
\* cooldown before, unless its line was written late or had left the end of the
\* log; and of two tellings that were saved the later keeps the distance
\* (scan_once, _tail_lines).
ToldOncePerCooldown ==
  /\ \A k \in DOMAIN written :
       LET line == written[k]
       IN line.key # Other /\ line.at <= seen /\ ~line.late /\ k \notin missed =>
            \E t \in told : t.key = line.key /\ t.at > line.at - Cooldown
  /\ \A s, t \in told :
       s.key = t.key /\ s.saved /\ s.at < t.at => t.at - s.at >= Cooldown
=============================================================================
