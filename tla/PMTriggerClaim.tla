---------------------------- MODULE PMTriggerClaim ----------------------------
(***************************************************************************)
(* How the PM learns why it was woken.  A monitor (the recheck monitors,   *)
(* the risk brake) first sends a message to the PM's session and then      *)
(* records a pm_trigger_event (workflow_orchestrator/pm_trigger.py).  The  *)
(* PM, working through its session's messages in order, pulls a runtime    *)
(* pack for each (agent_gateway, _issue_runtime_pack); the pull claims the *)
(* oldest event nobody claimed, by reading it and saving it again with a   *)
(* claim, and records an event of its own when there is none               *)
(* (memory_assets, claim_pending_pm_trigger_event).                        *)
(*                                                                         *)
(* Pulls run in a thread pool, so that two may overlap when one is retried *)
(* or when somebody else pulls for the PM.                                 *)
(***************************************************************************)
EXTENDS Integers, Sequences, FiniteSets

CONSTANTS
  Wakes,      \* the monitors' wakes
  Window,     \* how many events a claim looks back over, 20 in the code
  MaxPulls,   \* bound: pulls
  MaxQueue    \* bound: messages waiting when one of another's is added

VARIABLES
  events,   \* the pm_trigger_event of each wake
  log,      \* the last Window saved events, latest save last; 0 for one a pull made
  queue,    \* the PM session's messages; 0 for one that is no monitor's
  horizon,  \* events detected up to here are too old to claim
  pulls,    \* the pulls, by number; the number stands for the trace id
  races     \* history: the pairs of pulls that overlapped

vars == <<events, log, queue, horizon, pulls, races>>

Pull == 1 .. MaxPulls
Stamp == 0 .. Cardinality(Wakes)

Event ==
  [pc        : {"none", "sent", "saved", "never"},
   at        : Stamp,          \* detected_at_utc
   claimable : BOOLEAN,        \* the message went out
   claim     : {0} \cup Pull]  \* claimed_ref, 0 if unclaimed

PullState ==
  [pc     : {"none", "read", "claimed", "issued", "failed"},
   owed   : {0} \cup Wakes,    \* history: the wake it answers, if its event was there to claim
   got    : {0} \cup Wakes]    \* the event it claims

TypeOK ==
  /\ events \in [Wakes -> Event]
  /\ \A i \in DOMAIN log : log[i] # 0 => \A j \in DOMAIN log : log[j] = log[i] => j = i
  /\ log \in Seq({0} \cup Wakes) /\ Len(log) <= Window
  /\ queue \in Seq({0} \cup Wakes)
  /\ horizon \in Stamp
  /\ pulls \in [Pull -> PullState]
  /\ races \subseteq SUBSET Pull

NextStamp == Cardinality({w \in Wakes : events[w].pc # "none"}) + 1

Recent == {w \in Wakes : \E i \in DOMAIN log : log[i] = w}

\* Mutant of Candidates: events that were claimed before count too.
CandidatesAnyway ==
  {w \in Recent : events[w].claimable /\ events[w].at > horizon}

Candidates ==
  {w \in Recent :
     /\ events[w].claim = 0
     /\ events[w].claimable
     /\ events[w].at > horizon}

Oldest(S) ==
  IF S = {} THEN 0 ELSE CHOOSE w \in S : \A v \in S : events[w].at <= events[v].at

Kept(s) == IF Len(s) > Window THEN Tail(s) ELSE s

\* INSERT OR REPLACE moves an event to the end.
Saved(w) == Kept(Append(IF w = 0 THEN log ELSE SelectSeq(log, LAMBDA v : v # w), w))

-----------------------------------------------------------------------------
Init ==
  /\ events = [w \in Wakes |-> [pc |-> "none", at |-> 0, claimable |-> FALSE, claim |-> 0]]
  /\ log = <<>>
  /\ queue = <<>>
  /\ horizon = 0
  /\ pulls = [p \in Pull |-> [pc |-> "none", owed |-> 0, got |-> 0]]
  /\ races = {}

\* send_to_session, which may fail to start the CLI.
Send(w, ok) ==
  /\ events[w].pc = "none"
  /\ events' = [events EXCEPT ![w] = [pc |-> "sent", at |-> NextStamp, claimable |-> ok, claim |-> @.claim]]
  /\ queue' = IF ok THEN Append(queue, w) ELSE queue
  /\ UNCHANGED <<log, horizon, pulls, races>>

\* record_pm_trigger_event.
Record(w) ==
  /\ events[w].pc = "sent"
  /\ events' = [events EXCEPT ![w].pc = "saved"]
  /\ log' = Saved(w)
  /\ UNCHANGED <<queue, horizon, pulls, races>>

\* The monitor's scan is cut off between the message and the event.
NeverRecorded(w) ==
  /\ events[w].pc = "sent"
  /\ events' = [events EXCEPT ![w].pc = "never"]
  /\ UNCHANGED <<log, queue, horizon, pulls, races>>

\* A cron run, another agent or the owner writes to the PM's session.
OtherMessage ==
  /\ Len(queue) < MaxQueue
  /\ queue' = Append(queue, 0)
  /\ UNCHANGED <<events, log, horizon, pulls, races>>

\* Half an hour has passed since one more of the detections.
Expire ==
  /\ horizon + 1 < NextStamp
  /\ horizon' = horizon + 1
  /\ UNCHANGED <<events, log, queue, pulls, races>>

-----------------------------------------------------------------------------
Unused == {p \in Pull : pulls[p].pc = "none"}
NextPull == CHOOSE p \in Unused : \A q \in Unused : p <= q

Reading(p) == pulls[p].pc = "read"

DueEvents == {w \in Wakes : events[w].pc = "saved" /\ events[w].at > horizon}

PullRead(cause) ==
  /\ Unused # {}
  /\ pulls' = [pulls EXCEPT ![NextPull] =
                 [pc |-> "read", owed |-> IF cause \in DueEvents THEN cause ELSE 0,
                  got |-> Oldest(Candidates)]]
  /\ races' = races \cup {{p, NextPull} : p \in {p \in Pull : Reading(p)}}
  /\ UNCHANGED <<events, log, horizon>>

\* The PM takes the next message of its session.
PMPulls ==
  /\ queue # <<>>
  /\ PullRead(Head(queue))
  /\ queue' = Tail(queue)

\* Somebody else pulls, or the PM pulls again.
ExtraPull == PullRead(0) /\ UNCHANGED queue

PullClaim(p) ==
  /\ Reading(p)
  /\ pulls' = [pulls EXCEPT ![p].pc = "claimed"]
  /\ events' = IF pulls[p].got = 0 THEN events
               ELSE [events EXCEPT ![pulls[p].got].claim = p]
  /\ log' = Saved(pulls[p].got)
  /\ UNCHANGED <<queue, horizon, races>>

\* The rest of the pull may fail, for want of a market snapshot for instance.
PullEnd(p, ok) ==
  /\ pulls[p].pc = "claimed"
  /\ pulls' = [pulls EXCEPT ![p].pc = IF ok THEN "issued" ELSE "failed"]
  /\ UNCHANGED <<events, log, queue, horizon, races>>

Next ==
  \/ \E w \in Wakes : Record(w) \/ NeverRecorded(w) \/ \E ok \in BOOLEAN : Send(w, ok)
  \/ OtherMessage \/ Expire
  \/ PMPulls \/ ExtraPull
  \/ \E p \in Pull : PullClaim(p) \/ \E ok \in BOOLEAN : PullEnd(p, ok)

Spec == Init /\ [][Next]_vars

-----------------------------------------------------------------------------
Claimed(p) == pulls[p].pc \in {"claimed", "issued", "failed"} /\ pulls[p].got # 0

\* Two pulls take the same event only if they overlapped: a claim that is saved
\* is seen by every later pull, wherever the event then stands in the log
\* (claim_pending_pm_trigger_event).
ClaimedOnce ==
  \A p, q \in Pull :
    Claimed(p) /\ Claimed(q) /\ p # q /\ pulls[p].got = pulls[q].got => {p, q} \in races

\* The event in a pack bears the claim of that pack, as
\* test_pull_pm_runtime_input_uses_latest_pm_trigger_event_for_trigger_type
\* asserts.  It does not hold when pulls overlap.
ClaimIsOfPack ==
  \A p \in Pull :
    pulls[p].pc = "issued" /\ pulls[p].got # 0 => events[pulls[p].got].claim = p

\* The pack pulled for a wake whose event is there to claim carries that event
\* (skills/pm-strategy-cycle/references/price-rechecks-authoring.md).  It does
\* not hold: another pull may have taken it, or an older event is taken first.
PackExplainsWake == \A p \in Pull : pulls[p].owed # 0 => pulls[p].got = pulls[p].owed
=============================================================================
