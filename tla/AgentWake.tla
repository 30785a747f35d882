------------------------------- MODULE AgentWake -------------------------------
(***************************************************************************)
(* The rule-driven wake monitor (workflow_orchestrator/agent_wake.py).     *)
(* One thread scans the rules in order.  A rule fires when the calendar    *)
(* crosses one of its times or when no strategy was submitted for long     *)
(* enough, and then rests for a cooldown.  What every rule did is kept in  *)
(* one asset, which a scan loads at its start and saves at its end: the    *)
(* agents are messaged in between, and a scan that raises saves nothing of *)
(* what it did.                                                            *)
(***************************************************************************)
EXTENDS Integers, FiniteSets

CONSTANTS
  Rules,       \* how many rules; they are numbered in the order of the configuration
  Cron,        \* the calendar times of each rule
  Silence,     \* the silence that fires a rule, 0 if it has no such predicate
  CronRun,     \* the rules that run a cron job, which needs no message
  Cooldown,    \* the rest after a firing
  MaxTime,     \* bound: the clock
  MaxAborts    \* bound: scans that raise or are cut off

Rule == 1 .. Rules
Time == 1 .. MaxTime
Never == 0
Stamp == Time \cup {Never}

VARIABLES
  now,        \* the clock
  strategy,   \* when the latest strategy was submitted
  saved,      \* the asset: what is known of each rule
  scan,       \* the scan that runs
  sent,       \* history: the messages sent
  first,      \* history: the first evaluation saved for each rule
  aborts      \* how many scans were cut off

vars == <<now, strategy, saved, scan, sent, first, aborts>>

RuleState == [eval : Stamp, fire : Stamp]  \* _last_eval_at_utc, last_fire_at_utc

Message ==
  [rule    : Rule,
   at      : Time,
   cron    : SUBSET Time,  \* the calendar times it answers
   base    : Stamp,        \* the evaluation before it
   kept    : BOOLEAN]      \* its scan was saved

Scan ==
  [next  : 0 .. Rules + 1,     \* the rule to evaluate; 0 when no scan runs
   at    : Stamp,              \* the time the scan goes by
   rules : [Rule -> RuleState],
   fired : SUBSET Message]

NoScan == [next |-> 0, at |-> Never,
           rules |-> [r \in Rule |-> [eval |-> Never, fire |-> Never]], fired |-> {}]

\* No scan runs ahead of the clock or knows of an evaluation later than itself.
TypeOK ==
  /\ now \in Time
  /\ strategy \in Stamp
  /\ saved \in [Rule -> RuleState]
  /\ scan.next \in 0 .. Rules + 1 /\ scan.at \in 0 .. now
  /\ scan.rules \in [Rule -> RuleState]
  /\ scan.fired \subseteq sent
  /\ \A r \in Rule : scan.rules[r].eval <= scan.at /\ scan.rules[r].fire <= scan.at
  /\ \A m \in sent : m.rule \in Rule /\ m.at \in 1 .. now /\ m.cron \subseteq Cron[m.rule]
  /\ first \in [Rule -> Stamp]
  /\ aborts \in 0 .. MaxAborts

-----------------------------------------------------------------------------
Evaluating(r) == scan.next = r

\* Mutant of CoolingDown: the rest is one unit short.
CoolingDownShort(r) ==
  LET fire == scan.rules[r].fire IN fire # Never /\ scan.at - fire < Cooldown - 1

CoolingDown(r) ==
  LET fire == scan.rules[r].fire IN fire # Never /\ scan.at - fire < Cooldown

\* The calendar times between the last evaluation and this scan.
Crossed(r) ==
  IF scan.rules[r].eval = Never THEN {}
  ELSE {c \in Cron[r] : scan.rules[r].eval < c /\ c <= scan.at}

Silent(r) ==
  Silence[r] > 0 /\ (strategy = Never \/ scan.at - strategy >= Silence[r])

Fires(r) == ~CoolingDown(r) /\ (Crossed(r) # {} \/ Silent(r))

Evaluated(r) == [scan.rules EXCEPT ![r].eval = scan.at]

\* Mutant of Fired: only the firing is stamped.
FiredOnly(r) == [scan.rules EXCEPT ![r].fire = scan.at]

Fired(r) == [Evaluated(r) EXCEPT ![r].fire = scan.at]

-----------------------------------------------------------------------------
Init ==
  /\ now = 1
  /\ strategy \in {Never, 1}
  /\ saved = NoScan.rules
  /\ scan = NoScan
  /\ sent = {}
  /\ first = [r \in Rule |-> Never]
  /\ aborts = 0

Tick ==
  /\ now < MaxTime
  /\ now' = now + 1
  /\ UNCHANGED <<strategy, saved, scan, sent, first, aborts>>

SubmitStrategy ==
  /\ strategy' = now
  /\ UNCHANGED <<now, saved, scan, sent, first, aborts>>

ScanStart ==
  /\ scan.next = 0
  /\ scan' = [next |-> 1, at |-> now, rules |-> saved, fired |-> {}]
  /\ UNCHANGED <<now, strategy, saved, sent, first, aborts>>

\* The rule rests, or none of its predicates holds.
Pass(r) ==
  /\ Evaluating(r)
  /\ ~Fires(r)
  /\ scan' = [scan EXCEPT !.next = r + 1, !.rules = Evaluated(r)]
  /\ UNCHANGED <<now, strategy, saved, sent, first, aborts>>

\* The cron job that holds the message cannot be read.
NoMessage(r) ==
  /\ Evaluating(r)
  /\ Fires(r) /\ r \notin CronRun
  /\ scan' = [scan EXCEPT !.next = r + 1, !.rules = Evaluated(r)]
  /\ UNCHANGED <<now, strategy, saved, sent, first, aborts>>

\* The agent is messaged, which may fail; a failed attempt counts as a firing.
Fire(r, ok) ==
  /\ Evaluating(r)
  /\ Fires(r)
  /\ LET message == [rule |-> r, at |-> scan.at, cron |-> Crossed(r),
                     base |-> scan.rules[r].eval, kept |-> FALSE]
         new == IF ok THEN {message} ELSE {}
     IN /\ scan' = [scan EXCEPT !.next = r + 1, !.rules = Fired(r), !.fired = @ \cup new]
        /\ sent' = sent \cup new
  /\ UNCHANGED <<now, strategy, saved, first, aborts>>

ScanSave ==
  /\ scan.next = Rules + 1
  /\ saved' = scan.rules
  /\ scan' = NoScan
  /\ sent' = (sent \ scan.fired) \cup {[m EXCEPT !.kept = TRUE] : m \in scan.fired}
  /\ first' = [r \in Rule |-> IF first[r] = Never THEN scan.rules[r].eval ELSE first[r]]
  /\ UNCHANGED <<now, strategy, aborts>>

\* Reading a strategy, recording the event of a firing or saving the asset
\* raises, or the process restarts; the error is saved with the rules as loaded.
ScanAbort ==
  /\ scan.next # 0
  /\ aborts < MaxAborts
  /\ aborts' = aborts + 1
  /\ scan' = NoScan
  /\ UNCHANGED <<now, strategy, saved, sent, first>>

Next ==
  \/ Tick \/ SubmitStrategy
  \/ ScanStart \/ ScanSave \/ ScanAbort
  \/ \E r \in Rule : Pass(r) \/ NoMessage(r) \/ \E ok \in BOOLEAN : Fire(r, ok)

Spec == Init /\ [][Next]_vars

-----------------------------------------------------------------------------
\* Two messages of a rule are a cooldown apart, unless the scan that sent the
\* earlier was cut off before it saved that (scan_once).
SpacedOut ==
  \A m, n \in sent :
    m.rule = n.rule /\ m.at < n.at /\ n.at - m.at < Cooldown => ~m.kept

\* A calendar time wakes an agent once, unless the scan that sent the first
\* message was cut off (_cron_predicate_fired).
CandidateOnce ==
  \A m, n \in sent :
    m.rule = n.rule /\ m # n /\ m.cron \cap n.cron # {} => ~m.kept \/ ~n.kept

\* A calendar time that saved scans went past woke the agent, or fell into the
\* rest after another message ("fire each calendar candidate exactly once").  It
\* does not hold: a message that could not be read or sent counts all the same.
WitnessedCandidateFires ==
  \A r \in Rule : \A c \in Cron[r] :
    first[r] # Never /\ first[r] < c /\ c <= saved[r].eval =>
      \E m \in sent : m.rule = r /\ (c \in m.cron \/ (m.at < c /\ c - m.at < Cooldown))

\* The first scan after a cold start sends nothing
\* (docs/dispatch-and-sessions.md).  It does not hold: with no recent strategy the
\* silence predicate fires.
FirstScanOnlyRecords == \A m \in sent : m.base # Never
=============================================================================
