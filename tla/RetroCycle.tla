------------------------------ MODULE RetroCycle ------------------------------
(***************************************************************************)
(* The daily retro (workflow_orchestrator/retro_prep.py).  A scan finds or *)
(* creates the cycle and the case of the day, has the acting agents write  *)
(* their briefs, wakes the Chief, and, once the Chief's retro is there,    *)
(* hands out its learning directives and closes the cycle.  Scans are made *)
(* by the monitor's loop, inside the window before midnight, and by the    *)
(* run_retro_prep command, on a worker thread and at any hour.  A scan     *)
(* keeps the cycle it read at its start and saves that copy with what it   *)
(* found out, minutes later.                                               *)
(***************************************************************************)
EXTENDS Integers, Sequences, FiniteSets, Functions

CONSTANTS
  Briefers,     \* the roles that write a brief
  LearningRoles,  \* the roles a directive goes to, in this order
  DayLength,    \* ticks of a UTC day
  Window,       \* the tick of the day from which the loop scans, until midnight
  BriefTicks,   \* ticks from the creation of a cycle to the brief deadline
  ChiefTicks,   \* ticks from there to the Chief's deadline
  MaxTime,      \* bound: the clock
  MaxRetros,    \* bound: retros the Chief submits
  MaxFaults     \* bound: run_retro_prep commands and scans that are cut off, together

ASSUME RolesAssumption ==
  IsFiniteSet(Briefers) /\ LearningRoles \in Seq(Range(LearningRoles)) /\ LearningRoles # <<>>
ASSUME TimeAssumption ==
  /\ DayLength \in Nat \ {0} /\ Window \in 1 .. DayLength - 1 /\ BriefTicks \in Nat
  /\ ChiefTicks \in Nat
ASSUME BoundsAssumption ==
  MaxTime \in Nat /\ MaxRetros \in Nat /\ MaxFaults \in Nat

VARIABLES
  clock,
  cycle,       \* the cycles, in the order they were created
  latest,      \* per day, the cycle that was saved last
  case,        \* the cases, in the order they were created
  briefs,      \* per case, the roles whose brief is stored
  retro,       \* per case, the Chief's latest retro
  directive,   \* per case, the roles whose learning directive is stored
  scan,        \* the scan under way in each thread
  retros, faults,
  dispatched,  \* history: how often the Chief was woken on a day
  overlapped,  \* history: the days two scans worked on at once
  cut          \* history: the days a scan was cut off at a delicate step

vars == <<clock, cycle, latest, case, briefs, retro, directive, scan,
          retros, faults, dispatched, overlapped, cut>>

Learners == Range(LearningRoles)
Thread == {"loop", "command"}
DayOf(t) == t \div DayLength
Day == 0 .. DayOf(MaxTime)
InWindow(t) == t % DayLength >= Window

None == 0
Phase == {"case_created", "brief_collection", "chief_pending", "degraded", "completed", "failed"}
DispatchStatus == {"none", "chief_running", "dispatched", "dispatch_error", "completed"}
\* A retro has a directive for every role, or lacks one.
Retro == {"none", "lacking", "full"}
Steps == {"create", "prepare", "briefs", "dispatch", "record", "learn", "teach", "finish"}

\* The steps after which something is done and not yet recorded.
Delicate == {"record", "teach"}

Ids(s) == 0 .. Len(s)

Cycle ==
  [day : Day, state : Phase, case : Ids(case), deadline : Nat,
   dispatch : DispatchStatus, retro : BOOLEAN]

NewCycle(t) ==
  [day |-> DayOf(t), state |-> "case_created", case |-> None, deadline |-> t + BriefTicks,
   dispatch |-> "none", retro |-> FALSE]

Scan ==
  [pc : Steps, at : 0 .. MaxTime, id : Ids(cycle), copy : Cycle, case : Ids(case),
   ready : SUBSET Briefers, left : Seq(Learners)]

Idle == [pc |-> "idle"]
Busy(s) == scan[s] # Idle
DayOfScan(s) == DayOf(scan[s].at)

TypeOK ==
  /\ clock \in 0 .. MaxTime
  /\ cycle \in Seq(Cycle)
  /\ latest \in [Day -> Ids(cycle)]
  /\ case \in Seq([day : Day, cycle : 1 .. Len(cycle)])
  /\ briefs \in [DOMAIN case -> SUBSET Briefers]
  /\ retro \in [DOMAIN case -> Retro]
  /\ directive \in [DOMAIN case -> SUBSET Learners]
  /\ \A s \in Thread : Busy(s) => scan[s] \in Scan
  /\ retros \in 0 .. MaxRetros /\ faults \in 0 .. MaxFaults
  /\ dispatched \in [Day -> Nat]
  /\ overlapped \subseteq Day
  /\ cut \subseteq Day \X Delicate

-----------------------------------------------------------------------------
Init ==
  /\ clock = Window
  /\ cycle = <<>> /\ latest = [d \in Day |-> None]
  /\ case = <<>> /\ briefs = <<>> /\ retro = <<>> /\ directive = <<>>
  /\ scan = [s \in Thread |-> Idle]
  /\ retros = 0 /\ faults = 0
  /\ dispatched = [d \in Day |-> 0]
  /\ overlapped = {} /\ cut = {}

Assets == <<cycle, latest, case, briefs, retro, directive>>
Counters == <<retros, faults>>
History == <<dispatched, overlapped, cut>>

\* Saving a cycle replaces its row and makes it the latest of its day.
SaveCycle(id, record) ==
  /\ cycle' = [cycle EXCEPT ![id] = record]
  /\ latest' = [latest EXCEPT ![record.day] = id]

Go(s, pc) == scan' = [scan EXCEPT ![s].pc = pc]
End(s) == scan' = [scan EXCEPT ![s] = Idle]

\* The latest case of a day.
CaseOfDay(d) ==
  LET ids == {k \in DOMAIN case : case[k].day = d}
  IN IF ids = {} THEN None ELSE CHOOSE k \in ids : \A j \in ids : j <= k

-----------------------------------------------------------------------------
\* Mutant of Looked: the retro is asked for only when the briefs are in.
LookedForBriefs(record, k, readBriefs, readRetro) ==
  [record EXCEPT !.pc = "briefs", !.case = k, !.ready = readBriefs]

\* What a scan that has found case k sees there: the retro as it is now, or else the
\* briefs, ready.  left holds the directives the retro carries.
Looked(record, k, readBriefs, readRetro) ==
  [record EXCEPT !.pc = IF readRetro = "none" THEN "briefs" ELSE "learn",
                 !.case = k,
                 !.ready = IF readRetro = "none" THEN readBriefs ELSE {},
                 !.left = IF readRetro = "full" THEN LearningRoles ELSE <<>>]

\* The case the cycle names, or else the latest of the day, if there is one.
FindCase(record) ==
  LET k == IF record.copy.case # None THEN record.copy.case ELSE CaseOfDay(DayOf(record.at))
  IN IF k = None THEN [record EXCEPT !.pc = "prepare"]
     ELSE Looked(record, k, briefs[k], retro[k])

\* The loop scans in the window, a command at any hour.  The hour and the day of
\* the scan are those of its start.
ScanStart(s) ==
  /\ ~Busy(s)
  /\ IF s = "loop"
     THEN InWindow(clock) /\ UNCHANGED faults
     ELSE faults < MaxFaults /\ faults' = faults + 1
  /\ LET d == DayOf(clock)
         id == latest[d]
         record == [pc |-> "create", at |-> clock, id |-> id,
                    copy |-> IF id = None THEN NewCycle(clock) ELSE cycle[id],
                    case |-> None, ready |-> {}, left |-> <<>>]
     IN /\ scan' = [scan EXCEPT ![s] = IF id = None THEN record ELSE FindCase(record)]
        /\ overlapped' = IF \E o \in Thread \ {s} : Busy(o) /\ DayOfScan(o) = d
                         THEN overlapped \cup {d} ELSE overlapped
  /\ UNCHANGED <<clock, Assets, retros, dispatched, cut>>

CreateCycle(s) ==
  /\ Busy(s) /\ scan[s].pc = "create"
  /\ cycle' = Append(cycle, scan[s].copy)
  /\ latest' = [latest EXCEPT ![DayOfScan(s)] = Len(cycle')]
  /\ scan' = [scan EXCEPT ![s] = FindCase([@ EXCEPT !.id = Len(cycle')])]
  /\ UNCHANGED <<clock, case, briefs, retro, directive, Counters, History>>

\* Mutant of DayOfCase: the day on which the facts were there.
DayOfCaseNow(s) == DayOf(clock)

DayOfCase(s) == DayOfScan(s)

\* The facts of the day are collected, which may take minutes, and a new case is
\* made of them, whatever another scan did in the meantime.
PrepareCase(s) ==
  /\ Busy(s) /\ scan[s].pc = "prepare"
  /\ case' = Append(case, [day |-> DayOfCase(s), cycle |-> scan[s].id])
  /\ briefs' = Append(briefs, {})
  /\ retro' = Append(retro, "none")
  /\ directive' = Append(directive, {})
  /\ scan' = [scan EXCEPT ![s] = Looked(@, Len(case'), {}, "none")]
  /\ UNCHANGED <<clock, cycle, latest, Counters, History>>

\* The facts could not be collected: the scan ends with an error.
PrepareFails(s) ==
  /\ Busy(s) /\ scan[s].pc = "prepare"
  /\ End(s)
  /\ UNCHANGED <<clock, Assets, Counters, History>>

DeadlinePassed(s) == scan[s].at > scan[s].copy.deadline

\* Mutant of PhaseAfterBriefs: missing briefs degrade the cycle at once.
PhaseWithoutWait(s, ready) == IF ready = Briefers THEN "chief_pending" ELSE "degraded"

PhaseAfterBriefs(s, ready) ==
  IF ready = Briefers THEN "chief_pending"
  ELSE IF DeadlinePassed(s) THEN "degraded" ELSE "brief_collection"

\* Until the deadline has passed the missing roles are asked, one after the other, for
\* minutes; written are those who answer.  Then the copy read at the start is saved
\* with what the briefs make of it.
CollectBriefs(s, written) ==
  /\ Busy(s) /\ scan[s].pc = "briefs"
  /\ written \subseteq Briefers \ scan[s].ready
  /\ DeadlinePassed(s) => written = {}
  /\ LET k == scan[s].case
         asked == scan[s].ready # Briefers /\ ~DeadlinePassed(s)
         ready == IF asked THEN briefs[k] \cup written ELSE scan[s].ready
         record == [scan[s].copy EXCEPT !.state = PhaseAfterBriefs(s, ready), !.case = k,
                                        !.retro = FALSE]
     IN /\ briefs' = [briefs EXCEPT ![k] = @ \cup written]
        /\ SaveCycle(scan[s].id, record)
        /\ scan' = IF record.state = "brief_collection"
                   THEN [scan EXCEPT ![s] = Idle]
                   ELSE [scan EXCEPT ![s].pc = "dispatch", ![s].copy = record, ![s].ready = {}]
  /\ UNCHANGED <<clock, case, retro, directive, Counters, History>>

\* Mutant of Woken: only the Chief's running job is looked for.
RunningOnly(s) == scan[s].copy.dispatch = "chief_running"

\* The scan's copy says that the Chief was woken for this cycle.
Woken(s) == scan[s].copy.dispatch \in {"dispatched", "chief_running"}

\* The Chief is woken unless the retro is there, or it was woken before, or its job
\* is running.
Dispatch(s, running, started) ==
  /\ Busy(s) /\ scan[s].pc = "dispatch"
  /\ LET copy == scan[s].copy
     IN IF retro[scan[s].case] # "none"
        THEN /\ SaveCycle(scan[s].id,
                          [copy EXCEPT !.state = "completed", !.dispatch = "completed"])
             /\ End(s)
             /\ UNCHANGED dispatched
        ELSE IF Woken(s)
        THEN End(s) /\ UNCHANGED <<cycle, latest, dispatched>>
        ELSE IF running
        THEN /\ SaveCycle(scan[s].id, [copy EXCEPT !.dispatch = "chief_running"])
             /\ End(s)
             /\ UNCHANGED dispatched
        ELSE IF ~started
        THEN /\ SaveCycle(scan[s].id, [copy EXCEPT !.dispatch = "dispatch_error"])
             /\ End(s)
             /\ UNCHANGED dispatched
        ELSE /\ dispatched' = [dispatched EXCEPT ![copy.day] = @ + 1]
             /\ Go(s, "record")
             /\ UNCHANGED <<cycle, latest>>
  /\ UNCHANGED <<clock, case, briefs, retro, directive, Counters, overlapped, cut>>

\* The wake is recorded.
Record(s) ==
  /\ Busy(s) /\ scan[s].pc = "record"
  /\ SaveCycle(scan[s].id, [scan[s].copy EXCEPT !.dispatch = "dispatched"])
  /\ End(s)
  /\ UNCHANGED <<clock, case, briefs, retro, directive, Counters, History>>

-----------------------------------------------------------------------------
\* Mutant of Learn: a retro that lacks a directive closes the cycle.
LearnLeniently(s) ==
  /\ Busy(s) /\ scan[s].pc = "learn"
  /\ Go(s, IF directive[scan[s].case] # {} \/ scan[s].left = <<>> THEN "finish" ELSE "teach")
  /\ UNCHANGED <<clock, Assets, Counters, History>>

\* The retro was there when the scan looked.  Its directives are handed out unless
\* some are stored already; a retro that lacks one fails the cycle.
Learn(s) ==
  /\ Busy(s) /\ scan[s].pc = "learn"
  /\ LET k == scan[s].case
     IN IF directive[k] # {}
        THEN Go(s, "finish") /\ UNCHANGED <<cycle, latest>>
        ELSE IF scan[s].left = <<>>
        THEN /\ SaveCycle(scan[s].id, [scan[s].copy EXCEPT !.state = "failed"])
             /\ End(s)
        ELSE Go(s, "teach") /\ UNCHANGED <<cycle, latest>>
  /\ UNCHANGED <<clock, case, briefs, retro, directive, Counters, History>>

\* The next directive is stored; after the last one the retro is saved again with
\* their ids.
Teach(s) ==
  /\ Busy(s) /\ scan[s].pc = "teach"
  /\ LET k == scan[s].case
         left == Tail(scan[s].left)
     IN /\ directive' = [directive EXCEPT ![k] = @ \cup {Head(scan[s].left)}]
        /\ retro' = IF left = <<>> THEN [retro EXCEPT ![k] = "full"] ELSE retro
        /\ scan' = [scan EXCEPT ![s].pc = IF left = <<>> THEN "finish" ELSE "teach",
                                ![s].left = left]
  /\ UNCHANGED <<clock, cycle, latest, case, briefs, Counters, History>>

Finish(s) ==
  /\ Busy(s) /\ scan[s].pc = "finish"
  /\ SaveCycle(scan[s].id,
       [scan[s].copy EXCEPT !.state = IF @ = "degraded" THEN "degraded" ELSE "completed",
                            !.case = scan[s].case, !.retro = TRUE])
  /\ End(s)
  /\ UNCHANGED <<clock, case, briefs, retro, directive, Counters, History>>

\* A call raises, or the process is restarted.
ScanAbort(s) ==
  /\ Busy(s) /\ faults < MaxFaults
  /\ faults' = faults + 1
  /\ cut' = cut \cup ({DayOfScan(s)} \X ({scan[s].pc} \cap Delicate))
  /\ End(s)
  /\ UNCHANGED <<clock, Assets, retros, dispatched, overlapped>>

-----------------------------------------------------------------------------
\* A role hands in its brief through the gateway, under a pack that named the case,
\* perhaps long before.
SubmitBrief(r, k) ==
  /\ r \notin briefs[k]
  /\ briefs' = [briefs EXCEPT ![k] = @ \cup {r}]
  /\ UNCHANGED <<clock, cycle, latest, case, retro, directive, scan, Counters, History>>

\* The Chief submits a retro; which case it is of is the Chief's own text.
SubmitRetro(k, r) ==
  /\ retros < MaxRetros
  /\ retros' = retros + 1
  /\ retro' = [retro EXCEPT ![k] = r]
  /\ UNCHANGED <<clock, cycle, latest, case, briefs, directive, scan, faults, History>>

Tick ==
  /\ clock < MaxTime
  /\ clock' = clock + 1
  /\ UNCHANGED <<Assets, scan, Counters, History>>

Step(s) ==
  \/ CreateCycle(s) \/ PrepareCase(s) \/ PrepareFails(s)
  \/ \E written \in SUBSET Briefers : CollectBriefs(s, written)
  \/ Record(s) \/ Learn(s) \/ Teach(s) \/ Finish(s)
  \/ \E running, started \in BOOLEAN : Dispatch(s, running, started)

Next ==
  \/ \E s \in Thread : ScanStart(s) \/ Step(s) \/ ScanAbort(s)
  \/ \E k \in DOMAIN case : \/ \E r \in Briefers : SubmitBrief(r, k)
                            \/ \E r \in Retro \ {"none"} : SubmitRetro(k, r)
  \/ Tick

Spec == Init /\ [][Next]_vars

\* The loop scans again and again, and its scans come to an end: the gateway, the
\* agents and the subprocess all have timeouts.  Each of their steps changes scan.
FairSpec ==
  /\ Spec
  /\ WF_scan(ScanStart("loop") \/ Step("loop"))

\* The scan of a command comes to an end as well.
AllFairSpec == FairSpec /\ WF_scan(Step("command"))

-----------------------------------------------------------------------------
CasesOf(d) == {k \in DOMAIN case : case[k].day = d}

\* A cycle's case is of the cycle's own day, also when midnight passes while its
\* facts are collected, and a day has one case unless two scans worked on it at once.
CaseOfTheDay ==
  /\ \A c \in DOMAIN cycle : cycle[c].case # None => case[cycle[c].case].day = cycle[c].day
  /\ \A d \in Day \ overlapped : Cardinality(CasesOf(d)) <= 1

\* The Chief is woken once a day, unless two scans worked on the day at once or one
\* was cut off between the wake and its record.
DispatchedOnce ==
  \A d \in Day : dispatched[d] > 1 => d \in overlapped \/ <<d, "record">> \in cut

\* The Chief is woken when every brief of the day is stored or a brief deadline of the
\* day has passed.
DispatchWaits ==
  [][\A d \in Day : dispatched'[d] > dispatched[d] =>
       \/ \E k \in CasesOf(d) : briefs[k] = Briefers
       \/ \E c \in DOMAIN cycle : cycle[c].day = d /\ clock > cycle[c].deadline]_vars

Teaching(k) == \E s \in Thread : Busy(s) /\ scan[s].pc = "teach" /\ scan[s].case = k

\* A cycle that names its retro has handed out a directive to every role, unless a
\* scan is still at it or was cut off at it.
ClosedIsLearned ==
  \A c \in DOMAIN cycle : cycle[c].retro =>
    LET k == cycle[c].case
    IN /\ retro[k] # "none"
       /\ directive[k] = Learners \/ Teaching(k) \/ <<case[k].day, "teach">> \in cut

\* A retro's day goes in order: one case, one wake when the briefs are in or overdue,
\* and the lessons before its end, but for scans that meet or are cut off (as above).
RetroInOrder == [](CaseOfTheDay /\ DispatchedOnce /\ ClosedIsLearned) /\ DispatchWaits

Answered(d) == \E k \in CasesOf(d) : retro[k] # "none"
Settled(d) ==
  latest[d] # None /\ (cycle[latest[d]].retro \/ cycle[latest[d]].state \in {"completed", "failed"})

\* A retro submitted in the window closes the cycle before midnight, however the scans
\* are cut off, unless two scans worked on the day at once.
RetroSettles ==
  LET today == DayOf(clock)
  IN (InWindow(clock) /\ Answered(today))
       ~> (Settled(today) \/ today \in overlapped \/ ~InWindow(clock))

-----------------------------------------------------------------------------
(* What the documents say and the code does not keep.                      *)

\* A failed stage ends the cycle as degraded or failed: it does not stay as it is when
\* the Chief's deadline has passed (the spec of the retro, NFR-004).
CycleEnds ==
  \A d \in Day :
    (\E c \in {latest[d]} \ {None} : clock > cycle[c].deadline + ChiefTicks)
      ~> (\E c \in {latest[d]} \ {None} : cycle[c].state \in {"degraded", "completed", "failed"})

\* The Chief is not woken again for a cycle (the test of the monitor).
NotRedispatched == \A d \in Day : dispatched[d] <= 1

\* A retro that closes a cycle leaves a directive for every role (the spec of the
\* retro, FR-008).
EveryRoleLearns ==
  \A d \in Day :
    (\E c \in {latest[d]} \ {None} : cycle[c].retro)
      ~> (\E k \in CasesOf(d) : directive[k] = Learners)
=============================================================================
