---------------------------- MODULE WorkflowCommand ----------------------------
(***************************************************************************)
(* Control commands and their workflows (workflow_orchestrator/service.py).*)
(* A command is submitted by an API call, which runs in a thread pool, or  *)
(* by the daily reset loop; the first submission of a command id saves a   *)
(* workflow row, queues the work for a pool of workers and is accepted, a  *)
(* later one is told that it is a duplicate.  Rows are kept by the         *)
(* database, whose command_id is unique; the queue, the workers and what   *)
(* the reset loop remembers of the day are lost when the process restarts. *)
(***************************************************************************)
EXTENDS Integers, Sequences, FiniteSets

CONSTANTS
  Command,     \* the command ids
  Daily,       \* the id of today's reset command
  Workers,     \* the size of the pool, 4 in the code
  Submits,     \* bound: API submissions
  MaxFaults,   \* bound: database errors
  MaxCrashes   \* bound: restarts

ASSUME CommandAssumption == IsFiniteSet(Command) /\ Daily \in Command
ASSUME BoundsAssumption ==
  /\ Workers \in Nat \ {0} /\ Submits \in Nat
  /\ MaxFaults \in Nat /\ MaxCrashes \in Nat

VARIABLES
  row,       \* the workflow row of each command
  sub,       \* the submissions; number 0 is the reset loop's
  queue,     \* the commands that wait for a worker
  running,   \* the commands the workers run
  due,       \* the hour of the daily reset has passed
  runs,      \* history: how often each command was run
  faults, crashes

vars == <<row, sub, queue, running, due, runs, faults, crashes>>

Loop == 0
Submission == 0 .. Submits
Final == {"completed", "degraded", "failed"}
State == {"none", "accepted", "running"} \cup Final
Outcome == {"none", "accepted", "duplicate_command", "error", "lost"}

SubmissionState ==
  [pc : {"idle", "looked", "saved", "done"}, cmd : Command, outcome : Outcome]

TypeOK ==
  /\ row \in [Command -> State]
  /\ sub \in [Submission -> SubmissionState]
  /\ queue \in Seq(Command)
  /\ running \subseteq Command /\ Cardinality(running) <= Workers
  /\ due \in BOOLEAN
  /\ runs \in [Command -> Nat]
  /\ faults \in 0 .. MaxFaults /\ crashes \in 0 .. MaxCrashes

Fresh == [pc |-> "idle", cmd |-> Daily, outcome |-> "none"]

-----------------------------------------------------------------------------
Init ==
  /\ row = [c \in Command |-> "none"]
  /\ sub = [s \in Submission |-> Fresh]
  /\ queue = <<>>
  /\ running = {}
  /\ due = FALSE
  /\ runs = [c \in Command |-> 0]
  /\ faults = 0 /\ crashes = 0

DailyDue ==
  /\ ~due
  /\ due' = TRUE
  /\ UNCHANGED <<row, sub, queue, running, runs, faults, crashes>>

Done(s, outcome) == [sub EXCEPT ![s].pc = "done", ![s].outcome = outcome]

\* Has the command a row already?
Look(s, c) ==
  /\ sub[s].pc = "idle"
  /\ s = Loop => c = Daily /\ due
  /\ sub' = IF row[c] = "none"
            THEN [sub EXCEPT ![s] = [pc |-> "looked", cmd |-> c, outcome |-> "none"]]
            ELSE [sub EXCEPT ![s] = [pc |-> "done", cmd |-> c, outcome |-> "duplicate_command"]]
  /\ UNCHANGED <<row, queue, running, due, runs, faults, crashes>>

\* Mutant of Inserts: the row of another submission is overwritten.
InsertsAnyway(s) == TRUE

\* The insert succeeds if the command id is still unused.
Inserts(s) == row[sub[s].cmd] = "none"

Save(s) ==
  /\ sub[s].pc = "looked"
  /\ IF Inserts(s)
     THEN /\ row' = [row EXCEPT ![sub[s].cmd] = "accepted"]
          /\ sub' = [sub EXCEPT ![s].pc = "saved"]
     ELSE /\ sub' = Done(s, "error")
          /\ UNCHANGED row
  /\ UNCHANGED <<queue, running, due, runs, faults, crashes>>

\* Mutant of Enqueue: the work is not queued.
EnqueueNothing(s) ==
  /\ sub[s].pc = "saved"
  /\ sub' = Done(s, "accepted")
  /\ UNCHANGED <<row, queue, running, due, runs, faults, crashes>>

\* The event of the acceptance is saved and the work is queued.
Enqueue(s) ==
  /\ sub[s].pc = "saved"
  /\ queue' = Append(queue, sub[s].cmd)
  /\ sub' = Done(s, "accepted")
  /\ UNCHANGED <<row, running, due, runs, faults, crashes>>

\* A database call of the submission raises: an API call answers with an error,
\* and the reset loop, which has no handler, ends for good.
SubmitRaises(s) ==
  /\ sub[s].pc \in {"looked", "saved"}
  /\ faults < MaxFaults
  /\ faults' = faults + 1
  /\ sub' = Done(s, "error")
  /\ UNCHANGED <<row, queue, running, due, runs, crashes>>

-----------------------------------------------------------------------------
FreeWorker == Cardinality(running) < Workers

\* A worker takes the next command and marks its row.
Start ==
  /\ queue # <<>> /\ FreeWorker
  /\ running' = running \cup {Head(queue)}
  /\ row' = [row EXCEPT ![Head(queue)] = "running"]
  /\ runs' = [runs EXCEPT ![Head(queue)] = @ + 1]
  /\ queue' = Tail(queue)
  /\ UNCHANGED <<sub, due, faults, crashes>>

\* Mutant of Finished: a degraded workflow is not marked.
FinishedButDegraded(c, state) ==
  IF state = "degraded" THEN row ELSE [row EXCEPT ![c] = state]

Finished(c, state) == [row EXCEPT ![c] = state]

\* The handler returns or raises, and the row is marked.
Finish(c, state) ==
  /\ c \in running /\ row[c] = "running"
  /\ running' = running \ {c}
  /\ row' = Finished(c, state)
  /\ UNCHANGED <<sub, queue, due, runs, faults, crashes>>

\* A database call of the worker raises before it marks the row as running.
StartRaises ==
  /\ queue # <<>> /\ FreeWorker
  /\ faults < MaxFaults
  /\ faults' = faults + 1
  /\ queue' = Tail(queue)
  /\ UNCHANGED <<row, sub, running, due, runs, crashes>>

\* A database call of the worker raises before it marks the row as ended.
FinishRaises(c) ==
  /\ c \in running
  /\ faults < MaxFaults
  /\ faults' = faults + 1
  /\ running' = running \ {c}
  /\ UNCHANGED <<row, sub, queue, due, runs, crashes>>

\* The process is killed and started again.
Restart ==
  /\ crashes < MaxCrashes
  /\ crashes' = crashes + 1
  /\ queue' = <<>>
  /\ running' = {}
  /\ sub' = [s \in Submission |->
               IF s = Loop THEN Fresh
               ELSE IF sub[s].pc \in {"looked", "saved"}
                    THEN [sub[s] EXCEPT !.pc = "done", !.outcome = "lost"]
                    ELSE sub[s]]
  /\ UNCHANGED <<row, due, runs, faults>>

Next ==
  \/ DailyDue
  \/ \E s \in Submission : \/ \E c \in Command : Look(s, c)
                           \/ Save(s) \/ Enqueue(s) \/ SubmitRaises(s)
  \/ Start \/ StartRaises
  \/ \E c \in Command : FinishRaises(c) \/ \E state \in Final : Finish(c, state)
  \/ Restart

Spec == Init /\ [][Next]_vars

\* Calls, workers and the loop make progress, and handlers end: every agent turn
\* and every subprocess has a timeout.
FairSpec ==
  /\ Spec
  /\ WF_vars(Look(Loop, Daily))
  /\ \A s \in Submission : WF_vars(Save(s) \/ Enqueue(s))
  /\ WF_vars(Start)
  /\ \A c \in Command : WF_vars(\E state \in Final : Finish(c, state))

-----------------------------------------------------------------------------
Accepted(s) == sub[s].outcome = "accepted"
Pending(c) == row[c] \in {"accepted", "running"}
Saving(c) == \E s \in Submission : sub[s].pc = "saved" /\ sub[s].cmd = c
Queued(c) == \E i \in DOMAIN queue : queue[i] = c

\* A command runs at most once, however often, by whom and across how many
\* restarts it is submitted, and one submission of it at most is accepted
\* (submit_command, workflows.command_id).
RunsOnce ==
  /\ \A c \in Command : runs[c] <= 1
  /\ \A s, t \in Submission :
       s # t /\ Accepted(s) /\ Accepted(t) => sub[s].cmd # sub[t].cmd

\* A workflow that has not ended is on its way to a worker or in one, unless an
\* error or a restart has struck (submit_command, _run).
PendingIsOwned ==
  \A c \in Command :
    Pending(c) /\ faults = 0 /\ crashes = 0 =>
      Saving(c) \/ Queued(c) \/ (c \in running /\ row[c] = "running")

\* What is accepted ends, whatever its outcome, unless an error or a restart
\* strikes first (_run).
AcceptedEnds ==
  \A s \in Submission :
    Accepted(s) ~> row[sub[s].cmd] \in Final \/ faults > 0 \/ crashes > 0

\* The sessions are reset when the day's hour has passed, whoever submits the
\* reset first, unless an error or a restart strikes (_daily_reset_loop).
ResetUnlessDisturbed == due ~> runs[Daily] > 0 \/ faults > 0 \/ crashes > 0

\* A command that has a workflow is answered with it, not with an error
\* (specs/003-workflow-control-plane/spec.md).  It does not hold: two submissions
\* may both look before either saves.
ResubmissionIsDuplicate ==
  \A s \in Submission :
    sub[s].outcome = "error" /\ faults = 0 => row[sub[s].cmd] = "none"

\* The sessions are reset every day (specs/modules/workflow_orchestrator/spec.md).
\* It does not hold: a restart leaves the row without a worker and the loop takes
\* the duplicate for done.
DailyResetRuns == due ~> runs[Daily] > 0
=============================================================================
