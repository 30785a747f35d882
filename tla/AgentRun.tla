------------------------------ MODULE AgentRun ------------------------------
(***************************************************************************)
(* How the gateway asks an agent for a submission and what it makes of the *)
(* answer: adapters/openclaw.py runs the CLI, _run_submission_with_retry   *)
(* and _run_agent_task_with_retry run it again in a fresh session, and an  *)
(* answer that does not validate is sent back for repair once.             *)
(*                                                                         *)
(* A run for RT's execution that times out, fails or prints no JSON object *)
(* is answered from a file in RT's workspace, if that file was written     *)
(* during the run.  RT writes that file in any of its sessions, also in    *)
(* those that this run knows nothing of.                                   *)
(***************************************************************************)
EXTENDS Integers, FiniteSets

CONSTANTS
  Slack,     \* how much older than a run its file may be
  MaxNow,    \* bound: time
  MaxRuns,   \* bound: submissions asked for
  MaxWrites  \* bound: writes of the file

VARIABLES
  now,
  file,      \* RT's file: its time, whether it validates, and (history) its number
  task,      \* what is asked for, and how far it is
  attempt,   \* the run of the CLI in progress or over, with its reply
  runs,
  taken      \* history: the runs of the CLI that were answered from the file

vars == <<now, file, task, attempt, runs, taken>>

Submission == {"strategy", "execution", "news"}
Kind == Submission \cup {"retro_brief", "synthesis"}

NoReply == [status |-> "none", from |-> "nobody", valid |-> FALSE, reset |-> FALSE]
NoAttempt == [on |-> FALSE, start |-> 0, before |-> 0, seen |-> 0, reply |-> NoReply]
NoTask == [kind |-> "none", stage |-> "idle", again |-> FALSE, attempts |-> 0]

\* What the CLI can do: print an object, print none, exit with an error, or be
\* killed at its timeout; tooLong: it complains of the length of its context.
Outcome == [how : {"answer", "unusable", "failed", "timeout"}, valid : BOOLEAN, tooLong : BOOLEAN]

\* _should_retry_after_session_reset.
Resettable(kind, o) ==
  \/ o.how = "timeout" /\ kind \in {"execution", "retro_brief", "synthesis"}
  \/ o.tooLong

\* Mutant of Fresh: a file older than the run is told by its age alone.
FreshByAge(a) == file.time > 0 /\ file.time >= a.start - Slack

\* _load_workspace_fallback.
Fresh(a) == file.time > a.before /\ file.time >= a.start - Slack

\* OpenClawAgentRunner.run.
Reply(kind, a, o) ==
  LET reply(status, from, valid) ==
        [status |-> status, from |-> from, valid |-> valid, reset |-> Resettable(kind, o)]
  IN CASE o.how = "answer" -> reply("completed", "agent", o.valid)
       [] o.how # "answer" /\ kind = "execution" /\ Fresh(a) -> reply("completed", "file", file.valid)
       [] o.how = "unusable" /\ ~(kind = "execution" /\ Fresh(a)) ->
            reply("needs_revision", "nobody", FALSE)
       [] OTHER -> reply("needs_escalation", "nobody", FALSE)

-----------------------------------------------------------------------------
Init ==
  /\ now = 1
  /\ file = [time |-> 0, valid |-> FALSE, no |-> 0]
  /\ task = NoTask
  /\ attempt = NoAttempt
  /\ runs = 0
  /\ taken = {}

Tick == /\ now < MaxNow /\ now' = now + 1
        /\ UNCHANGED <<file, task, attempt, runs, taken>>

\* RT writes its file, in this run or in another session.
WriteFile(valid) ==
  /\ file.no < MaxWrites
  /\ file' = [time |-> now, valid |-> valid, no |-> file.no + 1]
  /\ UNCHANGED <<now, task, attempt, runs, taken>>

Begun == [on |-> TRUE, start |-> now, before |-> file.time, seen |-> file.no, reply |-> NoReply]

Begin(stage, again) ==
  /\ attempt' = Begun
  /\ task' = [task EXCEPT !.stage = stage, !.again = again, !.attempts = @ + 1]
  /\ UNCHANGED <<now, file, runs, taken>>

Ask(kind) ==
  /\ task.stage \in {"idle", "accepted", "refused"}
  /\ runs < MaxRuns
  /\ runs' = runs + 1
  /\ attempt' = Begun
  /\ task' = [kind |-> kind, stage |-> "first", again |-> FALSE, attempts |-> 1]
  /\ UNCHANGED <<now, file, taken>>

End(o) ==
  /\ attempt.on
  /\ LET r == Reply(task.kind, attempt, o)
     IN /\ attempt' = [attempt EXCEPT !.on = FALSE, !.reply = r]
        /\ taken' = IF r.from = "file"
                      THEN taken \cup {[run |-> runs, nth |-> task.attempts, no |-> file.no, seen |-> attempt.seen]}
                      ELSE taken
  /\ UNCHANGED <<now, file, task, runs>>

Answered == task.stage \in {"first", "repair"} /\ ~attempt.on

Escalated == attempt.reply.status = "needs_escalation"

\* Only the first run of a submission is retried in a fresh session; a repair
\* that fails is retried for the retrospective alone.
MayReset == Escalated /\ attempt.reply.reset /\ ~task.again /\ (task.stage = "first" \/ task.kind \notin Submission)

Reset(success) ==
  /\ Answered
  /\ MayReset
  /\ IF success THEN Begin(task.stage, TRUE)
                ELSE /\ task' = [task EXCEPT !.stage = "refused"]
                     /\ UNCHANGED <<now, file, attempt, runs, taken>>

\* validate_submission; the reply that is no object is an empty one, and news
\* that is an empty object validates as no events.
Validates(kind, r) == r.valid \/ (r.from = "nobody" /\ kind = "news")

Good == attempt.reply.status = "completed" /\ Validates(task.kind, attempt.reply)

Accept ==
  /\ Answered
  /\ ~Escalated
  /\ Good \/ (task.stage = "repair" /\ Validates(task.kind, attempt.reply))
  /\ task' = [task EXCEPT !.stage = "accepted"]
  /\ UNCHANGED <<now, file, attempt, runs, taken>>

\* The answer goes back with the errors; a retro brief gets no second chance.
Repair ==
  /\ Answered
  /\ ~Escalated /\ ~Good
  /\ task.stage = "first" /\ task.kind # "retro_brief"
  /\ Begin("repair", FALSE)

Refuse ==
  /\ Answered
  /\ IF Escalated THEN ~MayReset
     ELSE /\ ~Good
          /\ task.kind = "retro_brief" \/ task.stage = "repair"
          /\ ~(task.stage = "repair" /\ Validates(task.kind, attempt.reply))
  /\ task' = [task EXCEPT !.stage = "refused"]
  /\ UNCHANGED <<now, file, attempt, runs, taken>>

Next ==
  \/ Tick
  \/ \E valid \in BOOLEAN : WriteFile(valid)
  \/ \E kind \in Kind : Ask(kind)
  \/ \E o \in Outcome : End(o)
  \/ \E success \in BOOLEAN : Reset(success)
  \/ Accept \/ Repair \/ Refuse

Spec == Init /\ [][Next]_vars

-----------------------------------------------------------------------------
\* What a run takes from RT's file was written after the run began, no two runs
\* take the same writing of it, and what is accepted was said by the agent or by
\* its file, but for news whose repair is no object (_load_workspace_fallback,
\* _run_submission_with_retry).
AcceptedIsOfTheRun ==
  /\ \A t \in taken : t.seen < t.no
  /\ \A s, t \in taken : s.no = t.no => s = t
  /\ task.stage = "accepted" =>
       attempt.reply.from \in {"agent", "file"} \/ (task.kind = "news" /\ task.attempts > 1)

\* What is accepted was said by the agent or by its file.  It does not hold: a
\* repair of news that is no object is accepted as news without events.
AcceptedWasSaid == task.stage = "accepted" => attempt.reply.from # "nobody"
=============================================================================
