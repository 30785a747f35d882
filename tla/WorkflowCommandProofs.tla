------------------------ MODULE WorkflowCommandProofs ------------------------
(***************************************************************************)
(* A control command runs at most once.  The argument counts tokens: the   *)
(* insert of a command's row gives one submission a token, which moves to  *)
(* the queue and then to a worker, where it is spent; the row stays, so    *)
(* that no second token is ever given out.                                 *)
(***************************************************************************)
EXTENDS WorkflowCommand, FiniteSetTheorems, TLAPS

Token(s) == sub[s].pc = "saved" \/ sub[s].outcome = "accepted"

TokenHasRow == \A s \in Submission : Token(s) => row[sub[s].cmd] # "none"

TokensDiffer ==
  \A s, t \in Submission : s # t /\ Token(s) /\ Token(t) => sub[s].cmd # sub[t].cmd

SavedIsUnspent ==
  \A s \in Submission : sub[s].pc = "saved" =>
    /\ runs[sub[s].cmd] = 0
    /\ \A i \in DOMAIN queue : queue[i] # sub[s].cmd

QueuedIsUnspent ==
  \A i \in DOMAIN queue :
    /\ row[queue[i]] # "none" /\ runs[queue[i]] = 0
    /\ \A j \in DOMAIN queue : i # j => queue[i] # queue[j]

SpentOnce == \A c \in Command : runs[c] <= 1 /\ (runs[c] > 0 => row[c] # "none")

IInv ==
  TypeOK /\ TokenHasRow /\ TokensDiffer /\ SavedIsUnspent /\ QueuedIsUnspent /\ SpentOnce

-----------------------------------------------------------------------------
LEMMA InitIInv == Init => IInv
<1> SUFFICES ASSUME Init PROVE IInv
  OBVIOUS
<1> USE DEF Init
<1>1. TypeOK
  <2>1. running \subseteq Command /\ Cardinality(running) <= Workers
    BY FS_EmptySet, BoundsAssumption
  <2>2. Fresh \in SubmissionState
    BY CommandAssumption DEF Fresh, SubmissionState, Outcome
  <2>3. faults \in 0 .. MaxFaults /\ crashes \in 0 .. MaxCrashes
    BY BoundsAssumption
  <2>4. row \in [Command -> State] /\ queue \in Seq(Command)
    BY DEF State
  <2> QED
    BY <2>1, <2>2, <2>3, <2>4 DEF TypeOK
<1>2. TokenHasRow /\ TokensDiffer /\ SavedIsUnspent
  BY DEF TokenHasRow, TokensDiffer, SavedIsUnspent, Token, Fresh
<1>3. QueuedIsUnspent /\ SpentOnce
  BY DEF QueuedIsUnspent, SpentOnce
<1> QED
  BY <1>1, <1>2, <1>3 DEF IInv

-----------------------------------------------------------------------------
\* Every step keeps the types.
LEMMA TypeStep == TypeOK /\ [Next]_vars => TypeOK'
<1> SUFFICES ASSUME TypeOK, [Next]_vars PROVE TypeOK'
  OBVIOUS
<1> USE CommandAssumption, BoundsAssumption
<1>0. IsFiniteSet(running) /\ Cardinality(running) \in Nat
  BY FS_Subset, FS_CardinalityType DEF TypeOK
<1>1. CASE DailyDue
  BY <1>1 DEF DailyDue, TypeOK
<1>2. ASSUME NEW s \in Submission, NEW c \in Command, Look(s, c) PROVE TypeOK'
  <2>1. /\ [pc |-> "looked", cmd |-> c, outcome |-> "none"] \in SubmissionState
        /\ [pc |-> "done", cmd |-> c, outcome |-> "duplicate_command"] \in SubmissionState
    BY DEF SubmissionState, Outcome
  <2> QED
    BY <1>2, <2>1 DEF Look, TypeOK
<1>d. ASSUME NEW s \in Submission, NEW outcome \in Outcome
      PROVE  Done(s, outcome) \in [Submission -> SubmissionState]
  <2>1. [sub[s] EXCEPT !.pc = "done", !.outcome = outcome] \in SubmissionState
    BY DEF TypeOK, SubmissionState
  <2>2. Done(s, outcome) = [sub EXCEPT ![s] = [sub[s] EXCEPT !.pc = "done", !.outcome = outcome]]
    BY DEF Done
  <2> QED
    BY <2>1, <2>2 DEF TypeOK
<1>3. ASSUME NEW s \in Submission, Save(s) PROVE TypeOK'
  <2>1. [sub EXCEPT ![s].pc = "saved"] \in [Submission -> SubmissionState]
    <3>1. [sub[s] EXCEPT !.pc = "saved"] \in SubmissionState
      BY DEF TypeOK, SubmissionState
    <3> QED
      BY <3>1 DEF TypeOK
  <2>2. Done(s, "error") \in [Submission -> SubmissionState]
    BY <1>d DEF Outcome
  <2>3. sub' \in [Submission -> SubmissionState]
    BY <1>3, <2>1, <2>2 DEF Save
  <2>4. row' \in [Command -> State]
    BY <1>3 DEF Save, TypeOK, State
  <2> QED
    BY <1>3, <2>3, <2>4 DEF Save, TypeOK
<1>4. ASSUME NEW s \in Submission, Enqueue(s) PROVE TypeOK'
  <2>1. queue' \in Seq(Command)
    BY <1>4 DEF Enqueue, TypeOK, SubmissionState
  <2>2. Done(s, "accepted") \in [Submission -> SubmissionState]
    BY <1>d DEF Outcome
  <2> QED
    BY <1>4, <2>1, <2>2 DEF Enqueue, TypeOK
<1>5. ASSUME NEW s \in Submission, SubmitRaises(s) PROVE TypeOK'
  <2>1. Done(s, "error") \in [Submission -> SubmissionState]
    BY <1>d DEF Outcome
  <2> QED
    BY <1>5, <2>1 DEF SubmitRaises, TypeOK
<1>6. CASE Start
  <2> USE <1>6 DEF Start, FreeWorker
  <2>1. Head(queue) \in Command /\ queue' \in Seq(Command)
    BY DEF TypeOK
  <2>2. \/ Cardinality(running') = Cardinality(running) + 1
        \/ Cardinality(running') = Cardinality(running)
    BY <1>0, FS_AddElement
  <2>3. Cardinality(running') <= Workers
    BY <1>0, <2>2
  <2>4. running' \subseteq Command
    BY <2>1 DEF TypeOK
  <2>5. row' \in [Command -> State] /\ runs' \in [Command -> Nat]
    BY <2>1 DEF TypeOK, State
  <2> QED
    BY <2>1, <2>3, <2>4, <2>5 DEF TypeOK
<1>7. CASE StartRaises
  BY <1>7 DEF StartRaises, TypeOK
<1>8. ASSUME NEW c \in Command, FinishRaises(c) \/ \E state \in Final : Finish(c, state)
      PROVE TypeOK'
  <2>1. running' = running \ {c}
    BY <1>8 DEF FinishRaises, Finish
  <2>2. \/ Cardinality(running') = Cardinality(running) - 1
        \/ running' = running
    BY <1>0, <2>1, FS_RemoveElement
  <2>3. running' \subseteq Command /\ Cardinality(running') <= Workers
    <3>1. running' \subseteq Command
      BY <2>1 DEF TypeOK
    <3>2. Cardinality(running') <= Workers
      BY <1>0, <2>2 DEF TypeOK
    <3> QED
      BY <3>1, <3>2
  <2>4. row' \in [Command -> State]
    BY <1>8 DEF FinishRaises, Finish, Finished, TypeOK, State
  <2> QED
    BY <1>8, <2>3, <2>4 DEF FinishRaises, Finish, TypeOK
<1>9. CASE Restart
  <2>1. Cardinality({}) = 0
    BY FS_EmptySet
  <2>2. Fresh \in SubmissionState
    BY DEF Fresh, SubmissionState, Outcome
  <2>3. \A s \in Submission :
          [sub[s] EXCEPT !.pc = "done", !.outcome = "lost"] \in SubmissionState
    BY DEF TypeOK, SubmissionState, Outcome
  <2>4. sub' \in [Submission -> SubmissionState]
    BY <1>9, <2>2, <2>3 DEF Restart, TypeOK
  <2>5. running' \subseteq Command /\ Cardinality(running') <= Workers
    <3>1. running' = {}
      BY <1>9 DEF Restart
    <3> QED
      BY <2>1, <3>1
  <2>6. queue' \in Seq(Command) /\ crashes' \in 0 .. MaxCrashes
    <3>1. queue' = <<>> /\ crashes' = crashes + 1 /\ crashes < MaxCrashes
      BY <1>9 DEF Restart
    <3> QED
      BY <3>1 DEF TypeOK
  <2> QED
    BY <1>9, <2>4, <2>5, <2>6 DEF Restart, TypeOK
<1>10. CASE UNCHANGED vars
  BY <1>10 DEF vars, TypeOK
<1> QED
  BY <1>1, <1>2, <1>3, <1>4, <1>5, <1>6, <1>7, <1>8, <1>9, <1>10 DEF Next

-----------------------------------------------------------------------------
\* A step that gives out no token and spends none keeps what is known of them.
LEMMA NoNewToken ==
  ASSUME IInv, TypeOK', UNCHANGED runs,
         \A s \in Submission : Token(s)' => Token(s) /\ sub'[s].cmd = sub[s].cmd,
         \A s \in Submission : sub'[s].pc = "saved" => sub[s].pc = "saved",
         \A c \in Command : row[c] # "none" => row'[c] # "none",
         queue' = queue \/ queue' = <<>> \/ (queue # <<>> /\ queue' = Tail(queue))
  PROVE  IInv'
<1> USE DEF IInv, TypeOK
<1>0. \A s \in Submission : sub[s].cmd \in Command
  BY DEF SubmissionState
<1>1. TokenHasRow' /\ TokensDiffer'
  <2>1. TokenHasRow'
    BY <1>0 DEF TokenHasRow
  <2>2. TokensDiffer'
    BY DEF TokensDiffer
  <2> QED
    BY <2>1, <2>2
<1>2. PICK n \in {0, 1} : \A i \in DOMAIN queue' :
        i + n \in DOMAIN queue /\ queue'[i] = queue[i + n] /\ i \in Nat
  <2>1. CASE queue' = queue
    BY <2>1
  <2>2. CASE queue' = <<>>
    BY <2>2
  <2>3. CASE queue # <<>> /\ queue' = Tail(queue)
    BY <2>3
  <2> QED
    BY <2>1, <2>2, <2>3
<1>3. SavedIsUnspent'
  BY <1>2 DEF SavedIsUnspent, Token
<1>4. QueuedIsUnspent'
  BY <1>2 DEF QueuedIsUnspent
<1>5. SpentOnce'
  BY DEF SpentOnce
<1> QED
  BY <1>1, <1>3, <1>4, <1>5

\* An insert gives out the first token of its command.
LEMMA SaveStep ==
  ASSUME IInv, TypeOK', NEW s \in Submission, Save(s), Inserts(s)
  PROVE  IInv'
<1> USE DEF IInv, TypeOK
<1> DEFINE c == sub[s].cmd
<1>1. /\ row' = [row EXCEPT ![c] = "accepted"]
      /\ sub' = [sub EXCEPT ![s].pc = "saved"]
      /\ UNCHANGED <<queue, runs>>
      /\ row[c] = "none" /\ c \in Command
  BY DEF Save, Inserts, SubmissionState
<1>2. \A t \in Submission : /\ sub'[t].cmd = sub[t].cmd /\ sub[t].cmd \in Command
                            /\ t # s => sub'[t] = sub[t]
  BY <1>1 DEF SubmissionState
<1>3. \A t \in Submission : Token(t)' => t = s \/ (Token(t) /\ sub[t].cmd # c)
  BY <1>1, <1>2 DEF Token, TokenHasRow
<1>4. TokenHasRow' /\ TokensDiffer'
  BY <1>1, <1>2, <1>3 DEF TokenHasRow, TokensDiffer
<1>5. runs[c] = 0 /\ \A i \in DOMAIN queue : queue[i] # c
  BY <1>1 DEF SpentOnce, QueuedIsUnspent
<1>6. SavedIsUnspent'
  BY <1>1, <1>2, <1>5 DEF SavedIsUnspent
<1>7. QueuedIsUnspent'
  BY <1>1 DEF QueuedIsUnspent
<1>8. SpentOnce'
  BY <1>1 DEF SpentOnce
<1> QED
  BY <1>4, <1>6, <1>7, <1>8

\* A submission moves its token to the queue.
LEMMA EnqueueStep ==
  ASSUME IInv, TypeOK', NEW s \in Submission, Enqueue(s)
  PROVE  IInv'
<1> USE DEF IInv, TypeOK
<1> DEFINE c == sub[s].cmd
<1>1. /\ queue' = Append(queue, c)
      /\ UNCHANGED <<row, runs>>
      /\ sub[s].pc = "saved" /\ c \in Command
  BY DEF Enqueue, SubmissionState
<1>2. \A t \in Submission : /\ sub'[t].cmd = sub[t].cmd
                            /\ t # s => sub'[t] = sub[t]
                            /\ sub'[s].pc = "done"
  BY DEF Enqueue, Done, SubmissionState
<1>3. Token(s) /\ \A t \in Submission : Token(t)' => Token(t)
  BY <1>1, <1>2 DEF Token
<1>4. TokenHasRow' /\ TokensDiffer'
  BY <1>1, <1>2, <1>3 DEF TokenHasRow, TokensDiffer
<1>5. \A i \in DOMAIN queue' : \/ i \in DOMAIN queue /\ queue'[i] = queue[i]
                               \/ i = Len(queue) + 1 /\ queue'[i] = c
  BY <1>1
<1>6. \A t \in Submission : sub'[t].pc = "saved" => sub[t].pc = "saved" /\ sub[t].cmd # c
  BY <1>1, <1>2, <1>3 DEF TokensDiffer, Token
<1>7. SavedIsUnspent'
  BY <1>1, <1>2, <1>5, <1>6 DEF SavedIsUnspent
<1>8. row[c] # "none" /\ runs[c] = 0 /\ \A i \in DOMAIN queue : queue[i] # c
  BY <1>1, <1>3 DEF SavedIsUnspent, TokenHasRow
<1>9. QueuedIsUnspent'
  BY <1>1, <1>5, <1>8 DEF QueuedIsUnspent
<1>10. SpentOnce'
  BY <1>1 DEF SpentOnce
<1> QED
  BY <1>4, <1>7, <1>9, <1>10

\* A worker spends the token of the command it takes.
LEMMA StartStep ==
  ASSUME IInv, TypeOK', Start
  PROVE  IInv'
<1> USE DEF IInv, TypeOK
<1> DEFINE c == Head(queue)
<1>1. /\ row' = [row EXCEPT ![c] = "running"]
      /\ runs' = [runs EXCEPT ![c] = runs[c] + 1]
      /\ queue' = Tail(queue)
      /\ UNCHANGED sub
      /\ c \in Command /\ c = queue[1] /\ 1 \in DOMAIN queue
  BY DEF Start
<1>2. \A i \in DOMAIN queue' : i + 1 \in DOMAIN queue /\ queue'[i] = queue[i + 1] /\ i \in Nat
                               /\ i + 1 # 1
  BY <1>1
<1>3. row[c] # "none" /\ runs[c] = 0 /\ \A i \in DOMAIN queue' : queue'[i] # c
  BY <1>1, <1>2 DEF QueuedIsUnspent
<1>4. \A t \in Submission : sub[t].pc = "saved" => sub[t].cmd # c
  BY <1>1 DEF SavedIsUnspent
<1>5. \A t \in Submission : sub[t].cmd \in Command
  BY DEF SubmissionState
<1>6. TokenHasRow' /\ TokensDiffer'
  BY <1>1, <1>5 DEF TokenHasRow, TokensDiffer, Token
<1>7. SavedIsUnspent'
  BY <1>1, <1>2, <1>4, <1>5 DEF SavedIsUnspent
<1>8. \A i \in DOMAIN queue' : queue'[i] \in Command
  BY <1>2
<1>9. QueuedIsUnspent'
  <2>1. ASSUME NEW i \in DOMAIN queue'
        PROVE  row'[queue'[i]] # "none" /\ runs'[queue'[i]] = 0
    BY <1>1, <1>2, <1>3, <1>8 DEF QueuedIsUnspent
  <2>2. ASSUME NEW i \in DOMAIN queue', NEW j \in DOMAIN queue', i # j
        PROVE  queue'[i] # queue'[j]
    BY <1>2, <2>2 DEF QueuedIsUnspent
  <2> QED
    BY <2>1, <2>2 DEF QueuedIsUnspent
<1>10. SpentOnce'
  BY <1>1, <1>3 DEF SpentOnce
<1> QED
  BY <1>6, <1>7, <1>9, <1>10

-----------------------------------------------------------------------------
LEMMA InductiveStep == IInv /\ [Next]_vars => IInv'
<1> SUFFICES ASSUME IInv, [Next]_vars PROVE IInv'
  OBVIOUS
<1>0. TypeOK /\ TypeOK'
  BY TypeStep DEF IInv
<1>1. ASSUME UNCHANGED <<row, sub, queue, runs>> PROVE IInv'
  BY <1>0, <1>1, NoNewToken DEF Token
<1>2. ASSUME NEW s \in Submission, NEW c \in Command, Look(s, c) PROVE IInv'
  <2>1. /\ UNCHANGED <<row, queue, runs>>
        /\ \A t \in Submission : t # s => sub'[t] = sub[t]
        /\ sub'[s].pc \in {"looked", "done"} /\ sub'[s].outcome # "accepted"
    BY <1>0, <1>2 DEF Look, TypeOK
  <2>2. \A t \in Submission : Token(t)' => Token(t) /\ sub'[t].cmd = sub[t].cmd
    BY <2>1 DEF Token
  <2> QED
    BY <1>0, <2>1, <2>2, NoNewToken
<1>3. ASSUME NEW s \in Submission, sub' = Done(s, "error"), UNCHANGED <<row, queue, runs>>
      PROVE  IInv'
  <2>1. /\ \A t \in Submission : t # s => sub'[t] = sub[t]
        /\ sub'[s].pc = "done" /\ sub'[s].outcome = "error"
    BY <1>0, <1>3 DEF Done, TypeOK, SubmissionState
  <2>2. \A t \in Submission : Token(t)' => Token(t) /\ sub'[t].cmd = sub[t].cmd
    BY <2>1 DEF Token
  <2> QED
    BY <1>0, <1>3, <2>1, <2>2, NoNewToken
<1>4. ASSUME NEW s \in Submission, Save(s) PROVE IInv'
  <2>1. CASE Inserts(s)
    BY <1>0, <1>4, <2>1, SaveStep
  <2>2. CASE ~Inserts(s)
    BY <1>3, <1>4, <2>2 DEF Save
  <2> QED
    BY <2>1, <2>2
<1>5. ASSUME NEW s \in Submission, Enqueue(s) PROVE IInv'
  BY <1>0, <1>5, EnqueueStep
<1>6. ASSUME NEW s \in Submission, SubmitRaises(s) PROVE IInv'
  BY <1>3, <1>6 DEF SubmitRaises
<1>7. CASE Start
  BY <1>0, <1>7, StartStep
<1>8. CASE StartRaises
  <2>1. /\ UNCHANGED <<row, sub, runs>> /\ queue # <<>> /\ queue' = Tail(queue)
    BY <1>8 DEF StartRaises
  <2> QED
    BY <1>0, <2>1, NoNewToken DEF Token
<1>9. ASSUME NEW c \in Command, FinishRaises(c) \/ \E state \in Final : Finish(c, state)
      PROVE  IInv'
  <2>1. /\ UNCHANGED <<sub, queue, runs>>
        /\ row' = row \/ \E state \in Final : row' = [row EXCEPT ![c] = state]
    BY <1>9 DEF FinishRaises, Finish, Finished
  <2>2. \A d \in Command : row[d] # "none" => row'[d] # "none"
    BY <1>0, <2>1 DEF Final, TypeOK
  <2> QED
    BY <1>0, <2>1, <2>2, NoNewToken DEF Token
<1>10. CASE Restart
  <2>1. UNCHANGED <<row, runs>> /\ queue' = <<>>
    BY <1>10 DEF Restart
  <2>2. \A t \in Submission :
          \/ sub'[t] = sub[t] /\ sub[t].pc \notin {"looked", "saved"}
          \/ sub'[t].pc \in {"idle", "done"} /\ sub'[t].outcome \in {"none", "lost"}
    BY <1>0, <1>10 DEF Restart, Fresh, TypeOK, SubmissionState
  <2>3. \A t \in Submission : /\ Token(t)' => Token(t) /\ sub'[t].cmd = sub[t].cmd
                              /\ sub'[t].pc # "saved"
    BY <2>2 DEF Token
  <2> QED
    BY <1>0, <2>1, <2>3, NoNewToken
<1> QED
  BY <1>1, <1>2, <1>4, <1>5, <1>6, <1>7, <1>8, <1>9, <1>10 DEF Next, DailyDue, vars

\* The rows, the queue and the receipts fit together in every state: a command
\* whose row was inserted has at most one submission, one place in the queue or
\* one run (submit_command, _run).
THEOREM TokensKept == Spec => []IInv
<1> QED
  BY InitIInv, InductiveStep, PTL DEF Spec

\* A command runs at most once and at most one submission of it is accepted, for
\* any number of commands, submissions, workers, errors and restarts
\* (submit_command, workflows.command_id).
THEOREM RunsOnceHolds == Spec => []RunsOnce
<1>1. IInv => RunsOnce
  BY DEF IInv, SpentOnce, TokensDiffer, Token, RunsOnce, Accepted
<1> QED
  BY <1>1, TokensKept, PTL

\* Every variable keeps its type, and no more commands run than the pool has
\* workers (WorkflowOrchestratorService.__init__).
THEOREM TypeCorrect == Spec => []TypeOK
<1>1. IInv => TypeOK
  BY DEF IInv
<1> QED
  BY <1>1, TokensKept, PTL
=============================================================================
