----------------------------- MODULE MacroDesk -----------------------------
(***************************************************************************)
(* From the news feeds to what PM is told of the macro picture.  The news  *)
(* provider keeps the batch of its last poll; the bridge takes it into its *)
(* state; MEA pulls that state and submits events, stored one row each;    *)
(* the chief pulls the newest brief, reviews it and submits the next; and  *)
(* the bridge tells PM the newest brief and how far its author is to be    *)
(* trusted.  NewsEventService and DirectPollingNewsProvider, submit_news   *)
(* and submit_macro_brief of the gateway, RuntimeBridgeMonitor.            *)
(***************************************************************************)
EXTENDS Integers, FiniteSets, Sequences, SequencesExt

CONSTANTS
  Sources,        \* the feeds that are polled
  Items,          \* the news items
  Undated,        \* those whose date the feed leaves out or nobody can parse
  MeaInputs,      \* the inputs MEA pulls
  ChiefInputs,    \* the inputs the chief pulls
  FalsifiedInRow, \* _MACRO_BRIEF_CONSECUTIVE_FALSIFIED_THRESHOLD
  MaxSubmissions, \* bound: news submissions
  MaxBriefs,      \* bound: macro briefs
  MaxFaults       \* bound: feeds that do not answer and calls that are cut off

VARIABLES
  feed,        \* what each feed lists
  batch,       \* _latest of the provider
  bridge,      \* the bridge's state, and whether it is recent enough for a pull
  mea,         \* per input of MEA, how far it is
  submissions, \* the news submissions stored, in order
  rows,        \* the macro_event rows
  briefs,      \* the macro briefs, in order
  chief,       \* per input of the chief, how far it is
  faults

vars == <<feed, batch, bridge, mea, submissions, rows, briefs, chief, faults>>
deskVars == <<mea, submissions, rows>>
briefVars == <<briefs, chief>>

NoBridge == [recent |-> FALSE, brief |-> 0, confidence |-> "ok"]
NewInput == [pc |-> "new", left |-> {}, of |-> 0]

TypeOK ==
  /\ feed \in [Sources -> SUBSET Items] /\ batch \subseteq Items /\ bridge.brief \in 0 .. MaxBriefs
  /\ \A i \in MeaInputs : mea[i].pc \in {"new", "pulled", "rows", "used"}
  /\ \A c \in ChiefInputs : chief[c].pc \in {"new", "pulled", "stored", "used"}
  /\ submissions \in Seq(SUBSET Items) /\ faults \in 0 .. MaxFaults

Init ==
  /\ feed = [s \in Sources |-> {}] /\ batch = {} /\ bridge = NoBridge
  /\ mea = [i \in MeaInputs |-> NewInput] /\ submissions = <<>> /\ rows = {}
  /\ chief = [c \in ChiefInputs |-> [pc |-> "new", prior |-> 0]] /\ briefs = <<>> /\ faults = 0

-----------------------------------------------------------------------------
\* A feed lists another item in place of those it had, or beside them.
Publish(s, item) ==
  /\ feed' = [feed EXCEPT ![s] = @ \cup {item}]
  /\ UNCHANGED <<batch, bridge, faults, deskVars, briefVars>>

\* A poll: a feed that does not answer adds nothing, an item listed twice is one.
Polled(silent) == UNION {feed[s] : s \in Sources \ silent}

Sync(silent) ==
  /\ faults + Cardinality(silent) <= MaxFaults
  /\ faults' = faults + Cardinality(silent)
  /\ batch' = Polled(silent)

SyncCommand ==
  /\ \E silent \in SUBSET Sources : Sync(silent)
  /\ UNCHANGED <<feed, bridge, deskVars, briefVars>>

\* The newest brief, and the verdicts of the last of them.
Newest == Len(briefs)
Verdicts == {briefs[k].verdict : k \in {j \in DOMAIN briefs : j > Newest - FalsifiedInRow}}

\* Mutant of Confidence: as many as there are will do.
ConfidenceOfFew == IF Verdicts = {"falsified"} THEN "low" ELSE "ok"

\* _chief_regime_confidence_from_recent: the last briefs all say that the one before
\* them was wrong.
Confidence == IF Newest >= FalsifiedInRow /\ Verdicts = {"falsified"} THEN "low" ELSE "ok"

\* The time of the newest item is taken over every item: one without a date stops
\* the refresh, and the state there was stays, to be pulled as it is.
Refreshable(news) == news \cap Undated = {}
StateNow == [recent |-> TRUE, brief |-> Newest, confidence |-> Confidence]

Refresh ==
  /\ Refreshable(batch)
  /\ bridge' = StateNow
  /\ UNCHANGED <<feed, batch, faults, deskVars, briefVars>>

\* The state grows too old for a pull.
Age ==
  /\ bridge.recent
  /\ bridge' = [bridge EXCEPT !.recent = FALSE]
  /\ UNCHANGED <<feed, batch, faults, deskVars, briefVars>>

\* MEA pulls.  Only a state that is too old has the feeds polled and is refreshed
\* first, if it can be.  What the pack shows does not bind what MEA submits.
MeaPull(i) ==
  /\ mea[i].pc = "new"
  /\ mea' = [mea EXCEPT ![i].pc = "pulled"]
  /\ IF bridge.recent THEN UNCHANGED <<batch, bridge, faults>>
     ELSE /\ \E silent \in SUBSET Sources : Sync(silent)
          /\ bridge' = IF Refreshable(batch') THEN StateNow ELSE bridge
  /\ UNCHANGED <<feed, submissions, rows, briefVars>>

\* MEA submits what it makes of the news: events it names itself, so an event can be
\* one that was submitted before.
NewsSubmission(events) == Append(submissions, events)

MeaSubmit(i, events) ==
  /\ mea[i].pc = "pulled" /\ Len(submissions) < MaxSubmissions
  /\ submissions' = NewsSubmission(events)
  /\ mea' = [mea EXCEPT ![i].pc = "rows", ![i].left = events, ![i].of = Len(submissions) + 1]
  /\ UNCHANGED <<feed, batch, bridge, rows, faults, briefVars>>

\* Mutant of RowId: every submission has rows of its own.
RowIdPerSubmission(event, n) == <<event, n>>

\* asset_id: the event's, whichever submission names it.
RowId(event, n) == <<event, 0>>

\* Its events are stored one by one, each in place of the row of the same id.
MeaRow(i) ==
  /\ mea[i].pc = "rows" /\ mea[i].left # {}
  /\ LET event == CHOOSE e \in mea[i].left : TRUE
         row == [id |-> RowId(event, mea[i].of), event |-> event, of |-> mea[i].of]
     IN  /\ rows' = {r \in rows : r.id # row.id} \cup {row}
         /\ mea' = [mea EXCEPT ![i].left = @ \ {event}]
  /\ UNCHANGED <<feed, batch, bridge, submissions, faults, briefVars>>

\* Mutant of Used: the input is used up before its rows are there.
UsedEarly(i) == mea[i].pc = "rows"

Used(i) == mea[i].pc = "rows" /\ mea[i].left = {}

MeaUse(i) ==
  /\ Used(i)
  /\ mea' = [mea EXCEPT ![i].pc = "used"]
  /\ UNCHANGED <<feed, batch, bridge, submissions, rows, faults, briefVars>>

\* The chief pulls: the newest brief is the one it is to review.
ChiefPull(c) ==
  /\ chief[c].pc = "new"
  /\ chief' = [chief EXCEPT ![c] = [pc |-> "pulled", prior |-> Newest]]
  /\ UNCHANGED <<feed, batch, bridge, faults, deskVars, briefs>>

\* A brief that names another one than its pack's is refused; one that names none is
\* given it.
Review(c, verdict) == [prior |-> chief[c].prior, verdict |-> verdict, by |-> c]
Stored(brief) == Append(briefs, brief)

ChiefSubmit(c, verdict) ==
  /\ chief[c].pc = "pulled" /\ Len(briefs) < MaxBriefs
  /\ briefs' = Stored(Review(c, verdict))
  /\ chief' = [chief EXCEPT ![c].pc = "stored"]
  /\ UNCHANGED <<feed, batch, bridge, faults, deskVars>>

ChiefUse(c) ==
  /\ chief[c].pc = "stored"
  /\ chief' = [chief EXCEPT ![c].pc = "used"]
  /\ UNCHANGED <<feed, batch, bridge, faults, deskVars, briefs>>

\* The process ends in the middle of a submission: the input can be used again.
CutOff ==
  /\ faults < MaxFaults
  /\ faults' = faults + 1
  /\ mea' = [i \in MeaInputs |-> IF mea[i].pc = "rows" THEN [mea[i] EXCEPT !.pc = "pulled"] ELSE mea[i]]
  /\ chief' = [c \in ChiefInputs |-> IF chief[c].pc = "stored" THEN [chief[c] EXCEPT !.pc = "pulled"] ELSE chief[c]]
  /\ mea' # mea \/ chief' # chief
  /\ UNCHANGED <<feed, batch, bridge, submissions, rows, briefs>>

Next ==
  \/ \E s \in Sources, item \in Items : Publish(s, item)
  \/ SyncCommand \/ Refresh \/ Age \/ CutOff
  \/ \E i \in MeaInputs : \/ MeaPull(i) \/ MeaRow(i) \/ MeaUse(i)
                          \/ \E events \in SUBSET Items : MeaSubmit(i, events)
  \/ \E c \in ChiefInputs : \/ ChiefPull(c) \/ ChiefUse(c)
                            \/ \E verdict \in {"validated", "falsified"} : ChiefSubmit(c, verdict)

Spec == Init /\ [][Next]_vars

-----------------------------------------------------------------------------
\* What MEA reported stays: an event has one row, of a submission that names it, and
\* when an input is used up each event of its submission has one; and PM hears that
\* the chief's regime is doubtful only after as many reviews in a row were
\* "falsified", the brief it is shown among them.
EventsKept ==
  /\ \A r \in rows : /\ r.event \in submissions[r.of]
                     /\ \A q \in rows : q.event = r.event => q = r
  /\ \A i \in MeaInputs : mea[i].pc = "used" =>
       \A e \in submissions[mea[i].of] : \E r \in rows : r.event = e
  /\ bridge.confidence = "low" =>
       /\ bridge.brief >= FalsifiedInRow
       /\ \A k \in bridge.brief - FalsifiedInRow + 1 .. bridge.brief : briefs[k].verdict = "falsified"

\* Once the feeds were polled the bridge can be refreshed.  The code does not keep this:
\* an item without a date stops every refresh until a poll leaves it out.
RefreshGoesOn == Refreshable(batch)

\* A brief is reviewed once.  The code does not keep this: two inputs pulled before
\* either submits, or one whose submission is cut off, review the same brief, and the
\* doubt about the chief counts it twice.
ReviewedOnce ==
  \A j, k \in DOMAIN briefs : briefs[j].prior = briefs[k].prior /\ briefs[j].prior # 0 => j = k
=============================================================================
