---------------------------- MODULE FeatureStore ----------------------------
(***************************************************************************)
(* What a training knows of the derivatives market of a coin beside its    *)
(* candles (quant_intelligence/support/snapshot_history.py and             *)
(* daily_macro_history.py).  Each horizon asks for a window of its own     *)
(* that ends now: the rows of each metric come from a file per day, or     *)
(* from Binance where there is none, open interest from Tardis as well;    *)
(* what was merged is kept with the range it claims to cover.  From it,    *)
(* from Tardis' files of the first of each month and from Coinalyze the    *)
(* daily series are made.  A row is stamped with the start of its bar and  *)
(* known at the bar's end; a day's value is known with its last row.       *)
(***************************************************************************)
EXTENDS Integers, FiniteSets, FiniteSetsExt

CONSTANTS
  Looks,       \* the windows of the horizons, in bars
  Padding,     \* the bars a window reaches back further, in both stores
  DayBars,     \* the bars of a day
  Retention,   \* the bars for which Binance keeps open interest
  RecentDays,  \* the days for which it is asked
  TardisDays,  \* the days whose file Tardis gives away
  Coinalyze,   \* whether a key of Coinalyze is configured
  MaxHoles,    \* bound: bars of which an exchange has no row
  MaxNow,      \* bound: bars
  MaxAsks      \* bound: windows asked for

VARIABLES
  now,     \* the bar that forms
  listed,  \* per metric, the bars the exchange has rows of
  raw,     \* per metric and day, the bars in the file, or Absent, or Torn
  tardis,  \* per day, the same of Tardis' file, or Missing
  kept,    \* the merged series, their claim, and whether the file can be read
  daily,   \* the daily series of open interest and their claim
  ask,     \* the window asked for, the series gathered, and how far it is
  asks     \* windows asked for

vars == <<now, listed, raw, tardis, kept, daily, ask, asks>>

Metrics == {"premiums", "open_interest"}
Bars == 0 .. MaxNow
Day(b) == b \div DayBars
Days == 0 .. Day(MaxNow)
DayOver(d) == now >= (d + 1) * DayBars
BarsOfDay(d) == {b \in Bars : Day(b) = d}
Absent == {-1}
Torn == {-2}
Missing == {-3}
Rows(file) == file \cap Bars
Empty == [m \in Metrics |-> {}]
NoDay == [d \in Days |-> -1]
NoAsk == [pc |-> "idle", look |-> 0, at |-> 0, asked |-> FALSE, series |-> Empty]
NoFile == [readable |-> TRUE, exists |-> FALSE, from |-> 0, to |-> 0, series |-> Empty]

TypeOK ==
  /\ now \in Bars /\ listed \in [Metrics -> SUBSET Bars] /\ asks \in 0 .. MaxAsks
  /\ \A m \in Metrics, d \in Days : raw[m][d] \subseteq BarsOfDay(d) \/ raw[m][d] \in {Absent, Torn}
  /\ kept.series \in [Metrics -> SUBSET Bars] /\ daily.oi \in [Days -> -1 .. MaxNow]
  /\ ask.pc \in {"idle", "premiums", "tardis", "open_interest", "save", "daily"}

Init ==
  /\ now = 1 /\ listed \in {[m \in Metrics |-> Bars \ H] : H \in {G \in SUBSET Bars : Cardinality(G) <= MaxHoles}}
  /\ raw = [m \in Metrics |-> [d \in Days |-> Absent]] /\ tardis = [d \in Days |-> Absent]
  /\ kept = NoFile /\ daily = [exists |-> FALSE, from |-> 0, to |-> 0, oi |-> NoDay]
  /\ ask = NoAsk /\ asks = 0

NextBar == now < MaxNow /\ now' = now + 1 /\ UNCHANGED <<listed, raw, tardis, kept, daily, ask, asks>>

\* A window: the candles up to the one that forms, and what it reaches back.
From(p) == IF p.at - p.look - Padding < 0 THEN 0 ELSE p.at - p.look - Padding
To(p) == p.at + 1
WindowDays(p) == Day(From(p)) .. Day(p.at)
\* Mutant of Trim: only the rows of the candles' own bars are taken.
TrimToCandles(p, bars) == {b \in bars : p.at - p.look <= b /\ b <= To(p)}

Trim(p, bars) == {b \in bars : From(p) <= b /\ b <= To(p)}

\* The store is read; unless it claims the window, the metrics are gathered.
Load(look) ==
  /\ ask.pc = "idle" /\ asks < MaxAsks
  /\ asks' = asks + 1
  /\ kept.readable
  /\ LET p == [NoAsk EXCEPT !.look = look, !.at = now, !.series = kept.series]
         from == IF kept.exists THEN kept.from ELSE To(p)
         to == IF kept.exists THEN kept.to ELSE From(p)
         short == kept.series["premiums"] = {} \/ From(p) < from \/ To(p) > to
     IN  ask' = [p EXCEPT !.pc = IF short THEN "premiums" ELSE "save", !.asked = short]
  /\ UNCHANGED <<now, listed, raw, tardis, kept, daily>>

\* A file that cannot be read ends every request.
LoadFails == ask.pc = "idle" /\ asks < MaxAsks /\ ~kept.readable /\ asks' = asks + 1
             /\ UNCHANGED <<now, listed, raw, tardis, kept, daily, ask>>

\* The days of a metric without a file, in spans of consecutive days; the
\* exchange's answer includes the row at the span's end, the next day's first.
Lacking(m, days) == {d \in days : raw[m][d] = Absent}
Asked(m, days) == {b \in Bars : \E d \in days : Day(b) = d \/ (b = (d + 1) * DayBars /\ Day(b) \notin days)}
Kept(m, bars) == IF m = "open_interest" THEN {b \in bars : b >= now - Retention} ELSE bars
Answer(m, days) == {b \in Kept(m, Asked(m, days)) : b \in listed[m] /\ b <= now}

\* Every day the answer has a row of gets a file with these rows.
Filed(m, answer) ==
  [d \in Days |-> IF answer \cap BarsOfDay(d) = {} THEN raw[m][d] ELSE answer \cap BarsOfDay(d)]

MetricDays(m, p) == IF m = "open_interest" THEN {d \in WindowDays(p) : d >= Day(now) - RecentDays} ELSE WindowDays(p)

\* The files of a metric's days are read, and what they lack is asked for.
Fetch(m) ==
  LET days == MetricDays(m, ask)
      answer == Answer(m, Lacking(m, days))
      rows == (UNION {Rows(raw[m][d]) : d \in days}) \cup answer
      next == IF m = "premiums" THEN "tardis" ELSE "save"
  IN  /\ ask.pc = m
      /\ \A d \in days : raw[m][d] # Torn
      /\ raw' = [raw EXCEPT ![m] = Filed(m, answer)]
      /\ ask' = [ask EXCEPT !.pc = next, !.series[m] = @ \cup Trim(ask, rows)]
      /\ UNCHANGED <<now, listed, tardis, kept, daily, asks>>

\* A file is torn, or the exchange raises: the window is given up.
FetchFails(m) ==
  /\ ask.pc = m
  /\ ask' = NoAsk /\ UNCHANGED <<now, listed, raw, tardis, kept, daily, asks>>

\* The process ends while it writes the file of a day.
CutOffFiling(m, d) ==
  /\ ask.pc = m /\ d \in Lacking(m, MetricDays(m, ask)) /\ Answer(m, {d}) # {}
  /\ raw' = [raw EXCEPT ![m][d] = Torn] /\ ask' = NoAsk
  /\ UNCHANGED <<now, listed, tardis, kept, daily, asks>>

\* Tardis: a day that is not published is marked as missing and not asked for
\* again; a request that does not get through is tried by the next window.
FetchTardis(failing) ==
  LET days == TardisDays \cap WindowDays(ask)
      file == [d \in Days |-> IF d \notin days \/ tardis[d] # Absent \/ d \in failing THEN tardis[d]
                              ELSE IF DayOver(d) THEN listed["open_interest"] \cap BarsOfDay(d) ELSE Missing]
  IN  /\ ask.pc = "tardis"
      /\ tardis' = file
      /\ ask' = [ask EXCEPT !.pc = "open_interest",
                            !.series["open_interest"] = @ \cup Trim(ask, UNION {Rows(file[d]) : d \in days})]
      /\ UNCHANGED <<now, listed, raw, kept, daily, asks>>

\* What is kept is trimmed to the window, and claims what was claimed before.
Merged(p) == [m \in Metrics |-> Trim(p, p.series[m])]
Claims(p) ==
  [readable |-> TRUE, exists |-> TRUE, series |-> Merged(p),
   from |-> IF ~kept.exists \/ (p.asked /\ From(p) < kept.from) THEN From(p) ELSE kept.from,
   to |-> IF ~kept.exists \/ (p.asked /\ To(p) > kept.to) THEN To(p) ELSE kept.to]

Save ==
  /\ ask.pc = "save" /\ kept' = Claims(ask)
  /\ ask' = [ask EXCEPT !.pc = "daily", !.series = Merged(ask)]
  /\ UNCHANGED <<now, listed, raw, tardis, daily, asks>>

CutOffSaving ==
  /\ ask.pc = "save" /\ kept' = [NoFile EXCEPT !.readable = FALSE] /\ ask' = NoAsk
  /\ UNCHANGED <<now, listed, raw, tardis, daily, asks>>

\* The daily series: Coinalyze's value of a day, else the last row kept of it,
\* else the last of the newest first of a month before it.
LastOf(bars) == IF bars = {} THEN -1 ELSE Max(bars)
Anchor(files, d) ==
  LET before == {a \in TardisDays : a <= d /\ Rows(files[a]) # {}}
  IN  IF before = {} THEN -1 ELSE LastOf(Rows(files[Max(before)]))
DailyOI(files, d) ==
  LET own == LastOf({b \in kept.series["open_interest"] : Day(b) = d})
      theirs == IF Coinalyze THEN LastOf({b \in listed["open_interest"] : Day(b) = d /\ b <= now}) ELSE -1
  IN  IF theirs # -1 THEN theirs ELSE IF own # -1 THEN own ELSE Anchor(files, d)

\* The anchors are asked for again where there is no file, marked or not.
MonthlyAnchors(failing) ==
  [d \in Days |-> IF d \in TardisDays \cap WindowDays(ask) /\ tardis[d] \in {Absent, Missing} /\ DayOver(d) /\ d \notin failing
                  THEN listed["open_interest"] \cap BarsOfDay(d) ELSE tardis[d]]

BuildDaily(failing) ==
  LET from == From(ask)
      to == To(ask) + DayBars
      within == daily.exists /\ daily.from <= from /\ to <= daily.to
  IN  /\ ask.pc = "daily"
      /\ IF within THEN UNCHANGED <<tardis, daily>>
         ELSE /\ tardis' = MonthlyAnchors(failing)
              /\ daily' = [exists |-> TRUE,
                           from |-> IF daily.exists /\ daily.from < from THEN daily.from ELSE from,
                           to |-> IF daily.exists /\ daily.to > to THEN daily.to ELSE to,
                           oi |-> [d \in Days |-> IF d \in WindowDays(ask) THEN DailyOI(MonthlyAnchors(failing), d) ELSE -1]]
      /\ ask' = NoAsk
      /\ UNCHANGED <<now, listed, raw, kept, asks>>

Next ==
  \/ NextBar
  \/ \E look \in Looks : Load(look)
  \/ LoadFails
  \/ \E m \in Metrics : Fetch(m) \/ FetchFails(m) \/ \E d \in Days : CutOffFiling(m, d)
  \/ \E failing \in SUBSET TardisDays : FetchTardis(failing) \/ BuildDaily(failing)
  \/ Save \/ CutOffSaving

Spec == Init /\ [][Next]_vars

-----------------------------------------------------------------------------
(***************************************************************************)
(* Properties.                                                             *)
(***************************************************************************)

\* The rows of a window that are over when it is given to a training.
Owed(m) == {b \in listed[m] : From(ask) <= b /\ b <= ask.at /\ b < now}
Given(m) == ask.series[m]
Short(m, d) == raw[m][d] \notin {Absent, Torn} /\ raw[m][d] # listed[m] \cap BarsOfDay(d)

\* A row of the exchange is missing from the window given to a training only if
\* an earlier window claimed it, or the file of its day was written short; open
\* interest also if it is older than what the exchange keeps or is asked for.
\* Windows of different lengths, days without rows and requests that failed or
\* were cut off half-way leave no other gap.
GapsExplained ==
  ask.pc = "daily" /\ ask.asked =>
    \A m \in Metrics : \A b \in Owed(m) \ Given(m) :
      \/ Short(m, Day(b))
      \/ m = "open_interest" /\ (b < now - Retention \/ Day(b) < Day(now) - RecentDays)

\* What the store claims to cover it holds.  It does not: it is trimmed to the
\* window asked for last, and its claim spans what no window asked for.
ClaimedIsHeld ==
  ask.pc = "daily" /\ ~ask.asked =>
    \A b \in Owed("premiums") \ Given("premiums") : Short("premiums", Day(b))

\* The file of a day that is over holds the day.  It does not: the file of today
\* is written from what there is and never asked for again.
DayWholeOnceOver == \A m \in Metrics, d \in Days : DayOver(d) => ~Short(m, d)

\* The file of a day never loses rows.  It does: the answer for the days before
\* it includes its first row, and its file is written anew with that row alone.
RawOnlyGrows ==
  [][\A m \in Metrics, d \in Days : Rows(raw[m][d]) \subseteq Rows(raw'[m][d])]_vars

\* A daily value given for a candle was known when the candle ended.  It was not:
\* the last row of a day stands at the day's start.
DailyIsPast == \A t \in Bars : daily.exists /\ daily.from <= t /\ t < daily.to => daily.oi[Day(t)] <= t

=============================================================================
