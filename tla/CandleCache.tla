----------------------------- MODULE CandleCache -----------------------------
(***************************************************************************)
(* The candles the forecasts and the trainings are made from              *)
(* (quant_intelligence/support/candle_loader.py).  Every caller loads the  *)
(* file of a coin, asks the exchange for what came after its newest candle *)
(* and for what is missing before its oldest, writes the file again and    *)
(* takes the window it wanted.  Forecasts and trainings do so at the same  *)
(* time, with windows of different lengths, and a script fills windows of  *)
(* the past.  Bar b starts at the time 2 * b; a fetch ends in the middle   *)
(* of a bar, which still forms.                                            *)
(***************************************************************************)
EXTENDS Integers, FiniteSets, FiniteSetsExt

CONSTANTS
  Callers,    \* forecasts and trainings
  Lookbacks,  \* the lengths of their windows, in bars
  Fills,      \* the windows of bars the script fills
  Limit,      \* MAX_PUBLIC_CANDLES_PER_REQUEST
  Trims,      \* whether the exchange keeps to the limit of a request
  MaxHoles,   \* bound: bars without a trade
  First,      \* the newest bar at the beginning
  MaxNow,     \* bound: bars
  MaxFetches  \* bound: fetches

VARIABLES
  now,     \* the bar that forms
  traded,  \* the bars the exchange has candles of
  file,    \* the cache file: "absent", "torn" while it is written, or "whole"
  saved,   \* what the file holds
  caller,  \* per caller, the fetch in progress or over
  fetches

vars == <<now, traded, file, saved, caller, fetches>>

Bars == 0 .. MaxNow
Start(b) == 2 * b
Held == {"no", "forming", "final"}
Nothing == [b \in Bars |-> "no"]
BarsOf(c) == {b \in Bars : c[b] # "no"}
Oldest(c) == Start(Min(BarsOf(c)))
Newest(c) == Start(Max(BarsOf(c)))

\* The exchange's answer for the bars that start between two times.
Reply(from, to, limit) ==
  LET all == {b \in traded : b <= now /\ from <= Start(b) /\ Start(b) <= to}
  IN  IF Trims THEN {b \in all : Cardinality({d \in all : d > b}) < limit} ELSE all
With(c, bars) == [b \in Bars |-> IF b \in bars THEN IF b < now THEN "final" ELSE "forming" ELSE c[b]]

Idle == [pc |-> "idle", end |-> 0, look |-> 0, have |-> Nothing, forward |-> 0,
         before |-> 0, left |-> 0, spans |-> {}, loaded |-> Nothing, got |-> Nothing]

TypeOK ==
  /\ now \in Bars /\ traded \subseteq Bars /\ file \in {"absent", "torn", "whole"}
  /\ saved \in [Bars -> Held] /\ fetches \in 0 .. MaxFetches
  /\ \A c \in Callers : /\ caller[c].pc \in {"idle", "load", "forward", "back", "fill", "save", "saving", "done"}
                        /\ {caller[c].have, caller[c].got, caller[c].loaded} \subseteq [Bars -> Held]

Init ==
  /\ now = First /\ traded \in {T \in SUBSET Bars : Cardinality(Bars \ T) <= MaxHoles}
  /\ file = "absent" /\ saved = Nothing /\ fetches = 0
  /\ caller = [c \in Callers |-> Idle]

Set(c, new) == caller' = [caller EXCEPT ![c] = new]

NextBar == now < MaxNow /\ now' = now + 1 /\ UNCHANGED <<traded, file, saved, caller, fetches>>

\* A fetch notes the time and reads the file: one that is being written cannot
\* be read, and is deleted.
Load(c, look) ==
  /\ caller[c].pc \in {"idle", "done"} /\ fetches < MaxFetches
  /\ fetches' = fetches + 1
  /\ LET have == IF file = "whole" THEN saved ELSE Nothing
         end == Start(now) + 1
         required == end - 2 * look
         empty == BarsOf(have) = {}
         missing == IF empty THEN 2 * look ELSE IF Oldest(have) > required THEN Oldest(have) - required ELSE 0
     IN  Set(c, [Idle EXCEPT !.pc = "forward", !.end = end, !.look = look, !.have = have, !.loaded = have,
                             !.forward = IF empty THEN end ELSE Newest(have) + 2,
                             !.before = IF empty THEN end
                                        ELSE IF Oldest(have) < required THEN Oldest(have) ELSE required,
                             !.left = (missing + 1) \div 2])
  /\ file' = IF file = "torn" THEN "absent" ELSE file
  /\ UNCHANGED <<now, traded, saved>>

\* Mutant of Over: a request that brings less than it may is the last.
OverWhenShort(p, batch) == p.forward >= p.end \/ Cardinality(batch) < Limit

Over(p, batch) == p.forward >= p.end \/ batch = {}

\* What came after the newest candle, a request at a time, until one is empty.
Forward(c) ==
  LET p == caller[c]
      to == IF p.end < p.forward + 2 * Limit THEN p.end ELSE p.forward + 2 * Limit
      batch == Reply(p.forward, to, Limit)
  IN  /\ p.pc = "forward"
      /\ IF Over(p, batch) THEN Set(c, [p EXCEPT !.pc = "back"])
         ELSE Set(c, [p EXCEPT !.have = With(p.have, batch), !.forward = Start(Max(batch)) + 2])
      /\ UNCHANGED <<now, traded, file, saved, fetches>>

\* What is missing at the front of the window, from where it was found to begin.
Back(c) ==
  LET p == caller[c]
      size == IF p.left < Limit THEN p.left ELSE Limit
      batch == Reply(p.before - 2 * size, p.before, size)
      \* a request that brings nothing older is the last
      last == batch = {} \/ Start(Min(batch)) >= p.before
  IN  /\ p.pc = "back"
      /\ IF p.left <= 0 THEN Set(c, [p EXCEPT !.pc = "save"])
         ELSE Set(c, [p EXCEPT !.have = With(p.have, batch), !.left = p.left - size,
                               !.before = IF last THEN p.before ELSE Start(Min(batch)),
                               !.pc = IF last THEN "save" ELSE "back"])
      /\ UNCHANGED <<now, traded, file, saved, fetches>>

\* The file is written in place and is unreadable meanwhile; what is written to
\* a file that was deleted is lost.
SaveBegin(c) ==
  /\ caller[c].pc = "save"
  /\ IF BarsOf(caller[c].have) = {} THEN Set(c, [caller[c] EXCEPT !.pc = "done", !.got = Nothing]) /\ UNCHANGED file
     ELSE Set(c, [caller[c] EXCEPT !.pc = "saving"]) /\ file' = "torn"
  /\ UNCHANGED <<now, traded, saved, fetches>>

Window(p) == [b \in Bars |-> IF p.end - 2 * p.look <= Start(b) /\ Start(b) <= p.end THEN p.have[b] ELSE "no"]

SaveEnd(c) ==
  LET p == caller[c]
  IN  /\ p.pc = "saving"
      /\ IF file = "absent" THEN UNCHANGED <<file, saved>> ELSE file' = "whole" /\ saved' = p.have
      /\ Set(c, [p EXCEPT !.pc = "done", !.got = Window(p)])
      /\ UNCHANGED <<now, traded, fetches>>

\* The script reads the file and asks for each run of bars it lacks.
FillBegin(c, bars) ==
  /\ caller[c].pc \in {"idle", "done"} /\ fetches < MaxFetches
  /\ fetches' = fetches + 1
  /\ LET have == IF file = "whole" THEN saved ELSE Nothing
     IN  Set(c, [Idle EXCEPT !.pc = "fill", !.have = have, !.loaded = have, !.spans = bars \ BarsOf(have)])
  /\ file' = IF file = "torn" THEN "absent" ELSE file
  /\ UNCHANGED <<now, traded, saved>>

Fill(c) ==
  LET p == caller[c]
      from == Min(p.spans)
      run == {b \in p.spans : from .. b \subseteq p.spans}
      to == Min({Max(run) + 1, from + Limit})
      batch == Reply(Start(from), Start(to), Limit)
  IN  /\ p.pc = "fill"
      /\ IF p.spans = {} THEN Set(c, [p EXCEPT !.pc = "save"])
         ELSE Set(c, [p EXCEPT !.have = With(p.have, batch),
                               !.spans = {b \in p.spans : b >= IF batch = {} \/ Max(batch) < from
                                                               THEN to ELSE Max(batch) + 1}])
      /\ UNCHANGED <<now, traded, file, saved, fetches>>

\* A caller is cut off; a file it was writing stays unreadable.
CutOff(c) == caller[c].pc \notin {"idle", "done"} /\ Set(c, Idle) /\ UNCHANGED <<now, traded, file, saved, fetches>>

Next ==
  \/ NextBar
  \/ \E c \in Callers :
       \/ \E look \in Lookbacks : Load(c, look)
       \/ \E bars \in Fills : FillBegin(c, bars)
       \/ Forward(c) \/ Back(c) \/ Fill(c) \/ SaveBegin(c) \/ SaveEnd(c) \/ CutOff(c)

Spec == Init /\ [][Next]_vars

-----------------------------------------------------------------------------
(***************************************************************************)
(* Properties.                                                             *)
(***************************************************************************)

\* An outage as long as a request.
Outage == \E b \in 0 .. now - Limit : (b .. b + Limit) \cap traded = {}

\* However long the file was left alone and whoever wrote it meanwhile, a fetch
\* returns every candle of its window that came after the newest one it had
\* loaded, unless an outage as long as a request ended the search; with no file
\* to load it returns the whole window, if no bar of it lacks a candle.
CaughtUp ==
  \A c \in Callers :
    LET p == caller[c]
        known == BarsOf(p.loaded)
        window == {b \in Bars : p.end - 2 * p.look <= Start(b) /\ Start(b) <= p.end}
        owed == IF known # {} THEN {b \in window \cap traded : b > Max(known)}
                ELSE IF window \subseteq traded THEN window ELSE {}
    IN  p.pc = "done" /\ p.look > 0 /\ ~Outage => \A b \in owed : p.got[b] # "no"

\* A fetch returns every candle of its window.  It does not: what is missing
\* before the oldest cached candle is asked for before the window instead.
WindowWhole ==
  \A c \in Callers :
    LET p == caller[c]
    IN  p.pc = "done" /\ p.look > 0 /\ traded = Bars
          => \A b \in Bars : p.end - 2 * p.look <= Start(b) /\ Start(b) <= p.end => p.got[b] # "no"

\* A candle of a bar that is over is the bar's.  It is not: one that was fetched
\* while its bar formed is never asked for again.
FinalOnceOver == \A c \in Callers : caller[c].pc = "done" => \A b \in Bars : Start(b) + 2 < caller[c].end => caller[c].got[b] # "forming"

=============================================================================
