--------------------------- MODULE QuantArtifacts ---------------------------
(***************************************************************************)
(* The models a forecast is made with (quant_intelligence/adapters and     *)
(* support/artifacts.py).  A retraining trains one horizon after another   *)
(* and writes each artifact as three files; forecasts, asked for by other  *)
(* threads meanwhile, load an artifact when they need it first and keep it *)
(* in memory until a retraining has succeeded.  A part of an artifact is   *)
(* the number of the training it comes from, or Torn while it is written.  *)
(***************************************************************************)
EXTENDS Integers, Sequences, FiniteSets

CONSTANTS
  Horizons,     \* forecast_horizons, a sequence
  Threads,      \* the threads that ask for forecasts
  MaxTrainings, \* bound: retrainings
  MaxForecasts  \* bound: forecasts

VARIABLES
  file,       \* per horizon, the parts of the artifact written
  cache,      \* per horizon, the artifact in memory, or NoArtifact
  trainer,    \* the retraining in progress: its number, horizon and part
  thread,     \* per thread, the forecast in progress
  served,     \* per thread, the forecast made last
  good,       \* the newest retraining that succeeded
  overlapped, \* the horizons an artifact of which was written while it was
              \* loaded, or whose writing was cut off
  trainings, forecasts

vars == <<file, cache, trainer, thread, served, good, overlapped, trainings, forecasts>>

Parts == <<"meta", "regime", "classifier">>
Torn == -1
NoArtifact == <<>>
Names == {Horizons[i] : i \in DOMAIN Horizons}
NoForecast == [since |-> 0, parts |-> <<>>]
Idle == [pc |-> "idle", since |-> 0, at |-> 1, read |-> <<>>, parts |-> <<>>]
NoTrainer == [number |-> 0, at |-> 0, part |-> 0]

TypeOK ==
  /\ file \in [Names -> [1 .. 3 -> Torn .. MaxTrainings]] /\ good \in 0 .. MaxTrainings
  /\ \A h \in Names : cache[h] = NoArtifact \/ cache[h] \in [1 .. 3 -> 0 .. MaxTrainings]
  /\ \A t \in Threads : thread[t].pc \in {"idle", "candles", "horizon", "load"}

Init ==
  /\ file = [h \in Names |-> <<0, 0, 0>>] /\ cache = [h \in Names |-> NoArtifact]
  /\ trainer = NoTrainer /\ thread = [t \in Threads |-> Idle] /\ served = [t \in Threads |-> NoForecast]
  /\ good = 0 /\ overlapped = {} /\ trainings = 0 /\ forecasts = 0

Loading(h) == \E t \in Threads : thread[t].pc = "load" /\ Horizons[thread[t].at] = h
Saving(h) == trainer.part > 0 /\ Horizons[trainer.at] = h

\* A retraining begins with the first horizon: the candles of all coins.
Retrain ==
  /\ trainer = NoTrainer /\ trainings < MaxTrainings
  /\ trainings' = trainings + 1 /\ trainer' = [number |-> trainings + 1, at |-> 1, part |-> 0]
  /\ UNCHANGED <<file, cache, thread, served, good, overlapped, forecasts>>

\* Too few candles, rows or windows: what the horizons before wrote stays, and
\* what is in memory too.
TrainFails ==
  /\ trainer # NoTrainer /\ trainer.part = 0
  /\ trainer' = NoTrainer
  /\ UNCHANGED <<file, cache, thread, served, good, overlapped, trainings, forecasts>>

\* The models are fitted; a part is written in place.
SaveBegin ==
  /\ trainer # NoTrainer
  /\ LET h == Horizons[trainer.at]
         next == trainer.part + 1
     IN  /\ trainer.part < 3 /\ \A k \in 1 .. trainer.part : file[h][k] # Torn
         /\ file' = [file EXCEPT ![h][next] = Torn]
         /\ trainer' = [trainer EXCEPT !.part = next]
         /\ overlapped' = IF Loading(h) THEN overlapped \cup {h} ELSE overlapped
  /\ UNCHANGED <<cache, thread, served, good, trainings, forecasts>>

SaveEnd ==
  /\ trainer.part > 0
  /\ LET h == Horizons[trainer.at]
     IN  /\ file[h][trainer.part] = Torn
         /\ file' = [file EXCEPT ![h][trainer.part] = trainer.number]
         /\ trainer' = IF trainer.part = 3 /\ trainer.at < Len(Horizons)
                       THEN [trainer EXCEPT !.at = @ + 1, !.part = 0] ELSE trainer
         /\ overlapped' = IF Loading(h) THEN overlapped \cup {h} ELSE overlapped
  /\ UNCHANGED <<cache, thread, served, good, trainings, forecasts>>

\* Mutant of Cleared: the artifacts in memory stay.
ClearedNot == cache

Cleared == [h \in Names |-> NoArtifact]

\* The last horizon is written: the artifacts in memory are forgotten.
RetrainDone ==
  /\ trainer.part = 3 /\ trainer.at = Len(Horizons) /\ file[Horizons[trainer.at]][3] # Torn
  /\ cache' = Cleared /\ trainer' = NoTrainer /\ good' = trainer.number
  /\ overlapped' = overlapped \cup {h \in Names : Loading(h)}
  /\ UNCHANGED <<file, thread, served, trainings, forecasts>>

\* A forecast fetches the candles of its coins, then goes through the horizons.
Predict(t) ==
  /\ thread[t].pc = "idle" /\ forecasts < MaxForecasts
  /\ forecasts' = forecasts + 1
  /\ thread' = [thread EXCEPT ![t] = [Idle EXCEPT !.pc = "candles", !.since = good]]
  /\ UNCHANGED <<file, cache, trainer, served, good, overlapped, trainings>>

\* Candles that cannot be fetched raise, and there is no forecast at all.
Candles(t, fetched) ==
  /\ thread[t].pc = "candles"
  /\ thread' = [thread EXCEPT ![t] = IF fetched THEN [@ EXCEPT !.pc = "horizon"] ELSE Idle]
  /\ UNCHANGED <<file, cache, trainer, served, good, overlapped, trainings, forecasts>>

\* One horizon: its artifact is in memory, or has to be loaded.
Horizon(t) ==
  LET h == Horizons[thread[t].at]
  IN  /\ thread[t].pc = "horizon" /\ thread[t].at <= Len(Horizons)
      /\ thread' = [thread EXCEPT ![t] =
                      IF cache[h] # NoArtifact THEN [thread[t] EXCEPT !.parts = Append(@, cache[h]), !.at = @ + 1]
                      ELSE [@ EXCEPT !.pc = "load", !.read = <<>>]]
      /\ overlapped' = IF cache[h] = NoArtifact /\ Saving(h) THEN overlapped \cup {h} ELSE overlapped
      /\ UNCHANGED <<file, cache, trainer, served, good, trainings, forecasts>>

\* The files are read one by one; one that cannot be read makes the coin flat.
Read(t) ==
  LET h == Horizons[thread[t].at]
      part == file[h][Len(thread[t].read) + 1]
      read == Append(thread[t].read, part)
  IN  /\ thread[t].pc = "load"
      /\ IF part = Torn
         THEN /\ thread' = [thread EXCEPT ![t] = Idle]
              /\ served' = [served EXCEPT ![t] = NoForecast] /\ UNCHANGED cache
         ELSE IF Len(read) < 3 THEN thread' = [thread EXCEPT ![t].read = read] /\ UNCHANGED <<cache, served>>
         ELSE /\ cache' = [cache EXCEPT ![h] = read]
              /\ thread' = [thread EXCEPT ![t] = [thread[t] EXCEPT !.pc = "horizon", !.parts = Append(@, read), !.at = @ + 1]]
              /\ UNCHANGED served
      /\ UNCHANGED <<file, trainer, good, overlapped, trainings, forecasts>>

Served(t) ==
  /\ thread[t].pc = "horizon" /\ thread[t].at > Len(Horizons)
  /\ served' = [served EXCEPT ![t] = [since |-> thread[t].since, parts |-> thread[t].parts]]
  /\ thread' = [thread EXCEPT ![t] = Idle]
  /\ UNCHANGED <<file, cache, trainer, good, overlapped, trainings, forecasts>>

\* The process ends: what was written in part stays written in part.
Restart ==
  /\ trainer # NoTrainer
  /\ overlapped' = overlapped \cup {h \in Names : Saving(h)}
  /\ trainer' = NoTrainer /\ cache' = [h \in Names |-> NoArtifact]
  /\ thread' = [t \in Threads |-> Idle] /\ served' = [t \in Threads |-> NoForecast]
  /\ UNCHANGED <<file, good, trainings, forecasts>>

Next ==
  \/ Retrain \/ TrainFails \/ SaveBegin \/ SaveEnd \/ RetrainDone \/ Restart
  \/ \E t \in Threads : Predict(t) \/ Horizon(t) \/ Read(t) \/ Served(t) \/ \E fetched \in BOOLEAN : Candles(t, fetched)

Spec == Init /\ [][Next]_vars

-----------------------------------------------------------------------------
(***************************************************************************)
(* Properties.                                                             *)
(***************************************************************************)

PartsOf(t, i) == {served[t].parts[i][k] : k \in 1 .. 3}

\* The parts a forecast of a horizon is made with come from one training, no
\* older than the newest that had succeeded when it was asked for, unless the
\* artifact was at some time loaded while it was written or forgotten, or its
\* writing was cut off: horizons that fail or succeed apart, forecasts that
\* overlap and restarts do no harm.
OneTraining ==
  \A t \in Threads : \A i \in DOMAIN served[t].parts :
    Horizons[i] \notin overlapped
      => /\ Cardinality(PartsOf(t, i)) = 1
         /\ \A v \in PartsOf(t, i) : v >= served[t].since

\* A forecast is made with one training.  It may be made with parts of two, for as
\* long as they are in memory.
NeverMixed == \A t \in Threads : \A i \in DOMAIN served[t].parts : Cardinality(PartsOf(t, i)) = 1

\* A forecast uses no training older than the newest that has succeeded.  It may:
\* an artifact loaded before the retraining is put into memory after it.
NewestServed == \A t \in Threads : \A i \in DOMAIN served[t].parts : \A v \in PartsOf(t, i) : v >= served[t].since

=============================================================================
