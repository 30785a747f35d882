---------------------------- MODULE MacroPrices ----------------------------
(***************************************************************************)
(* The prices of oil, dollar, yields, funds and the mood of the market:    *)
(* MacroDataService keeps the last snapshot for refresh_interval_seconds   *)
(* and otherwise asks every source side by side.  The bridge's own cycle   *)
(* and the pulls that refresh it call the same service, and its lock is    *)
(* held only while the cache is read and written.                          *)
(***************************************************************************)
EXTENDS Integers, FiniteSets

CONSTANTS
  Callers,   \* the refreshes that run side by side
  Series,    \* the quotes, the funds and the index
  Interval,  \* refresh_interval_seconds
  MaxNow,    \* bound: the clock
  MaxErrors  \* bound: requests that fail

VARIABLES
  now,
  cache,   \* _latest and _fetched_at
  caller,  \* per caller, the snapshot it gathers, or the one it was given
  errors

vars == <<now, cache, caller, errors>>

\* A value is known by the time it was read; a failed request leaves none.
NotAsked == -2
Failed == -1
Nothing == [at |-> -1, read |-> [s \in Series |-> Failed]]
Idle == [pc |-> "idle", asked |-> 0, snapshot |-> Nothing]

TypeOK ==
  /\ now \in 0 .. MaxNow /\ errors \in 0 .. MaxErrors
  /\ \A c \in Callers : caller[c].pc \in {"idle", "fetch", "given"}
  /\ cache.at \in -1 .. now /\ \A s \in Series : cache.read[s] \in -1 .. now

Init == now = 0 /\ errors = 0 /\ cache = Nothing /\ caller = [c \in Callers |-> Idle]

-----------------------------------------------------------------------------
\* collect_snapshot: the snapshot of the cache, unless it is too old or there is none.
Recent == cache.at >= 0 /\ now - cache.at < Interval

Collect(c) ==
  /\ caller[c].pc = "idle"
  /\ caller' = [caller EXCEPT ![c] = IF Recent
       THEN [pc |-> "given", asked |-> now, snapshot |-> cache]
       ELSE [pc |-> "fetch", asked |-> now, snapshot |-> [at |-> now, read |-> [s \in Series |-> NotAsked]]]]
  /\ UNCHANGED <<now, cache, errors>>

\* One source answers, or its request fails and the snapshot says so.
Answer(c, s, value) ==
  /\ caller[c].pc = "fetch" /\ caller[c].snapshot.read[s] = NotAsked
  /\ value = Failed => errors < MaxErrors
  /\ errors' = IF value = Failed THEN errors + 1 ELSE errors
  /\ caller' = [caller EXCEPT ![c].snapshot.read[s] = value]
  /\ UNCHANGED <<now, cache>>

Quote(c, s) == Answer(c, s, now)
Error(c, s) == Answer(c, s, Failed)

\* Mutant of Stamp: the time the last answer is there.
StampAfter(c) == now

\* captured_at_utc and _fetched_at: the time of the call.
Stamp(c) == caller[c].asked

\* Every source has answered: the snapshot is kept and given.
Store(c) ==
  /\ caller[c].pc = "fetch" /\ \A s \in Series : caller[c].snapshot.read[s] # NotAsked
  /\ cache' = [caller[c].snapshot EXCEPT !.at = Stamp(c)]
  /\ caller' = [caller EXCEPT ![c] = [@ EXCEPT !.pc = "given", !.snapshot = cache']]
  /\ UNCHANGED <<now, errors>>

Done(c) ==
  /\ caller[c].pc = "given"
  /\ caller' = [caller EXCEPT ![c] = Idle]
  /\ UNCHANGED <<now, cache, errors>>

Tick ==
  /\ now < MaxNow /\ now' = now + 1
  /\ UNCHANGED <<cache, caller, errors>>

Next ==
  \/ Tick
  \/ \E c \in Callers : Collect(c) \/ Store(c) \/ Done(c) \/ \E s \in Series : Quote(c, s) \/ Error(c, s)

Spec == Init /\ [][Next]_vars

-----------------------------------------------------------------------------
\* However long the sources take and whichever caller stores last, no price a refresh
\* is given was read an interval or more before the refresh asked.
GivenIsRecent ==
  \A c \in Callers, s \in Series :
    caller[c].pc = "given" /\ caller[c].snapshot.read[s] >= 0 =>
      caller[c].asked - caller[c].snapshot.read[s] < Interval

\* The cache keeps the newest snapshot.  The code does not: a slow refresh stores its
\* own over that of a later one.
NewestIsCached == [][cache'.at >= cache.at]_vars

\* A price that was there stays until it is too old.  The code does not keep this: one
\* request that fails leaves every pull of the next interval without it.
PriceStays ==
  [][\A s \in Series : cache.read[s] >= 0 /\ now - cache.read[s] < 2 * Interval => cache'.read[s] >= 0]_vars
=============================================================================
