---------------------------- MODULE MarketBundle ----------------------------
(***************************************************************************)
(* What the runtime packs, the risk brake and the forecasts know of the    *)
(* market: DataIngestService.collect asks its provider six things at once, *)
(* each of them several readings of an exchange that goes on moving, and   *)
(* puts them together as one bundle.  A product, and with it the mark      *)
(* price, is remembered for some seconds by the client all of them share.  *)
(*                                                                         *)
(* One coin.  A reading is the time of the account or price that was read. *)
(***************************************************************************)
EXTENDS Integers, Sequences, SequencesExt, FiniteSetsExt

CONSTANTS
  Calls,      \* those of the six that are looked at
  Paths,      \* the closes of the candles, hour after hour
  TTL,        \* _product_cache_ttl_seconds
  Lookback,   \* the candles of a series
  MaxNow,     \* bound: the clock
  MaxBundles, \* bound: bundles
  MaxFaults   \* bound: calls that fail

VARIABLES
  now,
  path,    \* the closes
  cache,   \* the remembered product: when it was asked for and of when it is
  job,     \* the six calls
  bundle,  \* the collection in progress or over
  faults

vars == <<now, path, cache, job, bundle, faults>>

\* collect_market, collect_accounts, collect_portfolio, collect_market_context,
\* collect_execution_history and collect_product_metadata: what each reads, in
\* order.  The account of a coin comes from a second look at its position, and the
\* state of a product from a second look at it.
Program ==
  [market   |-> <<"product">>,
   accounts |-> <<"equity", "position", "product">>,
   portfolio|-> <<"equity", "position", "orders">>,
   context  |-> <<"candles", "product">>,
   history  |-> <<"orders">>,
   metadata |-> <<"product", "product">>]

NoProduct == [asked |-> -TTL, of |-> 0]
Waiting == [pc |-> "ready", asked |-> 0, got |-> <<>>]

TypeOK ==
  /\ now \in 0 .. MaxNow /\ path \in Paths /\ faults \in 0 .. MaxFaults
  /\ cache.of \in 0 .. MaxNow /\ cache.asked <= now
  /\ bundle \in [pc : {"none", "collecting", "made", "failed"}, from : 0 .. MaxNow, count : 0 .. MaxBundles]
  /\ \A c \in Calls : /\ job[c].pc \in {"ready", "fetching", "done", "failed"}
                      /\ Len(job[c].got) <= Len(Program[c])

Init ==
  /\ now = 0 /\ path \in Paths /\ cache = NoProduct /\ faults = 0
  /\ job = [c \in Calls |-> Waiting]
  /\ bundle = [pc |-> "none", from |-> 0, count |-> 0]

Running(c) == bundle.pc = "collecting" /\ job[c].pc \in {"ready", "fetching"}
Wanted(c) == Program[c][Len(job[c].got) + 1]

-----------------------------------------------------------------------------
\* What the context says of a series of closes.
Breakout(p) ==
  LET before == {p[i] : i \in 1 .. Len(p) - 1}
  IN  IF Len(p) < 3 THEN "unknown"
      ELSE CASE Last(p) > Max(before) -> "up_breakout"
             [] Last(p) < Min(before) -> "down_breakout"
             [] OTHER                 -> "range"
Trend(p) == IF Last(p) > p[1] THEN "uptrend" ELSE "downtrend"
AboveMean(p) ==
  LET sum[n \in 0 .. Len(p)] == IF n = 0 THEN 0 ELSE sum[n - 1] + p[n]
  IN  Last(p) * Len(p) >= sum[Len(p)]
Level(p) == [high |-> Max(ToSet(p)), low |-> Min(ToSet(p))]

\* The series ends with the candle that forms.
Series(at) == SubSeq(path, at + 1, at + Lookback)

-----------------------------------------------------------------------------
Tick ==
  /\ now < MaxNow /\ now' = now + 1
  /\ UNCHANGED <<path, cache, job, bundle, faults>>

Collect ==
  /\ bundle.pc # "collecting" /\ bundle.count < MaxBundles
  /\ bundle' = [pc |-> "collecting", from |-> now, count |-> bundle.count + 1]
  /\ job' = [c \in Calls |-> Waiting]
  /\ UNCHANGED <<now, path, cache, faults>>

Got(c, at) ==
  LET got == Append(job[c].got, at)
  IN  job' = [job EXCEPT ![c] = [pc |-> IF Len(got) = Len(Program[c]) THEN "done" ELSE "ready",
                                 asked |-> 0, got |-> got]]

\* A balance, the positions, the orders or the candles are those of the moment.
Read(c) ==
  /\ Running(c) /\ Wanted(c) # "product"
  /\ Got(c, now)
  /\ UNCHANGED <<now, path, cache, bundle, faults>>

Cached(c) ==
  /\ Running(c) /\ Wanted(c) = "product" /\ job[c].pc = "ready"
  /\ now - cache.asked < TTL
  /\ Got(c, cache.of)
  /\ UNCHANGED <<now, path, cache, bundle, faults>>

Missed(c) ==
  /\ Running(c) /\ Wanted(c) = "product" /\ job[c].pc = "ready"
  /\ now - cache.asked >= TTL
  /\ job' = [job EXCEPT ![c].pc = "fetching", ![c].asked = now]
  /\ UNCHANGED <<now, path, cache, bundle, faults>>

\* Mutant of Stamp: the time at which the product is remembered.
StampAfter(c) == now

\* A remembered product is as old as the request, not as the reply.
Stamp(c) == job[c].asked

\* The reply is of some time since; whoever stores last is remembered.
Fetched(c) ==
  /\ Running(c) /\ job[c].pc = "fetching"
  /\ \E at \in job[c].asked .. now : /\ cache' = [asked |-> Stamp(c), of |-> at]
                                     /\ Got(c, at)
  /\ UNCHANGED <<now, path, bundle, faults>>

Fails(c) ==
  /\ Running(c) /\ faults < MaxFaults
  /\ faults' = faults + 1
  /\ job' = [job EXCEPT ![c].pc = "failed"]
  /\ UNCHANGED <<now, path, cache, bundle>>

\* The pool is left when all six are over, and one that failed fails the bundle.
Together ==
  /\ bundle.pc = "collecting" /\ \A c \in Calls : ~Running(c)
  /\ bundle' = [bundle EXCEPT !.pc = IF \E c \in Calls : job[c].pc = "failed" THEN "failed" ELSE "made"]
  /\ UNCHANGED <<now, path, cache, job, faults>>

Next == \/ Tick \/ Collect \/ Together
        \/ \E c \in Calls : Read(c) \/ Cached(c) \/ Missed(c) \/ Fetched(c) \/ Fails(c)
Spec == Init /\ [][Next]_vars

-----------------------------------------------------------------------------
Reading(c, i) == job[c].got[i]
Closes == Series(Reading("context", 1))

\* Whatever the six do to each other's memory of the product, a bundle has all its
\* parts; nothing in it is older than its beginning, or for a price than the time a
\* product is remembered; the parts of a call are in order but for that; and what
\* it says of the candles is of one piece: a break upwards is an upward trend above
\* the mean and sets the high, one downwards the contrary (collect, product).
BundleIsFresh ==
  bundle.pc = "made" =>
    /\ \A c \in Calls : Len(job[c].got) = Len(Program[c])
    /\ \A c \in Calls : \A i \in DOMAIN Program[c] :
         IF Program[c][i] = "product" THEN Reading(c, i) + TTL > bundle.from
                                      ELSE Reading(c, i) >= bundle.from
    /\ \A c \in Calls : \A i, k \in DOMAIN Program[c] :
         i < k => Reading(c, i) < Reading(c, k) + TTL
    /\ Breakout(Closes) = "up_breakout" =>
         Trend(Closes) = "uptrend" /\ AboveMean(Closes) /\ Level(Closes).high = Last(Closes)
    /\ Breakout(Closes) = "down_breakout" =>
         Trend(Closes) = "downtrend" /\ ~AboveMean(Closes) /\ Level(Closes).low = Last(Closes)

\* A bundle's account of a coin and its portfolio show one position.  It does not
\* hold: each call reads the positions for itself.
PositionsAgree == bundle.pc = "made" => Reading("accounts", 2) = Reading("portfolio", 2)
=============================================================================
