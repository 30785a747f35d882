--------------------------- MODULE MonitorsProofs ---------------------------
(***************************************************************************)
(* Proofs about the components of Monitors, for every value of their       *)
(* constants: one section per component, with its inductive invariant, and *)
(* the theorems at the end.                                                *)
(***************************************************************************)
EXTENDS Monitors, Sequences, FiniteSetTheorems, WellFoundedInduction, TLAPS

-----------------------------------------------------------------------------
\* A set of numbers that is not empty has a least one.
LEMMA Least ==
  ASSUME NEW T \in SUBSET Nat, T # {} PROVE \E x \in T : \A y \in T : x <= y
<1> DEFINE Below == {ss \in Nat \X Nat : ss[1] < ss[2]}
<1>1. IsWellFoundedOn(Below, Nat)
  BY NatLessThanWellFounded, Zenon DEF OpToRel
<1>2. PICK x \in T : \A y \in T : ~ (<<y, x>> \in Below)
  <2> HIDE DEF Below
  <2> QED
    BY <1>1, WFMin
<1>3. ASSUME NEW y \in T PROVE x <= y
  <2>1. x \in Nat /\ y \in Nat
    OBVIOUS
  <2>2. y < x => <<y, x>> \in Below
    BY <2>1
  <2>3. ~ (<<y, x>> \in Below)
    BY <1>2
  <2> QED
    BY <2>1, <2>2, <2>3
<1> QED
  BY <1>3

-----------------------------------------------------------------------------
\* PMTriggerClaim.

\* Claim counts as this module does.
LEMMA ClaimCounting ==
  \A S : Claim!Cardinality(S) = Cardinality(S) /\ Claim!IsFiniteSet(S) = IsFiniteSet(S)
BY DEF Claim!Cardinality, Cardinality, Claim!IsFiniteSet, IsFiniteSet

\* A pull holds what it read from the moment it has read.
ClaimHolds(p) == claim_pulls[p].pc # "none" /\ claim_pulls[p].got # 0

ClaimTyped ==
  /\ claim_events \in [claim_Wakes -> [pc : {"none", "sent", "saved", "never"}, at : Nat,
                                      claimable : BOOLEAN, claim : {0} \cup Claim!Pull]]
  /\ claim_pulls \in [Claim!Pull -> [pc : {"none", "read", "claimed", "issued", "failed"},
                                     owed : {0} \cup claim_Wakes, got : {0} \cup claim_Wakes]]

\* A claim, once saved, stays in the event's row.
ClaimStays == \A p \in Claim!Pull : Claim!Claimed(p) => claim_events[claim_pulls[p].got].claim # 0

\* Pulls that hold the same event have overlapped, whether they saved their claim
\* or not: the later of them read the event before the claim of the other was saved.
ClaimHeldTogether ==
  \A p, q \in Claim!Pull :
    ClaimHolds(p) /\ ClaimHolds(q) /\ p # q /\ claim_pulls[p].got = claim_pulls[q].got => {p, q} \in claim_races

ClaimIInv == ClaimTyped /\ ClaimStays /\ ClaimHeldTogether

-----------------------------------------------------------------------------
\* The next pull is one that was not used.
LEMMA ClaimNextIsUnused ==
  ASSUME Claim!Unused # {} PROVE Claim!NextPull \in Claim!Unused
<1>1. Claim!Unused \in SUBSET Nat
  BY DEF Claim!Unused, Claim!Pull
<1>2. \E p \in Claim!Unused : \A q \in Claim!Unused : p <= q
  BY <1>1, Least
<1> QED
  BY <1>2 DEF Claim!NextPull

\* The oldest of some events is one of them.
LEMMA ClaimOldestIsIn ==
  ASSUME ClaimTyped, NEW S \in SUBSET claim_Wakes, S # {} PROVE Claim!Oldest(S) \in S
<1> DEFINE Times == {claim_events[w].at : w \in S}
<1>1. Times \in SUBSET Nat /\ Times # {}
  BY DEF ClaimTyped
<1>2. PICK t \in Times : \A u \in Times : t <= u
  BY <1>1, Least
<1>3. \E w \in S : \A v \in S : claim_events[w].at <= claim_events[v].at
  BY <1>2
<1> QED
  BY <1>3 DEF Claim!Oldest

\* What a pull reads is nothing or an event without a claim.
LEMMA ClaimReadIsUnclaimed ==
  ASSUME ClaimTyped
  PROVE  LET got == Claim!Oldest(Claim!Candidates)
         IN  got \in {0} \cup claim_Wakes /\ (got # 0 => got \in claim_Wakes /\ claim_events[got].claim = 0)
<1>1. Claim!Candidates \in SUBSET claim_Wakes
  BY DEF Claim!Candidates, Claim!Recent
<1>2. CASE Claim!Candidates = {}
  BY <1>2 DEF Claim!Oldest
<1>3. CASE Claim!Candidates # {}
  <2>1. Claim!Oldest(Claim!Candidates) \in Claim!Candidates
    BY <1>1, <1>3, ClaimOldestIsIn
  <2> QED
    BY <2>1 DEF Claim!Candidates, Claim!Recent
<1> QED
  BY <1>2, <1>3

\* A monitor's or another's step touches neither the pulls nor the claims.
LEMMA ClaimElsewhereInv ==
  ASSUME ClaimIInv, ClaimTyped', UNCHANGED <<claim_pulls, claim_races>>,
         \A w \in claim_Wakes : claim_events'[w].claim = claim_events[w].claim
  PROVE  ClaimIInv'
<1>1. ClaimStays'
  BY DEF ClaimIInv, ClaimStays, Claim!Claimed, ClaimTyped
<1>2. ClaimHeldTogether'
  BY DEF ClaimIInv, ClaimHeldTogether, ClaimHolds
<1> QED
  BY <1>1, <1>2 DEF ClaimIInv

\* A pull that reads: whoever holds the event it takes has not saved its claim.
LEMMA ClaimReadInv ==
  ASSUME ClaimIInv, NEW cause, Claim!PullRead(cause) PROVE ClaimIInv'
<1> DEFINE n == Claim!NextPull
           got == Claim!Oldest(Claim!Candidates)
           owed == IF cause \in Claim!DueEvents THEN cause ELSE 0
<1>1. n \in Claim!Pull /\ claim_pulls[n].pc = "none"
  BY ClaimNextIsUnused DEF Claim!PullRead, Claim!Unused
<1>2. got \in {0} \cup claim_Wakes /\ (got # 0 => got \in claim_Wakes /\ claim_events[got].claim = 0)
  BY ClaimReadIsUnclaimed DEF ClaimIInv
<1>3. /\ claim_pulls' = [claim_pulls EXCEPT ![n] = [pc |-> "read", owed |-> owed, got |-> got]]
      /\ claim_races' = claim_races \cup {{p, n} : p \in {p \in Claim!Pull : Claim!Reading(p)}}
      /\ claim_events' = claim_events
  BY DEF Claim!PullRead
<1>4. owed \in {0} \cup claim_Wakes
  BY DEF Claim!DueEvents
<1> HIDE DEF n, got, owed
<1>5. /\ claim_pulls'[n].pc = "read" /\ claim_pulls'[n].got = got
      /\ \A p \in Claim!Pull : p # n => claim_pulls'[p] = claim_pulls[p]
  BY <1>1, <1>3 DEF ClaimIInv, ClaimTyped
<1>6. ClaimTyped'
  BY <1>1, <1>2, <1>3, <1>4 DEF ClaimIInv, ClaimTyped
<1>7. ClaimStays'
  BY <1>3, <1>5 DEF ClaimIInv, ClaimStays, Claim!Claimed
<1>8. ASSUME NEW p \in Claim!Pull, p # n, ClaimHolds(p), claim_pulls[p].got = got PROVE {p, n} \in claim_races'
  <2>1. ~ Claim!Claimed(p)
    BY <1>2, <1>8 DEF ClaimIInv, ClaimStays, ClaimHolds
  <2>2. Claim!Reading(p)
    BY <2>1, <1>8 DEF ClaimIInv, ClaimTyped, Claim!Claimed, ClaimHolds, Claim!Reading
  <2> QED
    BY <2>2, <1>3
<1>9. ClaimHeldTogether'
  <2> SUFFICES ASSUME NEW p \in Claim!Pull, NEW q \in Claim!Pull, ClaimHolds(p)', ClaimHolds(q)', p # q,
                      claim_pulls'[p].got = claim_pulls'[q].got
               PROVE  {p, q} \in claim_races'
    BY DEF ClaimHeldTogether
  <2>1. CASE p = n
    <3>1. {q, n} \in claim_races'
      BY <2>1, <1>5, <1>8 DEF ClaimHolds
    <3>2. {q, n} = {p, q}
      BY <2>1
    <3> QED
      BY <3>1, <3>2
  <2>2. CASE q = n
    BY <2>2, <1>5, <1>8 DEF ClaimHolds
  <2>3. CASE p # n /\ q # n
    BY <2>3, <1>3, <1>5 DEF ClaimIInv, ClaimHeldTogether, ClaimHolds
  <2> QED
    BY <2>1, <2>2, <2>3
<1> QED
  BY <1>6, <1>7, <1>9 DEF ClaimIInv

\* A pull that saves its claim.
LEMMA ClaimInv ==
  ASSUME ClaimIInv, NEW p \in Claim!Pull, Claim!PullClaim(p) PROVE ClaimIInv'
<1>1. /\ claim_pulls[p].pc = "read"
      /\ claim_pulls' = [claim_pulls EXCEPT ![p].pc = "claimed"]
      /\ claim_events' = IF claim_pulls[p].got = 0 THEN claim_events ELSE [claim_events EXCEPT ![claim_pulls[p].got].claim = p]
      /\ claim_races' = claim_races
  BY DEF Claim!PullClaim, Claim!Reading
<1>2. \A q \in Claim!Pull : claim_pulls'[q].got = claim_pulls[q].got /\ (q # p => claim_pulls'[q] = claim_pulls[q])
  BY <1>1 DEF ClaimIInv, ClaimTyped
<1>3. p # 0
  BY DEF Claim!Pull
<1>4. ClaimTyped'
  <2>1. claim_pulls' \in [Claim!Pull -> [pc : {"none", "read", "claimed", "issued", "failed"},
                                         owed : {0} \cup claim_Wakes, got : {0} \cup claim_Wakes]]
    BY <1>1 DEF ClaimIInv, ClaimTyped
  <2>2. claim_events' \in [claim_Wakes -> [pc : {"none", "sent", "saved", "never"}, at : Nat,
                                          claimable : BOOLEAN, claim : {0} \cup Claim!Pull]]
    BY <1>1 DEF ClaimIInv, ClaimTyped
  <2> QED
    BY <2>1, <2>2 DEF ClaimTyped
<1>5. ClaimStays'
  <2> SUFFICES ASSUME NEW q \in Claim!Pull, Claim!Claimed(q)' PROVE claim_events'[claim_pulls'[q].got].claim # 0
    BY DEF ClaimStays
  <2>1. claim_pulls[q].got \in claim_Wakes /\ claim_pulls'[q].got = claim_pulls[q].got
    BY <1>2 DEF ClaimIInv, ClaimTyped, Claim!Claimed
  <2>2. CASE q = p
    BY ClaimAssumption, <2>1, <2>2, <1>1, <1>3 DEF ClaimIInv, ClaimTyped
  <2>3. CASE q # p
    <3>1. claim_events[claim_pulls[q].got].claim # 0
      BY <2>3, <1>2 DEF ClaimIInv, ClaimStays, Claim!Claimed
    <3> QED
      BY <3>1, <2>1, <1>1, <1>3 DEF ClaimIInv, ClaimTyped
  <2> QED
    BY <2>2, <2>3
<1>6. ClaimHeldTogether'
  <2>1. \A q \in Claim!Pull : ClaimHolds(q)' => ClaimHolds(q)
    BY <1>1, <1>2 DEF ClaimHolds
  <2> QED
    BY <2>1, <1>1, <1>2 DEF ClaimIInv, ClaimHeldTogether
<1> QED
  BY <1>4, <1>5, <1>6 DEF ClaimIInv

\* The rest of a pull.
LEMMA ClaimEndInv ==
  ASSUME ClaimIInv, NEW p \in Claim!Pull, NEW ok \in BOOLEAN, Claim!PullEnd(p, ok) PROVE ClaimIInv'
<1>1. /\ claim_pulls[p].pc = "claimed"
      /\ claim_pulls' = [claim_pulls EXCEPT ![p].pc = IF ok THEN "issued" ELSE "failed"]
      /\ claim_events' = claim_events /\ claim_races' = claim_races
  BY DEF Claim!PullEnd
<1>2. \A q \in Claim!Pull : /\ claim_pulls'[q].got = claim_pulls[q].got /\ (q # p => claim_pulls'[q] = claim_pulls[q])
                            /\ claim_pulls'[q].pc # "none" => claim_pulls[q].pc # "none"
                            /\ Claim!Claimed(q)' => Claim!Claimed(q)
  BY <1>1 DEF ClaimIInv, ClaimTyped, Claim!Claimed
<1>3. ClaimTyped'
  BY <1>1 DEF ClaimIInv, ClaimTyped
<1>4. ClaimStays'
  BY <1>1, <1>2 DEF ClaimIInv, ClaimStays
<1>5. ClaimHeldTogether'
  BY <1>1, <1>2 DEF ClaimIInv, ClaimHeldTogether, ClaimHolds
<1> QED
  BY <1>3, <1>4, <1>5 DEF ClaimIInv

-----------------------------------------------------------------------------
LEMMA ClaimInitInv ==
  ASSUME Claim!Init PROVE ClaimIInv
<1>1. ClaimTyped
  BY DEF Claim!Init, ClaimTyped
<1>2. ClaimStays /\ ClaimHeldTogether
  BY DEF Claim!Init, ClaimStays, Claim!Claimed, ClaimHeldTogether, ClaimHolds
<1> QED
  BY <1>1, <1>2 DEF ClaimIInv

LEMMA ClaimStepInv ==
  ASSUME ClaimIInv, [Claim!Next]_(Claim!vars) PROVE ClaimIInv'
<1>1. ASSUME NEW w \in claim_Wakes, NEW ok \in BOOLEAN, Claim!Send(w, ok) PROVE ClaimIInv'
  <2>1. Claim!NextStamp \in Nat
    <3>1. IsFiniteSet({v \in claim_Wakes : claim_events[v].pc # "none"})
      BY ClaimAssumption, FS_Subset
    <3> QED
      BY <3>1, FS_CardinalityType, ClaimCounting DEF Claim!NextStamp
  <2>2. /\ claim_events' = [claim_events EXCEPT ![w] = [pc |-> "sent", at |-> Claim!NextStamp, claimable |-> ok,
                                                        claim |-> claim_events[w].claim]]
        /\ UNCHANGED <<claim_pulls, claim_races>>
    BY <1>1 DEF Claim!Send
  <2> HIDE DEF Claim!NextStamp
  <2>3. claim_events' \in [claim_Wakes -> [pc : {"none", "sent", "saved", "never"}, at : Nat,
                                           claimable : BOOLEAN, claim : {0} \cup Claim!Pull]]
    BY <2>1, <2>2 DEF ClaimIInv, ClaimTyped
  <2>4. ClaimTyped'
    BY <2>2, <2>3 DEF ClaimIInv, ClaimTyped
  <2>5. \A v \in claim_Wakes : claim_events'[v].claim = claim_events[v].claim
    BY <2>2 DEF ClaimIInv, ClaimTyped
  <2> QED
    BY <2>2, <2>4, <2>5, ClaimElsewhereInv
<1>2. ASSUME NEW w \in claim_Wakes, Claim!Record(w) PROVE ClaimIInv'
  <2>1. ClaimTyped' /\ \A v \in claim_Wakes : claim_events'[v].claim = claim_events[v].claim
    BY <1>2 DEF Claim!Record, ClaimIInv, ClaimTyped
  <2> QED
    BY <1>2, <2>1, ClaimElsewhereInv DEF Claim!Record
<1>3. ASSUME NEW w \in claim_Wakes, Claim!NeverRecorded(w) PROVE ClaimIInv'
  <2>1. /\ claim_events' = [claim_events EXCEPT ![w].pc = "never"]
        /\ UNCHANGED <<claim_pulls, claim_races>>
    BY <1>3 DEF Claim!NeverRecorded
  <2>2. /\ claim_events' \in [claim_Wakes -> [pc : {"none", "sent", "saved", "never"}, at : Nat,
                                              claimable : BOOLEAN, claim : {0} \cup Claim!Pull]]
        /\ \A v \in claim_Wakes : claim_events'[v].claim = claim_events[v].claim
    BY <2>1 DEF ClaimIInv, ClaimTyped
  <2>3. ClaimTyped'
    BY <2>1, <2>2 DEF ClaimIInv, ClaimTyped
  <2> QED
    BY <2>1, <2>2, <2>3, ClaimElsewhereInv
<1>4. CASE Claim!OtherMessage \/ Claim!Expire \/ UNCHANGED Claim!vars
  <2>1. UNCHANGED <<claim_events, claim_pulls, claim_races>>
    BY <1>4 DEF Claim!OtherMessage, Claim!Expire, Claim!vars
  <2>2. ClaimTyped'
    BY <2>1 DEF ClaimIInv, ClaimTyped
  <2> QED
    BY <2>1, <2>2, ClaimElsewhereInv
<1>5. CASE Claim!PMPulls \/ Claim!ExtraPull
  BY <1>5, ClaimReadInv DEF Claim!PMPulls, Claim!ExtraPull
<1>6. ASSUME NEW p \in Claim!Pull, Claim!PullClaim(p) PROVE ClaimIInv'
  BY <1>6, ClaimInv
<1>7. ASSUME NEW p \in Claim!Pull, NEW ok \in BOOLEAN, Claim!PullEnd(p, ok) PROVE ClaimIInv'
  BY <1>7, ClaimEndInv
<1> QED
  BY <1>1, <1>2, <1>3, <1>4, <1>5, <1>6, <1>7 DEF Claim!Next

LEMMA ClaimInvClaimedOnce ==
  ASSUME ClaimIInv PROVE Claim!ClaimedOnce
BY DEF ClaimIInv, ClaimHeldTogether, ClaimHolds, Claim!ClaimedOnce, Claim!Claimed

\* Only its own steps touch PMTriggerClaim's variables.
LEMMA ClaimSteps == [Next]_vars => [Claim!Next]_(Claim!vars)
BY DEF Next, vars, wakeVars, priceVars, claimVars, alertVars, retainVars, learnVars, notifyVars,
    deskVars, Claim!vars

-----------------------------------------------------------------------------
\* PriceRecheck.

\* Price counts as this module does.
LEMMA PriceCounting ==
  \A S : Price!Cardinality(S) = Cardinality(S) /\ Price!IsFiniteSet(S) = IsFiniteSet(S)
BY DEF Price!Cardinality, Cardinality, Price!IsFiniteSet, IsFiniteSet

\* TypeOK but for the length of the list, which takes counting to bound.
PriceTypes ==
  /\ price_state \in [fired : SUBSET Price!FiredKey, last : Price!Time]
  /\ price_scan \in [pc : {"idle", "matched", "dispatched"}, at : Price!Time,
                     found : SUBSET Price!FiredKey, ok : BOOLEAN]
  /\ price_strategy \in 0 .. price_MaxRevision
  /\ price_subscribed \in [Price!Revision -> SUBSET price_Subs]
  /\ price_clock \in Price!Time
  /\ price_sent \in [Price!FiredKey -> 0 .. 2]
  /\ price_dispatches \subseteq Price!Time
  /\ price_lost \in [times : SUBSET Price!Time, keys : SUBSET Price!FiredKey]
  /\ price_dropped \subseteq Price!FiredKey

PriceFoundIsNew ==
  /\ price_scan.pc # "dispatched" => ~price_scan.ok
  /\ price_scan.pc = "matched" => price_scan.found \cap price_state.fired = {}

PricePaced ==
  /\ \A t \in price_dispatches : 1 <= t /\ t <= price_clock
  /\ price_scan.pc # "idle" =>
       /\ 1 <= price_scan.at /\ price_scan.at <= price_clock
       /\ price_state.last = 0 \/ price_scan.at - price_state.last >= price_Cooldown
       /\ \A t \in price_dispatches : t <= price_scan.at
  /\ 1 <= price_clock

PriceHeld(k) == price_scan.pc = "dispatched" /\ price_scan.ok /\ k \in price_scan.found

PriceRemembered ==
  \A k \in Price!FiredKey :
    price_sent[k] > 0 => k \in price_state.fired \/ k \in price_lost.keys \/ k \in price_dropped \/ PriceHeld(k)

PriceStamped ==
  \A u \in price_dispatches \ price_lost.times :
    u <= price_state.last \/ (price_scan.pc = "dispatched" /\ price_scan.ok /\ u = price_scan.at)

PriceIInv == PriceTypes /\ PriceFoundIsNew /\ PricePaced /\ PriceRemembered /\ PriceStamped /\ Price!SentOnce /\ Price!SpacedOut

-----------------------------------------------------------------------------
\* A key of the list is kept by the limit or counted as dropped.
LEMMA PriceKeptOrDropped ==
  ASSUME NEW keys \in SUBSET Price!FiredKey, NEW k \in keys
  PROVE  k \in Price!Truncated(keys) \/ Cardinality({l \in keys : Price!Above(l, k)}) >= price_KeyLimit
<1> DEFINE above == {l \in keys : Price!Above(l, k)}
<1>1. IsFiniteSet(Price!Revision) /\ IsFiniteSet(price_Subs)
  BY FS_Interval, PriceAssumption DEF Price!Revision
<1>2. IsFiniteSet(Price!FiredKey)
  BY <1>1, FS_Product DEF Price!FiredKey
<1>3. above \subseteq Price!FiredKey
  OBVIOUS
<1>4. Cardinality(above) \in Nat
  <2> HIDE DEF above
  <2> QED
    BY <1>2, <1>3, FS_Subset, FS_CardinalityType
<1> HIDE DEF above
<1>5. Cardinality(above) < price_KeyLimit \/ Cardinality(above) >= price_KeyLimit
  BY <1>4, PriceAssumption
<1> QED
  BY <1>5, PriceCounting DEF Price!Truncated, above

LEMMA PriceInitIInv == Price!Init => PriceIInv
<1> SUFFICES ASSUME Price!Init PROVE PriceIInv
  OBVIOUS
<1> USE PriceAssumption DEF Price!Init, Price!IdleScan, Price!Time
<1>1. price_scan \in [pc : {"idle", "matched", "dispatched"}, at : Price!Time,
                      found : SUBSET Price!FiredKey, ok : BOOLEAN]
  OBVIOUS
<1>2. price_state \in [fired : SUBSET Price!FiredKey, last : Price!Time]
  OBVIOUS
<1>3. price_lost \in [times : SUBSET Price!Time, keys : SUBSET Price!FiredKey]
  OBVIOUS
<1>4. price_subscribed \in [Price!Revision -> SUBSET price_Subs] /\ price_sent \in [Price!FiredKey -> 0 .. 2]
  OBVIOUS
<1>5. PriceTypes
  BY <1>1, <1>2, <1>3, <1>4 DEF PriceTypes
<1>6. PriceFoundIsNew /\ PricePaced /\ PriceRemembered /\ PriceStamped /\ Price!SentOnce /\ Price!SpacedOut
  BY DEF PriceFoundIsNew, PricePaced, PriceRemembered, PriceStamped, Price!SentOnce,
      Price!SpacedOut
<1> QED
  BY <1>5, <1>6 DEF PriceIInv

-----------------------------------------------------------------------------
\* One lemma for each action that touches what was sent or saved.
LEMMA PriceStepMatch ==
  ASSUME PriceIInv, NEW met \in SUBSET price_Subs, Price!ScanMatch(met) PROVE PriceIInv'
<1> USE PriceAssumption DEF PriceIInv
<1>1. UNCHANGED <<price_state, price_strategy, price_subscribed, price_clock, price_aborts,
                  price_sent, price_dispatches, price_lost, price_dropped>>
  BY DEF Price!ScanMatch
<1>2. Price!Found(met) \subseteq Price!FiredKey /\ Price!Found(met) \cap price_state.fired = {}
  BY DEF Price!Found, Price!FiredKey, Price!Revision, PriceTypes
<1>3. /\ price_scan'.pc = "matched" /\ price_scan'.at = price_clock /\ price_scan'.found = Price!Found(met) /\ price_scan'.ok = FALSE
      /\ price_scan' \in [pc : {"idle", "matched", "dispatched"}, at : Price!Time,
                          found : SUBSET Price!FiredKey, ok : BOOLEAN]
  BY <1>2 DEF Price!ScanMatch, PriceTypes
<1>4. price_scan.pc = "idle"
  BY DEF Price!ScanMatch
<1>5. PriceTypes' /\ PriceFoundIsNew'
  BY <1>1, <1>2, <1>3 DEF PriceTypes, PriceFoundIsNew
<1>6. PricePaced'
  <2>1. price_state.last = 0 \/ price_clock - price_state.last >= price_Cooldown
    <3>1. ~Price!CoolingDown /\ price_state.last \in Int /\ price_clock \in Int /\ price_Cooldown \in Int
      BY DEF Price!ScanMatch, PriceTypes, Price!Time
    <3> QED
      BY <3>1 DEF Price!CoolingDown
  <2> QED
    BY <1>1, <1>3, <2>1 DEF PricePaced, PriceTypes, Price!Time
<1>7. PriceRemembered' /\ PriceStamped'
  BY <1>1, <1>3, <1>4 DEF PriceRemembered, PriceHeld, PriceStamped
<1>8. Price!SentOnce' /\ Price!SpacedOut'
  BY <1>1 DEF Price!SentOnce, Price!SpacedOut
<1> QED
  BY <1>5, <1>6, <1>7, <1>8

LEMMA PriceStepDispatch ==
  ASSUME PriceIInv, NEW ok \in BOOLEAN, Price!Dispatch(ok) PROVE PriceIInv'
<1> USE PriceAssumption DEF PriceIInv
<1>1. UNCHANGED <<price_state, price_strategy, price_subscribed, price_clock, price_aborts,
                  price_lost, price_dropped>>
  BY DEF Price!Dispatch
<1>2. /\ price_scan'.pc = "dispatched" /\ price_scan'.at = price_scan.at /\ price_scan'.found = price_scan.found
      /\ price_scan'.ok = ok
      /\ price_scan' \in [pc : {"idle", "matched", "dispatched"}, at : Price!Time,
                          found : SUBSET Price!FiredKey, ok : BOOLEAN]
  BY DEF Price!Dispatch, PriceTypes
<1>3. price_scan.pc = "matched" /\ price_dispatches' = IF ok THEN price_dispatches \cup {price_scan.at} ELSE price_dispatches
  BY DEF Price!Dispatch
<1>4. /\ price_sent' \in [Price!FiredKey -> 0 .. 2]
      /\ \A k \in Price!FiredKey : ~(ok /\ k \in price_scan.found) => price_sent'[k] = price_sent[k]
      /\ \A k \in Price!FiredKey : price_sent'[k] > 1 => price_sent[k] > 0
  BY DEF Price!Dispatch, PriceTypes
<1>5. price_scan.at \in Price!Time /\ price_scan.found \cap price_state.fired = {}
  BY <1>3 DEF PriceTypes, PriceFoundIsNew
<1>6. price_dispatches' \subseteq Price!Time
  BY <1>3, <1>5 DEF PriceTypes
<1>7. PriceTypes' /\ PriceFoundIsNew'
  BY <1>1, <1>2, <1>4, <1>6 DEF PriceTypes, PriceFoundIsNew
<1>8. PricePaced'
  <2>1. /\ 1 <= price_scan.at /\ price_scan.at <= price_clock /\ 1 <= price_clock
        /\ price_state.last = 0 \/ price_scan.at - price_state.last >= price_Cooldown
    BY <1>3 DEF PricePaced
  <2>2. \A t \in price_dispatches' : 1 <= t /\ t <= price_clock /\ t <= price_scan.at
    BY <1>3, <1>5, <2>1 DEF PricePaced, Price!Time
  <2> QED
    BY <1>1, <1>2, <2>1, <2>2 DEF PricePaced
<1>9. PriceRemembered'
  BY <1>1, <1>2, <1>3, <1>4 DEF PriceRemembered, PriceHeld
<1>10. PriceStamped'
  BY <1>1, <1>2, <1>3 DEF PriceStamped
<1>11. Price!SentOnce'
  <2> SUFFICES ASSUME NEW k \in Price!FiredKey, price_sent'[k] > 1 PROVE k \in price_lost.keys \cup price_dropped
    BY <1>1 DEF Price!SentOnce
  <2>1. CASE ok /\ k \in price_scan.found
    <3>1. price_sent[k] > 0 /\ k \notin price_state.fired /\ ~PriceHeld(k)
      BY <1>3, <1>4, <1>5, <2>1 DEF PriceHeld
    <3> QED
      BY <3>1 DEF PriceRemembered
  <2>2. CASE ~(ok /\ k \in price_scan.found)
    BY <1>4, <2>2 DEF Price!SentOnce
  <2> QED
    BY <2>1, <2>2
<1>12. Price!SpacedOut'
  <2> SUFFICES ASSUME NEW t \in price_dispatches', NEW u \in price_dispatches' \ price_lost.times, u < t
               PROVE  t - u >= price_Cooldown
    BY <1>1 DEF Price!SpacedOut
  <2>1. t \in Int /\ u \in Int /\ price_Cooldown \in Int /\ price_state.last \in Int
    BY <1>6 DEF PriceTypes, Price!Time
  <2>2. CASE t \in price_dispatches /\ u \in price_dispatches
    BY <2>2 DEF Price!SpacedOut
  <2>3. CASE u \notin price_dispatches
    BY <1>3, <2>1, <2>3 DEF PricePaced
  <2>4. CASE t \notin price_dispatches /\ u \in price_dispatches
    <3>1. t = price_scan.at /\ u <= price_state.last /\ 1 <= u
      BY <1>3, <2>4 DEF PriceStamped, PricePaced
    <3>2. price_state.last = 0 \/ t - price_state.last >= price_Cooldown
      BY <1>3, <3>1 DEF PricePaced
    <3> QED
      BY <2>1, <3>1, <3>2
  <2> QED
    BY <2>2, <2>3, <2>4
<1> QED
  BY <1>7, <1>8, <1>9, <1>10, <1>11, <1>12

LEMMA PriceStepSave == ASSUME PriceIInv, Price!ScanSave PROVE PriceIInv'
<1> USE PriceAssumption DEF PriceIInv
<1> DEFINE all == price_state.fired \cup price_scan.found
<1>1. /\ UNCHANGED <<price_strategy, price_subscribed, price_clock, price_aborts, price_sent,
                     price_dispatches, price_lost>>
      /\ price_scan' = Price!IdleScan /\ price_scan.pc = "dispatched"
  BY DEF Price!ScanSave
<1>2. /\ price_state'.fired = Price!Truncated(all)
      /\ price_state'.last = IF price_scan.ok THEN price_scan.at ELSE price_state.last
      /\ price_state' \in [fired : SUBSET Price!FiredKey, last : Price!Time]
  BY DEF Price!ScanSave, Price!StateToSave, PriceTypes, Price!Truncated
<1>3. price_scan'.pc = "idle" /\ price_scan'.ok = FALSE
      /\ price_scan' \in [pc : {"idle", "matched", "dispatched"}, at : Price!Time,
                          found : SUBSET Price!FiredKey, ok : BOOLEAN]
  BY <1>1 DEF Price!IdleScan, Price!Time
<1>4. all \in SUBSET Price!FiredKey
  BY DEF PriceTypes
<1>5. /\ \A k \in all : k \in Price!Truncated(all) \/ k \in price_dropped'
      /\ price_dropped \subseteq price_dropped' /\ price_dropped' \subseteq Price!FiredKey
  BY <1>4, PriceKeptOrDropped, PriceCounting DEF Price!ScanSave, PriceTypes
<1>6. PriceTypes' /\ PriceFoundIsNew'
  BY <1>1, <1>2, <1>3, <1>5 DEF PriceTypes, PriceFoundIsNew
<1>7. PricePaced'
  BY <1>1, <1>3 DEF PricePaced
<1>8. PriceRemembered'
  BY <1>1, <1>2, <1>5 DEF PriceRemembered, PriceHeld
<1>9. PriceStamped'
  <2> SUFFICES ASSUME NEW u \in price_dispatches \ price_lost.times PROVE u <= price_state'.last
    BY <1>1 DEF PriceStamped
  <2>1. u \in Int /\ price_state.last \in Int /\ price_scan.at \in Int /\ price_Cooldown \in Nat
    BY DEF PriceTypes, Price!Time
  <2>2. 1 <= u /\ u <= price_scan.at
    BY <1>1 DEF PricePaced
  <2>3. u <= price_state.last \/ price_scan.ok
    BY DEF PriceStamped
  <2> QED
    BY <1>2, <2>1, <2>2, <2>3
<1>10. Price!SentOnce' /\ Price!SpacedOut'
  BY <1>1, <1>5 DEF Price!SentOnce, Price!SpacedOut
<1> QED
  BY <1>6, <1>7, <1>8, <1>9, <1>10

LEMMA PriceStepAbort == ASSUME PriceIInv, Price!ScanAbort PROVE PriceIInv'
<1> USE PriceAssumption DEF PriceIInv
<1>1. /\ UNCHANGED <<price_state, price_strategy, price_subscribed, price_clock, price_sent,
                     price_dispatches, price_dropped>>
      /\ price_scan' = Price!IdleScan
  BY DEF Price!ScanAbort
<1>2. price_scan'.pc = "idle" /\ price_scan'.ok = FALSE
      /\ price_scan' \in [pc : {"idle", "matched", "dispatched"}, at : Price!Time,
                          found : SUBSET Price!FiredKey, ok : BOOLEAN]
  BY <1>1 DEF Price!IdleScan, Price!Time
<1>3. /\ price_lost' \in [times : SUBSET Price!Time, keys : SUBSET Price!FiredKey]
      /\ price_lost.times \subseteq price_lost'.times /\ price_lost.keys \subseteq price_lost'.keys
      /\ price_scan.ok => price_scan.at \in price_lost'.times /\ price_scan.found \subseteq price_lost'.keys
  BY DEF Price!ScanAbort, PriceTypes
<1>4. PriceTypes' /\ PriceFoundIsNew'
  BY <1>1, <1>2, <1>3 DEF PriceTypes, PriceFoundIsNew
<1>5. PricePaced'
  BY <1>1, <1>2 DEF PricePaced
<1>6. PriceRemembered' /\ PriceStamped'
  BY <1>1, <1>2, <1>3 DEF PriceRemembered, PriceHeld, PriceStamped
<1>7. Price!SentOnce' /\ Price!SpacedOut'
  BY <1>1, <1>3 DEF Price!SentOnce, Price!SpacedOut
<1> QED
  BY <1>4, <1>5, <1>6, <1>7

LEMMA PriceInductiveStep == PriceIInv /\ [Price!Next]_(Price!vars) => PriceIInv'
<1> SUFFICES ASSUME PriceIInv, [Price!Next]_(Price!vars) PROVE PriceIInv'
  OBVIOUS
<1> USE PriceAssumption DEF PriceIInv
<1>1. ASSUME UNCHANGED <<price_state, price_scan, price_sent, price_dispatches, price_lost,
                         price_dropped>>, PriceTypes',
             price_clock' = price_clock \/ price_clock' = price_clock + 1
      PROVE  PriceIInv'
  <2>1. price_clock \in Nat /\ (price_scan.pc # "idle" => price_scan.at \in Nat)
        /\ \A t \in price_dispatches : t \in Nat
    BY DEF PriceTypes, Price!Time
  <2>2. PricePaced'
    BY <1>1, <2>1 DEF PricePaced
  <2> QED
    BY <1>1, <2>2 DEF PriceFoundIsNew, PriceRemembered, PriceHeld, PriceStamped, Price!SentOnce,
        Price!SpacedOut
<1>2. ASSUME NEW subs \in SUBSET price_Subs, Price!Publish(subs) PROVE PriceIInv'
  <2>1. price_strategy' \in 0 .. price_MaxRevision
    BY <1>2 DEF Price!Publish, PriceTypes
  <2>2. price_subscribed' \in [Price!Revision -> SUBSET price_Subs]
    BY <1>2 DEF Price!Publish, PriceTypes
  <2>3. PriceTypes'
    BY <1>2, <2>1, <2>2 DEF Price!Publish, PriceTypes
  <2> QED
    BY <1>1, <1>2, <2>3 DEF Price!Publish
<1>3. CASE Price!Tick
  <2>1. PriceTypes'
    BY <1>3 DEF Price!Tick, PriceTypes, Price!Time
  <2> QED
    BY <1>1, <1>3, <2>1 DEF Price!Tick
<1>4. CASE UNCHANGED Price!vars
  BY <1>1, <1>4 DEF Price!vars, PriceTypes
<1> QED
  BY <1>2, <1>3, <1>4, PriceStepMatch, PriceStepDispatch, PriceStepSave,
      PriceStepAbort DEF Price!Next

\* Only its own steps touch PriceRecheck's variables.
LEMMA PriceSteps == [Next]_vars => [Price!Next]_(Price!vars)
BY DEF Next, vars, wakeVars, priceVars, claimVars, alertVars, retainVars, learnVars, notifyVars,
    deskVars, Price!vars

-----------------------------------------------------------------------------
\* AgentWake.

\* What is known of a rule, and a message, without the bound on the clock.
WakeState == [eval : Nat, fire : Nat]

WakeSending == [rule : Wake!Rule, at : Nat \ {0}, cron : SUBSET Nat, base : Nat, kept : BOOLEAN]

WakeTyped ==
  /\ wake_now \in Nat \ {0}
  /\ wake_saved \in [Wake!Rule -> WakeState]
  /\ wake_scan \in [next : Nat, at : Nat, rules : [Wake!Rule -> WakeState], fired : SUBSET wake_sent]
  /\ wake_sent \subseteq WakeSending

WakeRunning == wake_scan.next # 0

\* A scan goes by a time that is not ahead of the clock and not behind any message.
WakeTimed ==
  /\ \A m \in wake_sent : m.at <= wake_now /\ \A c \in m.cron : c <= m.at
  /\ WakeRunning => 1 <= wake_scan.at /\ wake_scan.at <= wake_now /\ \A m \in wake_sent : m.at <= wake_scan.at
  /\ ~WakeRunning => wake_scan.fired = {}

\* What a scan has not come to is as it was saved; what it has done is not older.
WakeLoaded ==
  WakeRunning =>
    \A r \in Wake!Rule :
      /\ wake_scan.rules[r].eval >= wake_saved[r].eval /\ wake_scan.rules[r].fire >= wake_saved[r].fire
      /\ r >= wake_scan.next => wake_scan.rules[r] = wake_saved[r]
      /\ wake_saved[r].eval <= wake_scan.at /\ wake_saved[r].fire <= wake_scan.at

\* Nothing a scan knows is ahead of it.
WakeStamped ==
  WakeRunning => \A r \in Wake!Rule : wake_scan.rules[r].eval <= wake_scan.at /\ wake_scan.rules[r].fire <= wake_scan.at

\* The times that were saved are in the past, and those of a kept message are saved.
WakeRemembered ==
  /\ \A r \in Wake!Rule : wake_saved[r].eval <= wake_now /\ wake_saved[r].fire <= wake_now
  /\ \A m \in wake_sent : m.kept => wake_saved[m.rule].fire >= m.at /\ wake_saved[m.rule].eval >= m.at

\* The messages of the scan that runs: one of a rule, stamped in what the scan will
\* save, and for calendar times after the evaluation that is saved.
WakePending ==
  \A m \in wake_scan.fired :
    /\ ~m.kept /\ m.at = wake_scan.at /\ m.rule < wake_scan.next
    /\ wake_scan.rules[m.rule].fire = wake_scan.at /\ wake_scan.rules[m.rule].eval = wake_scan.at
    /\ \A c \in m.cron : c > wake_saved[m.rule].eval
    /\ \A n \in wake_scan.fired : n.rule = m.rule => n = m

WakeIInv ==
  WakeTyped /\ WakeTimed /\ WakeLoaded /\ WakeStamped /\ WakeRemembered /\ WakePending /\ Wake!SpacedOut /\ Wake!CandidateOnce

-----------------------------------------------------------------------------
LEMMA WakeInitInv ==
  ASSUME Wake!Init PROVE WakeIInv
<1> USE DEF Wake!Init, Wake!NoScan, Wake!Never
<1>1. WakeTyped
  <2>1. wake_saved \in [Wake!Rule -> WakeState]
    BY DEF WakeState
  <2>2. wake_scan \in [next : Nat, at : Nat, rules : [Wake!Rule -> WakeState], fired : SUBSET wake_sent]
    BY <2>1
  <2> QED
    BY <2>1, <2>2 DEF WakeTyped
<1>2. WakeTimed /\ WakeLoaded /\ WakePending
  BY DEF WakeTimed, WakeLoaded, WakePending, WakeRunning
<1>3. WakeStamped /\ WakeRemembered /\ Wake!SpacedOut /\ Wake!CandidateOnce
  BY DEF WakeStamped, WakeRunning, WakeRemembered, Wake!SpacedOut, Wake!CandidateOnce
<1> QED
  BY <1>1, <1>2, <1>3 DEF WakeIInv

\* A rule that is evaluated gets the time of the scan, and when it fires so twice.
LEMMA WakeEvaluatedIs ==
  ASSUME WakeTyped, NEW r \in Wake!Rule
  PROVE  /\ Wake!Evaluated(r) \in [Wake!Rule -> WakeState]
         /\ Wake!Evaluated(r)[r].eval = wake_scan.at /\ Wake!Evaluated(r)[r].fire = wake_scan.rules[r].fire
         /\ \A q \in Wake!Rule \ {r} : Wake!Evaluated(r)[q] = wake_scan.rules[q]
<1>1. wake_scan.rules \in [Wake!Rule -> WakeState] /\ wake_scan.at \in Nat
  BY DEF WakeTyped
<1> QED
  BY <1>1 DEF Wake!Evaluated, WakeState

LEMMA WakeFiredIs ==
  ASSUME WakeTyped, NEW r \in Wake!Rule
  PROVE  /\ Wake!Fired(r) \in [Wake!Rule -> WakeState]
         /\ Wake!Fired(r)[r].eval = wake_scan.at /\ Wake!Fired(r)[r].fire = wake_scan.at
         /\ \A q \in Wake!Rule \ {r} : Wake!Fired(r)[q] = wake_scan.rules[q]
<1>1. wake_scan.at \in Nat
  BY DEF WakeTyped
<1> HIDE DEF Wake!Evaluated
<1> QED
  BY <1>1, WakeEvaluatedIs DEF Wake!Fired, WakeState

\* A rule is passed over, resting or not, and sends nothing.
LEMMA WakePassInv ==
  ASSUME WakeIInv, NEW r \in Wake!Rule, Wake!Evaluating(r),
         wake_scan' = [wake_scan EXCEPT !.next = r + 1, !.rules = Wake!Evaluated(r)],
         UNCHANGED <<wake_now, wake_strategy, wake_saved, wake_sent, wake_first, wake_aborts>>
  PROVE  WakeIInv'
<1> DEFINE E == Wake!Evaluated(r)
<1>1. /\ E \in [Wake!Rule -> WakeState]
      /\ E[r].eval = wake_scan.at /\ E[r].fire = wake_scan.rules[r].fire
      /\ \A q \in Wake!Rule \ {r} : E[q] = wake_scan.rules[q]
  BY WakeEvaluatedIs DEF WakeIInv
<1> HIDE DEF E
<1>2. r \in Nat \ {0} /\ \A q \in Wake!Rule : q \in Nat
  BY WakeAssumption DEF Wake!Rule
<1>3. /\ wake_scan \in [next : Nat, at : Nat, rules : [Wake!Rule -> WakeState], fired : SUBSET wake_sent]
      /\ wake_saved \in [Wake!Rule -> WakeState] /\ wake_sent \subseteq WakeSending /\ wake_now \in Nat \ {0}
  BY DEF WakeIInv, WakeTyped
<1>4. /\ wake_scan'.next = r + 1 /\ wake_scan.next = r /\ wake_scan'.at = wake_scan.at
      /\ wake_scan'.rules = E /\ wake_scan'.fired = wake_scan.fired
  BY <1>3 DEF E, Wake!Evaluating
<1>5. WakeTyped'
  <2>1. wake_scan' = [wake_scan EXCEPT !.next = r + 1, !.rules = E]
    BY DEF E
  <2>2. wake_scan' = [next |-> r + 1, at |-> wake_scan.at, rules |-> E, fired |-> wake_scan.fired]
    BY <1>3, <2>1
  <2>3. wake_scan' \in [next : Nat, at : Nat, rules : [Wake!Rule -> WakeState], fired : SUBSET wake_sent]
    BY <1>1, <1>2, <1>3, <2>2
  <2> QED
    BY <1>3, <2>3 DEF WakeTyped
<1>6. WakeTimed'
  BY <1>2, <1>4 DEF WakeIInv, WakeTimed, WakeRunning
<1>7. WakeLoaded'
  <2> SUFFICES ASSUME NEW q \in Wake!Rule
               PROVE  /\ E[q].eval >= wake_saved[q].eval /\ E[q].fire >= wake_saved[q].fire
                      /\ q >= r + 1 => E[q] = wake_saved[q]
                      /\ wake_saved[q].eval <= wake_scan.at /\ wake_saved[q].fire <= wake_scan.at
    BY <1>4 DEF WakeLoaded
  <2>1. /\ wake_scan.rules[q].eval >= wake_saved[q].eval /\ wake_scan.rules[q].fire >= wake_saved[q].fire
        /\ q >= r => wake_scan.rules[q] = wake_saved[q]
        /\ wake_saved[q].eval <= wake_scan.at /\ wake_saved[q].fire <= wake_scan.at
    BY <1>2, <1>4 DEF WakeIInv, WakeLoaded, WakeRunning
  <2> QED
    BY <1>1, <1>2, <1>3, <2>1 DEF WakeState
<1>8. WakeRemembered' /\ WakeStamped'
  <2>1. WakeStamped'
    BY <1>1, <1>2, <1>3, <1>4 DEF WakeIInv, WakeStamped, WakeRunning
  <2> QED
    BY <2>1 DEF WakeIInv, WakeRemembered
<1>9. WakePending'
  <2> SUFFICES ASSUME NEW m \in wake_scan.fired
               PROVE  /\ ~m.kept /\ m.at = wake_scan.at /\ m.rule < r + 1
                      /\ E[m.rule].fire = wake_scan.at /\ E[m.rule].eval = wake_scan.at
                      /\ \A c \in m.cron : c > wake_saved[m.rule].eval
                      /\ \A n \in wake_scan.fired : n.rule = m.rule => n = m
    BY <1>4 DEF WakePending
  <2>1. m.rule \in Wake!Rule /\ m.rule < r
    BY <1>3, <1>4 DEF WakeIInv, WakePending, WakeSending
  <2>2. m.rule # r
    BY <1>2, <2>1
  <2> QED
    BY <1>1, <1>2, <2>1, <2>2 DEF WakeIInv, WakePending
<1>10. Wake!SpacedOut' /\ Wake!CandidateOnce'
  BY DEF WakeIInv, Wake!SpacedOut, Wake!CandidateOnce
<1> QED
  BY <1>5, <1>6, <1>7, <1>8, <1>9, <1>10 DEF WakeIInv

\* A rule fires and messages its agent, or fails to.
LEMMA WakeFireInv ==
  ASSUME WakeIInv, NEW r \in Wake!Rule, NEW ok \in BOOLEAN, Wake!Fire(r, ok) PROVE WakeIInv'
<1> DEFINE F == Wake!Fired(r)
           message == [rule |-> r, at |-> wake_scan.at, cron |-> Wake!Crossed(r),
                       base |-> wake_scan.rules[r].eval, kept |-> FALSE]
           new == IF ok THEN {message} ELSE {}
<1>1. /\ F \in [Wake!Rule -> WakeState]
      /\ F[r].eval = wake_scan.at /\ F[r].fire = wake_scan.at
      /\ \A q \in Wake!Rule \ {r} : F[q] = wake_scan.rules[q]
  BY WakeFiredIs DEF WakeIInv
<1>2. r \in Nat \ {0} /\ \A q \in Wake!Rule : q \in Nat
  BY WakeAssumption DEF Wake!Rule
<1>3. /\ wake_scan \in [next : Nat, at : Nat, rules : [Wake!Rule -> WakeState], fired : SUBSET wake_sent]
      /\ wake_saved \in [Wake!Rule -> WakeState] /\ wake_sent \subseteq WakeSending /\ wake_now \in Nat \ {0}
  BY DEF WakeIInv, WakeTyped
<1>4. /\ wake_scan' = [wake_scan EXCEPT !.next = r + 1, !.rules = F, !.fired = @ \cup new]
      /\ wake_sent' = wake_sent \cup new /\ wake_scan.next = r /\ ~Wake!CoolingDown(r)
      /\ UNCHANGED <<wake_now, wake_strategy, wake_saved, wake_first, wake_aborts>>
  BY DEF Wake!Fire, Wake!Fires, Wake!Evaluating
<1>5. /\ wake_scan.rules[r] = wake_saved[r] /\ 1 <= wake_scan.at /\ wake_scan.at <= wake_now
      /\ wake_saved[r].eval <= wake_scan.at /\ wake_saved[r].fire <= wake_scan.at
  BY <1>2, <1>3, <1>4 DEF WakeIInv, WakeTimed, WakeLoaded, WakeRunning
<1>6. \A c \in Wake!Crossed(r) : c \in Nat /\ c > wake_saved[r].eval /\ c <= wake_scan.at
  BY <1>5, WakeAssumption DEF Wake!Crossed, Wake!Rule
<1>7. new \subseteq WakeSending
  <2>1. Wake!Crossed(r) \in SUBSET Nat /\ wake_scan.rules[r].eval \in Nat /\ wake_scan.at \in Nat \ {0}
    BY <1>3, <1>5, <1>6 DEF WakeState
  <2>2. message \in WakeSending
    BY <2>1 DEF WakeSending
  <2> QED
    BY <2>2
<1>8. \A m \in new : /\ m.rule = r /\ m.at = wake_scan.at /\ ~m.kept
                     /\ \A c \in m.cron : c \in Nat /\ c > wake_saved[r].eval /\ c <= wake_scan.at
  BY <1>6
<1> HIDE DEF F, new
<1>9. /\ wake_scan'.next = r + 1 /\ wake_scan'.at = wake_scan.at /\ wake_scan'.rules = F
      /\ wake_scan'.fired = wake_scan.fired \cup new
  BY <1>3, <1>4
<1>10. WakeTyped'
  <2>1. wake_scan.fired \cup new \in SUBSET wake_sent' /\ wake_sent' \subseteq WakeSending
    BY <1>3, <1>4, <1>7
  <2>2. wake_scan' = [next |-> r + 1, at |-> wake_scan.at, rules |-> F, fired |-> wake_scan.fired \cup new]
    BY <1>3, <1>4
  <2>3. wake_scan' \in [next : Nat, at : Nat, rules : [Wake!Rule -> WakeState], fired : SUBSET wake_sent']
    BY <1>1, <1>2, <1>3, <2>1, <2>2
  <2> QED
    BY <1>3, <1>4, <2>1, <2>3 DEF WakeTyped
<1>11. WakeTimed'
  <2>1. \A m \in wake_sent : m.at <= wake_now /\ m.at <= wake_scan.at /\ \A c \in m.cron : c <= m.at
    BY <1>2, <1>4 DEF WakeIInv, WakeTimed, WakeRunning
  <2>2. \A m \in wake_sent' : m.at <= wake_now /\ m.at <= wake_scan.at /\ \A c \in m.cron : c <= m.at
    BY <1>3, <1>4, <1>5, <1>8, <2>1
  <2> QED
    BY <1>2, <1>4, <1>5, <1>9, <2>2 DEF WakeTimed, WakeRunning
<1>12. WakeLoaded'
  <2> SUFFICES ASSUME NEW q \in Wake!Rule
               PROVE  /\ F[q].eval >= wake_saved[q].eval /\ F[q].fire >= wake_saved[q].fire
                      /\ q >= r + 1 => F[q] = wake_saved[q]
                      /\ wake_saved[q].eval <= wake_scan.at /\ wake_saved[q].fire <= wake_scan.at
    BY <1>4, <1>9 DEF WakeLoaded
  <2>1. /\ wake_scan.rules[q].eval >= wake_saved[q].eval /\ wake_scan.rules[q].fire >= wake_saved[q].fire
        /\ q >= r => wake_scan.rules[q] = wake_saved[q]
        /\ wake_saved[q].eval <= wake_scan.at /\ wake_saved[q].fire <= wake_scan.at
    BY <1>2, <1>4 DEF WakeIInv, WakeLoaded, WakeRunning
  <2> QED
    BY <1>1, <1>2, <1>3, <2>1 DEF WakeState
<1>13. WakeRemembered' /\ WakeStamped'
  <2>1. WakeStamped'
    BY <1>1, <1>2, <1>3, <1>4, <1>9 DEF WakeIInv, WakeStamped, WakeRunning
  <2> QED
    BY <1>4, <1>8, <2>1 DEF WakeIInv, WakeRemembered
<1>14. WakePending'
  <2> SUFFICES ASSUME NEW m \in wake_scan.fired \cup new
               PROVE  /\ ~m.kept /\ m.at = wake_scan.at /\ m.rule < r + 1
                      /\ F[m.rule].fire = wake_scan.at /\ F[m.rule].eval = wake_scan.at
                      /\ \A c \in m.cron : c > wake_saved[m.rule].eval
                      /\ \A n \in wake_scan.fired \cup new : n.rule = m.rule => n = m
    BY <1>4, <1>9 DEF WakePending
  <2>1. \A n \in wake_scan.fired : n.rule \in Wake!Rule /\ n.rule < r /\ n.rule # r
    BY <1>2, <1>3, <1>4 DEF WakeIInv, WakePending, WakeSending
  <2>2. CASE m \in wake_scan.fired
    <3>0. m.rule \in Wake!Rule \ {r} /\ m.rule < r + 1
      <4>1. m.rule \in Wake!Rule /\ m.rule < r /\ m.rule # r
        BY <2>1, <2>2
      <4>2. m.rule \in Nat
        BY <1>2, <4>1
      <4> QED
        BY <1>2, <4>1, <4>2
    <3>1. /\ ~m.kept /\ m.at = wake_scan.at
          /\ wake_scan.rules[m.rule].fire = wake_scan.at /\ wake_scan.rules[m.rule].eval = wake_scan.at
          /\ \A c \in m.cron : c > wake_saved[m.rule].eval
          /\ \A n \in wake_scan.fired : n.rule = m.rule => n = m
      BY <2>2 DEF WakeIInv, WakePending
    <3>2. \A n \in new : n.rule # m.rule
      BY <1>8, <3>0
    <3> QED
      BY <1>1, <3>0, <3>1, <3>2
  <2>3. CASE m \in new
    <3>1. \A n \in new : n = m
      BY <2>3 DEF new
    <3> QED
      BY <1>1, <1>2, <1>8, <2>1, <2>3, <3>1
  <2> QED
    BY <2>2, <2>3
<1>15. Wake!SpacedOut'
  <2> SUFFICES ASSUME NEW m \in wake_sent \cup new, NEW n \in wake_sent \cup new,
                      m.rule = n.rule, m.at < n.at, n.at - m.at < wake_Cooldown, m.kept
               PROVE  FALSE
    BY <1>4 DEF Wake!SpacedOut
  <2>1. m \in wake_sent
    BY <1>8
  <2>2. CASE n \in wake_sent
    BY <2>1, <2>2 DEF WakeIInv, Wake!SpacedOut
  <2>3. CASE n \in new
    <3>1. wake_saved[r].fire >= m.at /\ m.at \in Nat \ {0} /\ wake_saved[r].fire \in Nat
      BY <1>3, <1>8, <2>1, <2>3 DEF WakeIInv, WakeRemembered, WakeSending, WakeState
    <3>2. wake_scan.at - wake_saved[r].fire >= wake_Cooldown
      BY <1>3, <1>4, <1>5, <3>1, WakeAssumption DEF Wake!CoolingDown, Wake!Never
    <3> QED
      BY <1>3, <1>8, <2>3, <3>1, <3>2, WakeAssumption
  <2> QED
    BY <2>2, <2>3
<1>16. Wake!CandidateOnce'
  BY <1>4, <1>8 DEF WakeIInv, Wake!CandidateOnce
<1> QED
  BY <1>10, <1>11, <1>12, <1>13, <1>14, <1>15, <1>16 DEF WakeIInv

\* What a scan did becomes what is known.
LEMMA WakeSaveInv ==
  ASSUME WakeIInv, Wake!ScanSave PROVE WakeIInv'
<1> DEFINE Keep(m) == [m EXCEPT !.kept = TRUE]
           old == wake_sent \ wake_scan.fired
           keeps == {Keep(m) : m \in wake_scan.fired}
<1>1. /\ wake_scan \in [next : Nat, at : Nat, rules : [Wake!Rule -> WakeState], fired : SUBSET wake_sent]
      /\ wake_saved \in [Wake!Rule -> WakeState] /\ wake_sent \subseteq WakeSending /\ wake_now \in Nat \ {0}
  BY DEF WakeIInv, WakeTyped
<1>2. /\ wake_scan.next = wake_Rules + 1 /\ wake_saved' = wake_scan.rules /\ wake_scan' = Wake!NoScan
      /\ wake_sent' = old \cup keeps /\ wake_now' = wake_now
  BY DEF Wake!ScanSave
<1>3. WakeRunning
  BY <1>2, WakeAssumption DEF WakeRunning
<1>4. /\ 1 <= wake_scan.at /\ wake_scan.at <= wake_now /\ wake_scan.at \in Nat
      /\ \A m \in wake_sent : m.at <= wake_scan.at /\ \A c \in m.cron : c <= m.at
  BY <1>1, <1>3 DEF WakeIInv, WakeTimed
<1>5. \A m \in wake_scan.fired :
        /\ Keep(m) \in WakeSending /\ Keep(m).kept
        /\ Keep(m).rule = m.rule /\ Keep(m).at = m.at /\ Keep(m).cron = m.cron
  <2> SUFFICES ASSUME NEW m \in WakeSending
               PROVE  /\ Keep(m) \in WakeSending /\ Keep(m).kept
                      /\ Keep(m).rule = m.rule /\ Keep(m).at = m.at /\ Keep(m).cron = m.cron
    BY <1>1
  <2> QED
    BY DEF WakeSending
<1>6. \A m \in keeps : \E n \in wake_scan.fired :
        /\ m \in WakeSending /\ m.kept /\ m = Keep(n)
        /\ m.rule = n.rule /\ m.at = n.at /\ m.cron = n.cron
  BY <1>5
<1> HIDE DEF Keep, keeps
<1>7. WakeTyped'
  <2>1. Wake!NoScan.rules \in [Wake!Rule -> WakeState] /\ Wake!NoScan.next = 0 /\ Wake!NoScan.at = 0 /\ Wake!NoScan.fired = {}
    BY DEF Wake!NoScan, WakeState, Wake!Never
  <2>2. Wake!NoScan \in [next : Nat, at : Nat, rules : [Wake!Rule -> WakeState], fired : SUBSET (old \cup keeps)]
    BY <2>1 DEF Wake!NoScan
  <2> QED
    BY <1>1, <1>2, <1>6, <2>2 DEF WakeTyped
<1>8. WakeTimed' /\ WakeLoaded' /\ WakePending' /\ WakeStamped'
  <2>1. wake_scan'.next = 0 /\ wake_scan'.fired = {}
    BY <1>2 DEF Wake!NoScan
  <2>2. \A m \in wake_sent' : m.at <= wake_now /\ \A c \in m.cron : c <= m.at
    BY <1>1, <1>2, <1>4, <1>6 DEF WakeSending
  <2> QED
    BY <1>2, <2>1, <2>2 DEF WakeTimed, WakeLoaded, WakePending, WakeStamped, WakeRunning
<1>9. \A r \in Wake!Rule :
        /\ wake_scan.rules[r].eval \in Nat /\ wake_scan.rules[r].fire \in Nat
        /\ wake_saved[r].eval \in Nat /\ wake_saved[r].fire \in Nat
        /\ wake_scan.rules[r].eval >= wake_saved[r].eval /\ wake_scan.rules[r].fire >= wake_saved[r].fire
  BY <1>1, <1>3 DEF WakeIInv, WakeLoaded, WakeState
<1>10. \A m \in wake_scan.fired :
         /\ m.rule \in Wake!Rule /\ m.at = wake_scan.at /\ wake_scan.rules[m.rule].fire = wake_scan.at
         /\ wake_scan.rules[m.rule].eval = wake_scan.at
  BY <1>1 DEF WakeIInv, WakePending, WakeSending
<1>11. WakeRemembered'
  <2>1. \A r \in Wake!Rule : wake_scan.rules[r].eval <= wake_now /\ wake_scan.rules[r].fire <= wake_now
    BY <1>1, <1>3, <1>4, <1>9 DEF WakeIInv, WakeStamped
  <2>2. ASSUME NEW m \in old, m.kept
        PROVE  wake_scan.rules[m.rule].fire >= m.at /\ wake_scan.rules[m.rule].eval >= m.at
    <3>1. m.rule \in Wake!Rule /\ m.at \in Nat
      BY <1>1, <2>2 DEF WakeSending
    <3>2. wake_saved[m.rule].fire >= m.at /\ wake_saved[m.rule].eval >= m.at
      BY <2>2 DEF WakeIInv, WakeRemembered
    <3> QED
      BY <1>9, <3>1, <3>2
  <2>3. ASSUME NEW m \in keeps
        PROVE  wake_scan.rules[m.rule].fire >= m.at /\ wake_scan.rules[m.rule].eval >= m.at
    BY <1>4, <1>6, <1>10
  <2> QED
    BY <1>2, <2>1, <2>2, <2>3 DEF WakeRemembered
<1>12. Wake!SpacedOut'
  <2> SUFFICES ASSUME NEW m \in old \cup keeps, NEW n \in old \cup keeps, m.kept,
                      m.rule = n.rule, m.at < n.at, n.at - m.at < wake_Cooldown
               PROVE  FALSE
    BY <1>2 DEF Wake!SpacedOut
  <2>1. PICK k \in wake_sent : k.rule = n.rule /\ k.at = n.at
    BY <1>1, <1>6
  <2>2. CASE m \in old
    BY <2>1, <2>2 DEF WakeIInv, Wake!SpacedOut
  <2>3. CASE m \in keeps
    <3>1. m.at = wake_scan.at /\ k.at <= wake_scan.at /\ k.at \in Nat
      BY <1>1, <1>4, <1>6, <1>10, <2>3 DEF WakeSending
    <3> QED
      BY <1>4, <2>1, <3>1
  <2> QED
    BY <2>2, <2>3
<1>13. Wake!CandidateOnce'
  <2>1. ASSUME NEW m \in old, NEW n \in keeps, m.kept, m.rule = n.rule
        PROVE  m.cron \cap n.cron = {}
    <3>1. PICK k \in wake_scan.fired : k.rule = n.rule /\ k.cron = n.cron
      BY <1>6
    <3>2. \A c \in n.cron : c > wake_saved[m.rule].eval
      BY <2>1, <3>1 DEF WakeIInv, WakePending
    <3>3. \A c \in m.cron : c \in Nat /\ c <= m.at
      BY <1>1, <1>4 DEF WakeSending
    <3>4. wake_saved[m.rule].eval >= m.at /\ m.at \in Nat /\ wake_saved[m.rule].eval \in Nat
      BY <1>1, <1>9, <2>1 DEF WakeIInv, WakeRemembered, WakeSending
    <3>5. \A c \in m.cron \cap n.cron : FALSE
      BY <3>2, <3>3, <3>4
    <3> QED
      BY <3>5
  <2>2. ASSUME NEW m \in keeps, NEW n \in keeps, m.rule = n.rule PROVE m = n
    BY <1>6, <2>2 DEF WakeIInv, WakePending
  <2> SUFFICES ASSUME NEW m \in old \cup keeps, NEW n \in old \cup keeps, m.kept, n.kept,
                      m.rule = n.rule, m # n
               PROVE  m.cron \cap n.cron = {}
    BY <1>2 DEF Wake!CandidateOnce
  <2>3. CASE m \in old /\ n \in old
    BY <2>3 DEF WakeIInv, Wake!CandidateOnce
  <2>4. CASE m \in keeps /\ n \in old
    <3>1. n.cron \cap m.cron = {}
      BY <2>1, <2>4
    <3> QED
      BY <3>1
  <2> QED
    BY <2>1, <2>2, <2>3, <2>4
<1> QED
  BY <1>7, <1>8, <1>11, <1>12, <1>13 DEF WakeIInv

\* A scan that is cut off is forgotten, and its messages were sent all the same.
LEMMA WakeAbortInv ==
  ASSUME WakeIInv, Wake!ScanAbort PROVE WakeIInv'
<1>1. /\ wake_scan' = Wake!NoScan /\ UNCHANGED <<wake_now, wake_strategy, wake_saved, wake_sent,
                                                 wake_first>>
  BY DEF Wake!ScanAbort
<1>2. wake_scan'.next = 0 /\ wake_scan'.fired = {}
  BY <1>1 DEF Wake!NoScan
<1>3. WakeTyped'
  <2>1. Wake!NoScan.rules \in [Wake!Rule -> WakeState] /\ Wake!NoScan.next = 0 /\ Wake!NoScan.at = 0 /\ Wake!NoScan.fired = {}
    BY DEF Wake!NoScan, WakeState, Wake!Never
  <2>2. Wake!NoScan \in [next : Nat, at : Nat, rules : [Wake!Rule -> WakeState], fired : SUBSET wake_sent]
    BY <2>1 DEF Wake!NoScan
  <2> QED
    BY <1>1, <2>2 DEF WakeIInv, WakeTyped
<1>4. WakeTimed' /\ WakeLoaded' /\ WakePending'
  BY <1>1, <1>2 DEF WakeIInv, WakeTimed, WakeLoaded, WakePending, WakeRunning
<1>5. WakeStamped' /\ WakeRemembered' /\ Wake!SpacedOut' /\ Wake!CandidateOnce'
  BY <1>1, <1>2 DEF WakeIInv, WakeStamped, WakeRunning, WakeRemembered, Wake!SpacedOut,
      Wake!CandidateOnce
<1> QED
  BY <1>3, <1>4, <1>5 DEF WakeIInv

LEMMA WakeStartInv ==
  ASSUME WakeIInv, Wake!ScanStart PROVE WakeIInv'
<1>1. /\ wake_scan' = [next |-> 1, at |-> wake_now, rules |-> wake_saved, fired |-> {}]
      /\ UNCHANGED <<wake_now, wake_strategy, wake_saved, wake_sent, wake_first, wake_aborts>>
  BY DEF Wake!ScanStart
<1>2. wake_now \in Nat \ {0} /\ wake_saved \in [Wake!Rule -> WakeState] /\ \A m \in wake_sent : m.at <= wake_now
  BY DEF WakeIInv, WakeTyped, WakeTimed
<1>3. WakeTyped'
  BY <1>1, <1>2 DEF WakeIInv, WakeTyped
<1>4. WakeTimed' /\ WakePending'
  BY <1>1, <1>2 DEF WakeIInv, WakeTimed, WakePending, WakeRunning
<1>5. WakeLoaded' /\ WakeStamped'
  BY <1>1, <1>2 DEF WakeIInv, WakeLoaded, WakeStamped, WakeRemembered, WakeRunning, WakeState
<1>6. WakeRemembered' /\ Wake!SpacedOut' /\ Wake!CandidateOnce'
  BY <1>1 DEF WakeIInv, WakeRemembered, Wake!SpacedOut, Wake!CandidateOnce
<1> QED
  BY <1>3, <1>4, <1>5, <1>6 DEF WakeIInv

LEMMA WakeStepInv ==
  ASSUME WakeIInv, [Wake!Next]_(Wake!vars) PROVE WakeIInv'
<1>1. CASE Wake!Tick
  <2>1. wake_now' = wake_now + 1 /\ UNCHANGED <<wake_strategy, wake_saved, wake_scan, wake_sent,
                                                wake_first, wake_aborts>>
    BY <1>1 DEF Wake!Tick
  <2>2. /\ wake_now \in Nat \ {0} /\ wake_scan.at \in Nat
        /\ \A m \in wake_sent : m.at \in Nat
        /\ \A r \in Wake!Rule : wake_saved[r].eval \in Nat /\ wake_saved[r].fire \in Nat
    BY DEF WakeIInv, WakeTyped, WakeSending, WakeState
  <2>3. WakeTyped' /\ WakeTimed'
    BY <2>1, <2>2 DEF WakeIInv, WakeTyped, WakeTimed, WakeRunning
  <2>4. WakeLoaded' /\ WakeStamped' /\ WakeRemembered' /\ WakePending' /\ Wake!SpacedOut' /\ Wake!CandidateOnce'
    BY <2>1, <2>2
    DEF WakeIInv, WakeLoaded, WakeStamped, WakeRunning, WakeRemembered, WakePending, Wake!SpacedOut, Wake!CandidateOnce
  <2> QED
    BY <2>3, <2>4 DEF WakeIInv
<1>2. CASE Wake!SubmitStrategy \/ UNCHANGED Wake!vars
  <2>1. UNCHANGED <<wake_now, wake_saved, wake_scan, wake_sent>>
    BY <1>2 DEF Wake!SubmitStrategy, Wake!vars
  <2> QED
    BY <2>1 DEF WakeIInv, WakeTyped, WakeTimed, WakeLoaded, WakeStamped, WakeRunning,
        WakeRemembered, WakePending, Wake!SpacedOut,
                Wake!CandidateOnce
<1>3. ASSUME NEW r \in Wake!Rule, Wake!Pass(r) \/ Wake!NoMessage(r) PROVE WakeIInv'
  BY <1>3, WakePassInv DEF Wake!Pass, Wake!NoMessage
<1> QED
  BY <1>1, <1>2, <1>3, WakeFireInv, WakeSaveInv, WakeAbortInv, WakeStartInv DEF Wake!Next

LEMMA WakeInvWakesOnce ==
  ASSUME WakeIInv PROVE Wake!SpacedOut /\ Wake!CandidateOnce
BY DEF WakeIInv

\* Only its own steps touch AgentWake's variables.
LEMMA WakeSteps == [Next]_vars => [Wake!Next]_(Wake!vars)
BY DEF Next, vars, wakeVars, priceVars, claimVars, alertVars, retainVars, learnVars, notifyVars,
    deskVars, Wake!vars

-----------------------------------------------------------------------------
\* FailureAlert.

AlertLine == [at : Nat, key : Keys \cup {Alert!Other}, late : BOOLEAN]
AlertTelling == [key : Keys, at : Nat, saved : BOOLEAN]
AlertStamps == [Keys -> Int]

AlertTyped ==
  /\ alert_tick \in Nat /\ alert_seen \in Int
  /\ alert_written \in Seq(AlertLine)
  /\ alert_alerted \in AlertStamps
  /\ alert_scan \in [pc : {"idle", "started", "alerting"}, current : Nat, new : SUBSET Keys,
                     stamped : AlertStamps]
  /\ alert_told \subseteq AlertTelling

\* A stamp is of a telling; a scan's stamps are the saved ones or its own.
AlertStamped ==
  /\ \A k \in Keys : alert_alerted[k] # -1 => [key |-> k, at |-> alert_alerted[k], saved |-> TRUE] \in alert_told
  /\ alert_scan.pc # "idle" =>
       \A k \in Keys :
         \/ alert_scan.stamped[k] = alert_alerted[k]
         \/ /\ alert_scan.stamped[k] = alert_scan.current
            /\ [key |-> k, at |-> alert_scan.current, saved |-> FALSE] \in alert_told

\* A telling that was saved is not after the stamp of its key, and nothing is after the
\* scan that runs.
AlertOrdered ==
  /\ \A t \in alert_told : t.at <= alert_tick
  /\ \A t \in alert_told : t.saved => alert_alerted[t.key] >= t.at
  /\ alert_seen <= alert_tick
  /\ alert_scan.pc # "idle" =>
       /\ alert_seen <= alert_scan.current /\ alert_scan.current <= alert_tick
       /\ \A t \in alert_told : t.at <= alert_scan.current
  /\ alert_scan.pc = "started" => alert_scan.stamped = alert_alerted

AlertCovered(line) ==
  \E t \in alert_told : t.key = line.key /\ t.at > line.at - alert_Cooldown

\* The lines that the last scan saw, and those that the scan that runs has seen.
AlertSeenTold ==
  \A k \in DOMAIN alert_written :
    LET line == alert_written[k]
    IN  line.key # Alert!Other /\ line.at <= alert_seen /\ ~line.late /\ k \notin alert_missed => AlertCovered(line)

AlertReadTold ==
  alert_scan.pc = "alerting" =>
    \A k \in DOMAIN alert_written :
      LET line == alert_written[k]
      IN  line.key # Alert!Other /\ line.at <= alert_scan.current /\ ~line.late /\ k \notin alert_missed =>
            line.key \in alert_scan.new \/ AlertCovered(line)

AlertApart ==
  \A s, t \in alert_told :
    s.key = t.key /\ s.saved /\ s.at < t.at => t.at - s.at >= alert_Cooldown

AlertIInv == AlertTyped /\ AlertStamped /\ AlertOrdered /\ AlertSeenTold /\ AlertReadTold /\ AlertApart

-----------------------------------------------------------------------------
LEMMA AlertInitInv ==
  ASSUME Alert!Init PROVE AlertIInv
<1> USE DEF Alert!Init, Alert!Idle
<1>1. AlertTyped
  <2>1. alert_alerted \in AlertStamps /\ Alert!Idle.stamped \in AlertStamps
    BY DEF AlertStamps
  <2>2. alert_scan \in [pc : {"idle", "started", "alerting"}, current : Nat, new : SUBSET Keys,
                        stamped : AlertStamps]
    BY <2>1
  <2> QED
    BY <2>1, <2>2 DEF AlertTyped
<1>2. AlertStamped /\ AlertOrdered /\ AlertSeenTold /\ AlertReadTold /\ AlertApart
  BY DEF AlertStamped, AlertOrdered, AlertSeenTold, AlertReadTold, AlertApart
<1> QED
  BY <1>1, <1>2 DEF AlertIInv

\* No scan runs afterwards, and what was told stands.
LEMMA AlertIdleIs ==
  /\ Alert!Idle.pc = "idle"
  /\ Alert!Idle \in [pc : {"idle", "started", "alerting"}, current : Nat, new : SUBSET Keys,
                     stamped : AlertStamps]
BY DEF Alert!Idle, AlertStamps

LEMMA AlertTickInv ==
  ASSUME AlertIInv, Alert!Tick PROVE AlertIInv'
<1>1. alert_tick' = alert_tick + 1 /\ UNCHANGED <<alert_written, alert_seen, alert_alerted,
                                                  alert_scan, alert_told, alert_missed>>
  BY DEF Alert!Tick
<1>2. alert_tick \in Nat /\ alert_seen \in Int /\ alert_scan.current \in Nat /\ alert_told \subseteq AlertTelling
  BY DEF AlertIInv, AlertTyped
<1>3. \A t \in alert_told : t.at \in Nat
  BY <1>2 DEF AlertTelling
<1>4. AlertTyped' /\ AlertStamped' /\ AlertSeenTold' /\ AlertReadTold' /\ AlertApart'
  BY <1>1 DEF AlertIInv, AlertTyped, AlertStamped, AlertSeenTold, AlertReadTold, AlertApart,
      AlertCovered
<1>5. AlertOrdered'
  BY <1>1, <1>2, <1>3 DEF AlertIInv, AlertOrdered
<1> QED
  BY <1>4, <1>5 DEF AlertIInv

LEMMA AlertWriteInv ==
  ASSUME AlertIInv, NEW key \in Keys \cup {Alert!Other}, NEW at \in Int, Alert!Write(key, at) PROVE AlertIInv'
<1> DEFINE bound == IF alert_scan.pc = "alerting" THEN alert_scan.current ELSE alert_seen
           line == [at |-> at, key |-> key, late |-> at <= bound]
<1>1. /\ alert_written' = Append(alert_written, line)
      /\ UNCHANGED <<alert_tick, alert_seen, alert_alerted, alert_scan, alert_told,
                     alert_missed>> /\ at \in Nat
  BY DEF Alert!Write
<1>2. line \in AlertLine
  BY <1>1 DEF AlertLine
<1>3. AlertTyped'
  BY <1>1, <1>2 DEF AlertIInv, AlertTyped
<1>4. \A k \in DOMAIN alert_written' : \/ k \in DOMAIN alert_written /\ alert_written'[k] = alert_written[k]
                                       \/ alert_written'[k] = line
  BY <1>1, <1>2 DEF AlertIInv, AlertTyped
<1>5. AlertStamped' /\ AlertOrdered' /\ AlertApart'
  BY <1>1 DEF AlertIInv, AlertStamped, AlertOrdered, AlertApart
<1>6. alert_seen \in Int /\ alert_scan.current \in Nat /\ (alert_scan.pc # "idle" => alert_seen <= alert_scan.current)
  BY DEF AlertIInv, AlertTyped, AlertOrdered
<1>7. line.at = at /\ (~line.late => ~(at <= bound))
  OBVIOUS
<1>8. ~(at <= bound) => ~(at <= alert_seen) /\ (alert_scan.pc = "alerting" => ~(at <= alert_scan.current))
  BY <1>1, <1>6
<1> HIDE DEF line, bound
<1>9. AlertSeenTold'
  <2> SUFFICES ASSUME NEW k \in DOMAIN alert_written',
                      alert_written'[k].key # Alert!Other, alert_written'[k].at <= alert_seen, ~alert_written'[k].late, k \notin alert_missed
               PROVE  AlertCovered(alert_written'[k])
    BY <1>1 DEF AlertSeenTold, AlertCovered
  <2>1. CASE k \in DOMAIN alert_written /\ alert_written'[k] = alert_written[k]
    BY <2>1 DEF AlertIInv, AlertSeenTold
  <2>2. CASE alert_written'[k] = line
    BY <1>1, <1>6, <1>7, <1>8, <2>2
  <2> QED
    BY <1>4, <2>1, <2>2
<1>10. AlertReadTold'
  <2> SUFFICES ASSUME alert_scan.pc = "alerting", NEW k \in DOMAIN alert_written',
                      alert_written'[k].key # Alert!Other, alert_written'[k].at <= alert_scan.current,
                      ~alert_written'[k].late, k \notin alert_missed
               PROVE  alert_written'[k].key \in alert_scan.new \/ AlertCovered(alert_written'[k])
    BY <1>1 DEF AlertReadTold, AlertCovered
  <2>1. CASE k \in DOMAIN alert_written /\ alert_written'[k] = alert_written[k]
    BY <2>1 DEF AlertIInv, AlertReadTold
  <2>2. CASE alert_written'[k] = line
    BY <1>1, <1>6, <1>7, <1>8, <2>2
  <2> QED
    BY <1>4, <2>1, <2>2
<1> QED
  BY <1>3, <1>5, <1>9, <1>10 DEF AlertIInv

LEMMA AlertScanStartInv ==
  ASSUME AlertIInv, Alert!ScanStart PROVE AlertIInv'
<1>1. /\ alert_scan' = [pc |-> "started", current |-> alert_tick, new |-> {}, stamped |-> alert_alerted]
      /\ UNCHANGED <<alert_tick, alert_written, alert_seen, alert_alerted, alert_told,
                     alert_missed>>
  BY DEF Alert!ScanStart, Alert!Idle
<1>2. alert_tick \in Nat /\ alert_alerted \in AlertStamps
  BY DEF AlertIInv, AlertTyped
<1>3. AlertTyped'
  BY <1>1, <1>2 DEF AlertIInv, AlertTyped
<1>4. AlertStamped'
  BY <1>1 DEF AlertIInv, AlertStamped
<1>5. AlertOrdered'
  BY <1>1, <1>2 DEF AlertIInv, AlertOrdered
<1>6. AlertSeenTold' /\ AlertReadTold' /\ AlertApart'
  BY <1>1 DEF AlertIInv, AlertSeenTold, AlertReadTold, AlertApart, AlertCovered
<1> QED
  BY <1>3, <1>4, <1>5, <1>6 DEF AlertIInv

LEMMA AlertScanReadInv ==
  ASSUME AlertIInv, Alert!ScanRead PROVE AlertIInv'
<1>1. /\ alert_scan' = [pc |-> "alerting", current |-> alert_scan.current, new |-> Alert!NewFailures,
                        stamped |-> alert_scan.stamped]
      /\ alert_scan.pc = "started"
      /\ UNCHANGED <<alert_tick, alert_written, alert_seen, alert_alerted, alert_told>>
  BY DEF Alert!ScanRead, AlertIInv, AlertTyped
<1>2. alert_missed' = alert_missed \cup {k \in DOMAIN alert_written : Alert!Fresh(alert_written[k]) /\ ~Alert!InTail(k)}
  BY DEF Alert!ScanRead
<1>3. \A k \in DOMAIN alert_written : alert_written[k] \in AlertLine
  BY DEF AlertIInv, AlertTyped
<1>4. Alert!NewFailures \subseteq Keys
  BY <1>3 DEF Alert!NewFailures, AlertLine
<1>5. AlertTyped'
  BY <1>1, <1>4 DEF AlertIInv, AlertTyped
<1>6. AlertStamped' /\ AlertOrdered' /\ AlertApart'
  BY <1>1 DEF AlertIInv, AlertStamped, AlertOrdered, AlertApart
<1>7. AlertSeenTold'
  BY <1>1, <1>2 DEF AlertIInv, AlertSeenTold, AlertCovered
<1>8. AlertReadTold'
  <2> SUFFICES ASSUME NEW k \in DOMAIN alert_written, alert_written[k].key # Alert!Other,
                      alert_written[k].at <= alert_scan.current, ~alert_written[k].late, k \notin alert_missed'
               PROVE  alert_written[k].key \in Alert!NewFailures \/ AlertCovered(alert_written[k])
    BY <1>1 DEF AlertReadTold, AlertCovered
  <2>1. alert_written[k].at \in Nat /\ alert_seen \in Int
    BY <1>3 DEF AlertLine, AlertIInv, AlertTyped
  <2>2. CASE alert_written[k].at <= alert_seen
    BY <1>2, <2>2 DEF AlertIInv, AlertSeenTold
  <2>3. CASE alert_written[k].at > alert_seen
    <3>1. Alert!InTail(k)
      BY <1>2, <2>3 DEF Alert!Fresh
    <3> QED
      BY <2>3, <3>1 DEF Alert!NewFailures, Alert!Fresh
  <2> QED
    BY <2>1, <2>2, <2>3
<1> QED
  BY <1>5, <1>6, <1>7, <1>8 DEF AlertIInv

LEMMA AlertInv ==
  ASSUME AlertIInv, NEW key \in Keys, Alert!Alert(key) PROVE AlertIInv'
<1> DEFINE telling == [key |-> key, at |-> alert_scan.current, saved |-> FALSE]
<1>1. /\ alert_scan.pc = "alerting" /\ key \in alert_scan.new
      /\ UNCHANGED <<alert_tick, alert_written, alert_seen, alert_alerted, alert_missed>>
  BY DEF Alert!Alert
<1>2. /\ alert_scan.current \in Nat /\ alert_scan.stamped \in AlertStamps /\ alert_alerted \in AlertStamps
      /\ alert_scan.new \in SUBSET Keys /\ alert_told \subseteq AlertTelling /\ alert_Cooldown \in Nat \ {0}
  BY AlertAssumption DEF AlertIInv, AlertTyped
<1>3. alert_scan.stamped[key] \in Int /\ alert_alerted[key] \in Int
  BY <1>2 DEF AlertStamps
<1>4. \A t \in alert_told : t.at \in Nat /\ t.key \in Keys
  BY <1>2 DEF AlertTelling
<1>5. \A k \in DOMAIN alert_written : alert_written[k].at \in Nat
  <2>1. \A k \in DOMAIN alert_written : alert_written[k] \in AlertLine
    BY DEF AlertIInv, AlertTyped
  <2> QED
    BY <2>1 DEF AlertLine
\* The lines that this key stood for are covered.
<1>6. CASE Alert!Cooling(key)
  <2>1. /\ alert_scan' = [pc |-> "alerting", current |-> alert_scan.current, new |-> alert_scan.new \ {key},
                          stamped |-> alert_scan.stamped]
        /\ alert_told' = alert_told
    BY <1>1, <1>6 DEF Alert!Alert, AlertIInv, AlertTyped
  <2>2. AlertTyped'
    BY <1>1, <1>2, <2>1 DEF AlertIInv, AlertTyped
  <2>3. AlertStamped' /\ AlertOrdered' /\ AlertSeenTold' /\ AlertApart'
    BY <1>1, <2>1 DEF AlertIInv, AlertStamped, AlertOrdered, AlertSeenTold, AlertApart,
        AlertCovered
  <2>4. PICK t \in alert_told : t.key = key /\ t.at = alert_scan.stamped[key]
    BY <1>1, <1>2, <1>6 DEF Alert!Cooling, AlertIInv, AlertStamped
  <2>5. t.at > alert_scan.current - alert_Cooldown
    BY <1>2, <1>3, <1>6, <2>4 DEF Alert!Cooling
  <2>6. AlertReadTold'
    <3> SUFFICES ASSUME NEW k \in DOMAIN alert_written, alert_written[k].key # Alert!Other,
                        alert_written[k].at <= alert_scan.current, ~alert_written[k].late, k \notin alert_missed
                 PROVE  alert_written[k].key \in alert_scan.new \ {key} \/ AlertCovered(alert_written[k])
      BY <1>1, <2>1 DEF AlertReadTold, AlertCovered
    <3>1. alert_written[k].key \in alert_scan.new \/ AlertCovered(alert_written[k])
      BY <1>1 DEF AlertIInv, AlertReadTold
    <3>2. CASE alert_written[k].key = key
      <4>1. t.at > alert_written[k].at - alert_Cooldown
        BY <1>2, <1>4, <1>5, <2>5
      <4> QED
        BY <2>4, <3>2, <4>1 DEF AlertCovered
    <3> QED
      BY <3>1, <3>2
  <2> QED
    BY <2>2, <2>3, <2>6 DEF AlertIInv
<1>7. CASE ~Alert!Cooling(key)
  <2>1. /\ alert_scan' = [pc |-> "alerting", current |-> alert_scan.current, new |-> alert_scan.new \ {key},
                          stamped |-> [alert_scan.stamped EXCEPT ![key] = alert_scan.current]]
        /\ alert_told' = alert_told \cup {telling}
    BY <1>1, <1>7 DEF Alert!Alert, AlertIInv, AlertTyped
  <2>2. telling \in AlertTelling
    BY <1>2 DEF AlertTelling
  <2>3. [alert_scan.stamped EXCEPT ![key] = alert_scan.current] \in AlertStamps
    BY <1>2 DEF AlertStamps
  <2>4. AlertTyped'
    BY <1>1, <1>2, <2>1, <2>2, <2>3 DEF AlertIInv, AlertTyped
  <2>5. telling.key = key /\ telling.at = alert_scan.current /\ ~telling.saved
    OBVIOUS
  <2>6. AlertStamped'
    <3>1. \A k \in Keys : alert_alerted[k] # -1 => [key |-> k, at |-> alert_alerted[k], saved |-> TRUE] \in alert_told'
      BY <2>1 DEF AlertIInv, AlertStamped
    <3>2. ASSUME NEW k \in Keys
          PROVE  \/ alert_scan'.stamped[k] = alert_alerted[k]
                 \/ /\ alert_scan'.stamped[k] = alert_scan.current
                    /\ [key |-> k, at |-> alert_scan.current, saved |-> FALSE] \in alert_told'
      <4>1. CASE k = key
        BY <1>2, <2>1, <4>1 DEF AlertStamps
      <4>2. CASE k # key
        <5>1. alert_scan'.stamped[k] = alert_scan.stamped[k]
          BY <1>2, <2>1, <4>2 DEF AlertStamps
        <5> QED
          BY <1>1, <2>1, <5>1 DEF AlertIInv, AlertStamped
      <4> QED
        BY <4>1, <4>2
    <3> QED
      BY <1>1, <2>1, <3>1, <3>2 DEF AlertStamped
  <2> HIDE DEF telling
  <2>7. AlertOrdered'
    <3>1. alert_scan.current <= alert_tick /\ alert_scan.current <= alert_scan.current
      BY <1>1, <1>2 DEF AlertIInv, AlertOrdered
    <3> QED
      BY <1>1, <2>1, <2>5, <3>1 DEF AlertIInv, AlertOrdered
  <2>8. AlertSeenTold'
    BY <1>1, <2>1 DEF AlertIInv, AlertSeenTold, AlertCovered
  <2>9. AlertReadTold'
    <3> SUFFICES ASSUME NEW k \in DOMAIN alert_written, alert_written[k].key # Alert!Other,
                        alert_written[k].at <= alert_scan.current, ~alert_written[k].late, k \notin alert_missed
                 PROVE  \/ alert_written[k].key \in alert_scan.new \ {key}
                        \/ \E t \in alert_told' : t.key = alert_written[k].key /\ t.at > alert_written[k].at - alert_Cooldown
      BY <1>1, <2>1 DEF AlertReadTold, AlertCovered
    <3>1. alert_written[k].key \in alert_scan.new \/ AlertCovered(alert_written[k])
      BY <1>1 DEF AlertIInv, AlertReadTold
    <3>2. CASE alert_written[k].key = key
      <4>1. alert_scan.current > alert_written[k].at - alert_Cooldown
        BY <1>2, <1>5
      <4> QED
        BY <2>1, <2>5, <3>2, <4>1
    <3>3. CASE AlertCovered(alert_written[k])
      BY <2>1, <3>3 DEF AlertCovered
    <3> QED
      BY <3>1, <3>2, <3>3
  <2>10. AlertApart'
    <3> SUFFICES ASSUME NEW s \in alert_told', NEW t \in alert_told', s.key = t.key, s.saved, s.at < t.at
                 PROVE  t.at - s.at >= alert_Cooldown
      BY DEF AlertApart
    <3>1. s \in alert_told
      BY <2>1, <2>5
    <3>2. CASE t \in alert_told
      BY <3>1, <3>2 DEF AlertIInv, AlertApart
    <3>3. CASE t = telling
      <4>1. s.key = key /\ t.at = alert_scan.current /\ alert_alerted[key] >= s.at /\ s.at \in Nat
        BY <1>4, <2>5, <3>1, <3>3 DEF AlertIInv, AlertOrdered
      <4>2. alert_scan.stamped[key] = alert_alerted[key] \/ alert_scan.stamped[key] = alert_scan.current
        BY <1>1 DEF AlertIInv, AlertStamped
      <4>3. alert_scan.stamped[key] # -1
        BY <1>2, <1>3, <4>1, <4>2
      <4>4. alert_scan.current - alert_scan.stamped[key] >= alert_Cooldown
        BY <1>2, <1>3, <1>7, <4>3 DEF Alert!Cooling
      <4>5. alert_scan.stamped[key] = alert_alerted[key]
        BY <1>2, <4>2, <4>4
      <4> QED
        BY <1>2, <1>3, <4>1, <4>4, <4>5
    <3> QED
      BY <2>1, <3>2, <3>3
  <2> QED
    BY <2>4, <2>6, <2>7, <2>8, <2>9, <2>10 DEF AlertIInv
<1> QED
  BY <1>6, <1>7

LEMMA AlertScanSaveInv ==
  ASSUME AlertIInv, Alert!ScanSave PROVE AlertIInv'
<1> DEFINE Saved(t) == [t EXCEPT !.saved = t.saved \/ alert_scan.stamped[t.key] = t.at]
<1>1. /\ alert_scan.pc = "alerting" /\ alert_scan.new = {}
      /\ alert_seen' = alert_scan.current /\ alert_alerted' = alert_scan.stamped /\ alert_scan' = Alert!Idle
      /\ alert_told' = {Saved(t) : t \in alert_told}
      /\ UNCHANGED <<alert_tick, alert_written, alert_missed>>
  BY DEF Alert!ScanSave
<1>2. /\ alert_scan.current \in Nat /\ alert_scan.stamped \in AlertStamps /\ alert_alerted \in AlertStamps
      /\ alert_told \subseteq AlertTelling /\ alert_tick \in Nat
  BY DEF AlertIInv, AlertTyped
<1>3. \A t \in alert_told : t.at \in Nat /\ t.key \in Keys /\ t.saved \in BOOLEAN
  BY <1>2 DEF AlertTelling
<1>4. \A t \in alert_told : /\ Saved(t) \in AlertTelling
                            /\ Saved(t).key = t.key /\ Saved(t).at = t.at
                            /\ Saved(t).saved <=> t.saved \/ alert_scan.stamped[t.key] = t.at
  BY <1>2 DEF AlertTelling
<1>5. \A k \in Keys : alert_scan.stamped[k] \in Int /\ alert_alerted[k] \in Int
  BY <1>2 DEF AlertStamps
<1>6. \A k \in Keys, t \in alert_told :
        t.key = k /\ alert_scan.stamped[k] = t.at => Saved(t) = [key |-> k, at |-> t.at, saved |-> TRUE]
  <2> SUFFICES ASSUME NEW t \in alert_told, alert_scan.stamped[t.key] = t.at
               PROVE  Saved(t) = [key |-> t.key, at |-> t.at, saved |-> TRUE]
    OBVIOUS
  <2>1. t = [key |-> t.key, at |-> t.at, saved |-> t.saved]
    BY <1>2 DEF AlertTelling
  <2>2. (t.saved \/ alert_scan.stamped[t.key] = t.at) = TRUE
    BY <1>3
  <2>3. Saved(t) = [key |-> t.key, at |-> t.at,
                    saved |-> t.saved \/ alert_scan.stamped[t.key] = t.at]
    BY <2>1
  <2> QED
    BY <2>2, <2>3
<1> HIDE DEF Saved
<1>7. AlertTyped'
  BY <1>1, <1>2, <1>4, AlertIdleIs DEF AlertIInv, AlertTyped
<1>8. AlertStamped'
  <2> SUFFICES ASSUME NEW k \in Keys, alert_scan.stamped[k] # -1
               PROVE  [key |-> k, at |-> alert_scan.stamped[k], saved |-> TRUE] \in alert_told'
    BY <1>1, AlertIdleIs DEF AlertStamped
  <2>1. PICK t \in alert_told : t.key = k /\ t.at = alert_scan.stamped[k]
    BY <1>1 DEF AlertIInv, AlertStamped
  <2> QED
    BY <1>1, <1>6, <2>1
<1>9. AlertOrdered'
  <2>1. \A t \in alert_told : t.saved => alert_scan.stamped[t.key] >= t.at
    <3> SUFFICES ASSUME NEW t \in alert_told, t.saved PROVE alert_scan.stamped[t.key] >= t.at
      OBVIOUS
    <3>1. alert_alerted[t.key] >= t.at /\ t.at <= alert_scan.current
      BY <1>1 DEF AlertIInv, AlertOrdered
    <3>2. alert_scan.stamped[t.key] = alert_alerted[t.key] \/ alert_scan.stamped[t.key] = alert_scan.current
      BY <1>1, <1>3 DEF AlertIInv, AlertStamped
    <3> QED
      BY <1>2, <1>3, <1>5, <3>1, <3>2
  <2>2. \A t \in alert_told : alert_scan.stamped[t.key] = t.at => alert_scan.stamped[t.key] >= t.at
    BY <1>3
  <2>3. \A t \in alert_told' : t.at <= alert_tick /\ (t.saved => alert_scan.stamped[t.key] >= t.at)
    BY <1>1, <1>4, <2>1, <2>2 DEF AlertIInv, AlertOrdered
  <2>4. alert_scan.current <= alert_tick
    BY <1>1 DEF AlertIInv, AlertOrdered
  <2> QED
    BY <1>1, <2>3, <2>4, AlertIdleIs DEF AlertOrdered
<1>10. AlertSeenTold'
  <2> SUFFICES ASSUME NEW k \in DOMAIN alert_written, alert_written[k].key # Alert!Other,
                      alert_written[k].at <= alert_scan.current, ~alert_written[k].late, k \notin alert_missed
               PROVE  \E t \in alert_told' : t.key = alert_written[k].key /\ t.at > alert_written[k].at - alert_Cooldown
    BY <1>1 DEF AlertSeenTold, AlertCovered
  <2>1. PICK t \in alert_told : t.key = alert_written[k].key /\ t.at > alert_written[k].at - alert_Cooldown
    BY <1>1 DEF AlertIInv, AlertReadTold, AlertCovered
  <2> QED
    BY <1>1, <1>4, <2>1
<1>11. AlertReadTold'
  BY <1>1, AlertIdleIs DEF AlertReadTold
<1>12. AlertApart'
  <2> SUFFICES ASSUME NEW s \in alert_told, NEW t \in alert_told, s.key = t.key, s.at < t.at,
                      s.saved \/ alert_scan.stamped[s.key] = s.at
               PROVE  t.at - s.at >= alert_Cooldown
    BY <1>1, <1>4 DEF AlertApart
  <2>1. CASE s.saved
    BY <2>1 DEF AlertIInv, AlertApart
  <2>2. CASE alert_scan.stamped[s.key] = s.at
    <3>1. t.at <= alert_scan.current
      BY <1>1 DEF AlertIInv, AlertOrdered
    <3>2. alert_scan.stamped[s.key] # alert_scan.current
      BY <1>2, <1>3, <2>2, <3>1
    <3>3. alert_alerted[s.key] = s.at
      BY <1>1, <1>3, <2>2, <3>2 DEF AlertIInv, AlertStamped
    <3>4. s.at # -1
      BY <1>3
    <3> DEFINE twin == [key |-> s.key, at |-> s.at, saved |-> TRUE]
    <3>5. twin \in alert_told
      BY <1>3, <3>3, <3>4 DEF AlertIInv, AlertStamped
    <3>6. twin.key = t.key /\ twin.saved /\ twin.at = s.at
      OBVIOUS
    <3> HIDE DEF twin
    <3> QED
      BY <3>5, <3>6 DEF AlertIInv, AlertApart
  <2> QED
    BY <2>1, <2>2
<1> QED
  BY <1>7, <1>8, <1>9, <1>10, <1>11, <1>12 DEF AlertIInv

LEMMA AlertScanCutOffInv ==
  ASSUME AlertIInv, Alert!ScanCutOff PROVE AlertIInv'
<1>1. alert_scan' = Alert!Idle /\ UNCHANGED <<alert_tick, alert_written, alert_seen,
                                              alert_alerted, alert_told, alert_missed>>
  BY DEF Alert!ScanCutOff
<1>2. AlertTyped'
  BY <1>1, AlertIdleIs DEF AlertIInv, AlertTyped
<1>3. AlertStamped' /\ AlertOrdered' /\ AlertSeenTold' /\ AlertReadTold' /\ AlertApart'
  BY <1>1, AlertIdleIs DEF AlertIInv, AlertStamped, AlertOrdered, AlertSeenTold, AlertReadTold,
      AlertApart, AlertCovered
<1> QED
  BY <1>2, <1>3 DEF AlertIInv

LEMMA AlertStepInv ==
  ASSUME AlertIInv, [Alert!Next]_(Alert!vars) PROVE AlertIInv'
<1>1. CASE Alert!Next
  <2>1. CASE Alert!Tick
    BY <2>1, AlertTickInv
  <2>2. CASE \E key \in Keys \cup {Alert!Other}, at \in {alert_tick - 1, alert_tick} : Alert!Write(key, at)
    <3>1. alert_tick \in Nat
      BY DEF AlertIInv, AlertTyped
    <3> QED
      BY <2>2, <3>1, AlertWriteInv
  <2>3. CASE Alert!ScanStart
    BY <2>3, AlertScanStartInv
  <2>4. CASE Alert!ScanRead
    BY <2>4, AlertScanReadInv
  <2>5. CASE Alert!ScanSave
    BY <2>5, AlertScanSaveInv
  <2>6. CASE Alert!ScanCutOff
    BY <2>6, AlertScanCutOffInv
  <2>7. CASE \E key \in Keys : Alert!Alert(key)
    BY <2>7, AlertInv
  <2> QED
    BY <1>1, <2>1, <2>2, <2>3, <2>4, <2>5, <2>6, <2>7 DEF Alert!Next
<1>2. CASE UNCHANGED Alert!vars
  BY <1>2 DEF Alert!vars, AlertIInv, AlertTyped, AlertStamped, AlertOrdered, AlertSeenTold,
      AlertReadTold, AlertApart, AlertCovered
<1> QED
  BY <1>1, <1>2

LEMMA AlertInvTold ==
  AlertIInv => Alert!ToldOncePerCooldown
BY DEF AlertIInv, AlertSeenTold, AlertCovered, AlertApart, Alert!ToldOncePerCooldown

\* Only its own steps touch FailureAlert's variables.
LEMMA AlertSteps == [Next]_vars => [Alert!Next]_(Alert!vars)
BY DEF Next, vars, wakeVars, priceVars, claimVars, alertVars, retainVars, learnVars, notifyVars,
    deskVars, Alert!vars

-----------------------------------------------------------------------------
\* MemoryRetention.

RetentionRow == [kind : retain_Kinds, id : Keys, at : Nat]

RetentionTyped ==
  /\ retain_tick \in Nat
  /\ retain_ever \subseteq RetentionRow /\ retain_rows \subseteq retain_ever
  /\ retain_scan \in [Retention!Pruner -> [on : BOOLEAN, current : Nat, left : SUBSET retain_Kinds]]
  /\ \A p \in Retention!Pruner : retain_scan[p].current <= retain_tick

\* A row that is gone had outlived its kind.
RetentionGoneWasOld ==
  \A r \in retain_ever \ retain_rows : r.at < retain_tick - retain_TTL[r.kind]

RetentionIInv == RetentionTyped /\ RetentionGoneWasOld

-----------------------------------------------------------------------------
LEMMA RetentionInitInv ==
  ASSUME Retention!Init PROVE RetentionIInv
<1>1. Retention!NoScan \in [on : BOOLEAN, current : Nat, left : SUBSET retain_Kinds] /\ Retention!NoScan.current = 0
  BY DEF Retention!NoScan
<1>2. RetentionTyped
  BY <1>1 DEF Retention!Init, RetentionTyped
<1>3. RetentionGoneWasOld
  BY DEF Retention!Init, RetentionGoneWasOld
<1> QED
  BY <1>2, <1>3 DEF RetentionIInv

LEMMA RetentionRowFacts ==
  ASSUME RetentionIInv
  PROVE  \A r \in retain_ever : /\ r.kind \in retain_Kinds /\ r.at \in Nat
                                /\ retain_TTL[r.kind] \in Nat /\ retain_Window[r.kind] \in Nat
                                /\ retain_Window[r.kind] <= retain_TTL[r.kind]
<1>1. \A r \in retain_ever : r.kind \in retain_Kinds /\ r.at \in Nat
  BY DEF RetentionIInv, RetentionTyped, RetentionRow
<1> QED
  BY <1>1, RetentionAssumption

LEMMA RetentionTickInv ==
  ASSUME RetentionIInv, Retention!Tick PROVE RetentionIInv'
<1>1. retain_tick \in Nat /\ retain_tick' = retain_tick + 1 /\ UNCHANGED <<retain_rows,
                                                                           retain_ever,
                                                                           retain_scan>>
  BY DEF Retention!Tick, RetentionIInv, RetentionTyped
<1>2. \A p \in Retention!Pruner : retain_scan[p].current \in Nat
  BY DEF RetentionIInv, RetentionTyped
<1>3. RetentionTyped'
  BY <1>1, <1>2 DEF RetentionIInv, RetentionTyped
<1>4. RetentionGoneWasOld'
  <2> SUFFICES ASSUME NEW r \in retain_ever \ retain_rows PROVE r.at < retain_tick' - retain_TTL[r.kind]
    BY <1>1 DEF RetentionGoneWasOld
  <2>1. r.at < retain_tick - retain_TTL[r.kind]
    BY DEF RetentionIInv, RetentionGoneWasOld
  <2>2. r.at \in Nat /\ retain_TTL[r.kind] \in Nat
    BY RetentionRowFacts
  <2> QED
    BY <1>1, <2>1, <2>2
<1> QED
  BY <1>3, <1>4 DEF RetentionIInv

LEMMA RetentionSaveInv ==
  ASSUME RetentionIInv, NEW kind \in retain_Kinds, NEW id \in Keys, Retention!Save(kind, id) PROVE RetentionIInv'
<1> DEFINE row == [kind |-> kind, id |-> id, at |-> retain_tick]
           Others(S) == {r \in S : r.kind # kind \/ r.id # id}
<1>1. /\ retain_rows' = Others(retain_rows) \cup {row} /\ retain_ever' = Others(retain_ever) \cup {row}
      /\ UNCHANGED <<retain_tick, retain_scan>>
  BY DEF Retention!Save, Retention!Saved
<1>2. row \in RetentionRow
  BY DEF RetentionIInv, RetentionTyped, RetentionRow
<1> HIDE DEF row
<1>3. RetentionTyped'
  BY <1>1, <1>2 DEF RetentionIInv, RetentionTyped
<1>4. RetentionGoneWasOld'
  BY <1>1 DEF RetentionIInv, RetentionGoneWasOld
<1> QED
  BY <1>3, <1>4 DEF RetentionIInv

LEMMA RetentionStartInv ==
  ASSUME RetentionIInv, NEW p \in Retention!Pruner, Retention!Start(p) PROVE RetentionIInv'
<1> DEFINE started == [on |-> TRUE, current |-> retain_tick, left |-> retain_Kinds]
<1>1. /\ retain_scan' = [retain_scan EXCEPT ![p] = started]
      /\ UNCHANGED <<retain_tick, retain_rows, retain_ever>>
  BY DEF Retention!Start
<1>2. retain_tick \in Nat
  BY DEF RetentionIInv, RetentionTyped
<1>3. started \in [on : BOOLEAN, current : Nat, left : SUBSET retain_Kinds] /\ started.current = retain_tick
  BY <1>2
<1> HIDE DEF started
<1>4. \A q \in Retention!Pruner : retain_scan'[q] = IF q = p THEN started ELSE retain_scan[q]
  BY <1>1 DEF RetentionIInv, RetentionTyped
<1>5. retain_tick <= retain_tick
  BY <1>2
<1>6. RetentionTyped'
  BY <1>1, <1>3, <1>4, <1>5 DEF RetentionIInv, RetentionTyped
<1>7. RetentionGoneWasOld'
  BY <1>1 DEF RetentionIInv, RetentionGoneWasOld
<1> QED
  BY <1>6, <1>7 DEF RetentionIInv

LEMMA RetentionEndInv ==
  ASSUME RetentionIInv, NEW p \in Retention!Pruner, Retention!End(p) PROVE RetentionIInv'
<1>1. /\ retain_scan' = [retain_scan EXCEPT ![p] = Retention!NoScan]
      /\ UNCHANGED <<retain_tick, retain_rows, retain_ever>>
  BY DEF Retention!End
<1>2. Retention!NoScan \in [on : BOOLEAN, current : Nat, left : SUBSET retain_Kinds] /\ Retention!NoScan.current = 0
  BY DEF Retention!NoScan
<1>3. \A q \in Retention!Pruner : retain_scan'[q] = IF q = p THEN Retention!NoScan ELSE retain_scan[q]
  BY <1>1 DEF RetentionIInv, RetentionTyped
<1>4. retain_tick \in Nat
  BY DEF RetentionIInv, RetentionTyped
<1>5. RetentionTyped'
  BY <1>1, <1>2, <1>3, <1>4 DEF RetentionIInv, RetentionTyped
<1>6. RetentionGoneWasOld'
  BY <1>1 DEF RetentionIInv, RetentionGoneWasOld
<1> QED
  BY <1>5, <1>6 DEF RetentionIInv

\* A DELETE takes the time its pass began with, which is not after now.
LEMMA RetentionPruneInv ==
  ASSUME RetentionIInv, NEW p \in Retention!Pruner, NEW kind \in retain_Kinds, Retention!Pruned(p, kind),
         retain_rows' = retain_rows \/ retain_rows' = Retention!Kept(kind, retain_scan[p].current)
  PROVE  RetentionIInv'
<1>1. /\ retain_scan' = [retain_scan EXCEPT ![p].left = @ \ {kind}]
      /\ UNCHANGED <<retain_tick, retain_ever>>
  BY DEF Retention!Pruned
<1>2. /\ retain_scan \in [Retention!Pruner -> [on : BOOLEAN, current : Nat, left : SUBSET retain_Kinds]]
      /\ retain_tick \in Nat /\ retain_rows \subseteq retain_ever
  BY DEF RetentionIInv, RetentionTyped
<1>3. retain_scan[p] \in [on : BOOLEAN, current : Nat, left : SUBSET retain_Kinds] /\ retain_scan[p].current <= retain_tick
  BY <1>2 DEF RetentionIInv, RetentionTyped
<1> DEFINE after == [retain_scan[p] EXCEPT !.left = @ \ {kind}]
<1>4. retain_scan' = [retain_scan EXCEPT ![p] = after]
  BY <1>1, <1>2
<1>5. /\ after \in [on : BOOLEAN, current : Nat, left : SUBSET retain_Kinds]
      /\ after.current = retain_scan[p].current
  BY <1>3
<1> HIDE DEF after
<1>6. \A q \in Retention!Pruner : retain_scan'[q] = IF q = p THEN after ELSE retain_scan[q]
  BY <1>2, <1>4
<1>7. retain_rows' \subseteq retain_rows
  BY DEF Retention!Kept
<1>8. retain_scan' \in [Retention!Pruner -> [on : BOOLEAN, current : Nat, left : SUBSET retain_Kinds]]
  BY <1>2, <1>4, <1>5
<1>9. RetentionTyped'
  BY <1>1, <1>2, <1>3, <1>5, <1>6, <1>7, <1>8 DEF RetentionIInv, RetentionTyped
<1>10. RetentionGoneWasOld'
  <2> SUFFICES ASSUME NEW r \in retain_ever, r \notin retain_rows' PROVE r.at < retain_tick - retain_TTL[r.kind]
    BY <1>1 DEF RetentionGoneWasOld
  <2>1. CASE r \notin retain_rows
    BY <2>1 DEF RetentionIInv, RetentionGoneWasOld
  <2>2. CASE r \in retain_rows
    <3>1. r.kind = kind /\ ~(r.at >= retain_scan[p].current - retain_TTL[kind])
      BY <2>2 DEF Retention!Kept
    <3>2. r.at \in Nat /\ retain_TTL[r.kind] \in Nat /\ retain_scan[p].current \in Nat
      BY <1>3, RetentionRowFacts
    <3> QED
      BY <1>2, <1>3, <3>1, <3>2
  <2> QED
    BY <2>1, <2>2
<1> QED
  BY <1>9, <1>10 DEF RetentionIInv

LEMMA RetentionStepInv ==
  ASSUME RetentionIInv, [Retention!Next]_(Retention!vars) PROVE RetentionIInv'
<1>1. CASE Retention!Next
  <2>1. CASE Retention!Tick
    BY <2>1, RetentionTickInv
  <2>2. ASSUME NEW kind \in retain_Kinds, Retention!Prune(kind) PROVE RetentionIInv'
    <3>1. "monitor" \in Retention!Pruner
      BY DEF Retention!Pruner
    <3>2. retain_rows' = retain_rows \/ retain_rows' = Retention!Kept(kind, retain_scan["monitor"].current)
      BY <2>2 DEF Retention!Prune
    <3> QED
      BY <2>2, <3>1, <3>2, RetentionPruneInv DEF Retention!Prune
  <2>3. ASSUME NEW kind \in retain_Kinds, Retention!OfflinePrune(kind) PROVE RetentionIInv'
    <3>1. "script" \in Retention!Pruner
      BY DEF Retention!Pruner
    <3> QED
      BY <2>3, <3>1, RetentionPruneInv DEF Retention!OfflinePrune
  <2>4. ASSUME NEW kind \in retain_Kinds, NEW id \in Keys, Retention!Save(kind, id) PROVE RetentionIInv'
    BY <2>4, RetentionSaveInv
  <2>5. ASSUME NEW p \in Retention!Pruner, Retention!Start(p) \/ Retention!End(p) PROVE RetentionIInv'
    BY <2>5, RetentionStartInv, RetentionEndInv
  <2> QED
    BY <1>1, <2>1, <2>2, <2>3, <2>4, <2>5 DEF Retention!Next
<1>2. CASE UNCHANGED Retention!vars
  BY <1>2 DEF Retention!vars, RetentionIInv, RetentionTyped, RetentionGoneWasOld
<1> QED
  BY <1>1, <1>2

\* What is young enough to be read is still there.
LEMMA RetentionYoungIsThere ==
  ASSUME RetentionIInv PROVE \A r \in retain_ever : r.at >= retain_tick - retain_TTL[r.kind] => r \in retain_rows
<1> SUFFICES ASSUME NEW r \in retain_ever, r.at >= retain_tick - retain_TTL[r.kind], r \notin retain_rows PROVE FALSE
  OBVIOUS
<1>1. r.at < retain_tick - retain_TTL[r.kind]
  BY DEF RetentionIInv, RetentionGoneWasOld
<1>2. r.at \in Nat /\ retain_TTL[r.kind] \in Nat /\ retain_tick \in Nat
  BY RetentionRowFacts DEF RetentionIInv, RetentionTyped
<1> QED
  BY <1>1, <1>2

LEMMA RetentionInvUnseen ==
  ASSUME RetentionIInv PROVE Retention!RetentionUnseen
<1> SUFFICES ASSUME NEW kind \in retain_Kinds
             PROVE  /\ Retention!Since(retain_rows, kind) = Retention!Since(retain_ever, kind)
                    /\ Retention!Series(retain_rows, kind) = Retention!Series(retain_ever, kind)
                    /\ \A r \in Retention!LatestRow(retain_ever, kind) :
                         r.at >= retain_tick - retain_TTL[kind] => r \in Retention!LatestRow(retain_rows, kind)
                    /\ \A r \in Retention!DayAgo(retain_ever, kind) :
                         r.at >= retain_tick - retain_TTL[kind] => r \in Retention!DayAgo(retain_rows, kind)
  BY DEF Retention!RetentionUnseen
<1>1. retain_rows \subseteq retain_ever /\ retain_tick \in Nat
  BY DEF RetentionIInv, RetentionTyped
<1>2. \A r \in retain_ever : r.kind = kind /\ r.at >= retain_tick - retain_TTL[kind] => r \in retain_rows
  BY RetentionYoungIsThere
<1>3. \A r \in retain_ever : r.kind = kind /\ r.at >= retain_tick - retain_Window[kind] => r.at >= retain_tick - retain_TTL[kind]
  BY <1>1, RetentionRowFacts
<1>4. Retention!Since(retain_rows, kind) = Retention!Since(retain_ever, kind)
  BY <1>1, <1>2, <1>3 DEF Retention!Since, Retention!OfKind
<1>5. Retention!Series(retain_rows, kind) = Retention!Series(retain_ever, kind)
  BY <1>4 DEF Retention!Series
<1>6. \A r \in Retention!LatestRow(retain_ever, kind) : r.at >= retain_tick - retain_TTL[kind] => r \in Retention!LatestRow(retain_rows, kind)
  BY <1>1, <1>2 DEF Retention!LatestRow, Retention!Latest, Retention!OfKind
<1>7. \A r \in Retention!DayAgo(retain_ever, kind) : r.at >= retain_tick - retain_TTL[kind] => r \in Retention!DayAgo(retain_rows, kind)
  BY <1>1, <1>2 DEF Retention!DayAgo, Retention!Latest, Retention!OfKind
<1> QED
  BY <1>4, <1>5, <1>6, <1>7

\* Only its own steps touch MemoryRetention's variables.
LEMMA RetentionSteps == [Next]_vars => [Retention!Next]_(Retention!vars)
BY DEF Next, vars, wakeVars, priceVars, claimVars, alertVars, retainVars, learnVars, notifyVars,
    deskVars, Retention!vars

-----------------------------------------------------------------------------
\* Learning.

\* Learn counts as this module does.
LEMMA LearnCounting ==
  \A S : Learn!Cardinality(S) = Cardinality(S) /\ Learn!IsFiniteSet(S) = IsFiniteSet(S)
BY DEF Learn!Cardinality, Cardinality, Learn!IsFiniteSet, IsFiniteSet

LearnFile == [exists : BOOLEAN, size : 0 .. 1, content : Int, mtime : Int]
LearnRow == [role : learn_Roles, baseline : LearnFile, state : Learn!State, saved : Nat, written : Nat]

LearnTyped ==
  /\ learn_file \in [learn_Roles -> LearnFile] /\ learn_writes \in [learn_Roles -> Nat] /\ learn_saves \in Nat
  /\ learn_directive = [d \in Learn!Issued |-> learn_directive[d]]
  /\ \A d \in Learn!Issued : learn_directive[d] \in LearnRow /\ learn_directive[d].saved <= learn_saves
  /\ learn_scan = [t \in Learn!Thread |-> learn_scan[t]]
  /\ \A t \in Learn!Thread :
       /\ learn_scan[t] = [pc |-> learn_scan[t].pc, left |-> learn_scan[t].left, given |-> learn_scan[t].given,
                           copy |-> learn_scan[t].copy, since |-> learn_scan[t].since]
       /\ learn_scan[t].since \in [learn_Roles -> Nat]

\* What does not change while a directive waits.
LearnSame(c, d) == c.role = d.role /\ c.baseline = d.baseline /\ c.written = d.written

\* A scan works on rows that it read earlier.
LearnCopies ==
  \A t \in Learn!Thread :
    /\ learn_scan[t].left \subseteq learn_scan[t].given /\ learn_scan[t].given \subseteq DOMAIN learn_scan[t].copy
    /\ DOMAIN learn_scan[t].copy \subseteq Learn!Issued
    /\ \A d \in DOMAIN learn_scan[t].copy :
         /\ learn_scan[t].copy[d] \in LearnRow /\ learn_scan[t].copy[d].saved <= learn_saves
         /\ LearnSame(learn_scan[t].copy[d], learn_directive[d])
    /\ \A r \in learn_Roles : learn_scan[t].since[r] <= learn_writes[r]

\* A file that was not written since is as the directive found it.
LearnAtRest ==
  /\ \A r \in learn_Roles : learn_file[r].size = 1 => learn_file[r].exists
  /\ \A d \in Learn!Issued :
       /\ learn_directive[d].written <= learn_writes[learn_directive[d].role]
       /\ learn_directive[d].written = learn_writes[learn_directive[d].role] =>
            learn_directive[d].baseline = learn_file[learn_directive[d].role]

LearnWritten ==
  \A d \in Learn!Issued : learn_directive[d].state # "pending" => learn_writes[learn_directive[d].role] > learn_directive[d].written

\* The directives that a scan has looked at so far.
LearnLooked ==
  \A t \in Learn!Thread : \A d \in learn_scan[t].given \ learn_scan[t].left :
    LET c == learn_scan[t].copy[d]
    IN  learn_scan[t].since[c.role] = learn_writes[c.role] /\ learn_file[c.role].size = 1 /\ learn_file[c.role] # c.baseline
          => learn_directive[d].state # "pending"

LearnIInv == LearnTyped /\ LearnCopies /\ LearnAtRest /\ LearnWritten /\ LearnLooked

-----------------------------------------------------------------------------
LEMMA LearnIdleIs ==
  /\ Learn!Idle = [pc |-> Learn!Idle.pc, left |-> {}, given |-> {}, copy |-> Learn!Idle.copy, since |-> Learn!Idle.since]
  /\ Learn!Idle.left = {} /\ Learn!Idle.given = {} /\ DOMAIN Learn!Idle.copy = {} /\ Learn!Idle.since \in [learn_Roles -> Nat]
  /\ \A r \in learn_Roles : Learn!Idle.since[r] = 0
BY DEF Learn!Idle

LEMMA LearnInitInv ==
  ASSUME Learn!Init PROVE LearnIInv
<1>1. Learn!Absent \in LearnFile /\ Learn!Absent.size = 0
  BY DEF Learn!Absent, LearnFile
<1>2. Learn!Issued = {}
  BY DEF Learn!Init, Learn!Issued
<1>3. learn_directive = [d \in Learn!Issued |-> learn_directive[d]]
  BY <1>2 DEF Learn!Init
<1>4. LearnTyped
  BY <1>1, <1>2, <1>3, LearnIdleIs DEF Learn!Init, LearnTyped
<1>5. LearnCopies /\ LearnLooked
  BY LearnIdleIs DEF Learn!Init, LearnCopies, LearnLooked
<1>6. LearnAtRest /\ LearnWritten
  BY <1>1, <1>2 DEF Learn!Init, LearnAtRest, LearnWritten
<1> QED
  BY <1>4, <1>5, <1>6 DEF LearnIInv

\* A file whose content can be read has one fingerprint.
LEMMA LearnReadable ==
  ASSUME ~learn_Unreadable, NEW r \in learn_Roles PROVE Learn!Fingerprints(r) = {learn_file[r]}
BY DEF Learn!Fingerprints

LEMMA LearnWriteInv ==
  ASSUME LearnIInv, NEW r \in learn_Roles, Learn!Write(r) PROVE LearnIInv'
<1>1. /\ learn_writes' = [learn_writes EXCEPT ![r] = @ + 1]
      /\ UNCHANGED <<learn_directive, learn_saves, learn_scan>>
  BY DEF Learn!Write
<1>2. learn_writes \in [learn_Roles -> Nat] /\ learn_file \in [learn_Roles -> LearnFile]
  BY DEF LearnIInv, LearnTyped
<1>3. learn_writes[r] + 1 \in Nat /\ learn_writes[r] + 1 \in Int /\ learn_writes[r] \in Nat
  BY <1>2
<1>4. learn_file[r] \in LearnFile
  BY <1>2
<1>5. PICK new : /\ learn_file' = [learn_file EXCEPT ![r] = new]
                 /\ new \in {[exists |-> TRUE, size |-> 1, content |-> learn_writes[r] + 1, mtime |-> learn_writes[r] + 1],
                             [exists |-> TRUE, size |-> 0, content |-> 0, mtime |-> learn_writes[r] + 1],
                             [learn_file[r] EXCEPT !.mtime = learn_writes[r] + 1], Learn!Absent}
                 /\ new = Learn!Absent \/ new.exists
  BY DEF Learn!Write
<1>6. new \in LearnFile
  <2>1. [exists |-> TRUE, size |-> 1, content |-> learn_writes[r] + 1, mtime |-> learn_writes[r] + 1] \in LearnFile
    BY <1>3 DEF LearnFile
  <2>2. [exists |-> TRUE, size |-> 0, content |-> 0, mtime |-> learn_writes[r] + 1] \in LearnFile
    BY <1>3 DEF LearnFile
  <2>3. [learn_file[r] EXCEPT !.mtime = learn_writes[r] + 1] \in LearnFile
    BY <1>3, <1>4 DEF LearnFile
  <2>4. Learn!Absent \in LearnFile
    BY DEF Learn!Absent, LearnFile
  <2> QED
    BY <1>5, <2>1, <2>2, <2>3, <2>4
<1>7. new.size = 1 => new.exists
  BY <1>5 DEF Learn!Absent
<1>8. /\ \A q \in learn_Roles : learn_writes'[q] = IF q = r THEN learn_writes[r] + 1 ELSE learn_writes[q]
      /\ \A q \in learn_Roles : learn_file'[q] = IF q = r THEN new ELSE learn_file[q]
      /\ learn_file' \in [learn_Roles -> LearnFile] /\ learn_writes' \in [learn_Roles -> Nat]
  BY <1>1, <1>2, <1>3, <1>5, <1>6
<1>9. \A q \in learn_Roles : learn_writes[q] \in Nat /\ learn_writes[q] <= learn_writes'[q] /\ (q = r => learn_writes[q] < learn_writes'[q])
  BY <1>2, <1>8
<1>10. Learn!Issued' = Learn!Issued
  BY <1>1 DEF Learn!Issued
<1>11. LearnTyped'
  BY <1>1, <1>8, <1>10 DEF LearnIInv, LearnTyped
<1>12. \A t \in Learn!Thread : learn_scan[t].since \in [learn_Roles -> Nat]
  BY DEF LearnIInv, LearnTyped
<1>13. \A t \in Learn!Thread, q \in learn_Roles :
         learn_scan[t].since[q] <= learn_writes[q] /\ learn_scan[t].since[q] \in Nat /\ learn_writes[q] \in Nat
  BY <1>2, <1>12 DEF LearnIInv, LearnCopies
<1>14. \A t \in Learn!Thread, q \in learn_Roles :
         learn_scan[t].since[q] <= learn_writes'[q] /\ (q = r => learn_scan[t].since[q] # learn_writes'[q])
  BY <1>3, <1>8, <1>13
<1>15. LearnCopies'
  BY <1>1, <1>10, <1>14 DEF LearnIInv, LearnCopies, LearnSame
<1>16. \A d \in Learn!Issued : learn_directive[d].role \in learn_Roles /\ learn_directive[d].written \in Nat
  BY DEF LearnIInv, LearnTyped, LearnRow
<1>17. \A d \in Learn!Issued : /\ learn_directive[d].written <= learn_writes'[learn_directive[d].role]
                               /\ learn_directive[d].role = r => learn_directive[d].written # learn_writes'[learn_directive[d].role]
  <2> SUFFICES ASSUME NEW d \in Learn!Issued
               PROVE  /\ learn_directive[d].written <= learn_writes'[learn_directive[d].role]
                      /\ learn_directive[d].role = r => learn_directive[d].written # learn_writes'[learn_directive[d].role]
    OBVIOUS
  <2>1. learn_directive[d].written <= learn_writes[learn_directive[d].role]
    BY DEF LearnIInv, LearnAtRest
  <2> QED
    BY <1>3, <1>8, <1>9, <1>16, <2>1
<1>18. LearnAtRest'
  BY <1>1, <1>7, <1>8, <1>10, <1>16, <1>17 DEF LearnIInv, LearnAtRest
<1>19. LearnWritten'
  <2> SUFFICES ASSUME NEW d \in Learn!Issued, learn_directive[d].state # "pending"
               PROVE  learn_writes'[learn_directive[d].role] > learn_directive[d].written
    BY <1>1, <1>10 DEF LearnWritten
  <2>1. learn_writes[learn_directive[d].role] > learn_directive[d].written
    BY DEF LearnIInv, LearnWritten
  <2> QED
    BY <1>3, <1>8, <1>9, <1>16, <2>1
<1>20. LearnLooked'
  <2> SUFFICES ASSUME NEW t \in Learn!Thread, NEW d \in learn_scan[t].given \ learn_scan[t].left,
                      learn_scan[t].since[learn_scan[t].copy[d].role] = learn_writes'[learn_scan[t].copy[d].role],
                      learn_file'[learn_scan[t].copy[d].role].size = 1,
                      learn_file'[learn_scan[t].copy[d].role] # learn_scan[t].copy[d].baseline
               PROVE  learn_directive[d].state # "pending"
    BY <1>1 DEF LearnLooked
  <2>1. learn_scan[t].copy[d].role \in learn_Roles
    BY DEF LearnIInv, LearnCopies, LearnRow
  <2>2. learn_scan[t].copy[d].role # r
    BY <1>14, <2>1
  <2>3. /\ learn_file'[learn_scan[t].copy[d].role] = learn_file[learn_scan[t].copy[d].role]
        /\ learn_writes'[learn_scan[t].copy[d].role] = learn_writes[learn_scan[t].copy[d].role]
    BY <1>8, <2>1, <2>2
  <2> QED
    BY <2>3 DEF LearnIInv, LearnLooked
<1> QED
  BY <1>11, <1>15, <1>18, <1>19, <1>20 DEF LearnIInv

LEMMA LearnIssueInv ==
  ASSUME ~learn_Unreadable, LearnIInv, NEW r \in learn_Roles, Learn!Issue(r) PROVE LearnIInv'
<1> DEFINE new == Cardinality(Learn!Issued) + 1
           row == [role |-> r, baseline |-> learn_file[r], state |-> "pending", saved |-> learn_saves + 1,
                   written |-> learn_writes[r]]
<1>1. /\ learn_directive' = [d \in Learn!Issued \cup {new} |-> IF d \in Learn!Issued THEN learn_directive[d] ELSE row]
      /\ learn_saves' = learn_saves + 1
      /\ UNCHANGED <<learn_file, learn_scan, learn_writes>>
  BY LearnReadable, LearnCounting DEF Learn!Issue
<1>2. /\ learn_saves \in Nat /\ learn_file \in [learn_Roles -> LearnFile] /\ learn_writes \in [learn_Roles -> Nat]
      /\ \A d \in Learn!Issued : learn_directive[d] \in LearnRow /\ learn_directive[d].saved <= learn_saves
  BY DEF LearnIInv, LearnTyped
<1>3. row \in LearnRow /\ row.saved = learn_saves'
  BY <1>1, <1>2 DEF LearnRow, Learn!State
<1>4. row.role = r /\ row.baseline = learn_file[r] /\ row.state = "pending" /\ row.written = learn_writes[r]
  OBVIOUS
<1> HIDE DEF row, new
<1>5. /\ Learn!Issued' = Learn!Issued \cup {new}
      /\ \A d \in Learn!Issued : learn_directive'[d] = learn_directive[d]
      /\ \A d \in Learn!Issued' : d \notin Learn!Issued => learn_directive'[d] = row
  BY <1>1 DEF Learn!Issued
<1>6. learn_directive' = [d \in Learn!Issued' |-> learn_directive'[d]]
  BY <1>1, <1>5
<1>7. \A d \in Learn!Issued : learn_directive[d].saved \in Nat
  BY <1>2 DEF LearnRow
<1>8. \A d \in Learn!Issued' : learn_directive'[d] \in LearnRow /\ learn_directive'[d].saved <= learn_saves'
  BY <1>1, <1>2, <1>3, <1>5, <1>7
<1>9. LearnTyped'
  <2>1. learn_saves' \in Nat
    BY <1>1, <1>2
  <2>2. \A t \in Learn!Thread :
          /\ learn_scan[t] = [pc |-> learn_scan[t].pc, left |-> learn_scan[t].left, given |-> learn_scan[t].given,
                              copy |-> learn_scan[t].copy, since |-> learn_scan[t].since]
          /\ learn_scan[t].since \in [learn_Roles -> Nat]
    BY DEF LearnIInv, LearnTyped
  <2>3. learn_scan = [t \in Learn!Thread |-> learn_scan[t]]
    BY DEF LearnIInv, LearnTyped
  <2> QED
    BY <1>1, <1>2, <1>6, <1>8, <2>1, <2>2, <2>3 DEF LearnTyped
<1>10. \A t \in Learn!Thread : \A d \in DOMAIN learn_scan[t].copy : learn_scan[t].copy[d].saved \in Nat
  BY DEF LearnIInv, LearnCopies, LearnRow
<1>11. LearnCopies'
  <2> SUFFICES ASSUME NEW t \in Learn!Thread
               PROVE  /\ learn_scan[t].left \subseteq learn_scan[t].given /\ learn_scan[t].given \subseteq DOMAIN learn_scan[t].copy
                      /\ DOMAIN learn_scan[t].copy \subseteq Learn!Issued'
                      /\ \A d \in DOMAIN learn_scan[t].copy :
                           /\ learn_scan[t].copy[d] \in LearnRow /\ learn_scan[t].copy[d].saved <= learn_saves'
                           /\ LearnSame(learn_scan[t].copy[d], learn_directive'[d])
                      /\ \A q \in learn_Roles : learn_scan[t].since[q] <= learn_writes[q]
    BY <1>1 DEF LearnCopies, LearnSame
  <2>1. ASSUME NEW d \in DOMAIN learn_scan[t].copy
        PROVE  /\ learn_scan[t].copy[d] \in LearnRow /\ learn_scan[t].copy[d].saved <= learn_saves'
               /\ LearnSame(learn_scan[t].copy[d], learn_directive'[d])
    <3>1. /\ d \in Learn!Issued /\ learn_scan[t].copy[d] \in LearnRow /\ learn_scan[t].copy[d].saved <= learn_saves
          /\ LearnSame(learn_scan[t].copy[d], learn_directive[d])
      BY DEF LearnIInv, LearnCopies
    <3> QED
      BY <1>1, <1>2, <1>5, <1>10, <3>1
  <2> QED
    BY <1>5, <2>1 DEF LearnIInv, LearnCopies
<1>12. learn_writes[r] <= learn_writes[r]
  BY <1>2
<1>13. LearnAtRest'
  BY <1>1, <1>4, <1>5, <1>12 DEF LearnIInv, LearnAtRest
<1>14. LearnWritten'
  BY <1>1, <1>4, <1>5 DEF LearnIInv, LearnWritten
<1>15. \A t \in Learn!Thread : learn_scan[t].given \subseteq Learn!Issued
  BY DEF LearnIInv, LearnCopies
<1>16. LearnLooked'
  BY <1>1, <1>5, <1>15 DEF LearnIInv, LearnLooked
<1> QED
  BY <1>9, <1>11, <1>13, <1>14, <1>16 DEF LearnIInv

LEMMA LearnScanStartInv ==
  ASSUME LearnIInv, NEW t \in Learn!Thread, Learn!ScanStart(t) PROVE LearnIInv'
<1> DEFINE found == Learn!Pending(Learn!Recent(learn_ScanLimit))
           begun == [pc |-> "scan", left |-> found, given |-> found, copy |-> learn_directive, since |-> learn_writes]
<1>1. /\ learn_scan' = [learn_scan EXCEPT ![t] = begun]
      /\ UNCHANGED <<learn_file, learn_directive, learn_saves, learn_writes>>
  BY DEF Learn!ScanStart
<1>2. found \subseteq Learn!Issued
  BY DEF Learn!Pending, Learn!Recent
<1> HIDE DEF found
<1>3. /\ begun = [pc |-> begun.pc, left |-> begun.left, given |-> begun.given,
                  copy |-> begun.copy, since |-> begun.since]
      /\ begun.left = found /\ begun.given = found /\ begun.copy = learn_directive /\ begun.since = learn_writes
  OBVIOUS
<1> HIDE DEF begun
<1>4. /\ \A u \in Learn!Thread : learn_scan'[u] = IF u = t THEN begun ELSE learn_scan[u]
      /\ learn_scan' = [u \in Learn!Thread |-> learn_scan'[u]]
      /\ Learn!Issued' = Learn!Issued
  BY <1>1 DEF LearnIInv, LearnTyped, Learn!Issued
<1>5. learn_writes \in [learn_Roles -> Nat]
  BY DEF LearnIInv, LearnTyped
<1>6. LearnTyped'
  BY <1>1, <1>3, <1>4, <1>5 DEF LearnIInv, LearnTyped
<1>7. LearnCopies'
  <2>1. DOMAIN learn_directive = Learn!Issued /\ \A r \in learn_Roles : learn_writes[r] <= learn_writes[r]
    BY <1>5 DEF Learn!Issued
  <2>2. \A d \in Learn!Issued : learn_directive[d] \in LearnRow /\ learn_directive[d].saved <= learn_saves
    BY DEF LearnIInv, LearnTyped
  <2> QED
    BY <1>1, <1>2, <1>3, <1>4, <2>1, <2>2 DEF LearnIInv, LearnCopies, LearnSame
<1>8. LearnAtRest' /\ LearnWritten'
  BY <1>1, <1>4 DEF LearnIInv, LearnAtRest, LearnWritten
<1>9. LearnLooked'
  <2>1. \A u \in Learn!Thread : learn_scan'[u] = learn_scan[u] \/ learn_scan'[u].given \ learn_scan'[u].left = {}
    BY <1>3, <1>4
  <2> SUFFICES ASSUME NEW u \in Learn!Thread, NEW d \in learn_scan'[u].given \ learn_scan'[u].left,
                      LET c == learn_scan'[u].copy[d]
                      IN  learn_scan'[u].since[c.role] = learn_writes[c.role] /\ learn_file[c.role].size = 1
                          /\ learn_file[c.role] # c.baseline
               PROVE  learn_directive[d].state # "pending"
    BY <1>1 DEF LearnLooked
  <2>2. learn_scan'[u] = learn_scan[u]
    BY <2>1
  <2> QED
    BY <2>2 DEF LearnIInv, LearnLooked
<1> QED
  BY <1>6, <1>7, <1>8, <1>9 DEF LearnIInv

LEMMA LearnScanEndInv ==
  ASSUME LearnIInv, NEW t \in Learn!Thread, Learn!ScanEnd(t) PROVE LearnIInv'
<1>1. /\ learn_scan' = [learn_scan EXCEPT ![t] = Learn!Idle]
      /\ UNCHANGED <<learn_file, learn_directive, learn_saves, learn_writes>>
  BY DEF Learn!ScanEnd
<1>2. /\ \A u \in Learn!Thread : learn_scan'[u] = IF u = t THEN Learn!Idle ELSE learn_scan[u]
      /\ learn_scan' = [u \in Learn!Thread |-> learn_scan'[u]]
      /\ Learn!Issued' = Learn!Issued
  BY <1>1 DEF LearnIInv, LearnTyped, Learn!Issued
<1>3. learn_writes \in [learn_Roles -> Nat]
  BY DEF LearnIInv, LearnTyped
<1>4. LearnTyped'
  BY <1>1, <1>2, LearnIdleIs DEF LearnIInv, LearnTyped
<1>5. \A r \in learn_Roles : Learn!Idle.since[r] <= learn_writes[r]
  BY <1>3, LearnIdleIs
<1>6. LearnCopies'
  BY <1>1, <1>2, <1>5, LearnIdleIs DEF LearnIInv, LearnCopies, LearnSame
<1>7. LearnAtRest' /\ LearnWritten'
  BY <1>1, <1>2 DEF LearnIInv, LearnAtRest, LearnWritten
<1>8. LearnLooked'
  <2>1. \A u \in Learn!Thread : learn_scan'[u] = learn_scan[u] \/ learn_scan'[u].given \ learn_scan'[u].left = {}
    BY <1>2, LearnIdleIs
  <2> SUFFICES ASSUME NEW u \in Learn!Thread, NEW d \in learn_scan'[u].given \ learn_scan'[u].left,
                      LET c == learn_scan'[u].copy[d]
                      IN  learn_scan'[u].since[c.role] = learn_writes[c.role] /\ learn_file[c.role].size = 1
                          /\ learn_file[c.role] # c.baseline
               PROVE  learn_directive[d].state # "pending"
    BY <1>1 DEF LearnLooked
  <2>2. learn_scan'[u] = learn_scan[u]
    BY <2>1
  <2> QED
    BY <2>2 DEF LearnIInv, LearnLooked
<1> QED
  BY <1>4, <1>6, <1>7, <1>8 DEF LearnIInv

\* The newest of what is left is one of it.
LEMMA LearnNewestLeft ==
  ASSUME LearnIInv, NEW t \in Learn!Thread, learn_scan[t].left # {}
  PROVE  \E e \in learn_scan[t].left : \A o \in learn_scan[t].left : learn_scan[t].copy[o].saved <= learn_scan[t].copy[e].saved
<1> DEFINE ages == {learn_saves - learn_scan[t].copy[e].saved : e \in learn_scan[t].left}
<1>1. learn_saves \in Nat
  BY DEF LearnIInv, LearnTyped
<1>2. learn_scan[t].left \subseteq DOMAIN learn_scan[t].copy
  BY DEF LearnIInv, LearnCopies
<1>3. \A e \in learn_scan[t].left : learn_scan[t].copy[e].saved \in Nat /\ learn_scan[t].copy[e].saved <= learn_saves
  BY <1>2 DEF LearnIInv, LearnCopies, LearnRow
<1>4. ages \in SUBSET Nat /\ ages # {}
  <2>1. \A m, n \in Nat : m <= n => n - m \in Nat
    OBVIOUS
  <2> QED
    BY <1>1, <1>3, <2>1
<1>5. PICK x \in ages : \A y \in ages : x <= y
  BY <1>4, Least
<1>6. PICK e \in learn_scan[t].left : x = learn_saves - learn_scan[t].copy[e].saved
  BY <1>5
<1>7. ASSUME NEW o \in learn_scan[t].left PROVE learn_scan[t].copy[o].saved <= learn_scan[t].copy[e].saved
  <2>1. x <= learn_saves - learn_scan[t].copy[o].saved
    BY <1>5
  <2> QED
    BY <1>1, <1>3, <1>6, <2>1
<1> QED
  BY <1>7

LEMMA LearnLookInv ==
  ASSUME ~learn_Unreadable, LearnIInv, NEW t \in Learn!Thread, Learn!Look(t) PROVE LearnIInv'
<1> DEFINE d == CHOOSE e \in learn_scan[t].left : \A o \in learn_scan[t].left : learn_scan[t].copy[o].saved <= learn_scan[t].copy[e].saved
           c == learn_scan[t].copy[d]
           now == learn_file[c.role]
           looked == [pc |-> learn_scan[t].pc, left |-> learn_scan[t].left \ {d}, given |-> learn_scan[t].given,
                      copy |-> learn_scan[t].copy, since |-> learn_scan[t].since]
<1>1. d \in learn_scan[t].left
  BY LearnNewestLeft DEF Learn!Look
<1> HIDE DEF d
<1>2. /\ d \in Learn!Issued /\ d \in DOMAIN learn_scan[t].copy /\ c \in LearnRow /\ c.saved <= learn_saves
      /\ LearnSame(c, learn_directive[d])
  BY <1>1 DEF LearnIInv, LearnCopies
<1>3. c.role \in learn_Roles /\ c.baseline \in LearnFile /\ c.written \in Nat
  BY <1>2 DEF LearnRow
<1>4. /\ learn_scan' = [learn_scan EXCEPT ![t].left = @ \ {d}]
      /\ \E seen \in Learn!Fingerprints(c.role) :
           \/ Learn!Changed(c.baseline, seen) /\ Learn!Save(d, [c EXCEPT !.state = "completed"])
           \/ ~Learn!Changed(c.baseline, seen) /\ Learn!Stale(c.baseline, seen) /\ Learn!Save(d, [c EXCEPT !.state = "stale"])
           \/ ~Learn!Changed(c.baseline, seen) /\ ~Learn!Stale(c.baseline, seen) /\ UNCHANGED <<learn_directive,
                                                                                                learn_saves>>
      /\ UNCHANGED <<learn_file, learn_writes>>
  BY DEF Learn!Look, d
<1>5. \/ Learn!Changed(c.baseline, now) /\ Learn!Save(d, [c EXCEPT !.state = "completed"])
      \/ ~Learn!Changed(c.baseline, now) /\ Learn!Stale(c.baseline, now) /\ Learn!Save(d, [c EXCEPT !.state = "stale"])
      \/ ~Learn!Changed(c.baseline, now) /\ ~Learn!Stale(c.baseline, now) /\ UNCHANGED <<learn_directive,
                                                                                         learn_saves>>
  BY <1>3, <1>4, LearnReadable
<1>6. learn_scan' = [learn_scan EXCEPT ![t] = looked]
  <2>1. learn_scan[t] = [pc |-> learn_scan[t].pc, left |-> learn_scan[t].left, given |-> learn_scan[t].given,
                         copy |-> learn_scan[t].copy, since |-> learn_scan[t].since]
    BY DEF LearnIInv, LearnTyped
  <2>2. [learn_scan[t] EXCEPT !.left = @ \ {d}] = looked
    BY <2>1
  <2> QED
    BY <1>4, <2>2
<1>7. /\ looked = [pc |-> looked.pc, left |-> looked.left, given |-> looked.given,
                  copy |-> looked.copy, since |-> looked.since]
      /\ looked.left = learn_scan[t].left \ {d} /\ looked.given = learn_scan[t].given
      /\ looked.copy = learn_scan[t].copy /\ looked.since = learn_scan[t].since
  OBVIOUS
<1>8. learn_saves \in Nat /\ learn_file \in [learn_Roles -> LearnFile] /\ learn_writes \in [learn_Roles -> Nat]
  BY DEF LearnIInv, LearnTyped
<1>9. now \in LearnFile
  BY <1>3, <1>8
<1> HIDE DEF looked, c, now
<1>10. /\ \A u \in Learn!Thread : learn_scan'[u] = IF u = t THEN looked ELSE learn_scan[u]
       /\ learn_scan' = [u \in Learn!Thread |-> learn_scan'[u]]
  BY <1>6 DEF LearnIInv, LearnTyped
\* The file was written if it changed or was lost.
<1>11. Learn!Changed(c.baseline, now) \/ Learn!Stale(c.baseline, now) => learn_writes[c.role] > c.written
  <2>1. SUFFICES ASSUME c.written = learn_writes[c.role]
                 PROVE  ~Learn!Changed(c.baseline, now) /\ ~Learn!Stale(c.baseline, now)
    <3>1. c.written <= learn_writes[c.role] /\ learn_writes[c.role] \in Nat
      BY <1>2, <1>3, <1>8 DEF LearnIInv, LearnAtRest, LearnSame
    <3> QED
      BY <1>3, <2>1, <3>1
  <2>2. c.baseline = now
    BY <1>2, <2>1 DEF LearnIInv, LearnAtRest, LearnSame, now
  <2> QED
    BY <1>9, <2>2 DEF Learn!Changed, Learn!Stale, LearnFile
\* The row that is there afterwards.
<1>12. PICK row : /\ LearnSame(row, c) /\ row \in LearnRow /\ row.saved <= learn_saves'
                  /\ row.state # "pending" => learn_writes[c.role] > c.written \/ row = learn_directive[d]
                  /\ Learn!Changed(c.baseline, now) => row.state # "pending"
                  /\ row.state = "pending" => row = learn_directive[d]
                  /\ learn_directive' = [learn_directive EXCEPT ![d] = row]
                  /\ learn_saves' \in Nat /\ learn_saves <= learn_saves'
  <2>1. ASSUME NEW state \in {"completed", "stale"}, Learn!Save(d, [c EXCEPT !.state = state]),
               learn_writes[c.role] > c.written
        PROVE  \E row : /\ LearnSame(row, c) /\ row \in LearnRow /\ row.saved <= learn_saves'
                        /\ row.state # "pending" /\ learn_directive' = [learn_directive EXCEPT ![d] = row]
                        /\ learn_saves' \in Nat /\ learn_saves <= learn_saves'
    <3> DEFINE row == [role |-> c.role, baseline |-> c.baseline, state |-> state,
                       saved |-> learn_saves + 1, written |-> c.written]
    <3>1. c = [role |-> c.role, baseline |-> c.baseline, state |-> c.state, saved |-> c.saved,
               written |-> c.written]
      BY <1>2 DEF LearnRow
    <3>2. [[c EXCEPT !.state = state] EXCEPT !.saved = learn_saves + 1] = row
      <4>1. [c EXCEPT !.state = state] =
              [role |-> c.role, baseline |-> c.baseline, state |-> state, saved |-> c.saved,
               written |-> c.written]
        BY <3>1
      <4>2. [[role |-> c.role, baseline |-> c.baseline, state |-> state, saved |-> c.saved,
              written |-> c.written] EXCEPT !.saved = learn_saves + 1] = row
        OBVIOUS
      <4> QED
        BY <4>1, <4>2, Zenon
    <3>3. learn_directive' = [learn_directive EXCEPT ![d] = row] /\ learn_saves' = learn_saves + 1
      BY <2>1, <3>2 DEF Learn!Save
    <3>4. row \in LearnRow
      BY <1>3, <1>8 DEF LearnRow, Learn!State
    <3>5. LearnSame(row, c) /\ row.saved = learn_saves + 1 /\ row.state # "pending"
      BY DEF LearnSame
    <3>6. learn_saves' \in Nat /\ learn_saves <= learn_saves' /\ learn_saves + 1 <= learn_saves'
      BY <1>8, <3>3
    <3> QED
      BY <3>3, <3>4, <3>5, <3>6
  <2>2. CASE Learn!Changed(c.baseline, now) /\ Learn!Save(d, [c EXCEPT !.state = "completed"])
    BY <1>11, <2>1, <2>2
  <2>3. CASE ~Learn!Changed(c.baseline, now) /\ Learn!Stale(c.baseline, now) /\ Learn!Save(d, [c EXCEPT !.state = "stale"])
    BY <1>11, <2>1, <2>3
  <2>4. CASE ~Learn!Changed(c.baseline, now) /\ UNCHANGED <<learn_directive, learn_saves>>
    <3>1. learn_directive' = [learn_directive EXCEPT ![d] = learn_directive[d]]
      BY <1>2, <2>4 DEF LearnIInv, LearnTyped
    <3>2. LearnSame(learn_directive[d], c) /\ learn_directive[d] \in LearnRow /\ learn_directive[d].saved <= learn_saves /\ learn_saves <= learn_saves
      BY <1>2, <1>8 DEF LearnIInv, LearnTyped, LearnSame
    <3> QED
      BY <1>8, <2>4, <3>1, <3>2
  <2> QED
    BY <1>5, <2>2, <2>3, <2>4
<1>13. /\ Learn!Issued' = Learn!Issued
       /\ \A e \in Learn!Issued : learn_directive'[e] = IF e = d THEN row ELSE learn_directive[e]
       /\ learn_directive' = [e \in Learn!Issued' |-> learn_directive'[e]]
  BY <1>12 DEF LearnIInv, LearnTyped, Learn!Issued
<1>14. LearnSame(row, learn_directive[d])
  BY <1>2, <1>12 DEF LearnSame
<1>15. LearnTyped'
  <2>1. \A e \in Learn!Issued : learn_directive[e].saved \in Nat /\ learn_directive[e].saved <= learn_saves
    BY DEF LearnIInv, LearnTyped, LearnRow
  <2>2. \A e \in Learn!Issued : learn_directive'[e] \in LearnRow /\ learn_directive'[e].saved <= learn_saves'
    BY <1>8, <1>12, <1>13, <2>1 DEF LearnIInv, LearnTyped
  <2>3. \A u \in Learn!Thread : /\ learn_scan'[u] = [pc |-> learn_scan'[u].pc, left |-> learn_scan'[u].left, given |-> learn_scan'[u].given,
                                                     copy |-> learn_scan'[u].copy, since |-> learn_scan'[u].since]
                                /\ learn_scan'[u].since \in [learn_Roles -> Nat]
    BY <1>7, <1>10 DEF LearnIInv, LearnTyped
  <2> QED
    BY <1>4, <1>8, <1>10, <1>12, <1>13, <2>2, <2>3 DEF LearnTyped
<1>16. \A u \in Learn!Thread : /\ learn_scan'[u].given = learn_scan[u].given /\ learn_scan'[u].copy = learn_scan[u].copy
                               /\ learn_scan'[u].since = learn_scan[u].since /\ learn_scan'[u].left \subseteq learn_scan[u].left
  BY <1>7, <1>10
<1>17. LearnCopies'
  <2> SUFFICES ASSUME NEW u \in Learn!Thread
               PROVE  /\ learn_scan'[u].left \subseteq learn_scan[u].given /\ learn_scan[u].given \subseteq DOMAIN learn_scan[u].copy
                      /\ DOMAIN learn_scan[u].copy \subseteq Learn!Issued
                      /\ \A e \in DOMAIN learn_scan[u].copy :
                           /\ learn_scan[u].copy[e] \in LearnRow /\ learn_scan[u].copy[e].saved <= learn_saves'
                           /\ LearnSame(learn_scan[u].copy[e], learn_directive'[e])
                      /\ \A r \in learn_Roles : learn_scan[u].since[r] <= learn_writes[r]
    BY <1>4, <1>13, <1>16 DEF LearnCopies, LearnSame
  <2>1. ASSUME NEW e \in DOMAIN learn_scan[u].copy
        PROVE  /\ learn_scan[u].copy[e] \in LearnRow /\ learn_scan[u].copy[e].saved <= learn_saves'
               /\ LearnSame(learn_scan[u].copy[e], learn_directive'[e])
    <3>1. /\ e \in Learn!Issued /\ learn_scan[u].copy[e] \in LearnRow /\ learn_scan[u].copy[e].saved <= learn_saves
          /\ LearnSame(learn_scan[u].copy[e], learn_directive[e])
      BY DEF LearnIInv, LearnCopies
    <3>2. learn_scan[u].copy[e].saved \in Nat
      BY <3>1 DEF LearnRow
    <3>3. LearnSame(learn_scan[u].copy[e], learn_directive'[e])
      BY <1>13, <1>14, <3>1 DEF LearnSame
    <3> QED
      BY <1>8, <1>12, <3>1, <3>2, <3>3
  <2> QED
    BY <1>16, <2>1 DEF LearnIInv, LearnCopies
<1>18. LearnAtRest'
  BY <1>4, <1>13, <1>14 DEF LearnIInv, LearnAtRest, LearnSame
<1>19. LearnWritten'
  BY <1>2, <1>4, <1>12, <1>13, <1>14 DEF LearnIInv, LearnWritten, LearnSame
<1>20. LearnLooked'
  <2> SUFFICES ASSUME NEW u \in Learn!Thread, NEW e \in learn_scan'[u].given \ learn_scan'[u].left,
                      learn_scan'[u].since[learn_scan'[u].copy[e].role] = learn_writes[learn_scan'[u].copy[e].role],
                      learn_file[learn_scan'[u].copy[e].role].size = 1,
                      learn_file[learn_scan'[u].copy[e].role] # learn_scan'[u].copy[e].baseline
               PROVE  learn_directive'[e].state # "pending"
    BY <1>4 DEF LearnLooked
  <2>1. e \in Learn!Issued /\ LearnSame(learn_scan[u].copy[e], learn_directive[e])
    BY <1>16 DEF LearnIInv, LearnCopies
  <2>2. CASE e \in learn_scan[u].given \ learn_scan[u].left
    <3>1. learn_directive[e].state # "pending"
      BY <1>16, <2>2 DEF LearnIInv, LearnLooked
    <3> QED
      BY <1>12, <1>13, <2>1, <3>1
  <2>3. CASE e \in learn_scan[u].left
    <3>1. u = t /\ e = d
      BY <1>7, <1>10, <2>3
    <3>2. now.size = 1 /\ now.exists /\ now # c.baseline
      BY <1>2, <1>3, <1>16, <2>1, <3>1 DEF LearnIInv, LearnAtRest, LearnSame, now, c
    <3>3. Learn!Changed(c.baseline, now)
      BY <3>2 DEF Learn!Changed
    <3> QED
      BY <1>12, <1>13, <2>1, <3>1, <3>3
  <2> QED
    BY <1>16, <2>2, <2>3
<1> QED
  BY <1>15, <1>17, <1>18, <1>19, <1>20 DEF LearnIInv

LEMMA LearnStepInv ==
  ASSUME ~learn_Unreadable, LearnIInv, [Learn!Next]_(Learn!vars) PROVE LearnIInv'
<1>1. CASE Learn!Next
  <2>1. ASSUME NEW r \in learn_Roles, Learn!Write(r) \/ Learn!Issue(r) PROVE LearnIInv'
    BY <2>1, LearnWriteInv, LearnIssueInv
  <2>2. ASSUME NEW t \in Learn!Thread, Learn!ScanStart(t) \/ Learn!Look(t) \/ Learn!ScanEnd(t) PROVE LearnIInv'
    BY <2>2, LearnScanStartInv, LearnLookInv, LearnScanEndInv
  <2> QED
    BY <1>1, <2>1, <2>2 DEF Learn!Next
<1>2. CASE UNCHANGED Learn!vars
  BY <1>2 DEF Learn!vars, LearnIInv, LearnTyped, LearnCopies, LearnAtRest, LearnWritten,
      LearnLooked, LearnSame, Learn!Issued
<1> QED
  BY <1>1, <1>2

LEMMA LearnInvWritten ==
  LearnIInv => Learn!CompletedWasWritten
BY DEF LearnIInv, LearnWritten, LearnLooked, Learn!CompletedWasWritten

\* Only its own steps touch Learning's variables.
LEMMA LearnSteps == [Next]_vars => [Learn!Next]_(Learn!vars)
BY DEF Next, vars, wakeVars, priceVars, claimVars, alertVars, retainVars, learnVars, notifyVars,
    deskVars, Learn!vars

-----------------------------------------------------------------------------
\* MacroDesk.

DeskInput == [pc : {"new", "pulled", "rows", "used"}, left : SUBSET desk_Items, of : Nat]
DeskBrief == [prior : Nat, verdict : {"validated", "falsified"}, by : desk_ChiefInputs]

DeskTyped ==
  /\ desk_bridge \in [recent : BOOLEAN, brief : Nat, confidence : {"ok", "low"}]
  /\ desk_mea \in [desk_MeaInputs -> DeskInput]
  /\ desk_submissions \in Seq(SUBSET desk_Items)
  /\ desk_briefs \in Seq(DeskBrief)
  /\ desk_chief \in [desk_ChiefInputs -> [pc : {"new", "pulled", "stored", "used"}, prior : Nat]]

\* An event's row is of a submission that names it, and has the event's own id.
DeskRowsOf ==
  \A r \in desk_rows : /\ r = [id |-> Desk!RowId(r.event, r.of), event |-> r.event, of |-> r.of]
                       /\ r.of \in DOMAIN desk_submissions /\ r.event \in desk_submissions[r.of]

DeskOneRow == \A r, q \in desk_rows : q.event = r.event => q = r

\* Of the events of a submission in progress those that are not left have a row.
DeskProgress ==
  \A i \in desk_MeaInputs :
    desk_mea[i].pc \in {"rows", "used"} =>
      /\ desk_mea[i].of \in DOMAIN desk_submissions
      /\ desk_mea[i].left \subseteq desk_submissions[desk_mea[i].of]
      /\ \A e \in desk_submissions[desk_mea[i].of] \ desk_mea[i].left : \E r \in desk_rows : r.event = e
      /\ desk_mea[i].pc = "used" => desk_mea[i].left = {}

\* What PM is told of the chief was so.
DeskDoubt ==
  /\ desk_bridge.brief <= Len(desk_briefs)
  /\ desk_bridge.confidence = "low" =>
       /\ desk_bridge.brief >= desk_FalsifiedInRow
       /\ \A k \in desk_bridge.brief - desk_FalsifiedInRow + 1 .. desk_bridge.brief : desk_briefs[k].verdict = "falsified"

DeskIInv == DeskTyped /\ DeskRowsOf /\ DeskOneRow /\ DeskProgress /\ DeskDoubt

-----------------------------------------------------------------------------
LEMMA DeskInitInv ==
  ASSUME Desk!Init PROVE DeskIInv
<1>1. Desk!NewInput \in DeskInput /\ Desk!NewInput.pc = "new"
  BY DEF Desk!NewInput, DeskInput
<1>2. Desk!NoBridge \in [recent : BOOLEAN, brief : Nat, confidence : {"ok", "low"}]
      /\ Desk!NoBridge.brief = 0 /\ Desk!NoBridge.confidence = "ok"
  BY DEF Desk!NoBridge
<1>3. DeskTyped
  BY <1>1, <1>2 DEF Desk!Init, DeskTyped
<1>4. DeskRowsOf /\ DeskOneRow /\ DeskProgress /\ DeskDoubt
  BY <1>1, <1>2 DEF Desk!Init, DeskRowsOf, DeskOneRow, DeskProgress, DeskDoubt
<1> QED
  BY <1>3, <1>4 DEF DeskIInv

\* The newest state of the bridge.
LEMMA DeskStateNowIs ==
  ASSUME DeskIInv
  PROVE  /\ Desk!StateNow \in [recent : BOOLEAN, brief : Nat, confidence : {"ok", "low"}]
         /\ Desk!StateNow.brief = Len(desk_briefs)
         /\ Desk!StateNow.confidence = "low" =>
              /\ Desk!StateNow.brief >= desk_FalsifiedInRow
              /\ \A k \in Desk!StateNow.brief - desk_FalsifiedInRow + 1 .. Desk!StateNow.brief :
                   desk_briefs[k].verdict = "falsified"
<1>1. Len(desk_briefs) \in Nat /\ DOMAIN desk_briefs = 1 .. Len(desk_briefs) /\ desk_FalsifiedInRow \in Nat
  BY DeskAssumption DEF DeskIInv, DeskTyped
<1>2. /\ Desk!StateNow.brief = Len(desk_briefs) /\ Desk!StateNow.confidence = Desk!Confidence
      /\ Desk!Confidence \in {"ok", "low"}
      /\ Desk!StateNow \in [recent : BOOLEAN, brief : Nat, confidence : {"ok", "low"}]
  BY <1>1 DEF Desk!StateNow, Desk!Newest, Desk!Confidence
<1>3. ASSUME Desk!Confidence = "low", NEW k \in Len(desk_briefs) - desk_FalsifiedInRow + 1 .. Len(desk_briefs)
      PROVE  desk_briefs[k].verdict = "falsified" /\ Len(desk_briefs) >= desk_FalsifiedInRow
  <2>1. Len(desk_briefs) >= desk_FalsifiedInRow /\ Desk!Verdicts = {"falsified"}
    BY <1>3 DEF Desk!Confidence, Desk!Newest
  <2>2. k \in DOMAIN desk_briefs /\ k > Len(desk_briefs) - desk_FalsifiedInRow
    BY <1>1, <2>1
  <2>3. desk_briefs[k].verdict \in Desk!Verdicts
    BY <2>2 DEF Desk!Verdicts, Desk!Newest
  <2> QED
    BY <2>1, <2>3
<1>4. Desk!Confidence = "low" => Len(desk_briefs) >= desk_FalsifiedInRow
  BY DEF Desk!Confidence, Desk!Newest
<1> QED
  BY <1>2, <1>3, <1>4

\* The bridge is refreshed or stays as it was, but for its age.
LEMMA DeskBridgeInv ==
  ASSUME DeskIInv, UNCHANGED <<desk_submissions, desk_rows, desk_briefs, desk_chief>>,
         desk_bridge' \in {desk_bridge, Desk!StateNow, [desk_bridge EXCEPT !.recent = FALSE]},
         desk_mea' = desk_mea \/ \E i \in desk_MeaInputs : desk_mea[i].pc = "new" /\ desk_mea' = [desk_mea EXCEPT ![i].pc = "pulled"]
  PROVE  DeskIInv'
<1>1. /\ desk_bridge' \in [recent : BOOLEAN, brief : Nat, confidence : {"ok", "low"}]
      /\ desk_bridge'.brief <= Len(desk_briefs)
      /\ desk_bridge'.confidence = "low" =>
           /\ desk_bridge'.brief >= desk_FalsifiedInRow
           /\ \A k \in desk_bridge'.brief - desk_FalsifiedInRow + 1 .. desk_bridge'.brief : desk_briefs[k].verdict = "falsified"
  <2>1. CASE desk_bridge' = desk_bridge
    BY <2>1 DEF DeskIInv, DeskTyped, DeskDoubt
  <2>2. CASE desk_bridge' = Desk!StateNow
    <3>1. Len(desk_briefs) <= Len(desk_briefs)
      BY DEF DeskIInv, DeskTyped
    <3> QED
      BY <2>2, <3>1, DeskStateNowIs
  <2>3. CASE desk_bridge' = [desk_bridge EXCEPT !.recent = FALSE]
    <3>1. desk_bridge' = [recent |-> FALSE, brief |-> desk_bridge.brief, confidence |-> desk_bridge.confidence]
      BY <2>3 DEF DeskIInv, DeskTyped
    <3> QED
      BY <3>1 DEF DeskIInv, DeskTyped, DeskDoubt
  <2> QED
    BY <2>1, <2>2, <2>3
<1>2. desk_mea' \in [desk_MeaInputs -> DeskInput]
      /\ \A i \in desk_MeaInputs : desk_mea'[i] = desk_mea[i] \/ desk_mea'[i].pc = "pulled"
  <2>1. CASE desk_mea' = desk_mea
    BY <2>1 DEF DeskIInv, DeskTyped
  <2>2. ASSUME NEW i \in desk_MeaInputs, desk_mea' = [desk_mea EXCEPT ![i].pc = "pulled"]
        PROVE  desk_mea' \in [desk_MeaInputs -> DeskInput]
               /\ \A j \in desk_MeaInputs : desk_mea'[j] = desk_mea[j] \/ desk_mea'[j].pc = "pulled"
    <3>1. desk_mea[i] \in DeskInput
      BY DEF DeskIInv, DeskTyped
    <3>2. [desk_mea[i] EXCEPT !.pc = "pulled"] \in DeskInput /\ [desk_mea[i] EXCEPT !.pc = "pulled"].pc = "pulled"
      BY <3>1 DEF DeskInput
    <3> QED
      BY <2>2, <3>2 DEF DeskIInv, DeskTyped
  <2> QED
    BY <2>1, <2>2
<1>3. DeskTyped'
  BY <1>1, <1>2 DEF DeskIInv, DeskTyped
<1>4. DeskRowsOf' /\ DeskOneRow'
  BY DEF DeskIInv, DeskRowsOf, DeskOneRow, Desk!RowId
<1>5. DeskProgress'
  BY <1>2 DEF DeskIInv, DeskProgress
<1>6. DeskDoubt'
  BY <1>1 DEF DeskDoubt
<1> QED
  BY <1>3, <1>4, <1>5, <1>6 DEF DeskIInv

LEMMA DeskMeaPullInv ==
  ASSUME DeskIInv, NEW i \in desk_MeaInputs, Desk!MeaPull(i) PROVE DeskIInv'
<1>1. desk_mea[i].pc = "new" /\ desk_mea' = [desk_mea EXCEPT ![i].pc = "pulled"]
      /\ UNCHANGED <<desk_submissions, desk_rows, desk_briefs, desk_chief>>
  BY DEF Desk!MeaPull, Desk!briefVars
<1>2. desk_bridge' \in {desk_bridge, Desk!StateNow}
  BY DEF Desk!MeaPull
<1> QED
  BY <1>1, <1>2, DeskBridgeInv

LEMMA DeskMeaSubmitInv ==
  ASSUME DeskIInv, NEW i \in desk_MeaInputs, NEW events \in SUBSET desk_Items, Desk!MeaSubmit(i, events) PROVE DeskIInv'
<1> DEFINE n == Len(desk_submissions) + 1
           new == [pc |-> "rows", left |-> events, of |-> n]
<1>1. /\ desk_submissions' = Append(desk_submissions, events)
      /\ desk_mea' = [desk_mea EXCEPT ![i].pc = "rows", ![i].left = events, ![i].of = n]
      /\ UNCHANGED <<desk_bridge, desk_rows, desk_briefs, desk_chief>>
  BY DEF Desk!MeaSubmit, Desk!NewsSubmission, Desk!briefVars
<1>2. desk_mea[i] \in DeskInput /\ desk_submissions \in Seq(SUBSET desk_Items)
  BY DEF DeskIInv, DeskTyped
<1>3. desk_mea' = [desk_mea EXCEPT ![i] = new]
  <2>1. desk_mea[i] = [pc |-> desk_mea[i].pc, left |-> desk_mea[i].left, of |-> desk_mea[i].of]
    BY <1>2 DEF DeskInput
  <2>2. [desk_mea[i] EXCEPT !.pc = "rows"] = [pc |-> "rows", left |-> desk_mea[i].left, of |-> desk_mea[i].of]
    BY <2>1
  <2>3. [[pc |-> "rows", left |-> desk_mea[i].left, of |-> desk_mea[i].of] EXCEPT !.left = events] =
          [pc |-> "rows", left |-> events, of |-> desk_mea[i].of]
    OBVIOUS
  <2>4. [[pc |-> "rows", left |-> events, of |-> desk_mea[i].of] EXCEPT !.of = n] = new
    OBVIOUS
  <2>5. [[[desk_mea[i] EXCEPT !.pc = "rows"] EXCEPT !.left = events] EXCEPT !.of = n] = new
    BY <2>2, <2>3, <2>4, Zenon
  <2> QED
    BY <1>1, <2>5
<1>4. n \in Nat
  BY <1>2
<1>5. new \in DeskInput /\ new.pc = "rows" /\ new.left = events /\ new.of = n
  BY <1>4 DEF DeskInput
<1>6. /\ desk_submissions' \in Seq(SUBSET desk_Items) /\ n \in DOMAIN desk_submissions' /\ desk_submissions'[n] = events
      /\ \A k \in DOMAIN desk_submissions : k \in DOMAIN desk_submissions' /\ desk_submissions'[k] = desk_submissions[k]
  BY <1>1, <1>2
<1> HIDE DEF new, n
<1>7. desk_mea' \in [desk_MeaInputs -> DeskInput] /\ \A j \in desk_MeaInputs : desk_mea'[j] = IF j = i THEN new ELSE desk_mea[j]
  BY <1>3, <1>5 DEF DeskIInv, DeskTyped
<1>8. DeskTyped'
  BY <1>1, <1>6, <1>7 DEF DeskIInv, DeskTyped
<1>9. DeskRowsOf' /\ DeskOneRow'
  BY <1>1, <1>6 DEF DeskIInv, DeskRowsOf, DeskOneRow, Desk!RowId
<1>10. DeskProgress'
  <2> SUFFICES ASSUME NEW j \in desk_MeaInputs, desk_mea'[j].pc \in {"rows", "used"}
               PROVE  /\ desk_mea'[j].of \in DOMAIN desk_submissions'
                      /\ desk_mea'[j].left \subseteq desk_submissions'[desk_mea'[j].of]
                      /\ \A e \in desk_submissions'[desk_mea'[j].of] \ desk_mea'[j].left : \E r \in desk_rows : r.event = e
                      /\ desk_mea'[j].pc = "used" => desk_mea'[j].left = {}
    BY <1>1 DEF DeskProgress
  <2>1. CASE j = i
    BY <1>5, <1>6, <1>7, <2>1
  <2>2. CASE j # i
    <3>1. desk_mea'[j] = desk_mea[j]
      BY <1>7, <2>2
    <3> QED
      BY <1>6, <3>1 DEF DeskIInv, DeskProgress
  <2> QED
    BY <2>1, <2>2
<1>11. DeskDoubt'
  BY <1>1 DEF DeskIInv, DeskDoubt
<1> QED
  BY <1>8, <1>9, <1>10, <1>11 DEF DeskIInv

LEMMA DeskMeaRowInv ==
  ASSUME DeskIInv, NEW i \in desk_MeaInputs, Desk!MeaRow(i) PROVE DeskIInv'
<1> DEFINE event == CHOOSE e \in desk_mea[i].left : TRUE
           row == [id |-> Desk!RowId(event, desk_mea[i].of), event |-> event, of |-> desk_mea[i].of]
           new == [pc |-> "rows", left |-> desk_mea[i].left \ {event}, of |-> desk_mea[i].of]
<1>1. /\ desk_mea[i].pc = "rows" /\ event \in desk_mea[i].left
      /\ desk_rows' = {r \in desk_rows : r.id # row.id} \cup {row}
      /\ desk_mea' = [desk_mea EXCEPT ![i].left = @ \ {event}]
      /\ UNCHANGED <<desk_bridge, desk_submissions, desk_briefs, desk_chief>>
  BY DEF Desk!MeaRow, Desk!briefVars
<1> HIDE DEF event
<1>2. desk_mea[i] \in DeskInput
  BY DEF DeskIInv, DeskTyped
<1>3. desk_mea' = [desk_mea EXCEPT ![i] = new]
  <2>1. desk_mea[i] = [pc |-> "rows", left |-> desk_mea[i].left, of |-> desk_mea[i].of]
    BY <1>1, <1>2 DEF DeskInput
  <2>2. [desk_mea[i] EXCEPT !.left = @ \ {event}] = new
    BY <2>1
  <2> QED
    BY <1>1, <2>2
<1>4. new \in DeskInput /\ new.pc = "rows" /\ new.left = desk_mea[i].left \ {event} /\ new.of = desk_mea[i].of
  BY <1>2 DEF DeskInput
<1>5. /\ desk_mea[i].of \in DOMAIN desk_submissions /\ desk_mea[i].left \subseteq desk_submissions[desk_mea[i].of]
      /\ \A e \in desk_submissions[desk_mea[i].of] \ desk_mea[i].left : \E r \in desk_rows : r.event = e
  BY <1>1 DEF DeskIInv, DeskProgress
<1>6. row.id = <<event, 0>> /\ row.event = event /\ row.of = desk_mea[i].of
      /\ row = [id |-> Desk!RowId(row.event, row.of), event |-> row.event, of |-> row.of]
  BY DEF Desk!RowId
<1> HIDE DEF new, row
<1>7. desk_mea' \in [desk_MeaInputs -> DeskInput] /\ \A j \in desk_MeaInputs : desk_mea'[j] = IF j = i THEN new ELSE desk_mea[j]
  BY <1>3, <1>4 DEF DeskIInv, DeskTyped
<1>8. DeskTyped'
  BY <1>1, <1>7 DEF DeskIInv, DeskTyped
<1>9. DeskRowsOf'
  <2> SUFFICES ASSUME NEW r \in desk_rows'
               PROVE  /\ r = [id |-> Desk!RowId(r.event, r.of), event |-> r.event, of |-> r.of]
                      /\ r.of \in DOMAIN desk_submissions /\ r.event \in desk_submissions[r.of]
    BY <1>1 DEF DeskRowsOf, Desk!RowId
  <2>1. CASE r = row
    <3>1. row.of \in DOMAIN desk_submissions /\ row.event \in desk_submissions[row.of]
      BY <1>1, <1>5, <1>6
    <3> QED
      BY <1>6, <2>1, <3>1
  <2>2. CASE r \in desk_rows
    BY <2>2 DEF DeskIInv, DeskRowsOf
  <2> QED
    BY <1>1, <2>1, <2>2
<1>10. \A r \in desk_rows : r.id = <<r.event, 0>>
  <2> SUFFICES ASSUME NEW r \in desk_rows PROVE r.id = <<r.event, 0>>
    OBVIOUS
  <2>1. r = [id |-> Desk!RowId(r.event, r.of), event |-> r.event, of |-> r.of]
    BY DEF DeskIInv, DeskRowsOf
  <2> QED
    BY <2>1 DEF Desk!RowId
<1>11. DeskOneRow'
  <2> SUFFICES ASSUME NEW r \in desk_rows', NEW q \in desk_rows', q.event = r.event PROVE q = r
    BY DEF DeskOneRow
  <2>1. CASE r \in desk_rows /\ q \in desk_rows
    BY <2>1 DEF DeskIInv, DeskOneRow
  <2>2. CASE r = row \/ q = row
    BY <1>1, <1>6, <1>10, <2>2
  <2> QED
    BY <1>1, <2>1, <2>2
\* A row that gives way is of the same event.
<1>12. \A r \in desk_rows : \E q \in desk_rows' : q.event = r.event
  <2> SUFFICES ASSUME NEW r \in desk_rows PROVE \E q \in desk_rows' : q.event = r.event
    OBVIOUS
  <2>1. CASE r.id # row.id
    BY <1>1, <2>1
  <2>2. CASE r.id = row.id
    <3>1. r.event = row.event
      BY <1>6, <1>10, <2>2
    <3> QED
      BY <1>1, <3>1
  <2> QED
    BY <2>1, <2>2
<1>13. \E q \in desk_rows' : q.event = event
  BY <1>1, <1>6
<1>14. DeskProgress'
  <2> SUFFICES ASSUME NEW j \in desk_MeaInputs, desk_mea'[j].pc \in {"rows", "used"}
               PROVE  /\ desk_mea'[j].of \in DOMAIN desk_submissions
                      /\ desk_mea'[j].left \subseteq desk_submissions[desk_mea'[j].of]
                      /\ \A e \in desk_submissions[desk_mea'[j].of] \ desk_mea'[j].left : \E r \in desk_rows' : r.event = e
                      /\ desk_mea'[j].pc = "used" => desk_mea'[j].left = {}
    BY <1>1 DEF DeskProgress
  <2>1. CASE j = i
    <3>1. desk_mea'[j] = new
      BY <1>7, <2>1
    <3>2. \A e \in desk_submissions[new.of] \ new.left : e = event \/ e \notin desk_mea[i].left
      BY <1>4
    <3> QED
      BY <1>4, <1>5, <1>12, <1>13, <3>1, <3>2
  <2>2. CASE j # i
    <3>1. desk_mea'[j] = desk_mea[j]
      BY <1>7, <2>2
    <3> QED
      BY <1>12, <3>1 DEF DeskIInv, DeskProgress
  <2> QED
    BY <2>1, <2>2
<1>15. DeskDoubt'
  BY <1>1 DEF DeskIInv, DeskDoubt
<1> QED
  BY <1>8, <1>9, <1>14, <1>15, <1>11 DEF DeskIInv

LEMMA DeskMeaUseInv ==
  ASSUME DeskIInv, NEW i \in desk_MeaInputs, Desk!MeaUse(i) PROVE DeskIInv'
<1> DEFINE new == [desk_mea[i] EXCEPT !.pc = "used"]
<1>1. /\ desk_mea[i].pc = "rows" /\ desk_mea[i].left = {} /\ desk_mea' = [desk_mea EXCEPT ![i] = new]
      /\ UNCHANGED <<desk_bridge, desk_submissions, desk_rows, desk_briefs, desk_chief>>
  BY DEF Desk!MeaUse, Desk!Used, Desk!briefVars
<1>2. desk_mea[i] \in DeskInput
  BY DEF DeskIInv, DeskTyped
<1>3. new \in DeskInput /\ new.pc = "used" /\ new.left = desk_mea[i].left /\ new.of = desk_mea[i].of
  BY <1>2 DEF DeskInput
<1> HIDE DEF new
<1>4. desk_mea' \in [desk_MeaInputs -> DeskInput] /\ \A j \in desk_MeaInputs : desk_mea'[j] = IF j = i THEN new ELSE desk_mea[j]
  BY <1>1, <1>3 DEF DeskIInv, DeskTyped
<1>5. DeskTyped'
  BY <1>1, <1>4 DEF DeskIInv, DeskTyped
<1>6. DeskRowsOf' /\ DeskOneRow' /\ DeskDoubt'
  BY <1>1 DEF DeskIInv, DeskRowsOf, DeskOneRow, Desk!RowId, DeskDoubt
<1>7. DeskProgress'
  BY <1>1, <1>3, <1>4 DEF DeskIInv, DeskProgress
<1> QED
  BY <1>5, <1>6, <1>7 DEF DeskIInv

LEMMA DeskChiefInv ==
  ASSUME DeskIInv, UNCHANGED <<desk_bridge, desk_mea, desk_submissions, desk_rows>>,
         desk_chief' \in [desk_ChiefInputs -> [pc : {"new", "pulled", "stored", "used"}, prior : Nat]],
         desk_briefs' = desk_briefs \/ \E brief \in DeskBrief : desk_briefs' = Append(desk_briefs, brief)
  PROVE  DeskIInv'
<1>1. desk_briefs' \in Seq(DeskBrief) /\ Len(desk_briefs) \in Nat /\ Len(desk_briefs') \in Nat /\ Len(desk_briefs) <= Len(desk_briefs')
      /\ \A k \in DOMAIN desk_briefs : desk_briefs'[k] = desk_briefs[k]
  <2>1. desk_briefs \in Seq(DeskBrief)
    BY DEF DeskIInv, DeskTyped
  <2>2. CASE desk_briefs' = desk_briefs
    BY <2>1, <2>2
  <2>3. ASSUME NEW brief \in DeskBrief, desk_briefs' = Append(desk_briefs, brief)
        PROVE  /\ desk_briefs' \in Seq(DeskBrief) /\ Len(desk_briefs') = Len(desk_briefs) + 1
               /\ \A k \in DOMAIN desk_briefs : desk_briefs'[k] = desk_briefs[k]
    BY <2>1, <2>3
  <2> QED
    BY <2>1, <2>2, <2>3
<1>2. DeskTyped'
  BY <1>1 DEF DeskIInv, DeskTyped
<1>3. DeskRowsOf' /\ DeskOneRow' /\ DeskProgress'
  BY DEF DeskIInv, DeskRowsOf, DeskOneRow, Desk!RowId, DeskProgress
<1>4. DeskDoubt'
  <2>1. desk_bridge.brief \in Nat /\ desk_bridge.brief <= Len(desk_briefs) /\ desk_FalsifiedInRow \in Nat
    BY DeskAssumption DEF DeskIInv, DeskTyped, DeskDoubt
  <2>2. desk_bridge.brief <= Len(desk_briefs')
    BY <1>1, <2>1
  <2>3. ASSUME desk_bridge.confidence = "low", NEW k \in desk_bridge.brief - desk_FalsifiedInRow + 1 .. desk_bridge.brief
        PROVE  desk_briefs'[k].verdict = "falsified"
    <3>1. desk_bridge.brief >= desk_FalsifiedInRow /\ desk_briefs[k].verdict = "falsified"
      BY <2>3 DEF DeskIInv, DeskDoubt
    <3>2. k \in 1 .. Len(desk_briefs)
      BY <1>1, <2>1, <3>1
    <3>3. k \in DOMAIN desk_briefs
      BY <3>2 DEF DeskIInv, DeskTyped
    <3> QED
      BY <1>1, <3>1, <3>3
  <2>4. desk_bridge.confidence = "low" => desk_bridge.brief >= desk_FalsifiedInRow
    BY DEF DeskIInv, DeskDoubt
  <2> QED
    BY <2>2, <2>3, <2>4 DEF DeskDoubt
<1> QED
  BY <1>2, <1>3, <1>4 DEF DeskIInv

LEMMA DeskChiefStepInv ==
  ASSUME DeskIInv, NEW c \in desk_ChiefInputs,
         Desk!ChiefPull(c) \/ Desk!ChiefUse(c) \/ \E verdict \in {"validated", "falsified"} : Desk!ChiefSubmit(c, verdict)
  PROVE  DeskIInv'
<1>1. /\ desk_chief \in [desk_ChiefInputs -> [pc : {"new", "pulled", "stored", "used"}, prior : Nat]]
      /\ Desk!Newest \in Nat
  BY DEF DeskIInv, DeskTyped, Desk!Newest
<1>2. CASE Desk!ChiefPull(c)
  BY <1>1, <1>2, DeskChiefInv DEF Desk!ChiefPull, Desk!deskVars
<1>3. CASE Desk!ChiefUse(c)
  <2>1. desk_chief' \in [desk_ChiefInputs -> [pc : {"new", "pulled", "stored", "used"}, prior : Nat]]
    BY <1>1, <1>3 DEF Desk!ChiefUse
  <2> QED
    BY <1>3, <2>1, DeskChiefInv DEF Desk!ChiefUse, Desk!deskVars
<1>4. ASSUME NEW verdict \in {"validated", "falsified"}, Desk!ChiefSubmit(c, verdict) PROVE DeskIInv'
  <2>1. desk_chief' \in [desk_ChiefInputs -> [pc : {"new", "pulled", "stored", "used"}, prior : Nat]]
    BY <1>1, <1>4 DEF Desk!ChiefSubmit
  <2>2. Desk!Review(c, verdict) \in DeskBrief
    BY <1>1 DEF Desk!Review, DeskBrief
  <2> QED
    BY <1>4, <2>1, <2>2, DeskChiefInv DEF Desk!ChiefSubmit, Desk!Stored, Desk!deskVars
<1> QED
  BY <1>2, <1>3, <1>4

LEMMA DeskCutOffInv ==
  ASSUME DeskIInv, Desk!CutOff PROVE DeskIInv'
<1>1. /\ desk_mea' = [i \in desk_MeaInputs |-> IF desk_mea[i].pc = "rows" THEN [desk_mea[i] EXCEPT !.pc = "pulled"] ELSE desk_mea[i]]
      /\ desk_chief' = [c \in desk_ChiefInputs |->
                          IF desk_chief[c].pc = "stored" THEN [desk_chief[c] EXCEPT !.pc = "pulled"] ELSE desk_chief[c]]
      /\ UNCHANGED <<desk_bridge, desk_submissions, desk_rows, desk_briefs>>
  BY DEF Desk!CutOff
<1>2. \A i \in desk_MeaInputs : desk_mea'[i] \in DeskInput /\ (desk_mea'[i] = desk_mea[i] \/ desk_mea'[i].pc = "pulled")
  <2> SUFFICES ASSUME NEW i \in desk_MeaInputs
               PROVE  desk_mea'[i] \in DeskInput /\ (desk_mea'[i] = desk_mea[i] \/ desk_mea'[i].pc = "pulled")
    OBVIOUS
  <2>1. desk_mea[i] \in DeskInput
    BY DEF DeskIInv, DeskTyped
  <2>2. [desk_mea[i] EXCEPT !.pc = "pulled"] \in DeskInput /\ [desk_mea[i] EXCEPT !.pc = "pulled"].pc = "pulled"
    BY <2>1 DEF DeskInput
  <2> QED
    BY <1>1, <2>1, <2>2
<1>3. \A c \in desk_ChiefInputs : desk_chief'[c] \in [pc : {"new", "pulled", "stored", "used"}, prior : Nat]
  <2> SUFFICES ASSUME NEW c \in desk_ChiefInputs
               PROVE  desk_chief'[c] \in [pc : {"new", "pulled", "stored", "used"}, prior : Nat]
    OBVIOUS
  <2>1. desk_chief[c] \in [pc : {"new", "pulled", "stored", "used"}, prior : Nat]
    BY DEF DeskIInv, DeskTyped
  <2>2. [desk_chief[c] EXCEPT !.pc = "pulled"] \in [pc : {"new", "pulled", "stored", "used"}, prior : Nat]
    BY <2>1
  <2> QED
    BY <1>1, <2>1, <2>2
<1>4. desk_mea' \in [desk_MeaInputs -> DeskInput]
      /\ desk_chief' \in [desk_ChiefInputs -> [pc : {"new", "pulled", "stored", "used"}, prior : Nat]]
  BY <1>1, <1>2, <1>3
<1>5. DeskTyped'
  BY <1>1, <1>4 DEF DeskIInv, DeskTyped
<1>6. DeskRowsOf' /\ DeskOneRow' /\ DeskDoubt'
  BY <1>1 DEF DeskIInv, DeskRowsOf, DeskOneRow, Desk!RowId, DeskDoubt
<1>7. DeskProgress'
  BY <1>1, <1>2 DEF DeskIInv, DeskProgress
<1> QED
  BY <1>5, <1>6, <1>7 DEF DeskIInv

LEMMA DeskStepInv ==
  ASSUME DeskIInv, [Desk!Next]_(Desk!vars) PROVE DeskIInv'
<1>1. CASE Desk!Next
  <2>1. CASE \E s \in desk_Sources, item \in desk_Items : Desk!Publish(s, item)
    BY <2>1, DeskBridgeInv DEF Desk!Publish, Desk!deskVars, Desk!briefVars
  <2>2. CASE Desk!SyncCommand
    BY <2>2, DeskBridgeInv DEF Desk!SyncCommand, Desk!deskVars, Desk!briefVars
  <2>3. CASE Desk!Refresh
    BY <2>3, DeskBridgeInv DEF Desk!Refresh, Desk!deskVars, Desk!briefVars
  <2>4. CASE Desk!Age
    BY <2>4, DeskBridgeInv DEF Desk!Age, Desk!deskVars, Desk!briefVars
  <2>5. CASE Desk!CutOff
    BY <2>5, DeskCutOffInv
  <2>6. ASSUME NEW i \in desk_MeaInputs,
               \/ Desk!MeaPull(i) \/ Desk!MeaRow(i) \/ Desk!MeaUse(i)
               \/ \E events \in SUBSET desk_Items : Desk!MeaSubmit(i, events)
        PROVE  DeskIInv'
    BY <2>6, DeskMeaPullInv, DeskMeaRowInv, DeskMeaUseInv, DeskMeaSubmitInv
  <2>7. ASSUME NEW c \in desk_ChiefInputs,
               Desk!ChiefPull(c) \/ Desk!ChiefUse(c) \/ \E verdict \in {"validated", "falsified"} : Desk!ChiefSubmit(c, verdict)
        PROVE  DeskIInv'
    BY <2>7, DeskChiefStepInv
  <2> QED
    BY <1>1, <2>1, <2>2, <2>3, <2>4, <2>5, <2>6, <2>7 DEF Desk!Next
<1>2. CASE UNCHANGED Desk!vars
  BY <1>2, DeskBridgeInv DEF Desk!vars
<1> QED
  BY <1>1, <1>2

LEMMA DeskInvKept ==
  ASSUME DeskIInv PROVE Desk!EventsKept
<1>1. \A r \in desk_rows : /\ r.event \in desk_submissions[r.of]
                           /\ \A q \in desk_rows : q.event = r.event => q = r
  BY DEF DeskIInv, DeskRowsOf, DeskOneRow
<1>2. \A i \in desk_MeaInputs : desk_mea[i].pc = "used" =>
        \A e \in desk_submissions[desk_mea[i].of] : \E r \in desk_rows : r.event = e
  BY DEF DeskIInv, DeskProgress
<1>3. desk_bridge.confidence = "low" =>
        /\ desk_bridge.brief >= desk_FalsifiedInRow
        /\ \A k \in desk_bridge.brief - desk_FalsifiedInRow + 1 .. desk_bridge.brief : desk_briefs[k].verdict = "falsified"
  BY DEF DeskIInv, DeskDoubt
<1> QED
  BY <1>1, <1>2, <1>3 DEF Desk!EventsKept

\* Only its own steps touch MacroDesk's variables.
LEMMA DeskSteps == [Next]_vars => [Desk!Next]_(Desk!vars)
BY DEF Next, vars, wakeVars, priceVars, claimVars, alertVars, retainVars, learnVars, notifyVars,
    deskVars, Desk!vars

-----------------------------------------------------------------------------
\* Notification.

\* Notify counts as this module does.
LEMMA NotifyCounting ==
  \A S : Notify!Cardinality(S) = Cardinality(S) /\ Notify!IsFiniteSet(S) = IsFiniteSet(S)
BY DEF Notify!Cardinality, Cardinality, Notify!IsFiniteSet, IsFiniteSet

NotifyNames == {"owner", "chief"}
NotifyEventT ==
  [type : {"envelope", "submitted", "sent", "recorded"}, strategy : Nat,
   recipient : NotifyNames \cup {"none"}, delivered : BOOLEAN]

NotifySavedT == [input : Nat, silent : BOOLEAN, consumed : BOOLEAN]

NotifyToldT == [strategy : Nat, recipient : NotifyNames]

NotifyHandlerT ==
  [pc : {"idle", "record", "send", "store", "failed"}, strategy : Nat, pending : Seq(NotifyEventT),
   commands : Seq(NotifyNames), sent : Seq(NotifyEventT)]

NotifyTyped ==
  /\ notify_saved \in Seq(NotifySavedT)
  /\ notify_events \in Seq(NotifyEventT)
  /\ notify_told \in Seq(NotifyToldT)
  /\ notify_handler \in [notify_Handlers -> NotifyHandlerT]

\* The recipients, as a set.
NotifyListed == IF notify_ChiefIsOwner THEN {"owner"} ELSE NotifyNames

\* A handler that is at a strategy, and one that is before its commands.
NotifyWorks(h) == notify_handler[h].pc \in {"record", "send", "store"}
NotifyOpens(h) == notify_handler[h].pc = "record" /\ \E k \in DOMAIN notify_handler[h].pending : notify_handler[h].pending[k].type = "submitted"

\* The recipients that a handler has yet to try.
NotifyAhead(h, r) ==
  \/ NotifyOpens(h) /\ ~notify_saved[notify_handler[h].strategy].silent /\ r \in NotifyListed
  \/ notify_handler[h].pc = "send" /\ \E k \in DOMAIN notify_handler[h].commands : notify_handler[h].commands[k] = r
  \/ notify_handler[h].pc = "store" /\ \E k \in DOMAIN notify_handler[h].commands : k # 1 /\ notify_handler[h].commands[k] = r

\* The results that it has in hand.
NotifyHolds(h, x) ==
  \/ \E k \in DOMAIN notify_handler[h].sent : notify_handler[h].sent[k] = x
  \/ \E k \in DOMAIN notify_handler[h].pending : notify_handler[h].pending[k] = x /\ x.type = "sent"

NotifyTold(n, r) == \E k \in DOMAIN notify_told : notify_told[k] = Notify!Message(n, r)
NotifyThere(type, n, r) == \E i \in DOMAIN notify_events : notify_events[i].type = type /\ notify_events[i].strategy = n /\ notify_events[i].recipient = r
NotifyAsRecorded(x) == [x EXCEPT !.type = "recorded"]

\* A recording has its commands and its results in step.
NotifyFormed(c) ==
  /\ c.pc = "record" =>
       /\ c.commands = <<>> /\ c.sent = <<>>
       /\ \/ \A k \in DOMAIN c.pending : c.pending[k].type = "sent"
          \/ Len(c.pending) = 1 /\ c.pending[1].type = "submitted"
          \/ Len(c.pending) = 2 /\ c.pending[1].type = "envelope" /\ c.pending[2].type = "submitted"
       /\ \A k \in DOMAIN c.pending : c.pending[k].strategy = c.strategy
  /\ c.pc \in {"send", "store"} =>
       /\ c.pending = <<>> /\ c.commands # <<>>
       /\ \A k \in DOMAIN c.commands : c.commands[k] \in NotifyListed
       /\ \A k, m \in DOMAIN c.commands : c.commands[k] = c.commands[m] => k = m
  /\ c.pc = "store" => c.sent # <<>> /\ c.sent[Len(c.sent)].recipient = c.commands[1]
  /\ \A k, m \in DOMAIN c.sent : c.sent[k].recipient = c.sent[m].recipient => k = m
  /\ \A k, m \in DOMAIN c.pending :
       c.pending[k].type = "sent" /\ c.pending[k].recipient = c.pending[m].recipient => k = m

\* It is about a strategy that is there, not used up and, when it comes to commands,
\* not silent.
NotifyPlaced(h) ==
  LET c == notify_handler[h]
  IN  /\ c.pc # "idle" => c.strategy \in DOMAIN notify_saved
      /\ NotifyWorks(h) => ~notify_saved[c.strategy].consumed
      /\ c.pc \in {"send", "store"} => ~notify_saved[c.strategy].silent

\* A recipient that is ahead has neither message nor event.
NotifyUntried(h) ==
  \A r \in NotifyNames : NotifyAhead(h, r) =>
    LET n == notify_handler[h].strategy
    IN  ~NotifyTold(n, r) /\ ~NotifyThere("sent", n, r) /\ ~NotifyThere("recorded", n, r)

\* A result in hand is true, and recorded unless that comes next.
NotifyInHand(h) ==
  \A x \in NotifyEventT : NotifyWorks(h) /\ NotifyHolds(h, x) =>
    LET c == notify_handler[h]
    IN  /\ x.type = "sent" /\ x.strategy = c.strategy /\ x.recipient \in NotifyListed /\ ~notify_saved[c.strategy].silent
        /\ x.delivered <=> NotifyTold(x.strategy, x.recipient)
        /\ ~NotifyThere("sent", x.strategy, x.recipient) /\ ~NotifyAhead(h, x.recipient)
        /\ c.pc = "store" /\ x.recipient = c.commands[1] => ~NotifyThere("recorded", x.strategy, x.recipient)
        /\ (c.pc = "store" /\ x.recipient = c.commands[1]) \/ \E i \in DOMAIN notify_events : notify_events[i] = NotifyAsRecorded(x)

\* Each recipient is still to come, in hand or over.
NotifyTried(h) ==
  \A r \in NotifyListed : NotifyWorks(h) /\ ~notify_saved[notify_handler[h].strategy].silent =>
    \/ NotifyAhead(h, r) \/ NotifyThere("sent", notify_handler[h].strategy, r)
    \/ \E x \in NotifyEventT : NotifyHolds(h, x) /\ x.recipient = r

NotifyInStep(h) == NotifyFormed(notify_handler[h]) /\ NotifyPlaced(h) /\ NotifyUntried(h) /\ NotifyInHand(h) /\ NotifyTried(h)

NotifyApart == \A h, g \in notify_Handlers : NotifyWorks(h) /\ NotifyWorks(g) /\ notify_handler[h].strategy = notify_handler[g].strategy => h = g

NotifyOver == \A n \in DOMAIN notify_saved, r \in NotifyListed : notify_saved[n].consumed /\ ~notify_saved[n].silent => NotifyThere("sent", n, r)

\* The table's notifications are true, are of strategies that are not silent, and
\* come once; one that is sent was recorded before.
NotifyReported ==
  /\ \A i \in DOMAIN notify_events : notify_events[i].type \in {"sent", "recorded"} =>
       /\ notify_events[i].strategy \in DOMAIN notify_saved /\ ~notify_saved[notify_events[i].strategy].silent
       /\ notify_events[i].recipient \in NotifyListed
       /\ notify_events[i].delivered <=> NotifyTold(notify_events[i].strategy, notify_events[i].recipient)
       /\ \A j \in DOMAIN notify_events :
            notify_events[j].type = notify_events[i].type /\ notify_events[j].strategy = notify_events[i].strategy
            /\ notify_events[j].recipient = notify_events[i].recipient => j = i
       /\ notify_events[i].type = "sent" => \E j \in 1 .. i - 1 : notify_events[j] = NotifyAsRecorded(notify_events[i])
  /\ \A i \in DOMAIN notify_events : notify_events[i].strategy \in DOMAIN notify_saved
  /\ \A k \in DOMAIN notify_told : notify_told[k].strategy \in DOMAIN notify_saved

NotifyIInv == NotifyTyped /\ (\A h \in notify_Handlers : NotifyInStep(h)) /\ NotifyApart /\ NotifyOver /\ NotifyReported

-----------------------------------------------------------------------------
LEMMA NotifyInitInv == ASSUME Notify!Init PROVE NotifyIInv
<1>1. Notify!Idle \in NotifyHandlerT
  BY DEF Notify!Idle, NotifyHandlerT
<1>2. NotifyTyped
  BY <1>1 DEF Notify!Init, NotifyTyped
<1>3. ASSUME NEW h \in notify_Handlers PROVE NotifyInStep(h)
  <2>1. notify_handler[h] = Notify!Idle /\ Notify!Idle.pc = "idle" /\ Notify!Idle.pending = <<>> /\ Notify!Idle.sent = <<>>
    BY DEF Notify!Init, Notify!Idle
  <2>2. NotifyFormed(notify_handler[h])
    BY <2>1 DEF NotifyFormed
  <2> QED
    BY <2>1, <2>2 DEF NotifyInStep, NotifyPlaced, NotifyUntried, NotifyInHand, NotifyTried,
        NotifyWorks, NotifyAhead, NotifyOpens
<1> QED
  BY <1>2, <1>3 DEF Notify!Init, NotifyIInv, NotifyApart, NotifyOver, NotifyReported,
      NotifyWorks, Notify!Idle

\* What one handler does leaves the others in step: it is about another strategy.
LEMMA NotifyOthersKeep ==
  ASSUME NotifyIInv, NEW h \in notify_Handlers, NEW new, notify_handler' = [notify_handler EXCEPT ![h] = new], NEW m,
         \A g \in notify_Handlers : g # h /\ NotifyWorks(g) => notify_handler[g].strategy # m,
         \A n \in DOMAIN notify_saved : /\ n \in DOMAIN notify_saved' /\ (notify_saved'[n].silent <=> notify_saved[n].silent)
                                        /\ n # m => (notify_saved'[n].consumed <=> notify_saved[n].consumed),
         \A i \in DOMAIN notify_events : i \in DOMAIN notify_events' /\ notify_events'[i] = notify_events[i],
         \A i \in DOMAIN notify_events' : i \in DOMAIN notify_events \/ notify_events'[i].strategy = m,
         \A k \in DOMAIN notify_told : k \in DOMAIN notify_told' /\ notify_told'[k] = notify_told[k],
         \A k \in DOMAIN notify_told' : k \in DOMAIN notify_told \/ notify_told'[k].strategy = m,
         NEW g \in notify_Handlers, g # h
  PROVE  NotifyInStep(g)' /\ notify_handler'[g] = notify_handler[g]
<1>1. notify_handler'[g] = notify_handler[g]
  BY DEF NotifyIInv, NotifyTyped
<1>2. (NotifyWorks(g)' <=> NotifyWorks(g)) /\ (NotifyOpens(g)' <=> NotifyOpens(g)) /\ \A x : NotifyHolds(g, x)' <=> NotifyHolds(g, x)
  BY <1>1 DEF NotifyWorks, NotifyOpens, NotifyHolds
<1>3. NotifyWorks(g) => notify_handler[g].strategy # m
  OBVIOUS
<1>4. \A n, r : n # m => (NotifyTold(n, r)' <=> NotifyTold(n, r))
  BY DEF NotifyTold, Notify!Message
<1>5. \A type, n, r : n # m => (NotifyThere(type, n, r)' <=> NotifyThere(type, n, r))
  BY DEF NotifyThere
<1>6. NotifyFormed(notify_handler[g]) /\ NotifyPlaced(g) /\ NotifyUntried(g) /\ NotifyInHand(g) /\ NotifyTried(g)
  BY DEF NotifyIInv, NotifyInStep
<1>7. NotifyWorks(g) => notify_handler[g].strategy \in DOMAIN notify_saved
  BY <1>6 DEF NotifyPlaced, NotifyWorks
<1>8. \A r : /\ NotifyAhead(g, r)' <=> NotifyAhead(g, r)
             /\ NotifyAhead(g, r) => NotifyWorks(g)
  BY <1>1, <1>2, <1>7 DEF NotifyAhead, NotifyWorks, NotifyOpens
<1>9. NotifyPlaced(g)'
  <2>1. notify_handler[g].pc # "idle" => notify_handler[g].strategy \in DOMAIN notify_saved
    BY <1>6 DEF NotifyPlaced
  <2>2. NotifyWorks(g) => ~notify_saved'[notify_handler[g].strategy].consumed
    BY <1>3, <1>6, <1>7 DEF NotifyPlaced
  <2>3. notify_handler[g].pc \in {"send", "store"} => ~notify_saved'[notify_handler[g].strategy].silent
    BY <1>6, <2>1 DEF NotifyPlaced
  <2> QED
    BY <1>1, <1>2, <1>6, <2>1, <2>2, <2>3 DEF NotifyPlaced
<1>10. NotifyUntried(g)'
  BY <1>1, <1>3, <1>4, <1>5, <1>6, <1>8 DEF NotifyUntried
<1>11. NotifyInHand(g)'
  <2> SUFFICES ASSUME NEW x \in NotifyEventT, NotifyWorks(g), NotifyHolds(g, x)
               PROVE  LET c == notify_handler[g]
                      IN  /\ x.type = "sent" /\ x.strategy = c.strategy /\ x.recipient \in NotifyListed
                          /\ ~notify_saved'[c.strategy].silent
                          /\ x.delivered <=> NotifyTold(x.strategy, x.recipient)'
                          /\ ~NotifyThere("sent", x.strategy, x.recipient)' /\ ~NotifyAhead(g, x.recipient)
                          /\ c.pc = "store" /\ x.recipient = c.commands[1] => ~NotifyThere("recorded", x.strategy, x.recipient)'
                          /\ (c.pc = "store" /\ x.recipient = c.commands[1]) \/ \E i \in DOMAIN notify_events' : notify_events'[i] = NotifyAsRecorded(x)
    BY <1>1, <1>2, <1>8 DEF NotifyInHand, NotifyListed, NotifyEventT
  <2> QED
    BY <1>3, <1>4, <1>5, <1>6, <1>7 DEF NotifyInHand
<1>12. NotifyTried(g)'
  BY <1>1, <1>2, <1>3, <1>5, <1>6, <1>7, <1>8 DEF NotifyTried, NotifyListed
<1> QED
  BY <1>1, <1>6, <1>9, <1>10, <1>11, <1>12 DEF NotifyInStep

\* A recording's fields, and what they become when its commands are sent.
LEMMA NotifyHandlerIs ==
  ASSUME NotifyTyped, NEW h \in notify_Handlers
  PROVE  LET c == notify_handler[h]
         IN  /\ c \in NotifyHandlerT /\ c.strategy \in Nat /\ c.pending \in Seq(NotifyEventT) /\ c.commands \in Seq(NotifyNames)
             /\ c.sent \in Seq(NotifyEventT)
             /\ c = [pc |-> c.pc, strategy |-> c.strategy, pending |-> c.pending, commands |-> c.commands, sent |-> c.sent]
BY DEF NotifyTyped, NotifyHandlerT

LEMMA NotifySubmitInv == ASSUME NotifyIInv, NEW h \in notify_Handlers, NEW silent \in BOOLEAN, Notify!Submit(h, silent) PROVE NotifyIInv'
<1>0. PICK n : n = Len(notify_saved) + 1
  OBVIOUS
<1> DEFINE first == <<Notify!Event("envelope", n, "none", FALSE), Notify!Event("submitted", n,
                      "none", FALSE)>>
           new == [pc |-> "record", strategy |-> n, pending |-> first, commands |-> <<>>,
                                                                                      sent |-> <<>>]
<1>1. PICK input : /\ input = IF notify_handler[h].pc = "failed" THEN notify_saved[notify_handler[h].strategy].input ELSE n
                   /\ notify_saved' = Append(notify_saved, [input |-> input, silent |-> silent, consumed |-> FALSE])
  BY <1>0 DEF Notify!Submit
<1>2. /\ notify_handler[h].pc \in {"idle", "failed"} /\ UNCHANGED <<notify_events, notify_told>>
      /\ notify_handler' = [notify_handler EXCEPT ![h] = new]
  <2>1. /\ notify_handler[h].pc \in {"idle", "failed"} /\ UNCHANGED <<notify_events,
                                                                      notify_told>>
        /\ notify_handler' = [notify_handler EXCEPT ![h] = [Notify!Idle EXCEPT !.pc = "record", !.strategy = n, !.pending = first]]
    BY <1>0 DEF Notify!Submit, Notify!Becomes
  <2> HIDE DEF first
  <2>2. [Notify!Idle EXCEPT !.pc = "record", !.strategy = n, !.pending = first] = new
    <3>1. [Notify!Idle EXCEPT !.pc = "record", !.strategy = n, !.pending = first]
          = [[[Notify!Idle EXCEPT !.pc = "record"] EXCEPT !.strategy = n] EXCEPT !.pending = first]
      OBVIOUS
    <3>2. [Notify!Idle EXCEPT !.pc = "record"]
          = [pc |-> "record", strategy |-> 0, pending |-> <<>>, commands |-> <<>>,
                                                            sent |-> <<>>]
      BY DEF Notify!Idle
    <3>3. [[pc |-> "record", strategy |-> 0, pending |-> <<>>, commands |-> <<>>,
                                                           sent |-> <<>>] EXCEPT !.strategy = n]
          = [pc |-> "record", strategy |-> n, pending |-> <<>>, commands |-> <<>>,
                                                            sent |-> <<>>]
      OBVIOUS
    <3>4. [[pc |-> "record", strategy |-> n, pending |-> <<>>, commands |-> <<>>,
                                                           sent |-> <<>>] EXCEPT !.pending = first]
          = new
      OBVIOUS
    <3> QED
      BY <3>1, <3>2, <3>3, <3>4, Zenon
  <2> QED
    BY <2>1, <2>2
<1>3. notify_saved \in Seq(NotifySavedT) /\ n \in Nat
  BY <1>0 DEF NotifyIInv, NotifyTyped
<1>4. notify_handler[h].pc # "idle" => notify_handler[h].strategy \in DOMAIN notify_saved
  BY DEF NotifyIInv, NotifyInStep, NotifyPlaced
<1>5. input \in Nat
  <2>1. \A k \in DOMAIN notify_saved : notify_saved[k] \in NotifySavedT
    BY <1>3
  <2>2. \A k \in DOMAIN notify_saved : notify_saved[k].input \in Nat
    BY <2>1 DEF NotifySavedT
  <2> QED
    BY <1>1, <1>2, <1>3, <1>4, <2>2
<1>6. /\ notify_saved' \in Seq(NotifySavedT)
      /\ DOMAIN notify_saved' = 1 .. n /\ DOMAIN notify_saved = 1 .. n - 1 /\ n \notin DOMAIN notify_saved
      /\ \A k \in DOMAIN notify_saved : k \in DOMAIN notify_saved' /\ notify_saved'[k] = notify_saved[k]
      /\ ~notify_saved'[n].consumed
  <2> DEFINE s == [input |-> input, silent |-> silent, consumed |-> FALSE]
  <2>1. s \in NotifySavedT /\ ~s.consumed
    BY <1>5 DEF NotifySavedT
  <2>2. notify_saved' = Append(notify_saved, s)
    BY <1>1
  <2> HIDE DEF s
  <2> QED
    BY <1>0, <1>3, <2>1, <2>2
<1>7. /\ first \in Seq(NotifyEventT) /\ Len(first) = 2 /\ first[1].type = "envelope" /\ first[2].type = "submitted"
      /\ DOMAIN first = {1, 2} /\ \A k \in {1, 2} : first[k].strategy = n
  BY <1>3 DEF Notify!Event, NotifyEventT
<1> HIDE DEF first
<1>8. /\ new \in NotifyHandlerT /\ new.pc = "record" /\ new.strategy = n /\ new.pending = first /\ new.commands = <<>>
      /\ new.sent = <<>>
  BY <1>3, <1>7 DEF NotifyHandlerT
<1>15. NotifyTyped'
  BY <1>2, <1>6, <1>8 DEF NotifyIInv, NotifyTyped
<1> HIDE DEF new
<1>9. \A g \in notify_Handlers : g # h => NotifyInStep(g)' /\ notify_handler'[g] = notify_handler[g] /\ (NotifyWorks(g) => notify_handler[g].strategy # n)
  <2>1. \A g \in notify_Handlers : NotifyWorks(g) => notify_handler[g].strategy # n
    BY <1>6 DEF NotifyIInv, NotifyInStep, NotifyPlaced, NotifyWorks
  <2>2. \A k \in DOMAIN notify_saved : k \in DOMAIN notify_saved' /\ (notify_saved'[k].silent <=> notify_saved[k].silent) /\ (notify_saved'[k].consumed <=> notify_saved[k].consumed)
    BY <1>3, <1>6
  <2> QED
    BY <1>2, <2>1, <2>2, NotifyOthersKeep
<1> HIDE DEF new
<1>10. notify_handler'[h] = new
  BY <1>2 DEF NotifyIInv, NotifyTyped
<1>11. NotifyInStep(h)'
  <2>1. NotifyFormed(new)
    BY <1>7, <1>8 DEF NotifyFormed
  <2>2. NotifyPlaced(h)'
    <3>1. n \in DOMAIN notify_saved'
      BY <1>0, <1>3, <1>6
    <3> QED
      BY <1>6, <1>10, <1>8, <3>1 DEF NotifyPlaced
  <2>3. \A r : ~NotifyTold(n, r)' /\ ~NotifyThere("sent", n, r)' /\ ~NotifyThere("recorded", n, r)'
    <3>1. (\A i \in DOMAIN notify_events : notify_events[i].strategy # n) /\ \A k \in DOMAIN notify_told : notify_told[k].strategy # n
      BY <1>6 DEF NotifyIInv, NotifyReported
    <3>2. \A r : Notify!Message(n, r).strategy = n
      BY DEF Notify!Message
    <3>3. \A r : ~NotifyTold(n, r)'
      BY <1>2, <3>1, <3>2 DEF NotifyTold
    <3>4. \A type, r : ~NotifyThere(type, n, r)'
      BY <1>2, <3>1 DEF NotifyThere
    <3> QED
      BY <3>3, <3>4
  <2>4. NotifyUntried(h)'
    BY <1>2, <1>10, <1>8, <2>3 DEF NotifyUntried
  <2>5. \A x : ~NotifyHolds(h, x)'
    BY <1>7, <1>10, <1>8 DEF NotifyHolds
  <2>6. NotifyOpens(h)'
    BY <1>7, <1>10, <1>8 DEF NotifyOpens
  <2>7. NotifyTried(h)'
    BY <1>10, <2>6 DEF NotifyTried, NotifyAhead, NotifyListed
  <2> QED
    BY <1>10, <2>1, <2>2, <2>4, <2>5, <2>7 DEF NotifyInStep, NotifyInHand
<1>12. NotifyApart'
  BY <1>9, <1>10, <1>8 DEF NotifyIInv, NotifyApart, NotifyWorks
<1>13. NotifyOver'
  <2>1. \A k \in DOMAIN notify_saved' : k # n => k \in DOMAIN notify_saved
    BY <1>3, <1>6
  <2> QED
    BY <1>2, <1>6, <2>1 DEF NotifyIInv, NotifyOver, NotifyThere, NotifyListed
<1>14. NotifyReported'
  <2>1. \A r, s : NotifyTold(s, r)' <=> NotifyTold(s, r)
    BY <1>2 DEF NotifyTold
  <2>2. \A k \in DOMAIN notify_saved : k \in DOMAIN notify_saved' /\ (notify_saved'[k].silent <=> notify_saved[k].silent)
    BY <1>6
  <2>3. \A k \in DOMAIN notify_told : notify_told[k].strategy \in DOMAIN notify_saved'
    BY <2>2 DEF NotifyIInv, NotifyReported
  <2> QED
    BY <1>2, <2>1, <2>2, <2>3 DEF NotifyIInv, NotifyReported
<1> QED
  BY <1>9, <1>11, <1>12, <1>13, <1>14, <1>15 DEF NotifyIInv

\* A handler that stops, or is done, leaves the others in step.
LEMMA NotifyFailInv == ASSUME NotifyIInv, NEW h \in notify_Handlers, Notify!Fail(h) PROVE NotifyIInv'
<1> DEFINE c == notify_handler[h]
           new == [pc |-> "failed", strategy |-> c.strategy, pending |-> <<>>, commands |-> <<>>,
                                                                           sent |-> <<>>]
<1>1. notify_handler' = [notify_handler EXCEPT ![h] = new] /\ NotifyWorks(h) /\ UNCHANGED <<notify_saved,
                                                                                            notify_events,
                                                                                            notify_told>>
  <2>1. /\ notify_handler' = [notify_handler EXCEPT ![h] = [c EXCEPT !.pc = "failed", !.pending = <<>>,
                                                                                                    !.commands = <<>>,
                                                                                                    !.sent = <<>>]]
        /\ NotifyWorks(h) /\ UNCHANGED <<notify_saved, notify_events, notify_told>>
    BY DEF Notify!Fail, Notify!Becomes, NotifyWorks
  <2>2. c = [pc |-> c.pc, strategy |-> c.strategy, pending |-> c.pending, commands |-> c.commands, sent |-> c.sent]
    BY NotifyHandlerIs DEF NotifyIInv
  <2>3. [c EXCEPT !.pc = "failed", !.pending = <<>>, !.commands = <<>>, !.sent = <<>>]
        = [[[[c EXCEPT !.pc = "failed"] EXCEPT !.pending = <<>>] EXCEPT !.commands = <<>>] EXCEPT !.sent = <<>>]
    OBVIOUS
  <2>4. [c EXCEPT !.pc = "failed"]
        = [pc |-> "failed", strategy |-> c.strategy, pending |-> c.pending, commands |-> c.commands, sent |-> c.sent]
    BY <2>2
  <2>5. [[pc |-> "failed", strategy |-> c.strategy, pending |-> c.pending, commands |-> c.commands, sent |-> c.sent]
          EXCEPT !.pending = <<>>]
        = [pc |-> "failed", strategy |-> c.strategy, pending |-> <<>>, commands |-> c.commands,
                                                                   sent |-> c.sent]
    OBVIOUS
  <2>6. [[pc |-> "failed", strategy |-> c.strategy, pending |-> <<>>, commands |-> c.commands,
                                                                  sent |-> c.sent]
          EXCEPT !.commands = <<>>]
        = [pc |-> "failed", strategy |-> c.strategy, pending |-> <<>>, commands |-> <<>>,
                                                                   sent |-> c.sent]
    OBVIOUS
  <2>7. [[pc |-> "failed", strategy |-> c.strategy, pending |-> <<>>, commands |-> <<>>,
                                                                  sent |-> c.sent]
          EXCEPT !.sent = <<>>] = new
    OBVIOUS
  <2> HIDE DEF c, new
  <2>8. [c EXCEPT !.pc = "failed", !.pending = <<>>, !.commands = <<>>, !.sent = <<>>] = new
    BY <2>3, <2>4, <2>5, <2>6, <2>7, Zenon
  <2> QED
    BY <2>1, <2>8
<1>2. new \in NotifyHandlerT
  <2>1. c.strategy \in Nat
    BY NotifyHandlerIs DEF NotifyIInv
  <2> QED
    BY <2>1 DEF NotifyHandlerT
<1>3. NotifyTyped'
  BY <1>1, <1>2 DEF NotifyIInv, NotifyTyped
<1>4. notify_handler'[h] = new /\ new.pc = "failed" /\ new.strategy = c.strategy /\ new.pending = <<>> /\ new.sent = <<>>
  BY <1>1 DEF NotifyIInv, NotifyTyped
<1> HIDE DEF new
<1>5. \A g \in notify_Handlers : g # h => NotifyInStep(g)' /\ notify_handler'[g] = notify_handler[g]
  <2>1. \A g \in notify_Handlers : g # h /\ NotifyWorks(g) => notify_handler[g].strategy # c.strategy
    BY <1>1 DEF NotifyIInv, NotifyApart
  <2> QED
    BY <1>1, <2>1, NotifyOthersKeep
<1>6. NotifyInStep(h)'
  <2>1. c.strategy \in DOMAIN notify_saved
    BY <1>1 DEF NotifyIInv, NotifyInStep, NotifyPlaced, NotifyWorks
  <2>2. NotifyFormed(new)
    BY <1>4 DEF NotifyFormed
  <2>3. NotifyPlaced(h)'
    BY <1>1, <1>4, <2>1 DEF NotifyPlaced, NotifyWorks
  <2>4. \A r : ~NotifyAhead(h, r)' /\ ~NotifyWorks(h)'
    BY <1>4 DEF NotifyAhead, NotifyWorks, NotifyOpens
  <2> QED
    BY <1>4, <2>2, <2>3, <2>4 DEF NotifyInStep, NotifyUntried, NotifyInHand, NotifyTried
<1>7. NotifyApart' /\ NotifyOver'
  BY <1>1, <1>4, <1>5 DEF NotifyIInv, NotifyApart, NotifyOver, NotifyWorks, NotifyThere
<1>8. NotifyReported'
  <2>1. \A r, s : NotifyTold(s, r)' <=> NotifyTold(s, r)
    BY <1>1 DEF NotifyTold
  <2> QED
    BY <1>1, <2>1 DEF NotifyIInv, NotifyReported
<1> QED
  BY <1>3, <1>5, <1>6, <1>7, <1>8 DEF NotifyIInv

LEMMA NotifyConsumeInv == ASSUME NotifyIInv, NEW h \in notify_Handlers, Notify!Consume(h) PROVE NotifyIInv'
<1> DEFINE c == notify_handler[h]
           n == c.strategy
<1>1. /\ notify_handler' = [notify_handler EXCEPT ![h] = Notify!Idle] /\ c.pc = "record" /\ c.pending = <<>> /\ NotifyWorks(h)
      /\ notify_saved' = [notify_saved EXCEPT ![n].consumed = TRUE] /\ UNCHANGED <<notify_events,
                                                                                   notify_told>>
  BY DEF Notify!Consume, Notify!Becomes, NotifyWorks
<1>2. n \in DOMAIN notify_saved /\ c.sent = <<>> /\ notify_saved \in Seq(NotifySavedT)
  BY <1>1 DEF NotifyIInv, NotifyInStep, NotifyFormed, NotifyPlaced, NotifyTyped
<1>3. Notify!Idle \in NotifyHandlerT /\ Notify!Idle.pc = "idle"
  BY DEF Notify!Idle, NotifyHandlerT
<1>4. /\ notify_saved' \in Seq(NotifySavedT) /\ DOMAIN notify_saved' = DOMAIN notify_saved
      /\ \A k \in DOMAIN notify_saved : (notify_saved'[k].silent <=> notify_saved[k].silent) /\ (k # n => (notify_saved'[k].consumed <=> notify_saved[k].consumed))
  <2> DEFINE used == [notify_saved[n] EXCEPT !.consumed = TRUE]
  <2>1. notify_saved' = [notify_saved EXCEPT ![n] = used]
    BY <1>1
  <2>2. used \in NotifySavedT /\ (used.silent <=> notify_saved[n].silent)
    <3>1. notify_saved[n] \in NotifySavedT
      BY <1>2
    <3>2. notify_saved[n] = [input |-> notify_saved[n].input, silent |-> notify_saved[n].silent, consumed |-> notify_saved[n].consumed]
      BY <3>1 DEF NotifySavedT
    <3> QED
      BY <3>1, <3>2 DEF NotifySavedT
  <2>3. notify_saved \in Seq(NotifySavedT)
    BY <1>2
  <2> HIDE DEF used, n
  <2>4. notify_saved' \in Seq(NotifySavedT) /\ DOMAIN notify_saved' = DOMAIN notify_saved
    BY <1>2, <2>1, <2>2, <2>3
  <2>5. \A k \in DOMAIN notify_saved : notify_saved'[k] = IF k = n THEN used ELSE notify_saved[k]
    BY <1>2, <2>1, <2>3
  <2> QED
    BY <2>2, <2>4, <2>5
<1>5. NotifyTyped'
  BY <1>1, <1>3, <1>4 DEF NotifyIInv, NotifyTyped
<1>6. \A g \in notify_Handlers : g # h => NotifyInStep(g)' /\ notify_handler'[g] = notify_handler[g]
  <2>1. \A g \in notify_Handlers : g # h /\ NotifyWorks(g) => notify_handler[g].strategy # n
    BY <1>1 DEF NotifyIInv, NotifyApart
  <2> HIDE DEF n
  <2> QED
    BY <1>1, <1>4, <2>1, NotifyOthersKeep
<1>7. NotifyInStep(h)' /\ ~NotifyWorks(h)'
  <2>1. notify_handler'[h] = Notify!Idle /\ Notify!Idle.pending = <<>> /\ Notify!Idle.sent = <<>>
    BY <1>1 DEF NotifyIInv, NotifyTyped, Notify!Idle
  <2>2. NotifyFormed(Notify!Idle)
    BY <1>3, <2>1 DEF NotifyFormed
  <2> QED
    BY <1>3, <2>1, <2>2 DEF NotifyInStep, NotifyPlaced, NotifyUntried, NotifyInHand, NotifyTried,
        NotifyAhead, NotifyWorks, NotifyOpens
<1>8. NotifyApart'
  BY <1>6, <1>7 DEF NotifyIInv, NotifyApart, NotifyWorks
<1>9. NotifyOver'
  <2>1. \A r \in NotifyListed : ~notify_saved[n].silent => NotifyThere("sent", n, r)
    <3>1. ~NotifyOpens(h) /\ \A x : ~NotifyHolds(h, x)
      BY <1>1, <1>2 DEF NotifyOpens, NotifyHolds
    <3>2. \A r : ~NotifyAhead(h, r)
      BY <1>1, <3>1 DEF NotifyAhead
    <3> QED
      BY <1>1, <3>1, <3>2 DEF NotifyIInv, NotifyInStep, NotifyTried
  <2> QED
    BY <1>1, <1>4, <2>1 DEF NotifyIInv, NotifyOver, NotifyThere, NotifyListed
<1>10. NotifyReported'
  <2>1. \A r, s : NotifyTold(s, r)' <=> NotifyTold(s, r)
    BY <1>1 DEF NotifyTold
  <2> QED
    BY <1>1, <1>4, <2>1 DEF NotifyIInv, NotifyReported
<1> QED
  BY <1>5, <1>6, <1>7, <1>8, <1>9, <1>10 DEF NotifyIInv

\* What recording an event and storing a result make of a recording.
LEMMA NotifyHandlingIs ==
  ASSUME NEW c \in NotifyHandlerT
  PROVE  Notify!AfterHandling(c)
         = IF c.commands # <<>>
           THEN [pc |-> "send", strategy |-> c.strategy, pending |-> c.pending, commands |-> c.commands, sent |-> c.sent]
           ELSE [pc |-> "record", strategy |-> c.strategy, pending |-> c.pending \o c.sent, commands |-> c.commands,
                 sent |-> <<>>]
<1> DEFINE p == c.pending \o c.sent
           n == c.strategy
           m == c.commands
           s == c.sent
<1>1. c = [pc |-> c.pc, strategy |-> n, pending |-> c.pending, commands |-> m, sent |-> s]
  BY DEF NotifyHandlerT
<1>2. Notify!AfterHandling(c)
      = IF m # <<>> THEN [c EXCEPT !.pc = "send"] ELSE [c EXCEPT !.pc = "record", !.pending = p,
                 !.sent = <<>>]
  BY DEF Notify!AfterHandling
<1> HIDE DEF p, n, m, s
<1>3. [c EXCEPT !.pc = "send"]
      = [pc |-> "send", strategy |-> n, pending |-> c.pending, commands |-> m, sent |-> s]
  BY <1>1
<1>4. [c EXCEPT !.pc = "record", !.pending = p, !.sent = <<>>]
      = [[[c EXCEPT !.pc = "record"] EXCEPT !.pending = p] EXCEPT !.sent = <<>>]
  OBVIOUS
<1>5. [c EXCEPT !.pc = "record"]
      = [pc |-> "record", strategy |-> n, pending |-> c.pending, commands |-> m, sent |-> s]
  BY <1>1
<1>6. [[pc |-> "record", strategy |-> n, pending |-> c.pending, commands |-> m, sent |-> s] EXCEPT !.pending = p]
      = [pc |-> "record", strategy |-> n, pending |-> p, commands |-> m, sent |-> s]
  OBVIOUS
<1>7. [[pc |-> "record", strategy |-> n, pending |-> p, commands |-> m, sent |-> s] EXCEPT !.sent = <<>>]
      = [pc |-> "record", strategy |-> n, pending |-> p, commands |-> m, sent |-> <<>>]
  OBVIOUS
<1>8. [c EXCEPT !.pc = "record", !.pending = p, !.sent = <<>>]
      = [pc |-> "record", strategy |-> n, pending |-> p, commands |-> m, sent |-> <<>>]
  BY <1>4, <1>5, <1>6, <1>7, Zenon
<1> QED
  BY <1>2, <1>3, <1>8 DEF p, n, m, s

LEMMA NotifyRecipientsAre ==
  /\ Notify!Recipients \in Seq(NotifyNames) /\ Notify!Recipients # <<>>
  /\ \A k \in DOMAIN Notify!Recipients : Notify!Recipients[k] \in NotifyListed
  /\ \A k, m \in DOMAIN Notify!Recipients : Notify!Recipients[k] = Notify!Recipients[m] => k = m
  /\ \A r \in NotifyListed : \E k \in DOMAIN Notify!Recipients : Notify!Recipients[k] = r
<1>1. CASE notify_ChiefIsOwner
  <2>1. Notify!Recipients = <<"owner">> /\ NotifyListed = {"owner"}
    BY <1>1 DEF Notify!Recipients, NotifyListed
  <2> QED
    BY <2>1 DEF NotifyNames
<1>2. CASE ~notify_ChiefIsOwner
  <2>1. Notify!Recipients = <<"owner", "chief">> /\ NotifyListed = {"owner", "chief"}
    BY <1>2 DEF Notify!Recipients, NotifyListed, NotifyNames
  <2> QED
    BY <2>1 DEF NotifyNames
<1> QED
  BY <1>1, <1>2

\* An event is appended and handled.
LEMMA NotifyRecordInv == ASSUME NotifyIInv, NEW h \in notify_Handlers, Notify!Record(h) PROVE NotifyIInv'
<1> DEFINE c == notify_handler[h]
<1>1. PICK e : e = Head(c.pending)
  OBVIOUS
<1>2. PICK n : n = c.strategy
  OBVIOUS
<1>3. PICK new : new = Notify!AfterHandling([c EXCEPT !.pending = Tail(@), !.commands = Notify!Commands(e)])
  OBVIOUS
<1>4. /\ c.pc = "record" /\ c.pending # <<>> /\ notify_events' = Append(notify_events,
                                          e) /\ UNCHANGED <<notify_saved, notify_told>>
      /\ notify_handler' = [notify_handler EXCEPT ![h] = new]
  BY <1>1, <1>3 DEF Notify!Record, Notify!Becomes
<1>5. /\ c \in NotifyHandlerT /\ n \in Nat /\ c.pending \in Seq(NotifyEventT) /\ c.sent = <<>> /\ c.commands = <<>>
      /\ c = [pc |-> "record", strategy |-> n, pending |-> c.pending, commands |-> c.commands, sent |-> c.sent]
      /\ n \in DOMAIN notify_saved /\ NotifyWorks(h)
  BY <1>2, <1>4, NotifyHandlerIs DEF NotifyIInv, NotifyInStep, NotifyFormed, NotifyPlaced,
      NotifyWorks
<1>6. /\ e \in NotifyEventT /\ e = c.pending[1] /\ 1 \in DOMAIN c.pending /\ e.strategy = n
      /\ Tail(c.pending) \in Seq(NotifyEventT) /\ Len(Tail(c.pending)) = Len(c.pending) - 1
      /\ \A k \in DOMAIN Tail(c.pending) : k + 1 \in DOMAIN c.pending /\ Tail(c.pending)[k] = c.pending[k + 1]
  BY <1>1, <1>2, <1>4, <1>5 DEF NotifyIInv, NotifyInStep, NotifyFormed
<1>7. /\ Notify!Commands(e) \in Seq(NotifyNames)
      /\ Notify!Commands(e) = IF e.type = "submitted" /\ ~notify_saved[n].silent THEN Notify!Recipients ELSE <<>>
  BY <1>6, NotifyRecipientsAre DEF Notify!Commands
<1>8. /\ new \in NotifyHandlerT /\ new.strategy = n /\ new.commands = Notify!Commands(e) /\ new.pending = Tail(c.pending) /\ new.sent = <<>>
      /\ new.pc = IF Notify!Commands(e) # <<>> THEN "send" ELSE "record"
  <2> DEFINE t == Tail(c.pending)
             q == [pc |-> "record", strategy |-> n, pending |-> t, commands |-> Notify!Commands(e), sent |-> <<>>]
  <2>1. [c EXCEPT !.pending = Tail(@), !.commands = Notify!Commands(e)]
        = [[c EXCEPT !.pending = t] EXCEPT !.commands = Notify!Commands(e)]
    OBVIOUS
  <2> HIDE DEF t
  <2>2. [c EXCEPT !.pending = t]
        = [pc |-> "record", strategy |-> n, pending |-> t, commands |-> c.commands, sent |-> c.sent]
    BY <1>5
  <2>3. [[pc |-> "record", strategy |-> n, pending |-> t, commands |-> c.commands, sent |-> c.sent]
          EXCEPT !.commands = Notify!Commands(e)]
        = [pc |-> "record", strategy |-> n, pending |-> t, commands |-> Notify!Commands(e), sent |-> c.sent]
    OBVIOUS
  <2>4. new = Notify!AfterHandling(q)
    BY <1>3, <1>5, <2>1, <2>2, <2>3, Zenon
  <2>5. t \in Seq(NotifyEventT)
    BY <1>6 DEF t
  <2>6. q \in NotifyHandlerT
    BY <1>5, <1>7, <2>5 DEF NotifyHandlerT
  <2>7. t \o <<>> = t
    BY <2>5
  <2>8. /\ q.commands = Notify!Commands(e) /\ q.pending = t /\ q.sent = <<>> /\ q.strategy = n
    OBVIOUS
  <2> HIDE DEF q
  <2>9. new = IF Notify!Commands(e) # <<>>
              THEN [pc |-> "send", strategy |-> n, pending |-> t, commands |-> Notify!Commands(e), sent |-> <<>>]
              ELSE [pc |-> "record", strategy |-> n, pending |-> t, commands |-> Notify!Commands(e), sent |-> <<>>]
    BY <2>4, <2>6, <2>7, <2>8, NotifyHandlingIs
  <2> QED
    BY <1>5, <1>7, <2>5, <2>9 DEF NotifyHandlerT, t
<1> HIDE DEF c
<1>9. \A g \in notify_Handlers : g # h => NotifyInStep(g)' /\ notify_handler'[g] = notify_handler[g]
  <2>1. \A g \in notify_Handlers : g # h /\ NotifyWorks(g) => notify_handler[g].strategy # n
    BY <1>2, <1>5 DEF NotifyIInv, NotifyApart, c
  <2>2. \A i \in DOMAIN notify_events : i \in DOMAIN notify_events' /\ notify_events'[i] = notify_events[i]
    BY <1>4, <1>6 DEF NotifyIInv, NotifyTyped
  <2>3. \A i \in DOMAIN notify_events' : i \in DOMAIN notify_events \/ notify_events'[i].strategy = n
    BY <1>4, <1>6 DEF NotifyIInv, NotifyTyped
  <2> QED
    BY <1>4, <2>1, <2>2, <2>3, NotifyOthersKeep
<1>10. notify_handler'[h] = new /\ NotifyTyped'
  BY <1>4, <1>6, <1>8 DEF NotifyIInv, NotifyTyped
<1>11. /\ notify_events \in Seq(NotifyEventT) /\ Len(notify_events) \in Nat /\ DOMAIN notify_events' = 1 .. Len(notify_events) + 1 /\ DOMAIN notify_events = 1 .. Len(notify_events)
       /\ notify_events'[Len(notify_events) + 1] = e /\ \A i \in DOMAIN notify_events : i \in DOMAIN notify_events' /\ notify_events'[i] = notify_events[i]
       /\ \A i \in DOMAIN notify_events' : i \in DOMAIN notify_events \/ i = Len(notify_events) + 1
  BY <1>4, <1>6 DEF NotifyIInv, NotifyTyped
<1>12. \A type, s, r : NotifyThere(type, s, r)' <=> NotifyThere(type, s, r) \/ (type = e.type /\ s = n /\ r = e.recipient)
  BY <1>6, <1>11 DEF NotifyThere
<1>13. \A s, r : NotifyTold(s, r)' <=> NotifyTold(s, r)
  BY <1>4 DEF NotifyTold
<1>14. \/ /\ e.type = "sent" /\ \A k \in DOMAIN c.pending : c.pending[k].type = "sent"
       \/ e.type = "submitted" /\ Len(c.pending) = 1
       \/ e.type = "envelope" /\ Len(c.pending) = 2 /\ c.pending[2].type = "submitted"
  BY <1>4, <1>5, <1>6 DEF NotifyIInv, NotifyInStep, NotifyFormed, c
<1>15. NotifyFormed(c) /\ NotifyPlaced(h) /\ NotifyUntried(h) /\ NotifyInHand(h) /\ NotifyTried(h)
  BY DEF NotifyIInv, NotifyInStep, c
<1>16. \A k \in DOMAIN new.pending : k + 1 \in DOMAIN c.pending /\ new.pending[k] = c.pending[k + 1] /\ k \in Nat /\ k > 0
  BY <1>5, <1>6, <1>8
<1>24. new.pending \in Seq(NotifyEventT) /\ (Len(new.pending) = 0 => new.pending = <<>>) /\ DOMAIN new.sent = {}
       /\ DOMAIN c.pending = 1 .. Len(c.pending)
  <2>1. new.pending \in Seq(NotifyEventT)
    BY <1>8 DEF NotifyHandlerT
  <2> QED
    BY <1>5, <1>8, <2>1
<1>17. NotifyFormed(new)
  <2>1. \A k \in DOMAIN new.pending : new.pending[k].strategy = n
    BY <1>2, <1>4, <1>15, <1>16 DEF NotifyFormed
  <2>2. \A k, m \in DOMAIN new.pending :
          new.pending[k].type = "sent" /\ new.pending[k].recipient = new.pending[m].recipient => k = m
    <3> SUFFICES ASSUME NEW k \in DOMAIN new.pending, NEW m \in DOMAIN new.pending, new.pending[k].type = "sent",
                        new.pending[k].recipient = new.pending[m].recipient
                 PROVE  k = m
      OBVIOUS
    <3>1. k + 1 = m + 1
      BY <1>15, <1>16 DEF NotifyFormed
    <3> QED
      BY <1>16, <3>1
  <2>3. DOMAIN new.sent = {} /\ Len(new.pending) = Len(c.pending) - 1 /\ Len(c.pending) \in Nat
    BY <1>5, <1>6, <1>8
  <2>4. CASE Notify!Commands(e) # <<>>
    <3>1. e.type = "submitted" /\ Notify!Commands(e) = Notify!Recipients /\ Len(c.pending) = 1
      BY <1>7, <1>14, <2>4
    <3>2. new.pending = <<>>
      BY <1>24, <2>3, <3>1
    <3> QED
      BY <1>8, <2>2, <2>3, <2>4, <3>1, <3>2, NotifyRecipientsAre DEF NotifyFormed
  <2>5. CASE Notify!Commands(e) = <<>>
    <3>1. CASE e.type = "sent"
      <4>1. \A k \in DOMAIN new.pending : new.pending[k].type = "sent"
        BY <1>14, <1>16, <3>1
      <4> QED
        BY <1>8, <2>1, <2>2, <2>3, <2>5, <4>1 DEF NotifyFormed
    <3>2. CASE e.type = "submitted"
      <4>1. new.pending = <<>>
        BY <1>14, <1>24, <2>3, <3>2
      <4>2. \A k \in DOMAIN new.pending : new.pending[k].type = "sent"
        BY <4>1
      <4> QED
        BY <1>8, <2>1, <2>2, <2>3, <2>5, <4>2 DEF NotifyFormed
    <3>3. CASE e.type = "envelope"
      <4>1. Len(new.pending) = 1 /\ new.pending[1].type = "submitted"
        BY <1>8, <1>14, <1>16, <2>3, <3>3 DEF NotifyHandlerT
      <4> QED
        BY <1>8, <2>1, <2>2, <2>3, <2>5, <4>1 DEF NotifyFormed
    <3> QED
      BY <1>14, <3>1, <3>2, <3>3
  <2> QED
    BY <2>4, <2>5
<1>18. NotifyOpens(h)' => NotifyOpens(h) /\ e.type = "envelope"
  <2> SUFFICES ASSUME NEW k \in DOMAIN new.pending, new.pending[k].type = "submitted"
               PROVE  NotifyOpens(h) /\ e.type = "envelope"
    BY <1>10 DEF NotifyOpens
  <2>1. k + 1 \in DOMAIN c.pending /\ c.pending[k + 1].type = "submitted" /\ k > 0 /\ k \in Nat
    BY <1>16
  <2> QED
    BY <1>4, <1>14, <1>24, <2>1 DEF NotifyOpens, c
<1>19. \A r : NotifyAhead(h, r)' => NotifyAhead(h, r) /\ e.type # "sent"
  <2> SUFFICES ASSUME NEW r, NotifyAhead(h, r)' PROVE NotifyAhead(h, r) /\ e.type # "sent"
    OBVIOUS
  <2>1. CASE NotifyOpens(h)'
    <3>1. ~notify_saved[n].silent /\ r \in NotifyListed
      BY <1>4, <1>8, <1>10, <2>1 DEF NotifyAhead, NotifyListed, NotifyOpens
    <3> QED
      BY <1>2, <1>18, <2>1, <3>1 DEF NotifyAhead, c
  <2>2. CASE ~NotifyOpens(h)'
    <3>1. new.pc = "send" /\ Notify!Commands(e) # <<>> /\ \E k \in DOMAIN Notify!Commands(e) : Notify!Commands(e)[k] = r
      BY <1>8, <1>10, <2>2 DEF NotifyAhead
    <3>2. e.type = "submitted" /\ ~notify_saved[n].silent /\ r \in NotifyListed
      BY <1>7, <3>1, NotifyRecipientsAre
    <3>3. NotifyOpens(h)
      BY <1>4, <1>6, <3>2 DEF NotifyOpens, c
    <3> QED
      BY <1>2, <3>2, <3>3 DEF NotifyAhead, c
  <2> QED
    BY <2>1, <2>2
<1>20. NotifyInStep(h)'
  <2>1. NotifyPlaced(h)'
    BY <1>2, <1>4, <1>5, <1>7, <1>8, <1>10, <1>15 DEF NotifyPlaced, NotifyWorks, c
  <2>2. NotifyUntried(h)'
    BY <1>2, <1>8, <1>10, <1>12, <1>13, <1>14, <1>15, <1>19 DEF NotifyUntried, c
  <2>3. NotifyInHand(h)'
    <3> SUFFICES ASSUME NEW x \in NotifyEventT, NotifyHolds(h, x)'
                 PROVE  /\ x.type = "sent" /\ x.strategy = n /\ x.recipient \in NotifyListed /\ ~notify_saved[n].silent
                        /\ x.delivered <=> NotifyTold(x.strategy, x.recipient)
                        /\ ~NotifyThere("sent", x.strategy, x.recipient)' /\ ~NotifyAhead(h, x.recipient)'
                        /\ new.pc = "record" /\ \E i \in DOMAIN notify_events' : notify_events'[i] = NotifyAsRecorded(x)
      BY <1>4, <1>8, <1>10, <1>13 DEF NotifyInHand, NotifyListed, NotifyEventT
    <3>1. PICK k \in DOMAIN new.pending : new.pending[k] = x /\ x.type = "sent"
      BY <1>10, <1>24 DEF NotifyHolds
    <3>2. k + 1 \in DOMAIN c.pending /\ c.pending[k + 1] = x /\ NotifyHolds(h, x) /\ k + 1 # 1
      BY <1>16, <3>1 DEF NotifyHolds, c
    <3>3. e.type = "sent" /\ e.recipient # x.recipient
      <4>1. e.type = "sent"
        BY <1>14, <1>5, <3>1, <3>2
      <4> QED
        BY <1>6, <1>15, <3>2, <4>1 DEF NotifyFormed
    <3>4. new.pc = "record"
      BY <1>7, <1>8, <3>3
    <3> QED
      BY <1>2, <1>4, <1>5, <1>11, <1>12, <1>15, <1>19, <3>2, <3>3, <3>4 DEF NotifyInHand, c
  <2>4. NotifyTried(h)'
    <3> SUFFICES ASSUME NEW r \in NotifyListed, ~notify_saved[n].silent
                 PROVE  \/ NotifyAhead(h, r)' \/ NotifyThere("sent", n, r)'
                        \/ \E x \in NotifyEventT : NotifyHolds(h, x)' /\ x.recipient = r
      BY <1>4, <1>8, <1>10 DEF NotifyTried, NotifyListed, NotifyEventT
    <3>1. CASE NotifyAhead(h, r)
      <4>1. NotifyOpens(h)
        BY <1>4, <3>1 DEF NotifyAhead, c
      <4>2. e.type # "sent"
        BY <1>14, <4>1 DEF NotifyOpens, c
      <4>3. CASE e.type = "submitted"
        <5>1. new.pc = "send" /\ new.commands = Notify!Recipients
          BY <1>7, <1>8, <4>3, NotifyRecipientsAre
        <5> QED
          BY <1>10, <5>1, NotifyRecipientsAre DEF NotifyAhead
      <4>4. CASE e.type = "envelope"
        <5>1. new.pc = "record" /\ 1 \in DOMAIN new.pending /\ new.pending[1].type = "submitted"
          BY <1>5, <1>6, <1>7, <1>8, <1>14, <1>16, <4>4 DEF NotifyHandlerT
        <5> QED
          BY <1>4, <1>8, <1>10, <5>1 DEF NotifyAhead, NotifyOpens, NotifyListed
      <4> QED
        BY <1>14, <4>2, <4>3, <4>4
    <3>2. CASE NotifyThere("sent", n, r)
      BY <1>12, <3>2
    <3>3. ASSUME NEW x \in NotifyEventT, NotifyHolds(h, x), x.recipient = r
          PROVE  NotifyThere("sent", n, r)' \/ NotifyHolds(h, x)'
      <4>1. PICK k \in DOMAIN c.pending : c.pending[k] = x /\ x.type = "sent"
        BY <1>5, <3>3 DEF NotifyHolds, c
      <4>2. CASE k = 1
        BY <1>6, <1>12, <3>3, <4>1, <4>2
      <4>3. CASE k # 1
        <5>1. k - 1 \in DOMAIN new.pending /\ new.pending[k - 1] = x
          BY <1>5, <1>6, <1>8, <4>1, <4>3
        <5> QED
          BY <1>10, <4>1, <5>1 DEF NotifyHolds
      <4> QED
        BY <4>2, <4>3
    <3> QED
      BY <1>2, <1>5, <1>15, <3>1, <3>2, <3>3 DEF NotifyTried, c
  <2> QED
    BY <1>10, <1>17, <2>1, <2>2, <2>3, <2>4 DEF NotifyInStep
<1>21. NotifyApart'
  BY <1>2, <1>5, <1>8, <1>9, <1>10 DEF NotifyIInv, NotifyApart, NotifyWorks, c
<1>22. NotifyOver'
  BY <1>4, <1>12 DEF NotifyIInv, NotifyOver, NotifyListed
<1>23. NotifyReported'
  <2>1. e.type = "sent" =>
          /\ ~notify_saved[n].silent /\ e.recipient \in NotifyListed /\ (e.delivered <=> NotifyTold(n, e.recipient))
          /\ ~NotifyThere("sent", n, e.recipient) /\ \E j \in DOMAIN notify_events : notify_events[j] = NotifyAsRecorded(e)
    <3>1. e.type = "sent" => NotifyHolds(h, e)
      BY <1>6 DEF NotifyHolds, c
    <3> QED
      BY <1>2, <1>4, <1>5, <1>6, <1>15, <3>1 DEF NotifyInHand, c
  <2>2. e.type # "recorded"
    BY <1>14
  <2>3. \A i \in DOMAIN notify_events' : notify_events'[i].strategy \in DOMAIN notify_saved
    BY <1>5, <1>6, <1>11 DEF NotifyIInv, NotifyReported
  <2>4. ASSUME NEW i \in DOMAIN notify_events, notify_events[i].type \in {"sent", "recorded"}
        PROVE  /\ \A j \in DOMAIN notify_events' :
                    notify_events'[j].type = notify_events[i].type /\ notify_events'[j].strategy = notify_events[i].strategy
                    /\ notify_events'[j].recipient = notify_events[i].recipient => j = i
               /\ notify_events[i].type = "sent" => \E j \in 1 .. i - 1 : notify_events'[j] = NotifyAsRecorded(notify_events[i])
    <3>1. notify_events[i].type = e.type => ~(notify_events[i].strategy = n /\ notify_events[i].recipient = e.recipient)
      BY <2>1, <2>2, <2>4 DEF NotifyThere
    <3>2. \A j \in 1 .. i - 1 : j \in DOMAIN notify_events
      BY <1>11
    <3>3. \A j \in DOMAIN notify_events : notify_events[j].type = notify_events[i].type /\ notify_events[j].strategy = notify_events[i].strategy
                    /\ notify_events[j].recipient = notify_events[i].recipient => j = i
      BY <2>4 DEF NotifyIInv, NotifyReported
    <3>4. notify_events[i].type = "sent" => \E j \in 1 .. i - 1 : notify_events[j] = NotifyAsRecorded(notify_events[i])
      BY <2>4 DEF NotifyIInv, NotifyReported
    <3>5. \A j \in DOMAIN notify_events' : notify_events'[j].type = notify_events[i].type /\ notify_events'[j].strategy = notify_events[i].strategy
                    /\ notify_events'[j].recipient = notify_events[i].recipient => j = i
      BY <1>6, <1>11, <3>1, <3>3
    <3> QED
      BY <1>11, <3>2, <3>4, <3>5
  <2>5. ASSUME NEW i \in DOMAIN notify_events', i \notin DOMAIN notify_events, notify_events'[i].type \in {"sent", "recorded"}
        PROVE  /\ notify_events'[i] = e /\ e.type = "sent"
               /\ \A j \in DOMAIN notify_events' :
                    notify_events'[j].type = notify_events'[i].type /\ notify_events'[j].strategy = notify_events'[i].strategy
                    /\ notify_events'[j].recipient = notify_events'[i].recipient => j = i
               /\ \E j \in 1 .. i - 1 : notify_events'[j] = NotifyAsRecorded(notify_events'[i])
    <3>1. i = Len(notify_events) + 1 /\ notify_events'[i] = e /\ e.type = "sent"
      BY <1>11, <2>2, <2>5
    <3>2. \A j \in DOMAIN notify_events : ~(notify_events[j].type = "sent" /\ notify_events[j].strategy = n /\ notify_events[j].recipient = e.recipient)
      BY <2>1, <3>1 DEF NotifyThere
    <3>3. \E j \in 1 .. i - 1 : notify_events'[j] = NotifyAsRecorded(e)
      BY <1>11, <2>1, <3>1
    <3> QED
      BY <1>6, <1>11, <3>1, <3>2, <3>3
  <2>6. \A i \in DOMAIN notify_events' : notify_events'[i].type \in {"sent", "recorded"} =>
          /\ ~notify_saved[notify_events'[i].strategy].silent /\ notify_events'[i].recipient \in NotifyListed
          /\ notify_events'[i].delivered <=> NotifyTold(notify_events'[i].strategy, notify_events'[i].recipient)
    BY <1>6, <1>11, <2>1, <2>5 DEF NotifyIInv, NotifyReported
  <2>7. \A i \in DOMAIN notify_events' : notify_events'[i].type \in {"sent", "recorded"} =>
          /\ \A j \in DOMAIN notify_events' :
               notify_events'[j].type = notify_events'[i].type /\ notify_events'[j].strategy = notify_events'[i].strategy
               /\ notify_events'[j].recipient = notify_events'[i].recipient => j = i
          /\ notify_events'[i].type = "sent" => \E j \in 1 .. i - 1 : notify_events'[j] = NotifyAsRecorded(notify_events'[i])
    BY <1>11, <2>4, <2>5
  <2> QED
    BY <1>4, <1>13, <2>3, <2>6, <2>7 DEF NotifyIInv, NotifyReported, NotifyListed,
        NotifyAsRecorded
<1> QED
  BY <1>9, <1>10, <1>20, <1>21, <1>22, <1>23 DEF NotifyIInv

\* A command is run: the message reaches its recipient or it does not.
LEMMA NotifySendInv == ASSUME NotifyIInv, NEW h \in notify_Handlers, NEW reached \in BOOLEAN, Notify!Send(h, reached) PROVE NotifyIInv'
<1> DEFINE c == notify_handler[h]
<1>1. PICK n : n = c.strategy
  OBVIOUS
<1>2. PICK r : r = Head(c.commands)
  OBVIOUS
<1>3. PICK e : e = Notify!Event("sent", n, r, reached)
  OBVIOUS
<1>4. PICK new : new = [c EXCEPT !.pc = "store", !.sent = Append(@, e)]
  OBVIOUS
<1>5. /\ c.pc = "send" /\ UNCHANGED <<notify_saved, notify_events>>
      /\ notify_told' = IF reached THEN Append(notify_told, Notify!Message(n, r)) ELSE notify_told
      /\ notify_handler' = [notify_handler EXCEPT ![h] = new]
  <2>1. Notify!Event("sent", c.strategy, Head(c.commands), Notify!Verdict(reached)) = e
    BY <1>1, <1>2, <1>3 DEF Notify!Verdict
  <2> QED
    BY <1>1, <1>2, <1>4, <2>1 DEF Notify!Send, Notify!Becomes
<1>6. /\ c \in NotifyHandlerT /\ n \in Nat /\ c.commands \in Seq(NotifyNames) /\ c.sent \in Seq(NotifyEventT)
      /\ c = [pc |-> "send", strategy |-> n, pending |-> c.pending, commands |-> c.commands, sent |-> c.sent]
      /\ n \in DOMAIN notify_saved /\ NotifyWorks(h) /\ ~notify_saved[n].silent
  BY <1>1, <1>5, NotifyHandlerIs DEF NotifyIInv, NotifyInStep, NotifyPlaced, NotifyWorks
<1>7. NotifyFormed(c) /\ NotifyPlaced(h) /\ NotifyUntried(h) /\ NotifyInHand(h) /\ NotifyTried(h)
  BY DEF NotifyIInv, NotifyInStep
<1>8. /\ c.pending = <<>> /\ c.commands # <<>>
      /\ \A k \in DOMAIN c.commands : c.commands[k] \in NotifyListed
      /\ \A k, m \in DOMAIN c.commands : c.commands[k] = c.commands[m] => k = m
  BY <1>5, <1>7 DEF NotifyFormed
<1>9. r = c.commands[1] /\ 1 \in DOMAIN c.commands /\ r \in NotifyListed /\ r \in NotifyNames
  BY <1>2, <1>6, <1>8
<1>10. /\ e \in NotifyEventT /\ e.type = "sent" /\ e.strategy = n /\ e.recipient = r /\ (e.delivered <=> reached)
  BY <1>3, <1>6, <1>9 DEF Notify!Event, NotifyEventT
<1>11. /\ new \in NotifyHandlerT /\ new.pc = "store" /\ new.strategy = n /\ new.commands = c.commands /\ new.pending = <<>>
       /\ new.sent = Append(c.sent, e)
  <2> DEFINE s == Append(c.sent, e)
  <2>1. new = [[c EXCEPT !.pc = "store"] EXCEPT !.sent = s]
    BY <1>4
  <2>2. s \in Seq(NotifyEventT)
    BY <1>6, <1>10
  <2> HIDE DEF s
  <2>3. [c EXCEPT !.pc = "store"]
        = [pc |-> "store", strategy |-> n, pending |-> c.pending, commands |-> c.commands, sent |-> c.sent]
    BY <1>6
  <2>4. [[pc |-> "store", strategy |-> n, pending |-> c.pending, commands |-> c.commands, sent |-> c.sent]
          EXCEPT !.sent = s]
        = [pc |-> "store", strategy |-> n, pending |-> c.pending, commands |-> c.commands, sent |-> s]
    OBVIOUS
  <2>5. new = [pc |-> "store", strategy |-> n, pending |-> c.pending, commands |-> c.commands, sent |-> s]
    BY <2>1, <2>3, <2>4, Zenon
  <2> QED
    BY <1>6, <1>8, <2>2, <2>5 DEF NotifyHandlerT, s
<1> HIDE DEF c
<1>12. /\ DOMAIN new.sent = 1 .. Len(c.sent) + 1 /\ DOMAIN c.sent = 1 .. Len(c.sent) /\ Len(c.sent) \in Nat
       /\ new.sent[Len(c.sent) + 1] = e /\ Len(new.sent) = Len(c.sent) + 1
       /\ \A k \in DOMAIN c.sent : k \in DOMAIN new.sent /\ new.sent[k] = c.sent[k]
       /\ \A k \in DOMAIN new.sent : k \in DOMAIN c.sent \/ k = Len(c.sent) + 1
       /\ DOMAIN new.pending = {} /\ DOMAIN c.pending = {} /\ \A k \in DOMAIN c.sent : c.sent[k] \in NotifyEventT
  BY <1>6, <1>8, <1>10, <1>11
<1>13. \A x : NotifyHolds(h, x) <=> \E k \in DOMAIN c.sent : c.sent[k] = x
  BY <1>12 DEF NotifyHolds, c
<1>14. NotifyAhead(h, r) /\ \A k \in DOMAIN c.commands : NotifyAhead(h, c.commands[k])
  BY <1>5, <1>9 DEF NotifyAhead, c
<1>15. ~NotifyTold(n, r) /\ ~NotifyThere("sent", n, r) /\ ~NotifyThere("recorded", n, r)
  BY <1>1, <1>7, <1>9, <1>14 DEF NotifyUntried, c
<1>16. \A k \in DOMAIN c.sent : c.sent[k].recipient # r
  BY <1>6, <1>7, <1>12, <1>13, <1>14 DEF NotifyInHand
<1>17. \A g \in notify_Handlers : g # h => NotifyInStep(g)' /\ notify_handler'[g] = notify_handler[g]
  <2>1. \A g \in notify_Handlers : g # h /\ NotifyWorks(g) => notify_handler[g].strategy # n
    BY <1>1, <1>6 DEF NotifyIInv, NotifyApart, c
  <2>2. notify_told \in Seq(NotifyToldT) /\ Notify!Message(n, r) \in NotifyToldT
        /\ Notify!Message(n, r).strategy = n
    BY <1>6, <1>9 DEF NotifyIInv, NotifyTyped, Notify!Message, NotifyToldT
  <2>3. \A k \in DOMAIN notify_told : k \in DOMAIN notify_told' /\ notify_told'[k] = notify_told[k]
    BY <1>5, <2>2
  <2>4. \A k \in DOMAIN notify_told' : k \in DOMAIN notify_told \/ notify_told'[k].strategy = n
    BY <1>5, <2>2
  <2> QED
    BY <1>5, <2>1, <2>3, <2>4, NotifyOthersKeep
<1>18. notify_handler'[h] = new /\ NotifyTyped'
  <2>1. notify_told \in Seq(NotifyToldT) /\ Notify!Message(n, r) \in NotifyToldT
    BY <1>6, <1>9 DEF NotifyIInv, NotifyTyped, Notify!Message, NotifyToldT
  <2>2. notify_told' \in Seq(NotifyToldT)
    BY <1>5, <2>1
  <2> QED
    BY <1>5, <1>11, <2>2 DEF NotifyIInv, NotifyTyped
<1>19. \A s, q : NotifyTold(s, q)' <=> NotifyTold(s, q) \/ (reached /\ s = n /\ q = r)
  <2>1. notify_told \in Seq(NotifyToldT) /\ Notify!Message(n, r) \in NotifyToldT
    BY <1>6, <1>9 DEF NotifyIInv, NotifyTyped, Notify!Message, NotifyToldT
  <2>2. \A s, q : Notify!Message(s, q) = Notify!Message(n, r) <=> s = n /\ q = r
    BY DEF Notify!Message
  <2>3. ASSUME reached
        PROVE  /\ DOMAIN notify_told' = 1 .. Len(notify_told) + 1 /\ notify_told'[Len(notify_told) + 1] = Notify!Message(n, r) /\ Len(notify_told) \in Nat
               /\ \A k \in DOMAIN notify_told : k \in DOMAIN notify_told' /\ notify_told'[k] = notify_told[k]
               /\ \A k \in DOMAIN notify_told' : k \in DOMAIN notify_told \/ k = Len(notify_told) + 1
    BY <1>5, <2>1, <2>3
  <2>4. CASE reached
    BY <2>2, <2>3, <2>4 DEF NotifyTold
  <2>5. CASE ~reached
    BY <1>5, <2>5 DEF NotifyTold
  <2> QED
    BY <2>4, <2>5
<1>20. \A type, s, q : NotifyThere(type, s, q)' <=> NotifyThere(type, s, q)
  BY <1>5 DEF NotifyThere
<1>21. \A q : NotifyAhead(h, q)' => NotifyAhead(h, q) /\ q # r
  <2> SUFFICES ASSUME NEW q, NotifyAhead(h, q)' PROVE NotifyAhead(h, q) /\ q # r
    OBVIOUS
  <2>1. PICK k \in DOMAIN c.commands : k # 1 /\ c.commands[k] = q
    BY <1>11, <1>18 DEF NotifyAhead, NotifyOpens
  <2> QED
    BY <1>8, <1>9, <1>14, <2>1
<1>22. NotifyInStep(h)'
  <2>1. NotifyFormed(new)
    <3>1. \A k, m \in DOMAIN new.sent : new.sent[k].recipient = new.sent[m].recipient => k = m
      <4>1. \A k, m \in DOMAIN c.sent : c.sent[k].recipient = c.sent[m].recipient => k = m
        BY <1>7 DEF NotifyFormed
      <4> SUFFICES ASSUME NEW k \in DOMAIN new.sent, NEW m \in DOMAIN new.sent,
                          new.sent[k].recipient = new.sent[m].recipient
                   PROVE  k = m
        OBVIOUS
      <4>2. CASE k \in DOMAIN c.sent /\ m \in DOMAIN c.sent
        BY <1>12, <4>1, <4>2
      <4>3. CASE k \notin DOMAIN c.sent \/ m \notin DOMAIN c.sent
        BY <1>10, <1>12, <1>16, <4>3
      <4> QED
        BY <4>2, <4>3
    <3>2. new.sent # <<>> /\ new.sent[Len(new.sent)].recipient = new.commands[1]
      BY <1>9, <1>10, <1>11, <1>12
    <3> QED
      BY <1>8, <1>11, <1>12, <3>1, <3>2 DEF NotifyFormed
  <2>2. NotifyPlaced(h)'
    BY <1>1, <1>5, <1>6, <1>7, <1>11, <1>18 DEF NotifyPlaced, NotifyWorks, c
  <2>3. NotifyUntried(h)'
    BY <1>1, <1>7, <1>11, <1>18, <1>19, <1>20, <1>21 DEF NotifyUntried, c
  <2>4. NotifyInHand(h)'
    <3> SUFFICES ASSUME NEW x \in NotifyEventT, NotifyHolds(h, x)'
                 PROVE  /\ x.type = "sent" /\ x.strategy = n /\ x.recipient \in NotifyListed
                        /\ x.delivered <=> NotifyTold(x.strategy, x.recipient)'
                        /\ ~NotifyThere("sent", x.strategy, x.recipient) /\ ~NotifyAhead(h, x.recipient)'
                        /\ x.recipient = r => ~NotifyThere("recorded", x.strategy, x.recipient)
                        /\ x.recipient = r \/ \E i \in DOMAIN notify_events : notify_events[i] = NotifyAsRecorded(x)
      BY <1>5, <1>6, <1>9, <1>11, <1>18, <1>20 DEF NotifyInHand, NotifyListed, NotifyEventT
    <3>1. PICK k \in DOMAIN new.sent : new.sent[k] = x
      BY <1>12, <1>18 DEF NotifyHolds
    <3>2. CASE k = Len(c.sent) + 1
      BY <1>9, <1>10, <1>12, <1>15, <1>19, <1>21, <3>1, <3>2
    <3>3. CASE k \in DOMAIN c.sent
      <4>1. NotifyHolds(h, x) /\ x.recipient # r
        BY <1>12, <1>13, <1>16, <3>1, <3>3
      <4> QED
        BY <1>1, <1>5, <1>6, <1>7, <1>19, <1>21, <4>1 DEF NotifyInHand, c
    <3> QED
      BY <1>12, <3>2, <3>3
  <2>5. NotifyTried(h)'
    <3> SUFFICES ASSUME NEW q \in NotifyListed
                 PROVE  \/ NotifyAhead(h, q)' \/ NotifyThere("sent", n, q)
                        \/ \E x \in NotifyEventT : NotifyHolds(h, x)' /\ x.recipient = q
      BY <1>5, <1>11, <1>18, <1>20 DEF NotifyTried, NotifyListed, NotifyEventT
    <3>1. CASE q = r
      <4>1. NotifyHolds(h, e)'
        BY <1>12, <1>18 DEF NotifyHolds
      <4> QED
        BY <1>10, <3>1, <4>1
    <3>2. CASE q # r /\ NotifyAhead(h, q)
      <4>1. PICK k \in DOMAIN c.commands : c.commands[k] = q
        BY <1>5, <3>2 DEF NotifyAhead, NotifyOpens, c
      <4>2. k # 1
        BY <1>9, <3>2, <4>1
      <4> QED
        BY <1>11, <1>18, <4>1, <4>2 DEF NotifyAhead
    <3>3. ASSUME NEW x \in NotifyEventT, NotifyHolds(h, x) PROVE NotifyHolds(h, x)'
      BY <1>12, <1>13, <1>18, <3>3 DEF NotifyHolds
    <3> QED
      BY <1>1, <1>6, <1>7, <3>1, <3>2, <3>3 DEF NotifyTried, c
  <2> QED
    BY <1>18, <2>1, <2>2, <2>3, <2>4, <2>5 DEF NotifyInStep
<1>23. NotifyApart'
  BY <1>1, <1>6, <1>11, <1>17, <1>18 DEF NotifyIInv, NotifyApart, NotifyWorks, c
<1>24. NotifyOver'
  BY <1>5, <1>20 DEF NotifyIInv, NotifyOver, NotifyListed
<1>25. NotifyReported'
  <2>1. \A k \in DOMAIN notify_told' : notify_told'[k].strategy \in DOMAIN notify_saved
    <3>1. notify_told \in Seq(NotifyToldT) /\ Notify!Message(n, r) \in NotifyToldT
          /\ Notify!Message(n, r).strategy = n
      BY <1>6, <1>9 DEF NotifyIInv, NotifyTyped, Notify!Message, NotifyToldT
    <3>2. \A k \in DOMAIN notify_told' : notify_told'[k].strategy = n \/ (k \in DOMAIN notify_told /\ notify_told'[k] = notify_told[k])
      BY <1>5, <3>1
    <3> QED
      BY <1>6, <3>2 DEF NotifyIInv, NotifyReported
  <2>2. \A i \in DOMAIN notify_events : notify_events[i].type \in {"sent", "recorded"} =>
          ~(notify_events[i].strategy = n /\ notify_events[i].recipient = r)
    BY <1>15 DEF NotifyThere
  <2> QED
    BY <1>5, <1>19, <2>1, <2>2 DEF NotifyIInv, NotifyReported, NotifyListed, NotifyAsRecorded
<1> QED
  BY <1>17, <1>18, <1>22, <1>23, <1>24, <1>25 DEF NotifyIInv

\* What came of a command is stored.
LEMMA NotifyStoreInv == ASSUME NotifyIInv, NEW h \in notify_Handlers, Notify!Store(h) PROVE NotifyIInv'
<1> DEFINE c == notify_handler[h]
           L == Len(c.sent)
<1>1. PICK n : n = c.strategy
  OBVIOUS
<1>2. PICK x : x = c.sent[L]
  OBVIOUS
<1>3. PICK e : e = NotifyAsRecorded(x)
  OBVIOUS
<1>4. PICK new : new = Notify!AfterHandling([c EXCEPT !.commands = Tail(@)])
  OBVIOUS
<1>5. /\ c.pc = "store" /\ UNCHANGED <<notify_saved, notify_told>>
      /\ notify_events' = Append(notify_events, e)
      /\ notify_handler' = [notify_handler EXCEPT ![h] = new]
  BY <1>2, <1>3, <1>4 DEF Notify!Store, Notify!Becomes, Notify!Last, NotifyAsRecorded
<1>6. /\ c \in NotifyHandlerT /\ n \in Nat /\ c.commands \in Seq(NotifyNames) /\ c.sent \in Seq(NotifyEventT)
      /\ c = [pc |-> "store", strategy |-> n, pending |-> c.pending, commands |-> c.commands, sent |-> c.sent]
      /\ n \in DOMAIN notify_saved /\ NotifyWorks(h) /\ ~notify_saved[n].silent
  BY <1>1, <1>5, NotifyHandlerIs DEF NotifyIInv, NotifyInStep, NotifyPlaced, NotifyWorks
<1>7. NotifyFormed(c) /\ NotifyPlaced(h) /\ NotifyUntried(h) /\ NotifyInHand(h) /\ NotifyTried(h)
  BY DEF NotifyIInv, NotifyInStep
<1>8. /\ c.pending = <<>> /\ c.commands # <<>> /\ c.sent # <<>> /\ c.sent[L].recipient = c.commands[1]
      /\ \A k \in DOMAIN c.commands : c.commands[k] \in NotifyListed
      /\ \A k, m \in DOMAIN c.commands : c.commands[k] = c.commands[m] => k = m
  BY <1>5, <1>7 DEF NotifyFormed
<1>9. /\ L \in DOMAIN c.sent /\ L \in Nat /\ DOMAIN c.sent = 1 .. L /\ \A k \in DOMAIN c.sent : c.sent[k] \in NotifyEventT
      /\ 1 \in DOMAIN c.commands /\ DOMAIN c.commands = 1 .. Len(c.commands) /\ DOMAIN c.pending = {}
      /\ Tail(c.commands) \in Seq(NotifyNames)
      /\ \A k \in DOMAIN Tail(c.commands) : k + 1 \in DOMAIN c.commands /\ Tail(c.commands)[k] = c.commands[k + 1] /\ k \in Nat /\ k > 0
      /\ \A k \in DOMAIN c.commands : k # 1 => k - 1 \in DOMAIN Tail(c.commands) /\ Tail(c.commands)[k - 1] = c.commands[k]
  BY <1>6, <1>8
<1>10. \A y : NotifyHolds(h, y) <=> \E k \in DOMAIN c.sent : c.sent[k] = y
  BY <1>9 DEF NotifyHolds
<1>11. /\ x \in NotifyEventT /\ NotifyHolds(h, x) /\ x.type = "sent" /\ x.strategy = n /\ x.recipient \in NotifyListed /\ x.recipient = c.commands[1]
       /\ x.delivered <=> NotifyTold(n, x.recipient)
       /\ ~NotifyThere("sent", n, x.recipient) /\ ~NotifyAhead(h, x.recipient) /\ ~NotifyThere("recorded", n, x.recipient)
  BY <1>1, <1>2, <1>5, <1>6, <1>7, <1>8, <1>9, <1>10 DEF NotifyInHand
<1>12. /\ e \in NotifyEventT /\ e.type = "recorded" /\ e.strategy = n /\ e.recipient = x.recipient /\ (e.delivered <=> x.delivered)
  <2>1. x = [type |-> x.type, strategy |-> x.strategy, recipient |-> x.recipient, delivered |-> x.delivered]
    BY <1>11 DEF NotifyEventT
  <2>2. e = [type |-> "recorded", strategy |-> x.strategy, recipient |-> x.recipient, delivered |-> x.delivered]
    BY <1>3, <2>1 DEF NotifyAsRecorded
  <2> QED
    BY <1>11, <2>2 DEF NotifyEventT
<1>13. /\ new \in NotifyHandlerT /\ new.strategy = n /\ new.commands = Tail(c.commands)
       /\ IF Tail(c.commands) # <<>> THEN new.pc = "send" /\ new.pending = <<>> /\ new.sent = c.sent
          ELSE new.pc = "record" /\ new.pending = c.sent /\ new.sent = <<>>
  <2> DEFINE t == Tail(c.commands)
             q == [pc |-> "store", strategy |-> n, pending |-> c.pending, commands |-> t, sent |-> c.sent]
  <2>1. new = Notify!AfterHandling([c EXCEPT !.commands = t])
    BY <1>4
  <2>2. t \in Seq(NotifyNames)
    BY <1>9
  <2> HIDE DEF t
  <2>3. [c EXCEPT !.commands = t] = q
    BY <1>6
  <2>4. q \in NotifyHandlerT
    BY <1>6, <2>2 DEF NotifyHandlerT
  <2>5. q.commands = t /\ q.pending = c.pending /\ q.sent = c.sent /\ q.strategy = n
    OBVIOUS
  <2>6. c.pending \o c.sent = c.sent
    BY <1>6, <1>8
  <2> HIDE DEF q, c
  <2>7. new = IF t # <<>>
              THEN [pc |-> "send", strategy |-> n, pending |-> c.pending, commands |-> t, sent |-> c.sent]
              ELSE [pc |-> "record", strategy |-> n, pending |-> c.sent, commands |-> t, sent |-> <<>>]
    BY <2>1, <2>3, <2>4, <2>5, <2>6, NotifyHandlingIs
  <2>8. c.pending \in Seq(NotifyEventT) /\ c.pending = <<>>
    BY <1>6, <1>8
  <2> QED
    BY <1>6, <2>2, <2>7, <2>8 DEF NotifyHandlerT, t
<1> HIDE DEF c, L
<1>14. \A g \in notify_Handlers : g # h => NotifyInStep(g)' /\ notify_handler'[g] = notify_handler[g]
  <2>1. \A g \in notify_Handlers : g # h /\ NotifyWorks(g) => notify_handler[g].strategy # n
    BY <1>1, <1>6 DEF NotifyIInv, NotifyApart, c
  <2>2. \A i \in DOMAIN notify_events : i \in DOMAIN notify_events' /\ notify_events'[i] = notify_events[i]
    BY <1>5, <1>12 DEF NotifyIInv, NotifyTyped
  <2>3. \A i \in DOMAIN notify_events' : i \in DOMAIN notify_events \/ notify_events'[i].strategy = n
    BY <1>5, <1>12 DEF NotifyIInv, NotifyTyped
  <2> QED
    BY <1>5, <2>1, <2>2, <2>3, NotifyOthersKeep
<1>15. notify_handler'[h] = new /\ NotifyTyped'
  BY <1>5, <1>12, <1>13 DEF NotifyIInv, NotifyTyped
<1>16. /\ notify_events \in Seq(NotifyEventT) /\ Len(notify_events) \in Nat /\ DOMAIN notify_events' = 1 .. Len(notify_events) + 1 /\ DOMAIN notify_events = 1 .. Len(notify_events)
       /\ notify_events'[Len(notify_events) + 1] = e /\ \A i \in DOMAIN notify_events : i \in DOMAIN notify_events' /\ notify_events'[i] = notify_events[i]
       /\ \A i \in DOMAIN notify_events' : i \in DOMAIN notify_events \/ i = Len(notify_events) + 1
  BY <1>5, <1>12 DEF NotifyIInv, NotifyTyped
<1>17. \A type, s, r : NotifyThere(type, s, r)' <=> NotifyThere(type, s, r) \/ (type = "recorded" /\ s = n /\ r = x.recipient)
  BY <1>12, <1>16 DEF NotifyThere
<1>18. \A s, r : NotifyTold(s, r)' <=> NotifyTold(s, r)
  BY <1>5 DEF NotifyTold
<1>19. \A y : NotifyHolds(h, y) => y \in NotifyEventT /\ y.type = "sent" /\ y.strategy = n
  BY <1>1, <1>6, <1>7, <1>9, <1>10 DEF NotifyInHand, c
<1>20. \A y : NotifyHolds(h, y)' <=> NotifyHolds(h, y)
  <2>1. CASE Tail(c.commands) # <<>>
    <3>1. DOMAIN new.pending = {} /\ new.sent = c.sent
      BY <1>13, <2>1
    <3> QED
      BY <1>10, <1>15, <3>1 DEF NotifyHolds
  <2>2. CASE Tail(c.commands) = <<>>
    <3>1. DOMAIN new.sent = {} /\ new.pending = c.sent
      BY <1>13, <2>2
    <3> QED
      BY <1>10, <1>15, <1>19, <3>1 DEF NotifyHolds
  <2> QED
    BY <2>1, <2>2
<1>21. \A r : NotifyAhead(h, r)' <=> NotifyAhead(h, r)
  <2>1. ~NotifyOpens(h)'
    <3>1. CASE Tail(c.commands) # <<>>
      BY <1>13, <1>15, <3>1 DEF NotifyOpens
    <3>2. CASE Tail(c.commands) = <<>>
      <4>1. \A k \in DOMAIN c.sent : c.sent[k].type = "sent"
        BY <1>10, <1>19
      <4> QED
        BY <1>13, <1>15, <3>2, <4>1 DEF NotifyOpens
    <3> QED
      BY <3>1, <3>2
  <2>2. \A r : NotifyAhead(h, r) <=> \E k \in DOMAIN c.commands : k # 1 /\ c.commands[k] = r
    BY <1>5 DEF NotifyAhead, NotifyOpens, c
  <2>3. \A r : NotifyAhead(h, r)' <=> \E k \in DOMAIN Tail(c.commands) : Tail(c.commands)[k] = r
    <3>1. CASE Tail(c.commands) # <<>>
      BY <1>13, <1>15, <2>1, <3>1 DEF NotifyAhead
    <3>2. CASE Tail(c.commands) = <<>>
      <4>1. DOMAIN Tail(c.commands) = {}
        BY <3>2
      <4> QED
        BY <1>13, <1>15, <2>1, <3>2, <4>1 DEF NotifyAhead
    <3> QED
      BY <3>1, <3>2
  <2>4. ASSUME NEW k \in DOMAIN Tail(c.commands) PROVE k + 1 \in DOMAIN c.commands /\ k + 1 # 1 /\ c.commands[k + 1] = Tail(c.commands)[k]
    BY <1>9
  <2> QED
    BY <1>9, <2>2, <2>3, <2>4
<1>22. NotifyInStep(h)'
  <2>1. NotifyFormed(new)
    <3>1. \A k, m \in DOMAIN c.sent : c.sent[k].recipient = c.sent[m].recipient => k = m
      BY <1>7 DEF NotifyFormed
    <3>2. CASE Tail(c.commands) # <<>>
      <4>1. DOMAIN new.pending = {}
        BY <1>13, <3>2
      <4>2. \A k \in DOMAIN new.commands : new.commands[k] \in NotifyListed
        BY <1>8, <1>9, <1>13
      <4>3. \A k, m \in DOMAIN new.commands : new.commands[k] = new.commands[m] => k = m
        <5> SUFFICES ASSUME NEW k \in DOMAIN new.commands, NEW m \in DOMAIN new.commands,
                            new.commands[k] = new.commands[m]
                     PROVE  k = m
          OBVIOUS
        <5>1. k + 1 = m + 1 /\ k \in Nat /\ m \in Nat
          BY <1>8, <1>9, <1>13
        <5> QED
          BY <5>1
      <4> QED
        BY <1>13, <3>1, <3>2, <4>1, <4>2, <4>3 DEF NotifyFormed
    <3>3. CASE Tail(c.commands) = <<>>
      <4>1. DOMAIN new.sent = {} /\ \A k \in DOMAIN new.pending : new.pending[k].type = "sent" /\ new.pending[k].strategy = n
        BY <1>10, <1>13, <1>19, <3>3
      <4> QED
        BY <1>13, <3>1, <3>3, <4>1 DEF NotifyFormed
    <3> QED
      BY <3>2, <3>3
  <2>2. NotifyPlaced(h)'
    BY <1>1, <1>5, <1>6, <1>7, <1>13, <1>15 DEF NotifyPlaced, NotifyWorks, c
  <2>3. NotifyUntried(h)'
    BY <1>1, <1>7, <1>11, <1>13, <1>15, <1>17, <1>18, <1>21 DEF NotifyUntried, c
  <2>4. NotifyInHand(h)'
    <3> SUFFICES ASSUME NEW y \in NotifyEventT, NotifyHolds(h, y)
                 PROVE  /\ y.type = "sent" /\ y.strategy = n /\ y.recipient \in NotifyListed
                        /\ y.delivered <=> NotifyTold(y.strategy, y.recipient)
                        /\ ~NotifyThere("sent", y.strategy, y.recipient) /\ ~NotifyAhead(h, y.recipient)
                        /\ new.pc # "store" /\ \E i \in DOMAIN notify_events' : notify_events'[i] = NotifyAsRecorded(y)
      BY <1>5, <1>6, <1>13, <1>15, <1>17, <1>18, <1>20, <1>21 DEF NotifyInHand, NotifyListed,
          NotifyEventT
    <3>1. new.pc # "store"
      BY <1>13
    <3>2. CASE y = x
      BY <1>3, <1>11, <1>16, <3>1, <3>2
    <3>3. CASE y # x
      <4>1. PICK k \in DOMAIN c.sent : c.sent[k] = y
        BY <1>10
      <4>2. y.recipient # c.commands[1]
        BY <1>2, <1>7, <1>8, <1>9, <3>3, <4>1 DEF NotifyFormed
      <4> QED
        BY <1>1, <1>6, <1>7, <1>16, <3>1, <4>2 DEF NotifyInHand, c
    <3> QED
      BY <3>2, <3>3
  <2>5. NotifyTried(h)'
    BY <1>1, <1>5, <1>6, <1>7, <1>13, <1>15, <1>17, <1>20, <1>21 DEF NotifyTried, NotifyListed,
        NotifyEventT, c
  <2> QED
    BY <1>15, <2>1, <2>2, <2>3, <2>4, <2>5 DEF NotifyInStep
<1>23. NotifyApart'
  BY <1>1, <1>6, <1>13, <1>14, <1>15 DEF NotifyIInv, NotifyApart, NotifyWorks, c
<1>24. NotifyOver'
  BY <1>5, <1>17 DEF NotifyIInv, NotifyOver, NotifyListed
<1>25. NotifyReported'
  <2>1. \A i \in DOMAIN notify_events' : notify_events'[i].strategy \in DOMAIN notify_saved
    BY <1>6, <1>12, <1>16 DEF NotifyIInv, NotifyReported
  <2>2. ASSUME NEW i \in DOMAIN notify_events, notify_events[i].type \in {"sent", "recorded"}
        PROVE  /\ \A j \in DOMAIN notify_events' :
                    notify_events'[j].type = notify_events[i].type /\ notify_events'[j].strategy = notify_events[i].strategy
                    /\ notify_events'[j].recipient = notify_events[i].recipient => j = i
               /\ notify_events[i].type = "sent" => \E j \in 1 .. i - 1 : notify_events'[j] = NotifyAsRecorded(notify_events[i])
    <3>1. notify_events[i].type = e.type => ~(notify_events[i].strategy = n /\ notify_events[i].recipient = e.recipient)
      BY <1>11, <1>12 DEF NotifyThere
    <3>2. \A j \in 1 .. i - 1 : j \in DOMAIN notify_events
      BY <1>16
    <3>3. \A j \in DOMAIN notify_events : notify_events[j].type = notify_events[i].type /\ notify_events[j].strategy = notify_events[i].strategy
                    /\ notify_events[j].recipient = notify_events[i].recipient => j = i
      BY <2>2 DEF NotifyIInv, NotifyReported
    <3>4. notify_events[i].type = "sent" => \E j \in 1 .. i - 1 : notify_events[j] = NotifyAsRecorded(notify_events[i])
      BY <2>2 DEF NotifyIInv, NotifyReported
    <3>5. \A j \in DOMAIN notify_events' : notify_events'[j].type = notify_events[i].type /\ notify_events'[j].strategy = notify_events[i].strategy
                    /\ notify_events'[j].recipient = notify_events[i].recipient => j = i
      BY <1>12, <1>16, <3>1, <3>3
    <3> QED
      BY <1>16, <3>2, <3>4, <3>5
  <2>3. ASSUME NEW i \in DOMAIN notify_events', i \notin DOMAIN notify_events
        PROVE  /\ notify_events'[i] = e
               /\ \A j \in DOMAIN notify_events' :
                    notify_events'[j].type = notify_events'[i].type /\ notify_events'[j].strategy = notify_events'[i].strategy
                    /\ notify_events'[j].recipient = notify_events'[i].recipient => j = i
    <3>1. i = Len(notify_events) + 1 /\ notify_events'[i] = e
      BY <1>16, <2>3
    <3>2. \A j \in DOMAIN notify_events : ~(notify_events[j].type = "recorded" /\ notify_events[j].strategy = n /\ notify_events[j].recipient = e.recipient)
      BY <1>11, <1>12 DEF NotifyThere
    <3> QED
      BY <1>12, <1>16, <3>1, <3>2
  <2>4. \A i \in DOMAIN notify_events' : notify_events'[i].type \in {"sent", "recorded"} =>
          /\ ~notify_saved[notify_events'[i].strategy].silent /\ notify_events'[i].recipient \in NotifyListed
          /\ notify_events'[i].delivered <=> NotifyTold(notify_events'[i].strategy, notify_events'[i].recipient)
    BY <1>6, <1>11, <1>12, <1>16, <2>3 DEF NotifyIInv, NotifyReported
  <2>5. \A i \in DOMAIN notify_events' : notify_events'[i].type \in {"sent", "recorded"} =>
          /\ \A j \in DOMAIN notify_events' :
               notify_events'[j].type = notify_events'[i].type /\ notify_events'[j].strategy = notify_events'[i].strategy
               /\ notify_events'[j].recipient = notify_events'[i].recipient => j = i
          /\ notify_events'[i].type = "sent" => \E j \in 1 .. i - 1 : notify_events'[j] = NotifyAsRecorded(notify_events'[i])
    BY <1>12, <1>16, <2>2, <2>3
  <2> QED
    BY <1>5, <1>18, <2>1, <2>4, <2>5 DEF NotifyIInv, NotifyReported, NotifyListed,
        NotifyAsRecorded
<1> QED
  BY <1>14, <1>15, <1>22, <1>23, <1>24, <1>25 DEF NotifyIInv

LEMMA NotifyStepInv == ASSUME NotifyIInv, [Notify!Next]_(Notify!vars) PROVE NotifyIInv'
<1>1. ASSUME NEW h \in notify_Handlers, NEW silent \in BOOLEAN, Notify!Submit(h, silent) PROVE NotifyIInv'
  BY <1>1, NotifySubmitInv
<1>2. ASSUME NEW h \in notify_Handlers, NEW reached \in BOOLEAN, Notify!Send(h, reached) PROVE NotifyIInv'
  BY <1>2, NotifySendInv
<1>3. ASSUME NEW h \in notify_Handlers, Notify!Record(h) \/ Notify!Store(h) \/ Notify!Consume(h) \/ Notify!Fail(h) PROVE NotifyIInv'
  BY <1>3, NotifyRecordInv, NotifyStoreInv, NotifyConsumeInv, NotifyFailInv
<1>4. ASSUME UNCHANGED Notify!vars PROVE NotifyIInv'
  <2>1. \A type, s, r : NotifyThere(type, s, r)' <=> NotifyThere(type, s, r)
    BY <1>4 DEF Notify!vars, NotifyThere
  <2>2. \A s, r : NotifyTold(s, r)' <=> NotifyTold(s, r)
    BY <1>4 DEF Notify!vars, NotifyTold
  <2>3. \A h : (NotifyWorks(h)' <=> NotifyWorks(h)) /\ (NotifyOpens(h)' <=> NotifyOpens(h)) /\ (\A x : NotifyHolds(h, x)' <=> NotifyHolds(h, x))
    BY <1>4 DEF Notify!vars, NotifyWorks, NotifyOpens, NotifyHolds
  <2>4. \A h, r : NotifyAhead(h, r)' <=> NotifyAhead(h, r)
    BY <1>4, <2>3 DEF Notify!vars, NotifyAhead, NotifyListed
  <2>5. ASSUME NEW h \in notify_Handlers PROVE NotifyInStep(h)'
    <3>1. NotifyFormed(notify_handler[h]) /\ NotifyPlaced(h) /\ NotifyUntried(h) /\ NotifyInHand(h) /\ NotifyTried(h)
      BY DEF NotifyIInv, NotifyInStep
    <3>2. notify_handler' = notify_handler /\ notify_saved' = notify_saved /\ notify_events' = notify_events
      BY <1>4 DEF Notify!vars
    <3>3. NotifyPlaced(h)' /\ NotifyUntried(h)' /\ NotifyTried(h)'
      BY <2>1, <2>2, <2>3, <2>4, <3>1, <3>2 DEF NotifyPlaced, NotifyUntried, NotifyTried,
          NotifyListed, NotifyEventT
    <3>4. NotifyInHand(h)'
      BY <2>1, <2>2, <2>3, <2>4, <3>1, <3>2 DEF NotifyInHand, NotifyListed, NotifyEventT,
          NotifyAsRecorded
    <3> QED
      BY <3>1, <3>2, <3>3, <3>4 DEF NotifyInStep
  <2>6. NotifyTyped' /\ NotifyApart' /\ NotifyOver' /\ NotifyReported'
    BY <1>4, <2>1, <2>2, <2>3 DEF Notify!vars, NotifyIInv, NotifyTyped, NotifyApart, NotifyOver,
        NotifyReported, NotifyListed, NotifyAsRecorded
  <2> QED
    BY <2>5, <2>6 DEF NotifyIInv
<1> QED
  BY <1>1, <1>2, <1>3, <1>4 DEF Notify!Next

\* A table with one event of a kind per recipient has as many as there are recipients.
LEMMA NotifyOneEach ==
  ASSUME NEW S, \A r \in NotifyListed : \E i \in S : notify_events[i].recipient = r, \A i \in S : notify_events[i].recipient \in NotifyListed,
         \A i, j \in S : notify_events[i].recipient = notify_events[j].recipient => i = j
  PROVE  Cardinality(S) = Len(Notify!Recipients)
<1>1. CASE notify_ChiefIsOwner
  <2>1. NotifyListed = {"owner"} /\ Len(Notify!Recipients) = 1
    BY <1>1 DEF NotifyListed, Notify!Recipients
  <2>2. PICK i \in S : TRUE
    BY <2>1
  <2>3. S = {i}
    BY <2>1
  <2> QED
    BY <2>1, <2>3, FS_Singleton, NotifyCounting
<1>2. CASE ~notify_ChiefIsOwner
  <2>1. NotifyListed = {"owner", "chief"} /\ Len(Notify!Recipients) = 2
    BY <1>2 DEF NotifyListed, Notify!Recipients, NotifyNames
  <2>2. PICK i \in S : notify_events[i].recipient = "owner"
    BY <2>1
  <2>3. PICK j \in S : notify_events[j].recipient = "chief"
    BY <2>1
  <2>4. S = {i} \cup {j} /\ j \notin {i}
    BY <2>1, <2>2, <2>3
  <2>5. IsFiniteSet({i}) /\ Cardinality({i}) = 1
    BY FS_Singleton
  <2>6. Cardinality({i} \cup {j}) = 1 + 1
    BY <2>4, <2>5, FS_AddElement
  <2> QED
    BY <2>1, <2>4, <2>6, NotifyCounting
<1> QED
  BY <1>1, <1>2

LEMMA NotifyInvTold == ASSUME NotifyIInv PROVE Notify!SentIsTold
<1>1. ASSUME NEW i \in DOMAIN notify_events, notify_events[i].type = "sent"
      PROVE  /\ \E j \in 1 .. i - 1 : notify_events[j] = [notify_events[i] EXCEPT !.type = "recorded"]
             /\ \A j \in DOMAIN notify_events : notify_events[j] = notify_events[i] => j = i
             /\ notify_events[i].delivered <=> \E k \in DOMAIN notify_told : notify_told[k] = Notify!Message(notify_events[i].strategy, notify_events[i].recipient)
  BY <1>1 DEF NotifyIInv, NotifyReported, NotifyAsRecorded, NotifyTold
<1>2. ASSUME NEW n \in DOMAIN notify_saved, notify_saved[n].consumed
      PROVE  /\ Cardinality(Notify!Of(n, "sent")) = IF notify_saved[n].silent THEN 0 ELSE Len(Notify!Recipients)
             /\ Cardinality(Notify!Of(n, "recorded")) = Cardinality(Notify!Of(n, "sent"))
  <2>1. CASE notify_saved[n].silent
    <3>1. Notify!Of(n, "sent") = {} /\ Notify!Of(n, "recorded") = {}
      BY <2>1 DEF NotifyIInv, NotifyReported, Notify!Of
    <3>2. Cardinality({}) = 0
      BY FS_EmptySet, NotifyCounting
    <3> QED
      BY <2>1, <3>1, <3>2
  <2>2. CASE ~notify_saved[n].silent
    <3>1. ASSUME NEW type \in {"sent", "recorded"}
          PROVE  /\ \A i \in Notify!Of(n, type) : notify_events[i].recipient \in NotifyListed
                 /\ \A i, j \in Notify!Of(n, type) : notify_events[i].recipient = notify_events[j].recipient => i = j
      BY <3>1 DEF NotifyIInv, NotifyReported, Notify!Of
    <3>2. \A r \in NotifyListed : \E i \in Notify!Of(n, "sent") : notify_events[i].recipient = r
      BY <1>2, <2>2 DEF NotifyIInv, NotifyOver, NotifyThere, Notify!Of
    <3>3. \A r \in NotifyListed : \E i \in Notify!Of(n, "recorded") : notify_events[i].recipient = r
      <4> SUFFICES ASSUME NEW r \in NotifyListed PROVE \E i \in Notify!Of(n, "recorded") : notify_events[i].recipient = r
        OBVIOUS
      <4>1. PICK i \in Notify!Of(n, "sent") : notify_events[i].recipient = r
        BY <3>2
      <4>2. i \in DOMAIN notify_events /\ notify_events[i] \in NotifyEventT /\ notify_events[i].type = "sent" /\ notify_events[i].strategy = n
        BY <4>1 DEF Notify!Of, NotifyIInv, NotifyTyped
      <4>3. PICK j \in 1 .. i - 1 : notify_events[j] = NotifyAsRecorded(notify_events[i])
        BY <4>2 DEF NotifyIInv, NotifyReported
      <4>4. j \in DOMAIN notify_events
        BY <4>2, <4>3 DEF NotifyIInv, NotifyTyped
      <4>5. NotifyAsRecorded(notify_events[i]).type = "recorded" /\ NotifyAsRecorded(notify_events[i]).strategy = n /\ NotifyAsRecorded(notify_events[i]).recipient = r
        BY <4>1, <4>2 DEF NotifyAsRecorded, NotifyEventT
      <4> QED
        BY <4>3, <4>4, <4>5 DEF Notify!Of
    <3>4. Cardinality(Notify!Of(n, "sent")) = Len(Notify!Recipients)
      BY <3>1, <3>2, NotifyOneEach
    <3>5. Cardinality(Notify!Of(n, "recorded")) = Len(Notify!Recipients)
      BY <3>1, <3>3, NotifyOneEach
    <3> QED
      BY <2>2, <3>4, <3>5
  <2> QED
    BY <2>1, <2>2
<1> QED
  BY <1>1, <1>2, NotifyCounting DEF Notify!SentIsTold

\* Only its own steps touch Notification's variables.
LEMMA NotifySteps == [Next]_vars => [Notify!Next]_(Notify!vars)
BY DEF Next, vars, wakeVars, priceVars, claimVars, alertVars, retainVars, learnVars, notifyVars,
    deskVars, Notify!vars

-----------------------------------------------------------------------------
\* Two pulls take the same event only if they overlapped
\* (claim_pending_pm_trigger_event): for finitely many wakes, whatever the window
\* of saved events a claim looks back over.
THEOREM ClaimedOnceAlways == Spec => []ClaimedOnce
<1>1. Init => ClaimIInv
  BY ClaimInitInv DEF Init
<1>2. ClaimIInv /\ [Next]_vars => ClaimIInv'
  BY ClaimSteps, ClaimStepInv
<1>3. ClaimIInv => ClaimedOnce
  BY ClaimInvClaimedOnce DEF ClaimedOnce
<1> QED
  BY <1>1, <1>2, <1>3, PTL DEF Spec

\* However many strategies, subscriptions and scans cut off there are, the PM is
\* sent a subscription a second time only after its mark was lost, and its messages are
\* a cooldown apart but for scans cut off before they noted the time (scan_once).
THEOREM PriceSentOnceAlways == Spec => []PriceSentOnce
<1>1. Init => PriceIInv
  BY PriceInitIInv DEF Init
<1>2. PriceIInv /\ [Next]_vars => PriceIInv'
  BY PriceSteps, PriceInductiveStep
<1>3. PriceIInv => PriceSentOnce
  BY DEF PriceIInv, PriceSentOnce
<1> QED
  BY <1>1, <1>2, <1>3, PTL DEF Spec

\* Whatever the rules, the calendar times and the scans cut off: two messages of a
\* rule are a cooldown apart, and a calendar time wakes an agent once unless the scan
\* that sent the first was cut off (agent_wake scan_once).
THEOREM WakesOnceAlways == Spec => []WakesOnce
<1>1. Init => WakeIInv
  BY WakeInitInv DEF Init
<1>2. WakeIInv /\ [Next]_vars => WakeIInv'
  BY WakeSteps, WakeStepInv
<1>3. WakeIInv => WakesOnce
  BY WakeInvWakesOnce DEF WakesOnce
<1> QED
  BY <1>1, <1>2, <1>3, PTL DEF Spec

\* The owner hears of a failure once in a cooldown, however many lines and scans there
\* are, unless a scan was cut off before it saved (agent_failure_alert scan_once).
THEOREM ToldOnceAlways == Spec => []ToldOncePerCooldown
<1>1. Init => AlertIInv
  BY AlertInitInv DEF Init
<1>2. AlertIInv /\ [Next]_vars => AlertIInv'
  BY AlertSteps, AlertStepInv
<1>3. AlertIInv => ToldOncePerCooldown
  BY AlertInvTold DEF ToldOncePerCooldown
<1> QED
  BY <1>1, <1>2, <1>3, PTL DEF Spec

\* Readers that look back no further than a kind of rows lives read as if no row had
\* ever been deleted, for every kind, life and window (memory_retention_policies).
THEOREM RetentionUnseenAlways == Spec => []RetentionUnseen
<1>1. Init => RetentionIInv
  BY RetentionInitInv DEF Init
<1>2. RetentionIInv /\ [Next]_vars => RetentionIInv'
  BY RetentionSteps, RetentionStepInv
<1>3. RetentionIInv => RetentionUnseen
  BY RetentionInvUnseen DEF RetentionUnseen
<1> QED
  BY <1>1, <1>2, <1>3, PTL DEF Spec

\* A directive is completed or stale only after its role's file was written since it was
\* issued, and a scan of files at rest misses no written one: for any number of
\* directives and writes, when the files can be read (_scan_pending_learning_directives).
THEOREM WrittenAlways ==
  ASSUME ~learn_Unreadable
  PROVE  Spec => []CompletedWasWritten
<1>1. Init => LearnIInv
  BY LearnInitInv DEF Init
<1>2. LearnIInv /\ [Next]_vars => LearnIInv'
  BY LearnSteps, LearnStepInv
<1>3. LearnIInv => CompletedWasWritten
  BY LearnInvWritten DEF CompletedWasWritten
<1> QED
  BY <1>1, <1>2, <1>3, PTL DEF Spec

\* What MEA reported stays, and PM hears that the chief's regime is doubtful only after
\* as many falsified reviews in a row, whatever is cut off (submit_news,
\* _chief_regime_confidence_from_recent).
THEOREM EventsKeptAlways == Spec => []EventsKept
<1>1. Init => DeskIInv
  BY DeskInitInv DEF Init
<1>2. DeskIInv /\ [Next]_vars => DeskIInv'
  BY DeskSteps, DeskStepInv
<1>3. DeskIInv => EventsKept
  BY DeskInvKept DEF EventsKept
<1> QED
  BY <1>1, <1>2, <1>3, PTL DEF Spec

\* The table's notifications are true, recorded before they are sent on and once each,
\* and when the handling of a strategy is over each recipient was tried once: whatever
\* requests interleave and wherever a recording is cut off (_record_events,
\* NotificationService).
THEOREM SentIsToldAlways == Spec => []SentIsTold
<1>1. Init => NotifyIInv
  BY NotifyInitInv DEF Init
<1>2. NotifyIInv /\ [Next]_vars => NotifyIInv'
  BY NotifySteps, NotifyStepInv
<1>3. NotifyIInv => SentIsTold
  BY NotifyInvTold DEF SentIsTold
<1> QED
  BY <1>1, <1>2, <1>3, PTL DEF Spec

=============================================================================
