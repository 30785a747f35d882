---------------------------- MODULE GatewayProofs ---------------------------
(***************************************************************************)
(* Proofs about the components of Gateway, for every value of their        *)
(* constants: one section per component, with its inductive invariant, and *)
(* the theorems at the end.                                                *)
(***************************************************************************)
EXTENDS Gateway, Sequences, FiniteSetTheorems, WellFoundedInduction, TLAPS

-----------------------------------------------------------------------------
\* A set of numbers that is not empty has a least one.
LEMMA Least ==
  ASSUME NEW T \in SUBSET Nat, T # {} PROVE \E x \in T : \A y \in T : x <= y
<1> DEFINE Below == {ss \in Nat \X Nat : ss[1] < ss[2]}
<1>1. IsWellFoundedOn(Below, Nat)
  BY NatLessThanWellFounded, Zenon DEF OpToRel
<1>2. PICK x \in T : \A y \in T : ~ (<<y, x>> \in Below)
  <2> HIDE DEF Below
  <2> QED
    BY <1>1, WFMin
<1>3. ASSUME NEW y \in T PROVE x <= y
  <2>1. x \in Nat /\ y \in Nat
    OBVIOUS
  <2>2. y < x => <<y, x>> \in Below
    BY <2>1
  <2>3. ~ (<<y, x>> \in Below)
    BY <1>2
  <2> QED
    BY <2>1, <2>2, <2>3
<1> QED
  BY <1>3

-----------------------------------------------------------------------------
\* OrderPlacement.

\* Placing counts as this module does.
LEMMA PlacingCounting ==
  \A S : Placing!Cardinality(S) = Cardinality(S) /\ Placing!IsFiniteSet(S) = IsFiniteSet(S)
BY DEF Placing!Cardinality, Cardinality, Placing!IsFiniteSet, IsFiniteSet

PlacingHas(os, batch, plan) == \E o \in os : o.batch = batch /\ o.plan = plan

PlacingCall ==
  [pc : {"idle"} \cup Placing!Request, batch : Nat, plan : Nat, attempt : Nat, uses : Nat,
   reached : BOOLEAN, results : Seq(Placing!Outcome), told : {"nothing", "results", "error"}]

\* While a thread executes a batch, it is at the plan after its results; whether that
\* one is placed is open only while the order is created.
PlacingExecuting(c, os) ==
  /\ c.told = "nothing" /\ c.batch >= 1 /\ c.plan = Len(c.results) + 1 /\ c.plan <= place_Batch
  /\ c.pc # "create" => (c.pc = "fills" <=> PlacingHas(os, c.batch, c.plan))
  /\ \A i \in 1 .. place_Batch : i > c.plan => ~PlacingHas(os, c.batch, i)

PlacingEnded(c) ==
  \/ c.told = "nothing" /\ c.batch = 0 /\ c.results = <<>>
  \/ c.told = "error" /\ c.results = <<>>
  \/ c.told = "results" /\ Len(c.results) = place_Batch

PlacingTruly(c, os) ==
  \A i \in DOMAIN c.results : (c.results[i] \in {"filled", "unconfirmed"}) <=> PlacingHas(os, c.batch, i)

PlacingCallInv(c, os) ==
  /\ c \in PlacingCall
  /\ c.pc # "idle" => PlacingExecuting(c, os)
  /\ c.pc = "idle" => PlacingEnded(c)
  /\ PlacingTruly(c, os)

PlacingOrdersInv == place_orders \subseteq [batch : 1 .. place_batches, plan : 1 .. place_Batch, id : {0}]

\* No two threads execute one batch.
PlacingBatchesInv ==
  /\ \A t \in Inputs : place_call[t].batch <= place_batches
  /\ \A t, u \in Inputs : t # u /\ place_call[t].batch = place_call[u].batch => place_call[t].batch = 0

PlacingIInv ==
  /\ place_batches \in Nat /\ place_client \in Nat
  /\ place_call \in [Inputs -> PlacingCall]
  /\ PlacingOrdersInv
  /\ PlacingBatchesInv
  /\ \A t \in Inputs : PlacingCallInv(place_call[t], place_orders)

-----------------------------------------------------------------------------
\* What a call becomes.
LEMMA PlacingIdleCall == Placing!Idle \in PlacingCall
BY DEF Placing!Idle, PlacingCall, Placing!Request

LEMMA PlacingAskCall ==
  ASSUME place_client \in Nat, NEW c \in PlacingCall, NEW r \in Placing!Request
  PROVE  /\ Placing!Ask(c, r) \in PlacingCall /\ Placing!Ask(c, r).pc = r /\ Placing!Ask(c, r).batch = c.batch
         /\ Placing!Ask(c, r).plan = c.plan /\ Placing!Ask(c, r).results = c.results /\ Placing!Ask(c, r).told = c.told
<1>1. Placing!Ask(c, r) \in PlacingCall
  BY DEF Placing!Ask, PlacingCall
<1> QED
  BY <1>1 DEF Placing!Ask, PlacingCall

LEMMA PlacingRaiseInv ==
  ASSUME NEW c, NEW os, PlacingCallInv(c, os) PROVE PlacingCallInv(Placing!Raise(c), os) /\ Placing!Raise(c).batch = c.batch
<1>1. c \in PlacingCall /\ <<>> \in Seq(Placing!Outcome)
  BY DEF PlacingCallInv
<1>2. /\ Placing!Raise(c) \in PlacingCall /\ Placing!Raise(c).pc = "idle" /\ Placing!Raise(c).told = "error"
      /\ Placing!Raise(c).results = <<>> /\ Placing!Raise(c).batch = c.batch
  BY <1>1 DEF Placing!Raise, PlacingCall
<1> QED
  BY <1>2 DEF PlacingCallInv, PlacingEnded, PlacingTruly

LEMMA PlacingAskInv ==
  ASSUME place_client \in Nat, NEW c, NEW os, NEW r \in Placing!Request, PlacingCallInv(c, os), c.pc # "idle",
         r = "fills" => PlacingHas(os, c.batch, c.plan),
         r \notin {"create", "fills"} => ~PlacingHas(os, c.batch, c.plan)
  PROVE  PlacingCallInv(Placing!Ask(c, r), os) /\ Placing!Ask(c, r).batch = c.batch
<1> DEFINE d == Placing!Ask(c, r)
<1>1. c \in PlacingCall /\ PlacingExecuting(c, os) /\ PlacingTruly(c, os)
  BY DEF PlacingCallInv
<1>2. /\ d \in PlacingCall /\ d.pc = r /\ d.batch = c.batch /\ d.plan = c.plan
      /\ d.results = c.results /\ d.told = c.told
  BY <1>1, PlacingAskCall
<1>3. r # "idle"
  BY DEF Placing!Request
<1> HIDE DEF d
<1>4. PlacingExecuting(d, os)
  BY <1>1, <1>2 DEF PlacingExecuting, Placing!Request
<1>5. PlacingTruly(d, os)
  BY <1>1, <1>2 DEF PlacingTruly
<1>6. PlacingCallInv(d, os)
  BY <1>2, <1>3, <1>4, <1>5 DEF PlacingCallInv
<1> QED
  BY <1>2, <1>6 DEF d

\* A result is appended, and the next plan taken, which is not placed yet.
LEMMA PlacingRecordInv ==
  ASSUME place_Batch \in Nat, place_client \in Nat, NEW c, NEW os, NEW outcome \in Placing!Outcome, PlacingCallInv(c, os), c.pc # "idle",
         (outcome \in {"filled", "unconfirmed"}) <=> PlacingHas(os, c.batch, c.plan)
  PROVE  PlacingCallInv(Placing!Record(c, outcome), os) /\ Placing!Record(c, outcome).batch = c.batch
<1> DEFINE told == [c EXCEPT !.results = Append(@, outcome)]
           next == [told EXCEPT !.plan = @ + 1]
           last == [told EXCEPT !.pc = "idle", !.told = "results"]
<1>1. c \in PlacingCall /\ PlacingExecuting(c, os) /\ PlacingTruly(c, os)
  BY DEF PlacingCallInv
<1>2. Append(c.results, outcome) \in Seq(Placing!Outcome)
  BY <1>1 DEF PlacingCall
<1>3. \A i \in DOMAIN Append(c.results, outcome) :
        (Append(c.results, outcome)[i] \in {"filled", "unconfirmed"}) <=> PlacingHas(os, c.batch, i)
  <2> TAKE i \in DOMAIN Append(c.results, outcome)
  <2>1. c.results \in Seq(Placing!Outcome) /\ c.plan = Len(c.results) + 1
    BY <1>1 DEF PlacingCall, PlacingExecuting
  <2>2. CASE i = c.plan
    BY <2>1, <2>2
  <2>3. CASE i # c.plan
    <3>1. i \in DOMAIN c.results /\ Append(c.results, outcome)[i] = c.results[i]
      BY <2>1, <2>3
    <3> QED
      BY <1>1, <3>1 DEF PlacingTruly
  <2> QED
    BY <2>2, <2>3
<1>4. CASE c.plan = place_Batch
  <2>1. Placing!Record(c, outcome) = last
    BY <1>1, <1>4 DEF Placing!Record, PlacingCall
  <2>2. last \in PlacingCall
    BY <1>1, <1>2 DEF PlacingCall
  <2>3. /\ last.pc = "idle" /\ last.told = "results" /\ last.batch = c.batch
        /\ last.results = Append(c.results, outcome)
    BY <1>1 DEF PlacingCall
  <2>4. Len(last.results) = place_Batch
    BY <1>1, <1>4, <2>3 DEF PlacingExecuting, PlacingCall
  <2> HIDE DEF last
  <2>5. PlacingCallInv(last, os)
    BY <1>3, <2>2, <2>3, <2>4 DEF PlacingCallInv, PlacingEnded, PlacingTruly
  <2> QED
    BY <2>1, <2>3, <2>5
<1>5. CASE c.plan # place_Batch
  <2> DEFINE d == Placing!Ask(next, "position")
  <2>1. Placing!Record(c, outcome) = d
    BY <1>1, <1>5 DEF Placing!Record, PlacingCall
  <2>2. /\ next \in PlacingCall /\ next.told = c.told /\ next.batch = c.batch
        /\ next.plan = c.plan + 1 /\ next.results = Append(c.results, outcome)
    <3>1. /\ told \in PlacingCall /\ told.told = c.told /\ told.batch = c.batch
          /\ told.plan = c.plan /\ told.results = Append(c.results, outcome)
      BY <1>1, <1>2 DEF PlacingCall
    <3>2. told.plan + 1 \in Nat
      BY <3>1 DEF PlacingCall
    <3> HIDE DEF told
    <3> QED
      BY <3>1, <3>2 DEF PlacingCall
  <2> HIDE DEF next
  <2>3. /\ d \in PlacingCall /\ d.pc = "position" /\ d.told = c.told /\ d.batch = c.batch
        /\ d.plan = c.plan + 1 /\ d.results = Append(c.results, outcome)
    BY <2>2, PlacingAskCall DEF Placing!Request
  <2> HIDE DEF d
  <2>4. Len(d.results) + 1 = d.plan /\ d.plan \in 1 .. place_Batch /\ ~PlacingHas(os, d.batch, d.plan)
    BY <1>1, <1>5, <2>3 DEF PlacingExecuting, PlacingCall
  <2>5. \A i \in 1 .. place_Batch : i > d.plan => ~PlacingHas(os, d.batch, i)
    BY <1>1, <2>3 DEF PlacingExecuting, PlacingCall
  <2>6. PlacingExecuting(d, os)
    BY <1>1, <2>3, <2>4, <2>5 DEF PlacingExecuting
  <2>7. PlacingCallInv(d, os)
    BY <1>3, <2>2, <2>3, <2>6 DEF PlacingCallInv, PlacingTruly
  <2> QED
    BY <2>1, <2>3, <2>7
<1> QED
  BY <1>4, <1>5

LEMMA PlacingAgainInv ==
  ASSUME NEW c, NEW os, NEW used \in Nat, PlacingCallInv(c, os), c.pc # "idle"
  PROVE  PlacingCallInv(Placing!Again(c, used), os) /\ Placing!Again(c, used).batch = c.batch
<1> DEFINE d == [c EXCEPT !.attempt = @ + 1, !.uses = used, !.reached = FALSE]
<1>1. c \in PlacingCall /\ PlacingExecuting(c, os) /\ PlacingTruly(c, os)
  BY DEF PlacingCallInv
<1>2. d \in PlacingCall
  <2>1. c.attempt + 1 \in Nat
    BY <1>1 DEF PlacingCall
  <2> QED
    BY <1>1, <2>1 DEF PlacingCall
<1>3. /\ d.pc = c.pc /\ d.batch = c.batch /\ d.plan = c.plan /\ d.results = c.results
      /\ d.told = c.told
  BY <1>1 DEF PlacingCall
<1> HIDE DEF d
<1>4. PlacingCallInv(d, os)
  BY <1>1, <1>2, <1>3 DEF PlacingCallInv, PlacingExecuting, PlacingTruly
<1>5. Placing!Again(c, used) \in {Placing!Raise(c), d}
  BY DEF Placing!Again, d
<1> QED
  BY <1>3, <1>4, <1>5, PlacingRaiseInv

\* A thread's step that places nothing.
LEMMA PlacingKeeps ==
  ASSUME PlacingIInv, NEW t \in Inputs, NEW d, PlacingCallInv(d, place_orders), d.batch = place_call[t].batch, Placing!Becomes(t, d),
         place_client' \in Nat, UNCHANGED <<place_orders, place_batches>>
  PROVE  PlacingIInv'
<1>1. place_call' \in [Inputs -> PlacingCall] /\ place_call'[t] = d /\ \A u \in Inputs \ {t} : place_call'[u] = place_call[u]
  BY DEF PlacingIInv, Placing!Becomes, PlacingCallInv
<1>2. PlacingBatchesInv'
  BY <1>1 DEF PlacingIInv, PlacingBatchesInv
<1>3. \A u \in Inputs : PlacingCallInv(place_call'[u], place_orders')
  BY <1>1 DEF PlacingIInv
<1> QED
  BY <1>1, <1>2, <1>3 DEF PlacingIInv, PlacingOrdersInv

-----------------------------------------------------------------------------
LEMMA PlacingInitInv ==
  ASSUME Placing!Init PROVE PlacingIInv
<1>1. Placing!Idle \in PlacingCall
  BY PlacingIdleCall
<1>2. PlacingCallInv(Placing!Idle, {})
  BY <1>1 DEF Placing!Idle, PlacingCallInv, PlacingEnded, PlacingTruly
<1> QED
  BY <1>1, <1>2 DEF Placing!Init, PlacingIInv, PlacingOrdersInv, PlacingBatchesInv, Placing!Idle

LEMMA PlacingExecuteInv ==
  ASSUME place_Batch \in Nat \ {0}, PlacingIInv, NEW t \in Inputs, Placing!Execute(t) PROVE PlacingIInv'
<1> DEFINE e == [Placing!Idle EXCEPT !.batch = place_batches + 1, !.plan = 1]
           d == Placing!Ask(e, "position")
<1>1. place_batches' = place_batches + 1 /\ Placing!Becomes(t, d) /\ place_client' = place_client /\ place_orders' = place_orders
  BY DEF Placing!Execute
<1>2. d \in PlacingCall /\ d.pc = "position" /\ d.batch = place_batches + 1 /\ d.plan = 1 /\ d.results = <<>> /\ d.told = "nothing"
  <2>1. /\ e \in PlacingCall /\ e.batch = place_batches + 1 /\ e.plan = 1
        /\ e.results = <<>> /\ e.told = "nothing"
    <3>1. place_batches + 1 \in Nat /\ Placing!Idle.results = <<>> /\ Placing!Idle.told = "nothing"
      BY DEF PlacingIInv, Placing!Idle
    <3> QED
      BY <3>1, PlacingIdleCall DEF PlacingCall
  <2> HIDE DEF e
  <2> QED
    BY <2>1, PlacingAskCall DEF PlacingIInv, Placing!Request
<1> HIDE DEF d
<1>3. \A i \in 1 .. place_Batch : ~PlacingHas(place_orders, d.batch, i)
  BY <1>2 DEF PlacingIInv, PlacingOrdersInv, PlacingHas
<1>4. PlacingCallInv(d, place_orders)
  BY <1>2, <1>3 DEF PlacingIInv, PlacingCallInv, PlacingExecuting, PlacingTruly
<1>5. place_call' \in [Inputs -> PlacingCall] /\ place_call'[t] = d /\ \A u \in Inputs \ {t} : place_call'[u] = place_call[u]
  BY <1>1, <1>2 DEF PlacingIInv, Placing!Becomes
<1>6. PlacingBatchesInv'
  <2>1. \A u \in Inputs : place_call[u].batch \in Nat /\ place_call[u].batch <= place_batches
    BY DEF PlacingIInv, PlacingBatchesInv, PlacingCall
  <2>2. place_call'[t].batch = place_batches' /\ \A u \in Inputs \ {t} : place_call'[u].batch = place_call[u].batch
    BY <1>1, <1>2, <1>5
  <2>3. \A u \in Inputs : place_call'[u].batch <= place_batches'
    BY <1>1, <2>1, <2>2 DEF PlacingIInv
  <2>4. \A u, v \in Inputs : u # v /\ place_call'[u].batch = place_call'[v].batch => place_call'[u].batch = 0
    BY <1>1, <2>1, <2>2 DEF PlacingIInv, PlacingBatchesInv
  <2> QED
    BY <2>3, <2>4 DEF PlacingBatchesInv
<1>7. PlacingOrdersInv'
  BY <1>1 DEF PlacingIInv, PlacingOrdersInv
<1>8. \A u \in Inputs : PlacingCallInv(place_call'[u], place_orders')
  BY <1>1, <1>4, <1>5 DEF PlacingIInv
<1> QED
  BY <1>1, <1>5, <1>6, <1>7, <1>8 DEF PlacingIInv

\* An order is taken only for the plan a thread creates it for, whose result is open.
LEMMA PlacingReachInv ==
  ASSUME place_Batch \in Nat \ {0}, PlacingIInv, NEW t \in Inputs, Placing!Reach(t) PROVE PlacingIInv'
<1> DEFINE c == place_call[t]
           d == [c EXCEPT !.reached = TRUE]
<1>1. c.pc # "idle" /\ Placing!Becomes(t, d) /\ place_client' = place_client /\ place_batches' = place_batches
  BY DEF Placing!Reach
<1>2. c \in PlacingCall /\ PlacingExecuting(c, place_orders) /\ PlacingTruly(c, place_orders)
  BY <1>1 DEF PlacingIInv, PlacingCallInv
<1>3. d \in PlacingCall /\ d.pc = c.pc /\ d.batch = c.batch /\ d.plan = c.plan /\ d.results = c.results /\ d.told = c.told
  BY <1>2 DEF PlacingCall
<1>4. CASE place_orders' = place_orders
  <2>1. PlacingCallInv(d, place_orders)
    BY <1>1, <1>2, <1>3 DEF PlacingCallInv, PlacingExecuting, PlacingTruly
  <2> QED
    BY <1>1, <1>3, <1>4, <2>1, PlacingKeeps DEF PlacingIInv
<1>5. CASE c.pc = "create" /\ place_orders' = place_orders \cup {Placing!Order(c)}
  <2> DEFINE o == Placing!Order(c)
  <2>1. o = [batch |-> c.batch, plan |-> c.plan, id |-> 0]
    BY DEF Placing!Order, Placing!OrderId
  <2>2. c.batch \in 1 .. place_batches /\ c.plan \in 1 .. place_Batch
    BY <1>2 DEF PlacingIInv, PlacingBatchesInv, PlacingExecuting, PlacingCall
  <2>3. PlacingOrdersInv'
    BY <1>1, <1>5, <2>1, <2>2 DEF PlacingIInv, PlacingOrdersInv
  <2>4. \A b, i : ~(b = c.batch /\ i = c.plan) => (PlacingHas(place_orders', b, i) <=> PlacingHas(place_orders, b, i))
    BY <1>5, <2>1 DEF PlacingHas
  <2>5. place_call' \in [Inputs -> PlacingCall] /\ place_call'[t] = d /\ \A u \in Inputs \ {t} : place_call'[u] = place_call[u]
    BY <1>1, <1>3 DEF PlacingIInv, Placing!Becomes
  <2> HIDE DEF d, o
  <2>6. PlacingCallInv(d, place_orders')
    <3>1. PlacingExecuting(d, place_orders')
      <4>1. \A i \in 1 .. place_Batch : i > c.plan => ~PlacingHas(place_orders', c.batch, i)
        BY <1>2, <2>2, <2>4 DEF PlacingExecuting
      <4> QED
        BY <1>2, <1>3, <1>5, <4>1 DEF PlacingExecuting
    <3>2. PlacingTruly(d, place_orders')
      <4>1. \A i \in DOMAIN c.results : i # c.plan
        BY <1>2 DEF PlacingExecuting, PlacingCall
      <4> QED
        BY <1>2, <1>3, <2>4, <4>1 DEF PlacingTruly
    <3> QED
      BY <1>1, <1>3, <3>1, <3>2 DEF PlacingCallInv
  <2>7. ASSUME NEW u \in Inputs \ {t} PROVE PlacingCallInv(place_call[u], place_orders')
    <3>1. PlacingCallInv(place_call[u], place_orders) /\ place_call[u].batch # c.batch
      BY <2>2 DEF PlacingIInv, PlacingBatchesInv
    <3>2. \A i : PlacingHas(place_orders', place_call[u].batch, i) <=> PlacingHas(place_orders, place_call[u].batch, i)
      BY <2>4, <3>1
    <3> QED
      BY <3>1, <3>2 DEF PlacingCallInv, PlacingExecuting, PlacingTruly
  <2>8. PlacingBatchesInv'
    BY <1>1, <1>3, <2>5 DEF PlacingIInv, PlacingBatchesInv
  <2>9. \A u \in Inputs : PlacingCallInv(place_call'[u], place_orders')
    BY <2>5, <2>6, <2>7
  <2> QED
    BY <1>1, <2>3, <2>5, <2>8, <2>9 DEF PlacingIInv
<1> QED
  BY <1>4, <1>5 DEF Placing!Reach

LEMMA PlacingReplyInv ==
  ASSUME place_Batch \in Nat \ {0}, PlacingIInv, NEW t \in Inputs, Placing!Reply(t) PROVE PlacingIInv'
<1> DEFINE c == place_call[t]
<1>1. c.pc # "idle" /\ UNCHANGED <<place_client, place_orders, place_batches>>
  BY DEF Placing!Reply
<1>2. PlacingCallInv(c, place_orders) /\ c \in PlacingCall /\ PlacingExecuting(c, place_orders) /\ place_client \in Nat
  BY <1>1 DEF PlacingIInv, PlacingCallInv
<1>3. Placing!Accepted(c) <=> PlacingHas(place_orders, c.batch, c.plan)
  BY DEF Placing!Accepted, Placing!Order, Placing!OrderId, PlacingHas, PlacingIInv,
      PlacingOrdersInv
<1> SUFFICES \E d : Placing!Becomes(t, d) /\ PlacingCallInv(d, place_orders) /\ d.batch = c.batch
  BY <1>1, <1>2, PlacingKeeps
<1>4. CASE c.pc = "position"
  <2>1. ~PlacingHas(place_orders, c.batch, c.plan)
    BY <1>2, <1>4 DEF PlacingExecuting
  <2>2. Placing!Becomes(t, Placing!Ask(c, "product")) \/ Placing!Becomes(t, Placing!Ask(c, "preview")) \/ Placing!Becomes(t, Placing!Record(c, "refused"))
    BY <1>4 DEF Placing!Reply
  <2> QED
    BY <1>1, <1>2, <2>1, <2>2, PlacingAskInv, PlacingRecordInv DEF Placing!Request,
        Placing!Outcome
<1>5. CASE c.pc = "product"
  <2>1. ~PlacingHas(place_orders, c.batch, c.plan)
    BY <1>2, <1>5 DEF PlacingExecuting
  <2>2. Placing!Becomes(t, Placing!Ask(c, "preview"))
    BY <1>5 DEF Placing!Reply
  <2> QED
    BY <1>1, <1>2, <2>1, <2>2, PlacingAskInv DEF Placing!Request
<1>6. CASE c.pc = "preview"
  <2>1. ~PlacingHas(place_orders, c.batch, c.plan)
    BY <1>2, <1>6 DEF PlacingExecuting
  <2>2. Placing!Becomes(t, Placing!Ask(c, "create")) \/ Placing!Becomes(t, Placing!Record(c, "refused"))
    BY <1>6 DEF Placing!Reply
  <2> QED
    BY <1>1, <1>2, <2>1, <2>2, PlacingAskInv, PlacingRecordInv DEF Placing!Request,
        Placing!Outcome
<1>7. CASE c.pc = "create" /\ Placing!Accepted(c)
  <2>1. Placing!Becomes(t, Placing!Ask(c, "fills")) \/ Placing!Becomes(t, Placing!Record(c, "unconfirmed"))
    BY <1>7 DEF Placing!Reply
  <2> QED
    BY <1>1, <1>2, <1>3, <1>7, <2>1, PlacingAskInv, PlacingRecordInv DEF Placing!Request,
        Placing!Outcome
<1>8. CASE c.pc = "create" /\ ~Placing!Accepted(c)
  <2>1. Placing!Becomes(t, Placing!Record(c, "refused")) \/ Placing!Becomes(t, Placing!Record(c, "technical"))
    BY <1>8 DEF Placing!Reply
  <2> QED
    BY <1>1, <1>2, <1>3, <1>8, <2>1, PlacingRecordInv DEF Placing!Outcome
<1>9. CASE c.pc = "fills"
  <2>1. PlacingHas(place_orders, c.batch, c.plan)
    BY <1>2, <1>9 DEF PlacingExecuting
  <2>2. Placing!Becomes(t, Placing!Record(c, "filled"))
    BY <1>9 DEF Placing!Reply
  <2> QED
    BY <1>1, <1>2, <2>1, <2>2, PlacingRecordInv DEF Placing!Outcome
<1> QED
  BY <1>1, <1>2, <1>4, <1>5, <1>6, <1>7, <1>8, <1>9 DEF PlacingCall, Placing!Request

LEMMA PlacingStepInv ==
  ASSUME PlacingIInv, [Placing!Next]_(Placing!vars) PROVE PlacingIInv'
<1> USE PlacingAssumption
<1>1. ASSUME NEW t \in Inputs, Placing!Execute(t) PROVE PlacingIInv'
  BY <1>1, PlacingExecuteInv
<1>2. ASSUME NEW t \in Inputs, Placing!Reach(t) PROVE PlacingIInv'
  BY <1>2, PlacingReachInv
<1>3. ASSUME NEW t \in Inputs, Placing!Reply(t) PROVE PlacingIInv'
  BY <1>3, PlacingReplyInv
<1>4. ASSUME NEW t \in Inputs, Placing!Busy(t) \/ Placing!Broken(t) PROVE PlacingIInv'
  <2>1. PlacingCallInv(place_call[t], place_orders) /\ place_call[t].pc # "idle" /\ place_client \in Nat
    BY <1>4 DEF PlacingIInv, Placing!Busy, Placing!Broken
  <2>2. PICK used \in Nat : Placing!Becomes(t, Placing!Again(place_call[t], used)) /\ place_client' \in Nat /\ UNCHANGED <<place_orders,
                                                                                                                           place_batches>>
    BY <1>4, <2>1 DEF Placing!Busy, Placing!Broken
  <2> QED
    BY <2>1, <2>2, PlacingAgainInv, PlacingKeeps
<1>5. ASSUME NEW t \in Inputs, Placing!Closed(t) \/ Placing!Refused(t) PROVE PlacingIInv'
  <2>1. PlacingCallInv(place_call[t], place_orders) /\ place_client \in Nat
    BY DEF PlacingIInv
  <2>2. Placing!Becomes(t, Placing!Raise(place_call[t])) /\ place_client' = place_client /\ UNCHANGED <<place_orders,
                                                                                                        place_batches>>
    BY <1>5 DEF Placing!Closed, Placing!Refused
  <2> QED
    BY <2>1, <2>2, PlacingRaiseInv, PlacingKeeps
<1>6. CASE UNCHANGED Placing!vars
  BY <1>6 DEF Placing!vars, PlacingIInv, PlacingOrdersInv, PlacingBatchesInv
<1> QED
  BY <1>1, <1>2, <1>3, <1>4, <1>5, <1>6 DEF Placing!Next

-----------------------------------------------------------------------------
LEMMA PlacingInvPlacedOnce ==
  ASSUME PlacingIInv PROVE Placing!PlacedOnceAsTold
<1> USE PlacingAssumption
<1>1. ASSUME NEW o \in place_orders PROVE Cardinality(Placing!Placed(o.batch, o.plan)) = 1
  <2>1. Placing!Placed(o.batch, o.plan) = {o}
    BY DEF Placing!Placed, PlacingIInv, PlacingOrdersInv
  <2> QED
    BY <2>1, FS_Singleton
<1>2. \A batch, plan : PlacingHas(place_orders, batch, plan) <=> Placing!Placed(batch, plan) # {}
  BY DEF PlacingHas, Placing!Placed
<1>3. ASSUME NEW t \in Inputs, NEW i \in DOMAIN place_call[t].results
      PROVE  (place_call[t].results[i] \in {"filled", "unconfirmed"}) <=> (Placing!Placed(place_call[t].batch, i) # {})
  BY <1>2 DEF PlacingIInv, PlacingCallInv, PlacingTruly
<1>4. ASSUME NEW t \in Inputs, NEW i \in 1 .. place_Batch, place_call[t].told # "error", i > Len(place_call[t].results) + 1
      PROVE  Placing!Placed(place_call[t].batch, i) = {}
  <2>1. PlacingCallInv(place_call[t], place_orders)
    BY DEF PlacingIInv
  <2>2. CASE place_call[t].pc # "idle"
    BY <1>2, <1>4, <2>1, <2>2 DEF PlacingCallInv, PlacingExecuting
  <2>3. CASE place_call[t].pc = "idle"
    <3>1. place_call[t].batch = 0
      BY <1>4, <2>1, <2>3 DEF PlacingCallInv, PlacingEnded, PlacingCall
    <3> QED
      BY <3>1 DEF Placing!Placed, PlacingIInv, PlacingOrdersInv
  <2> QED
    BY <2>2, <2>3
<1> QED
  BY <1>1, <1>3, <1>4, PlacingCounting DEF Placing!PlacedOnceAsTold

\* Only its own steps touch OrderPlacement's variables.
LEMMA PlacingSteps == [Next]_vars => [Placing!Next]_(Placing!vars)
BY DEF Next, vars, gateVars, runVars, sizeVars, placeVars, panelVars, mapVars, Placing!vars

-----------------------------------------------------------------------------
\* AgentRun.

RunReplies ==
  [status : {"none", "completed", "needs_revision", "needs_escalation"},
   from : {"agent", "file", "nobody"}, valid : BOOLEAN, reset : BOOLEAN]

RunTyped ==
  /\ run_now \in Nat
  /\ run_file \in [time : Nat, valid : BOOLEAN, no : Nat]
  /\ run_task \in [kind : Run!Kind \cup {"none"}, stage : {"idle", "first", "repair", "accepted", "refused"},
                   again : BOOLEAN, attempts : Nat]
  /\ run_attempt \in [on : BOOLEAN, start : Nat, before : Nat, seen : Nat, reply : RunReplies]
  /\ \A t \in run_taken : t.no \in Nat /\ t.seen \in Nat

\* What nobody said is neither complete nor valid.
RunSaidIsBy ==
  run_attempt.reply.from = "nobody" => run_attempt.reply.status # "completed" /\ ~run_attempt.reply.valid

\* The file that a run found when it began is not newer than that, and no run
\* before it took a later one.
RunSeenFirst ==
  /\ run_attempt.on => /\ run_attempt.seen <= run_file.no
                       /\ run_attempt.seen = run_file.no => run_attempt.before = run_file.time
                       /\ \A t \in run_taken : t.no <= run_attempt.seen
  /\ \A t \in run_taken : t.no <= run_file.no

RunStages ==
  /\ run_task.stage \in {"first", "repair"} => run_task.attempts > 0
  /\ run_task.stage = "repair" => run_task.attempts > 1
  /\ run_task.stage \in {"idle", "accepted", "refused"} => ~run_attempt.on

RunIInv == RunTyped /\ RunSaidIsBy /\ RunSeenFirst /\ RunStages /\ Run!AcceptedIsOfTheRun

-----------------------------------------------------------------------------
LEMMA RunNoneIs ==
  Run!NoReply \in RunReplies /\ Run!NoReply.from = "nobody" /\ Run!NoReply.status # "completed" /\ ~Run!NoReply.valid
BY DEF Run!NoReply, RunReplies

LEMMA RunInitInv ==
  ASSUME Run!Init PROVE RunIInv
<1>1. Run!NoAttempt \in [on : BOOLEAN, start : Nat, before : Nat, seen : Nat, reply : RunReplies]
  BY RunNoneIs DEF Run!NoAttempt
<1>2. Run!NoTask \in [kind : Run!Kind \cup {"none"}, stage : {"idle", "first", "repair", "accepted", "refused"},
                      again : BOOLEAN, attempts : Nat]
  BY DEF Run!NoTask
<1>3. Run!NoAttempt.reply = Run!NoReply /\ ~Run!NoAttempt.on /\ Run!NoTask.stage = "idle"
  BY DEF Run!NoAttempt, Run!NoTask
<1>4. RunTyped
  BY <1>1, <1>2 DEF Run!Init, RunTyped
<1>5. RunSaidIsBy /\ RunSeenFirst /\ RunStages /\ Run!AcceptedIsOfTheRun
  BY <1>3, RunNoneIs DEF Run!Init, RunSaidIsBy, RunSeenFirst, RunStages, Run!AcceptedIsOfTheRun
<1> QED
  BY <1>4, <1>5 DEF RunIInv

LEMMA RunTickInv ==
  ASSUME RunIInv, Run!Tick PROVE RunIInv'
BY DEF Run!Tick, RunIInv, RunTyped, RunSaidIsBy, RunSeenFirst, RunStages, Run!AcceptedIsOfTheRun

LEMMA RunWriteFileInv ==
  ASSUME RunIInv, NEW valid \in BOOLEAN, Run!WriteFile(valid) PROVE RunIInv'
<1>1. /\ run_file' = [time |-> run_now, valid |-> valid, no |-> run_file.no + 1]
      /\ UNCHANGED <<run_now, run_task, run_attempt, run_runs, run_taken>>
  BY DEF Run!WriteFile
<1>2. /\ run_now \in Nat /\ run_file.no \in Nat /\ run_attempt.seen \in Nat
      /\ \A t \in run_taken : t.no \in Nat
  BY DEF RunIInv, RunTyped
<1>3. RunTyped'
  BY <1>1, <1>2 DEF RunIInv, RunTyped
<1>4. RunSaidIsBy' /\ RunStages' /\ Run!AcceptedIsOfTheRun'
  BY <1>1 DEF RunIInv, RunSaidIsBy, RunStages, Run!AcceptedIsOfTheRun
<1>5. RunSeenFirst'
  BY <1>1, <1>2 DEF RunIInv, RunSeenFirst
<1> QED
  BY <1>3, <1>4, <1>5 DEF RunIInv

\* A run that begins has seen what the file holds now.
LEMMA RunBegunInv ==
  ASSUME RunIInv, run_attempt' = Run!Begun, UNCHANGED <<run_now, run_file, run_taken>>,
         run_task' \in [kind : Run!Kind \cup {"none"}, stage : {"first", "repair"}, again : BOOLEAN, attempts : Nat],
         run_task'.attempts > 0, run_task'.stage = "repair" => run_task'.attempts > 1
  PROVE  RunIInv'
<1>1. /\ Run!Begun \in [on : BOOLEAN, start : Nat, before : Nat, seen : Nat, reply : RunReplies]
      /\ Run!Begun.before = run_file.time /\ Run!Begun.seen = run_file.no /\ Run!Begun.reply = Run!NoReply
  BY RunNoneIs DEF Run!Begun, RunIInv, RunTyped
<1>2. RunTyped'
  BY <1>1 DEF RunIInv, RunTyped
<1>3. RunSaidIsBy'
  BY <1>1, RunNoneIs DEF RunSaidIsBy
<1>4. RunSeenFirst'
  BY <1>1 DEF RunIInv, RunSeenFirst, RunTyped
<1>5. RunStages' /\ run_task'.stage # "accepted"
  BY DEF RunStages
<1>6. Run!AcceptedIsOfTheRun'
  BY <1>5 DEF RunIInv, Run!AcceptedIsOfTheRun
<1> QED
  BY <1>2, <1>3, <1>4, <1>5, <1>6 DEF RunIInv

LEMMA RunAskInv ==
  ASSUME RunIInv, NEW kind \in Run!Kind, Run!Ask(kind) PROVE RunIInv'
BY RunBegunInv DEF Run!Ask

LEMMA RunBeginInv ==
  ASSUME RunIInv, NEW stage \in {"first", "repair"}, NEW again \in BOOLEAN,
         run_task.stage \in {"first", "repair"}, Run!Begin(stage, again)
  PROVE  RunIInv'
<1>1. /\ run_task' = [run_task EXCEPT !.stage = stage, !.again = again, !.attempts = @ + 1]
      /\ run_attempt' = Run!Begun /\ UNCHANGED <<run_now, run_file, run_taken>>
  BY DEF Run!Begin
<1>2. run_task.attempts \in Nat /\ run_task.attempts > 0
  BY DEF RunIInv, RunTyped, RunStages
<1>3. run_task' = [kind |-> run_task.kind, stage |-> stage, again |-> again, attempts |-> run_task.attempts + 1]
  BY <1>1 DEF RunIInv, RunTyped
<1>4. run_task.attempts + 1 \in Nat /\ run_task.attempts + 1 > 1
  BY <1>2
<1>5. run_task.kind \in Run!Kind \cup {"none"}
  BY DEF RunIInv, RunTyped
<1>6. /\ run_task' \in [kind : Run!Kind \cup {"none"}, stage : {"first", "repair"}, again : BOOLEAN, attempts : Nat]
      /\ run_task'.attempts > 0 /\ (run_task'.stage = "repair" => run_task'.attempts > 1)
  BY <1>3, <1>4, <1>5
<1> QED
  BY <1>1, <1>6, RunBegunInv

\* A run over is answered by the agent, by its file or by nobody.
LEMMA RunReplyIs ==
  ASSUME NEW kind, NEW a, NEW o \in Run!Outcome, run_file.valid \in BOOLEAN
  PROVE  LET r == Run!Reply(kind, a, o)
         IN  /\ r \in RunReplies
             /\ r.from = "nobody" => r.status # "completed" /\ ~r.valid
             /\ r.from = "file" => Run!Fresh(a)
<1>1. Run!Resettable(kind, o) \in BOOLEAN
  BY DEF Run!Resettable, Run!Outcome
<1>2. o.valid \in BOOLEAN /\ o.how \in {"answer", "unusable", "failed", "timeout"}
  BY DEF Run!Outcome
<1> DEFINE reset == Run!Resettable(kind, o)
<1> HIDE DEF reset
<1>3. Run!Reply(kind, a, o) \in
        {r \in RunReplies : /\ r.from = "nobody" => r.status # "completed" /\ ~r.valid
                            /\ r.from = "file" => Run!Fresh(a)}
  <2>1. CASE o.how = "answer"
    <3>1. Run!Reply(kind, a, o) = [status |-> "completed", from |-> "agent", valid |-> o.valid, reset |-> reset]
      BY <2>1 DEF Run!Reply, reset
    <3> QED
      BY <1>1, <1>2, <3>1 DEF RunReplies, reset
  <2>2. CASE o.how # "answer" /\ kind = "execution" /\ Run!Fresh(a)
    <3>1. Run!Reply(kind, a, o) = [status |-> "completed", from |-> "file", valid |-> run_file.valid, reset |-> reset]
      BY <2>2 DEF Run!Reply, reset
    <3> QED
      BY <1>1, <2>2, <3>1 DEF RunReplies, reset
  <2>3. CASE o.how = "unusable" /\ ~(kind = "execution" /\ Run!Fresh(a))
    <3>1. Run!Reply(kind, a, o) = [status |-> "needs_revision", from |-> "nobody", valid |-> FALSE, reset |-> reset]
      BY <2>3 DEF Run!Reply, reset
    <3> QED
      BY <1>1, <3>1 DEF RunReplies, reset
  <2>4. CASE o.how \notin {"answer", "unusable"} /\ ~(kind = "execution" /\ Run!Fresh(a))
    <3>1. Run!Reply(kind, a, o) = [status |-> "needs_escalation", from |-> "nobody", valid |-> FALSE, reset |-> reset]
      BY <2>4 DEF Run!Reply, reset
    <3> QED
      BY <1>1, <3>1 DEF RunReplies, reset
  <2> QED
    BY <2>1, <2>2, <2>3, <2>4
<1> QED
  BY <1>3

LEMMA RunEndInv ==
  ASSUME RunIInv, NEW o \in Run!Outcome, Run!End(o) PROVE RunIInv'
<1> DEFINE r == Run!Reply(run_task.kind, run_attempt, o)
           new == [run |-> run_runs, nth |-> run_task.attempts, no |-> run_file.no, seen |-> run_attempt.seen]
<1>1. /\ run_attempt.on /\ run_attempt' = [run_attempt EXCEPT !.on = FALSE, !.reply = r]
      /\ run_taken' = IF r.from = "file" THEN run_taken \cup {new} ELSE run_taken
      /\ UNCHANGED <<run_now, run_file, run_task, run_runs>>
  BY DEF Run!End
<1>2. /\ r \in RunReplies
      /\ r.from = "nobody" => r.status # "completed" /\ ~r.valid
      /\ r.from = "file" => Run!Fresh(run_attempt)
  BY RunReplyIs DEF RunIInv, RunTyped
<1>3. new.no = run_file.no /\ new.seen = run_attempt.seen
  OBVIOUS
<1> HIDE DEF r, new
<1>4. run_attempt' = [on |-> FALSE, start |-> run_attempt.start, before |-> run_attempt.before,
                      seen |-> run_attempt.seen, reply |-> r]
  BY <1>1 DEF RunIInv, RunTyped
<1>5. /\ run_file.no \in Nat /\ run_attempt.seen \in Nat /\ run_file.time \in Nat /\ run_attempt.before \in Nat
      /\ run_attempt \in [on : BOOLEAN, start : Nat, before : Nat, seen : Nat, reply : RunReplies]
      /\ \A t \in run_taken : t.no \in Nat /\ t.seen \in Nat
  BY DEF RunIInv, RunTyped
<1>6. RunTyped'
  BY <1>1, <1>2, <1>3, <1>4, <1>5 DEF RunIInv, RunTyped
<1>7. RunSaidIsBy'
  BY <1>2, <1>4 DEF RunSaidIsBy
<1>8. run_file.no <= run_file.no
  BY <1>5
<1>9. RunSeenFirst'
  BY <1>1, <1>3, <1>4, <1>8 DEF RunIInv, RunSeenFirst
<1>10. run_task.stage \in {"first", "repair"}
  BY <1>1 DEF RunIInv, RunStages, RunTyped
<1>11. RunStages'
  BY <1>1, <1>10 DEF RunIInv, RunStages
<1>12. r.from = "file" => run_attempt.seen < run_file.no
  BY <1>1, <1>2, <1>5 DEF RunIInv, RunSeenFirst, Run!Fresh
<1>13. r.from = "file" => \A t \in run_taken : t.no # run_file.no
  BY <1>1, <1>5, <1>12 DEF RunIInv, RunSeenFirst
<1>14. Run!AcceptedIsOfTheRun'
  BY <1>1, <1>3, <1>10, <1>12, <1>13 DEF RunIInv, Run!AcceptedIsOfTheRun
<1> QED
  BY <1>6, <1>7, <1>9, <1>11, <1>14 DEF RunIInv

\* A task that is over keeps the answer it had.
LEMMA RunStageInv ==
  ASSUME RunIInv, NEW stage \in {"accepted", "refused"}, Run!Answered,
         run_task' = [run_task EXCEPT !.stage = stage], UNCHANGED <<run_now, run_file,
                                                                    run_attempt, run_taken>>,
         stage = "accepted" =>
           run_attempt.reply.from \in {"agent", "file"} \/ (run_task.kind = "news" /\ run_task.attempts > 1)
  PROVE  RunIInv'
<1>1. run_task' = [kind |-> run_task.kind, stage |-> stage, again |-> run_task.again, attempts |-> run_task.attempts]
  BY DEF RunIInv, RunTyped
<1>2. RunTyped'
  BY <1>1 DEF RunIInv, RunTyped
<1>3. RunSaidIsBy' /\ RunSeenFirst'
  BY DEF RunIInv, RunSaidIsBy, RunSeenFirst
<1>4. RunStages'
  BY <1>1 DEF RunStages, Run!Answered
<1>5. Run!AcceptedIsOfTheRun'
  BY <1>1 DEF RunIInv, Run!AcceptedIsOfTheRun
<1> QED
  BY <1>2, <1>3, <1>4, <1>5 DEF RunIInv

LEMMA RunAcceptInv ==
  ASSUME RunIInv, Run!Accept PROVE RunIInv'
<1>1. run_attempt.reply.from \in {"agent", "file"} \/ (run_task.kind = "news" /\ run_task.attempts > 1)
  <2>1. run_attempt.reply.from \in {"agent", "file", "nobody"}
    BY DEF RunIInv, RunTyped, RunReplies
  <2>2. CASE Run!Good
    BY <2>1, <2>2 DEF Run!Good, RunIInv, RunSaidIsBy
  <2>3. CASE run_task.stage = "repair" /\ Run!Validates(run_task.kind, run_attempt.reply)
    BY <2>1, <2>3 DEF Run!Validates, RunIInv, RunSaidIsBy, RunStages
  <2> QED
    BY <2>2, <2>3 DEF Run!Accept
<1> QED
  BY <1>1, RunStageInv DEF Run!Accept

LEMMA RunResetInv ==
  ASSUME RunIInv, NEW success \in BOOLEAN, Run!Reset(success) PROVE RunIInv'
<1>1. CASE success
  BY <1>1, RunBeginInv DEF Run!Reset, Run!Answered
<1>2. CASE ~success
  BY <1>2, RunStageInv DEF Run!Reset
<1> QED
  BY <1>1, <1>2

LEMMA RunStepInv ==
  ASSUME RunIInv, [Run!Next]_(Run!vars) PROVE RunIInv'
<1>1. CASE Run!Next
  <2>1. CASE Run!Tick
    BY <2>1, RunTickInv
  <2>2. ASSUME NEW valid \in BOOLEAN, Run!WriteFile(valid) PROVE RunIInv'
    BY <2>2, RunWriteFileInv
  <2>3. ASSUME NEW kind \in Run!Kind, Run!Ask(kind) PROVE RunIInv'
    BY <2>3, RunAskInv
  <2>4. ASSUME NEW o \in Run!Outcome, Run!End(o) PROVE RunIInv'
    BY <2>4, RunEndInv
  <2>5. ASSUME NEW success \in BOOLEAN, Run!Reset(success) PROVE RunIInv'
    BY <2>5, RunResetInv
  <2>6. CASE Run!Accept
    BY <2>6, RunAcceptInv
  <2>7. CASE Run!Repair
    BY <2>7, RunBeginInv DEF Run!Repair
  <2>8. CASE Run!Refuse
    BY <2>8, RunStageInv DEF Run!Refuse
  <2> QED
    BY <1>1, <2>1, <2>2, <2>3, <2>4, <2>5, <2>6, <2>7, <2>8 DEF Run!Next
<1>2. CASE UNCHANGED Run!vars
  BY <1>2 DEF Run!vars, RunIInv, RunTyped, RunSaidIsBy, RunSeenFirst, RunStages,
      Run!AcceptedIsOfTheRun
<1> QED
  BY <1>1, <1>2

LEMMA RunInvAccepted ==
  RunIInv => Run!AcceptedIsOfTheRun
BY DEF RunIInv

\* Only its own steps touch AgentRun's variables.
LEMMA RunSteps == [Next]_vars => [Run!Next]_(Run!vars)
BY DEF Next, vars, gateVars, runVars, sizeVars, placeVars, panelVars, mapVars, Run!vars

-----------------------------------------------------------------------------
\* StrategyGate.

GateSnaps == gate_Views \cup {Gate!NoSnap}
GateLease == [status : {"none", "issued", "consumed"}, snap : GateSnaps, owner : BOOLEAN]
GateUpto == {"saved", "tabled", "kept", "announced"}
GateRow == [rev : Nat, supersedes : Nat, silent : BOOLEAN, input : Inputs, gate : Nat, at : Nat,
            created : Nat, snap : GateSnaps, upto : GateUpto \cup {"consumed"}]

GateTyped ==
  /\ gate_clock \in Nat /\ gate_facts \subseteq Nat
  /\ gate_lease \in [Inputs -> GateLease]
  /\ gate_strategies \in Seq(GateRow)
  /\ gate_table \in 0 .. Gate!Last
  /\ gate_sub \in [pc : GateUpto \cup {"idle", "gated"}, input : Inputs \cup {"none"}, silent : BOOLEAN, gate : Nat]

\* A stamp is given out once.
GateStamped ==
  /\ \A f \in gate_facts : f <= gate_clock
  /\ \A k \in Gate!Strategy : /\ gate_strategies[k].gate <= gate_clock /\ gate_strategies[k].at <= gate_clock
                              /\ gate_strategies[k].at \notin gate_facts
  /\ gate_sub.pc # "idle" => gate_sub.gate <= gate_clock

\* The submission in progress works on the last strategy, under a lease that is not
\* consumed; a strategy that is through has consumed its lease.
GateInProgress ==
  /\ gate_sub.pc # "idle" => gate_sub.input \in Inputs /\ gate_lease[gate_sub.input].status = "issued"
  /\ gate_sub.pc \in GateUpto => /\ Gate!Last > 0
                                 /\ gate_strategies[Gate!Last].upto = gate_sub.pc /\ gate_strategies[Gate!Last].input = gate_sub.input
  /\ \A k \in Gate!Strategy : Gate!Reached(k, {"consumed"}) => gate_lease[gate_strategies[k].input].status = "consumed"

\* The table's latest row is the last strategy that came so far.
GateTabled == \A k \in Gate!Strategy : ~Gate!Reached(k, {"saved"}) => k <= gate_table

\* What the strategy k did not leave to a later one.
GateCleared(f, k) ==
  \/ f <= gate_strategies[k].gate /\ (Gate!Announced(k) => Gate!Spoken(k))
  \/ gate_strategies[k].gate < f /\ f < gate_strategies[k].at

GateAnsweredBefore(k, gate) ==
  \A f \in gate_facts : f <= gate => \E j \in 1 .. k - 1 : GateCleared(f, j)

GateAnswered ==
  /\ \A k \in Gate!Strategy : gate_strategies[k].silent => GateAnsweredBefore(k, gate_strategies[k].gate)
  /\ gate_sub.pc = "gated" /\ gate_sub.silent => GateAnsweredBefore(Gate!Last + 1, gate_sub.gate)

GateIInv ==
  GateTyped /\ GateStamped /\ GateInProgress /\ GateTabled /\ GateAnswered /\ Gate!RevisionsGrow /\ Gate!InputUsedOnce

-----------------------------------------------------------------------------
LEMMA GateInitInv ==
  ASSUME Gate!Init PROVE GateIInv
<1>1. [status |-> "none", snap |-> Gate!NoSnap, owner |-> FALSE] \in GateLease
  BY DEF GateLease, GateSnaps
<1>2. Gate!Idle \in [pc : GateUpto \cup {"idle", "gated"}, input : Inputs \cup {"none"}, silent : BOOLEAN, gate : Nat]
      /\ Gate!Idle.pc = "idle"
  BY DEF Gate!Idle
<1>3. Gate!Last = 0 /\ Gate!Strategy = {}
  BY DEF Gate!Init, Gate!Last, Gate!Strategy
<1>4. GateTyped
  BY <1>1, <1>2, <1>3 DEF Gate!Init, GateTyped
<1>5. GateStamped /\ GateInProgress /\ GateTabled /\ GateAnswered /\ Gate!RevisionsGrow /\ Gate!InputUsedOnce
  BY <1>2, <1>3 DEF Gate!Init, GateStamped, GateInProgress, GateTabled, GateAnswered,
      Gate!RevisionsGrow, Gate!InputUsedOnce, GateUpto
<1> QED
  BY <1>4, <1>5 DEF GateIInv

LEMMA GateRowFacts ==
  ASSUME GateIInv
  PROVE  /\ Gate!Last \in Nat /\ Gate!Strategy = 1 .. Gate!Last
         /\ \A k \in Gate!Strategy : /\ gate_strategies[k] \in GateRow
                                     /\ gate_strategies[k].gate \in Nat /\ gate_strategies[k].at \in Nat
                                     /\ gate_strategies[k].rev \in Nat /\ gate_strategies[k].supersedes \in Nat
         /\ \A f \in gate_facts : f \in Nat
<1>1. gate_strategies \in Seq(GateRow)
  BY DEF GateIInv, GateTyped
<1>2. Gate!Last \in Nat /\ Gate!Strategy = 1 .. Gate!Last /\ \A k \in Gate!Strategy : gate_strategies[k] \in GateRow
  BY <1>1 DEF Gate!Last, Gate!Strategy
<1>3. \A k \in Gate!Strategy : /\ gate_strategies[k].gate \in Nat /\ gate_strategies[k].at \in Nat
                               /\ gate_strategies[k].rev \in Nat /\ gate_strategies[k].supersedes \in Nat
  BY <1>2 DEF GateRow
<1> QED
  BY <1>2, <1>3 DEF GateIInv, GateTyped

\* The parts that the strategies make up stay as they are with them.
LEMMA GateSameStrategies ==
  ASSUME GateIInv, UNCHANGED <<gate_strategies, gate_facts>>,
                               gate_sub'.pc # "gated" \/ UNCHANGED gate_sub
  PROVE  GateAnswered' /\ Gate!RevisionsGrow' /\ Gate!InputUsedOnce'
BY DEF GateIInv, GateAnswered, GateAnsweredBefore, GateCleared, Gate!Announced, Gate!Spoken,
    Gate!Reached, Gate!Strategy, Gate!Last, Gate!RevisionsGrow,
       Gate!InputUsedOnce

LEMMA GateRecordFactInv ==
  ASSUME GateIInv, Gate!RecordFact PROVE GateIInv'
<1>1. /\ gate_clock' = gate_clock + 1 /\ gate_facts' = gate_facts \cup {gate_clock + 1}
      /\ UNCHANGED <<gate_lease, gate_sub, gate_strategies, gate_table, gate_rt, gate_cuts,
                     gate_woken>>
  BY DEF Gate!RecordFact
<1>2. gate_clock \in Nat /\ gate_sub.gate \in Nat
  BY DEF GateIInv, GateTyped
<1>3. GateTyped'
  BY <1>1, <1>2 DEF GateIInv, GateTyped, Gate!Last
<1>4. Gate!Strategy' = Gate!Strategy /\ Gate!Last' = Gate!Last
  BY <1>1 DEF Gate!Strategy, Gate!Last
<1>5. GateStamped'
  BY <1>1, <1>2, <1>4, GateRowFacts DEF GateIInv, GateStamped
<1>6. GateInProgress' /\ GateTabled' /\ Gate!RevisionsGrow' /\ Gate!InputUsedOnce'
  BY <1>1, <1>4 DEF GateIInv, GateInProgress, GateTabled, Gate!RevisionsGrow, Gate!InputUsedOnce,
      Gate!Reached
<1>7. \A k \in Gate!Strategy : ~(gate_clock + 1 <= gate_strategies[k].gate)
  BY <1>2, GateRowFacts DEF GateIInv, GateStamped
<1>8. gate_sub.pc # "idle" => ~(gate_clock + 1 <= gate_sub.gate)
  BY <1>2 DEF GateIInv, GateStamped
<1>9. GateAnswered'
  BY <1>1, <1>4, <1>7, <1>8 DEF GateIInv, GateAnswered, GateAnsweredBefore, GateCleared,
      Gate!Announced, Gate!Reached, Gate!Spoken
<1> QED
  BY <1>3, <1>5, <1>6, <1>9 DEF GateIInv

LEMMA GatePullInv ==
  ASSUME GateIInv, NEW i \in Inputs, NEW v \in gate_Views, NEW owner \in BOOLEAN, Gate!Pull(i, v, owner) PROVE GateIInv'
<1> DEFINE new == [status |-> "issued", snap |-> v, owner |-> owner]
<1>1. /\ gate_lease[i].status = "none" /\ gate_lease' = [gate_lease EXCEPT ![i] = new]
      /\ UNCHANGED <<gate_clock, gate_facts, gate_sub, gate_strategies, gate_table, gate_rt,
                     gate_cuts, gate_woken>>
  BY DEF Gate!Pull
<1>2. new \in GateLease /\ new.status = "issued"
  BY DEF GateLease, GateSnaps
<1> HIDE DEF new
<1>3. gate_lease' \in [Inputs -> GateLease] /\ \A j \in Inputs : gate_lease'[j] = IF j = i THEN new ELSE gate_lease[j]
  BY <1>1, <1>2 DEF GateIInv, GateTyped
<1>4. GateTyped'
  BY <1>1, <1>3 DEF GateIInv, GateTyped, Gate!Last
<1>5. GateStamped' /\ GateTabled'
  BY <1>1 DEF GateIInv, GateStamped, GateTabled, Gate!Reached, Gate!Strategy
<1>6. \A k \in Gate!Strategy : gate_strategies[k].input \in Inputs
  BY GateRowFacts DEF GateRow
<1>7. GateInProgress'
  BY <1>1, <1>2, <1>3, <1>6 DEF GateIInv, GateInProgress, Gate!Reached, Gate!Strategy, Gate!Last
<1> QED
  BY <1>1, <1>4, <1>5, <1>7, GateSameStrategies DEF GateIInv

\* The gate lets a strategy be silent when the one before it left nothing.
LEMMA GateSilentIsAnswered ==
  ASSUME GateIInv, NEW i \in Inputs, Gate!Silent(i) PROVE GateAnsweredBefore(Gate!Last + 1, gate_clock)
<1> SUFFICES ASSUME NEW f \in gate_facts PROVE \E j \in 1 .. Gate!Last : GateCleared(f, j)
  <2>1. \A j \in 1 .. Gate!Last : j \in 1 .. (Gate!Last + 1) - 1
    BY GateRowFacts
  <2> QED
    BY <2>1, Zenon DEF GateAnsweredBefore
<1>1. Gate!Last \in Gate!Strategy /\ Gate!Last \in Nat
  BY GateRowFacts DEF Gate!Silent
<1>2. /\ f \in Nat /\ gate_strategies[Gate!Last].at \in Nat /\ gate_strategies[Gate!Last].gate \in Nat
      /\ ~(f > gate_strategies[Gate!Last].at) /\ f # gate_strategies[Gate!Last].at
  BY <1>1, GateRowFacts DEF Gate!Silent, Gate!NewFact, GateIInv, GateStamped
<1>3. f < gate_strategies[Gate!Last].at
  BY <1>2
<1>4. CASE gate_strategies[Gate!Last].gate < f
  BY <1>1, <1>3, <1>4, GateRowFacts DEF GateCleared
<1>5. CASE f <= gate_strategies[Gate!Last].gate
  <2>1. CASE Gate!Spoken(Gate!Last)
    BY <1>1, <1>5, <2>1, GateRowFacts DEF GateCleared
  <2>2. CASE ~Gate!Spoken(Gate!Last)
    <3>1. PICK j \in 1 .. Gate!Last - 1 : GateCleared(f, j)
      BY <1>1, <1>5, <2>2 DEF GateIInv, GateAnswered, GateAnsweredBefore, Gate!Spoken
    <3> QED
      BY <1>1, <3>1
  <2> QED
    BY <2>1, <2>2
<1> QED
  BY <1>2, <1>4, <1>5

LEMMA GateInv ==
  ASSUME GateIInv, NEW i \in Inputs, Gate!Gate(i) PROVE GateIInv'
<1>1. /\ gate_lease[i].status = "issued"
      /\ gate_sub' = [pc |-> "gated", input |-> i, silent |-> Gate!Silent(i), gate |-> gate_clock]
      /\ UNCHANGED <<gate_clock, gate_facts, gate_lease, gate_strategies, gate_table, gate_rt,
                     gate_cuts, gate_woken>>
  BY DEF Gate!Gate
<1>2. Gate!Silent(i) \in BOOLEAN
  BY DEF Gate!Silent
<1> DEFINE silent == Gate!Silent(i)
<1> HIDE DEF silent
<1>3. gate_sub' = [pc |-> "gated", input |-> i, silent |-> silent, gate |-> gate_clock]
  BY <1>1 DEF silent
<1>4. gate_clock \in Nat /\ gate_clock <= gate_clock
  BY DEF GateIInv, GateTyped
<1>5. silent \in BOOLEAN
  BY <1>2 DEF silent
<1>6. GateTyped'
  BY <1>1, <1>3, <1>4, <1>5 DEF GateIInv, GateTyped, Gate!Last
<1>7. GateStamped' /\ GateTabled'
  BY <1>1, <1>3, <1>4 DEF GateIInv, GateStamped, GateTabled, Gate!Reached, Gate!Strategy
<1>8. GateInProgress'
  BY <1>1, <1>3 DEF GateIInv, GateInProgress, Gate!Reached, Gate!Strategy, Gate!Last, GateUpto
<1>9. silent => GateAnsweredBefore(Gate!Last + 1, gate_clock)
  BY GateSilentIsAnswered DEF silent
<1>10. GateAnswered'
  BY <1>1, <1>3, <1>9
     DEF GateIInv, GateAnswered, GateAnsweredBefore, GateCleared, Gate!Announced, Gate!Spoken, Gate!Reached, Gate!Strategy, Gate!Last
<1>11. Gate!RevisionsGrow' /\ Gate!InputUsedOnce'
  BY <1>1 DEF GateIInv, Gate!RevisionsGrow, Gate!InputUsedOnce, Gate!Reached, Gate!Strategy
<1> QED
  BY <1>6, <1>7, <1>8, <1>10, <1>11 DEF GateIInv

LEMMA GateSaveAssetInv ==
  ASSUME GateIInv, Gate!SaveAsset PROVE GateIInv'
<1> DEFINE row == [rev |-> Gate!Revision, supersedes |-> gate_table, silent |-> gate_sub.silent, input |-> gate_sub.input,
                   gate |-> gate_sub.gate, at |-> gate_clock + 1, created |-> gate_clock + 1, snap |-> Gate!NoSnap,
                   upto |-> "saved"]
<1>1. /\ gate_sub.pc = "gated" /\ gate_clock' = gate_clock + 1
      /\ gate_strategies' = Append(gate_strategies, row)
      /\ gate_sub' = [gate_sub EXCEPT !.pc = "saved"]
      /\ UNCHANGED <<gate_facts, gate_lease, gate_table, gate_rt, gate_cuts, gate_woken>>
  BY DEF Gate!SaveAsset
<1>2. /\ gate_clock \in Nat /\ gate_table \in 0 .. Gate!Last /\ gate_strategies \in Seq(GateRow)
      /\ gate_sub.gate \in Nat /\ gate_sub.silent \in BOOLEAN /\ gate_sub.input \in Inputs /\ gate_sub.gate <= gate_clock
      /\ gate_lease[gate_sub.input].status = "issued"
  BY <1>1 DEF GateIInv, GateTyped, GateStamped, GateInProgress
<1>3. Gate!Revision \in Nat /\ (gate_table # 0 => Gate!Revision = gate_strategies[gate_table].rev + 1 /\ gate_table \in Gate!Strategy)
  BY <1>2, GateRowFacts DEF Gate!Revision
<1>4. row \in GateRow
  <2>1. gate_table \in Nat /\ gate_clock + 1 \in Nat
    BY <1>2, GateRowFacts
  <2> QED
    BY <1>2, <1>3, <2>1 DEF GateRow, GateSnaps, GateUpto
<1>5. /\ row.rev = Gate!Revision /\ row.supersedes = gate_table /\ row.silent = gate_sub.silent
      /\ row.input = gate_sub.input /\ row.gate = gate_sub.gate /\ row.at = gate_clock + 1 /\ row.upto = "saved"
  OBVIOUS
<1> HIDE DEF row
<1>6. /\ gate_strategies' \in Seq(GateRow) /\ Gate!Last' = Gate!Last + 1 /\ Gate!Strategy' = 1 .. Gate!Last + 1
      /\ gate_strategies'[Gate!Last + 1] = row
      /\ \A k \in Gate!Strategy : gate_strategies'[k] = gate_strategies[k]
  BY <1>1, <1>2, <1>4 DEF Gate!Last, Gate!Strategy
<1>7. Gate!Last \in Nat /\ Gate!Strategy = 1 .. Gate!Last
  BY GateRowFacts
<1>8. /\ \A k \in Gate!Strategy' : k \in Gate!Strategy \/ k = Gate!Last + 1
      /\ Gate!Strategy \subseteq Gate!Strategy' /\ Gate!Last + 1 \in Gate!Strategy' /\ \A k \in Gate!Strategy : k < Gate!Last + 1
  BY <1>6, <1>7
<1>9. gate_sub' = [pc |-> "saved", input |-> gate_sub.input, silent |-> gate_sub.silent, gate |-> gate_sub.gate]
  BY <1>1 DEF GateIInv, GateTyped
<1>10. GateTyped'
  <2>1. gate_sub' \in [pc : GateUpto \cup {"idle", "gated"}, input : Inputs \cup {"none"}, silent : BOOLEAN, gate : Nat]
    BY <1>2, <1>9 DEF GateUpto
  <2>2. gate_clock' \in Nat /\ gate_table' \in 0 .. Gate!Last'
    BY <1>1, <1>2, <1>6, <1>7
  <2> QED
    BY <1>1, <1>6, <2>1, <2>2 DEF GateIInv, GateTyped
<1>11. GateStamped'
  <2>1. \A f \in gate_facts : f <= gate_clock + 1 /\ f # gate_clock + 1
    BY <1>2, GateRowFacts DEF GateIInv, GateStamped
  <2>2. \A k \in Gate!Strategy : gate_strategies[k].gate <= gate_clock + 1 /\ gate_strategies[k].at <= gate_clock + 1
    BY <1>2, GateRowFacts DEF GateIInv, GateStamped
  <2>3. gate_sub.gate <= gate_clock + 1 /\ gate_clock + 1 <= gate_clock + 1
    BY <1>2
  <2>4. \A k \in Gate!Strategy' : /\ gate_strategies'[k].gate <= gate_clock + 1 /\ gate_strategies'[k].at <= gate_clock + 1
                                  /\ gate_strategies'[k].at \notin gate_facts
    BY <1>5, <1>6, <1>8, <2>1, <2>2, <2>3 DEF GateIInv, GateStamped
  <2> QED
    BY <1>1, <1>9, <2>1, <2>3, <2>4 DEF GateStamped
<1>12. GateInProgress'
  <2>1. Gate!Last + 1 > 0
    BY <1>7
  <2>2. /\ gate_sub'.input \in Inputs /\ gate_lease'[gate_sub'.input].status = "issued"
        /\ Gate!Last' > 0 /\ gate_strategies'[Gate!Last'].upto = gate_sub'.pc /\ gate_strategies'[Gate!Last'].input = gate_sub'.input
    BY <1>1, <1>2, <1>5, <1>6, <1>9, <2>1
  <2>3. ASSUME NEW k \in Gate!Strategy', gate_strategies'[k].upto = "consumed"
        PROVE  gate_lease'[gate_strategies'[k].input].status = "consumed"
    <3>1. k \in Gate!Strategy
      BY <1>5, <1>6, <1>8, <2>3
    <3> QED
      BY <1>1, <1>6, <2>3, <3>1 DEF GateIInv, GateInProgress, Gate!Reached
  <2> QED
    BY <2>2, <2>3 DEF GateInProgress, Gate!Reached
<1>13. GateTabled'
  BY <1>1, <1>5, <1>6, <1>8 DEF GateIInv, GateTabled, Gate!Reached
<1>14. \A k \in Gate!Strategy, f \in gate_facts : GateCleared(f, k) => GateCleared(f, k)'
  BY <1>6 DEF GateCleared, Gate!Announced, Gate!Reached, Gate!Spoken
<1>15. GateAnswered'
  <2> SUFFICES ASSUME NEW k \in Gate!Strategy', gate_strategies'[k].silent,
                      NEW f \in gate_facts, f <= gate_strategies'[k].gate
               PROVE  \E j \in 1 .. k - 1 : GateCleared(f, j)'
    BY <1>1, <1>9 DEF GateAnswered, GateAnsweredBefore
  <2>1. CASE k \in Gate!Strategy
    <3>1. PICK j \in 1 .. k - 1 : GateCleared(f, j)
      BY <1>6, <2>1 DEF GateIInv, GateAnswered, GateAnsweredBefore
    <3>2. j \in Gate!Strategy
      BY <1>7, <2>1, <3>1
    <3> QED
      BY <1>14, <3>1, <3>2
  <2>2. CASE k = Gate!Last + 1
    <3>1. GateAnsweredBefore(Gate!Last + 1, gate_sub.gate) /\ f <= gate_sub.gate
      BY <1>1, <1>5, <1>6, <2>2 DEF GateIInv, GateAnswered
    <3>2. /\ \A j \in 1 .. (Gate!Last + 1) - 1 : j \in Gate!Strategy
          /\ \A j \in Gate!Strategy : j \in 1 .. k - 1
      BY <1>7, <2>2
    <3>3. PICK j \in Gate!Strategy : GateCleared(f, j)
      BY <3>1, <3>2, Zenon DEF GateAnsweredBefore
    <3>4. GateCleared(f, j)'
      BY <1>14, <3>3
    <3> QED
      BY <3>2, <3>3, <3>4
  <2> QED
    BY <1>8, <2>1, <2>2
<1>16. Gate!RevisionsGrow'
  <2> SUFFICES ASSUME NEW j \in Gate!Strategy', NEW k \in Gate!Strategy', j < k, gate_strategies'[j].upto # "saved"
               PROVE  gate_strategies'[j].rev < gate_strategies'[k].rev /\ gate_strategies'[k].supersedes >= j
    BY DEF Gate!RevisionsGrow, Gate!Reached
  <2>1. j \in Gate!Strategy
    BY <1>7, <1>6, <1>8
  <2>2. CASE k \in Gate!Strategy
    BY <1>6, <2>1, <2>2 DEF GateIInv, Gate!RevisionsGrow, Gate!Reached
  <2>3. CASE k = Gate!Last + 1
    <3>1. j <= gate_table
      BY <1>6, <2>1 DEF GateIInv, GateTabled, Gate!Reached
    <3>2. gate_table # 0 /\ gate_table \in Nat /\ j \in Nat
      BY <1>2, <1>7, <2>1, <3>1
    <3>3. gate_table \in Gate!Strategy /\ gate_strategies[gate_table].rev \in Nat /\ gate_strategies[j].rev \in Nat
      BY <1>3, <2>1, <3>2, GateRowFacts
    <3>4. j = gate_table \/ gate_strategies[j].rev < gate_strategies[gate_table].rev
      BY <1>6, <2>1, <3>1, <3>2, <3>3 DEF GateIInv, Gate!RevisionsGrow, Gate!Reached
    <3>5. gate_strategies[j].rev < Gate!Revision
      BY <1>3, <3>2, <3>3, <3>4
    <3> QED
      BY <1>5, <1>6, <2>1, <2>3, <3>1, <3>2, <3>5
  <2> QED
    BY <1>8, <2>2, <2>3
<1>17. Gate!InputUsedOnce'
  <2> SUFFICES ASSUME NEW j \in Gate!Strategy', NEW k \in Gate!Strategy', j < k,
                      gate_strategies'[j].input = gate_strategies'[k].input
               PROVE  gate_strategies'[j].upto # "consumed"
    BY DEF Gate!InputUsedOnce, Gate!Reached
  <2>1. j \in Gate!Strategy
    BY <1>7, <1>6, <1>8
  <2>2. CASE k \in Gate!Strategy
    BY <1>6, <2>1, <2>2 DEF GateIInv, Gate!InputUsedOnce, Gate!Reached
  <2>3. CASE k = Gate!Last + 1
    BY <1>2, <1>5, <1>6, <2>1, <2>3 DEF GateIInv, GateInProgress, Gate!Reached
  <2> QED
    BY <1>8, <2>2, <2>3
<1> QED
  BY <1>10, <1>11, <1>12, <1>13, <1>15, <1>16, <1>17 DEF GateIInv

\* The last strategy comes further: what it says stays as it is.
LEMMA GateMarkedInv ==
  ASSUME GateIInv, gate_sub.pc \in GateUpto, NEW row \in GateRow, gate_strategies' = [gate_strategies EXCEPT ![Gate!Last] = row],
         row.rev = gate_strategies[Gate!Last].rev, row.supersedes = gate_strategies[Gate!Last].supersedes,
         row.silent = gate_strategies[Gate!Last].silent, row.input = gate_strategies[Gate!Last].input,
         row.gate = gate_strategies[Gate!Last].gate, row.at = gate_strategies[Gate!Last].at,
         row.upto # "saved",
         UNCHANGED <<gate_clock, gate_facts>>, gate_sub'.pc # "gated",
         gate_table' = Gate!Last \/ (gate_table' = gate_table /\ gate_strategies[Gate!Last].upto # "saved"),
         gate_sub'.pc = "idle" \/ (gate_sub'.pc # "idle" /\ gate_sub'.gate = gate_sub.gate)
  PROVE  /\ gate_strategies' \in Seq(GateRow) /\ Gate!Last' = Gate!Last /\ Gate!Strategy' = Gate!Strategy
         /\ Gate!Last \in Gate!Strategy /\ gate_table' \in 0 .. Gate!Last
         /\ \A k \in Gate!Strategy : gate_strategies'[k] = IF k = Gate!Last THEN row ELSE gate_strategies[k]
         /\ GateStamped' /\ GateTabled' /\ GateAnswered' /\ Gate!RevisionsGrow' /\ Gate!InputUsedOnce'
<1>1. Gate!Last \in Nat /\ Gate!Strategy = 1 .. Gate!Last /\ Gate!Last > 0 /\ Gate!Last \in Gate!Strategy
  BY GateRowFacts DEF GateIInv, GateInProgress
<1>2. gate_strategies \in Seq(GateRow) /\ gate_table \in 0 .. Gate!Last
  BY DEF GateIInv, GateTyped
<1>3. /\ gate_strategies' \in Seq(GateRow) /\ Len(gate_strategies') = Len(gate_strategies)
      /\ DOMAIN gate_strategies' = DOMAIN gate_strategies
      /\ \A k \in DOMAIN gate_strategies : gate_strategies'[k] = IF k = Gate!Last THEN row ELSE gate_strategies[k]
  BY <1>1, <1>2 DEF Gate!Last
<1>4. /\ Gate!Last' = Gate!Last /\ Gate!Strategy' = Gate!Strategy
      /\ \A k \in Gate!Strategy : gate_strategies'[k] = IF k = Gate!Last THEN row ELSE gate_strategies[k]
  BY <1>3 DEF Gate!Last, Gate!Strategy
<1>5. gate_table' \in 0 .. Gate!Last
  BY <1>1, <1>2
<1>6. \A k \in Gate!Strategy : /\ gate_strategies'[k].rev = gate_strategies[k].rev
                               /\ gate_strategies'[k].supersedes = gate_strategies[k].supersedes
                               /\ gate_strategies'[k].silent = gate_strategies[k].silent
                               /\ gate_strategies'[k].input = gate_strategies[k].input
                               /\ gate_strategies'[k].gate = gate_strategies[k].gate
                               /\ gate_strategies'[k].at = gate_strategies[k].at
                               /\ k # Gate!Last => gate_strategies'[k].upto = gate_strategies[k].upto
  BY <1>4
<1>7. GateStamped'
  BY <1>4, <1>6 DEF GateIInv, GateStamped, GateUpto
<1>8. GateTabled'
  <2> SUFFICES ASSUME NEW k \in Gate!Strategy, gate_strategies'[k].upto # "saved" PROVE k <= gate_table'
    BY <1>4 DEF GateTabled, Gate!Reached
  <2>1. CASE gate_table' = Gate!Last
    BY <1>1, <2>1
  <2>2. CASE gate_table' = gate_table /\ gate_strategies[Gate!Last].upto # "saved"
    BY <1>6, <2>2 DEF GateIInv, GateTabled, Gate!Reached
  <2> QED
    BY <2>1, <2>2
<1>9. \A k \in Gate!Strategy, f \in gate_facts : k # Gate!Last /\ GateCleared(f, k) => GateCleared(f, k)'
  BY <1>4 DEF GateCleared, Gate!Announced, Gate!Reached, Gate!Spoken
<1>10. GateAnswered'
  <2> SUFFICES ASSUME NEW k \in Gate!Strategy, gate_strategies'[k].silent,
                      NEW f \in gate_facts, f <= gate_strategies'[k].gate
               PROVE  \E j \in 1 .. k - 1 : GateCleared(f, j)'
    BY <1>4 DEF GateAnswered, GateAnsweredBefore
  <2>1. PICK j \in 1 .. k - 1 : GateCleared(f, j)
    BY <1>6 DEF GateIInv, GateAnswered, GateAnsweredBefore
  <2>2. j \in Gate!Strategy /\ j # Gate!Last
    BY <1>1, <2>1
  <2> QED
    BY <1>9, <2>1, <2>2
<1>11. \A j, k \in Gate!Strategy : j < k => j # Gate!Last
  BY <1>1
<1>12. Gate!RevisionsGrow'
  BY <1>4, <1>6, <1>11 DEF GateIInv, Gate!RevisionsGrow, Gate!Reached
<1>13. Gate!InputUsedOnce'
  BY <1>4, <1>6, <1>11 DEF GateIInv, Gate!InputUsedOnce, Gate!Reached
<1> QED
  BY <1>1, <1>3, <1>4, <1>5, <1>7, <1>8, <1>10, <1>12, <1>13

\* A row that is saved again, and what it holds then.
GateAgain(old, upto, snap, created) ==
  [rev |-> old.rev, supersedes |-> old.supersedes, silent |-> old.silent,
   input |-> old.input, gate |-> old.gate, at |-> old.at, created |-> created,
   snap |-> snap, upto |-> upto]

LEMMA GateAgainIs ==
  ASSUME NEW old \in GateRow, NEW upto
  PROVE  [old EXCEPT !.upto = upto] = GateAgain(old, upto, old.snap, old.created)
<1>1. old = GateAgain(old, old.upto, old.snap, old.created)
  BY DEF GateRow, GateAgain
<1> QED
  BY <1>1 DEF GateAgain

\* The same with the next step of the submission, whose lease it leaves alone.
LEMMA GateAdvanceInv ==
  ASSUME GateIInv, gate_sub.pc \in GateUpto, NEW pc \in GateUpto \ {"saved"}, Gate!Advance(pc), UNCHANGED gate_lease,
         gate_table' = Gate!Last \/ (gate_table' = gate_table /\ gate_sub.pc # "saved"),
         NEW snap \in GateSnaps, NEW created \in Nat,
         gate_strategies' = [gate_strategies EXCEPT ![Gate!Last] = GateAgain(gate_strategies[Gate!Last], pc, snap, created)]
  PROVE  GateIInv'
<1> DEFINE old == gate_strategies[Gate!Last]
           row == GateAgain(old, pc, snap, created)
<1>1. Gate!Last \in Gate!Strategy /\ old \in GateRow /\ old.upto = gate_sub.pc /\ old.input = gate_sub.input
  BY GateRowFacts DEF GateIInv, GateInProgress
<1>2. row \in GateRow
  BY <1>1 DEF GateRow, GateAgain
<1>3. /\ row.rev = old.rev /\ row.supersedes = old.supersedes /\ row.silent = old.silent
      /\ row.input = old.input /\ row.gate = old.gate /\ row.at = old.at /\ row.upto = pc
  BY DEF GateAgain
<1> HIDE DEF row
<1>4. gate_strategies' = [gate_strategies EXCEPT ![Gate!Last] = row]
  BY DEF row
<1>5. gate_sub' = [pc |-> pc, input |-> gate_sub.input, silent |-> gate_sub.silent, gate |-> gate_sub.gate]
      /\ UNCHANGED <<gate_clock, gate_facts>>
  BY DEF Gate!Advance, GateIInv, GateTyped
<1>6. pc \notin {"idle", "gated", "saved"} /\ gate_sub.pc # "idle"
  BY DEF GateUpto
<1>7. /\ gate_strategies' \in Seq(GateRow) /\ Gate!Last' = Gate!Last /\ Gate!Strategy' = Gate!Strategy /\ gate_table' \in 0 .. Gate!Last
      /\ \A k \in Gate!Strategy : gate_strategies'[k] = IF k = Gate!Last THEN row ELSE gate_strategies[k]
      /\ GateStamped' /\ GateTabled' /\ GateAnswered' /\ Gate!RevisionsGrow' /\ Gate!InputUsedOnce'
  BY <1>1, <1>2, <1>3, <1>4, <1>5, <1>6, GateMarkedInv
<1>8. GateTyped'
  BY <1>5, <1>7 DEF GateIInv, GateTyped
<1>9. \A k \in Gate!Strategy : gate_strategies'[k].input = gate_strategies[k].input /\
        (gate_strategies'[k].upto = "consumed" => gate_strategies[k].upto = "consumed")
  BY <1>3, <1>7 DEF GateUpto
<1>10. GateInProgress'
  <2>1. /\ gate_sub'.input \in Inputs /\ gate_lease'[gate_sub'.input].status = "issued"
        /\ Gate!Last' > 0 /\ gate_strategies'[Gate!Last'].upto = gate_sub'.pc /\ gate_strategies'[Gate!Last'].input = gate_sub'.input
    BY <1>1, <1>3, <1>5, <1>6, <1>7 DEF GateIInv, GateInProgress
  <2>2. \A k \in Gate!Strategy' : gate_strategies'[k].upto = "consumed" =>
          gate_lease'[gate_strategies'[k].input].status = "consumed"
    BY <1>7, <1>9 DEF GateIInv, GateInProgress, Gate!Reached
  <2> QED
    BY <2>1, <2>2 DEF GateInProgress, Gate!Reached
<1> QED
  BY <1>7, <1>8, <1>10 DEF GateIInv

LEMMA GateSaveTableInv ==
  ASSUME GateIInv, Gate!SaveTable PROVE GateIInv'
<1> DEFINE old == gate_strategies[Gate!Last]
<1>1. Gate!Last \in Gate!Strategy /\ old \in GateRow /\ gate_sub.pc \in GateUpto
  BY GateRowFacts DEF Gate!SaveTable, GateIInv, GateInProgress, GateUpto
<1>2. old.snap \in GateSnaps /\ old.created \in Nat
  BY <1>1 DEF GateRow
<1>3. gate_strategies' = [gate_strategies EXCEPT ![Gate!Last] = GateAgain(old, "tabled", old.snap, old.created)]
  BY <1>1, GateAgainIs DEF Gate!SaveTable, Gate!Strategy, GateIInv, GateTyped
<1> QED
  BY <1>1, <1>2, <1>3, GateAdvanceInv DEF Gate!SaveTable, GateUpto

LEMMA GateSaveSnapshotInv ==
  ASSUME GateIInv, Gate!SaveSnapshot PROVE GateIInv'
<1> DEFINE old == gate_strategies[Gate!Last]
<1>1. /\ gate_sub.pc \in GateUpto /\ gate_sub.input \in Inputs /\ gate_clock \in Nat
      /\ Gate!Last \in Gate!Strategy /\ old \in GateRow
  BY GateRowFacts DEF Gate!SaveSnapshot, GateIInv, GateInProgress, GateUpto, GateTyped
<1>2. gate_lease[gate_sub.input].snap \in GateSnaps
  BY <1>1 DEF GateIInv, GateTyped, GateLease
<1>3. gate_strategies' = [gate_strategies EXCEPT ![Gate!Last] = GateAgain(old, "kept", gate_lease[gate_sub.input].snap, gate_clock)]
  <2>1. [[[old EXCEPT !.snap = gate_lease[gate_sub.input].snap] EXCEPT !.created = gate_clock] EXCEPT !.upto = "kept"] =
          GateAgain(old, "kept", gate_lease[gate_sub.input].snap, gate_clock)
    <3> DEFINE snap == gate_lease[gate_sub.input].snap
    <3> HIDE DEF old, snap
    <3>1. old = GateAgain(old, old.upto, old.snap, old.created)
      BY <1>1 DEF GateRow, GateAgain
    <3>2. [old EXCEPT !.snap = snap] = GateAgain(old, old.upto, snap, old.created)
      BY <3>1 DEF GateAgain
    <3>3. [GateAgain(old, old.upto, snap, old.created) EXCEPT !.created = gate_clock] =
            GateAgain(old, old.upto, snap, gate_clock)
      BY DEF GateAgain
    <3>4. [GateAgain(old, old.upto, snap, gate_clock) EXCEPT !.upto = "kept"] = GateAgain(old, "kept", snap, gate_clock)
      BY DEF GateAgain
    <3> QED
      BY <3>2, <3>3, <3>4, Zenon DEF snap
  <2>2. gate_strategies' =
          [gate_strategies EXCEPT ![Gate!Last] = [[[old EXCEPT !.snap = gate_lease[gate_sub.input].snap]
                                           EXCEPT !.created = gate_clock] EXCEPT !.upto = "kept"]]
    BY <1>1 DEF Gate!SaveSnapshot, Gate!Strategy
  <2> QED
    BY <2>1, <2>2
<1> QED
  BY <1>1, <1>2, <1>3, GateAdvanceInv DEF Gate!SaveSnapshot, GateUpto

LEMMA GateAnnounceInv ==
  ASSUME GateIInv, Gate!Announce PROVE GateIInv'
<1> DEFINE old == gate_strategies[Gate!Last]
<1>1. Gate!Last \in Gate!Strategy /\ old \in GateRow /\ gate_sub.pc \in GateUpto
  BY GateRowFacts DEF Gate!Announce, GateIInv, GateInProgress, GateUpto
<1>2. old.snap \in GateSnaps /\ old.created \in Nat
  BY <1>1 DEF GateRow
<1>3. gate_strategies' = [gate_strategies EXCEPT ![Gate!Last] = GateAgain(old, "announced", old.snap, old.created)]
  BY <1>1, GateAgainIs DEF Gate!Announce, Gate!Strategy, GateIInv, GateTyped
<1> QED
  BY <1>1, <1>2, <1>3, GateAdvanceInv DEF Gate!Announce, GateUpto

LEMMA GateConsumeInv ==
  ASSUME GateIInv, Gate!Consume PROVE GateIInv'
<1> DEFINE old == gate_strategies[Gate!Last]
           row == GateAgain(old, "consumed", old.snap, old.created)
           used == Gate!Consumed(gate_sub.input)
<1>1. Gate!Last \in Gate!Strategy /\ old \in GateRow /\ old.upto = "announced" /\ old.input = gate_sub.input
      /\ gate_sub.pc = "announced" /\ gate_sub.input \in Inputs
  BY GateRowFacts DEF Gate!Consume, GateIInv, GateInProgress, GateUpto
<1>2. gate_strategies' = [gate_strategies EXCEPT ![Gate!Last] = row]
  BY <1>1, GateAgainIs DEF Gate!Consume, Gate!Strategy, GateIInv, GateTyped
<1>3. row \in GateRow
  BY <1>1 DEF GateRow, GateAgain
<1>4. /\ row.rev = old.rev /\ row.supersedes = old.supersedes /\ row.silent = old.silent
      /\ row.input = old.input /\ row.gate = old.gate /\ row.at = old.at /\ row.upto = "consumed"
  BY DEF GateAgain
<1>5. /\ gate_sub' = Gate!Idle /\ gate_lease' = [gate_lease EXCEPT ![gate_sub.input] = used]
      /\ UNCHANGED <<gate_clock, gate_facts, gate_table>>
  BY DEF Gate!Consume
<1>6. used \in GateLease /\ used.status = "consumed"
  BY DEF Gate!Consumed, GateLease, GateSnaps
<1>7. /\ Gate!Idle \in [pc : GateUpto \cup {"idle", "gated"}, input : Inputs \cup {"none"}, silent : BOOLEAN, gate : Nat]
      /\ Gate!Idle.pc = "idle"
  BY DEF Gate!Idle
<1> HIDE DEF row, used
<1>8. /\ gate_strategies' \in Seq(GateRow) /\ Gate!Last' = Gate!Last /\ Gate!Strategy' = Gate!Strategy /\ gate_table' \in 0 .. Gate!Last
      /\ \A k \in Gate!Strategy : gate_strategies'[k] = IF k = Gate!Last THEN row ELSE gate_strategies[k]
      /\ GateStamped' /\ GateTabled' /\ GateAnswered' /\ Gate!RevisionsGrow' /\ Gate!InputUsedOnce'
  BY <1>1, <1>2, <1>3, <1>4, <1>5, <1>7, GateMarkedInv DEF GateUpto
<1>9. gate_lease' \in [Inputs -> GateLease] /\ \A i \in Inputs : gate_lease'[i] = IF i = gate_sub.input THEN used ELSE gate_lease[i]
  BY <1>1, <1>5, <1>6 DEF GateIInv, GateTyped
<1>10. GateTyped'
  BY <1>5, <1>7, <1>8, <1>9 DEF GateIInv, GateTyped
<1>11. \A k \in Gate!Strategy : gate_strategies[k].input \in Inputs
  BY GateRowFacts DEF GateRow
<1>12. GateInProgress'
  <2> SUFFICES ASSUME NEW k \in Gate!Strategy, gate_strategies'[k].upto = "consumed"
               PROVE  gate_lease'[gate_strategies'[k].input].status = "consumed"
    BY <1>5, <1>7, <1>8 DEF GateInProgress, Gate!Reached, GateUpto
  <2>1. CASE k = Gate!Last
    BY <1>1, <1>4, <1>6, <1>8, <1>9, <2>1
  <2>2. CASE k # Gate!Last
    <3>1. gate_strategies'[k] = gate_strategies[k]
      BY <1>8, <2>2
    <3>2. gate_lease[gate_strategies[k].input].status = "consumed"
      BY <3>1 DEF GateIInv, GateInProgress, Gate!Reached
    <3> QED
      BY <1>6, <1>9, <1>11, <3>1, <3>2
  <2> QED
    BY <2>1, <2>2
<1> QED
  BY <1>8, <1>10, <1>12 DEF GateIInv

LEMMA GateCutOffInv ==
  ASSUME GateIInv, Gate!CutOff PROVE GateIInv'
<1>1. gate_sub' = Gate!Idle /\ UNCHANGED <<gate_clock, gate_facts, gate_lease, gate_strategies,
                                           gate_table, gate_rt, gate_woken>>
  BY DEF Gate!CutOff
<1>2. /\ Gate!Idle \in [pc : GateUpto \cup {"idle", "gated"}, input : Inputs \cup {"none"}, silent : BOOLEAN, gate : Nat]
      /\ Gate!Idle.pc = "idle"
  BY DEF Gate!Idle
<1>3. GateTyped'
  BY <1>1, <1>2 DEF GateIInv, GateTyped, Gate!Last
<1>4. GateStamped' /\ GateTabled'
  BY <1>1, <1>2 DEF GateIInv, GateStamped, GateTabled, Gate!Reached, Gate!Strategy
<1>5. GateInProgress'
  BY <1>1, <1>2 DEF GateIInv, GateInProgress, Gate!Reached, Gate!Strategy, GateUpto
<1> QED
  BY <1>1, <1>2, <1>3, <1>4, <1>5, GateSameStrategies DEF GateIInv

LEMMA GateOtherInv ==
  ASSUME GateIInv, UNCHANGED <<gate_clock, gate_facts, gate_lease, gate_sub, gate_strategies,
                               gate_table>> PROVE GateIInv'
<1>1. GateTyped' /\ GateStamped' /\ GateTabled' /\ GateInProgress'
  BY DEF GateIInv, GateTyped, GateStamped, GateTabled, GateInProgress, Gate!Reached,
      Gate!Strategy, Gate!Last
<1> QED
  BY <1>1, GateSameStrategies DEF GateIInv

LEMMA GateStepInv ==
  ASSUME GateIInv, [Gate!Next]_(Gate!vars) PROVE GateIInv'
<1>1. CASE Gate!Next
  <2>1. CASE Gate!RecordFact
    BY <2>1, GateRecordFactInv
  <2>2. ASSUME NEW i \in Inputs, Gate!Gate(i) PROVE GateIInv'
    BY <2>2, GateInv
  <2>3. ASSUME NEW i \in Inputs, NEW v \in gate_Views, NEW owner \in BOOLEAN, Gate!Pull(i, v, owner) PROVE GateIInv'
    BY <2>3, GatePullInv
  <2>4. CASE Gate!SaveAsset \/ Gate!SaveTable \/ Gate!SaveSnapshot \/ Gate!Announce \/ Gate!Consume
    BY <2>4, GateSaveAssetInv, GateSaveTableInv, GateSaveSnapshotInv, GateAnnounceInv,
        GateConsumeInv
  <2>5. CASE Gate!CutOff
    BY <2>5, GateCutOffInv
  <2>6. CASE Gate!RTScan
    BY <2>6, GateOtherInv DEF Gate!RTScan
  <2> QED
    BY <1>1, <2>1, <2>2, <2>3, <2>4, <2>5, <2>6 DEF Gate!Next
<1>2. CASE UNCHANGED Gate!vars
  BY <1>2, GateOtherInv DEF Gate!vars
<1> QED
  BY <1>1, <1>2

LEMMA GateInvSilent ==
  GateIInv => Gate!SilentMeansAnswered
BY DEF GateIInv, GateAnswered, GateAnsweredBefore, GateCleared, Gate!SilentMeansAnswered

\* Only its own steps touch StrategyGate's variables.
LEMMA GateSteps == [Next]_vars => [Gate!Next]_(Gate!vars)
BY DEF Next, vars, gateVars, runVars, sizeVars, placeVars, panelVars, mapVars, Gate!vars

-----------------------------------------------------------------------------
\* OrderSizing.

SizingOrderT ==
  [pc : {"none", "planned", "looked"}, action : Sizing!Reducing \cup {"none", "open", "add", "flip"},
   side : Sizing!Side, notional : Nat, read : Int, at : Nat]

\* An order that adds was authorised within the limit; one that reduces has seen a
\* position to reduce.
SizingSane(o) ==
  /\ o.pc # "none" /\ o.action \in {"open", "add"} => o.notional <= Sizing!Notional(size_OrderLimit)
  /\ o.pc # "none" => o.action # "none"
  /\ o.pc = "looked" /\ o.action \in Sizing!Reducing => o.read # 0

SizingIInv ==
  /\ size_qty \in Int /\ size_mark \in size_Marks /\ size_cached \in size_Marks
  /\ size_order \in [Sizing!Trader -> SizingOrderT]
  /\ \A t \in Sizing!Trader : SizingSane(size_order[t])

-----------------------------------------------------------------------------
\* Arithmetic.
LEMMA SizingDivides ==
  ASSUME NEW a \in Nat, NEW b \in Nat, b # 0
  PROVE  a \div b \in Nat /\ (a \div b) * b <= a /\ a < (a \div b) * b + b
BY Z3

LEMMA SizingTimesUp ==
  ASSUME NEW a \in Nat, NEW b \in Nat, NEW s \in Nat
  PROVE  a * s \in Nat /\ (a <= b => a * s <= b * s) /\ (s # 0 /\ a * s < b * s => a < b)
BY Z3

\* What a quotient reaches.
LEMMA SizingQuotient ==
  ASSUME NEW n \in Nat, NEW x \in Nat, NEW p \in Nat, p # 0, n * p <= x
  PROVE  n <= x \div p
<1> DEFINE q == x \div p
<1>1. q \in Nat /\ x < q * p + p
  BY SizingDivides
<1> HIDE DEF q
<1>2. q * p + p = (q + 1) * p /\ q + 1 \in Nat
  BY <1>1, Z3
<1>3. n * p \in Nat /\ (q + 1) * p \in Nat
  BY <1>2, SizingTimesUp
<1>4. n * p < (q + 1) * p
  BY <1>1, <1>2, <1>3
<1>5. n < q + 1
  BY <1>2, <1>4, SizingTimesUp
<1> QED
  BY <1>1, <1>5 DEF q

LEMMA SizingNotionalIs ==
  ASSUME NEW s \in Nat, NEW l \in Nat, s <= l
  PROVE  Sizing!Notional(s) \in Nat /\ Sizing!Notional(s) <= Sizing!Notional(l)
<1>1. size_Budget * s \in Nat /\ size_Budget * l \in Nat /\ size_Budget * s <= size_Budget * l
  BY SizingAssumption, Z3
<1> DEFINE x == size_Budget * s
           y == size_Budget * l
<1> HIDE DEF x, y
<1>2. x \in Nat /\ y \in Nat /\ x <= y
  BY <1>1 DEF x, y
<1>3. x \div 100 \in Nat /\ x \div 100 <= y \div 100
  BY <1>2, Z3
<1> QED
  BY <1>3 DEF Sizing!Notional, x, y

LEMMA SizingInitInv == Sizing!Init => SizingIInv
<1> SUFFICES ASSUME Sizing!Init PROVE SizingIInv
  OBVIOUS
<1>1. Sizing!NoOrder \in SizingOrderT /\ Sizing!NoOrder.pc = "none"
  BY DEF Sizing!NoOrder, SizingOrderT, Sizing!Side
<1>2. size_qty \in Int /\ size_mark \in size_Marks /\ size_cached \in size_Marks /\ size_order = [t \in Sizing!Trader |-> Sizing!NoOrder]
  BY DEF Sizing!Init
<1> QED
  BY <1>1, <1>2 DEF SizingIInv, SizingSane

\* One order is replaced.
LEMMA SizingOneOrder ==
  ASSUME SizingIInv, NEW t \in Sizing!Trader, NEW o \in SizingOrderT, SizingSane(o), size_order' = [size_order EXCEPT ![t] = o],
         size_qty' \in Int, size_mark' \in size_Marks, size_cached' \in size_Marks
  PROVE  SizingIInv'
<1>1. size_order' \in [Sizing!Trader -> SizingOrderT]
  BY DEF SizingIInv
<1>2. \A u \in Sizing!Trader : size_order'[u] = IF u = t THEN o ELSE size_order[u]
  BY DEF SizingIInv
<1>3. \A u \in Sizing!Trader : SizingSane(size_order'[u])
  BY <1>2 DEF SizingIInv
<1> QED
  BY <1>1, <1>3 DEF SizingIInv, SizingSane

LEMMA SizingNoOrderIs == Sizing!NoOrder \in SizingOrderT /\ SizingSane(Sizing!NoOrder)
BY DEF Sizing!NoOrder, SizingOrderT, Sizing!Side, SizingSane

\* An order that is planned, and one that has looked.
LEMMA SizingPlannedIs ==
  ASSUME NEW a, NEW s, NEW n
  PROVE  [Sizing!NoOrder EXCEPT !.pc = "planned", !.action = a, !.side = s, !.notional = n]
         = [pc |-> "planned", action |-> a, side |-> s, notional |-> n, read |-> 0, at |-> 0]
<1> DEFINE y1 == [Sizing!NoOrder EXCEPT !.pc = "planned"]
           y2 == [y1 EXCEPT !.action = a]
           y3 == [y2 EXCEPT !.side = s]
<1>1. y1 = [pc |-> "planned", action |-> "none", side |-> "flat", notional |-> 0, read |-> 0, at |-> 0]
  BY DEF Sizing!NoOrder
<1> HIDE DEF y1
<1>2. y2 = [pc |-> "planned", action |-> a, side |-> "flat", notional |-> 0, read |-> 0, at |-> 0]
  BY <1>1
<1> HIDE DEF y2
<1>3. y3 = [pc |-> "planned", action |-> a, side |-> s, notional |-> 0, read |-> 0, at |-> 0]
  BY <1>2
<1> HIDE DEF y3
<1>4. [y3 EXCEPT !.notional = n]
      = [pc |-> "planned", action |-> a, side |-> s, notional |-> n, read |-> 0, at |-> 0]
  BY <1>3
<1>5. [Sizing!NoOrder EXCEPT !.pc = "planned", !.action = a, !.side = s, !.notional = n]
      = [[[[Sizing!NoOrder EXCEPT !.pc = "planned"] EXCEPT !.action = a] EXCEPT !.side = s] EXCEPT !.notional = n]
  OBVIOUS
<1> QED
  BY <1>4, <1>5 DEF y1, y2, y3

LEMMA SizingLookedIs ==
  ASSUME NEW x \in SizingOrderT, NEW q, NEW m
  PROVE  [x EXCEPT !.pc = "looked", !.read = q, !.at = m]
         = [pc |-> "looked", action |-> x.action, side |-> x.side, notional |-> x.notional, read |-> q, at |-> m]
<1> DEFINE y1 == [x EXCEPT !.pc = "looked"]
           y2 == [y1 EXCEPT !.read = q]
<1>1. y1 = [pc |-> "looked", action |-> x.action, side |-> x.side, notional |-> x.notional,
            read |-> x.read, at |-> x.at]
  BY DEF SizingOrderT
<1> HIDE DEF y1
<1>2. y2 = [pc |-> "looked", action |-> x.action, side |-> x.side, notional |-> x.notional,
            read |-> q, at |-> x.at]
  BY <1>1
<1> HIDE DEF y2
<1>3. [y2 EXCEPT !.at = m]
      = [pc |-> "looked", action |-> x.action, side |-> x.side, notional |-> x.notional, read |-> q, at |-> m]
  BY <1>2
<1>4. [x EXCEPT !.pc = "looked", !.read = q, !.at = m]
      = [[[x EXCEPT !.pc = "looked"] EXCEPT !.read = q] EXCEPT !.at = m]
  OBVIOUS
<1> QED
  BY <1>3, <1>4 DEF y1, y2

LEMMA SizingTakeInv ==
  ASSUME SizingIInv, NEW t \in Sizing!Trader, NEW action \in Sizing!Reducing \cup {"open", "add", "flip"}, NEW side \in Sizing!Side,
         NEW notional \in Nat, action \in {"open", "add"} => notional <= Sizing!Notional(size_OrderLimit),
         Sizing!Take(t, action, side, notional)
  PROVE  SizingIInv'
<1> PICK o : o = [pc |-> "planned", action |-> action, side |-> side, notional |-> notional, read |-> 0, at |-> 0]
  OBVIOUS
<1>1. [Sizing!NoOrder EXCEPT !.pc = "planned", !.action = action, !.side = side, !.notional = notional] = o
  BY SizingPlannedIs
<1>2. size_order' = [size_order EXCEPT ![t] = o] /\ UNCHANGED <<size_qty, size_mark,
                                                                size_cached>>
  BY <1>1 DEF Sizing!Take
<1>3. o \in SizingOrderT /\ SizingSane(o)
  BY DEF SizingOrderT, SizingSane, Sizing!Reducing
<1> QED
  BY <1>2, <1>3, SizingOneOrder DEF SizingIInv

LEMMA SizingRTDecidesInv ==
  ASSUME SizingIInv, NEW action \in {"open", "add", "flip", "reduce", "close"}, NEW side \in Sizing!Side,
         NEW share \in size_Shares, Sizing!RTDecides(action, side, share)
  PROVE  SizingIInv'
<1>1. Sizing!Notional(share) \in Nat
  BY SizingAssumption, SizingNotionalIs
<1>2. action \in {"open", "add"} => Sizing!Notional(share) <= Sizing!Notional(size_OrderLimit)
  <2> SUFFICES ASSUME action \in {"open", "add"} PROVE Sizing!Notional(share) <= Sizing!Notional(size_OrderLimit)
    OBVIOUS
  <2>1. share <= size_OrderLimit
    BY DEF Sizing!RTDecides, Sizing!Reducing
  <2> QED
    BY <2>1, SizingAssumption, SizingNotionalIs
<1>3. Sizing!Take("rt", action, side, Sizing!Notional(share)) /\ "rt" \in Sizing!Trader /\ action \in Sizing!Reducing \cup {"open", "add", "flip"}
  BY DEF Sizing!RTDecides, Sizing!Trader, Sizing!Reducing
<1> QED
  BY <1>1, <1>2, <1>3, SizingTakeInv

LEMMA SizingBrakeDecidesInv ==
  ASSUME SizingIInv, NEW action \in Sizing!Reducing, Sizing!BrakeDecides(action) PROVE SizingIInv'
<1> DEFINE held == Sizing!Abs(size_qty) * size_mark
           side == IF size_qty > 0 THEN "long" ELSE "short"
           notional == IF action = "reduce" THEN held \div 2 ELSE held
<1>1. held \in Nat
  <2>1. Sizing!Abs(size_qty) \in Nat /\ size_mark \in Nat
    BY SizingAssumption DEF SizingIInv, Sizing!Abs
  <2> QED
    BY <2>1, SizingTimesUp
<1>2. notional \in Nat
  <2> HIDE DEF held
  <2>1. held \div 2 \in Nat
    BY <1>1, Z3
  <2> QED
    BY <1>1, <2>1
<1>3. Sizing!Take("brake", action, side, notional) /\ "brake" \in Sizing!Trader /\ side \in Sizing!Side
  BY DEF Sizing!BrakeDecides, Sizing!Trader, Sizing!Side
<1>4. action \notin {"open", "add"}
  BY DEF Sizing!Reducing
<1> HIDE DEF notional, side
<1> QED
  BY <1>2, <1>3, <1>4, SizingTakeInv

LEMMA SizingLookInv == ASSUME SizingIInv, NEW t \in Sizing!Trader, Sizing!Look(t) PROVE SizingIInv'
<1>1. UNCHANGED <<size_qty, size_mark, size_cached>>
  BY DEF Sizing!Look
<1>2. CASE size_order[t].action \in Sizing!Reducing /\ size_qty = 0
  <2>1. size_order' = [size_order EXCEPT ![t] = Sizing!NoOrder]
    BY <1>2 DEF Sizing!Look
  <2> QED
    BY <1>1, <2>1, SizingNoOrderIs, SizingOneOrder DEF SizingIInv
<1>3. CASE ~(size_order[t].action \in Sizing!Reducing /\ size_qty = 0)
  <2> PICK x : x = size_order[t]
    OBVIOUS
  <2>1. x \in SizingOrderT /\ SizingSane(x) /\ x.pc = "planned"
    BY DEF SizingIInv, Sizing!Look
  <2> PICK o : o = [pc |-> "looked", action |-> x.action, side |-> x.side, notional |-> x.notional,
                    read |-> size_qty, at |-> size_mark]
    OBVIOUS
  <2>2. size_order' = [size_order EXCEPT ![t].pc = "looked", ![t].read = size_qty, ![t].at = size_mark]
    BY <1>3 DEF Sizing!Look
  <2>3. size_order' = [size_order EXCEPT ![t] = o]
    <3>1. [x EXCEPT !.pc = "looked", !.read = size_qty, !.at = size_mark] = o
      BY <2>1, SizingLookedIs
    <3>2. size_order' = [size_order EXCEPT ![t] = [x EXCEPT !.pc = "looked", !.read = size_qty, !.at = size_mark]]
      BY <2>2 DEF SizingIInv
    <3> QED
      BY <3>1, <3>2
  <2>4. o \in SizingOrderT
    BY <2>1, SizingAssumption DEF SizingOrderT, SizingIInv
  <2>5. SizingSane(o)
    BY <1>3, <2>1 DEF SizingSane
  <2> QED
    BY <1>1, <2>3, <2>4, <2>5, SizingOneOrder DEF SizingIInv
<1> QED
  BY <1>2, <1>3

LEMMA SizingRefusedInv == ASSUME SizingIInv, NEW t \in Sizing!Trader, Sizing!Refused(t) PROVE SizingIInv'
<1>1. size_order' = [size_order EXCEPT ![t] = Sizing!NoOrder] /\ UNCHANGED <<size_qty, size_mark,
                                                                             size_cached>>
  BY DEF Sizing!Refused
<1> QED
  BY <1>1, SizingNoOrderIs, SizingOneOrder DEF SizingIInv

\* What an order is filled for, and for how much.
LEMMA SizingFilledIs ==
  ASSUME SizingIInv, NEW t \in Sizing!Trader, NEW price \in size_Marks, size_order[t].pc = "looked"
  PROVE  /\ Sizing!Target(size_order[t]) \in Nat /\ Sizing!BaseSize(Sizing!Target(size_order[t]), price) \in Nat
         /\ Sizing!Direction(size_order[t]) \in {-1, 0, 1} /\ Sizing!Filled(size_order[t], price) \in Int
<1> PICK o : o = size_order[t]
  OBVIOUS
<1>1. o \in SizingOrderT /\ SizingSane(o) /\ o.pc = "looked" /\ size_qty \in Int
  BY DEF SizingIInv
<1>2. price \in Nat /\ price # 0
  BY SizingAssumption
<1> DEFINE held == Sizing!Abs(o.read) * o.at
           target == Sizing!Target(o)
           base == Sizing!BaseSize(target, price)
           d == Sizing!Direction(o)
<1>3. held \in Nat
  <2>1. Sizing!Abs(o.read) \in Nat /\ o.at \in Nat
    BY <1>1 DEF SizingOrderT, Sizing!Abs
  <2> QED
    BY <2>1, SizingTimesUp
<1>4. target \in Nat
  <2> HIDE DEF held
  <2>1. o.notional \in Nat /\ held + o.notional \in Nat /\ Sizing!Lesser(o.notional, held) \in Nat
    BY <1>1, <1>3 DEF SizingOrderT, Sizing!Lesser
  <2> USE DEF held
  <2>2. target \in {held, Sizing!Lesser(o.notional, held), held + o.notional, o.notional}
    BY DEF Sizing!Target
  <2> HIDE DEF held, target
  <2> QED
    BY <1>3, <2>1, <2>2
<1> HIDE DEF target, held
<1>5. base \in Nat
  <2>1. target \div price \in Nat
    BY <1>2, <1>4, SizingDivides
  <2>2. Sizing!Greater(target \div price, size_MinBase) \in Nat
    BY <2>1, SizingAssumption DEF Sizing!Greater
  <2>3. (size_QuoteMin + price - 1) \div price \in Nat
    <3>1. size_QuoteMin + price - 1 \in Nat
      BY <1>2, SizingAssumption
    <3> QED
      BY <1>2, <3>1, SizingDivides
  <2>4. Sizing!Greater(Sizing!Greater(target \div price, size_MinBase), (size_QuoteMin + price - 1) \div price) \in Nat
    BY <2>2, <2>3 DEF Sizing!Greater
  <2> QED
    BY <2>2, <2>4 DEF Sizing!BaseSize
<1>6. d \in {-1, 0, 1}
  <2>1. Sizing!Sign(o.read) \in {-1, 0, 1} /\ Sizing!Facing(o.side) \in {-1, 1}
    BY DEF Sizing!Sign, Sizing!Facing
  <2>2. d = - Sizing!Sign(o.read) \/ d = Sizing!Facing(o.side)
    BY DEF Sizing!Direction
  <2> QED
    BY <2>1, <2>2
<1> HIDE DEF base, d
<1>7. d * base \in Int /\ d * Sizing!Lesser(base, Sizing!Abs(size_qty)) \in Int
  <2>1. Sizing!Lesser(base, Sizing!Abs(size_qty)) \in Int
    BY <1>1, <1>5 DEF Sizing!Lesser, Sizing!Abs
  <2> QED
    BY <1>5, <1>6, <2>1
<1>8. Sizing!Filled(o, price) \in {size_qty + d * base, size_qty + d * Sizing!Lesser(base, Sizing!Abs(size_qty)), size_qty}
  BY DEF Sizing!Filled, base, d, target
<1>9. Sizing!Filled(o, price) \in Int
  BY <1>1, <1>7, <1>8
<1> QED
  BY <1>4, <1>5, <1>6, <1>9 DEF target, base, d

LEMMA SizingFillInv == ASSUME SizingIInv, NEW t \in Sizing!Trader, NEW price \in {size_cached, size_mark}, Sizing!Fill(t, price) PROVE SizingIInv'
<1>1. size_order' = [size_order EXCEPT ![t] = Sizing!NoOrder] /\ size_cached' = price /\ size_mark' = size_mark /\ size_order[t].pc = "looked"
      /\ size_qty' = Sizing!Filled(size_order[t], price)
  BY DEF Sizing!Fill
<1>2. price \in size_Marks
  BY DEF SizingIInv
<1>3. size_qty' \in Int
  BY <1>1, <1>2, SizingFilledIs
<1> QED
  BY <1>1, <1>2, <1>3, SizingNoOrderIs, SizingOneOrder DEF SizingIInv

LEMMA SizingStepInv == SizingIInv /\ [Sizing!Next]_(Sizing!vars) => SizingIInv'
<1> SUFFICES ASSUME SizingIInv, [Sizing!Next]_(Sizing!vars) PROVE SizingIInv'
  OBVIOUS
<1>1. CASE Sizing!MarkMoves
  BY <1>1 DEF Sizing!MarkMoves, SizingIInv, SizingSane
<1>2. CASE \E action \in {"open", "add", "flip", "reduce", "close"}, side \in Sizing!Side, share \in size_Shares :
             Sizing!RTDecides(action, side, share)
  BY <1>2, SizingRTDecidesInv
<1>3. CASE \E action \in Sizing!Reducing : Sizing!BrakeDecides(action)
  BY <1>3, SizingBrakeDecidesInv
<1>4. CASE \E t \in Sizing!Trader : Sizing!Look(t)
  BY <1>4, SizingLookInv
<1>5. CASE \E t \in Sizing!Trader : Sizing!Refused(t)
  BY <1>5, SizingRefusedInv
<1>6. CASE \E t \in Sizing!Trader : \E price \in {size_cached, size_mark} : Sizing!Fill(t, price)
  BY <1>6, SizingFillInv
<1>7. CASE UNCHANGED Sizing!vars
  BY <1>7 DEF Sizing!vars, SizingIInv, SizingSane
<1> QED
  BY <1>1, <1>2, <1>3, <1>4, <1>5, <1>6, <1>7 DEF Sizing!Next

-----------------------------------------------------------------------------
\* What the four kinds of order do.
SizingDid(o, price, new) ==
  /\ o.action \in Sizing!Reducing => Sizing!Abs(new) <= Sizing!Abs(size_qty) /\ Sizing!Sign(new) \in {0, Sizing!Sign(size_qty)}
  /\ o.action = "close" /\ price <= o.at /\ Sizing!Abs(size_qty) <= Sizing!Abs(o.read) => new = 0
  /\ o.action = "flip" /\ size_qty = o.read /\ price <= o.at /\ Sizing!Sign(size_qty) = - Sizing!Facing(o.side)
       => Sizing!Sign(new) = Sizing!Facing(o.side) \/ o.notional < price
  /\ o.action \in {"open", "add"} => Sizing!Abs(new - size_qty) * price <= Sizing!Greater(Sizing!Notional(size_OrderLimit), Sizing!Lot(price))

\* The dollars buy at least so many, and no more than they pay for or the product's least.
LEMMA SizingBaseIs ==
  ASSUME NEW notional \in Nat, NEW price \in size_Marks
  PROVE  LET base == Sizing!BaseSize(notional, price) IN
         /\ base \in Nat
         /\ \A n \in Nat : n * price <= notional => n <= base
         /\ base * price <= Sizing!Greater(notional, Sizing!Lot(price))
<1> DEFINE q == notional \div price
           least == Sizing!Greater(q, size_MinBase)
           required == (size_QuoteMin + price - 1) \div price
           base == IF least * price < size_QuoteMin THEN Sizing!Greater(least, required) ELSE least
<1>1. price \in Nat /\ price # 0 /\ size_QuoteMin \in Nat /\ size_MinBase \in Nat
  BY SizingAssumption
<1>2. q \in Nat /\ q * price <= notional /\ \A n \in Nat : n * price <= notional => n <= q
  BY <1>1, SizingDivides, SizingQuotient
<1>3. required \in Nat /\ required * price <= size_QuoteMin + price - 1
  <2>1. size_QuoteMin + price - 1 \in Nat
    BY <1>1
  <2> QED
    BY <1>1, <2>1, SizingDivides
<1>4. Sizing!BaseSize(notional, price) = base
  BY DEF Sizing!BaseSize
<1> HIDE DEF q, required
<1>5. least \in Nat /\ q <= least /\ (least = q \/ least = size_MinBase)
  BY <1>1, <1>2 DEF Sizing!Greater
<1> HIDE DEF least
<1>6. base \in Nat /\ least <= base /\ (base = least \/ base = required)
  BY <1>3, <1>5 DEF Sizing!Greater
<1> HIDE DEF base
<1>7. \A n \in Nat : n * price <= notional => n <= base
  <2> TAKE n \in Nat
  <2> HAVE n * price <= notional
  <2>1. n <= q
    BY <1>2
  <2> QED
    BY <1>2, <1>5, <1>6, <2>1
<1>8. Sizing!Lot(price) \in Nat /\ size_MinBase * price <= Sizing!Lot(price) /\ size_QuoteMin + price - 1 <= Sizing!Lot(price)
  <2> DEFINE m == size_MinBase * price
  <2>1. m \in Nat
    BY <1>1, SizingTimesUp
  <2> HIDE DEF m
  <2>2. LET l == Sizing!Greater(m, size_QuoteMin + price) IN l \in Nat /\ m <= l /\ size_QuoteMin + price - 1 <= l
    BY <1>1, <2>1 DEF Sizing!Greater
  <2> QED
    BY <2>2 DEF m, Sizing!Lot
<1>9. base * price <= notional \/ base * price <= Sizing!Lot(price)
  <2> DEFINE b == base * price
             k == Sizing!Lot(price)
             r == required * price
             m == size_MinBase * price
             p == q * price
  <2>1. b \in Nat /\ k \in Nat /\ r \in Nat /\ m \in Nat /\ p \in Nat
    BY <1>1, <1>2, <1>3, <1>6, <1>8, SizingTimesUp
  <2>2. (b = p \/ b = m \/ b = r) /\ p <= notional /\ m <= k /\ r <= size_QuoteMin + price - 1 /\ size_QuoteMin + price - 1 <= k
    BY <1>2, <1>3, <1>5, <1>6, <1>8
  <2> HIDE DEF b, k, r, m, p
  <2>3. b <= notional \/ b <= k
    BY <1>1, <2>1, <2>2
  <2> QED
    BY <2>3 DEF b, k
<1>10. base * price <= Sizing!Greater(notional, Sizing!Lot(price))
  <2> DEFINE b == base * price
             k == Sizing!Lot(price)
  <2>1. b \in Nat /\ k \in Nat /\ (b <= notional \/ b <= k)
    BY <1>1, <1>6, <1>8, <1>9, SizingTimesUp
  <2> HIDE DEF b, k
  <2>2. b <= Sizing!Greater(notional, k)
    BY <2>1 DEF Sizing!Greater
  <2> QED
    BY <2>2 DEF b, k
<1> QED
  BY <1>4, <1>6, <1>7, <1>10

\* An order that is cut to the position.
LEMMA SizingCut ==
  ASSUME NEW q \in Int, NEW d \in {-1, 0, 1}, NEW b \in Nat, Sizing!Sign(q) = -d
  PROVE  LET new == q + d * Sizing!Lesser(b, Sizing!Abs(q)) IN
         Sizing!Abs(new) <= Sizing!Abs(q) /\ Sizing!Sign(new) \in {0, Sizing!Sign(q)} /\ (Sizing!Abs(q) <= b => new = 0)
<1>1. CASE d = -1
  BY <1>1 DEF Sizing!Lesser, Sizing!Abs, Sizing!Sign
<1>2. CASE d = 0
  BY <1>2 DEF Sizing!Lesser, Sizing!Abs, Sizing!Sign
<1>3. CASE d = 1
  BY <1>3 DEF Sizing!Lesser, Sizing!Abs, Sizing!Sign
<1> QED
  BY <1>1, <1>2, <1>3

\* An order that is not: how far it goes, and where it ends beyond the position.
LEMMA SizingUncut ==
  ASSUME NEW q \in Int, NEW d \in {-1, 1}, NEW b \in Nat
  PROVE  /\ Sizing!Abs(q + d * b - q) = b
         /\ Sizing!Sign(q) = -d /\ Sizing!Abs(q) < b => Sizing!Sign(q + d * b) = d
<1>1. CASE d = -1
  BY <1>1 DEF Sizing!Abs, Sizing!Sign
<1>2. CASE d = 1
  BY <1>2 DEF Sizing!Abs, Sizing!Sign
<1> QED
  BY <1>1, <1>2

LEMMA SizingFillDoes ==
  ASSUME SizingIInv, NEW t \in Sizing!Trader, NEW price \in size_Marks, size_order[t].pc = "looked",
         Sizing!Filled(size_order[t], price) # size_qty
  PROVE  SizingDid(size_order[t], price, Sizing!Filled(size_order[t], price))
<1> PICK o : o = size_order[t]
  OBVIOUS
<1>1. o \in SizingOrderT /\ SizingSane(o) /\ o.pc = "looked" /\ size_qty \in Int
  BY DEF SizingIInv
<1>2. price \in Nat /\ price # 0 /\ o.at \in Nat /\ Sizing!Abs(o.read) \in Nat /\ o.notional \in Nat
  BY <1>1, SizingAssumption DEF SizingOrderT, Sizing!Abs
<1> DEFINE held == Sizing!Abs(o.read) * o.at
           target == Sizing!Target(o)
           base == Sizing!BaseSize(target, price)
           d == Sizing!Direction(o)
           new == Sizing!Filled(o, price)
<1>3. target \in Nat /\ d \in {-1, 0, 1} /\ new \in Int
  BY SizingFilledIs
<1>4. held \in Nat /\ (price <= o.at => Sizing!Abs(o.read) * price \in Nat /\ Sizing!Abs(o.read) * price <= held)
  BY <1>2, Z3
<1>5. /\ o.action = "close" => target = held
      /\ o.action = "flip" => target = held + o.notional
      /\ o.action \in {"open", "add"} => target = o.notional
  BY <1>1 DEF Sizing!Target, Sizing!Reducing
<1>6. /\ o.action \in Sizing!Reducing => d = - Sizing!Sign(o.read)
      /\ o.action \notin Sizing!Reducing => d = Sizing!Facing(o.side) /\ d \in {-1, 1}
  BY DEF Sizing!Direction, Sizing!Facing
<1>7. /\ o.action \in Sizing!Reducing /\ Sizing!Sign(size_qty) = - d => new = size_qty + d * Sizing!Lesser(base, Sizing!Abs(size_qty))
      /\ o.action \in Sizing!Reducing /\ Sizing!Sign(size_qty) # - d => new = size_qty
      /\ o.action \notin Sizing!Reducing => new = size_qty + d * base
  BY DEF Sizing!Filled, Sizing!ReduceOnly
<1> HIDE DEF held, target, d, new
<1>8. /\ base \in Nat
      /\ \A n \in Nat : n * price <= target => n <= base
      /\ base * price <= Sizing!Greater(target, Sizing!Lot(price))
  BY <1>3, SizingBaseIs
<1> HIDE DEF base
<1>9. ASSUME o.action \in Sizing!Reducing PROVE Sizing!Abs(new) <= Sizing!Abs(size_qty) /\ Sizing!Sign(new) \in {0, Sizing!Sign(size_qty)}
  <2>1. Sizing!Sign(size_qty) = - d
    BY <1>7, <1>9 DEF new
  <2> QED
    BY <1>1, <1>3, <1>7, <1>8, <1>9, <2>1, SizingCut
<1>10. ASSUME o.action = "close", price <= o.at, Sizing!Abs(size_qty) <= Sizing!Abs(o.read) PROVE new = 0
  <2>1. o.action \in Sizing!Reducing
    BY <1>10 DEF Sizing!Reducing
  <2>2. Sizing!Sign(size_qty) = - d
    BY <1>7, <2>1 DEF new
  <2>3. Sizing!Abs(o.read) <= base
    BY <1>2, <1>4, <1>5, <1>8, <1>10
  <2>4. Sizing!Abs(size_qty) <= base
    BY <1>1, <1>2, <1>8, <1>10, <2>3 DEF Sizing!Abs
  <2> QED
    BY <1>1, <1>3, <1>7, <1>8, <2>1, <2>2, <2>4, SizingCut
<1>11. ASSUME o.action = "flip", size_qty = o.read, price <= o.at, Sizing!Sign(size_qty) = - Sizing!Facing(o.side), ~(o.notional < price)
       PROVE  Sizing!Sign(new) = Sizing!Facing(o.side)
  <2>1. o.action \notin Sizing!Reducing
    BY <1>11 DEF Sizing!Reducing
  <2> DEFINE n == Sizing!Abs(o.read)
             p == n * price
  <2>2. (n + 1) * price = p + price
    BY <1>2, Z3
  <2>3. p \in Nat /\ p <= held /\ target = held + o.notional
    BY <1>4, <1>5, <1>11
  <2>4. n \in Nat /\ n + 1 \in Nat
    BY <1>2
  <2> HIDE DEF n, p
  <2>5. (n + 1) * price <= target
    BY <1>2, <1>3, <1>4, <1>11, <2>2, <2>3
  <2>6. n + 1 <= base
    BY <1>8, <2>4, <2>5
  <2>7. Sizing!Abs(size_qty) < base
    BY <1>8, <1>11, <2>4, <2>6 DEF n
  <2> QED
    BY <1>1, <1>6, <1>7, <1>8, <1>11, <2>1, <2>7, SizingUncut
<1>12. ASSUME o.action \in {"open", "add"}
       PROVE  Sizing!Abs(new - size_qty) * price <= Sizing!Greater(Sizing!Notional(size_OrderLimit), Sizing!Lot(price))
  <2>1. o.action \notin Sizing!Reducing
    BY <1>12 DEF Sizing!Reducing
  <2>2. Sizing!Abs(new - size_qty) = base
    BY <1>1, <1>6, <1>7, <1>8, <2>1, SizingUncut
  <2>3. target <= Sizing!Notional(size_OrderLimit) /\ Sizing!Notional(size_OrderLimit) \in Nat
    BY <1>1, <1>5, <1>12, SizingAssumption, SizingNotionalIs DEF SizingSane
  <2>4. Sizing!Lot(price) \in Nat
    <3> DEFINE m == size_MinBase * price
    <3>1. m \in Nat /\ size_QuoteMin + price \in Nat
      BY <1>2, SizingAssumption, SizingTimesUp
    <3> HIDE DEF m
    <3>2. Sizing!Greater(m, size_QuoteMin + price) \in Nat
      BY <3>1 DEF Sizing!Greater
    <3> QED
      BY <3>2 DEF Sizing!Lot, m
  <2> DEFINE b == base * price
  <2>5. b \in Nat /\ b <= Sizing!Greater(target, Sizing!Lot(price))
    BY <1>2, <1>8, SizingTimesUp
  <2> HIDE DEF b
  <2>6. b <= Sizing!Greater(Sizing!Notional(size_OrderLimit), Sizing!Lot(price))
    BY <1>3, <2>3, <2>4, <2>5 DEF Sizing!Greater
  <2> QED
    BY <2>2, <2>6 DEF b
<1>13. SizingDid(o, price, new)
  BY <1>9, <1>10, <1>11, <1>12 DEF SizingDid
<1> QED
  BY <1>13 DEF new

\* Only a fill changes the position, and only the order filled ends with it.
LEMMA SizingFillsDo ==
  SizingIInv /\ [Sizing!Next]_(Sizing!vars) =>
    [\A t \in Sizing!Trader : Sizing!Fills(t) =>
       LET o == size_order[t]
       IN /\ o.action \in Sizing!Reducing =>
               Sizing!Abs(size_qty') <= Sizing!Abs(size_qty) /\ Sizing!Sign(size_qty') \in {0, Sizing!Sign(size_qty)}
          /\ o.action = "close" /\ size_cached' <= o.at /\ Sizing!Abs(size_qty) <= Sizing!Abs(o.read)
               => size_qty' = 0
          /\ o.action = "flip" /\ size_qty = o.read /\ size_cached' <= o.at
             /\ Sizing!Sign(size_qty) = - Sizing!Facing(o.side)
               => Sizing!Sign(size_qty') = Sizing!Facing(o.side) \/ o.notional < size_cached'
          /\ o.action \in {"open", "add"}
               => Sizing!Abs(size_qty' - size_qty) * size_cached'
                    <= Sizing!Greater(Sizing!Notional(size_OrderLimit), Sizing!Lot(size_cached'))]_(Sizing!vars)
<1> SUFFICES ASSUME SizingIInv, [Sizing!Next]_(Sizing!vars), NEW t \in Sizing!Trader, Sizing!Fills(t)
             PROVE  SizingDid(size_order[t], size_cached', size_qty')
  BY DEF SizingDid
<1>1. size_order[t].pc = "looked" /\ size_order'[t].pc = "none" /\ size_qty' # size_qty
  BY DEF Sizing!Fills
<1>2. PICK u \in Sizing!Trader, price \in {size_cached, size_mark} : Sizing!Fill(u, price)
  BY <1>1 DEF Sizing!Next, Sizing!vars, Sizing!MarkMoves, Sizing!RTDecides, Sizing!BrakeDecides,
      Sizing!Take, Sizing!Look, Sizing!Refused
<1>3. size_order' = [size_order EXCEPT ![u] = Sizing!NoOrder] /\ size_cached' = price /\ size_qty' = Sizing!Filled(size_order[u], price)
  BY <1>2 DEF Sizing!Fill
<1>4. u = t
  BY <1>1, <1>3 DEF SizingIInv
<1>5. price \in size_Marks
  BY DEF SizingIInv
<1> QED
  BY <1>1, <1>3, <1>4, <1>5, SizingFillDoes

\* Only its own steps touch OrderSizing's variables.
LEMMA SizingSteps == [Next]_vars => [Sizing!Next]_(Sizing!vars)
BY DEF Next, vars, gateVars, runVars, sizeVars, placeVars, panelVars, mapVars, Sizing!vars

-----------------------------------------------------------------------------
\* RTTacticalMap.

MapModeSet == {"none", "reduce_only", "flat_only"}
MapDrawn == [key : Nat, lock : MapModeSet, plans : SUBSET map_Coins, pending : SUBSET map_Coins]

MapTyped ==
  /\ map_strategy \in Nat /\ map_targets \in SUBSET map_Coins /\ map_held \in SUBSET map_Coins
  /\ map_lock \in [mode : MapModeSet, key : Nat] /\ map_event \in MapModeSet /\ map_policies \in MapModeSet
  /\ map_maps \in Seq(MapDrawn)
  /\ map_lease = [l \in Inputs |-> map_lease[l]]
  /\ \A l \in Inputs : map_lease[l].open =>
       map_lease[l].key \in Nat /\ map_lease[l].lock \in MapModeSet /\ map_lease[l].pending \in SUBSET map_Coins

\* A map has a plan for every first entry that its pack lacked.
MapCovered == \A k \in DOMAIN map_maps : map_maps[k].pending \subseteq map_maps[k].plans

MapIInv == MapTyped /\ MapCovered

-----------------------------------------------------------------------------
LEMMA MapShownIs == ASSUME MapTyped PROVE Map!ShownLock \in MapModeSet
BY DEF MapTyped, Map!ShownLock, Map!EventLock, Map!Stricter, MapModeSet

\* The latest map is looked at first.
LEMMA MapLatestFits ==
  ASSUME MapTyped, map_maps # <<>>, NEW key, NEW mode, map_maps[Map!Last].key = key,
                                map_maps[Map!Last].lock = mode, map_maps[Map!Last].plans # {}
  PROVE  Map!Compatible(key, mode) = Map!Last /\ Map!Last # 0
<1>1. /\ Map!Last \in Nat /\ Map!Last # 0 /\ DOMAIN map_maps = 1 .. Map!Last
  BY DEF MapTyped, Map!Last
<1> DEFINE fits == {k \in DOMAIN map_maps : k > Len(map_maps) - map_Look /\ map_maps[k].key = key
                                              /\ map_maps[k].lock = mode /\ map_maps[k].plans # {}}
<1>2. Map!Last \in fits /\ \A k \in fits : k \in Nat /\ k <= Map!Last
  BY <1>1, MapAssumption DEF Map!Last
<1>3. Map!Compatible(key, mode) = CHOOSE k \in fits : \A j \in fits : j <= k
  BY <1>2 DEF Map!Compatible
<1> HIDE DEF fits
<1>4. \A k \in fits : (\A j \in fits : j <= k) => k = Map!Last
  BY <1>1, <1>2
<1>5. (CHOOSE k \in fits : \A j \in fits : j <= k) = Map!Last
  BY <1>2, <1>4
<1> QED
  BY <1>1, <1>3, <1>5

LEMMA MapInitInv == ASSUME Map!Init PROVE MapIInv
BY DEF Map!Init, MapIInv, MapTyped, MapCovered, MapModeSet, Map!NoPack

-----------------------------------------------------------------------------
\* A map answers its pack.
LEMMA MapInv ==
  ASSUME MapIInv, NEW l \in Inputs, NEW opens \in SUBSET map_Coins, NEW recheck \in BOOLEAN, NEW plans \in SUBSET map_Coins,
         Map!SubmitMap(l, opens, recheck, plans)
  PROVE  MapIInv'
<1>a. PICK map : map = [key |-> map_lease[l].key, lock |-> map_lease[l].lock, plans |-> plans, pending |-> map_lease[l].pending]
  OBVIOUS
<1>1. /\ map_lease[l].open /\ map \in MapDrawn /\ map.pending \subseteq map.plans /\ map_maps' = Append(map_maps, map)
  BY <1>a DEF MapIInv, MapTyped, Map!SubmitMap, Map!Answer, Map!Missing, MapDrawn
<1>2. /\ map_maps' \in Seq(MapDrawn) /\ Len(map_maps') = Len(map_maps) + 1 /\ map_maps'[Len(map_maps) + 1] = map
      /\ \A k \in DOMAIN map_maps : map_maps'[k] = map_maps[k]
      /\ DOMAIN map_maps' = 1 .. Len(map_maps) + 1 /\ DOMAIN map_maps = 1 .. Len(map_maps) /\ Len(map_maps) \in Nat
  BY <1>1 DEF MapIInv, MapTyped
<1>3. MapCovered'
  <2>1. ASSUME NEW k \in DOMAIN map_maps' PROVE map_maps'[k].pending \subseteq map_maps'[k].plans
    <3>1. k = Len(map_maps) + 1 \/ k \in DOMAIN map_maps
      BY <1>2
    <3> QED
      BY <1>1, <1>2, <3>1 DEF MapIInv, MapCovered
  <2> QED
    BY <2>1 DEF MapCovered
<1>4. MapTyped'
  BY <1>2 DEF MapIInv, MapTyped, Map!SubmitMap, Map!Answer, Map!NoPack
<1> QED
  BY <1>3, <1>4 DEF MapIInv

LEMMA MapPullInv == ASSUME MapIInv, NEW l \in Inputs, Map!Pull(l) PROVE MapIInv'
<1>1. map_lease' = [map_lease EXCEPT ![l] = Map!Pack] /\ UNCHANGED <<map_strategy, map_targets,
                                                                     map_held, map_lock,
                                                                     map_event, map_policies,
                                                                     map_maps>>
  BY DEF Map!Pull
<1>2. Map!Pack.key \in Nat /\ Map!Pack.lock \in MapModeSet /\ Map!Pack.pending \in SUBSET map_Coins
  BY MapShownIs DEF MapIInv, MapTyped, Map!Pack, Map!Pending
<1> HIDE DEF Map!Pack
<1>3. MapTyped'
  BY <1>1, <1>2 DEF MapIInv, MapTyped
<1> QED
  BY <1>1, <1>3 DEF MapIInv, MapCovered

LEMMA MapStepInv == ASSUME MapIInv, [Map!Next]_(Map!vars) PROVE MapIInv'
<1>1. CASE UNCHANGED Map!vars
  BY <1>1 DEF MapIInv, MapTyped, MapCovered, Map!vars
<1>2. ASSUME NEW l \in Inputs, Map!Pull(l) PROVE MapIInv'
  BY <1>2, MapPullInv
<1>3. ASSUME NEW l \in Inputs, NEW opens \in SUBSET map_Coins, NEW recheck \in BOOLEAN, Map!SubmitWithoutMap(l, opens, recheck)
      PROVE  MapIInv'
  BY <1>3 DEF MapIInv, MapTyped, MapCovered, Map!SubmitWithoutMap, Map!Answer, Map!NoPack
<1>4. ASSUME NEW l \in Inputs, NEW opens \in SUBSET map_Coins, NEW recheck \in BOOLEAN, NEW plans \in SUBSET map_Coins,
             Map!SubmitMap(l, opens, recheck, plans)
      PROVE  MapIInv'
  BY <1>4, MapInv
<1>5. ASSUME NEW active \in SUBSET map_Coins, Map!PMRevises(active) PROVE MapIInv'
  BY <1>5 DEF MapIInv, MapTyped, MapCovered, Map!PMRevises
<1>6. ASSUME NEW c \in map_Coins, Map!PositionEnds(c) PROVE MapIInv'
  BY <1>6 DEF MapIInv, MapTyped, MapCovered, Map!PositionEnds
<1>7. ASSUME NEW mode \in map_LockModes, Map!BrakeLocks(mode) PROVE MapIInv'
  BY <1>7, MapAssumption DEF MapIInv, MapTyped, MapCovered, Map!BrakeLocks, Map!Stricter,
      MapModeSet
<1>8. CASE Map!BrakeReleases
  BY <1>8 DEF MapIInv, MapTyped, MapCovered, Map!BrakeReleases, MapModeSet
<1>9. CASE Map!BridgeRefreshes
  BY <1>9 DEF MapIInv, MapTyped, MapCovered, Map!BridgeRefreshes
<1>10. CASE Map!Ages
  BY <1>10 DEF MapIInv, MapTyped, MapCovered, Map!Ages, MapModeSet
<1>11. ASSUME NEW reason \in map_Reasons, Map!TriggerFires(reason) PROVE MapIInv'
  BY <1>11 DEF MapIInv, MapTyped, MapCovered, Map!TriggerFires
<1> QED
  BY <1>1, <1>2, <1>3, <1>4, <1>5, <1>6, <1>7, <1>8, <1>9, <1>10, <1>11 DEF Map!Next

-----------------------------------------------------------------------------
\* A pack without a map that asks for none.
LEMMA MapAsksNot ==
  ASSUME MapIInv, Map!Pack.standing = 0, Map!Pack.refresh = "none", Map!Pack.key # 0
  PROVE  /\ map_maps # <<>> /\ map_maps[Map!Last].key = Map!Pack.key
         /\ (map_maps[Map!Last].lock # "none" /\ Map!Pack.lock = "none") \/ map_maps[Map!Last].plans = {}
<1> PICK key, mode : key = map_strategy /\ mode = Map!ShownLock
  OBVIOUS
<1>1. Map!Standing(key, mode) = 0 /\ Map!RefreshReason(key, mode) = "none" /\ key # 0 /\ Map!Pack.key = key /\ Map!Pack.lock = mode
  BY DEF Map!Pack
<1>2. Map!Compatible(key, mode) = 0 /\ key = Map!LatestKey /\ (mode = Map!LatestLock \/ mode = "none")
  <2>1. ~(Map!Compatible(key, mode) # 0) /\ ~(key # 0 /\ key # Map!LatestKey) /\ ~(mode # Map!LatestLock /\ mode # "none")
    BY <1>1 DEF Map!RefreshReason
  <2> QED
    BY <1>1, <2>1
<1>3. map_maps # <<>> /\ map_maps[Map!Last].key = key
  BY <1>1, <1>2 DEF Map!LatestKey
<1>4. Map!LatestLock = map_maps[Map!Last].lock
  BY <1>3 DEF Map!LatestLock
<1>5. ASSUME map_maps[Map!Last].plans # {}, map_maps[Map!Last].lock = mode PROVE FALSE
  BY <1>2, <1>3, <1>5, MapLatestFits DEF MapIInv
<1> QED
  BY <1>1, <1>2, <1>3, <1>4, <1>5

\* A pack that asks for a map.
LEMMA MapAsksAgain ==
  ASSUME MapIInv, Map!Pack.refresh # "none", map_maps # <<>>, map_maps[Map!Last].plans # {}
  PROVE  <<map_maps[Map!Last].key, map_maps[Map!Last].lock,
           map_maps[Map!Last].pending>> # <<Map!Pack.key, Map!Pack.lock, Map!Pack.pending>>
<1> PICK key, mode : key = map_strategy /\ mode = Map!ShownLock
  OBVIOUS
<1>1. Map!RefreshReason(key, mode) # "none" /\ Map!Pack.key = key /\ Map!Pack.lock = mode /\ Map!Pack.pending = Map!Pending(mode)
  BY DEF Map!Pack
<1> HIDE DEF Map!Pack
<1> SUFFICES ASSUME map_maps[Map!Last].key = key, map_maps[Map!Last].lock = mode, map_maps[Map!Last].pending = Map!Pending(mode) PROVE FALSE
  BY <1>1
<1>2. Map!Compatible(key, mode) = Map!Last /\ Map!Last # 0
  BY MapLatestFits DEF MapIInv
<1>3. Map!Last \in DOMAIN map_maps
  BY DEF MapIInv, MapTyped, Map!Last
<1>4. Map!Missing(map_maps[Map!Last].plans, Map!Pending(mode)) = {}
  BY <1>3 DEF MapIInv, MapCovered, Map!Missing
<1>5. Map!Standing(key, mode) # 0
  BY <1>2, <1>4 DEF Map!Standing
<1> QED
  BY <1>1, <1>5 DEF Map!RefreshReason

LEMMA MapAsks ==
  MapIInv /\ [Map!Next]_(Map!vars) =>
    [\A l \in Inputs : Map!Pulled(l) =>
       LET pack == map_lease'[l]
       IN /\ pack.standing = 0 /\ pack.refresh = "none" /\ pack.key # 0 =>
               /\ map_maps # <<>> /\ map_maps[Map!Last].key = pack.key
               /\ (map_maps[Map!Last].lock # "none" /\ pack.lock = "none") \/ map_maps[Map!Last].plans = {}
          /\ pack.refresh # "none" /\ map_maps # <<>> =>
               LET latest == map_maps[Map!Last]
               IN latest.plans = {} \/ <<latest.key, latest.lock, latest.pending>> # <<pack.key,
                                         pack.lock, pack.pending>>
          /\ pack.status = "compatible" => pack.refresh = "none"
     ]_(Map!vars)
<1> SUFFICES ASSUME MapIInv, [Map!Next]_(Map!vars), NEW l \in Inputs, Map!Pulled(l)
             PROVE  LET pack == map_lease'[l]
                    IN /\ pack.standing = 0 /\ pack.refresh = "none" /\ pack.key # 0 =>
                            /\ map_maps # <<>> /\ map_maps[Map!Last].key = pack.key
                            /\ (map_maps[Map!Last].lock # "none" /\ pack.lock = "none") \/ map_maps[Map!Last].plans = {}
                       /\ pack.refresh # "none" /\ map_maps # <<>> =>
                            LET latest == map_maps[Map!Last]
                            IN latest.plans = {} \/ <<latest.key, latest.lock, latest.pending>>
                                                      # <<pack.key, pack.lock, pack.pending>>
                       /\ pack.status = "compatible" => pack.refresh = "none"
  OBVIOUS
<1>1. map_lease' # map_lease /\ ~map_lease[l].open /\ map_lease'[l].open
  BY DEF Map!Pulled
<1>2. PICK k \in Inputs : map_lease' = [map_lease EXCEPT ![k] = Map!Pack] \/ map_lease' = [map_lease EXCEPT ![k] = Map!NoPack]
  BY <1>1 DEF Map!Next, Map!vars, Map!Pull, Map!SubmitWithoutMap, Map!SubmitMap, Map!Answer,
      Map!PMRevises, Map!PositionEnds, Map!BrakeLocks,
              Map!BrakeReleases, Map!BridgeRefreshes, Map!Ages, Map!TriggerFires
<1>3. map_lease'[l] = Map!Pack
  BY <1>1, <1>2 DEF Map!NoPack, MapIInv, MapTyped
<1>4. Map!Pack.status = "compatible" => Map!Pack.refresh = "none"
  BY DEF Map!Pack, Map!MapStatus, Map!RefreshReason
<1> QED
  BY <1>3, <1>4, MapAsksNot, MapAsksAgain

\* Only its own steps touch RTTacticalMap's variables.
LEMMA MapSteps == [Next]_vars => [Map!Next]_(Map!vars)
BY DEF Next, vars, gateVars, runVars, sizeVars, placeVars, panelVars, mapVars, Map!vars

-----------------------------------------------------------------------------
\* PMPanels.

\* Panels counts as this module does.
LEMMA PanelsCounting ==
  \A S : Panels!Cardinality(S) = Cardinality(S) /\ Panels!IsFiniteSet(S) = IsFiniteSet(S)
BY DEF Panels!Cardinality, Cardinality, Panels!IsFiniteSet, IsFiniteSet

\* The places from one on.
PanelsFrom(ks, k) == {j \in ks : j >= k}

PanelsEntry ==
  [role : {"pm"}, at : Nat, plan : panel_Plans, trigger : {"risk_brake", "other"}]
    \cup [role : {"rt"}, at : Nat, entry : BOOLEAN]
    \cup [role : {"mea"}, at : Nat, events : {"none", "flip_trigger"}]

\* Assets come in the order of their time.
PanelsLogged ==
  /\ panel_now \in Nat /\ panel_log \in Seq(PanelsEntry)
  /\ \A k \in DOMAIN panel_log : panel_log[k].at <= panel_now
  /\ \A j, k \in DOMAIN panel_log : j <= k => panel_log[j].at <= panel_log[k].at

PanelsDay(t) == t \div 2

\* The last strategies are one band; they are of today, and so is nothing else but
\* strategies that nothing called for; the last batches hold.
PanelsAlike(ks) == \A j, k \in Panels!Recent(ks, panel_Many) : Panels!SamePlan(panel_log[j].plan, panel_log[k].plan)
PanelsOfTheDay(ks) ==
  /\ \A k \in Panels!Recent(ks, panel_Many) : PanelsDay(panel_log[k].at) = PanelsDay(panel_now)
  /\ \A k \in DOMAIN panel_log : PanelsDay(panel_log[k].at) = PanelsDay(panel_now) => panel_log[k].role = "pm" /\ panel_log[k].trigger = "other"
PanelsHeld(ks) == \A k \in Panels!Recent(ks, 2) : ~panel_log[k].entry

\* What a pack says as long as no newer asset of its role is there.
PanelsStreakKnown(l) ==
  \A ks \in SUBSET (1 .. panel_lease[l].seq) :
    ks = Panels!Entries("pm") /\ Cardinality(ks) >= panel_Many /\ PanelsAlike(ks) => panel_lease[l].streak >= panel_Many
PanelsDayKnown(l) ==
  \A ks \in SUBSET (1 .. panel_lease[l].seq) :
    ks = Panels!Entries("pm") /\ Cardinality(ks) >= panel_Many /\ PanelsOfTheDay(ks) => panel_lease[l].unprompted
PanelsHoldsKnown(l) ==
  \A ks \in SUBSET (1 .. panel_lease[l].seq) :
    ks = Panels!Entries("rt") /\ Cardinality(ks) >= 2 /\ PanelsHeld(ks) /\ panel_lease[l].room => panel_lease[l].warned
PanelsTierKnown(l) == panel_lease[l].steady => (panel_lease[l].eligible <=> panel_ladder = "normal")

PanelsPMPanel(s, t, e, u, h, v, d, a, b) ==
  [role |-> "pm", seq |-> s, streak |-> t, eligible |-> e, unprompted |-> u, hint |-> h, diverged |-> v,
   distances |-> d, satisfied |-> a, steady |-> b]
PanelsRTPanel(s, h, w, r, u, v) ==
  [role |-> "rt", seq |-> s, holds |-> h, warned |-> w, room |-> r, units |-> u, moved |-> v]

PanelsIsPMPanel(x) ==
  x = PanelsPMPanel(x.seq, x.streak, x.eligible, x.unprompted, x.hint, x.diverged, x.distances, x.satisfied, x.steady)

PanelsKnows(l) ==
  /\ panel_lease[l].role \in {"pm", "rt"} => panel_lease[l].seq \in 0 .. Len(panel_log)
  /\ panel_lease[l].role = "pm" =>
       PanelsIsPMPanel(panel_lease[l]) /\ PanelsStreakKnown(l) /\ PanelsDayKnown(l) /\ PanelsTierKnown(l)
  /\ panel_lease[l].role = "rt" => PanelsHoldsKnown(l)

\* PanelsAgree, of one lease.
PanelsAgrees(l) ==
  /\ panel_lease[l].role = "rt" /\ panel_lease[l].moved =>
       /\ panel_lease[l].units.gain > 0 => panel_lease[l].units.gap > 0
       /\ panel_lease[l].units.gap > 0 => panel_lease[l].units.gain >= 0
       /\ panel_lease[l].warned => panel_lease[l].units.gap > 0
  /\ panel_lease[l].role = "pm" =>
       /\ (\E d \in panel_lease[l].distances : d < 0) => panel_lease[l].satisfied
       /\ panel_lease[l].satisfied => \E d \in panel_lease[l].distances : d <= 0

PanelsIInv ==
  /\ PanelsLogged
  /\ panel_lease = [l \in Inputs |-> panel_lease[l]]
  /\ \A l \in Inputs : PanelsKnows(l) /\ PanelsAgrees(l)

-----------------------------------------------------------------------------
\* The last of some places.
LEMMA PanelsInRecent ==
  ASSUME NEW ks, NEW n, NEW k
  PROVE  k \in Panels!Recent(ks, n) <=> k \in ks /\ Cardinality(PanelsFrom(ks, k)) <= n
BY PanelsCounting DEF Panels!Recent, PanelsFrom

LEMMA PanelsPlacesFinite == ASSUME NEW top \in Nat, NEW ks \in SUBSET (1 .. top) PROVE IsFiniteSet(ks)
<1>1. IsFiniteSet(1 .. top)
  BY FS_Interval
<1> QED
  BY <1>1, FS_Subset

LEMMA PanelsHasGreatest ==
  ASSUME NEW top \in Nat, NEW ks \in SUBSET (1 .. top), ks # {}
  PROVE  Panels!Greatest(ks) \in ks /\ \A k \in ks : k <= Panels!Greatest(ks)
<1> DEFINE below == {top - k : k \in ks}
<1>0. \A k \in ks : k \in Nat /\ top - k \in Nat
  OBVIOUS
<1>1. below \in SUBSET Nat /\ below # {}
  BY <1>0
<1>2. PICK x \in below : \A y \in below : x <= y
  BY <1>1, Least
<1>3. PICK g \in ks : x = top - g
  BY <1>2
<1>4. \A k \in ks : k <= g
  <2>1. ASSUME NEW k \in ks PROVE k <= g
    <3>1. top - k \in below
      OBVIOUS
    <3>2. top - g <= top - k
      BY <3>1, <1>2, <1>3
    <3> QED
      BY <3>2, <1>0
  <2> QED
    BY <2>1
<1> HIDE DEF below
<1> QED
  BY <1>3, <1>4 DEF Panels!Greatest

\* The latest is among the last.
LEMMA PanelsGreatestRecent ==
  ASSUME NEW top \in Nat, NEW ks \in SUBSET (1 .. top), ks # {}, NEW n \in Nat \ {0}
  PROVE  Panels!Greatest(ks) \in Panels!Recent(ks, n)
<1>1. Panels!Greatest(ks) \in ks /\ \A k \in ks : k <= Panels!Greatest(ks)
  BY PanelsHasGreatest
<1>2. PanelsFrom(ks, Panels!Greatest(ks)) = {Panels!Greatest(ks)}
  <2> DEFINE g == Panels!Greatest(ks)
  <2> HIDE DEF g
  <2>1. g \in ks /\ \A k \in ks : k \in Nat /\ k <= g
    BY <1>1 DEF g
  <2>2. \A j \in ks : j >= g <=> j = g
    BY <2>1
  <2>3. PanelsFrom(ks, g) = {g}
    BY <2>1, <2>2 DEF PanelsFrom
  <2> QED
    BY <2>3 DEF g
<1>3. Cardinality({Panels!Greatest(ks)}) = 1
  BY FS_Singleton
<1> QED
  BY <1>1, <1>2, <1>3, PanelsInRecent

\* What comes after one of the last is one of them.
LEMMA PanelsRecentUp ==
  ASSUME NEW top \in Nat, NEW ks \in SUBSET (1 .. top), NEW n \in Nat, NEW look \in Nat, n <= look,
         NEW k \in Panels!Recent(ks, n), NEW j \in ks, j >= k
  PROVE  j \in Panels!Recent(ks, look)
<1>1. k \in ks /\ Cardinality(PanelsFrom(ks, k)) <= n
  BY PanelsInRecent
<1>2. k \in Nat /\ \A i \in ks : i \in Nat
  BY <1>1
<1>3. \A i \in ks : i >= j => i >= k
  BY <1>2
<1>4. PanelsFrom(ks, j) \subseteq PanelsFrom(ks, k) /\ PanelsFrom(ks, k) \subseteq ks
  BY <1>3 DEF PanelsFrom
<1>5. IsFiniteSet(PanelsFrom(ks, k))
  BY <1>4, PanelsPlacesFinite
<1>6. /\ Cardinality(PanelsFrom(ks, j)) <= Cardinality(PanelsFrom(ks, k))
      /\ Cardinality(PanelsFrom(ks, j)) \in Nat /\ Cardinality(PanelsFrom(ks, k)) \in Nat
  BY <1>4, <1>5, FS_Subset, FS_CardinalityType
<1>7. Cardinality(PanelsFrom(ks, j)) <= look
  BY <1>1, <1>6
<1> QED
  BY <1>7, PanelsInRecent

\* There are as many of the last as asked for.
LEMMA PanelsRecentMany ==
  ASSUME NEW top \in Nat, NEW ks \in SUBSET (1 .. top), NEW n \in Nat, n <= Cardinality(ks)
  PROVE  /\ Panels!Recent(ks, n) \subseteq ks /\ IsFiniteSet(Panels!Recent(ks, n))
         /\ Cardinality(Panels!Recent(ks, n)) \in Nat /\ Cardinality(Panels!Recent(ks, n)) >= n
<1>1. Panels!Recent(ks, n) \subseteq ks
  BY PanelsInRecent
<1> DEFINE last == Panels!Recent(ks, n)
           rest == ks \ last
<1>2. IsFiniteSet(last) /\ Cardinality(last) \in Nat /\ IsFiniteSet(ks)
  BY <1>1, PanelsPlacesFinite, FS_CardinalityType
<1>3. ASSUME Cardinality(last) < n PROVE FALSE
  <2>1. rest # {}
    <3>1. SUFFICES ASSUME rest = {} PROVE FALSE
      OBVIOUS
    <3>2. last = ks
      BY <1>1, <3>1
    <3> QED
      BY <1>2, <1>3, <3>2
  <2>2. rest \in SUBSET (1 .. top)
    OBVIOUS
  <2> DEFINE g == Panels!Greatest(rest)
  <2>3. g \in rest /\ \A k \in rest : k <= g
    BY <2>1, <2>2, PanelsHasGreatest
  <2> HIDE DEF g
  <2>4. PanelsFrom(ks, g) \subseteq last \cup {g}
    <3>1. ASSUME NEW j \in ks, j >= g, j # g PROVE j \in last
      <4>1. ~(j <= g)
        BY <3>1, <2>3
      <4> QED
        BY <4>1, <2>3
    <3> QED
      BY <3>1 DEF PanelsFrom
  <2>5. IsFiniteSet(last \cup {g}) /\ Cardinality(last \cup {g}) = Cardinality(last) + 1
    BY <1>2, <2>3, FS_AddElement
  <2>6. Cardinality(PanelsFrom(ks, g)) <= Cardinality(last) + 1 /\ Cardinality(PanelsFrom(ks, g)) \in Nat
    BY <2>4, <2>5, FS_Subset, FS_CardinalityType
  <2>7. Cardinality(PanelsFrom(ks, g)) <= n
    BY <1>2, <1>3, <2>6
  <2> QED
    BY <2>3, <2>7, PanelsInRecent
<1> QED
  BY <1>1, <1>2, <1>3

\* A run is as long as the last that are alike.
LEMMA PanelsRunMany ==
  ASSUME NEW top \in Nat, NEW ks \in SUBSET (1 .. top), NEW look \in Nat, NEW alike
  PROVE  /\ Panels!Run(ks, look, alike) \in Nat
         /\ \A n \in Nat : n <= look /\ n <= Cardinality(ks) /\ Panels!Recent(ks, n) \subseteq alike => Panels!Run(ks, look, alike) >= n
<1> DEFINE run == {k \in Panels!Recent(ks, look) : \A j \in ks : j >= k => j \in alike}
<1>1. Panels!Run(ks, look, alike) = Cardinality(run)
  BY PanelsCounting DEF Panels!Run
<1>2. run \subseteq ks
  BY PanelsInRecent
<1>3. IsFiniteSet(run) /\ Cardinality(run) \in Nat
  BY <1>2, PanelsPlacesFinite, FS_CardinalityType
<1>4. ASSUME NEW n \in Nat, n <= look, n <= Cardinality(ks), Panels!Recent(ks, n) \subseteq alike
      PROVE  Cardinality(run) >= n
  <2>1. Panels!Recent(ks, n) \subseteq run
    <3>1. ASSUME NEW k \in Panels!Recent(ks, n) PROVE k \in run
      <4>1. k \in ks
        BY PanelsInRecent
      <4>2. k \in Panels!Recent(ks, look)
        <5>1. k \in Nat /\ k >= k
          BY <4>1
        <5> QED
          BY <1>4, <4>1, <5>1, PanelsRecentUp
      <4>3. ASSUME NEW j \in ks, j >= k PROVE j \in alike
        <5>1. n <= n
          BY <1>4
        <5>2. j \in Panels!Recent(ks, n)
          BY <1>4, <4>3, <5>1, PanelsRecentUp
        <5> QED
          BY <1>4, <5>2
      <4> QED
        BY <4>2, <4>3
    <3> QED
      BY <3>1
  <2>2. Cardinality(Panels!Recent(ks, n)) <= Cardinality(run)
    BY <1>3, <2>1, FS_Subset
  <2>3. Cardinality(Panels!Recent(ks, n)) \in Nat /\ Cardinality(Panels!Recent(ks, n)) >= n
    BY <1>4, PanelsRecentMany
  <2> QED
    BY <1>3, <2>2, <2>3
<1> HIDE DEF run
<1> QED
  BY <1>1, <1>3, <1>4

-----------------------------------------------------------------------------
\* Arithmetic.
LEMMA PanelsDivides ==
  ASSUME NEW a \in Nat, NEW b \in Nat, b # 0
  PROVE  a \div b \in Nat /\ (a \div b) * b <= a /\ a < (a \div b) * b + b
BY Z3

LEMMA PanelsTimesUp ==
  ASSUME NEW a \in Nat, NEW b \in Nat, NEW s \in Nat
  PROVE  a * s \in Nat /\ (a <= b => a * s <= b * s) /\ (s # 0 /\ a * s < b * s => a < b)
BY Z3

\* A quotient is below what the whole is below.
LEMMA PanelsQuotient ==
  ASSUME NEW x \in Nat, NEW n \in Nat, NEW p \in Nat, p # 0
  PROVE  x \div p \in Nat /\ n * p \in Nat /\ (x \div p < n <=> x < n * p)
<1> DEFINE q == x \div p
<1>1. q \in Nat /\ q * p <= x /\ x < q * p + p
  BY PanelsDivides
<1> HIDE DEF q
<1>2. q * p + p = (q + 1) * p /\ q + 1 \in Nat
  BY <1>1, Z3
<1>3. n * p \in Nat /\ q * p \in Nat /\ (q + 1) * p \in Nat
  BY <1>1, <1>2, PanelsTimesUp
<1>4. q < n => x < n * p
  <2>1. q < n => q + 1 <= n
    BY <1>1
  <2>2. q < n => (q + 1) * p <= n * p
    BY <1>2, <2>1, PanelsTimesUp
  <2> QED
    BY <1>1, <1>2, <1>3, <2>2
<1>5. x < n * p => q < n
  BY <1>1, <1>3, PanelsTimesUp
<1> QED
  BY <1>1, <1>3, <1>4, <1>5 DEF q

\* Two quotients as what they are of, over a common whole.
LEMMA PanelsScaled ==
  ASSUME NEW a \in Nat, NEW b \in Nat, NEW o \in Nat, o # 0, NEW e \in Nat, e # 0
  PROVE  /\ e * o \in Nat /\ a \div o \in Nat /\ b \div (e * o) \in Nat
         /\ a * e <= b => a \div o <= b \div (e * o)
         /\ b <= a * e => b \div (e * o) <= a \div o
<1>1. e * o \in Nat /\ e * o # 0 /\ a * e \in Nat
  BY Z3
<1> DEFINE q == a \div o
           r == b \div (e * o)
<1>2. q \in Nat /\ q * o <= a
  BY PanelsDivides
<1>3. r \in Nat /\ r * (e * o) <= b
  BY <1>1, PanelsDivides
<1>4. a * e <= b => q <= r
  <2>1. (q * o) * e <= a * e /\ q * o \in Nat /\ (q * o) * e \in Nat
    BY <1>2, PanelsTimesUp
  <2>2. (q * o) * e = q * (e * o)
    BY <1>2, Z3
  <2>3. a * e <= b => ~(b < q * (e * o))
    BY <1>1, <2>1, <2>2
  <2>4. r < q <=> b < q * (e * o)
    BY <1>1, <1>2, PanelsQuotient
  <2> HIDE DEF q, r
  <2> QED
    BY <1>2, <1>3, <2>3, <2>4
<1>5. b <= a * e => r <= q
  <2>1. r * (e * o) = (r * o) * e /\ r * o \in Nat
    BY <1>3, Z3
  <2>2. b <= a * e => (r * o) * e <= a * e
    BY <1>1, <1>3, <2>1, PanelsTimesUp
  <2>3. a < r * o => (a + 1) * e <= (r * o) * e
    BY <2>1, PanelsTimesUp
  <2>4. (a + 1) * e = a * e + e /\ (r * o) * e \in Nat
    BY <2>1, PanelsTimesUp, Z3
  <2>5. b <= a * e => ~(a < r * o)
    BY <1>1, <2>2, <2>3, <2>4
  <2>6. q < r <=> a < r * o
    BY <1>3, PanelsQuotient
  <2> HIDE DEF q, r
  <2> QED
    BY <1>2, <1>3, <2>5, <2>6
<1> QED
  BY <1>1, <1>2, <1>3, <1>4, <1>5

\* The sign of a quotient.
LEMMA PanelsSign ==
  ASSUME NEW x \in Int, NEW v \in Nat, v # 0
  PROVE  x \div v \in Int /\ (x \div v < 0 <=> x < 0) /\ (x = 0 => x \div v = 0)
BY Z3

-----------------------------------------------------------------------------
\* The panels of RT speak of one envelope.
LEMMA PanelsEnvelope ==
  ASSUME NEW p \in panel_Plans, NEW m \in panel_Markets, Panels!Favorable(p, m) > 0
  PROVE  LET gain == Panels!CeilingAtEnvelope(p, m) - Panels!CeilingNow(p, m)
         IN (gain > 0 => Panels!GapToCeiling(p, m) > 0) /\ (Panels!GapToCeiling(p, m) > 0 => gain >= 0)
<1>a. PICK h, n, e, v, o, f :
        h = p.hi + p.discretion /\ n = m.notional /\ e = m.equity /\ v = m.leverage /\ o = m.open /\ f = Panels!Favorable(p, m)
  OBVIOUS
<1>b. /\ p.hi \in Nat /\ p.discretion \in Nat /\ p.hi + p.discretion \in Nat /\ m.notional \in Nat
      /\ m.high \in Nat /\ m.low \in Nat
      /\ m.equity \in Nat \ {0} /\ m.leverage \in Nat \ {0} /\ m.open \in Nat \ {0}
  BY PanelsAssumption
<1>c. Panels!Favorable(p, m) \in Int
  BY <1>b DEF Panels!Favorable, Panels!Greater
<1>1. h \in Nat /\ n \in Nat /\ e \in Nat \ {0} /\ v \in Nat \ {0} /\ o \in Nat \ {0} /\ f \in Nat \ {0}
  BY <1>a, <1>b, <1>c
<1> DEFINE whole == h * 100 * (e * v)
           band == n * 10000
           a == h * v * f * 100
           b == n * f * 10000
<1>2. /\ Panels!CeilingAtEnvelope(p, m) = a \div o /\ Panels!CeilingNow(p, m) = b \div (e * o)
      /\ Panels!GapToCeiling(p, m) = h * 100 - band \div (e * v)
  BY <1>a DEF Panels!CeilingAtEnvelope, Panels!CeilingNow, Panels!GapToCeiling,
      Panels!CurrentPct
<1>3. e * v \in Nat /\ e * v # 0
  BY <1>1, Z3
<1>4. h * 100 \in Nat /\ band \in Nat
  BY <1>1
<1>5. band \div (e * v) \in Nat /\ whole \in Nat /\ (band \div (e * v) < h * 100 <=> band < whole)
  BY <1>3, <1>4, PanelsQuotient
<1>6. a * e = whole * f /\ b = band * f
  BY <1>1, Z3
<1>7. a \in Nat /\ b \in Nat
  BY <1>1, Z3
<1>8. (whole <= band => a * e <= b) /\ (band <= whole => b <= a * e)
  BY <1>1, <1>4, <1>5, <1>6, PanelsTimesUp
<1> HIDE DEF whole, band, a, b
<1>9. /\ a \div o \in Nat /\ b \div (e * o) \in Nat
      /\ whole <= band => a \div o <= b \div (e * o)
      /\ band <= whole => b \div (e * o) <= a \div o
  BY <1>1, <1>7, <1>8, PanelsScaled
<1> QED
  BY <1>2, <1>4, <1>5, <1>9

\* A subscription is satisfied as its distance says.
LEMMA PanelsDistanceTells ==
  ASSUME NEW p \in panel_Plans, NEW sub \in p.watched, NEW price \in Nat
  PROVE  /\ Panels!Distance(sub, price) \in Int
         /\ Panels!Distance(sub, price) < 0 => Panels!Satisfied(sub, price)
         /\ Panels!Satisfied(sub, price) => Panels!Distance(sub, price) <= 0
<1>a. PICK op, v : op = sub.op /\ v = sub.value
  OBVIOUS
<1>1. op \in {">", ">=", "<", "<="} /\ v \in Nat /\ v # 0
  BY <1>a, PanelsAssumption
<1> DEFINE x == (IF op \in {">", ">="} THEN v - price ELSE price - v) * 10000
<1>2. Panels!Distance(sub, price) = x \div v
  BY <1>a DEF Panels!Distance
<1>3. x \in Int /\ (x < 0 <=> IF op \in {">", ">="} THEN v < price ELSE price < v) /\ (v = price => x = 0)
  BY <1>1
<1> HIDE DEF x
<1>4. x \div v \in Int /\ (x \div v < 0 <=> x < 0) /\ (x = 0 => x \div v = 0)
  BY <1>1, <1>3, PanelsSign
<1>5. x < 0 => Panels!Satisfied(sub, price)
  BY <1>a, <1>1, <1>3 DEF Panels!Satisfied
<1>6. Panels!Satisfied(sub, price) => x < 0 \/ x = 0
  BY <1>a, <1>1, <1>3 DEF Panels!Satisfied
<1> QED
  BY <1>2, <1>4, <1>5, <1>6

LEMMA PanelsDistancesTell ==
  ASSUME NEW p \in panel_Plans, NEW price \in Nat
  PROVE  /\ (\E d \in Panels!Distances(p, price) : d < 0) => Panels!AnySatisfied(p, price)
         /\ Panels!AnySatisfied(p, price) => \E d \in Panels!Distances(p, price) : d <= 0
BY PanelsDistanceTells DEF Panels!Distances, Panels!AnySatisfied

\* Room in the band is room below the ceiling.
LEMMA PanelsRoomBelow ==
  ASSUME NEW p \in panel_Plans, NEW m \in panel_Markets, Panels!Gap(p, m) > 0
  PROVE  Panels!GapToCeiling(p, m) > 0
<1>1. p.lo \in Nat /\ p.hi \in Nat /\ p.discretion \in Nat /\ p.lo <= p.hi
  BY PanelsAssumption
<1>2. m.notional * 10000 \in Nat /\ m.equity * m.leverage \in Nat /\ m.equity * m.leverage # 0
  BY PanelsAssumption, Z3
<1>3. Panels!CurrentPct(m) \in Nat
  BY <1>2, PanelsDivides DEF Panels!CurrentPct
<1>4. ((p.lo + p.hi) * 100) \div 2 \in Int /\ ((p.lo + p.hi) * 100) \div 2 <= p.hi * 100
  BY <1>1, Z3
<1>5. (p.hi + p.discretion) * 100 >= p.hi * 100
  BY <1>1
<1> QED
  BY <1>1, <1>3, <1>4, <1>5 DEF Panels!Gap, Panels!GapToCeiling

-----------------------------------------------------------------------------
LEMMA PanelsInitInv == ASSUME Panels!Init PROVE PanelsIInv
<1>1. PanelsLogged
  BY DEF Panels!Init, PanelsLogged
<1>2. ASSUME NEW l \in Inputs PROVE PanelsKnows(l) /\ PanelsAgrees(l)
  <2>1. panel_lease[l].role = "none"
    BY DEF Panels!Init, Panels!None
  <2> QED
    BY <2>1 DEF PanelsKnows, PanelsAgrees
<1> QED
  BY <1>1, <1>2 DEF Panels!Init, PanelsIInv

\* Assets are only added.
PanelsGrown ==
  /\ PanelsLogged' /\ panel_now <= panel_now'
  /\ Len(panel_log) <= Len(panel_log') /\ \A k \in DOMAIN panel_log : panel_log'[k] = panel_log[k]

LEMMA PanelsEntriesIn ==
  ASSUME PanelsLogged, NEW role
  PROVE  Len(panel_log) \in Nat /\ DOMAIN panel_log = 1 .. Len(panel_log) /\ Panels!Entries(role) \in SUBSET (1 .. Len(panel_log))
BY DEF PanelsLogged, Panels!Entries

\* A day has no gap.
LEMMA PanelsDayBetween ==
  ASSUME NEW a \in Nat, NEW b \in Nat, NEW c \in Nat, a <= b, b <= c, PanelsDay(a) = PanelsDay(c)
  PROVE  PanelsDay(a) = PanelsDay(b)
BY Z3 DEF PanelsDay

\* What is known by a pack stays so.
LEMMA PanelsKept ==
  ASSUME PanelsIInv, PanelsGrown, NEW l \in Inputs, panel_lease'[l].role = panel_lease[l].role, panel_lease[l].role \in {"pm", "rt"},
         panel_lease'[l].seq = panel_lease[l].seq
  PROVE  /\ panel_lease'[l].seq \in 0 .. Len(panel_log')
         /\ panel_lease[l].role = "pm" /\ panel_lease'[l].streak = panel_lease[l].streak => PanelsStreakKnown(l)'
         /\ panel_lease[l].role = "pm" /\ panel_lease'[l].unprompted = panel_lease[l].unprompted => PanelsDayKnown(l)'
         /\ panel_lease[l].role = "rt" /\ panel_lease'[l].room = panel_lease[l].room /\ panel_lease'[l].warned = panel_lease[l].warned
              => PanelsHoldsKnown(l)'
<1>1. /\ panel_lease[l].seq \in 0 .. Len(panel_log) /\ Len(panel_log) \in Nat /\ Len(panel_log') \in Nat /\ Len(panel_log) <= Len(panel_log')
      /\ DOMAIN panel_log = 1 .. Len(panel_log) /\ DOMAIN panel_log' = 1 .. Len(panel_log')
  BY DEF PanelsIInv, PanelsKnows, PanelsGrown, PanelsLogged
<1> DEFINE top == panel_lease[l].seq
<1>2. top \in Nat /\ 1 .. top \subseteq DOMAIN panel_log /\ DOMAIN panel_log \subseteq DOMAIN panel_log'
  BY <1>1
<1>3. \A k \in DOMAIN panel_log : panel_log'[k] = panel_log[k]
  BY DEF PanelsGrown
<1>4. ASSUME NEW role, NEW ks \in SUBSET (1 .. top), ks = Panels!Entries(role)' PROVE ks = Panels!Entries(role)
  <2>1. \A k : k \in ks <=> k \in DOMAIN panel_log' /\ panel_log'[k].role = role
    BY <1>4 DEF Panels!Entries
  <2>2. \A k : k \in ks <=> k \in DOMAIN panel_log /\ panel_log[k].role = role
    BY <1>2, <1>3, <2>1
  <2> QED
    BY <2>2 DEF Panels!Entries
<1>5. ASSUME NEW ks \in SUBSET (1 .. top), NEW n, NEW k \in Panels!Recent(ks, n) PROVE k \in DOMAIN panel_log /\ panel_log'[k] = panel_log[k]
  BY <1>2, <1>3, PanelsInRecent
<1>6. ASSUME NEW ks \in SUBSET (1 .. top), PanelsAlike(ks)' PROVE PanelsAlike(ks)
  BY <1>5, <1>6 DEF PanelsAlike
<1>7. ASSUME NEW ks \in SUBSET (1 .. top), PanelsHeld(ks)' PROVE PanelsHeld(ks)
  BY <1>5, <1>7 DEF PanelsHeld
<1>8. ASSUME NEW ks \in SUBSET (1 .. top), Cardinality(ks) >= panel_Many, PanelsOfTheDay(ks)' PROVE PanelsOfTheDay(ks)
  <2>1. ks # {}
    <3>1. SUFFICES ASSUME ks = {} PROVE FALSE
      OBVIOUS
    <3>2. Cardinality(ks) = 0
      BY <3>1, FS_EmptySet
    <3> QED
      BY <1>8, <3>2, PanelsAssumption
  <2>2. PICK k \in Panels!Recent(ks, panel_Many) : TRUE
    BY <1>2, <2>1, PanelsGreatestRecent, PanelsAssumption
  <2>3. k \in DOMAIN panel_log /\ panel_log'[k] = panel_log[k]
    BY <1>5
  <2>4. PanelsDay(panel_log[k].at) = PanelsDay(panel_now')
    BY <1>8, <2>3 DEF PanelsOfTheDay
  <2>5. panel_log[k].at \in Nat /\ panel_log[k].at <= panel_now /\ panel_now \in Nat /\ panel_now' \in Nat /\ panel_now <= panel_now'
    <3>1. panel_log[k] \in PanelsEntry /\ panel_log[k].at <= panel_now /\ panel_now \in Nat
      BY <2>3 DEF PanelsIInv, PanelsLogged
    <3>2. panel_log[k].at \in Nat
      BY <3>1 DEF PanelsEntry
    <3> QED
      BY <3>1, <3>2 DEF PanelsGrown, PanelsLogged
  <2>6. PanelsDay(panel_now) = PanelsDay(panel_now')
    BY <2>4, <2>5, PanelsDayBetween
  <2> QED
    BY <1>2, <1>3, <1>5, <1>8, <2>6 DEF PanelsOfTheDay
<1>9. panel_lease[l].role = "pm" /\ panel_lease'[l].streak = panel_lease[l].streak => PanelsStreakKnown(l)'
  BY <1>4, <1>6 DEF PanelsIInv, PanelsKnows, PanelsStreakKnown
<1>10. panel_lease[l].role = "pm" /\ panel_lease'[l].unprompted = panel_lease[l].unprompted => PanelsDayKnown(l)'
  BY <1>4, <1>8 DEF PanelsIInv, PanelsKnows, PanelsDayKnown
<1>11. panel_lease[l].role = "rt" /\ panel_lease'[l].room = panel_lease[l].room /\ panel_lease'[l].warned = panel_lease[l].warned => PanelsHoldsKnown(l)'
  BY <1>4, <1>7 DEF PanelsIInv, PanelsKnows, PanelsHoldsKnown
<1> QED
  BY <1>1, <1>9, <1>10, <1>11

LEMMA PanelsKeptWhole ==
  ASSUME PanelsIInv, PanelsGrown, panel_ladder' = panel_ladder, NEW l \in Inputs, panel_lease'[l] = panel_lease[l]
  PROVE  PanelsKnows(l)' /\ PanelsAgrees(l)'
<1>1. PanelsAgrees(l)'
  BY DEF PanelsIInv, PanelsAgrees
<1>2. panel_lease[l].role = "pm" => PanelsTierKnown(l)'
  BY DEF PanelsIInv, PanelsKnows, PanelsTierKnown
<1>3. panel_lease[l].role = "pm" => PanelsIsPMPanel(panel_lease'[l])
  BY DEF PanelsIInv, PanelsKnows
<1> QED
  BY <1>1, <1>2, <1>3, PanelsKept DEF PanelsKnows

LEMMA PanelsSameGrown == ASSUME PanelsIInv, panel_log' = panel_log, panel_now' \in Nat, panel_now <= panel_now' PROVE PanelsGrown
<1>1. PanelsLogged'
  <2>1. \A k \in DOMAIN panel_log : panel_log[k].at \in Nat
    <3>1. ASSUME NEW k \in DOMAIN panel_log PROVE panel_log[k].at \in Nat
      <4>1. panel_log[k] \in PanelsEntry
        BY DEF PanelsIInv, PanelsLogged
      <4> QED
        BY <4>1 DEF PanelsEntry
    <3> QED
      BY <3>1
  <2>2. \A k \in DOMAIN panel_log : panel_log[k].at <= panel_now'
    BY <2>1 DEF PanelsIInv, PanelsLogged
  <2> QED
    BY <2>2 DEF PanelsIInv, PanelsLogged
<1>2. Len(panel_log) \in Nat
  BY DEF PanelsIInv, PanelsLogged
<1> QED
  BY <1>1, <1>2 DEF PanelsGrown

LEMMA PanelsAppendGrown == ASSUME PanelsIInv, NEW e \in PanelsEntry, e.at = panel_now, panel_log' = Append(panel_log, e), panel_now' = panel_now PROVE PanelsGrown
<1>1. panel_now \in Nat /\ panel_log \in Seq(PanelsEntry)
  BY DEF PanelsIInv, PanelsLogged
<1>2. /\ panel_log' \in Seq(PanelsEntry) /\ Len(panel_log) \in Nat /\ Len(panel_log') = Len(panel_log) + 1 /\ panel_log'[Len(panel_log) + 1] = e
      /\ DOMAIN panel_log = 1 .. Len(panel_log) /\ DOMAIN panel_log' = 1 .. Len(panel_log) + 1
      /\ \A k \in DOMAIN panel_log : panel_log'[k] = panel_log[k]
  BY <1>1
<1>3. \A k \in DOMAIN panel_log' : (k \in DOMAIN panel_log /\ panel_log'[k] = panel_log[k]) \/ (k = Len(panel_log) + 1 /\ panel_log'[k] = e)
  BY <1>2
<1>4. \A k \in DOMAIN panel_log' : panel_log'[k].at <= panel_now'
  BY <1>1, <1>3 DEF PanelsIInv, PanelsLogged
<1>5. ASSUME NEW j \in DOMAIN panel_log', NEW k \in DOMAIN panel_log', j <= k PROVE panel_log'[j].at <= panel_log'[k].at
  <2>1. CASE k = Len(panel_log) + 1
    <3>1. panel_log'[k].at = panel_now
      BY <2>1, <1>2
    <3> QED
      BY <3>1, <1>4
  <2>2. CASE k \in DOMAIN panel_log
    <3>1. j \in DOMAIN panel_log
      BY <1>2, <1>5, <2>2
    <3> QED
      BY <1>2, <1>5, <2>2, <3>1 DEF PanelsIInv, PanelsLogged
  <2> QED
    BY <1>3, <2>1, <2>2
<1>6. PanelsLogged'
  BY <1>1, <1>2, <1>4, <1>5 DEF PanelsLogged
<1> QED
  BY <1>1, <1>2, <1>6 DEF PanelsGrown

-----------------------------------------------------------------------------
\* What a strategy's place tells of it.
LEMMA PanelsLastPlan ==
  ASSUME PanelsLogged, Panels!Entries("pm") # {}
  PROVE  panel_log[Panels!Greatest(Panels!Entries("pm"))].plan \in panel_Plans
<1>1. Panels!Greatest(Panels!Entries("pm")) \in Panels!Entries("pm")
  BY PanelsEntriesIn, PanelsHasGreatest
<1> PICK k : k = Panels!Greatest(Panels!Entries("pm"))
  OBVIOUS
<1>2. k \in DOMAIN panel_log /\ panel_log[k].role = "pm"
  BY <1>1 DEF Panels!Entries
<1>3. panel_log[k] \in PanelsEntry
  BY <1>2 DEF PanelsLogged
<1> QED
  BY <1>2, <1>3 DEF PanelsEntry

LEMMA PanelsStreakAtPull ==
  ASSUME PanelsLogged, Cardinality(Panels!Entries("pm")) >= panel_Many, PanelsAlike(Panels!Entries("pm"))
  PROVE  Panels!BandStreak(Panels!Entries("pm")) >= panel_Many /\ Panels!Entries("pm") # {}
<1> PICK ks : ks = Panels!Entries("pm")
  OBVIOUS
<1>1. Len(panel_log) \in Nat /\ ks \in SUBSET (1 .. Len(panel_log))
  BY PanelsEntriesIn
<1>2. ks # {}
  <2>1. SUFFICES ASSUME ks = {} PROVE FALSE
    OBVIOUS
  <2>2. Cardinality(ks) = 0
    BY <2>1, FS_EmptySet
  <2> QED
    BY <2>2, PanelsAssumption
<1>3. Panels!Greatest(ks) \in Panels!Recent(ks, panel_Many)
  BY <1>1, <1>2, PanelsGreatestRecent, PanelsAssumption
<1>4. Panels!Recent(ks, panel_Many) \subseteq Panels!LikeTheLast(ks)
  BY <1>3, PanelsInRecent DEF PanelsAlike, Panels!LikeTheLast
<1>5. Panels!Run(ks, panel_StreakLook, Panels!LikeTheLast(ks)) >= panel_Many
  BY <1>1, <1>4, PanelsRunMany, PanelsAssumption
<1> QED
  BY <1>2, <1>5 DEF Panels!BandStreak

LEMMA PanelsHoldsAtPull ==
  ASSUME PanelsLogged, Cardinality(Panels!Entries("rt")) >= 2, PanelsHeld(Panels!Entries("rt"))
  PROVE  Panels!Holds >= 2
<1>1. Len(panel_log) \in Nat /\ Panels!Entries("rt") \in SUBSET (1 .. Len(panel_log))
  BY PanelsEntriesIn
<1> DEFINE alike == {k \in Panels!Entries("rt") : ~panel_log[k].entry}
<1>2. Panels!Recent(Panels!Entries("rt"), 2) \subseteq alike
  BY PanelsInRecent DEF PanelsHeld
<1>3. Panels!Run(Panels!Entries("rt"), panel_HoldLook, alike) >= 2
  BY <1>1, <1>2, PanelsRunMany, PanelsAssumption
<1> QED
  BY <1>3 DEF Panels!Holds

LEMMA PanelsDayAtPull ==
  ASSUME PanelsLogged, Cardinality(Panels!Entries("pm")) >= panel_Many, PanelsOfTheDay(Panels!Entries("pm"))
  PROVE  Panels!Unprompted(Panels!Entries("pm"))
<1> PICK ks : ks = Panels!Entries("pm")
  OBVIOUS
<1>1. Len(panel_log) \in Nat /\ DOMAIN panel_log = 1 .. Len(panel_log) /\ ks \in SUBSET (1 .. Len(panel_log))
  BY PanelsEntriesIn
<1>2. ks # {}
  <2>1. SUFFICES ASSUME ks = {} PROVE FALSE
    OBVIOUS
  <2>2. Cardinality(ks) = 0
    BY <2>1, FS_EmptySet
  <2> QED
    BY <2>2, PanelsAssumption
<1>3. Panels!RevisionsToday(ks) = {k \in ks : PanelsDay(panel_log[k].at) = PanelsDay(panel_now)}
  BY DEF Panels!RevisionsToday, Panels!Today, PanelsDay
<1>4. Cardinality(Panels!RevisionsToday(ks)) >= panel_Many
  <2>1. Panels!Recent(ks, panel_Many) \subseteq Panels!RevisionsToday(ks)
    BY <1>3, PanelsInRecent DEF PanelsOfTheDay
  <2>2. IsFiniteSet(Panels!RevisionsToday(ks)) /\ Cardinality(Panels!RevisionsToday(ks)) \in Nat
    <3>1. Panels!RevisionsToday(ks) \in SUBSET (1 .. Len(panel_log))
      BY <1>1, <1>3
    <3> QED
      BY <1>1, <3>1, PanelsPlacesFinite, FS_CardinalityType
  <2>3. Cardinality(Panels!Recent(ks, panel_Many)) <= Cardinality(Panels!RevisionsToday(ks))
    BY <2>1, <2>2, FS_Subset
  <2>4. Cardinality(Panels!Recent(ks, panel_Many)) \in Nat /\ Cardinality(Panels!Recent(ks, panel_Many)) >= panel_Many
    BY <1>1, PanelsRecentMany, PanelsAssumption
  <2> QED
    BY <2>2, <2>3, <2>4, PanelsAssumption
<1>5. Panels!Greatest(ks) \in Panels!Recent(ks, panel_Many) /\ Panels!Greatest(ks) \in ks
  BY <1>1, <1>2, PanelsGreatestRecent, PanelsHasGreatest, PanelsAssumption
<1>6. ASSUME NEW k \in Panels!NewsSince(ks) PROVE FALSE
  <2>1. k \in DOMAIN panel_log /\ panel_log[k].role = "mea" /\ k > Panels!Greatest(ks)
    BY <1>2, <1>6, PanelsInRecent DEF Panels!NewsSince, Panels!Entries
  <2> DEFINE g == Panels!Greatest(ks)
  <2>2. g \in DOMAIN panel_log /\ g <= k /\ PanelsDay(panel_log[g].at) = PanelsDay(panel_now)
    BY <1>1, <1>5, <2>1 DEF PanelsOfTheDay
  <2>3. panel_log[g].at \in Nat /\ panel_log[k].at \in Nat /\ panel_now \in Nat /\ panel_log[g].at <= panel_log[k].at /\ panel_log[k].at <= panel_now
    <3>1. panel_log[g] \in PanelsEntry /\ panel_log[k] \in PanelsEntry
      BY <2>1, <2>2 DEF PanelsLogged
    <3>2. panel_log[g].at \in Nat /\ panel_log[k].at \in Nat
      BY <3>1 DEF PanelsEntry
    <3> QED
      BY <3>2, <2>1, <2>2 DEF PanelsLogged
  <2> HIDE DEF g
  <2>4. PanelsDay(panel_log[k].at) = PanelsDay(panel_now)
    BY <2>2, <2>3, PanelsDayBetween
  <2> QED
    BY <2>1, <2>4 DEF PanelsOfTheDay
<1>7. \A k \in Panels!RevisionsToday(ks) : panel_log[k].trigger # "risk_brake"
  <2>1. \A k \in Panels!RevisionsToday(ks) : panel_log[k].trigger = "other"
    BY <1>1, <1>3 DEF PanelsOfTheDay
  <2> QED
    BY <2>1
<1> QED
  BY <1>4, <1>6, <1>7, PanelsCounting DEF Panels!Unprompted

-----------------------------------------------------------------------------
\* The panels of a pack, field by field.
LEMMA PanelsPMFields ==
  ASSUME NEW s, NEW t, NEW e, NEW u, NEW h, NEW v, NEW d, NEW a, NEW b
  PROVE  LET x == PanelsPMPanel(s, t, e, u, h, v, d, a, b)
         IN /\ x.role = "pm" /\ x.seq = s /\ x.streak = t /\ x.eligible = e /\ x.unprompted = u
            /\ x.hint = h /\ x.diverged = v /\ x.distances = d /\ x.satisfied = a /\ x.steady = b
            /\ PanelsIsPMPanel(x)
<1> PICK x : x = PanelsPMPanel(s, t, e, u, h, v, d, a, b)
  OBVIOUS
<1>1. /\ x.role = "pm" /\ x.seq = s /\ x.streak = t /\ x.eligible = e /\ x.unprompted = u
      /\ x.hint = h /\ x.diverged = v /\ x.distances = d /\ x.satisfied = a /\ x.steady = b
  BY DEF PanelsPMPanel
<1> QED
  BY <1>1 DEF PanelsIsPMPanel

LEMMA PanelsRTFields ==
  ASSUME NEW s, NEW h, NEW w, NEW r, NEW u, NEW v
  PROVE  LET x == PanelsRTPanel(s, h, w, r, u, v)
         IN x.role = "rt" /\ x.seq = s /\ x.warned = w /\ x.room = r /\ x.units = u /\ x.moved = v
BY DEF PanelsRTPanel

LEMMA PanelsPMPanelIs ==
  ASSUME NEW m
  PROVE  LET strategies == Panels!Entries("pm")
             none == strategies = {}
             plan == panel_log[Panels!Greatest(strategies)].plan
         IN Panels!PanelsOf("pm", m) =
            PanelsPMPanel(Len(panel_log), IF none THEN 0 ELSE Panels!BandStreak(strategies), Panels!HighEligible, Panels!Unprompted(strategies),
                          ~none /\ Panels!HintHigh(plan), ~none /\ Panels!Alignment(plan.side, m.change) = "diverged",
                          IF none THEN {} ELSE Panels!Distances(plan, m.high), ~none /\ Panels!AnySatisfied(plan, m.high), TRUE)
BY DEF Panels!PanelsOf, PanelsPMPanel

LEMMA PanelsRTPanelIs ==
  ASSUME NEW m
  PROVE  LET strategies == Panels!Entries("pm")
             none == strategies = {}
             plan == panel_log[Panels!Greatest(strategies)].plan
         IN Panels!PanelsOf("rt", m) =
            PanelsRTPanel(Len(panel_log), Panels!Holds, ~none /\ Panels!Holds >= 2 /\ Panels!Gap(plan, m) > 0, ~none /\ Panels!Gap(plan, m) > 0,
                          IF none THEN Panels!NoUnits
                          ELSE [gap |-> Panels!GapToCeiling(plan, m),
                                gain |-> Panels!CeilingAtEnvelope(plan, m) - Panels!CeilingNow(plan, m)],
                          ~none /\ Panels!Favorable(plan, m) > 0)
BY DEF Panels!PanelsOf, PanelsRTPanel

\* The ladder has moved.
LEMMA PanelsReplaced ==
  ASSUME NEW x, NEW f, PanelsIsPMPanel(x)
  PROVE  [x EXCEPT !.steady = f] =
           PanelsPMPanel(x.seq, x.streak, x.eligible, x.unprompted, x.hint, x.diverged, x.distances, x.satisfied, f)
<1>1. \A s, t, e, u, h, v, d, a, b :
        [PanelsPMPanel(s, t, e, u, h, v, d, a, b) EXCEPT !.steady = f] = PanelsPMPanel(s, t, e, u, h, v, d, a, f)
  BY DEF PanelsPMPanel
<1> QED
  BY <1>1 DEF PanelsIsPMPanel

LEMMA PanelsReset ==
  ASSUME NEW x, PanelsIsPMPanel(x)
  PROVE  [x EXCEPT !.steady = FALSE] =
           PanelsPMPanel(x.seq, x.streak, x.eligible, x.unprompted, x.hint, x.diverged, x.distances, x.satisfied, FALSE)
BY PanelsReplaced, Zenon

LEMMA PanelsUnsteady ==
  ASSUME NEW x, NEW f, NEW y,
         y = PanelsPMPanel(x.seq, x.streak, x.eligible, x.unprompted, x.hint, x.diverged, x.distances, x.satisfied, f)
  PROVE  /\ PanelsIsPMPanel(y) /\ y.role = "pm" /\ y.seq = x.seq /\ y.streak = x.streak /\ y.unprompted = x.unprompted
         /\ y.distances = x.distances /\ y.satisfied = x.satisfied /\ y.steady = f
BY PanelsPMFields

-----------------------------------------------------------------------------
\* A pack knows what there is when it is pulled.
LEMMA PanelsPullKnows ==
  ASSUME PanelsIInv, NEW l \in Inputs, NEW role \in {"pm", "rt", "mea"}, NEW m \in panel_Markets,
         panel_lease'[l] = Panels!PanelsOf(role, m), UNCHANGED <<panel_now, panel_log,
                                                                 panel_ladder>>
  PROVE  PanelsKnows(l)' /\ PanelsAgrees(l)'
<1>1. /\ Len(panel_log) \in Nat /\ PanelsLogged
      /\ Panels!Entries("pm") \in SUBSET (1 .. Len(panel_log)) /\ Panels!Entries("rt") \in SUBSET (1 .. Len(panel_log))
  BY PanelsEntriesIn DEF PanelsIInv
<1>2. Panels!Entries("pm")' = Panels!Entries("pm") /\ Panels!Entries("rt")' = Panels!Entries("rt")
  BY DEF Panels!Entries
<1>3. \A ks : (PanelsAlike(ks)' <=> PanelsAlike(ks)) /\ (PanelsOfTheDay(ks)' <=> PanelsOfTheDay(ks)) /\ (PanelsHeld(ks)' <=> PanelsHeld(ks))
  BY DEF PanelsAlike, PanelsOfTheDay, PanelsHeld
<1>4. CASE role = "pm"
  <2> DEFINE none == Panels!Entries("pm") = {}
             plan == panel_log[Panels!Greatest(Panels!Entries("pm"))].plan
  <2>a. PICK x, s, t, e, u, h, v, d, a, b :
          /\ x = panel_lease'[l] /\ x = PanelsPMPanel(s, t, e, u, h, v, d, a, b)
          /\ s = Len(panel_log) /\ t = (IF none THEN 0 ELSE Panels!BandStreak(Panels!Entries("pm")))
          /\ e = Panels!HighEligible /\ u = Panels!Unprompted(Panels!Entries("pm"))
          /\ d = (IF none THEN {} ELSE Panels!Distances(plan, m.high)) /\ a = (~none /\ Panels!AnySatisfied(plan, m.high))
    BY <1>4, PanelsPMPanelIs, Zenon
  <2>b. /\ PanelsIsPMPanel(x) /\ x.role = "pm" /\ x.seq = s /\ x.streak = t /\ x.eligible = e /\ x.unprompted = u
        /\ x.distances = d /\ x.satisfied = a
    BY <2>a, PanelsPMFields
  <2>1. /\ PanelsIsPMPanel(x) /\ x = panel_lease'[l] /\ x.role = "pm" /\ x.seq = Len(panel_log) /\ (x.eligible <=> Panels!HighEligible)
        /\ x.unprompted <=> Panels!Unprompted(Panels!Entries("pm"))
        /\ ~none => x.streak = Panels!BandStreak(Panels!Entries("pm"))
    BY <2>a, <2>b
  <2>2. PanelsStreakKnown(l)'
    BY <1>1, <1>2, <1>3, <2>1, PanelsStreakAtPull DEF PanelsStreakKnown
  <2>3. PanelsDayKnown(l)'
    BY <1>1, <1>2, <1>3, <2>1, PanelsDayAtPull DEF PanelsDayKnown
  <2>4. PanelsTierKnown(l)'
    BY <2>1 DEF PanelsTierKnown, Panels!HighEligible
  <2>5. PanelsKnows(l)'
    BY <1>1, <2>1, <2>2, <2>3, <2>4 DEF PanelsKnows
  <2>6. PanelsAgrees(l)'
    <3>1. CASE Panels!Entries("pm") = {}
      <4>1. x.distances = {} /\ ~x.satisfied
        BY <2>a, <2>b, <3>1
      <4> QED
        BY <2>1, <4>1 DEF PanelsAgrees
    <3>2. CASE Panels!Entries("pm") # {}
      <4>1. x.distances = Panels!Distances(plan, m.high) /\ (x.satisfied <=> Panels!AnySatisfied(plan, m.high))
        BY <2>a, <2>b, <3>2
      <4>2. plan \in panel_Plans /\ m.high \in Nat
        BY <1>1, <3>2, PanelsLastPlan, PanelsAssumption
      <4> QED
        BY <2>1, <4>1, <4>2, PanelsDistancesTell DEF PanelsAgrees
    <3> QED
      BY <3>1, <3>2
  <2> QED
    BY <2>5, <2>6
<1>5. CASE role = "rt"
  <2> DEFINE none == Panels!Entries("pm") = {}
             plan == panel_log[Panels!Greatest(Panels!Entries("pm"))].plan
             gain == Panels!CeilingAtEnvelope(plan, m) - Panels!CeilingNow(plan, m)
  <2>a. PICK x, s, h, w, r, u, v :
          /\ x = panel_lease'[l] /\ x = PanelsRTPanel(s, h, w, r, u, v)
          /\ s = Len(panel_log) /\ w = (~none /\ Panels!Holds >= 2 /\ Panels!Gap(plan, m) > 0) /\ r = (~none /\ Panels!Gap(plan, m) > 0)
          /\ u = (IF none THEN Panels!NoUnits ELSE [gap |-> Panels!GapToCeiling(plan, m), gain |-> gain])
          /\ v = (~none /\ Panels!Favorable(plan, m) > 0)
    BY <1>5, PanelsRTPanelIs, Zenon
  <2>b. x.role = "rt" /\ x.seq = s /\ x.warned = w /\ x.room = r /\ x.units = u /\ x.moved = v
    BY <2>a, PanelsRTFields
  <2>1. /\ x = panel_lease'[l] /\ x.role = "rt" /\ x.seq = Len(panel_log)
        /\ x.warned <=> Panels!Entries("pm") # {} /\ Panels!Holds >= 2 /\ Panels!Gap(plan, m) > 0
        /\ x.room <=> Panels!Entries("pm") # {} /\ Panels!Gap(plan, m) > 0
        /\ x.moved <=> Panels!Entries("pm") # {} /\ Panels!Favorable(plan, m) > 0
        /\ Panels!Entries("pm") # {} =>
             x.units = [gap |-> Panels!GapToCeiling(plan, m), gain |-> gain]
    BY <2>a, <2>b
  <2>2. PanelsHoldsKnown(l)'
    BY <1>1, <1>2, <1>3, <2>1, PanelsHoldsAtPull DEF PanelsHoldsKnown
  <2>3. PanelsKnows(l)'
    BY <1>1, <2>1, <2>2 DEF PanelsKnows
  <2>4. PanelsAgrees(l)'
    <3>1. ASSUME x.moved PROVE /\ x.units.gain > 0 => x.units.gap > 0
                               /\ x.units.gap > 0 => x.units.gain >= 0
                               /\ x.warned => x.units.gap > 0
      <4>1. plan \in panel_Plans /\ Panels!Favorable(plan, m) > 0
        BY <1>1, <2>1, <3>1, PanelsLastPlan
      <4> QED
        BY <2>1, <3>1, <4>1, PanelsEnvelope, PanelsRoomBelow
    <3> QED
      BY <2>1, <3>1 DEF PanelsAgrees
  <2> QED
    BY <2>3, <2>4
<1>6. CASE role = "mea"
  <2>1. panel_lease'[l].role = "mea"
    BY <1>6 DEF Panels!PanelsOf
  <2> QED
    BY <2>1 DEF PanelsKnows, PanelsAgrees
<1> QED
  BY <1>4, <1>5, <1>6

LEMMA PanelsNoneKnows == ASSUME NEW l \in Inputs, panel_lease'[l] = Panels!None PROVE PanelsKnows(l)' /\ PanelsAgrees(l)'
<1>1. panel_lease'[l].role = "none"
  BY DEF Panels!None
<1> QED
  BY <1>1 DEF PanelsKnows, PanelsAgrees

LEMMA PanelsSubmitInv == ASSUME PanelsIInv, NEW l \in Inputs, NEW e \in PanelsEntry, e.at = panel_now, Panels!Submit(l, e) PROVE PanelsIInv'
<1>1. panel_log' = Append(panel_log, e) /\ panel_lease' = [panel_lease EXCEPT ![l] = Panels!None] /\ panel_now' = panel_now /\ panel_ladder' = panel_ladder
  BY DEF Panels!Submit
<1>2. PanelsGrown
  BY <1>1, PanelsAppendGrown
<1>3. panel_lease' = [k \in Inputs |-> panel_lease'[k]] /\ \A k \in Inputs : panel_lease'[k] = IF k = l THEN Panels!None ELSE panel_lease[k]
  BY <1>1 DEF PanelsIInv
<1>4. ASSUME NEW k \in Inputs PROVE PanelsKnows(k)' /\ PanelsAgrees(k)'
  BY <1>1, <1>2, <1>3, PanelsKeptWhole, PanelsNoneKnows
<1> QED
  BY <1>2, <1>3, <1>4 DEF PanelsIInv, PanelsGrown

LEMMA PanelsPullInv ==
  ASSUME PanelsIInv, NEW l \in Inputs, NEW role \in {"pm", "rt", "mea"}, NEW m \in panel_Markets, Panels!Pull(l, role, m)
  PROVE  PanelsIInv'
<1>1. panel_lease' = [panel_lease EXCEPT ![l] = Panels!PanelsOf(role, m)] /\ UNCHANGED <<panel_now,
                                                                                         panel_log,
                                                                                         panel_ladder>>
  BY DEF Panels!Pull
<1>2. PanelsGrown
  <2>1. panel_now \in Nat
    BY DEF PanelsIInv, PanelsLogged
  <2> QED
    BY <1>1, <2>1, PanelsSameGrown
<1>3. /\ panel_lease' = [k \in Inputs |-> panel_lease'[k]] /\ panel_lease'[l] = Panels!PanelsOf(role, m)
      /\ \A k \in Inputs : k # l => panel_lease'[k] = panel_lease[k]
  BY <1>1 DEF PanelsIInv
<1>4. ASSUME NEW k \in Inputs, k # l PROVE PanelsKnows(k)' /\ PanelsAgrees(k)'
  BY <1>1, <1>2, <1>3, <1>4, PanelsKeptWhole
<1>5. PanelsKnows(l)' /\ PanelsAgrees(l)'
  BY <1>1, <1>3, PanelsPullKnows
<1> QED
  BY <1>2, <1>3, <1>4, <1>5 DEF PanelsIInv, PanelsGrown

LEMMA PanelsLadderInv == ASSUME PanelsIInv, Panels!LadderMoves PROVE PanelsIInv'
<1>1. panel_now \in Nat /\ panel_now' = panel_now /\ panel_log' = panel_log
  BY DEF PanelsIInv, PanelsLogged, Panels!LadderMoves
<1>2. PanelsGrown
  BY <1>1, PanelsSameGrown
<1>3. /\ panel_lease' = [k \in Inputs |-> panel_lease'[k]]
      /\ \A k \in Inputs : panel_lease'[k] = IF panel_lease[k].role = "pm" THEN [panel_lease[k] EXCEPT !.steady = FALSE] ELSE panel_lease[k]
  BY DEF Panels!LadderMoves
<1>4. ASSUME NEW k \in Inputs PROVE PanelsKnows(k)' /\ PanelsAgrees(k)'
  <2>1. CASE panel_lease[k].role = "pm"
    <3> PICK x, y : x = panel_lease[k] /\ y = panel_lease'[k]
      OBVIOUS
    <3>1. PanelsIsPMPanel(x) /\ y = [x EXCEPT !.steady = FALSE]
      BY <1>3, <2>1 DEF PanelsIInv, PanelsKnows
    <3>a. y = PanelsPMPanel(x.seq, x.streak, x.eligible, x.unprompted, x.hint, x.diverged, x.distances, x.satisfied, FALSE)
      BY <3>1, PanelsReset, Zenon
    <3>b. PICK f : ~f /\ y = PanelsPMPanel(x.seq, x.streak, x.eligible, x.unprompted, x.hint, x.diverged, x.distances,
                                           x.satisfied, f)
      BY <3>a, Zenon
    <3>2. /\ PanelsIsPMPanel(y) /\ ~y.steady /\ y.role = "pm" /\ y.seq = x.seq /\ y.streak = x.streak
          /\ y.unprompted = x.unprompted /\ y.distances = x.distances /\ y.satisfied = x.satisfied
      BY <3>b, PanelsUnsteady
    <3>3. PanelsTierKnown(k)'
      BY <3>2 DEF PanelsTierKnown
    <3>4. PanelsAgrees(k)'
      BY <2>1, <3>2 DEF PanelsIInv, PanelsAgrees
    <3> QED
      BY <1>2, <2>1, <3>2, <3>3, <3>4, PanelsKept DEF PanelsKnows
  <2>2. CASE panel_lease[k].role # "pm"
    <3>1. panel_lease'[k] = panel_lease[k]
      BY <1>3, <2>2
    <3>2. PanelsAgrees(k)'
      BY <3>1 DEF PanelsIInv, PanelsAgrees
    <3> QED
      BY <1>2, <2>2, <3>1, <3>2, PanelsKept DEF PanelsKnows
  <2> QED
    BY <2>1, <2>2
<1> QED
  BY <1>2, <1>3, <1>4 DEF PanelsIInv, PanelsGrown

LEMMA PanelsStillInv == ASSUME PanelsIInv, UNCHANGED <<panel_log, panel_ladder, panel_lease>>,
                                                       panel_now' \in Nat,
                                                       panel_now <= panel_now' PROVE PanelsIInv'
<1>1. PanelsGrown
  BY PanelsSameGrown
<1>2. ASSUME NEW k \in Inputs PROVE PanelsKnows(k)' /\ PanelsAgrees(k)'
  BY <1>1, PanelsKeptWhole
<1> QED
  BY <1>1, <1>2 DEF PanelsIInv, PanelsGrown

\* What is submitted is an asset of its time.
LEMMA PanelsIsEntry ==
  /\ \A p \in panel_Plans, trigger \in {"risk_brake", "other"}, t \in Nat :
       [role |-> "pm", at |-> t, plan |-> p, trigger |-> trigger] \in PanelsEntry
  /\ \A entry \in BOOLEAN, t \in Nat : [role |-> "rt", at |-> t, entry |-> entry] \in PanelsEntry
  /\ \A events \in {"none", "flip_trigger"}, t \in Nat : [role |-> "mea", at |-> t, events |-> events] \in PanelsEntry
BY DEF PanelsEntry

LEMMA PanelsStepInv == ASSUME PanelsIInv, [Panels!Next]_(Panels!vars) PROVE PanelsIInv'
<1>0. panel_now \in Nat
  BY DEF PanelsIInv, PanelsLogged
<1>1. CASE UNCHANGED Panels!vars
  BY <1>0, <1>1, PanelsStillInv DEF Panels!vars
<1>2. ASSUME NEW l \in Inputs, NEW role \in {"pm", "rt", "mea"}, NEW m \in panel_Markets, Panels!Pull(l, role, m) PROVE PanelsIInv'
  BY <1>2, PanelsPullInv
<1>3. ASSUME NEW l \in Inputs, NEW p \in panel_Plans, NEW trigger \in {"risk_brake", "other"}, Panels!SubmitStrategy(l, p, trigger)
      PROVE  PanelsIInv'
  BY <1>0, <1>3, PanelsIsEntry, PanelsSubmitInv DEF Panels!SubmitStrategy
<1>4. ASSUME NEW l \in Inputs, NEW entry \in BOOLEAN, Panels!SubmitExecution(l, entry) PROVE PanelsIInv'
  BY <1>0, <1>4, PanelsIsEntry, PanelsSubmitInv DEF Panels!SubmitExecution
<1>5. ASSUME NEW l \in Inputs, NEW events \in {"none", "flip_trigger"}, Panels!SubmitNews(l, events) PROVE PanelsIInv'
  BY <1>0, <1>5, PanelsIsEntry, PanelsSubmitInv DEF Panels!SubmitNews
<1>6. CASE Panels!LadderMoves
  BY <1>6, PanelsLadderInv
<1>7. CASE Panels!Tick
  BY <1>0, <1>7, PanelsStillInv DEF Panels!Tick
<1> QED
  BY <1>1, <1>2, <1>3, <1>4, <1>5, <1>6, <1>7 DEF Panels!Next

-----------------------------------------------------------------------------
\* What a submission was shown had been there when its pack was pulled.
LEMMA PanelsShownIs ==
  ASSUME PanelsIInv, NEW l \in Inputs, panel_lease[l].role \in {"pm", "rt"}, NEW n \in Nat \ {0}, Panels!Shown(l, n) # {}
  PROVE  /\ Panels!Entries(panel_lease[l].role) \in SUBSET (1 .. panel_lease[l].seq)
         /\ Cardinality(Panels!Entries(panel_lease[l].role)) >= n
         /\ Panels!Shown(l, n) = {panel_log[k] : k \in Panels!Recent(Panels!Entries(panel_lease[l].role), n)}
<1> PICK ks : ks = Panels!Entries(panel_lease[l].role)
  OBVIOUS
<1>1. /\ Cardinality(ks) >= n /\ Panels!Greatest(ks) <= panel_lease[l].seq
      /\ Panels!Shown(l, n) = {panel_log[k] : k \in Panels!Recent(ks, n)}
  BY PanelsCounting DEF Panels!Shown
<1>2. Len(panel_log) \in Nat /\ ks \in SUBSET (1 .. Len(panel_log))
  BY PanelsEntriesIn DEF PanelsIInv
<1>3. ks # {}
  <2>1. SUFFICES ASSUME ks = {} PROVE FALSE
    OBVIOUS
  <2>2. Cardinality(ks) = 0
    BY <2>1, FS_EmptySet
  <2> QED
    BY <1>1, <2>2
<1>4. Panels!Greatest(ks) \in ks /\ \A k \in ks : k <= Panels!Greatest(ks)
  BY <1>2, <1>3, PanelsHasGreatest
<1>5. panel_lease[l].seq \in Nat
  BY DEF PanelsIInv, PanelsKnows
<1>6. \A k \in ks : k \in Nat /\ k <= panel_lease[l].seq /\ k >= 1
  BY <1>1, <1>2, <1>4, <1>5
<1> QED
  BY <1>1, <1>5, <1>6

LEMMA PanelsSubmitsOf ==
  ASSUME PanelsIInv, NEW l \in Inputs, NEW k \in Inputs, NEW e \in PanelsEntry, Panels!Submit(k, e), Panels!Submitted(l)
  PROVE  k = l /\ Panels!New = e
<1>1. panel_log' = Append(panel_log, e) /\ panel_lease' = [panel_lease EXCEPT ![k] = Panels!None] /\ panel_log \in Seq(PanelsEntry)
  BY DEF Panels!Submit, PanelsIInv, PanelsLogged
<1>2. Panels!New = e
  BY <1>1 DEF Panels!New
<1>3. panel_lease[l] # Panels!None /\ panel_lease'[l] = Panels!None
  BY DEF Panels!Submitted
<1>4. k # l => panel_lease'[l] = panel_lease[l]
  BY <1>1 DEF PanelsIInv
<1> QED
  BY <1>2, <1>3, <1>4

LEMMA PanelsWarnsStrategy ==
  ASSUME PanelsIInv, NEW l \in Inputs, NEW p \in panel_Plans, NEW trigger \in {"risk_brake", "other"},
         Panels!SubmitStrategy(l, p, trigger), Panels!New = [role |-> "pm", at |-> panel_now, plan |-> p, trigger |-> trigger]
  PROVE  /\ Panels!New.role = "pm"
         /\ Panels!Shown(l, panel_Many) # {} /\ (\A s \in Panels!Shown(l, panel_Many) : Panels!SamePlan(s.plan, Panels!New.plan)) => panel_lease[l].streak >= panel_Many
         /\ Panels!New.plan.hi > panel_StandardTop => panel_lease[l].eligible \/ ~panel_lease[l].steady
         /\ /\ Panels!Shown(l, panel_Many) # {}
            /\ \A s \in Panels!Shown(l, panel_Many) : Panels!Today(s) /\ s.trigger = "other"
            /\ \A k \in DOMAIN panel_log : panel_log[k].at \div 2 = panel_now \div 2 => panel_log[k].role = "pm" /\ panel_log[k].trigger = "other"
            => panel_lease[l].unprompted
<1>1. Panels!New.role = "pm" /\ Panels!New.plan = p
  OBVIOUS
<1>2. panel_lease[l].role = "pm" /\ ~Panels!BandTierError(p)
  BY DEF Panels!SubmitStrategy
<1>3. PanelsStreakKnown(l) /\ PanelsDayKnown(l) /\ PanelsTierKnown(l)
  BY <1>2 DEF PanelsIInv, PanelsKnows
<1>4. p.hi > panel_StandardTop => panel_lease[l].eligible \/ ~panel_lease[l].steady
  <2>1. p.hi > panel_StandardTop => panel_ladder = "normal"
    BY <1>2 DEF Panels!BandTierError, Panels!HighEligible
  <2> QED
    BY <1>3, <2>1 DEF PanelsTierKnown
<1> DEFINE ks == Panels!Entries("pm")
<1>5. ASSUME Panels!Shown(l, panel_Many) # {}
      PROVE  /\ ks \in SUBSET (1 .. panel_lease[l].seq) /\ Cardinality(ks) >= panel_Many
             /\ Panels!Shown(l, panel_Many) = {panel_log[k] : k \in Panels!Recent(ks, panel_Many)}
  BY <1>2, <1>5, PanelsShownIs, PanelsAssumption
<1>6. ASSUME Panels!Shown(l, panel_Many) # {}, \A s \in Panels!Shown(l, panel_Many) : Panels!SamePlan(s.plan, p) PROVE panel_lease[l].streak >= panel_Many
  <2>1. \A k \in Panels!Recent(ks, panel_Many) : Panels!SamePlan(panel_log[k].plan, p)
    BY <1>5, <1>6
  <2>2. PanelsAlike(ks)
    BY <2>1 DEF PanelsAlike, Panels!SamePlan
  <2> QED
    BY <1>3, <1>5, <1>6, <2>2 DEF PanelsStreakKnown
<1>7. ASSUME Panels!Shown(l, panel_Many) # {}, \A s \in Panels!Shown(l, panel_Many) : Panels!Today(s) /\ s.trigger = "other",
             \A k \in DOMAIN panel_log : panel_log[k].at \div 2 = panel_now \div 2 => panel_log[k].role = "pm" /\ panel_log[k].trigger = "other"
      PROVE  panel_lease[l].unprompted
  <2>1. \A k \in Panels!Recent(ks, panel_Many) : Panels!Today(panel_log[k])
    BY <1>5, <1>7
  <2>2. PanelsOfTheDay(ks)
    BY <1>7, <2>1 DEF PanelsOfTheDay, Panels!Today, PanelsDay
  <2> QED
    BY <1>3, <1>5, <1>7, <2>2 DEF PanelsDayKnown
<1> QED
  BY <1>1, <1>4, <1>6, <1>7

LEMMA PanelsWarnsBatch ==
  ASSUME PanelsIInv, NEW l \in Inputs, panel_lease[l].role = "rt", Panels!Shown(l, 2) # {}, \A b \in Panels!Shown(l, 2) : ~b.entry,
         panel_lease[l].room
  PROVE  panel_lease[l].warned
<1> DEFINE ks == Panels!Entries("rt")
<1>1. /\ ks \in SUBSET (1 .. panel_lease[l].seq) /\ Cardinality(ks) >= 2
      /\ Panels!Shown(l, 2) = {panel_log[k] : k \in Panels!Recent(ks, 2)}
  BY PanelsShownIs
<1>2. PanelsHeld(ks)
  BY <1>1 DEF PanelsHeld
<1>3. PanelsHoldsKnown(l)
  BY DEF PanelsIInv, PanelsKnows
<1> QED
  BY <1>1, <1>2, <1>3 DEF PanelsHoldsKnown

LEMMA PanelsWarns ==
  PanelsIInv /\ [Panels!Next]_(Panels!vars) =>
    [\A l \in Inputs : Panels!Submitted(l) =>
       /\ Panels!New.role = "pm" =>
            /\ Panels!Shown(l, panel_Many) # {} /\ (\A s \in Panels!Shown(l, panel_Many) : Panels!SamePlan(s.plan, Panels!New.plan))
                 => panel_lease[l].streak >= panel_Many
            /\ Panels!New.plan.hi > panel_StandardTop => panel_lease[l].eligible \/ ~panel_lease[l].steady
            /\ /\ Panels!Shown(l, panel_Many) # {}
               /\ \A s \in Panels!Shown(l, panel_Many) : Panels!Today(s) /\ s.trigger = "other"
               /\ \A k \in DOMAIN panel_log : panel_log[k].at \div 2 = panel_now \div 2 => panel_log[k].role = "pm" /\ panel_log[k].trigger = "other"
               => panel_lease[l].unprompted
       /\ Panels!New.role = "rt" =>
            (Panels!Shown(l, 2) # {} /\ (\A b \in Panels!Shown(l, 2) : ~b.entry) /\ panel_lease[l].room => panel_lease[l].warned)
     ]_(Panels!vars)
<1> SUFFICES
      ASSUME PanelsIInv, [Panels!Next]_(Panels!vars), NEW l \in Inputs, Panels!Submitted(l)
      PROVE  /\ Panels!New.role = "pm" =>
                  /\ Panels!Shown(l, panel_Many) # {} /\ (\A s \in Panels!Shown(l, panel_Many) : Panels!SamePlan(s.plan, Panels!New.plan))
                       => panel_lease[l].streak >= panel_Many
                  /\ Panels!New.plan.hi > panel_StandardTop => panel_lease[l].eligible \/ ~panel_lease[l].steady
                  /\ /\ Panels!Shown(l, panel_Many) # {}
                     /\ \A s \in Panels!Shown(l, panel_Many) : Panels!Today(s) /\ s.trigger = "other"
                     /\ \A k \in DOMAIN panel_log :
                          panel_log[k].at \div 2 = panel_now \div 2 => panel_log[k].role = "pm" /\ panel_log[k].trigger = "other"
                     => panel_lease[l].unprompted
             /\ Panels!New.role = "rt" =>
                  (Panels!Shown(l, 2) # {} /\ (\A b \in Panels!Shown(l, 2) : ~b.entry) /\ panel_lease[l].room => panel_lease[l].warned)
  OBVIOUS
<1>0. panel_now \in Nat
  BY DEF PanelsIInv, PanelsLogged
<1>1. panel_log' # panel_log
  <2>1. Len(panel_log) \in Nat /\ Len(panel_log') > Len(panel_log)
    BY DEF PanelsIInv, PanelsLogged, Panels!Submitted
  <2> QED
    BY <2>1
<1>2. CASE \E k \in Inputs, p \in panel_Plans, trigger \in {"risk_brake", "other"} : Panels!SubmitStrategy(k, p, trigger)
  <2>1. PICK k \in Inputs, p \in panel_Plans, trigger \in {"risk_brake", "other"} : Panels!SubmitStrategy(k, p, trigger)
    BY <1>2
  <2>2. k = l /\ Panels!New = [role |-> "pm", at |-> panel_now, plan |-> p, trigger |-> trigger]
    BY <1>0, <2>1, PanelsIsEntry, PanelsSubmitsOf DEF Panels!SubmitStrategy
  <2>3. Panels!New.role = "pm"
    BY <2>2
  <2> QED
    BY <2>1, <2>2, <2>3, PanelsWarnsStrategy
<1>3. CASE \E k \in Inputs, entry \in BOOLEAN : Panels!SubmitExecution(k, entry)
  <2>1. PICK k \in Inputs, entry \in BOOLEAN : Panels!SubmitExecution(k, entry)
    BY <1>3
  <2>2. k = l /\ Panels!New = [role |-> "rt", at |-> panel_now, entry |-> entry] /\ panel_lease[k].role = "rt"
    BY <1>0, <2>1, PanelsIsEntry, PanelsSubmitsOf DEF Panels!SubmitExecution
  <2>3. Panels!New.role = "rt" /\ panel_lease[l].role = "rt"
    BY <2>2
  <2> QED
    BY <2>3, PanelsWarnsBatch
<1>4. CASE \E k \in Inputs, events \in {"none", "flip_trigger"} : Panels!SubmitNews(k, events)
  <2>1. PICK k \in Inputs, events \in {"none", "flip_trigger"} : Panels!SubmitNews(k, events)
    BY <1>4
  <2>2. Panels!New = [role |-> "mea", at |-> panel_now, events |-> events]
    BY <1>0, <2>1, PanelsIsEntry, PanelsSubmitsOf DEF Panels!SubmitNews
  <2>3. Panels!New.role = "mea"
    BY <2>2
  <2> QED
    BY <2>3
<1> QED
  BY <1>1, <1>2, <1>3, <1>4 DEF Panels!Next, Panels!vars, Panels!Pull, Panels!LadderMoves,
      Panels!Tick

LEMMA PanelsInvAgrees == PanelsIInv => Panels!PanelsAgree
BY DEF PanelsIInv, PanelsAgrees, Panels!PanelsAgree

\* Only its own steps touch PMPanels's variables.
LEMMA PanelsSteps == [Next]_vars => [Panels!Next]_(Panels!vars)
BY DEF Next, vars, gateVars, runVars, sizeVars, placeVars, panelVars, mapVars, Panels!vars

-----------------------------------------------------------------------------
\* Whatever is lost on the way, a plan of a batch is placed at most once, a result says
\* truly whether it was, and no plan is placed ahead of its turn
\* (ExecutionGatewayService.execute, CoinbaseTransport._request); a batch has a plan.
THEOREM PlacedOnce == Spec => []PlacedOnceAsTold
<1>1. Init => PlacingIInv
  BY PlacingInitInv DEF Init
<1>2. PlacingIInv /\ [Next]_vars => PlacingIInv'
  BY PlacingSteps, PlacingStepInv
<1>3. PlacingIInv => PlacedOnceAsTold
  BY PlacingInvPlacedOnce DEF PlacedOnceAsTold
<1> QED
  BY <1>1, <1>2, <1>3, PTL DEF Spec

\* What a run takes from RT's file was written after the run began, no two runs take
\* the same writing, and what is accepted was said by the agent or its file, but for news
\* whose repair is no object (_load_workspace_fallback, _run_submission_with_retry).
THEOREM AcceptedAlways == Spec => []AcceptedIsOfTheRun
<1>1. Init => RunIInv
  BY RunInitInv DEF Init
<1>2. RunIInv /\ [Next]_vars => RunIInv'
  BY RunSteps, RunStepInv
<1>3. RunIInv => AcceptedIsOfTheRun
  BY RunInvAccepted DEF AcceptedIsOfTheRun
<1> QED
  BY <1>1, <1>2, <1>3, PTL DEF Spec

\* What happened before a silent strategy was gated was answered by an announced one
\* that is not silent, but for submissions cut off or still between their gate and their
\* stamp, however many submit at once (evaluate_strategy_submission_triggers).
THEOREM SilentAlways == Spec => []SilentMeansAnswered
<1>1. Init => GateIInv
  BY GateInitInv DEF Init
<1>2. GateIInv /\ [Next]_vars => GateIInv'
  BY GateSteps, GateStepInv
<1>3. GateIInv => SilentMeansAnswered
  BY GateInvSilent DEF SilentMeansAnswered
<1> QED
  BY <1>1, <1>2, <1>3, PTL DEF Spec

\* Revision numbers grow and an input gives one strategy, but for what was cut off
\* half-way (materialize_strategy_asset, submit_strategy).
THEOREM SavedInOrderAlways == Spec => []SavedInOrder
<1>1. Init => GateIInv
  BY GateInitInv DEF Init
<1>2. GateIInv /\ [Next]_vars => GateIInv'
  BY GateSteps, GateStepInv
<1>3. GateIInv => SavedInOrder
  BY DEF GateIInv, SavedInOrder
<1> QED
  BY <1>1, <1>2, <1>3, PTL DEF Spec

\* However the prices, the shares and the position move while an order is on its way: a
\* reduction only shrinks the position and never turns it, a close and a flip end where
\* they should but for the reasons named, and what is added is within the limit or the
\* least order (execute_market_order, authorize_execution).
THEOREM FilledAsDecided == Spec => FillsAsDecided
<1>1. Init => SizingIInv
  BY SizingInitInv DEF Init
<1>2. SizingIInv /\ [Next]_vars => SizingIInv'
  BY SizingSteps, SizingStepInv
<1>3. SizingIInv /\ [Next]_vars =>
    [\A t \in Sizing!Trader : Sizing!Fills(t) =>
       LET o == size_order[t]
       IN /\ o.action \in Sizing!Reducing =>
               Sizing!Abs(size_qty') <= Sizing!Abs(size_qty) /\ Sizing!Sign(size_qty') \in {0, Sizing!Sign(size_qty)}
          /\ o.action = "close" /\ size_cached' <= o.at /\ Sizing!Abs(size_qty) <= Sizing!Abs(o.read)
               => size_qty' = 0
          /\ o.action = "flip" /\ size_qty = o.read /\ size_cached' <= o.at
             /\ Sizing!Sign(size_qty) = - Sizing!Facing(o.side)
               => Sizing!Sign(size_qty') = Sizing!Facing(o.side) \/ o.notional < size_cached'
          /\ o.action \in {"open", "add"}
               => Sizing!Abs(size_qty' - size_qty) * size_cached'
                    <= Sizing!Greater(Sizing!Notional(size_OrderLimit), Sizing!Lot(size_cached'))]_(Sizing!vars)
  BY SizingSteps, SizingFillsDo
<1> QED
  BY <1>1, <1>2, <1>3, PTL DEF Spec, FillsAsDecided, Sizing!FillsAsDecided

\* RT is asked for a map as long as it has none, and not again once it has drawn one for
\* the same strategy, lock and entries, however the strategies, the locks and the open
\* packs overlap (_build_rt_trigger_delta, submit_execution).
THEOREM AskedAlways == Spec => AskedUntilDrawn
<1>1. Init => MapIInv
  BY MapInitInv DEF Init
<1>2. MapIInv /\ [Next]_vars => MapIInv'
  BY MapSteps, MapStepInv
<1>3. MapIInv /\ [Next]_vars =>
    [\A l \in Inputs : Map!Pulled(l) =>
       LET pack == map_lease'[l]
       IN /\ pack.standing = 0 /\ pack.refresh = "none" /\ pack.key # 0 =>
               /\ map_maps # <<>> /\ map_maps[Map!Last].key = pack.key
               /\ (map_maps[Map!Last].lock # "none" /\ pack.lock = "none") \/ map_maps[Map!Last].plans = {}
          /\ pack.refresh # "none" /\ map_maps # <<>> =>
               LET latest == map_maps[Map!Last]
               IN latest.plans = {} \/ <<latest.key, latest.lock, latest.pending>> # <<pack.key,
                                         pack.lock, pack.pending>>
          /\ pack.status = "compatible" => pack.refresh = "none"
     ]_(Map!vars)
  BY MapSteps, MapAsks
<1> QED
  BY <1>1, <1>2, <1>3, PTL DEF Spec, AskedUntilDrawn, Map!AskedUntilDrawn

\* What a submission does against a warning was warned of in its pack, whoever else
\* pulls and submits in between and however the ladder and the day move; and the panels
\* of a pack agree, for every portfolio and every mark (_compute_band_revision_streak,
\* _compute_consecutive_holds, _build_pm_since_last_strategy_panel,
\* _compute_exposure_envelope, _compute_theoretical_profit_ceiling).
THEOREM WarnedAlways == Spec => PanelsWarn
<1>1. Init => PanelsIInv
  BY PanelsInitInv DEF Init
<1>2. PanelsIInv /\ [Next]_vars => PanelsIInv'
  BY PanelsSteps, PanelsStepInv
<1>3. PanelsIInv /\ [Next]_vars =>
    [\A l \in Inputs : Panels!Submitted(l) =>
       /\ Panels!New.role = "pm" =>
            /\ Panels!Shown(l, panel_Many) # {} /\ (\A s \in Panels!Shown(l, panel_Many) : Panels!SamePlan(s.plan, Panels!New.plan))
                 => panel_lease[l].streak >= panel_Many
            /\ Panels!New.plan.hi > panel_StandardTop => panel_lease[l].eligible \/ ~panel_lease[l].steady
            /\ /\ Panels!Shown(l, panel_Many) # {}
               /\ \A s \in Panels!Shown(l, panel_Many) : Panels!Today(s) /\ s.trigger = "other"
               /\ \A k \in DOMAIN panel_log : panel_log[k].at \div 2 = panel_now \div 2 => panel_log[k].role = "pm" /\ panel_log[k].trigger = "other"
               => panel_lease[l].unprompted
       /\ Panels!New.role = "rt" =>
            (Panels!Shown(l, 2) # {} /\ (\A b \in Panels!Shown(l, 2) : ~b.entry) /\ panel_lease[l].room => panel_lease[l].warned)
     ]_(Panels!vars)
  BY PanelsSteps, PanelsWarns
<1>4. PanelsIInv => Panels!PanelsAgree
  BY PanelsInvAgrees
<1> QED
  BY <1>1, <1>2, <1>3, <1>4, PTL DEF Spec, PanelsWarn, Panels!WarnedBefore

=============================================================================
