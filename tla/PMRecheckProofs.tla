--------------------------- MODULE PMRecheckProofs ---------------------------
(***************************************************************************)
(* A recheck is sent to the PM again only after its key was forgotten.     *)
(* What was sent is remembered somewhere: among the saved keys, in the     *)
(* scan that has not saved yet, or in the history of forgotten keys.       *)
(***************************************************************************)
EXTENDS PMRecheck, FiniteSetTheorems, TLAPS

InFlight(i) == scan.pc = "dispatched" /\ scan.ok /\ scan.due = i

Remembered ==
  \A i \in Item : sent[i] > 0 => i \in completed \/ i \in forgotten \/ InFlight(i)

LoadedIsNew ==
  /\ scan.pc # "idle" => scan.due \in Item
  /\ scan.pc = "loaded" => scan.due \notin completed
  /\ scan.pc # "dispatched" => ~scan.ok

IInv == TypeOK /\ IsFiniteSet(completed) /\ LoadedIsNew /\ Remembered /\ SentOnce

-----------------------------------------------------------------------------
\* The first due item of a strategy is an item.
LEMMA FirstDueIsItem == ASSUME TypeOK, FirstDue # NoItem PROVE FirstDue \in Item
<1>1. Due # {} /\ strategy \in 1 .. MaxRevision
  BY BoundsAssumption DEF FirstDue, Due, TypeOK, Key
<1>2. Due \subseteq 1 .. MaxLength /\ \A k \in Due : k \in Nat
  <2>1. schedule[strategy] = <<>> \/ schedule[strategy] \in Schedules
    BY <1>1 DEF TypeOK
  <2>2. DOMAIN schedule[strategy] \subseteq 1 .. MaxLength
    BY <2>1, ScheduleAssumption DEF MaxLength
  <2> QED
    BY <1>1, <2>2 DEF Due
<1>3. \E k \in Due : \A l \in Due : k <= l
  <2> HIDE DEF Due
  <2>1. \A l \in Due : l = 1 \/ l = 2
    BY <1>2 DEF MaxLength
  <2>2. CASE 1 \in Due
    BY <2>1, <2>2
  <2>3. CASE 1 \notin Due
    BY <1>1, <2>1, <2>3
  <2> QED
    BY <2>2, <2>3
<1> QED
  BY <1>1, <1>2, <1>3 DEF FirstDue, Item

\* Saving keeps the key of an item that was sent, and the list within its limit.
LEMMA KeysAfterKeeps ==
  ASSUME NEW keys \in SUBSET Item, IsFiniteSet(keys), Cardinality(keys) <= KeyLimit,
         NEW item \in Item, NEW ok \in BOOLEAN, NEW after \in KeysAfter(keys, item, ok)
  PROVE  /\ after \subseteq Item /\ IsFiniteSet(after) /\ Cardinality(after) <= KeyLimit
         /\ ok => item \in after
<1> DEFINE all == keys \cup {item}
<1>1. /\ IsFiniteSet(all) /\ Cardinality(all) \in Nat
      /\ Cardinality(all) <= Cardinality(keys) + 1
  <2>1. IsFiniteSet(all) /\ (\/ Cardinality(all) = Cardinality(keys)
                            \/ Cardinality(all) = Cardinality(keys) + 1)
    BY FS_AddElement
  <2>2. Cardinality(keys) \in Nat
    BY FS_CardinalityType
  <2> QED
    BY <2>1, <2>2
<1>2. CASE ~ok
  BY <1>2 DEF KeysAfter
<1>3. CASE ok /\ Cardinality(all) <= KeyLimit
  BY <1>1, <1>3 DEF KeysAfter
<1>4. CASE ok /\ ~(Cardinality(all) <= KeyLimit)
  <2>1. PICK k \in keys \ {item} : after = all \ {k}
    BY <1>4 DEF KeysAfter
  <2>2. IsFiniteSet(after) /\ Cardinality(after) = Cardinality(all) - 1
    BY <1>1, <2>1, FS_RemoveElement
  <2>3. Cardinality(after) <= KeyLimit
    BY <1>1, <2>2, LimitAssumption, FS_CardinalityType
  <2> QED
    BY <2>1, <2>2, <2>3
<1> QED
  BY <1>2, <1>3, <1>4

-----------------------------------------------------------------------------
LEMMA InitIInv == Init => IInv
<1> SUFFICES ASSUME Init PROVE IInv
  OBVIOUS
<1> USE DEF Init, IdleScan
<1>1. IsFiniteSet(completed) /\ Cardinality(completed) <= KeyLimit
  BY FS_EmptySet, LimitAssumption
<1>2. scan \in [pc : {"idle", "loaded", "dispatched"}, due : Item \cup {NoItem}, ok : BOOLEAN]
  OBVIOUS
<1>3. TypeOK
  BY <1>1, <1>2, BoundsAssumption DEF TypeOK, Key
<1>4. LoadedIsNew /\ Remembered /\ SentOnce
  BY DEF LoadedIsNew, Remembered, SentOnce
<1> QED
  BY <1>1, <1>3, <1>4 DEF IInv

LEMMA InductiveStep == IInv /\ [Next]_vars => IInv'
<1> SUFFICES ASSUME IInv, [Next]_vars PROVE IInv'
  OBVIOUS
<1> USE BoundsAssumption DEF IInv
<1>1. CASE ScanLoad
  <2>1. scan' = [scan EXCEPT !.pc = "loaded", !.due = FirstDue] /\ FirstDue \in Item
    BY <1>1, FirstDueIsItem DEF ScanLoad
  <2>2. /\ scan'.pc = "loaded" /\ scan'.due = FirstDue /\ scan'.ok = scan.ok
        /\ scan' \in [pc : {"idle", "loaded", "dispatched"}, due : Item \cup {NoItem}, ok : BOOLEAN]
    BY <2>1 DEF TypeOK
  <2>3. UNCHANGED <<completed, strategy, schedule, clock, aborts, sent, forgotten>>
    BY <1>1 DEF ScanLoad
  <2>4. TypeOK' /\ IsFiniteSet(completed')
    BY <2>2, <2>3 DEF TypeOK
  <2>5. LoadedIsNew'
    BY <1>1, <2>1, <2>2, <2>3 DEF ScanLoad, LoadedIsNew
  <2>6. Remembered' /\ SentOnce'
    BY <1>1, <2>2, <2>3 DEF ScanLoad, Remembered, SentOnce, InFlight
  <2> QED
    BY <2>4, <2>5, <2>6
<1>2. ASSUME NEW ok \in BOOLEAN, Dispatch(ok) PROVE IInv'
  <2>1. /\ scan.pc = "loaded" /\ scan.due \in Item /\ scan.due \notin completed
        /\ scan' = [scan EXCEPT !.pc = "dispatched", !.ok = ok]
        /\ UNCHANGED <<completed, strategy, schedule, clock, aborts, forgotten>>
    BY <1>2 DEF Dispatch, LoadedIsNew
  <2>2. /\ scan'.pc = "dispatched" /\ scan'.due = scan.due /\ scan'.ok = ok
        /\ scan' \in [pc : {"idle", "loaded", "dispatched"}, due : Item \cup {NoItem}, ok : BOOLEAN]
    BY <2>1 DEF TypeOK
  <2>3. /\ sent' \in [Item -> 0 .. 2]
        /\ \A i \in Item : i # scan.due => sent'[i] = sent[i]
        /\ ~ok => sent' = sent
        /\ sent'[scan.due] > 1 => sent[scan.due] > 0
    BY <1>2, <2>1 DEF Dispatch, TypeOK
  <2>4. sent[scan.due] > 0 => scan.due \in forgotten
    BY <2>1 DEF Remembered, InFlight
  <2>5. TypeOK' /\ IsFiniteSet(completed')
    BY <2>1, <2>2, <2>3 DEF TypeOK
  <2>6. LoadedIsNew'
    BY <2>1, <2>2 DEF LoadedIsNew
  <2>7. Remembered'
    BY <2>1, <2>2, <2>3 DEF Remembered, InFlight
  <2>8. SentOnce'
    BY <2>1, <2>3, <2>4 DEF SentOnce
  <2> QED
    BY <2>5, <2>6, <2>7, <2>8
<1>3. CASE ScanSave
  <2>1. /\ scan.due \in Item /\ scan.ok \in BOOLEAN /\ scan.pc = "dispatched"
        /\ completed' \in KeysAfter(completed, scan.due, scan.ok)
        /\ scan' = IdleScan
        /\ forgotten' = forgotten \cup (completed \ completed')
        /\ UNCHANGED <<strategy, schedule, clock, aborts, sent>>
    BY <1>3 DEF ScanSave, LoadedIsNew, TypeOK
  <2>2. /\ completed' \subseteq Item /\ IsFiniteSet(completed')
        /\ Cardinality(completed') <= KeyLimit
        /\ scan.ok => scan.due \in completed'
    <3>1. completed \in SUBSET Item /\ Cardinality(completed) <= KeyLimit
      BY DEF TypeOK
    <3> QED
      BY <2>1, <3>1, KeysAfterKeeps
  <2>3. TypeOK'
    BY <2>1, <2>2 DEF TypeOK, IdleScan
  <2>4. LoadedIsNew'
    BY <2>1 DEF LoadedIsNew, IdleScan
  <2>5. Remembered' /\ SentOnce'
    BY <2>1, <2>2 DEF Remembered, SentOnce, InFlight
  <2> QED
    BY <2>2, <2>3, <2>4, <2>5
<1>4. CASE ScanAbort
  <2>1. /\ scan' = IdleScan
        /\ forgotten' = IF scan.ok THEN forgotten \cup {scan.due} ELSE forgotten
        /\ scan.due \in Item
        /\ UNCHANGED <<completed, strategy, schedule, clock, sent>>
    BY <1>4 DEF ScanAbort, LoadedIsNew
  <2>2. aborts' \in 0 .. MaxAborts
    BY <1>4 DEF ScanAbort, TypeOK
  <2>3. TypeOK' /\ IsFiniteSet(completed')
    BY <2>1, <2>2 DEF TypeOK, IdleScan
  <2>4. LoadedIsNew'
    BY <2>1 DEF LoadedIsNew, IdleScan
  <2>5. Remembered' /\ SentOnce'
    BY <2>1 DEF Remembered, SentOnce, InFlight
  <2> QED
    BY <2>3, <2>4, <2>5
<1>5. ASSUME UNCHANGED <<completed, scan, sent, forgotten>>, TypeOK' PROVE IInv'
  BY <1>5 DEF LoadedIsNew, Remembered, SentOnce, InFlight
<1>6. ASSUME NEW list \in Schedules, Publish(list) PROVE IInv'
  <2>1. strategy' \in Key
    BY <1>6 DEF Publish, TypeOK, Key
  <2>2. schedule' \in [1 .. MaxRevision -> Schedules \cup {<<>>}]
    BY <1>6 DEF Publish, TypeOK
  <2>3. TypeOK'
    BY <1>6, <2>1, <2>2 DEF Publish, TypeOK
  <2> QED
    BY <1>5, <1>6, <2>3 DEF Publish
<1>7. CASE Tick
  <2>1. TypeOK'
    BY <1>7 DEF Tick, TypeOK
  <2> QED
    BY <1>5, <1>7, <2>1 DEF Tick
<1>8. CASE UNCHANGED vars
  BY <1>5, <1>8 DEF vars, TypeOK
<1> QED
  BY <1>1, <1>2, <1>3, <1>4, <1>6, <1>7, <1>8 DEF Next

\* Whatever strategies schedule and wherever scans are cut off, the PM is sent a
\* recheck a second time only after its key was forgotten
\* (_dispatch_due_recheck).
THEOREM SentOnceHolds == Spec => []SentOnce
<1>1. IInv => SentOnce
  BY DEF IInv
<1> QED
  BY <1>1, InitIInv, InductiveStep, PTL DEF Spec

\* Every variable keeps its type, and the list of keys its limit (scan_once).
THEOREM TypeCorrect == Spec => []TypeOK
<1>1. IInv => TypeOK
  BY DEF IInv
<1> QED
  BY <1>1, InitIInv, InductiveStep, PTL DEF Spec
=============================================================================
