----------------------------- MODULE DataProofs -----------------------------
(***************************************************************************)
(* Proofs about the components of Data, for every value of their           *)
(* constants: one section per component, with its inductive invariant, and *)
(* the theorems at the end.                                                *)
(***************************************************************************)
EXTENDS Data, FiniteSetTheorems, SequenceTheorems, WellFoundedInduction, TLAPS

-----------------------------------------------------------------------------
\* A set of numbers that is not empty has a least one.
LEMMA Least ==
  ASSUME NEW T \in SUBSET Nat, T # {} PROVE \E x \in T : \A y \in T : x <= y
<1> DEFINE Below == {ss \in Nat \X Nat : ss[1] < ss[2]}
<1>1. IsWellFoundedOn(Below, Nat)
  BY NatLessThanWellFounded, Zenon DEF OpToRel
<1>2. PICK x \in T : \A y \in T : ~ (<<y, x>> \in Below)
  <2> HIDE DEF Below
  <2> QED
    BY <1>1, WFMin
<1>3. ASSUME NEW y \in T PROVE x <= y
  <2>1. x \in Nat /\ y \in Nat
    OBVIOUS
  <2>2. y < x => <<y, x>> \in Below
    BY <2>1
  <2>3. ~ (<<y, x>> \in Below)
    BY <1>2
  <2> QED
    BY <2>1, <2>2, <2>3
<1> QED
  BY <1>3

-----------------------------------------------------------------------------
\* CandleCache.

CandlesStore == [Candles!Bars -> Candles!Held]
CandlesFetch ==
  [pc : {"idle", "load", "forward", "back", "fill", "save", "saving", "done"}, end : Int, look : Nat,
   have : CandlesStore, forward : Int, before : Int, left : Int, spans : SUBSET Candles!Bars, loaded : CandlesStore, got : CandlesStore]

CandlesTyped ==
  /\ candle_now \in Candles!Bars /\ candle_traded \in SUBSET Candles!Bars /\ candle_saved \in CandlesStore
  /\ candle_caller \in [Callers -> CandlesFetch]

\* What a fetch owes its caller: the window's bars, of those traded that came after all it loaded.
CandlesWanted(p) == {b \in Candles!Bars : p.end - 2 * p.look <= Candles!Start(b) /\ Candles!Start(b) <= p.end}
CandlesOwed(p) ==
  IF Candles!BarsOf(p.loaded) # {} THEN {b \in CandlesWanted(p) \cap candle_traded : \A d \in Candles!BarsOf(p.loaded) : d < b}
  ELSE IF CandlesWanted(p) \subseteq candle_traded THEN CandlesWanted(p) ELSE {}
CandlesCovers(p, held) == \A b \in CandlesOwed(p) : held[b] # "no"

\* The pages forward reached bar k without a gap.
CandlesForwards(p) ==
  IF Candles!BarsOf(p.loaded) # {}
  THEN \E k \in Nat : p.forward = 2 * k /\ \A b \in CandlesOwed(p) : b < k => p.have[b] # "no"
  ELSE p.forward = p.end /\ p.before = p.end /\ p.left = p.look

\* The pages backward have the window from bar m on, and as many bars are left before it.
CandlesReached(p, n, m) ==
  /\ m <= n + 1
  /\ \/ p.before = 2 * m /\ m <= n
     \/ p.before = p.end /\ m = n + 1
  /\ (m = 0 \/ m - p.left = n - p.look + 1)
  /\ \A b \in CandlesWanted(p) : m <= b => p.have[b] # "no"
CandlesBackwards(p, n) ==
  IF Candles!BarsOf(p.loaded) # {} THEN ~Candles!Outage => CandlesCovers(p, p.have)
  ELSE CandlesWanted(p) \subseteq candle_traded => \E m \in Nat : CandlesReached(p, n, m)

\* A fetch that began at bar n.
CandlesGoes(p, n) ==
  /\ p.end = 2 * n + 1 /\ p.pc # "fill"
  /\ p.pc = "forward" => CandlesForwards(p)
  /\ p.pc = "back" => CandlesBackwards(p, n)
  /\ p.pc \in {"save", "saving"} => (~Candles!Outage => CandlesCovers(p, p.have))
  /\ p.pc = "done" => (~Candles!Outage => CandlesCovers(p, p.got))

CandlesGoing(p) == p.look > 0 => \E n \in Nat : n <= candle_now /\ CandlesGoes(p, n)

CandlesIInv == CandlesTyped /\ \A c \in Callers : CandlesGoing(candle_caller[c])

-----------------------------------------------------------------------------
LEMMA CandlesBarsAre == \A b \in Candles!Bars : b \in Nat /\ b <= candle_MaxNow
BY CandlesAssumption DEF Candles!Bars

LEMMA CandlesHeldIs == Candles!Nothing \in CandlesStore /\ Candles!Idle \in CandlesFetch /\ Candles!Idle.look = 0 /\ Candles!BarsOf(Candles!Nothing) = {}
<1>1. Candles!Nothing \in CandlesStore /\ Candles!BarsOf(Candles!Nothing) = {}
  BY DEF Candles!Nothing, CandlesStore, Candles!Held, Candles!BarsOf
<1> QED
  BY <1>1 DEF Candles!Idle, CandlesFetch

\* A fetch begins.
CandlesBegun(e, n, h, k, b, l) == [Candles!Idle EXCEPT !.pc = "forward", !.end = e, !.look = n, !.have = h, !.loaded = h, !.forward = k, !.before = b, !.left = l]
LEMMA CandlesFetchBegins ==
  ASSUME NEW e \in Int, NEW n \in Nat, NEW h \in CandlesStore, NEW k \in Int, NEW b \in Int, NEW l \in Int, NEW q, q = CandlesBegun(e, n, h, k, b, l)
  PROVE  /\ q \in CandlesFetch /\ q.pc = "forward" /\ q.end = e /\ q.look = n /\ q.have = h
         /\ q.forward = k /\ q.before = b /\ q.left = l /\ q.spans = Candles!Idle.spans /\ q.loaded = h /\ q.got = Candles!Idle.got
<1>1. [Candles!Idle EXCEPT !.pc = "forward", !.end = e, !.look = n, !.have = h, !.loaded = h, !.forward = k, !.before = b, !.left = l]
      = [[[[[[[[Candles!Idle EXCEPT !.pc = "forward"] EXCEPT !.end = e] EXCEPT !.look = n] EXCEPT !.have = h] EXCEPT !.loaded = h] EXCEPT !.forward = k] EXCEPT !.before = b] EXCEPT !.left = l]
  OBVIOUS
<1>2. PICK r1 : r1 = [Candles!Idle EXCEPT !.pc = "forward"]
  OBVIOUS
<1>3. /\ r1 \in CandlesFetch /\ r1.pc = "forward" /\ r1.end = Candles!Idle.end /\ r1.look = Candles!Idle.look /\ r1.have = Candles!Idle.have
      /\ r1.forward = Candles!Idle.forward /\ r1.before = Candles!Idle.before /\ r1.left = Candles!Idle.left /\ r1.spans = Candles!Idle.spans /\ r1.loaded = Candles!Idle.loaded /\ r1.got = Candles!Idle.got
  BY <1>2, CandlesHeldIs DEF CandlesFetch
<1>4. PICK r2 : r2 = [r1 EXCEPT !.end = e]
  OBVIOUS
<1>5. /\ r2 \in CandlesFetch /\ r2.pc = "forward" /\ r2.end = e /\ r2.look = Candles!Idle.look /\ r2.have = Candles!Idle.have
      /\ r2.forward = Candles!Idle.forward /\ r2.before = Candles!Idle.before /\ r2.left = Candles!Idle.left /\ r2.spans = Candles!Idle.spans /\ r2.loaded = Candles!Idle.loaded /\ r2.got = Candles!Idle.got
  BY <1>4, <1>3 DEF CandlesFetch
<1>6. PICK r3 : r3 = [r2 EXCEPT !.look = n]
  OBVIOUS
<1>7. /\ r3 \in CandlesFetch /\ r3.pc = "forward" /\ r3.end = e /\ r3.look = n /\ r3.have = Candles!Idle.have
      /\ r3.forward = Candles!Idle.forward /\ r3.before = Candles!Idle.before /\ r3.left = Candles!Idle.left /\ r3.spans = Candles!Idle.spans /\ r3.loaded = Candles!Idle.loaded /\ r3.got = Candles!Idle.got
  BY <1>6, <1>5 DEF CandlesFetch
<1>8. PICK r4 : r4 = [r3 EXCEPT !.have = h]
  OBVIOUS
<1>9. /\ r4 \in CandlesFetch /\ r4.pc = "forward" /\ r4.end = e /\ r4.look = n /\ r4.have = h
      /\ r4.forward = Candles!Idle.forward /\ r4.before = Candles!Idle.before /\ r4.left = Candles!Idle.left /\ r4.spans = Candles!Idle.spans /\ r4.loaded = Candles!Idle.loaded /\ r4.got = Candles!Idle.got
  BY <1>8, <1>7 DEF CandlesFetch
<1>10. PICK r5 : r5 = [r4 EXCEPT !.loaded = h]
  OBVIOUS
<1>11. /\ r5 \in CandlesFetch /\ r5.pc = "forward" /\ r5.end = e /\ r5.look = n /\ r5.have = h
      /\ r5.forward = Candles!Idle.forward /\ r5.before = Candles!Idle.before /\ r5.left = Candles!Idle.left /\ r5.spans = Candles!Idle.spans /\ r5.loaded = h /\ r5.got = Candles!Idle.got
  BY <1>10, <1>9 DEF CandlesFetch
<1>12. PICK r6 : r6 = [r5 EXCEPT !.forward = k]
  OBVIOUS
<1>13. /\ r6 \in CandlesFetch /\ r6.pc = "forward" /\ r6.end = e /\ r6.look = n /\ r6.have = h
      /\ r6.forward = k /\ r6.before = Candles!Idle.before /\ r6.left = Candles!Idle.left /\ r6.spans = Candles!Idle.spans /\ r6.loaded = h /\ r6.got = Candles!Idle.got
  BY <1>12, <1>11 DEF CandlesFetch
<1>14. PICK r7 : r7 = [r6 EXCEPT !.before = b]
  OBVIOUS
<1>15. /\ r7 \in CandlesFetch /\ r7.pc = "forward" /\ r7.end = e /\ r7.look = n /\ r7.have = h
      /\ r7.forward = k /\ r7.before = b /\ r7.left = Candles!Idle.left /\ r7.spans = Candles!Idle.spans /\ r7.loaded = h /\ r7.got = Candles!Idle.got
  BY <1>14, <1>13 DEF CandlesFetch
<1>16. PICK r8 : r8 = [r7 EXCEPT !.left = l]
  OBVIOUS
<1>17. /\ r8 \in CandlesFetch /\ r8.pc = "forward" /\ r8.end = e /\ r8.look = n /\ r8.have = h
      /\ r8.forward = k /\ r8.before = b /\ r8.left = l /\ r8.spans = Candles!Idle.spans /\ r8.loaded = h /\ r8.got = Candles!Idle.got
  BY <1>16, <1>15 DEF CandlesFetch
<1> QED
  BY <1>1, <1>2, <1>4, <1>6, <1>8, <1>10, <1>12, <1>14, <1>16, <1>17 DEF CandlesBegun

\* The script begins.
CandlesFillBegun(h, s) == [Candles!Idle EXCEPT !.pc = "fill", !.have = h, !.loaded = h, !.spans = s]
LEMMA CandlesFillBegins ==
  ASSUME NEW h \in CandlesStore, NEW s \in SUBSET Candles!Bars, NEW q, q = CandlesFillBegun(h, s)
  PROVE  /\ q \in CandlesFetch /\ q.pc = "fill" /\ q.end = Candles!Idle.end /\ q.look = Candles!Idle.look /\ q.have = h
         /\ q.forward = Candles!Idle.forward /\ q.before = Candles!Idle.before /\ q.left = Candles!Idle.left /\ q.spans = s /\ q.loaded = h /\ q.got = Candles!Idle.got
<1>1. [Candles!Idle EXCEPT !.pc = "fill", !.have = h, !.loaded = h, !.spans = s]
      = [[[[Candles!Idle EXCEPT !.pc = "fill"] EXCEPT !.have = h] EXCEPT !.loaded = h] EXCEPT !.spans = s]
  OBVIOUS
<1>2. PICK r1 : r1 = [Candles!Idle EXCEPT !.pc = "fill"]
  OBVIOUS
<1>3. /\ r1 \in CandlesFetch /\ r1.pc = "fill" /\ r1.end = Candles!Idle.end /\ r1.look = Candles!Idle.look /\ r1.have = Candles!Idle.have
      /\ r1.forward = Candles!Idle.forward /\ r1.before = Candles!Idle.before /\ r1.left = Candles!Idle.left /\ r1.spans = Candles!Idle.spans /\ r1.loaded = Candles!Idle.loaded /\ r1.got = Candles!Idle.got
  BY <1>2, CandlesHeldIs DEF CandlesFetch
<1>4. PICK r2 : r2 = [r1 EXCEPT !.have = h]
  OBVIOUS
<1>5. /\ r2 \in CandlesFetch /\ r2.pc = "fill" /\ r2.end = Candles!Idle.end /\ r2.look = Candles!Idle.look /\ r2.have = h
      /\ r2.forward = Candles!Idle.forward /\ r2.before = Candles!Idle.before /\ r2.left = Candles!Idle.left /\ r2.spans = Candles!Idle.spans /\ r2.loaded = Candles!Idle.loaded /\ r2.got = Candles!Idle.got
  BY <1>4, <1>3 DEF CandlesFetch
<1>6. PICK r3 : r3 = [r2 EXCEPT !.loaded = h]
  OBVIOUS
<1>7. /\ r3 \in CandlesFetch /\ r3.pc = "fill" /\ r3.end = Candles!Idle.end /\ r3.look = Candles!Idle.look /\ r3.have = h
      /\ r3.forward = Candles!Idle.forward /\ r3.before = Candles!Idle.before /\ r3.left = Candles!Idle.left /\ r3.spans = Candles!Idle.spans /\ r3.loaded = h /\ r3.got = Candles!Idle.got
  BY <1>6, <1>5 DEF CandlesFetch
<1>8. PICK r4 : r4 = [r3 EXCEPT !.spans = s]
  OBVIOUS
<1>9. /\ r4 \in CandlesFetch /\ r4.pc = "fill" /\ r4.end = Candles!Idle.end /\ r4.look = Candles!Idle.look /\ r4.have = h
      /\ r4.forward = Candles!Idle.forward /\ r4.before = Candles!Idle.before /\ r4.left = Candles!Idle.left /\ r4.spans = s /\ r4.loaded = h /\ r4.got = Candles!Idle.got
  BY <1>8, <1>7 DEF CandlesFetch
<1> QED
  BY <1>1, <1>2, <1>4, <1>6, <1>8, <1>9 DEF CandlesFillBegun

\* A page forward.
CandlesPagedForward(p, h, k) == [p EXCEPT !.have = h, !.forward = k]
LEMMA CandlesPageForward ==
  ASSUME NEW p \in CandlesFetch, NEW h \in CandlesStore, NEW k \in Int, NEW q, q = CandlesPagedForward(p, h, k)
  PROVE  /\ q \in CandlesFetch /\ q.pc = p.pc /\ q.end = p.end /\ q.look = p.look /\ q.have = h
         /\ q.forward = k /\ q.before = p.before /\ q.left = p.left /\ q.spans = p.spans /\ q.loaded = p.loaded /\ q.got = p.got
<1>1. [p EXCEPT !.have = h, !.forward = k]
      = [[p EXCEPT !.have = h] EXCEPT !.forward = k]
  OBVIOUS
<1>2. PICK r1 : r1 = [p EXCEPT !.have = h]
  OBVIOUS
<1>3. /\ r1 \in CandlesFetch /\ r1.pc = p.pc /\ r1.end = p.end /\ r1.look = p.look /\ r1.have = h
      /\ r1.forward = p.forward /\ r1.before = p.before /\ r1.left = p.left /\ r1.spans = p.spans /\ r1.loaded = p.loaded /\ r1.got = p.got
  BY <1>2 DEF CandlesFetch
<1>4. PICK r2 : r2 = [r1 EXCEPT !.forward = k]
  OBVIOUS
<1>5. /\ r2 \in CandlesFetch /\ r2.pc = p.pc /\ r2.end = p.end /\ r2.look = p.look /\ r2.have = h
      /\ r2.forward = k /\ r2.before = p.before /\ r2.left = p.left /\ r2.spans = p.spans /\ r2.loaded = p.loaded /\ r2.got = p.got
  BY <1>4, <1>3 DEF CandlesFetch
<1> QED
  BY <1>1, <1>2, <1>4, <1>5 DEF CandlesPagedForward

\* A page backward.
CandlesPagedBack(p, h, l, b, pc) == [p EXCEPT !.have = h, !.left = l, !.before = b, !.pc = pc]
LEMMA CandlesPageBack ==
  ASSUME NEW p \in CandlesFetch, NEW h \in CandlesStore, NEW l \in Int, NEW b \in Int, NEW pc \in {"save", "back"}, NEW q, q = CandlesPagedBack(p, h, l, b, pc)
  PROVE  /\ q \in CandlesFetch /\ q.pc = pc /\ q.end = p.end /\ q.look = p.look /\ q.have = h
         /\ q.forward = p.forward /\ q.before = b /\ q.left = l /\ q.spans = p.spans /\ q.loaded = p.loaded /\ q.got = p.got
<1>1. [p EXCEPT !.have = h, !.left = l, !.before = b, !.pc = pc]
      = [[[[p EXCEPT !.have = h] EXCEPT !.left = l] EXCEPT !.before = b] EXCEPT !.pc = pc]
  OBVIOUS
<1>2. PICK r1 : r1 = [p EXCEPT !.have = h]
  OBVIOUS
<1>3. /\ r1 \in CandlesFetch /\ r1.pc = p.pc /\ r1.end = p.end /\ r1.look = p.look /\ r1.have = h
      /\ r1.forward = p.forward /\ r1.before = p.before /\ r1.left = p.left /\ r1.spans = p.spans /\ r1.loaded = p.loaded /\ r1.got = p.got
  BY <1>2 DEF CandlesFetch
<1>4. PICK r2 : r2 = [r1 EXCEPT !.left = l]
  OBVIOUS
<1>5. /\ r2 \in CandlesFetch /\ r2.pc = p.pc /\ r2.end = p.end /\ r2.look = p.look /\ r2.have = h
      /\ r2.forward = p.forward /\ r2.before = p.before /\ r2.left = l /\ r2.spans = p.spans /\ r2.loaded = p.loaded /\ r2.got = p.got
  BY <1>4, <1>3 DEF CandlesFetch
<1>6. PICK r3 : r3 = [r2 EXCEPT !.before = b]
  OBVIOUS
<1>7. /\ r3 \in CandlesFetch /\ r3.pc = p.pc /\ r3.end = p.end /\ r3.look = p.look /\ r3.have = h
      /\ r3.forward = p.forward /\ r3.before = b /\ r3.left = l /\ r3.spans = p.spans /\ r3.loaded = p.loaded /\ r3.got = p.got
  BY <1>6, <1>5 DEF CandlesFetch
<1>8. PICK r4 : r4 = [r3 EXCEPT !.pc = pc]
  OBVIOUS
<1>9. /\ r4 \in CandlesFetch /\ r4.pc = pc /\ r4.end = p.end /\ r4.look = p.look /\ r4.have = h
      /\ r4.forward = p.forward /\ r4.before = b /\ r4.left = l /\ r4.spans = p.spans /\ r4.loaded = p.loaded /\ r4.got = p.got
  BY <1>8, <1>7 DEF CandlesFetch
<1> QED
  BY <1>1, <1>2, <1>4, <1>6, <1>8, <1>9 DEF CandlesPagedBack

\* A page of the script.
CandlesPageKept(p, h, s) == [p EXCEPT !.have = h, !.spans = s]
LEMMA CandlesPageFilled ==
  ASSUME NEW p \in CandlesFetch, NEW h \in CandlesStore, NEW s \in SUBSET Candles!Bars, NEW q, q = CandlesPageKept(p, h, s)
  PROVE  /\ q \in CandlesFetch /\ q.pc = p.pc /\ q.end = p.end /\ q.look = p.look /\ q.have = h
         /\ q.forward = p.forward /\ q.before = p.before /\ q.left = p.left /\ q.spans = s /\ q.loaded = p.loaded /\ q.got = p.got
<1>1. [p EXCEPT !.have = h, !.spans = s]
      = [[p EXCEPT !.have = h] EXCEPT !.spans = s]
  OBVIOUS
<1>2. PICK r1 : r1 = [p EXCEPT !.have = h]
  OBVIOUS
<1>3. /\ r1 \in CandlesFetch /\ r1.pc = p.pc /\ r1.end = p.end /\ r1.look = p.look /\ r1.have = h
      /\ r1.forward = p.forward /\ r1.before = p.before /\ r1.left = p.left /\ r1.spans = p.spans /\ r1.loaded = p.loaded /\ r1.got = p.got
  BY <1>2 DEF CandlesFetch
<1>4. PICK r2 : r2 = [r1 EXCEPT !.spans = s]
  OBVIOUS
<1>5. /\ r2 \in CandlesFetch /\ r2.pc = p.pc /\ r2.end = p.end /\ r2.look = p.look /\ r2.have = h
      /\ r2.forward = p.forward /\ r2.before = p.before /\ r2.left = p.left /\ r2.spans = s /\ r2.loaded = p.loaded /\ r2.got = p.got
  BY <1>4, <1>3 DEF CandlesFetch
<1> QED
  BY <1>1, <1>2, <1>4, <1>5 DEF CandlesPageKept

\* The next phase.
CandlesGone(p, pc) == [p EXCEPT !.pc = pc]
LEMMA CandlesFetchGoes ==
  ASSUME NEW p \in CandlesFetch, NEW pc \in {"back", "save", "saving"}, NEW q, q = CandlesGone(p, pc)
  PROVE  /\ q \in CandlesFetch /\ q.pc = pc /\ q.end = p.end /\ q.look = p.look /\ q.have = p.have
         /\ q.forward = p.forward /\ q.before = p.before /\ q.left = p.left /\ q.spans = p.spans /\ q.loaded = p.loaded /\ q.got = p.got
<1>2. PICK r1 : r1 = [p EXCEPT !.pc = pc]
  OBVIOUS
<1>3. /\ r1 \in CandlesFetch /\ r1.pc = pc /\ r1.end = p.end /\ r1.look = p.look /\ r1.have = p.have
      /\ r1.forward = p.forward /\ r1.before = p.before /\ r1.left = p.left /\ r1.spans = p.spans /\ r1.loaded = p.loaded /\ r1.got = p.got
  BY <1>2 DEF CandlesFetch
<1> QED
  BY <1>2, <1>3 DEF CandlesGone

\* A fetch is over.
CandlesEnded(p, g) == [p EXCEPT !.pc = "done", !.got = g]
LEMMA CandlesFetchEnds ==
  ASSUME NEW p \in CandlesFetch, NEW g \in CandlesStore, NEW q, q = CandlesEnded(p, g)
  PROVE  /\ q \in CandlesFetch /\ q.pc = "done" /\ q.end = p.end /\ q.look = p.look /\ q.have = p.have
         /\ q.forward = p.forward /\ q.before = p.before /\ q.left = p.left /\ q.spans = p.spans /\ q.loaded = p.loaded /\ q.got = g
<1>1. [p EXCEPT !.pc = "done", !.got = g]
      = [[p EXCEPT !.pc = "done"] EXCEPT !.got = g]
  OBVIOUS
<1>2. PICK r1 : r1 = [p EXCEPT !.pc = "done"]
  OBVIOUS
<1>3. /\ r1 \in CandlesFetch /\ r1.pc = "done" /\ r1.end = p.end /\ r1.look = p.look /\ r1.have = p.have
      /\ r1.forward = p.forward /\ r1.before = p.before /\ r1.left = p.left /\ r1.spans = p.spans /\ r1.loaded = p.loaded /\ r1.got = p.got
  BY <1>2 DEF CandlesFetch
<1>4. PICK r2 : r2 = [r1 EXCEPT !.got = g]
  OBVIOUS
<1>5. /\ r2 \in CandlesFetch /\ r2.pc = "done" /\ r2.end = p.end /\ r2.look = p.look /\ r2.have = p.have
      /\ r2.forward = p.forward /\ r2.before = p.before /\ r2.left = p.left /\ r2.spans = p.spans /\ r2.loaded = p.loaded /\ r2.got = g
  BY <1>4, <1>3 DEF CandlesFetch
<1> QED
  BY <1>1, <1>2, <1>4, <1>5 DEF CandlesEnded

\* Bars that are not none have a first and a last.
LEMMA CandlesExtremes ==
  ASSUME NEW T \in SUBSET Candles!Bars, T # {}
  PROVE  /\ Candles!Min(T) \in T /\ \A x \in T : Candles!Min(T) <= x
         /\ Candles!Max(T) \in T /\ \A x \in T : x <= Candles!Max(T)
<1>1. \E m \in T : \A x \in T : m <= x
  BY Least, CandlesBarsAre
<1>2. \E m \in T : \A x \in T : x <= m
  <2> DEFINE below == {candle_MaxNow - x : x \in T}
  <2>1. below \in SUBSET Nat /\ below # {}
    <3>1. ASSUME NEW x \in T PROVE candle_MaxNow - x \in Nat
      <4>1. x \in Nat /\ x <= candle_MaxNow /\ candle_MaxNow \in Nat
        BY CandlesBarsAre, CandlesAssumption
      <4> QED
        BY <4>1
    <3> QED
      BY <3>1
  <2>2. PICK y \in below : \A z \in below : y <= z
    BY <2>1, Least
  <2>3. PICK m \in T : y = candle_MaxNow - m
    BY <2>2
  <2>4. ASSUME NEW x \in T PROVE x <= m
    <3>1. candle_MaxNow - m <= candle_MaxNow - x
      BY <2>2, <2>3
    <3>2. m \in Nat /\ x \in Nat /\ candle_MaxNow \in Nat
      BY CandlesBarsAre, CandlesAssumption
    <3> QED
      BY <3>1, <3>2
  <2> QED
    BY <2>4
<1> QED
  BY <1>1, <1>2 DEF Candles!Min, Candles!Max

\* What a batch brings is held, and what was held stays so.
LEMMA CandlesWithIs ==
  ASSUME NEW h \in CandlesStore, NEW batch
  PROVE  Candles!With(h, batch) \in CandlesStore /\ \A b \in Candles!Bars : Candles!With(h, batch)[b] # "no" <=> b \in batch \/ h[b] # "no"
BY DEF Candles!With, CandlesStore, Candles!Held

\* A reply that is not trimmed.
LEMMA CandlesReplyIs ==
  ASSUME NEW from, NEW to, NEW limit
  PROVE  /\ Candles!Reply(from, to, limit) \subseteq candle_traded
         /\ ~candle_Trims => Candles!Reply(from, to, limit) = {b \in candle_traded : b <= candle_now /\ from <= Candles!Start(b) /\ Candles!Start(b) <= to}
BY DEF Candles!Reply

\* An outage stays one.
LEMMA CandlesOutageStays == ASSUME CandlesTyped, candle_now' = candle_now \/ candle_now' = candle_now + 1, UNCHANGED candle_traded PROVE Candles!Outage => Candles!Outage'
<1>1. candle_now \in Nat /\ candle_Limit \in Nat
  BY CandlesBarsAre, CandlesAssumption DEF CandlesTyped
<1>2. \A b \in 0 .. candle_now - candle_Limit : b \in 0 .. candle_now' - candle_Limit
  BY <1>1
<1> QED
  BY <1>2 DEF Candles!Outage

LEMMA CandlesGoingStays ==
  ASSUME CandlesTyped, NEW p \in CandlesFetch, CandlesGoing(p), candle_now' = candle_now \/ candle_now' = candle_now + 1, UNCHANGED candle_traded PROVE CandlesGoing(p)'
<1> SUFFICES ASSUME p.look > 0 PROVE \E n \in Nat : n <= candle_now' /\ CandlesGoes(p, n)'
  BY DEF CandlesGoing
<1>1. PICK n \in Nat : n <= candle_now /\ CandlesGoes(p, n)
  BY DEF CandlesGoing
<1>2. n <= candle_now'
  BY <1>1, CandlesBarsAre DEF CandlesTyped
<1>3. CandlesOwed(p)' = CandlesOwed(p)
  BY DEF CandlesOwed, CandlesWanted
<1>4. CandlesGoes(p, n)'
  BY <1>1, <1>3, CandlesOutageStays DEF CandlesGoes, CandlesForwards, CandlesBackwards,
      CandlesReached, CandlesCovers, CandlesWanted
<1> QED
  BY <1>2, <1>4

LEMMA CandlesInitInv == ASSUME Candles!Init PROVE CandlesIInv
<1>1. CandlesTyped
  BY CandlesHeldIs, CandlesAssumption DEF Candles!Init, CandlesTyped, Candles!Bars
<1>2. \A c \in Callers : CandlesGoing(candle_caller[c])
  BY CandlesHeldIs DEF Candles!Init, CandlesGoing
<1> QED
  BY <1>1, <1>2 DEF CandlesIInv

LEMMA CandlesNextBarInv == ASSUME CandlesIInv, Candles!NextBar PROVE CandlesIInv'
<1>1. candle_now' = candle_now + 1 /\ candle_now' \in Candles!Bars /\ UNCHANGED <<candle_traded,
                                                                                  candle_saved,
                                                                                  candle_caller>>
  BY CandlesBarsAre, CandlesAssumption DEF CandlesIInv, CandlesTyped, Candles!NextBar,
      Candles!Bars
<1>2. \A c \in Callers : CandlesGoing(candle_caller[c])'
  BY <1>1, CandlesGoingStays DEF CandlesIInv, CandlesTyped
<1> QED
  BY <1>1, <1>2 DEF CandlesIInv, CandlesTyped, CandlesGoing

\* One caller goes on.
LEMMA CandlesOneCaller ==
  ASSUME CandlesIInv, NEW c \in Callers, NEW p \in CandlesFetch, Candles!Set(c, p), CandlesGoing(p), UNCHANGED <<candle_now,
                                                                                                                 candle_traded>>,
                                                                                                                 candle_saved' \in CandlesStore
  PROVE  CandlesIInv'
<1>1. candle_caller' = [candle_caller EXCEPT ![c] = p]
  BY DEF Candles!Set
<1>2. CandlesTyped'
  BY <1>1 DEF CandlesIInv, CandlesTyped
<1>3. ASSUME NEW d \in Callers PROVE CandlesGoing(candle_caller[d])'
  <2> PICK q : q = candle_caller'[d]
    OBVIOUS
  <2>1. q \in CandlesFetch /\ CandlesGoing(q)
    BY <1>1 DEF CandlesIInv, CandlesTyped
  <2>2. CandlesGoing(q)'
    BY <2>1, CandlesGoingStays DEF CandlesIInv
  <2> QED
    BY <2>2
<1> QED
  BY <1>2, <1>3 DEF CandlesIInv

-----------------------------------------------------------------------------
\* A fetch begins.
LEMMA CandlesLoadInv == ASSUME CandlesIInv, NEW c \in Callers, NEW look \in candle_Lookbacks, Candles!Load(c, look) PROVE CandlesIInv'
<1> PICK h : h = IF candle_file = "whole" THEN candle_saved ELSE Candles!Nothing
  OBVIOUS
<1> PICK end : end = Candles!Start(candle_now) + 1
  OBVIOUS
<1> DEFINE required == end - 2 * look
           empty == Candles!BarsOf(h) = {}
           missing == IF empty THEN 2 * look ELSE IF Candles!Oldest(h) > required THEN Candles!Oldest(h) - required ELSE 0
<1> PICK forward : forward = IF empty THEN end ELSE Candles!Newest(h) + 2
  OBVIOUS
<1> PICK before : before = IF empty THEN end ELSE IF Candles!Oldest(h) < required THEN Candles!Oldest(h) ELSE required
  OBVIOUS
<1> PICK left : left = (missing + 1) \div 2
  OBVIOUS
<1>1. h \in CandlesStore /\ candle_now \in Nat /\ look \in Nat /\ end = 2 * candle_now + 1 /\ UNCHANGED <<candle_now,
                                                                                                          candle_traded,
                                                                                                          candle_saved>>
  BY CandlesBarsAre, CandlesHeldIs, CandlesAssumption DEF CandlesIInv, CandlesTyped,
      Candles!Load, Candles!Start
<1>2. ~empty => /\ Candles!Max(Candles!BarsOf(h)) \in Nat /\ Candles!Min(Candles!BarsOf(h)) \in Nat /\ \A b \in Candles!BarsOf(h) : b <= Candles!Max(Candles!BarsOf(h))
                /\ Candles!Max(Candles!BarsOf(h)) \in Candles!BarsOf(h) /\ Candles!Oldest(h) = 2 * Candles!Min(Candles!BarsOf(h)) /\ Candles!Newest(h) = 2 * Candles!Max(Candles!BarsOf(h))
  <2>1. Candles!BarsOf(h) \in SUBSET Candles!Bars
    BY DEF Candles!BarsOf
  <2> QED
    BY <2>1, CandlesExtremes, CandlesBarsAre DEF Candles!Oldest, Candles!Newest, Candles!Start
<1>3. forward \in Int /\ before \in Int
  BY <1>1, <1>2
<1>4. left \in Int /\ (empty => left = look)
  <2>1. missing \in Int
    BY <1>1, <1>2
  <2>2. CASE empty
    <3>1. left = (2 * look + 1) \div 2
      BY <2>2
    <3> QED
      BY <1>1, <3>1
  <2>3. CASE ~empty
    <3> HIDE DEF missing
    <3>1. (missing + 1) \div 2 \in Int
      BY <2>1
    <3> QED
      BY <2>3, <3>1
  <2> QED
    BY <2>2, <2>3
<1> PICK p : p = CandlesBegun(end, look, h, forward, before, left)
  OBVIOUS
<1>5. Candles!Set(c, p)
  BY DEF Candles!Load, CandlesBegun
<1>6. /\ p \in CandlesFetch /\ p.pc = "forward" /\ p.end = end /\ p.look = look /\ p.have = h /\ p.loaded = h
      /\ p.forward = forward /\ p.before = before /\ p.left = left
  <2>1. end \in Int
    BY <1>1
  <2> HIDE DEF required, empty, missing
  <2> QED
    BY <1>1, <1>3, <1>4, <2>1, CandlesFetchBegins
<1>7. CandlesForwards(p)
  <2>1. CASE Candles!BarsOf(h) = {}
    BY <1>4, <1>6, <2>1 DEF CandlesForwards
  <2>2. CASE Candles!BarsOf(h) # {}
    <3> PICK k \in Nat : k = Candles!Max(Candles!BarsOf(h)) + 1
      BY <1>2, <2>2
    <3>1. p.forward = 2 * k
      BY <1>2, <1>6, <2>2
    <3>2. ASSUME NEW b \in CandlesOwed(p), b < k PROVE FALSE
      <4>1. b \in Candles!Bars /\ Candles!Max(Candles!BarsOf(h)) < b
        BY <1>2, <1>6, <2>2 DEF CandlesOwed, CandlesWanted
      <4> QED
        BY <1>2, <2>2, <3>2, <4>1, CandlesBarsAre
    <3> QED
      <4>1. \E x \in Nat : p.forward = 2 * x /\ \A b \in CandlesOwed(p) : b < x => p.have[b] # "no"
        BY <3>1, <3>2
      <4>2. Candles!BarsOf(p.loaded) # {}
        BY <1>6, <2>2
      <4> QED
        BY <4>1, <4>2 DEF CandlesForwards
  <2> QED
    BY <2>1, <2>2
<1>8. CandlesGoing(p)
  <2>1. p.end = 2 * candle_now + 1 /\ p.pc = "forward"
    BY <1>1, <1>6
  <2>2. CandlesGoes(p, candle_now)
    BY <1>7, <2>1 DEF CandlesGoes
  <2> QED
    BY <1>1, <2>2 DEF CandlesGoing
<1> QED
  BY <1>1, <1>5, <1>6, <1>8, CandlesOneCaller DEF CandlesIInv, CandlesTyped

-----------------------------------------------------------------------------
\* A page forward.
LEMMA CandlesForwardInv == ASSUME CandlesIInv, ~candle_Trims, NEW c \in Callers, Candles!Forward(c) PROVE CandlesIInv'
<1>a. PICK p : p = candle_caller[c]
  OBVIOUS
<1>b. PICK to : to = IF p.end < p.forward + 2 * candle_Limit THEN p.end ELSE p.forward + 2 * candle_Limit
  OBVIOUS
<1>c. PICK batch : batch = Candles!Reply(p.forward, to, candle_Limit)
  OBVIOUS
<1>1. p \in CandlesFetch /\ CandlesGoing(p) /\ p.pc = "forward" /\ candle_now \in Nat /\ candle_Limit \in Nat /\ candle_traded \in SUBSET Candles!Bars
      /\ UNCHANGED <<candle_now, candle_traded, candle_saved>> /\ candle_saved \in CandlesStore
  BY <1>a, CandlesBarsAre, CandlesAssumption DEF CandlesIInv, CandlesTyped, Candles!Forward
<1>2. batch = {b \in candle_traded : b <= candle_now /\ p.forward <= 2 * b /\ 2 * b <= to}
  BY <1>c, CandlesReplyIs DEF Candles!Start
<1>3. p.look > 0 => \E n \in Nat : n <= candle_now /\ p.end = 2 * n + 1 /\ CandlesForwards(p)
  BY <1>1 DEF CandlesGoing, CandlesGoes
<1>4. CASE Candles!Over(p, batch)
  <2>a. PICK q : q = CandlesGone(p, "back")
    OBVIOUS
  <2>1. Candles!Set(c, q)
    BY <1>4, <1>a, <1>b, <1>c, <2>a DEF Candles!Forward, CandlesGone
  <2>2. /\ q \in CandlesFetch /\ q.pc = "back" /\ q.look = p.look /\ q.end = p.end /\ q.have = p.have /\ q.loaded = p.loaded
        /\ q.before = p.before /\ q.left = p.left
    BY <1>1, <2>a, CandlesFetchGoes
  <2>3. CandlesOwed(q) = CandlesOwed(p) /\ CandlesWanted(q) = CandlesWanted(p)
    BY <2>2 DEF CandlesOwed, CandlesWanted
  <2>4. ASSUME p.look > 0 PROVE \E n \in Nat : n <= candle_now /\ CandlesGoes(q, n)
    <3>1. PICK n \in Nat : n <= candle_now /\ p.end = 2 * n + 1 /\ CandlesForwards(p)
      BY <1>3, <2>4
    <3>2. CASE Candles!BarsOf(p.loaded) # {}
      <4>1. PICK k \in Nat : p.forward = 2 * k /\ \A b \in CandlesOwed(p) : b < k => p.have[b] # "no"
        BY <3>1, <3>2 DEF CandlesForwards
      <4>2. ASSUME ~Candles!Outage, NEW b \in CandlesOwed(p) PROVE p.have[b] # "no"
        <5> SUFFICES ASSUME k <= b PROVE FALSE
          BY <4>1, <4>2, CandlesBarsAre DEF CandlesOwed, CandlesWanted
        <5>1. b \in candle_traded /\ b \in Nat /\ 2 * b <= p.end
          BY <3>2, <4>2, CandlesBarsAre DEF CandlesOwed, CandlesWanted, Candles!Start
        <5>2. b <= n /\ b <= candle_now /\ 2 * k <= 2 * b
          BY <1>1, <3>1, <5>1
        <5>3. ~(p.forward >= p.end)
          BY <3>1, <4>1, <5>1, <5>2
        <5>4. batch = {}
          BY <1>4, <5>3 DEF Candles!Over
        <5>5. ~(2 * b <= to)
          BY <1>1, <1>2, <4>1, <5>1, <5>2, <5>4
        <5>6. to = 2 * k + 2 * candle_Limit /\ k + candle_Limit <= n
          BY <1>1, <1>b, <3>1, <4>1, <5>1, <5>5
        <5>7. k \in 0 .. candle_now - candle_Limit
          BY <1>1, <3>1, <5>6
        <5>8. ASSUME NEW x \in (k .. k + candle_Limit) \cap candle_traded PROVE FALSE
          <6>1. x \in Nat /\ x <= candle_now /\ p.forward <= 2 * x /\ 2 * x <= to
            BY <1>1, <3>1, <4>1, <5>6
          <6> QED
            BY <1>2, <5>4, <6>1
        <5> QED
          BY <4>2, <5>7, <5>8 DEF Candles!Outage
      <4>3. CandlesBackwards(q, n)
        BY <2>2, <2>3, <3>2, <4>2 DEF CandlesBackwards, CandlesCovers
      <4> QED
        BY <2>2, <3>1, <4>3 DEF CandlesGoes
    <3>3. CASE Candles!BarsOf(p.loaded) = {}
      <4> PICK m \in Nat : m = n + 1
        OBVIOUS
      <4>1. q.before = q.end /\ q.left = q.look
        BY <2>2, <3>1, <3>3 DEF CandlesForwards
      <4>2. ASSUME NEW b \in CandlesWanted(q), m <= b PROVE FALSE
        <5>1. b \in Nat /\ 2 * b <= 2 * n + 1
          BY <2>2, <3>1, CandlesBarsAre DEF CandlesWanted, Candles!Start
        <5> QED
          BY <4>2, <5>1
      <4>3. m - q.left = n - q.look + 1
        BY <2>2, <4>1 DEF CandlesFetch
      <4>4. CandlesReached(q, n, m)
        BY <4>1, <4>2, <4>3 DEF CandlesReached
      <4>5. CandlesBackwards(q, n)
        BY <2>2, <3>3, <4>4 DEF CandlesBackwards
      <4> QED
        BY <2>2, <3>1, <4>5 DEF CandlesGoes
    <3> QED
      BY <3>2, <3>3
  <2>5. CandlesGoing(q)
    BY <2>2, <2>4 DEF CandlesGoing
  <2> QED
    BY <1>1, <2>1, <2>2, <2>5, CandlesOneCaller
<1>5. CASE ~Candles!Over(p, batch)
  <2>a. PICK h : h = Candles!With(p.have, batch)
    OBVIOUS
  <2>b. PICK m : m = Candles!Max(batch)
    OBVIOUS
  <2>c. PICK next : next = Candles!Start(m) + 2
    OBVIOUS
  <2>d. PICK q : q = CandlesPagedForward(p, h, next)
    OBVIOUS
  <2>1. Candles!Set(c, q)
    BY <1>5, <1>a, <1>b, <1>c, <2>a, <2>b, <2>c, <2>d DEF Candles!Forward, CandlesPagedForward
  <2>2. h \in CandlesStore /\ \A b \in Candles!Bars : h[b] # "no" <=> b \in batch \/ p.have[b] # "no"
    BY <1>1, <2>a, CandlesWithIs DEF CandlesFetch
  <2>3. m \in Nat /\ m \in batch /\ \A x \in batch : x <= m
    <3>1. batch # {} /\ batch \in SUBSET Candles!Bars
      BY <1>1, <1>2, <1>5 DEF Candles!Over
    <3> QED
      BY <3>1, <2>b, CandlesExtremes, CandlesBarsAre
  <2>4. /\ q \in CandlesFetch /\ q.pc = "forward" /\ q.look = p.look /\ q.end = p.end /\ q.have = h /\ q.loaded = p.loaded
        /\ q.before = p.before /\ q.left = p.left /\ q.forward = 2 * m + 2
    <3>1. next = 2 * m + 2 /\ next \in Int
      BY <2>3, <2>c DEF Candles!Start
    <3> QED
      BY <1>1, <2>2, <2>d, <3>1, CandlesPageForward
  <2>5. CandlesOwed(q) = CandlesOwed(p) /\ CandlesWanted(q) = CandlesWanted(p)
    BY <2>4 DEF CandlesOwed, CandlesWanted
  <2>6. ASSUME p.look > 0 PROVE \E n \in Nat : n <= candle_now /\ CandlesGoes(q, n)
    <3>1. PICK n \in Nat : n <= candle_now /\ p.end = 2 * n + 1 /\ CandlesForwards(p)
      BY <1>3, <2>6
    <3>2. Candles!BarsOf(p.loaded) # {}
      BY <1>5, <3>1 DEF Candles!Over, CandlesForwards
    <3>3. PICK k \in Nat : p.forward = 2 * k /\ \A b \in CandlesOwed(p) : b < k => p.have[b] # "no"
      BY <3>1, <3>2 DEF CandlesForwards
    <3>4. ASSUME NEW b \in CandlesOwed(p), b < m + 1 PROVE h[b] # "no"
      <4>1. b \in candle_traded /\ b \in Candles!Bars /\ b \in Nat /\ 2 * b <= p.end
        BY <3>2, <3>4, CandlesBarsAre DEF CandlesOwed, CandlesWanted, Candles!Start
      <4>2. CASE b < k
        BY <2>2, <3>3, <4>1, <4>2
      <4>3. CASE k <= b
        <5>1. b <= candle_now /\ 2 * k <= 2 * b
          BY <1>1, <3>1, <4>1, <4>3
        <5>2. 2 * m <= to /\ to \in Int
          BY <1>1, <1>2, <1>b, <2>3 DEF CandlesFetch
        <5>3. 2 * b <= to
          BY <2>3, <3>4, <4>1, <5>2
        <5>4. b \in batch
          BY <1>2, <3>3, <4>1, <5>1, <5>3
        <5> QED
          BY <2>2, <4>1, <5>4
      <4> QED
        BY <4>1, <4>2, <4>3
    <3>5. CandlesForwards(q)
      <4> PICK l \in Nat : l = m + 1
        BY <2>3
      <4>1. q.forward = 2 * l
        BY <2>3, <2>4
      <4>2. ASSUME NEW b \in CandlesOwed(q), b < l PROVE q.have[b] # "no"
        BY <2>4, <2>5, <3>4, <4>2
      <4>3. \E x \in Nat : q.forward = 2 * x /\ \A b \in CandlesOwed(q) : b < x => q.have[b] # "no"
        BY <4>1, <4>2
      <4>4. Candles!BarsOf(q.loaded) # {}
        BY <2>4, <3>2
      <4> QED
        BY <4>3, <4>4 DEF CandlesForwards
    <3> QED
      BY <2>4, <3>1, <3>5 DEF CandlesGoes
  <2>7. CandlesGoing(q)
    BY <2>4, <2>6 DEF CandlesGoing
  <2> QED
    BY <1>1, <2>1, <2>4, <2>7, CandlesOneCaller
<1> QED
  BY <1>4, <1>5

-----------------------------------------------------------------------------
\* A page backward of the whole window ends at bar x and brings what lies between.
LEMMA CandlesPageReaches ==
  ASSUME CandlesTyped, ~candle_Trims, NEW p \in CandlesFetch, NEW n \in Nat, n <= candle_now, p.end = 2 * n + 1,
         NEW m \in Nat, CandlesReached(p, n, m), m > 0, CandlesWanted(p) \subseteq candle_traded,
         NEW size \in Nat \ {0}, size <= p.left,
         NEW batch, batch = Candles!Reply(p.before - 2 * size, p.before, size)
  PROVE  \E x \in Nat : /\ batch # {} /\ Candles!Min(batch) = x /\ x < m /\ x <= n /\ 2 * x < p.before
                        /\ (x = 0 \/ x = m - size)
                        /\ \A b \in CandlesWanted(p) : x <= b /\ b < m => b \in batch
<1>1. /\ candle_now \in Nat /\ candle_now <= candle_MaxNow /\ candle_MaxNow \in Nat /\ candle_traded \in SUBSET Candles!Bars
      /\ p.before \in Int /\ p.left \in Int /\ p.look \in Nat
  BY CandlesBarsAre, CandlesAssumption DEF CandlesTyped, CandlesFetch
<1>2. batch = {b \in candle_traded : b <= candle_now /\ p.before - 2 * size <= 2 * b /\ 2 * b <= p.before}
  BY CandlesReplyIs DEF Candles!Start
<1>3. /\ m <= n + 1 /\ m - p.left = n - p.look + 1
      /\ (p.before = 2 * m \/ p.before = 2 * m - 1)
  BY DEF CandlesReached
<1>4. PICK x \in Nat : m - size <= x /\ x < m /\ x <= n /\ (x = 0 \/ x = m - size)
  <2>1. CASE m - size >= 0
    <3>1. PICK x \in Nat : x = m - size
      BY <2>1
    <3>2. m - size <= x /\ x < m /\ x <= n
      BY <1>3, <3>1
    <3> QED
      BY <3>1, <3>2
  <2>2. CASE m - size < 0
    BY <2>2
  <2> QED
    BY <2>1, <2>2
<1>5. 2 * x < p.before
  BY <1>3, <1>4
<1>6. ASSUME NEW b \in CandlesWanted(p), x <= b, b < m PROVE b \in batch
  <2>1. b \in candle_traded /\ b \in Nat /\ 2 * b <= 2 * n + 1
    BY CandlesBarsAre DEF CandlesWanted, Candles!Start
  <2>2. b <= candle_now
    BY <1>1, <2>1
  <2>3. p.before - 2 * size <= 2 * b /\ 2 * b <= p.before
    BY <1>1, <1>3, <1>4, <1>6, <2>1
  <2> QED
    BY <1>2, <2>1, <2>2, <2>3
<1>7. x \in CandlesWanted(p)
  <2>1. x \in Candles!Bars
    BY <1>1, <1>4 DEF Candles!Bars
  <2>2. x >= n - p.look + 1
    BY <1>1, <1>3, <1>4
  <2>3. p.end - 2 * p.look <= 2 * x /\ 2 * x <= p.end
    BY <1>1, <1>4, <2>2
  <2> QED
    BY <2>1, <2>3 DEF CandlesWanted, Candles!Start
<1>8. x \in batch
  BY <1>4, <1>6, <1>7
<1>9. /\ batch \in SUBSET Candles!Bars /\ Candles!Min(batch) \in batch /\ Candles!Min(batch) <= x /\ Candles!Min(batch) \in Nat
  <2>1. batch \in SUBSET Candles!Bars /\ batch # {}
    BY <1>1, <1>2, <1>8
  <2> QED
    BY <1>8, <2>1, CandlesExtremes, CandlesBarsAre
<1>10. PICK y \in Nat : y = Candles!Min(batch)
  BY <1>9
<1>11. y = x
  <2>1. p.before - 2 * size <= 2 * y /\ y <= x
    BY <1>2, <1>9, <1>10
  <2>2. y >= m - size
    BY <1>1, <1>3, <2>1
  <2> QED
    BY <1>4, <2>1, <2>2
<1> QED
  BY <1>4, <1>5, <1>6, <1>8, <1>10, <1>11

LEMMA CandlesBackInv == ASSUME CandlesIInv, ~candle_Trims, NEW c \in Callers, Candles!Back(c) PROVE CandlesIInv'
<1>a. PICK p : p = candle_caller[c]
  OBVIOUS
<1>b. PICK size : size = IF p.left < candle_Limit THEN p.left ELSE candle_Limit
  OBVIOUS
<1>c. PICK batch : batch = Candles!Reply(p.before - 2 * size, p.before, size)
  OBVIOUS
<1>1. p \in CandlesFetch /\ CandlesGoing(p) /\ p.pc = "back" /\ candle_now \in Nat /\ candle_Limit \in Nat \ {0} /\ candle_traded \in SUBSET Candles!Bars
      /\ UNCHANGED <<candle_now, candle_traded,
                     candle_saved>> /\ candle_saved \in CandlesStore /\ CandlesTyped
  BY <1>a, CandlesBarsAre, CandlesAssumption DEF CandlesIInv, CandlesTyped, Candles!Back
<1>2. p.look > 0 => \E n \in Nat : n <= candle_now /\ p.end = 2 * n + 1 /\ CandlesBackwards(p, n)
  BY <1>1 DEF CandlesGoing, CandlesGoes
<1>3. p.left \in Int /\ p.look \in Nat /\ p.before \in Int /\ p.end \in Int /\ p.have \in CandlesStore
  BY <1>1 DEF CandlesFetch
<1>4. CASE p.left <= 0
  <2>a. PICK q : q = CandlesGone(p, "save")
    OBVIOUS
  <2>1. Candles!Set(c, q)
    BY <1>4, <1>a, <2>a DEF Candles!Back, CandlesGone
  <2>2. q \in CandlesFetch /\ q.pc = "save" /\ q.look = p.look /\ q.end = p.end /\ q.have = p.have /\ q.loaded = p.loaded
    BY <1>1, <2>a, CandlesFetchGoes
  <2>3. CandlesOwed(q) = CandlesOwed(p)
    BY <2>2 DEF CandlesOwed, CandlesWanted
  <2>4. ASSUME p.look > 0 PROVE \E n \in Nat : n <= candle_now /\ CandlesGoes(q, n)
    <3>1. PICK n \in Nat : n <= candle_now /\ p.end = 2 * n + 1 /\ CandlesBackwards(p, n)
      BY <1>2, <2>4
    <3>2. ASSUME ~Candles!Outage, NEW b \in CandlesOwed(p) PROVE p.have[b] # "no"
      <4>1. CASE Candles!BarsOf(p.loaded) # {}
        BY <3>1, <3>2, <4>1 DEF CandlesBackwards, CandlesCovers
      <4>2. CASE Candles!BarsOf(p.loaded) = {}
        <5>1. CandlesWanted(p) \subseteq candle_traded /\ b \in CandlesWanted(p)
          BY <3>2, <4>2 DEF CandlesOwed
        <5>2. PICK m \in Nat : CandlesReached(p, n, m)
          BY <3>1, <4>2, <5>1 DEF CandlesBackwards
        <5>3. b \in Nat /\ p.end - 2 * p.look <= 2 * b
          BY <5>1, CandlesBarsAre DEF CandlesWanted, Candles!Start
        <5>4. m <= b
          <6>1. CASE m = 0
            BY <5>3, <6>1
          <6>2. CASE m - p.left = n - p.look + 1
            <7>1. b >= n - p.look + 1
              BY <1>3, <3>1, <5>3
            <7> QED
              BY <1>3, <1>4, <5>3, <6>2, <7>1
          <6> QED
            BY <5>2, <6>1, <6>2 DEF CandlesReached
        <5> QED
          BY <5>1, <5>2, <5>4 DEF CandlesReached
      <4> QED
        BY <4>1, <4>2
    <3>3. ~Candles!Outage => CandlesCovers(q, q.have)
      BY <2>2, <2>3, <3>2 DEF CandlesCovers
    <3> QED
      BY <2>2, <3>1, <3>3 DEF CandlesGoes
  <2>5. CandlesGoing(q)
    BY <2>2, <2>4 DEF CandlesGoing
  <2> QED
    BY <1>1, <2>1, <2>2, <2>5, CandlesOneCaller
<1>5. CASE p.left > 0
  <2> DEFINE last == batch = {} \/ Candles!Start(Candles!Min(batch)) >= p.before
  <2>a. PICK h : h = Candles!With(p.have, batch)
    OBVIOUS
  <2>b. PICK before : before = IF last THEN p.before ELSE Candles!Start(Candles!Min(batch))
    OBVIOUS
  <2>c. PICK pc : pc = IF last THEN "save" ELSE "back"
    OBVIOUS
  <2>d. PICK left : left = p.left - size
    OBVIOUS
  <2>e. PICK q : q = CandlesPagedBack(p, h, left, before, pc)
    OBVIOUS
  <2>1. Candles!Set(c, q)
    BY <1>5, <1>3, <1>a, <1>b, <1>c, <2>a, <2>b, <2>c, <2>d, <2>e DEF Candles!Back,
        CandlesPagedBack
  <2>2. h \in CandlesStore /\ \A b \in Candles!Bars : h[b] # "no" <=> b \in batch \/ p.have[b] # "no"
    BY <1>3, <2>a, CandlesWithIs
  <2>3. size \in Nat \ {0} /\ size <= p.left
    BY <1>1, <1>3, <1>5, <1>b
  <2>4. batch # {} => Candles!Min(batch) \in Nat
    <3>1. batch \in SUBSET Candles!Bars
      BY <1>1, <1>c, CandlesReplyIs
    <3> QED
      BY <3>1, CandlesExtremes, CandlesBarsAre
  <2>5. /\ q \in CandlesFetch /\ q.pc = pc /\ q.look = p.look /\ q.end = p.end /\ q.have = h /\ q.loaded = p.loaded
        /\ q.before = before /\ q.left = left
    <3>1. before \in Int
      BY <1>3, <2>4, <2>b DEF Candles!Start
    <3>2. left \in Int /\ pc \in {"save", "back"}
      BY <1>3, <2>3, <2>c, <2>d
    <3> QED
      BY <1>1, <2>2, <2>e, <3>1, <3>2, CandlesPageBack
  <2>6. CandlesOwed(q) = CandlesOwed(p) /\ CandlesWanted(q) = CandlesWanted(p)
    BY <2>5 DEF CandlesOwed, CandlesWanted
  <2>7. ASSUME p.look > 0 PROVE \E n \in Nat : n <= candle_now /\ CandlesGoes(q, n)
    <3>1. PICK n \in Nat : n <= candle_now /\ p.end = 2 * n + 1 /\ CandlesBackwards(p, n)
      BY <1>2, <2>7
    <3>2. ASSUME CandlesCovers(p, p.have) PROVE CandlesCovers(q, q.have)
      <4>1. ASSUME NEW b \in CandlesOwed(p) PROVE h[b] # "no"
        BY <2>2, <3>2 DEF CandlesCovers, CandlesOwed, CandlesWanted
      <4> QED
        BY <2>5, <2>6, <4>1 DEF CandlesCovers
    <3>3. pc \in {"save", "back"}
      BY <2>c
    <3>4. CASE Candles!BarsOf(p.loaded) # {}
      <4>1. ~Candles!Outage => CandlesCovers(q, q.have)
        BY <3>1, <3>2, <3>4 DEF CandlesBackwards
      <4>2. CandlesBackwards(q, n)
        BY <2>5, <3>4, <4>1 DEF CandlesBackwards
      <4> QED
        BY <2>5, <3>1, <3>3, <4>1, <4>2 DEF CandlesGoes
    <3>5. CASE Candles!BarsOf(p.loaded) = {} /\ ~(CandlesWanted(p) \subseteq candle_traded)
      <4>1. CandlesCovers(q, q.have)
        BY <2>6, <3>5 DEF CandlesOwed, CandlesCovers
      <4>2. CandlesBackwards(q, n)
        BY <2>5, <2>6, <3>5 DEF CandlesBackwards
      <4> QED
        BY <2>5, <3>1, <3>3, <4>1, <4>2 DEF CandlesGoes
    <3>6. CASE Candles!BarsOf(p.loaded) = {} /\ CandlesWanted(p) \subseteq candle_traded
      <4>1. PICK m \in Nat : CandlesReached(p, n, m)
        BY <3>1, <3>6 DEF CandlesBackwards
      <4>2. CASE m = 0
        <5>1. p.before = 0
          BY <4>1, <4>2 DEF CandlesReached
        <5>2. last
          BY <2>4, <5>1 DEF Candles!Start
        <5>3. CandlesCovers(p, p.have)
          <6>1. \A b \in CandlesWanted(p) : m <= b
            BY <4>2, CandlesBarsAre DEF CandlesWanted
          <6> QED
            BY <3>6, <4>1, <6>1 DEF CandlesCovers, CandlesOwed, CandlesReached
        <5>4. q.pc = "save"
          BY <2>5, <2>c, <5>2
        <5> QED
          BY <2>5, <3>1, <3>2, <5>3, <5>4 DEF CandlesGoes
      <4>3. CASE m > 0
        <5>1. PICK x \in Nat : /\ batch # {} /\ Candles!Min(batch) = x /\ x < m /\ x <= n /\ 2 * x < p.before
                               /\ (x = 0 \/ x = m - size)
                               /\ \A b \in CandlesWanted(p) : x <= b /\ b < m => b \in batch
          BY <1>1, <1>c, <2>3, <3>1, <3>6, <4>1, <4>3, CandlesPageReaches
        <5>2. Candles!Start(Candles!Min(batch)) = 2 * x
          BY <5>1 DEF Candles!Start
        <5>3. ~last
          BY <1>3, <5>1, <5>2
        <5>4. q.pc = "back" /\ q.before = 2 * x /\ q.left = p.left - size
          BY <2>5, <2>b, <2>c, <2>d, <5>2, <5>3
        <5>5. ASSUME NEW b \in CandlesWanted(p), x <= b PROVE h[b] # "no"
          <6>1. b \in Candles!Bars /\ b \in Nat
            BY CandlesBarsAre DEF CandlesWanted
          <6>2. CASE m <= b
            BY <2>2, <4>1, <6>1, <6>2 DEF CandlesReached
          <6>3. CASE b < m
            BY <2>2, <5>1, <5>5, <6>1, <6>3
          <6> QED
            BY <6>1, <6>2, <6>3
        <5>6. x = 0 \/ x - q.left = n - q.look + 1
          <6>1. m - p.left = n - p.look + 1
            BY <4>1, <4>3 DEF CandlesReached
          <6>2. x = m - size => x - q.left = m - p.left
            BY <1>3, <2>3, <5>4
          <6> QED
            BY <2>5, <5>1, <6>1, <6>2
        <5>7. CandlesReached(q, n, x)
          <6>1. x <= n + 1
            BY <5>1
          <6>2. \A b \in CandlesWanted(q) : x <= b => q.have[b] # "no"
            BY <2>5, <2>6, <5>5
          <6> QED
            BY <5>1, <5>4, <5>6, <6>1, <6>2 DEF CandlesReached
        <5>8. CandlesBackwards(q, n)
          BY <2>5, <3>6, <5>7 DEF CandlesBackwards
        <5> QED
          BY <2>5, <3>1, <5>4, <5>8 DEF CandlesGoes
      <4> QED
        BY <4>2, <4>3
    <3> QED
      BY <3>4, <3>5, <3>6
  <2>8. CandlesGoing(q)
    BY <2>5, <2>7 DEF CandlesGoing
  <2> QED
    BY <1>1, <2>1, <2>5, <2>8, CandlesOneCaller
<1> QED
  BY <1>3, <1>4, <1>5

-----------------------------------------------------------------------------
\* The file is written.
LEMMA CandlesSaveBeginInv == ASSUME CandlesIInv, NEW c \in Callers, Candles!SaveBegin(c) PROVE CandlesIInv'
<1>a. PICK p : p = candle_caller[c]
  OBVIOUS
<1>1. p \in CandlesFetch /\ CandlesGoing(p) /\ p.pc = "save" /\ UNCHANGED <<candle_now,
                                                                            candle_traded,
                                                                            candle_saved>> /\ candle_saved' \in CandlesStore
  BY <1>a DEF CandlesIInv, CandlesTyped, Candles!SaveBegin
<1>2. p.look > 0 => \E n \in Nat : n <= candle_now /\ p.end = 2 * n + 1 /\ (~Candles!Outage => CandlesCovers(p, p.have))
  BY <1>1 DEF CandlesGoing, CandlesGoes
<1>3. CASE Candles!BarsOf(p.have) = {}
  <2>a. PICK q : q = CandlesEnded(p, Candles!Nothing)
    OBVIOUS
  <2>1. Candles!Set(c, q)
    BY <1>3, <1>a, <2>a DEF Candles!SaveBegin, CandlesEnded
  <2>2. q \in CandlesFetch /\ q.pc = "done" /\ q.look = p.look /\ q.end = p.end /\ q.loaded = p.loaded
    BY <1>1, <2>a, CandlesFetchEnds, CandlesHeldIs
  <2>3. CandlesOwed(q) = CandlesOwed(p)
    BY <2>2 DEF CandlesOwed, CandlesWanted
  <2>4. ASSUME CandlesCovers(p, p.have) PROVE CandlesCovers(q, q.got)
    <3>1. CandlesOwed(p) = {}
      BY <1>3, <2>4 DEF CandlesCovers, Candles!BarsOf, CandlesOwed, CandlesWanted
    <3> QED
      BY <2>3, <3>1 DEF CandlesCovers
  <2>5. ASSUME p.look > 0 PROVE \E n \in Nat : n <= candle_now /\ CandlesGoes(q, n)
    BY <1>2, <2>2, <2>4, <2>5 DEF CandlesGoes
  <2>6. CandlesGoing(q)
    BY <2>2, <2>5 DEF CandlesGoing
  <2> QED
    BY <1>1, <2>1, <2>2, <2>6, CandlesOneCaller
<1>4. CASE Candles!BarsOf(p.have) # {}
  <2>a. PICK q : q = CandlesGone(p, "saving")
    OBVIOUS
  <2>1. Candles!Set(c, q)
    BY <1>4, <1>a, <2>a DEF Candles!SaveBegin, CandlesGone
  <2>2. /\ q \in CandlesFetch /\ q.pc = "saving" /\ q.look = p.look /\ q.end = p.end /\ q.loaded = p.loaded
        /\ q.have = p.have
    BY <1>1, <2>a, CandlesFetchGoes
  <2>3. CandlesCovers(q, q.have) <=> CandlesCovers(p, p.have)
    BY <2>2 DEF CandlesOwed, CandlesWanted, CandlesCovers
  <2>4. ASSUME p.look > 0 PROVE \E n \in Nat : n <= candle_now /\ CandlesGoes(q, n)
    BY <1>2, <2>2, <2>3, <2>4 DEF CandlesGoes
  <2>5. CandlesGoing(q)
    BY <2>2, <2>4 DEF CandlesGoing
  <2> QED
    BY <1>1, <2>1, <2>2, <2>5, CandlesOneCaller
<1> QED
  BY <1>3, <1>4

LEMMA CandlesSaveEndInv == ASSUME CandlesIInv, NEW c \in Callers, Candles!SaveEnd(c) PROVE CandlesIInv'
<1>a. PICK p : p = candle_caller[c]
  OBVIOUS
<1>b. PICK q : q = CandlesEnded(p, Candles!Window(p))
  OBVIOUS
<1>1. p \in CandlesFetch /\ CandlesGoing(p) /\ p.pc = "saving" /\ UNCHANGED <<candle_now,
                                                                              candle_traded>> /\ p.have \in CandlesStore
  BY <1>a DEF CandlesIInv, CandlesTyped, Candles!SaveEnd, CandlesFetch
<1>2. candle_saved' \in CandlesStore
  BY <1>a, <1>1 DEF CandlesIInv, CandlesTyped, Candles!SaveEnd
<1>3. Candles!Set(c, q)
  BY <1>a, <1>b DEF Candles!SaveEnd, CandlesEnded
<1>4. Candles!Window(p) \in CandlesStore /\ \A b \in CandlesWanted(p) : Candles!Window(p)[b] = p.have[b]
  BY <1>1 DEF Candles!Window, CandlesWanted, CandlesStore, Candles!Held
<1>5. q \in CandlesFetch /\ q.pc = "done" /\ q.look = p.look /\ q.end = p.end /\ q.loaded = p.loaded /\ q.got = Candles!Window(p)
  BY <1>1, <1>4, <1>b, CandlesFetchEnds
<1>6. CandlesOwed(q) = CandlesOwed(p) /\ CandlesOwed(p) \subseteq CandlesWanted(p)
  BY <1>5 DEF CandlesOwed, CandlesWanted
<1>7. ASSUME CandlesCovers(p, p.have) PROVE CandlesCovers(q, q.got)
  BY <1>4, <1>5, <1>6, <1>7 DEF CandlesCovers
<1>8. ASSUME p.look > 0 PROVE \E n \in Nat : n <= candle_now /\ CandlesGoes(q, n)
  <2>1. PICK n \in Nat : n <= candle_now /\ p.end = 2 * n + 1 /\ (~Candles!Outage => CandlesCovers(p, p.have))
    BY <1>1, <1>8 DEF CandlesGoing, CandlesGoes
  <2> QED
    BY <1>5, <1>7, <2>1 DEF CandlesGoes
<1>9. CandlesGoing(q)
  BY <1>5, <1>8 DEF CandlesGoing
<1> QED
  BY <1>1, <1>2, <1>3, <1>5, <1>9, CandlesOneCaller

-----------------------------------------------------------------------------
\* The script's fetches look back over no window.
LEMMA CandlesFillBeginInv == ASSUME CandlesIInv, NEW c \in Callers, NEW bars \in candle_Fills, Candles!FillBegin(c, bars) PROVE CandlesIInv'
<1>a. PICK h : h = IF candle_file = "whole" THEN candle_saved ELSE Candles!Nothing
  OBVIOUS
<1>b. PICK spans : spans = bars \ Candles!BarsOf(h)
  OBVIOUS
<1>c. PICK q : q = CandlesFillBegun(h, spans)
  OBVIOUS
<1>1. h \in CandlesStore /\ spans \in SUBSET Candles!Bars /\ UNCHANGED <<candle_now,
                                                                         candle_traded,
                                                                         candle_saved>> /\ candle_saved' \in CandlesStore
  <2>1. bars \in SUBSET Candles!Bars
    BY CandlesAssumption DEF Candles!Bars
  <2> QED
    BY <1>a, <1>b, <2>1, CandlesHeldIs DEF CandlesIInv, CandlesTyped, Candles!FillBegin
<1>2. Candles!Set(c, q)
  BY <1>a, <1>b, <1>c DEF Candles!FillBegin, CandlesFillBegun
<1>3. q \in CandlesFetch /\ q.look = 0
  BY <1>1, <1>c, CandlesFillBegins, CandlesHeldIs
<1>4. CandlesGoing(q)
  BY <1>3 DEF CandlesGoing
<1> QED
  BY <1>1, <1>2, <1>3, <1>4, CandlesOneCaller

LEMMA CandlesFillInv == ASSUME CandlesIInv, NEW c \in Callers, Candles!Fill(c) PROVE CandlesIInv'
<1>a. PICK p : p = candle_caller[c]
  OBVIOUS
<1>1. p \in CandlesFetch /\ CandlesGoing(p) /\ p.pc = "fill" /\ UNCHANGED <<candle_now,
                                                                            candle_traded,
                                                                            candle_saved>> /\ candle_saved' \in CandlesStore
  BY <1>a DEF CandlesIInv, CandlesTyped, Candles!Fill
<1>2. p.look = 0 /\ p.have \in CandlesStore /\ p.spans \in SUBSET Candles!Bars
  BY <1>1 DEF CandlesGoing, CandlesGoes, CandlesFetch
<1>3. CASE p.spans = {}
  <2>a. PICK q : q = CandlesGone(p, "save")
    OBVIOUS
  <2>1. Candles!Set(c, q)
    BY <1>3, <1>a, <2>a DEF Candles!Fill, CandlesGone
  <2>2. q \in CandlesFetch /\ q.look = 0
    BY <1>1, <1>2, <2>a, CandlesFetchGoes
  <2>3. CandlesGoing(q)
    BY <2>2 DEF CandlesGoing
  <2> QED
    BY <1>1, <2>1, <2>2, <2>3, CandlesOneCaller
<1>4. CASE p.spans # {}
  <2> DEFINE from == Candles!Min(p.spans)
             run == {b \in p.spans : from .. b \subseteq p.spans}
             to == Candles!Min({Candles!Max(run) + 1, from + candle_Limit})
  <2>a. PICK batch : batch = Candles!Reply(Candles!Start(from), Candles!Start(to), candle_Limit)
    OBVIOUS
  <2>b. PICK s : s = {b \in p.spans : b >= IF batch = {} \/ Candles!Max(batch) < from THEN to ELSE Candles!Max(batch) + 1}
    OBVIOUS
  <2>1. Candles!Set(c, CandlesPageKept(p, Candles!With(p.have, batch), s)) /\ s \in SUBSET p.spans
    BY <1>4, <1>a, <2>a, <2>b DEF Candles!Fill, CandlesPageKept
  <2> HIDE DEF from, run, to
  <2>2. PICK q : q = CandlesPageKept(p, Candles!With(p.have, batch), s)
    OBVIOUS
  <2>3. Candles!With(p.have, batch) \in CandlesStore
    BY <1>2, CandlesWithIs
  <2>4. q \in CandlesFetch /\ q.look = 0
    BY <1>1, <1>2, <2>1, <2>2, <2>3, CandlesPageFilled
  <2>5. CandlesGoing(q)
    BY <2>4 DEF CandlesGoing
  <2> QED
    BY <1>1, <2>1, <2>2, <2>4, <2>5, CandlesOneCaller
<1> QED
  BY <1>3, <1>4

LEMMA CandlesCutOffInv == ASSUME CandlesIInv, NEW c \in Callers, Candles!CutOff(c) PROVE CandlesIInv'
<1>1. Candles!Set(c, Candles!Idle) /\ UNCHANGED <<candle_now, candle_traded,
                                                  candle_saved>> /\ candle_saved' \in CandlesStore
  BY DEF CandlesIInv, CandlesTyped, Candles!CutOff
<1>2. CandlesGoing(Candles!Idle)
  BY CandlesHeldIs DEF CandlesGoing
<1> QED
  BY <1>1, <1>2, CandlesHeldIs, CandlesOneCaller

-----------------------------------------------------------------------------
LEMMA CandlesStepInv == ASSUME CandlesIInv, ~candle_Trims, [Candles!Next]_(Candles!vars) PROVE CandlesIInv'
<1>1. CASE UNCHANGED Candles!vars
  <2>1. CandlesTyped' /\ candle_now' = candle_now /\ candle_traded' = candle_traded /\ candle_caller' = candle_caller
    BY <1>1 DEF CandlesIInv, CandlesTyped, Candles!vars
  <2>2. \A c \in Callers : CandlesGoing(candle_caller[c])'
    BY <2>1, CandlesGoingStays DEF CandlesIInv, CandlesTyped
  <2> QED
    BY <2>1, <2>2 DEF CandlesIInv, CandlesGoing
<1>2. CASE Candles!NextBar
  BY <1>2, CandlesNextBarInv
<1>3. ASSUME NEW c \in Callers,
             \/ \E look \in candle_Lookbacks : Candles!Load(c, look)
             \/ \E bars \in candle_Fills : Candles!FillBegin(c, bars)
             \/ Candles!Forward(c) \/ Candles!Back(c) \/ Candles!Fill(c) \/ Candles!SaveBegin(c) \/ Candles!SaveEnd(c) \/ Candles!CutOff(c)
      PROVE  CandlesIInv'
  BY <1>3, CandlesLoadInv, CandlesFillBeginInv, CandlesForwardInv, CandlesBackInv,
      CandlesFillInv, CandlesSaveBeginInv, CandlesSaveEndInv, CandlesCutOffInv
<1> QED
  BY <1>1, <1>2, <1>3 DEF Candles!Next

LEMMA CandlesInvCaughtUp == ASSUME CandlesIInv PROVE Candles!CaughtUp
<1> SUFFICES ASSUME NEW c \in Callers, candle_caller[c].pc = "done", candle_caller[c].look > 0, ~Candles!Outage,
                    NEW b \in IF Candles!BarsOf(candle_caller[c].loaded) # {}
                              THEN {b \in CandlesWanted(candle_caller[c]) \cap candle_traded : b > Candles!Max(Candles!BarsOf(candle_caller[c].loaded))}
                              ELSE IF CandlesWanted(candle_caller[c]) \subseteq candle_traded THEN CandlesWanted(candle_caller[c]) ELSE {}
             PROVE  candle_caller[c].got[b] # "no"
  BY DEF Candles!CaughtUp, CandlesWanted
<1>1. PICK p : p = candle_caller[c]
  OBVIOUS
<1>2. p \in CandlesFetch /\ CandlesGoing(p) /\ CandlesCovers(p, p.got)
  BY <1>1 DEF CandlesIInv, CandlesTyped, CandlesGoing, CandlesGoes
<1>3. b \in CandlesOwed(p)
  <2>1. CASE Candles!BarsOf(p.loaded) # {}
    <3>1. Candles!BarsOf(p.loaded) \in SUBSET Candles!Bars
      BY DEF Candles!BarsOf
    <3>2. b \in CandlesWanted(p) \cap candle_traded /\ b > Candles!Max(Candles!BarsOf(p.loaded)) /\ b \in Candles!Bars
      BY <1>1, <2>1 DEF CandlesWanted
    <3>3. ASSUME NEW d \in Candles!BarsOf(p.loaded) PROVE d < b
      <4>1. d <= Candles!Max(Candles!BarsOf(p.loaded)) /\ Candles!Max(Candles!BarsOf(p.loaded)) \in Candles!Bars /\ d \in Candles!Bars
        BY <2>1, <3>1, CandlesExtremes
      <4> QED
        BY <3>2, <4>1, CandlesBarsAre
    <3> QED
      BY <2>1, <3>2, <3>3 DEF CandlesOwed
  <2>2. CASE Candles!BarsOf(p.loaded) = {}
    BY <1>1, <2>2 DEF CandlesOwed
  <2> QED
    BY <2>1, <2>2
<1> QED
  BY <1>1, <1>2, <1>3 DEF CandlesCovers

\* Only its own steps touch CandleCache's variables.
LEMMA CandlesSteps == [Next]_vars => [Candles!Next]_(Candles!vars)
BY DEF Next, vars, candleVars, storeVars, acceptVars, walkVars, quantVars, marketVars, macroVars,
    Candles!vars

-----------------------------------------------------------------------------
\* FeatureStore.

FeaturesStep == {"idle", "premiums", "tardis", "open_interest", "save", "daily"}
FeaturesSeries == [Features!Metrics -> SUBSET Int]

FeaturesTyped ==
  /\ store_now \in Features!Bars /\ store_listed \in [Features!Metrics -> SUBSET Features!Bars] /\ store_raw \in [Features!Metrics -> [Features!Days -> SUBSET Int]]
  /\ store_kept.series \in FeaturesSeries
  /\ store_ask \in [pc : FeaturesStep, look : Nat, at : Nat, asked : BOOLEAN, series : FeaturesSeries] /\ store_ask.at <= store_now

\* The rows of a metric were looked for.
FeaturesPast(m, pc) == pc \in IF m = "premiums" THEN {"tardis", "open_interest", "save", "daily"} ELSE {"save", "daily"}

FeaturesExcused(m, b, t) == m = "open_interest" /\ (b < t - store_Retention \/ Features!Day(b) < Features!Day(t) - store_RecentDays)

\* A row of the window is gathered, or there is a reason.
FeaturesExplained(m, b) == b \in store_ask.series[m] \/ Features!Short(m, Features!Day(b)) \/ FeaturesExcused(m, b, store_now)

FeaturesGathered ==
  store_ask.asked =>
    \A m \in Features!Metrics : FeaturesPast(m, store_ask.pc) =>
      \A b \in store_listed[m] : Features!From(store_ask) <= b /\ b <= store_ask.at => FeaturesExplained(m, b)

FeaturesIInv == FeaturesTyped /\ FeaturesGathered

-----------------------------------------------------------------------------
\* A day is a number, and days follow their bars.
LEMMA FeaturesDayIs == ASSUME NEW b \in Nat PROVE Features!Day(b) \in Nat
<1>1. store_DayBars \in Nat /\ store_DayBars > 0
  BY FeaturesAssumption
<1> DEFINE q == b \div store_DayBars
<1>2. q \in Int /\ q >= 0
  BY <1>1, Z3
<1> QED
  BY <1>2 DEF Features!Day

LEMMA FeaturesDaysGrow == ASSUME NEW b \in Nat, NEW c \in Nat, b <= c PROVE Features!Day(b) <= Features!Day(c)
<1>1. store_DayBars \in Nat /\ store_DayBars > 0
  BY FeaturesAssumption
<1>2. b \div store_DayBars <= c \div store_DayBars
  BY <1>1, Z3
<1> QED
  BY <1>2 DEF Features!Day

LEMMA FeaturesBarsAre == \A b \in Features!Bars : b \in Nat /\ b <= store_MaxNow /\ Features!Day(b) \in Features!Days
<1> TAKE b \in Features!Bars
<1>1. b \in Nat /\ b <= store_MaxNow /\ store_MaxNow \in Nat
  BY FeaturesAssumption DEF Features!Bars
<1>2. Features!Day(b) \in Nat /\ Features!Day(b) <= Features!Day(store_MaxNow) /\ Features!Day(store_MaxNow) \in Nat
  BY <1>1, FeaturesDayIs, FeaturesDaysGrow
<1> QED
  BY <1>1, <1>2 DEF Features!Days

LEMMA FeaturesNoAskIs == Features!NoAsk \in [pc : FeaturesStep, look : Nat, at : Nat, asked : BOOLEAN, series : FeaturesSeries]
                         /\ Features!NoAsk.asked = FALSE /\ Features!NoAsk.at = 0 /\ Features!Empty \in FeaturesSeries
BY DEF Features!NoAsk, FeaturesStep, FeaturesSeries, Features!Empty

\* What has no window has nothing to explain.
LEMMA FeaturesGivenUp ==
  ASSUME FeaturesIInv, store_ask' = Features!NoAsk, UNCHANGED <<store_now, store_listed>>,
                                                                store_raw' \in [Features!Metrics -> [Features!Days -> SUBSET Int]],
                                                                store_kept'.series \in FeaturesSeries
  PROVE  FeaturesIInv'
<1>1. store_now \in Nat
  BY FeaturesBarsAre DEF FeaturesIInv, FeaturesTyped
<1> QED
  BY <1>1, FeaturesNoAskIs DEF FeaturesIInv, FeaturesTyped, FeaturesGathered

LEMMA FeaturesInitInv == ASSUME Features!Init PROVE FeaturesIInv
<1>1. store_now \in Features!Bars /\ store_now \in Nat
  BY FeaturesAssumption DEF Features!Init, Features!Bars
<1>2. store_listed \in [Features!Metrics -> SUBSET Features!Bars]
  BY DEF Features!Init
<1>3. store_raw \in [Features!Metrics -> [Features!Days -> SUBSET Int]]
  BY DEF Features!Init, Features!Absent
<1>4. store_kept.series \in FeaturesSeries
  BY FeaturesNoAskIs DEF Features!Init, Features!NoFile
<1> QED
  BY <1>1, <1>2, <1>3, <1>4, FeaturesNoAskIs DEF Features!Init, FeaturesIInv, FeaturesTyped,
      FeaturesGathered

LEMMA FeaturesNextBarInv == ASSUME FeaturesIInv, Features!NextBar PROVE FeaturesIInv'
<1>1. store_now \in Nat /\ store_now' = store_now + 1 /\ store_now' \in Features!Bars /\ UNCHANGED <<store_listed,
                                                                                                     store_raw,
                                                                                                     store_kept,
                                                                                                     store_ask>>
  BY FeaturesBarsAre, FeaturesAssumption DEF FeaturesIInv, FeaturesTyped, Features!NextBar,
      Features!Bars
<1>2. FeaturesTyped'
  BY <1>1 DEF FeaturesIInv, FeaturesTyped
<1>3. Features!Day(store_now) \in Nat /\ Features!Day(store_now') \in Nat /\ Features!Day(store_now) <= Features!Day(store_now') /\ store_RecentDays \in Nat /\ store_Retention \in Nat
  BY <1>1, FeaturesDayIs, FeaturesDaysGrow, FeaturesAssumption
<1>4. ASSUME NEW m \in Features!Metrics, NEW b \in store_listed[m], FeaturesExcused(m, b, store_now) PROVE FeaturesExcused(m, b, store_now')
  <2>1. b \in Nat /\ Features!Day(b) \in Nat
    BY FeaturesBarsAre, FeaturesDayIs DEF FeaturesIInv, FeaturesTyped
  <2> QED
    BY <1>1, <1>3, <1>4, <2>1 DEF FeaturesExcused
<1>5. \A m \in Features!Metrics : \A b \in store_listed[m] : FeaturesExplained(m, b) => FeaturesExplained(m, b)'
  BY <1>1, <1>4 DEF FeaturesExplained, Features!Short
<1>6. Features!From(store_ask)' = Features!From(store_ask)
  BY <1>1 DEF Features!From
<1> QED
  BY <1>1, <1>2, <1>5, <1>6 DEF FeaturesIInv, FeaturesGathered

LEMMA FeaturesLoadInv == ASSUME FeaturesIInv, NEW look \in store_Looks, Features!Load(look) PROVE FeaturesIInv'
<1>1. store_now \in Nat /\ look \in Nat /\ store_kept.series \in FeaturesSeries /\ UNCHANGED <<store_now,
                                                                                               store_listed,
                                                                                               store_raw,
                                                                                               store_kept>>
  BY FeaturesBarsAre, FeaturesAssumption DEF FeaturesIInv, FeaturesTyped, Features!Load
<1> PICK p : p = [Features!NoAsk EXCEPT !.look = look, !.at = store_now, !.series = store_kept.series]
  OBVIOUS
<1>2. p = [pc |-> "idle", look |-> look, at |-> store_now, asked |-> FALSE, series |-> store_kept.series]
  BY DEF Features!NoAsk
<1>3. PICK short \in BOOLEAN : store_ask' = [p EXCEPT !.pc = IF short THEN "premiums" ELSE "save", !.asked = short]
  BY DEF Features!Load
<1>4. store_ask' = [pc |-> IF short THEN "premiums" ELSE "save", look |-> look, at |-> store_now, asked |-> short, series |-> store_kept.series]
  BY <1>2, <1>3
<1>5. FeaturesTyped'
  BY <1>1, <1>4 DEF FeaturesIInv, FeaturesTyped, FeaturesStep
<1>6. FeaturesGathered'
  BY <1>4 DEF FeaturesGathered, FeaturesPast, Features!Metrics
<1> QED
  BY <1>5, <1>6 DEF FeaturesIInv

-----------------------------------------------------------------------------
\* A fetch of a metric's rows: what its window has and it does not gather has a reason.
LEMMA FeaturesFetchExplains ==
  ASSUME FeaturesIInv, NEW m \in Features!Metrics, Features!Fetch(m), NEW b \in store_listed[m], Features!From(store_ask) <= b, b <= store_ask.at
  PROVE  b \in store_ask'.series[m] \/ Features!Short(m, Features!Day(b))' \/ FeaturesExcused(m, b, store_now)
<1> DEFINE days == Features!MetricDays(m, store_ask)
           answer == Features!Answer(m, Features!Lacking(m, days))
           rows == (UNION {Features!Rows(store_raw[m][d]) : d \in days}) \cup answer
           d == Features!Day(b)
<1>0. \A y : y \in rows <=> y \in answer \/ \E e \in days : y \in Features!Rows(store_raw[m][e])
  <2> DEFINE files == {Features!Rows(store_raw[m][e]) : e \in days}
  <2>1. \A e \in days : Features!Rows(store_raw[m][e]) \in files
    OBVIOUS
  <2>2. \A f \in files : \E e \in days : f = Features!Rows(store_raw[m][e])
    OBVIOUS
  <2>3. rows = (UNION files) \cup answer
    OBVIOUS
  <2> HIDE DEF answer, days, files, rows
  <2>4. \A y : y \in UNION files <=> \E f \in files : y \in f
    OBVIOUS
  <2>5. \A y : y \in UNION files <=> \E e \in days : y \in Features!Rows(store_raw[m][e])
    BY <2>1, <2>2, <2>4
  <2> QED
    BY <2>3, <2>5
<1>1. /\ b \in Features!Bars /\ b \in Nat /\ d \in Features!Days /\ d \in Nat /\ store_now \in Nat /\ store_ask.at \in Nat /\ store_ask.at <= store_now /\ b <= store_now
      /\ UNCHANGED <<store_now, store_listed>>
  BY FeaturesBarsAre, FeaturesDayIs DEF FeaturesIInv, FeaturesTyped, Features!Fetch
<1>2. Features!From(store_ask) \in Nat
  <2>1. store_ask.at \in Nat /\ store_ask.look \in Nat /\ store_Padding \in Nat
    BY FeaturesAssumption DEF FeaturesIInv, FeaturesTyped
  <2> QED
    BY <2>1 DEF Features!From
<1>3. d \in Features!WindowDays(store_ask)
  <2>1. Features!Day(Features!From(store_ask)) <= d /\ d <= Features!Day(store_ask.at) /\ Features!Day(Features!From(store_ask)) \in Nat /\ Features!Day(store_ask.at) \in Nat
    BY <1>1, <1>2, FeaturesDayIs, FeaturesDaysGrow
  <2> QED
    BY <1>1, <2>1 DEF Features!WindowDays
<1>4. store_ask'.series[m] = store_ask.series[m] \cup Features!Trim(store_ask, rows)
  BY DEF Features!Fetch, FeaturesIInv, FeaturesTyped, FeaturesSeries
<1>5. store_raw'[m] = Features!Filed(m, answer)
  BY DEF Features!Fetch, FeaturesIInv, FeaturesTyped
<1>6. b \in rows => b \in store_ask'.series[m]
  <2>1. b <= Features!To(store_ask)
    BY <1>1 DEF Features!To
  <2> HIDE DEF rows
  <2> QED
    BY <1>4, <2>1 DEF Features!Trim
<1>7. CASE d \notin days
  <2>1. m = "open_interest" /\ ~(d >= Features!Day(store_now) - store_RecentDays)
    BY <1>3, <1>7 DEF Features!MetricDays
  <2>2. Features!Day(store_now) \in Nat /\ store_RecentDays \in Nat
    BY <1>1, FeaturesDayIs, FeaturesAssumption
  <2> QED
    BY <1>1, <2>1, <2>2 DEF FeaturesExcused
<1>8. CASE d \in days /\ store_raw[m][d] = Features!Absent
  <2>1. b \in Features!Asked(m, Features!Lacking(m, days))
    BY <1>1, <1>8 DEF Features!Asked, Features!Lacking
  <2>2. CASE m = "open_interest" /\ ~(b >= store_now - store_Retention)
    BY <1>1, <2>2, FeaturesAssumption DEF FeaturesExcused
  <2>3. CASE ~(m = "open_interest" /\ ~(b >= store_now - store_Retention))
    <3>1. b \in answer
      BY <1>1, <2>1, <2>3 DEF Features!Answer, Features!Kept
    <3>2. b \in rows
      <4> HIDE DEF answer, rows, days
      <4> QED
        BY <1>0, <3>1
    <3> QED
      BY <1>6, <3>2
  <2> QED
    BY <2>2, <2>3
<1>9. CASE d \in days /\ store_raw[m][d] # Features!Absent
  <2>1. store_raw[m][d] # Features!Torn
    BY <1>9 DEF Features!Fetch
  <2>2. CASE b \in rows
    BY <1>6, <2>2
  <2>3. CASE b \notin rows
    <3>1. b \notin Features!Rows(store_raw[m][d]) /\ b \notin answer
      <4> HIDE DEF answer, rows, days, d
      <4> QED
        BY <1>0, <1>9, <2>3
    <3>2. b \notin store_raw[m][d]
      BY <1>1, <3>1 DEF Features!Rows
    <3>3. store_raw'[m][d] = IF answer \cap Features!BarsOfDay(d) = {} THEN store_raw[m][d] ELSE answer \cap Features!BarsOfDay(d)
      <4> HIDE DEF answer, d
      <4> QED
        BY <1>1, <1>5 DEF Features!Filed
    <3>4. b \notin store_raw'[m][d]
      BY <3>1, <3>2, <3>3
    <3>5. store_raw'[m][d] \notin {Features!Absent, Features!Torn}
      <4>1. -1 \notin Features!BarsOfDay(d) /\ -2 \notin Features!BarsOfDay(d)
        BY FeaturesAssumption DEF Features!BarsOfDay, Features!Bars
      <4> HIDE DEF answer, d
      <4> QED
        BY <1>9, <2>1, <3>3, <4>1 DEF Features!Absent, Features!Torn
    <3>6. b \in store_listed'[m] \cap Features!BarsOfDay(d)
      BY <1>1 DEF Features!BarsOfDay
    <3> QED
      BY <3>4, <3>5, <3>6 DEF Features!Short
  <2> QED
    BY <2>2, <2>3
<1> QED
  BY <1>7, <1>8, <1>9

\* The files hold sets of bars, or a mark.
LEMMA FeaturesFetchTyped == ASSUME FeaturesIInv, NEW m \in Features!Metrics, Features!Fetch(m) PROVE FeaturesTyped' /\ store_ask'.asked = store_ask.asked /\ Features!From(store_ask)' = Features!From(store_ask)
<1> DEFINE answer == Features!Answer(m, Features!Lacking(m, Features!MetricDays(m, store_ask)))
           rows == (UNION {Features!Rows(store_raw[m][d]) : d \in Features!MetricDays(m, store_ask)}) \cup answer
           next == IF m = "premiums" THEN "tardis" ELSE "save"
<1>1. Features!Bars \subseteq Int
  BY FeaturesBarsAre
<1>2. answer \subseteq Int /\ rows \subseteq Int
  <2>1. answer \subseteq Int
    BY <1>1 DEF Features!Answer, Features!Kept, Features!Asked
  <2>2. \A d : Features!Rows(store_raw[m][d]) \subseteq Int
    BY <1>1 DEF Features!Rows
  <2> DEFINE files == {Features!Rows(store_raw[m][d]) : d \in Features!MetricDays(m, store_ask)}
  <2>3. \A f \in files : f \subseteq Int
    BY <2>2
  <2>4. rows = (UNION files) \cup answer
    OBVIOUS
  <2> HIDE DEF answer, files, rows
  <2>5. UNION files \subseteq Int
    BY <2>3
  <2> QED
    BY <2>1, <2>4, <2>5
<1>3. store_raw' = [store_raw EXCEPT ![m] = Features!Filed(m, answer)] /\ UNCHANGED <<store_now,
                                                                                      store_listed,
                                                                                      store_kept>>
      /\ store_ask' = [store_ask EXCEPT !.pc = next, !.series[m] = @ \cup Features!Trim(store_ask, rows)]
  BY DEF Features!Fetch
<1> HIDE DEF answer, rows
<1>4. Features!Filed(m, answer) \in [Features!Days -> SUBSET Int]
  BY <1>2 DEF Features!Filed, FeaturesIInv, FeaturesTyped
<1>5. store_raw' \in [Features!Metrics -> [Features!Days -> SUBSET Int]]
  BY <1>3, <1>4 DEF FeaturesIInv, FeaturesTyped
<1>6. Features!Trim(store_ask, rows) \subseteq Int
  BY <1>2 DEF Features!Trim
<1> PICK x : x = store_ask
  OBVIOUS
<1> PICK s : s = [x.series EXCEPT ![m] = @ \cup Features!Trim(store_ask, rows)]
  OBVIOUS
<1>7. x \in [pc : FeaturesStep, look : Nat, at : Nat, asked : BOOLEAN, series : FeaturesSeries] /\ s \in FeaturesSeries
  BY <1>6 DEF FeaturesIInv, FeaturesTyped, FeaturesSeries
<1>8. store_ask' = [pc |-> next, look |-> x.look, at |-> x.at, asked |-> x.asked, series |-> s]
  BY <1>3, <1>7
<1>9. next \in FeaturesStep
  BY DEF FeaturesStep
<1> HIDE DEF next
<1> QED
  BY <1>3, <1>5, <1>7, <1>8, <1>9 DEF FeaturesIInv, FeaturesTyped, Features!From

LEMMA FeaturesFetchInv == ASSUME FeaturesIInv, NEW m \in Features!Metrics, Features!Fetch(m) PROVE FeaturesIInv'
<1>1. FeaturesTyped' /\ store_ask'.asked = store_ask.asked /\ Features!From(store_ask)' = Features!From(store_ask)
  BY FeaturesFetchTyped
<1>2. store_ask'.at = store_ask.at /\ store_ask'.pc = (IF m = "premiums" THEN "tardis" ELSE "save") /\ UNCHANGED <<store_now,
                                                                                                                   store_listed>> /\ store_ask.pc = m
  BY DEF Features!Fetch, FeaturesIInv, FeaturesTyped
<1>3. ASSUME store_ask'.asked, NEW k \in Features!Metrics, FeaturesPast(k, store_ask'.pc), NEW b \in store_listed[k], Features!From(store_ask) <= b, b <= store_ask.at
      PROVE  FeaturesExplained(k, b)'
  <2>1. CASE k = m
    BY <1>2, <1>3, <2>1, FeaturesFetchExplains DEF FeaturesExplained
  <2>2. CASE k # m
    <3>1. k = "premiums" /\ m = "open_interest" /\ FeaturesPast(k, store_ask.pc)
      BY <1>2, <1>3, <2>2 DEF FeaturesPast, Features!Metrics
    <3>2. FeaturesExplained(k, b)
      BY <1>1, <1>3, <3>1 DEF FeaturesIInv, FeaturesGathered
    <3>3. store_ask'.series[k] = store_ask.series[k] /\ store_raw'[k] = store_raw[k]
      BY <2>2 DEF Features!Fetch, FeaturesIInv, FeaturesTyped, FeaturesSeries
    <3> QED
      BY <1>2, <3>2, <3>3 DEF FeaturesExplained, Features!Short
  <2> QED
    BY <2>1, <2>2
<1> QED
  BY <1>1, <1>2, <1>3 DEF FeaturesIInv, FeaturesGathered

LEMMA FeaturesFetchTardisInv == ASSUME FeaturesIInv, NEW failing \in SUBSET store_TardisDays, Features!FetchTardis(failing) PROVE FeaturesIInv'
<1>1. UNCHANGED <<store_now, store_listed, store_raw, store_kept>> /\ store_ask.pc = "tardis"
  BY DEF Features!FetchTardis
<1>2. PICK more : /\ store_ask' = [store_ask EXCEPT !.pc = "open_interest", !.series["open_interest"] = @ \cup Features!Trim(store_ask, more)]
                  /\ more \subseteq Features!Bars
  <2> DEFINE days == store_TardisDays \cap Features!WindowDays(store_ask)
             file == [d \in Features!Days |-> IF d \notin days \/ store_tardis[d] # Features!Absent \/ d \in failing THEN store_tardis[d]
                                              ELSE IF Features!DayOver(d) THEN store_listed["open_interest"] \cap Features!BarsOfDay(d) ELSE Features!Missing]
             files == {Features!Rows(file[d]) : d \in days}
  <2>1. store_ask' = [store_ask EXCEPT !.pc = "open_interest", !.series["open_interest"] = @ \cup Features!Trim(store_ask, UNION files)]
    BY DEF Features!FetchTardis
  <2>2. \A f \in files : f \subseteq Features!Bars
    BY DEF Features!Rows
  <2> HIDE DEF files
  <2>3. UNION files \subseteq Features!Bars
    BY <2>2
  <2> QED
    BY <2>1, <2>3
<1>3. Features!Trim(store_ask, more) \subseteq Int
  BY <1>2, FeaturesBarsAre DEF Features!Trim
<1> PICK x : x = store_ask
  OBVIOUS
<1> PICK s : s = [x.series EXCEPT !["open_interest"] = @ \cup Features!Trim(store_ask, more)]
  OBVIOUS
<1>4. x \in [pc : FeaturesStep, look : Nat, at : Nat, asked : BOOLEAN, series : FeaturesSeries] /\ s \in FeaturesSeries
  BY <1>3 DEF FeaturesIInv, FeaturesTyped, FeaturesSeries, Features!Metrics
<1>5. store_ask' = [pc |-> "open_interest", look |-> x.look, at |-> x.at, asked |-> x.asked, series |-> s]
  BY <1>2, <1>4
<1>6. s["premiums"] = x.series["premiums"]
  BY <1>4 DEF FeaturesSeries, Features!Metrics
<1>7. FeaturesTyped'
  BY <1>1, <1>4, <1>5 DEF FeaturesIInv, FeaturesTyped, FeaturesStep
<1>8. \A m \in Features!Metrics : FeaturesPast(m, store_ask'.pc) => m = "premiums" /\ FeaturesPast(m, store_ask.pc)
  BY <1>1, <1>5 DEF FeaturesPast
<1>9. \A b : FeaturesExplained("premiums", b) => FeaturesExplained("premiums", b)'
  BY <1>1, <1>5, <1>6 DEF FeaturesExplained, Features!Short
<1>10. Features!From(store_ask)' = Features!From(store_ask) /\ store_ask'.at = store_ask.at /\ store_ask'.asked = store_ask.asked
  BY <1>5 DEF Features!From
<1> QED
  BY <1>1, <1>7, <1>8, <1>9, <1>10 DEF FeaturesIInv, FeaturesGathered

LEMMA FeaturesSaveInv == ASSUME FeaturesIInv, Features!Save PROVE FeaturesIInv'
<1>1. /\ UNCHANGED <<store_now, store_listed,
                     store_raw>> /\ store_ask.pc = "save" /\ store_kept' = Features!Claims(store_ask)
      /\ store_ask' = [store_ask EXCEPT !.pc = "daily", !.series = Features!Merged(store_ask)]
  BY DEF Features!Save
<1> PICK x : x = store_ask
  OBVIOUS
<1>2. x \in [pc : FeaturesStep, look : Nat, at : Nat, asked : BOOLEAN, series : FeaturesSeries] /\ Features!Merged(store_ask) \in FeaturesSeries
      /\ \A m \in Features!Metrics : Features!Merged(store_ask)[m] = Features!Trim(store_ask, store_ask.series[m])
  BY DEF FeaturesIInv, FeaturesTyped, FeaturesSeries, Features!Merged, Features!Trim
<1>3. store_ask' = [pc |-> "daily", look |-> x.look, at |-> x.at, asked |-> x.asked, series |-> Features!Merged(store_ask)]
  BY <1>1, <1>2
<1>4. store_kept'.series \in FeaturesSeries
  BY <1>1, <1>2 DEF Features!Claims
<1>5. FeaturesTyped'
  BY <1>1, <1>2, <1>3, <1>4 DEF FeaturesIInv, FeaturesTyped, FeaturesStep
<1>6. Features!From(store_ask)' = Features!From(store_ask) /\ store_ask'.at = store_ask.at /\ store_ask'.asked = store_ask.asked
  BY <1>3 DEF Features!From
<1>7. ASSUME NEW m \in Features!Metrics, NEW b \in store_listed[m], Features!From(store_ask) <= b, b <= store_ask.at, FeaturesExplained(m, b) PROVE FeaturesExplained(m, b)'
  <2>1. b \in Nat /\ store_ask.at \in Nat /\ b <= Features!To(store_ask)
    BY <1>7, FeaturesBarsAre DEF FeaturesIInv, FeaturesTyped, Features!To
  <2>2. b \in store_ask.series[m] => b \in store_ask'.series[m]
    BY <1>2, <1>3, <1>7, <2>1 DEF Features!Trim
  <2> QED
    BY <1>1, <1>7, <2>2 DEF FeaturesExplained, Features!Short
<1>8. \A m \in Features!Metrics : FeaturesPast(m, store_ask.pc)
  BY <1>1 DEF FeaturesPast
<1> QED
  BY <1>1, <1>5, <1>6, <1>7, <1>8 DEF FeaturesIInv, FeaturesGathered

LEMMA FeaturesStepInv == ASSUME FeaturesIInv, [Features!Next]_(Features!vars) PROVE FeaturesIInv'
<1>1. CASE Features!NextBar
  BY <1>1, FeaturesNextBarInv
<1>2. CASE \E look \in store_Looks : Features!Load(look)
  BY <1>2, FeaturesLoadInv
<1>3. CASE Features!LoadFails \/ UNCHANGED Features!vars
  BY <1>3 DEF Features!LoadFails, Features!vars, FeaturesIInv, FeaturesTyped, FeaturesGathered,
      FeaturesExplained, Features!Short, Features!From
<1>4. CASE \E m \in Features!Metrics : Features!Fetch(m)
  BY <1>4, FeaturesFetchInv
<1>5. CASE \E m \in Features!Metrics : Features!FetchFails(m)
  <2>1. store_ask' = Features!NoAsk /\ UNCHANGED <<store_now, store_listed, store_raw,
                                                   store_kept>>
    BY <1>5 DEF Features!FetchFails
  <2> QED
    BY <2>1, FeaturesGivenUp DEF FeaturesIInv, FeaturesTyped
<1>6. CASE \E m \in Features!Metrics, d \in Features!Days : Features!CutOffFiling(m, d)
  <2>1. PICK m \in Features!Metrics, d \in Features!Days : Features!CutOffFiling(m, d)
    BY <1>6
  <2>2. store_ask' = Features!NoAsk /\ UNCHANGED <<store_now, store_listed,
                                                   store_kept>> /\ store_raw' = [store_raw EXCEPT ![m][d] = Features!Torn]
    BY <2>1 DEF Features!CutOffFiling
  <2>3. store_raw' \in [Features!Metrics -> [Features!Days -> SUBSET Int]]
    BY <2>2 DEF FeaturesIInv, FeaturesTyped, Features!Torn
  <2> QED
    BY <2>2, <2>3, FeaturesGivenUp DEF FeaturesIInv, FeaturesTyped
<1>7. CASE \E failing \in SUBSET store_TardisDays : Features!FetchTardis(failing)
  BY <1>7, FeaturesFetchTardisInv
<1>8. CASE \E failing \in SUBSET store_TardisDays : Features!BuildDaily(failing)
  <2>1. store_ask' = Features!NoAsk /\ UNCHANGED <<store_now, store_listed, store_raw,
                                                   store_kept>>
    BY <1>8 DEF Features!BuildDaily
  <2> QED
    BY <2>1, FeaturesGivenUp DEF FeaturesIInv, FeaturesTyped
<1>9. CASE Features!Save
  BY <1>9, FeaturesSaveInv
<1>10. CASE Features!CutOffSaving
  <2>1. store_ask' = Features!NoAsk /\ UNCHANGED <<store_now, store_listed,
                                                   store_raw>> /\ store_kept'.series = Features!Empty
    BY <1>10 DEF Features!CutOffSaving, Features!NoFile
  <2> QED
    BY <2>1, FeaturesGivenUp, FeaturesNoAskIs DEF FeaturesIInv, FeaturesTyped
<1> QED
  BY <1>1, <1>2, <1>3, <1>4, <1>5, <1>6, <1>7, <1>8, <1>9, <1>10 DEF Features!Next

LEMMA FeaturesInvExplained == ASSUME FeaturesIInv PROVE Features!GapsExplained
<1> SUFFICES ASSUME store_ask.pc = "daily", store_ask.asked, NEW m \in Features!Metrics, NEW b \in Features!Owed(m) \ Features!Given(m)
             PROVE  \/ Features!Short(m, Features!Day(b))
                    \/ m = "open_interest" /\ (b < store_now - store_Retention \/ Features!Day(b) < Features!Day(store_now) - store_RecentDays)
  BY DEF Features!GapsExplained
<1>1. FeaturesPast(m, store_ask.pc) /\ b \in store_listed[m] /\ Features!From(store_ask) <= b /\ b <= store_ask.at /\ b \notin store_ask.series[m]
  BY DEF FeaturesPast, Features!Owed, Features!Given
<1> QED
  BY <1>1 DEF FeaturesIInv, FeaturesGathered, FeaturesExplained, FeaturesExcused

\* Only its own steps touch FeatureStore's variables.
LEMMA FeaturesSteps == [Next]_vars => [Features!Next]_(Features!vars)
BY DEF Next, vars, candleVars, storeVars, acceptVars, walkVars, quantVars, marketVars, macroVars,
    Features!vars

-----------------------------------------------------------------------------
\* WalkForward.

\* Walk counts as this module does.
LEMMA WalkCounting ==
  \A S : Walk!Cardinality(S) = Cardinality(S) /\ Walk!IsFiniteSet(S) = IsFiniteSet(S)
BY DEF Walk!Cardinality, Cardinality, Walk!IsFiniteSet, IsFiniteSet

Walkers == walk_Coins \cup {"panel"}

WalkTyped ==
  /\ walk_candles \in [walk_Coins -> SUBSET Walk!Bars]
  /\ walk_walk.who \in Walkers \cup {"none"}
  /\ walk_walk = [who |-> walk_walk.who, windows |-> walk_walk.windows, all |-> walk_walk.all]

\* The windows that a walk goes through, and what it makes of one.
WalkWindowsOf(who) == IF who # "panel" /\ Walk!Windows(Walk!Panel) = <<>> THEN Walk!Windows(Walk!RowsOf(who)) ELSE Walk!Windows(Walk!Panel)

WalkFoldOf(who, w) ==
  [who |-> who, start |-> w.start, train |-> Walk!Train(Walk!RowsFor(who), w.start), judged |-> Walk!Judged(Walk!RowsFor(who), w)]

\* The walk in progress.
Walks ==
  walk_walk.who # "none" =>
    /\ ~Walk!TooFew(Walk!Panel) /\ ~Walk!TooFew(Walk!RowsFor(walk_walk.who))
    /\ walk_walk.all = Walk!Windows(Walk!Panel)
    /\ walk_walk.windows \in Seq({WalkWindowsOf(walk_walk.who)[k] : k \in DOMAIN WalkWindowsOf(walk_walk.who)})

\* A fold is that of a window, or the last one of its walk.
WalkWindowed(f) == \E k \in DOMAIN WalkWindowsOf(f.who) : f = WalkFoldOf(f.who, WalkWindowsOf(f.who)[k])

WalkHeldOut(f) ==
  /\ f.start \in Nat /\ f.train = Walk!Train(Walk!RowsFor(f.who), f.start)
  /\ f.judged = {r \in Walk!RowsFor(f.who) : r.bar >= f.start}
  /\ \A g \in walk_folds : g.who = f.who => g = f
  /\ walk_walk.who = f.who => walk_walk.windows = <<>>

WalkFolded ==
  /\ walk_walk.who = "none" => walk_folds = {}
  /\ \A f \in walk_folds : f.who \in Walkers /\ ~Walk!TooFew(Walk!RowsFor(f.who)) /\ (WalkWindowed(f) \/ WalkHeldOut(f))

WalkIInv == WalkTyped /\ Walks /\ WalkFolded
-----------------------------------------------------------------------------
\* Counting a finite set of numbers from below.
WalkUnder(T, t) == {u \in T : u < t}

LEMMA WalkNth ==
  ASSUME NEW T \in SUBSET Nat, IsFiniteSet(T), NEW n \in Nat, n < Cardinality(T)
  PROVE  \E t \in T : Cardinality(WalkUnder(T, t)) = n
<1> SUFFICES ASSUME \A t \in T : Cardinality(WalkUnder(T, t)) # n PROVE FALSE
  OBVIOUS
<1> DEFINE Bad == {m \in Nat : m < Cardinality(T) /\ \A t \in T : Cardinality(WalkUnder(T, t)) # m}
<1>1. Bad \in SUBSET Nat /\ n \in Bad
  OBVIOUS
<1>2. PICK m \in Bad : \A o \in Bad : m <= o
  BY <1>1, Least
<1>3. m \in Nat /\ m < Cardinality(T) /\ \A t \in T : Cardinality(WalkUnder(T, t)) # m
  OBVIOUS
<1>4. Cardinality(T) \in Nat
  BY FS_CardinalityType
<1>5. CASE m = 0
  <2>1. T # {}
    BY <1>3, <1>5, FS_EmptySet
  <2>2. PICK x \in T : \A y \in T : x <= y
    BY <2>1, Least
  <2>3. WalkUnder(T, x) = {}
    <3>1. \A u \in T : u \in Nat /\ x \in Nat /\ x <= u
      BY <2>2
    <3>2. \A u \in T : ~(u < x)
      BY <3>1
    <3> QED
      BY <3>2 DEF WalkUnder
  <2> QED
    BY <1>3, <1>5, <2>3, FS_EmptySet
<1>6. CASE m # 0
  <2>1. m - 1 \in Nat /\ m - 1 < Cardinality(T) /\ m - 1 \notin Bad
    BY <1>2, <1>3, <1>4, <1>6
  <2>2. PICK t \in T : Cardinality(WalkUnder(T, t)) = m - 1
    BY <2>1
  <2>3. IsFiniteSet(WalkUnder(T, t)) /\ t \notin WalkUnder(T, t)
    BY FS_Subset DEF WalkUnder
  <2>4. Cardinality(WalkUnder(T, t) \cup {t}) = m
    <3>1. Cardinality(WalkUnder(T, t) \cup {t}) = Cardinality(WalkUnder(T, t)) + 1
      BY <2>3, FS_AddElement
    <3> QED
      BY <1>3, <2>2, <3>1
  <2> DEFINE Above == {u \in T : u > t}
  <2>5. CASE Above = {}
    <3>1. T = WalkUnder(T, t) \cup {t}
      <4>1. \A u \in T : u \in Nat /\ t \in Nat /\ ~(u > t)
        BY <2>5
      <4>2. \A u \in T : u < t \/ u = t
        BY <4>1
      <4> QED
        BY <4>2 DEF WalkUnder
    <3> QED
      BY <1>3, <2>4, <3>1
  <2>6. CASE Above # {}
    <3>1. PICK y \in Above : \A o \in Above : y <= o
      BY <2>6, Least
    <3>2. WalkUnder(T, y) = WalkUnder(T, t) \cup {t}
      <4>1. \A u \in T : u \in Nat /\ t \in Nat /\ y \in Nat /\ t < y /\ (u > t => y <= u)
        BY <3>1
      <4>2. \A u \in T : u < y <=> u < t \/ u = t
        BY <4>1
      <4> QED
        BY <4>2 DEF WalkUnder
    <3> QED
      BY <1>3, <2>4, <3>1, <3>2
  <2> QED
    BY <2>5, <2>6
<1> QED
  BY <1>5, <1>6

LEMMA WalkOrdered ==
  ASSUME NEW T \in SUBSET Nat, IsFiniteSet(T), NEW t \in T, NEW s \in T,
         Cardinality(WalkUnder(T, t)) < Cardinality(WalkUnder(T, s))
  PROVE  t < s
<1> SUFFICES ASSUME s <= t PROVE FALSE
  <2>1. s \in Nat /\ t \in Nat
    OBVIOUS
  <2> QED
    BY <2>1
<1>1. WalkUnder(T, s) \subseteq WalkUnder(T, t) /\ IsFiniteSet(WalkUnder(T, t)) /\ IsFiniteSet(WalkUnder(T, s))
  <2>1. WalkUnder(T, s) \subseteq WalkUnder(T, t) /\ WalkUnder(T, t) \subseteq T /\ WalkUnder(T, s) \subseteq T
    <3>1. \A u \in T : u \in Nat /\ s \in Nat /\ t \in Nat /\ s <= t
      OBVIOUS
    <3>2. \A u \in T : u < s => u < t
      BY <3>1
    <3> QED
      BY <3>2 DEF WalkUnder
  <2> QED
    BY <2>1, FS_Subset
<1>2. Cardinality(WalkUnder(T, s)) <= Cardinality(WalkUnder(T, t))
  BY <1>1, FS_Subset
<1>3. Cardinality(WalkUnder(T, s)) \in Nat /\ Cardinality(WalkUnder(T, t)) \in Nat
  BY <1>1, FS_CardinalityType
<1> QED
  BY <1>2, <1>3

LEMMA WalkHighest ==
  ASSUME NEW T \in SUBSET Nat, IsFiniteSet(T), NEW t \in T, Cardinality(WalkUnder(T, t)) = Cardinality(T) - 1
  PROVE  \A u \in T : u <= t
<1> SUFFICES ASSUME NEW u \in T, u > t PROVE FALSE
  OBVIOUS
<1>1. IsFiniteSet(WalkUnder(T, t)) /\ t \notin WalkUnder(T, t)
  BY FS_Subset DEF WalkUnder
<1>2. IsFiniteSet(T \ {u}) /\ Cardinality(T \ {u}) = Cardinality(T) - 1
  BY FS_RemoveElement
<1>3. WalkUnder(T, t) \cup {t} \subseteq T \ {u}
  BY DEF WalkUnder
<1>4. Cardinality(WalkUnder(T, t) \cup {t}) = Cardinality(T) - 1 + 1
  <2>1. Cardinality(WalkUnder(T, t) \cup {t}) = Cardinality(WalkUnder(T, t)) + 1
    BY <1>1, FS_AddElement
  <2> QED
    BY <2>1
<1>5. Cardinality(WalkUnder(T, t) \cup {t}) <= Cardinality(T \ {u})
  BY <1>2, <1>3, FS_Subset
<1> QED
  BY <1>2, <1>4, <1>5, FS_CardinalityType

-----------------------------------------------------------------------------
\* The rows.
LEMMA WalkBarsAre == Walk!Bars \subseteq Nat /\ IsFiniteSet(Walk!Bars)
BY FS_Interval, WalkAssumption DEF Walk!Bars

LEMMA WalkRowIs ==
  ASSUME WalkTyped, NEW c \in walk_Coins, NEW r \in Walk!RowsOf(c)
  PROVE  r.coin = c /\ r.bar \in Walk!Bars /\ r.label \in Walk!Bars /\ r = [coin |-> c, bar |-> r.bar, label |-> Walk!LabelBar(c, r.bar)]
<1>1. PICK b \in walk_candles[c] \ walk_dropped[c] :
        Cardinality(Walk!Later(c, b)) >= walk_Horizon /\ r = [coin |-> c, bar |-> b, label |-> Walk!LabelBar(c, b)]
  BY WalkCounting DEF Walk!RowsOf
<1>2. walk_candles[c] \subseteq Walk!Bars /\ Walk!Later(c, b) \subseteq Walk!Bars /\ Walk!Later(c, b) \in SUBSET Nat
  BY WalkBarsAre DEF WalkTyped, Walk!Later
<1>3. IsFiniteSet(Walk!Later(c, b)) /\ Cardinality(Walk!Later(c, b)) \in Nat
  BY <1>2, WalkBarsAre, FS_Subset, FS_CardinalityType
<1>4. walk_Horizon - 1 \in Nat /\ walk_Horizon - 1 < Cardinality(Walk!Later(c, b))
  BY <1>1, <1>3, WalkAssumption
<1>5. PICK d \in Walk!Later(c, b) : Cardinality(WalkUnder(Walk!Later(c, b), d)) = walk_Horizon - 1
  BY <1>2, <1>3, <1>4, WalkNth
<1>6. {e \in Walk!Later(c, b) : e <= d} = WalkUnder(Walk!Later(c, b), d) \cup {d}
  BY <1>2 DEF WalkUnder
<1>7. IsFiniteSet(WalkUnder(Walk!Later(c, b), d)) /\ d \notin WalkUnder(Walk!Later(c, b), d)
  BY <1>2, <1>3, FS_Subset DEF WalkUnder
<1>8. Cardinality({e \in Walk!Later(c, b) : e <= d}) = walk_Horizon
  <2>1. Cardinality(WalkUnder(Walk!Later(c, b), d) \cup {d}) = Cardinality(WalkUnder(Walk!Later(c, b), d)) + 1
    BY <1>7, FS_AddElement
  <2> QED
    BY <1>5, <1>6, <2>1, WalkAssumption
<1>9. Walk!LabelBar(c, b) \in Walk!Later(c, b)
  BY <1>8, WalkCounting DEF Walk!LabelBar
<1> QED
  BY <1>1, <1>2, <1>9

LEMMA WalkRowsFinite ==
  ASSUME WalkTyped, NEW c \in walk_Coins PROVE IsFiniteSet(Walk!RowsOf(c))
<1> DEFINE f == [r \in Walk!RowsOf(c) |-> r.bar]
<1>1. f \in [Walk!RowsOf(c) -> Walk!Bars]
  BY WalkRowIs
<1>2. \A r, o \in Walk!RowsOf(c) : r.bar = o.bar => r = o
  BY WalkRowIs
<1>3. f \in Injection(Walk!RowsOf(c), Walk!Bars)
  <2>1. \A r, o \in Walk!RowsOf(c) : f[r] = f[o] => r = o
    BY <1>2
  <2> QED
    BY <1>1, <2>1 DEF Injection, IsInjective
<1> QED
  BY <1>3, WalkBarsAre, FS_Injection

LEMMA WalkRowsAre ==
  ASSUME WalkTyped, NEW who \in Walkers
  PROVE  IsFiniteSet(Walk!RowsFor(who)) /\ \A r \in Walk!RowsFor(who) : r.bar \in Nat /\ r.label \in Nat /\ r.bar \in Walk!Bars
<1>1. CASE who # "panel"
  BY <1>1, WalkRowIs, WalkRowsFinite, WalkBarsAre DEF Walk!RowsFor, Walkers
<1>2. CASE who = "panel"
  <2> DEFINE S == {Walk!RowsOf(c) : c \in walk_Coins}
             g == [c \in walk_Coins |-> Walk!RowsOf(c)]
  <2>1. g \in Surjection(walk_Coins, S)
    BY DEF Surjection
  <2>2. IsFiniteSet(S)
    BY <2>1, FS_Surjection, WalkAssumption
  <2>3. \A T \in S : IsFiniteSet(T)
    BY WalkRowsFinite
  <2>4. IsFiniteSet(UNION S)
    BY <2>2, <2>3, FS_UNION
  <2>5. \A r \in UNION S : r.bar \in Walk!Bars /\ r.label \in Walk!Bars
    BY WalkRowIs
  <2> QED
    BY <1>2, <2>4, <2>5, WalkBarsAre DEF Walk!RowsFor, Walk!Panel
<1> QED
  BY <1>1, <1>2

-----------------------------------------------------------------------------
\* The windows.
WalkSound(rows) == IsFiniteSet(rows) /\ \A r \in rows : r.bar \in Nat /\ r.label \in Nat /\ r.bar \in Walk!Bars

LEMMA WalkTimesAre ==
  ASSUME NEW rows, WalkSound(rows)
  PROVE  /\ Walk!TimesOf(rows) \in SUBSET Nat /\ IsFiniteSet(Walk!TimesOf(rows))
         /\ Cardinality(Walk!TimesOf(rows)) \in Nat /\ Cardinality(rows) \in Nat
<1>1. Walk!TimesOf(rows) \subseteq Walk!Bars
  BY DEF WalkSound, Walk!TimesOf
<1>2. IsFiniteSet(Walk!TimesOf(rows))
  BY <1>1, WalkBarsAre, FS_Subset
<1> QED
  BY <1>1, <1>2, WalkBarsAre, FS_CardinalityType DEF WalkSound

LEMMA WalkTimeAtIs ==
  ASSUME NEW rows, WalkSound(rows), NEW n \in Nat, n < Cardinality(Walk!TimesOf(rows))
  PROVE  /\ Walk!TimeAt(rows, n) \in Walk!TimesOf(rows) /\ Walk!TimeAt(rows, n) \in Nat
         /\ Cardinality(WalkUnder(Walk!TimesOf(rows), Walk!TimeAt(rows, n))) = n
<1>1. PICK t \in Walk!TimesOf(rows) : Cardinality(WalkUnder(Walk!TimesOf(rows), t)) = n
  BY WalkTimesAre, WalkNth
<1>2. \A u \in Walk!TimesOf(rows) : {v \in Walk!TimesOf(rows) : v < u} = WalkUnder(Walk!TimesOf(rows), u)
  BY DEF WalkUnder
<1>3. Cardinality({v \in Walk!TimesOf(rows) : v < t}) = n
  BY <1>1, <1>2
<1>4. Walk!TimeAt(rows, n) \in Walk!TimesOf(rows) /\ Cardinality({v \in Walk!TimesOf(rows) : v < Walk!TimeAt(rows, n)}) = n
  BY <1>3, WalkCounting DEF Walk!TimeAt
<1> QED
  BY <1>2, <1>4, WalkTimesAre

LEMMA WalkTimesOrdered ==
  ASSUME NEW rows, WalkSound(rows), NEW n \in Nat, NEW m \in Nat, n < m, m < Cardinality(Walk!TimesOf(rows))
  PROVE  Walk!TimeAt(rows, n) < Walk!TimeAt(rows, m)
<1>1. n < Cardinality(Walk!TimesOf(rows))
  BY WalkTimesAre
<1>2. /\ Walk!TimeAt(rows, n) \in Walk!TimesOf(rows) /\ Cardinality(WalkUnder(Walk!TimesOf(rows), Walk!TimeAt(rows, n))) = n
      /\ Walk!TimeAt(rows, m) \in Walk!TimesOf(rows) /\ Cardinality(WalkUnder(Walk!TimesOf(rows), Walk!TimeAt(rows, m))) = m
  BY <1>1, WalkTimeAtIs
<1> QED
  BY <1>2, WalkTimesAre, WalkOrdered

LEMMA WalkMinRowsIs ==
  ASSUME NEW rows, WalkSound(rows) PROVE Walk!MinRows(rows) \in Nat
BY WalkTimesAre, WalkAssumption, WalkCounting DEF Walk!MinRows, Walk!SmallerOf, Walk!LargerOf

LEMMA WalkFirstBlockIs ==
  ASSUME NEW rows, WalkSound(rows), ~Walk!TooFew(rows)
  PROVE  Walk!FirstBlock(rows) \in Nat /\ 1 <= Walk!FirstBlock(rows) /\ Walk!FirstBlock(rows) <= Cardinality(Walk!TimesOf(rows))
<1> DEFINE T == Walk!TimesOf(rows)
           B == Cardinality(T)
           S == {n \in 0 .. B - 1 : Cardinality({r \in rows : r.bar <= Walk!TimeAt(rows, n)}) >= Walk!MinRows(rows)}
<1>1. Cardinality(rows) \in Nat /\ Cardinality(rows) > Walk!MinRows(rows) /\ Walk!MinRows(rows) \in Nat
  BY WalkTimesAre, WalkMinRowsIs, WalkCounting DEF Walk!TooFew
<1>2. T # {} /\ B \in Nat /\ B # 0
  <2>1. rows # {}
    BY <1>1, FS_EmptySet
  <2>2. T # {}
    BY <2>1 DEF Walk!TimesOf
  <2> QED
    BY <2>2, WalkTimesAre, FS_EmptySet
<1>3. B - 1 \in S
  <2>1. B - 1 \in Nat /\ B - 1 < B
    BY <1>2
  <2>2. Walk!TimeAt(rows, B - 1) \in T /\ Cardinality(WalkUnder(T, Walk!TimeAt(rows, B - 1))) = B - 1
    BY <2>1, WalkTimeAtIs
  <2>3. \A u \in T : u <= Walk!TimeAt(rows, B - 1)
    BY <2>2, WalkTimesAre, WalkHighest
  <2>4. {r \in rows : r.bar <= Walk!TimeAt(rows, B - 1)} = rows
    BY <2>3 DEF Walk!TimesOf
  <2>5. B - 1 \in 0 .. B - 1
    BY <2>1
  <2>6. Cardinality({r \in rows : r.bar <= Walk!TimeAt(rows, B - 1)}) >= Walk!MinRows(rows)
    BY <1>1, <2>4
  <2> QED
    BY <2>5, <2>6, Zenon
<1>4. S \in SUBSET Nat /\ S # {}
  <2>1. S \subseteq 0 .. B - 1
    OBVIOUS
  <2>2. 0 .. B - 1 \subseteq Nat
    BY <1>2
  <2> HIDE DEF S
  <2> QED
    BY <1>3, <2>1, <2>2
<1>5. Walk!Min(S) \in S
  <2>1. PICK x \in S : \A y \in S : x <= y
    BY <1>4, Least
  <2> QED
    BY <2>1 DEF Walk!Min
<1>6. Walk!Min(S) \in Nat /\ Walk!Min(S) <= B - 1
  <2>1. S \subseteq 0 .. B - 1
    OBVIOUS
  <2>2. Walk!Min(S) \in 0 .. B - 1
    BY <1>5, <2>1, Zenon
  <2> HIDE DEF S, B
  <2> QED
    BY <1>2, <2>2
<1>7. Walk!FirstBlock(rows) = 1 + Walk!Min(S)
  BY WalkCounting DEF Walk!FirstBlock
<1> QED
  BY <1>2, <1>6, <1>7

LEMMA WalkTimes ==
  ASSUME NEW a \in Nat, NEW b \in Nat, NEW s \in Nat
  PROVE  a * s \in Nat /\ (a <= b => a * s <= b * s)
BY Z3

LEMMA WalkDivided ==
  ASSUME NEW a \in Nat, NEW b \in Nat, b # 0
  PROVE  a \div b \in Nat /\ (a \div b) * b <= a
BY Z3

LEMMA WalkWindowsAre ==
  ASSUME NEW rows, WalkSound(rows), ~Walk!TooFew(rows)
  PROVE  LET W == Walk!Windows(rows) IN
         /\ W \in Seq({W[k] : k \in DOMAIN W})
         /\ \A k \in DOMAIN W : k \in Nat /\ W[k].start \in Nat /\ W[k].end \in Nat
         /\ \A j, k \in DOMAIN W : j < k => W[j].end < W[k].start
<1> DEFINE blocks == Cardinality(Walk!TimesOf(rows))
           first == Walk!FirstBlock(rows)
           size == Walk!LargerOf(walk_FoldBlocks, Walk!LargerOf(blocks - first, 1) \div Walk!LargerOf(2, walk_Splits))
           count == IF first >= blocks THEN 0 ELSE (blocks - first + size - 1) \div size
           Start(k) == first + (k - 1) * size
           End(k) == Walk!SmallerOf(blocks, first + k * size) - 1
           W == [k \in 1 .. count |-> [start |-> Walk!TimeAt(rows, Start(k)), end |-> Walk!TimeAt(rows, End(k))]]
<1>1. Walk!Windows(rows) = W
  BY WalkCounting DEF Walk!Windows
<1>2. blocks \in Nat /\ first \in Nat /\ 1 <= first /\ first <= blocks
  BY WalkTimesAre, WalkFirstBlockIs
<1>3. size \in Nat /\ size # 0
  <2>1. Walk!LargerOf(blocks - first, 1) \in Nat
    BY <1>2 DEF Walk!LargerOf
  <2>2. Walk!LargerOf(2, walk_Splits) \in Nat /\ Walk!LargerOf(2, walk_Splits) # 0
    BY WalkAssumption DEF Walk!LargerOf
  <2>3. Walk!LargerOf(blocks - first, 1) \div Walk!LargerOf(2, walk_Splits) \in Nat
    <3> DEFINE a == Walk!LargerOf(blocks - first, 1)
               b == Walk!LargerOf(2, walk_Splits)
    <3> HIDE DEF a, b
    <3>1. a \in Nat /\ b \in Nat /\ b # 0
      BY <2>1, <2>2 DEF a, b
    <3>2. a \div b \in Nat
      BY <3>1, WalkDivided
    <3> QED
      BY <3>2 DEF a, b
  <2> QED
    BY <2>3, WalkAssumption DEF Walk!LargerOf
<1> HIDE DEF blocks, first, size
<1>4. count \in Nat /\ (count # 0 => count * size <= blocks - first + size - 1)
  <2>1. CASE first >= blocks
    BY <2>1
  <2>2. CASE ~(first >= blocks)
    <3>1. blocks - first + size - 1 \in Nat
      BY <1>2, <1>3, <2>2
    <3>2. count = (blocks - first + size - 1) \div size
      BY <2>2
    <3> DEFINE a == blocks - first + size - 1
    <3>3. a \in Nat /\ count = a \div size
      BY <3>1, <3>2
    <3> HIDE DEF a, count
    <3>4. count \in Nat /\ count * size <= a
      BY <3>3, <1>3, WalkDivided
    <3> QED
      BY <3>4 DEF a
  <2> QED
    BY <2>1, <2>2
<1> HIDE DEF count
<1>5. ASSUME NEW k \in 1 .. count
      PROVE  /\ k \in Nat /\ k - 1 \in Nat /\ Start(k) \in Nat /\ Start(k) < blocks
             /\ End(k) \in Nat /\ End(k) < blocks /\ End(k) < first + k * size
  <2>1. k \in Nat /\ k - 1 \in Nat /\ count # 0 /\ k <= count
    BY <1>4
  <2> DEFINE p == (k - 1) * size
             q == k * size
             o == count * size
  <2>2. p \in Nat /\ q \in Nat /\ o \in Nat /\ q <= o
    BY <2>1, <1>3, <1>4, WalkTimes
  <2>3. q = p + size
    BY <2>1, <1>3, Z3
  <2>4. o <= blocks - first + size - 1
    BY <1>4, <2>1
  <2> HIDE DEF p, q, o
  <2>5. first + p \in Nat /\ first + p < blocks
    BY <1>2, <1>3, <2>2, <2>3, <2>4
  <2>6. first + q \in Nat /\ first + q >= 1
    BY <1>2, <2>2
  <2>7. LET e == Walk!SmallerOf(blocks, first + q) - 1 IN e \in Nat /\ e < blocks /\ e < first + q
    BY <1>2, <2>5, <2>6 DEF Walk!SmallerOf
  <2> QED
    BY <2>1, <2>5, <2>7 DEF p, q
<1>6. ASSUME NEW j \in 1 .. count, NEW k \in 1 .. count, j < k PROVE End(j) < Start(k)
  <2>1. j \in Nat /\ k - 1 \in Nat /\ j <= k - 1
    BY <1>4, <1>6
  <2> DEFINE p == (k - 1) * size
             q == j * size
  <2>2. p \in Nat /\ q \in Nat /\ q <= p
    BY <2>1, <1>3, WalkTimes
  <2>3. End(j) \in Nat /\ End(j) < first + q
    BY <1>5
  <2> DEFINE e == End(j)
  <2>4. e \in Nat /\ e < first + q
    BY <2>3
  <2> HIDE DEF p, q, e
  <2>5. e < first + p
    BY <1>2, <2>2, <2>4
  <2> QED
    BY <2>5 DEF p, e
<1>7. \A k \in 1 .. count : Walk!TimeAt(rows, Start(k)) \in Nat /\ Walk!TimeAt(rows, End(k)) \in Nat
  BY <1>5, WalkTimeAtIs DEF blocks
<1>8. \A j, k \in 1 .. count : j < k => Walk!TimeAt(rows, End(j)) < Walk!TimeAt(rows, Start(k))
  BY <1>5, <1>6, WalkTimesOrdered DEF blocks
<1> HIDE DEF Start, End
<1>9. /\ DOMAIN W = 1 .. count
      /\ \A k \in 1 .. count : W[k].start = Walk!TimeAt(rows, Start(k)) /\ W[k].end = Walk!TimeAt(rows, End(k))
  OBVIOUS
<1>10. W \in Seq({W[k] : k \in DOMAIN W})
  <2> DEFINE A == {W[k] : k \in DOMAIN W}
  <2>1. W \in [1 .. count -> A]
    OBVIOUS
  <2> HIDE DEF W, A
  <2>2. W \in Seq(A)
    BY <1>4, <2>1
  <2> QED
    BY <2>2 DEF A
<1> HIDE DEF W
<1>11. \A k \in DOMAIN W : k \in Nat /\ W[k].start \in Nat /\ W[k].end \in Nat
  BY <1>4, <1>7, <1>9
<1>12. \A j, k \in DOMAIN W : j < k => W[j].end < W[k].start
  BY <1>8, <1>9
<1> QED
  BY <1>1, <1>10, <1>11, <1>12

-----------------------------------------------------------------------------
\* The history stays as it is, and so does what is made of it.
WalkStill == walk_candles' = walk_candles /\ walk_dropped' = walk_dropped

LEMMA WalkSameRows ==
  ASSUME WalkStill PROVE Walk!Panel' = Walk!Panel /\ \A who : Walk!RowsFor(who)' = Walk!RowsFor(who)
BY DEF WalkStill, Walk!Panel, Walk!RowsFor, Walk!RowsOf, Walk!LabelBar, Walk!Later

LEMMA WalkSameWindows ==
  ASSUME WalkStill, NEW who
  PROVE  /\ WalkWindowsOf(who)' = WalkWindowsOf(who) /\ Walk!Windows(Walk!Panel)' = Walk!Windows(Walk!Panel)
         /\ Walk!TooFew(Walk!Panel)' <=> Walk!TooFew(Walk!Panel) 
         /\ Walk!TooFew(Walk!RowsFor(who))' <=> Walk!TooFew(Walk!RowsFor(who))
BY DEF WalkStill, WalkWindowsOf, Walk!Panel, Walk!RowsFor, Walk!RowsOf, Walk!LabelBar,
    Walk!Later

LEMMA WalkSameFold ==
  ASSUME WalkStill, NEW f
  PROVE  (\A w : WalkFoldOf(f.who, w)' = WalkFoldOf(f.who, w)) /\ (WalkWindowed(f)' <=> WalkWindowed(f))
<1>1. \A w : WalkFoldOf(f.who, w)' = WalkFoldOf(f.who, w)
  BY DEF WalkStill, WalkFoldOf, Walk!RowsFor, Walk!Panel, Walk!RowsOf, Walk!LabelBar, Walk!Later
<1>2. WalkWindowsOf(f.who)' = WalkWindowsOf(f.who)
  BY WalkSameWindows
<1> QED
  BY <1>1, <1>2 DEF WalkWindowed

-----------------------------------------------------------------------------
\* The steps.
LEMMA WalkSoundFor ==
  ASSUME WalkTyped, NEW who \in Walkers PROVE WalkSound(Walk!RowsFor(who))
BY WalkRowsAre DEF WalkSound

LEMMA WalkPanelIs == Walk!Panel = Walk!RowsFor("panel") /\ "panel" \in Walkers /\ "none" \notin Walkers
BY WalkAssumption DEF Walk!RowsFor, Walkers

LEMMA WalkWindowsOfAre ==
  ASSUME WalkTyped, NEW who \in Walkers, ~Walk!TooFew(Walk!Panel), ~Walk!TooFew(Walk!RowsFor(who))
  PROVE  LET W == WalkWindowsOf(who) IN
         /\ W \in Seq({W[k] : k \in DOMAIN W})
         /\ \A k \in DOMAIN W : k \in Nat /\ W[k].start \in Nat /\ W[k].end \in Nat
         /\ \A j, k \in DOMAIN W : j < k => W[j].end < W[k].start
<1>1. PICK u \in Walkers : WalkWindowsOf(who) = Walk!Windows(Walk!RowsFor(u)) /\ ~Walk!TooFew(Walk!RowsFor(u))
  <2>1. CASE who # "panel" /\ Walk!Windows(Walk!Panel) = <<>>
    BY <2>1 DEF WalkWindowsOf, Walk!RowsFor
  <2>2. CASE ~(who # "panel" /\ Walk!Windows(Walk!Panel) = <<>>)
    BY <2>2, WalkPanelIs DEF WalkWindowsOf
  <2> QED
    BY <2>1, <2>2
<1>2. WalkSound(Walk!RowsFor(u))
  BY WalkSoundFor
<1> QED
  BY <1>1, <1>2, WalkWindowsAre

LEMMA WalkFoldsAgain ==
  ASSUME WalkFolded, WalkStill, NEW f \in walk_folds,
         WalkHeldOut(f) => /\ \A g \in walk_folds' : g.who = f.who => g \in walk_folds
                           /\ walk_walk'.who = f.who => walk_walk'.windows = <<>>
  PROVE  f.who \in Walkers /\ ~Walk!TooFew(Walk!RowsFor(f.who))' /\ (WalkWindowed(f)' \/ WalkHeldOut(f)')
<1>1. f.who \in Walkers /\ ~Walk!TooFew(Walk!RowsFor(f.who)) /\ (WalkWindowed(f) \/ WalkHeldOut(f))
  BY DEF WalkFolded
<1>2. ~Walk!TooFew(Walk!RowsFor(f.who))'
  BY <1>1, WalkSameWindows
<1>3. CASE WalkWindowed(f)
  BY <1>1, <1>2, <1>3, WalkSameFold
<1>4. CASE WalkHeldOut(f)
  <2>1. Walk!RowsFor(f.who)' = Walk!RowsFor(f.who)
    BY WalkSameRows
  <2>2. f.start \in Nat /\ f.train = Walk!Train(Walk!RowsFor(f.who)', f.start) /\ f.judged = {r \in Walk!RowsFor(f.who)' : r.bar >= f.start}
    BY <1>4, <2>1 DEF WalkHeldOut
  <2>3. \A g \in walk_folds' : g.who = f.who => g = f
    BY <1>4 DEF WalkHeldOut
  <2>4. WalkHeldOut(f)'
    BY <1>4, <2>2, <2>3 DEF WalkHeldOut
  <2> QED
    BY <1>1, <1>2, <2>4
<1> QED
  BY <1>1, <1>3, <1>4

LEMMA WalkInitInv == Walk!Init => WalkIInv
<1> SUFFICES ASSUME Walk!Init PROVE WalkIInv
  OBVIOUS
<1>1. walk_candles \in [walk_Coins -> SUBSET Walk!Bars]
  BY DEF Walk!Init
<1>2. walk_walk = Walk!NoWalk /\ walk_folds = {}
  BY DEF Walk!Init
<1> QED
  BY <1>1, <1>2 DEF WalkIInv, WalkTyped, Walks, WalkFolded, Walk!NoWalk

LEMMA WalkUnmoved ==
  ASSUME WalkIInv, WalkStill, UNCHANGED <<walk_walk, walk_folds>> PROVE WalkIInv'
<1>1. WalkTyped'
  BY DEF WalkIInv, WalkTyped, Walk!Bars, WalkStill
<1>2. Walks'
  <2> SUFFICES ASSUME walk_walk.who # "none" PROVE Walks'
    BY DEF Walks
  <2> PICK c : c = walk_walk.who
    OBVIOUS
  <2>1. /\ WalkWindowsOf(c)' = WalkWindowsOf(c) /\ Walk!Windows(Walk!Panel)' = Walk!Windows(Walk!Panel)
        /\ ~Walk!TooFew(Walk!Panel)' /\ ~Walk!TooFew(Walk!RowsFor(c))'
    BY WalkSameWindows DEF WalkIInv, Walks
  <2>2. walk_walk'.who = c /\ walk_walk' = walk_walk
    OBVIOUS
  <2> QED
    BY <2>1, <2>2 DEF WalkIInv, Walks
<1>3. WalkFolded'
  <2>1. \A f \in walk_folds : f.who \in Walkers /\ ~Walk!TooFew(Walk!RowsFor(f.who))' /\ (WalkWindowed(f)' \/ WalkHeldOut(f)')
    BY WalkFoldsAgain DEF WalkIInv, WalkHeldOut
  <2> QED
    BY <2>1 DEF WalkIInv, WalkFolded
<1> QED
  BY <1>1, <1>2, <1>3 DEF WalkIInv

LEMMA WalkTypedAgain ==
  ASSUME WalkTyped, WalkStill, walk_walk'.who \in Walkers \cup {"none"},
         walk_walk' = [who |-> walk_walk'.who, windows |-> walk_walk'.windows, all |-> walk_walk'.all]
  PROVE  WalkTyped'
BY DEF WalkTyped, Walk!Bars, WalkStill

\* A walk of the new windows is one in progress.
LEMMA WalksAgain ==
  ASSUME WalkStill, NEW c \in Walkers, walk_walk'.who = c, ~Walk!TooFew(Walk!Panel), ~Walk!TooFew(Walk!RowsFor(c)),
         walk_walk'.all = Walk!Windows(Walk!Panel),
         walk_walk'.windows \in Seq({WalkWindowsOf(c)[k] : k \in DOMAIN WalkWindowsOf(c)})
  PROVE  Walks'
<1>1. /\ WalkWindowsOf(c)' = WalkWindowsOf(c) /\ Walk!Windows(Walk!Panel)' = Walk!Windows(Walk!Panel)
      /\ ~Walk!TooFew(Walk!Panel)' /\ ~Walk!TooFew(Walk!RowsFor(c))'
  BY WalkSameWindows
<1> QED
  BY <1>1 DEF Walks

LEMMA WalkPanelStep == ASSUME WalkIInv, Walk!WalkPanel PROVE WalkIInv'
<1>1. WalkStill /\ walk_walk.who = "none" /\ ~Walk!TooFew(Walk!Panel) /\ walk_folds' = walk_folds
  BY DEF Walk!WalkPanel, WalkStill
<1>2. walk_walk' = [who |-> "panel", windows |-> Walk!Windows(Walk!Panel), all |-> Walk!Windows(Walk!Panel)]
  BY DEF Walk!WalkPanel, Walk!Begin
<1>3. walk_folds' = {} /\ walk_walk'.who # "none"
  BY <1>1, <1>2 DEF WalkIInv, WalkFolded
<1>4. WalkWindowsOf("panel") = Walk!Windows(Walk!Panel)
  BY DEF WalkWindowsOf
<1>5. walk_walk'.windows \in Seq({WalkWindowsOf("panel")[k] : k \in DOMAIN WalkWindowsOf("panel")})
  BY <1>1, <1>2, <1>4, WalkWindowsOfAre, WalkPanelIs DEF WalkIInv
<1>6. Walks'
  BY <1>1, <1>2, <1>5, WalkPanelIs, WalksAgain
<1>7. WalkTyped'
  BY <1>1, <1>2, WalkPanelIs, WalkTypedAgain DEF WalkIInv
<1>8. WalkFolded'
  BY <1>3 DEF WalkFolded
<1> QED
  BY <1>6, <1>7, <1>8 DEF WalkIInv

LEMMA WalkFoldStep == ASSUME WalkIInv, Walk!Fold PROVE WalkIInv'
<1> PICK c : c = walk_walk.who
  OBVIOUS
<1> PICK w : w = Head(walk_walk.windows)
  OBVIOUS
<1>1. WalkStill /\ c # "none" /\ c \in Walkers /\ walk_walk.windows # <<>>
  BY DEF Walk!Fold, WalkStill, WalkIInv, WalkTyped
<1>2. walk_walk' = [who |-> c, windows |-> Tail(walk_walk.windows), all |-> walk_walk.all]
  <2>1. walk_walk' = [walk_walk EXCEPT !.windows = Tail(walk_walk.windows)]
    BY DEF Walk!Fold
  <2> QED
    BY <2>1 DEF WalkIInv, WalkTyped
<1>3. /\ ~Walk!TooFew(Walk!Panel) /\ ~Walk!TooFew(Walk!RowsFor(c)) /\ walk_walk.all = Walk!Windows(Walk!Panel)
      /\ walk_walk.windows \in Seq({WalkWindowsOf(c)[k] : k \in DOMAIN WalkWindowsOf(c)})
  BY <1>1 DEF WalkIInv, Walks
<1>4. PICK k \in DOMAIN WalkWindowsOf(c) : w = WalkWindowsOf(c)[k]
  <2> DEFINE A == {WalkWindowsOf(c)[k] : k \in DOMAIN WalkWindowsOf(c)}
  <2>1. walk_walk.windows \in Seq(A) /\ walk_walk.windows # <<>>
    BY <1>1, <1>3
  <2> HIDE DEF A
  <2>2. w \in A
    BY <2>1
  <2> QED
    BY <2>2 DEF A
<1>5. Tail(walk_walk.windows) \in Seq({WalkWindowsOf(c)[i] : i \in DOMAIN WalkWindowsOf(c)})
  <2> DEFINE A == {WalkWindowsOf(c)[i] : i \in DOMAIN WalkWindowsOf(c)}
  <2>1. walk_walk.windows \in Seq(A) /\ walk_walk.windows # <<>>
    BY <1>1, <1>3
  <2> HIDE DEF A
  <2>2. Tail(walk_walk.windows) \in Seq(A)
    BY <2>1
  <2> QED
    BY <2>2 DEF A
<1>6. WalkTyped' /\ Walks'
  BY <1>1, <1>2, <1>3, <1>5, WalkTypedAgain, WalksAgain DEF WalkIInv
<1> PICK n : n = WalkFoldOf(c, w)
  OBVIOUS
<1>7. walk_folds' = walk_folds \cup {n} /\ n.who = c
  BY DEF Walk!Fold, Walk!Result, WalkFoldOf
<1>8. n.who \in Walkers /\ ~Walk!TooFew(Walk!RowsFor(n.who))' /\ WalkWindowed(n)'
  <2>1. WalkWindowed(n)
    BY <1>4, <1>7 DEF WalkWindowed
  <2> QED
    BY <1>1, <1>3, <1>7, <2>1, WalkSameFold, WalkSameWindows
<1>9. ASSUME NEW f \in walk_folds
      PROVE  f.who \in Walkers /\ ~Walk!TooFew(Walk!RowsFor(f.who))' /\ (WalkWindowed(f)' \/ WalkHeldOut(f)')
  <2>1. WalkHeldOut(f) => f.who # c
    BY <1>1 DEF WalkHeldOut
  <2>2. WalkHeldOut(f) => \A g \in walk_folds' : g.who = f.who => g \in walk_folds
    BY <1>7, <2>1
  <2>3. WalkHeldOut(f) => walk_walk'.who # f.who
    BY <1>2, <2>1
  <2> QED
    BY <1>1, <2>2, <2>3, WalkFoldsAgain DEF WalkIInv
<1>10. WalkFolded'
  <2>1. walk_walk'.who # "none"
    BY <1>1, <1>2
  <2> QED
    BY <1>7, <1>8, <1>9, <2>1 DEF WalkFolded
<1> QED
  BY <1>6, <1>10 DEF WalkIInv

LEMMA WalkBreakStep == ASSUME WalkIInv, Walk!Break PROVE WalkIInv'
<1> PICK c : c = walk_walk.who
  OBVIOUS
<1>1. WalkStill /\ c # "none" /\ c \in Walkers /\ walk_folds' = walk_folds
  BY DEF Walk!Break, WalkStill, WalkIInv, WalkTyped
<1>2. walk_walk' = [who |-> c, windows |-> <<>>, all |-> walk_walk.all]
  <2>1. walk_walk' = [walk_walk EXCEPT !.windows = <<>>]
    BY DEF Walk!Break
  <2> QED
    BY <2>1 DEF WalkIInv, WalkTyped
<1>3. ~Walk!TooFew(Walk!Panel) /\ ~Walk!TooFew(Walk!RowsFor(c)) /\ walk_walk.all = Walk!Windows(Walk!Panel)
  BY <1>1 DEF WalkIInv, Walks
<1>4. walk_walk'.windows \in Seq({WalkWindowsOf(c)[k] : k \in DOMAIN WalkWindowsOf(c)})
  BY <1>2
<1>5. WalkTyped' /\ Walks'
  BY <1>1, <1>2, <1>3, <1>4, WalkTypedAgain, WalksAgain DEF WalkIInv
<1>6. ASSUME NEW f \in walk_folds
      PROVE  f.who \in Walkers /\ ~Walk!TooFew(Walk!RowsFor(f.who))' /\ (WalkWindowed(f)' \/ WalkHeldOut(f)')
  BY <1>1, <1>2, WalkFoldsAgain DEF WalkIInv
<1>7. WalkFolded'
  <2>1. walk_walk'.who # "none"
    BY <1>1, <1>2
  <2> QED
    BY <1>1, <1>6, <2>1 DEF WalkFolded
<1> QED
  BY <1>5, <1>7 DEF WalkIInv

LEMMA WalkHoldoutStep == ASSUME WalkIInv, Walk!Holdout PROVE WalkIInv'
<1> PICK c : c = walk_walk.who
  OBVIOUS
<1> PICK rows : rows = Walk!RowsFor(c)
  OBVIOUS
<1> DEFINE blocks == Cardinality(Walk!TimesOf(rows))
           at == Walk!LargerOf(1, Walk!SmallerOf(blocks - 1, (blocks * 8) \div 10))
<1> PICK start : start = Walk!TimeAt(rows, at)
  OBVIOUS
<1> PICK n : n = Walk!Result(start, Walk!Train(rows, start), {r \in rows : r.bar >= start})
  OBVIOUS
<1>1. /\ WalkStill /\ c # "none" /\ c \in Walkers /\ walk_walk' = walk_walk /\ walk_walk.windows = <<>>
      /\ \A f \in walk_folds : f.who # c
  BY DEF Walk!Holdout, WalkStill, WalkIInv, WalkTyped, Walk!FoldsOf
<1>2. UNCHANGED walk_folds \/ (~(blocks < 2) /\ walk_folds' = walk_folds \cup {n})
  <2>1. walk_folds' = walk_folds \/ (~(blocks < 2) /\ walk_folds' = {f \in walk_folds : f.who # c} \cup {n})
    <3> HIDE DEF at
    <3>1. at = Walk!LargerOf(1, Walk!SmallerOf(blocks - 1, (blocks * 8) \div 10))
      BY DEF at
    <3> HIDE DEF blocks
    <3>2. blocks = Cardinality(Walk!TimesOf(rows))
      BY DEF blocks
    <3> QED
      <4>1. Walk!Cardinality(Walk!TimesOf(rows)) = blocks
        BY <3>2, WalkCounting
      <4> QED
        BY <3>1, <3>2, <4>1, Zenon DEF Walk!Holdout
  <2>2. {f \in walk_folds : f.who # c} = walk_folds
    BY <1>1
  <2> QED
    BY <2>1, <2>2
<1>3. CASE UNCHANGED walk_folds
  BY <1>1, <1>3, WalkUnmoved
<1>4. CASE ~(blocks < 2) /\ walk_folds' = walk_folds \cup {n}
  <2>1. ~Walk!TooFew(Walk!Panel) /\ ~Walk!TooFew(Walk!RowsFor(c)) /\ walk_walk.all = Walk!Windows(Walk!Panel)
    BY <1>1 DEF WalkIInv, Walks
  <2>2. WalkTyped' /\ Walks'
    <3>1. WalkTyped'
      BY <1>1 DEF WalkIInv, WalkTyped, Walk!Bars, WalkStill
    <3>2. /\ WalkWindowsOf(c)' = WalkWindowsOf(c) /\ Walk!Windows(Walk!Panel)' = Walk!Windows(Walk!Panel)
          /\ ~Walk!TooFew(Walk!Panel)' /\ ~Walk!TooFew(Walk!RowsFor(c))'
      BY <1>1, <2>1, WalkSameWindows
    <3> QED
      BY <1>1, <3>1, <3>2 DEF WalkIInv, Walks
  <2>3. start \in Nat
    <3>1. WalkSound(rows)
      BY <1>1, WalkSoundFor DEF WalkIInv
    <3>2. blocks \in Nat /\ ~(blocks < 2)
      BY <1>4, <3>1, WalkTimesAre
    <3> HIDE DEF blocks
    <3>3. at \in Nat /\ at < blocks
      <4>1. (blocks * 8) \div 10 \in Nat
        BY <3>2, Z3
      <4> QED
        BY <3>2, <4>1 DEF Walk!LargerOf, Walk!SmallerOf
    <3> HIDE DEF at
    <3>4. Walk!TimeAt(rows, at) \in Nat
      BY <3>1, <3>3, WalkTimeAtIs DEF blocks
    <3> QED
      BY <3>4
  <2>4. /\ n.who = c /\ n.start = start /\ n.train = Walk!Train(rows, start)
        /\ n.judged = {r \in rows : r.bar >= start}
    BY DEF Walk!Result
  <2>5. WalkHeldOut(n)'
    <3>1. Walk!RowsFor(c)' = rows
      BY <1>1, WalkSameRows
    <3>2. \A g \in walk_folds' : g.who = c => g = n
      BY <1>1, <1>4
    <3>3. walk_walk'.windows = <<>>
      BY <1>1
    <3>4. n.train = Walk!Train(Walk!RowsFor(n.who)', n.start) /\ n.judged = {r \in Walk!RowsFor(n.who)' : r.bar >= n.start}
      BY <2>4, <3>1
    <3>5. n.start \in Nat /\ \A g \in walk_folds' : g.who = n.who => g = n
      BY <2>3, <2>4, <3>2
    <3> HIDE DEF blocks, at
    <3> QED
      BY <3>3, <3>4, <3>5 DEF WalkHeldOut
  <2>6. n.who \in Walkers /\ ~Walk!TooFew(Walk!RowsFor(n.who))'
    BY <1>1, <2>1, <2>4, WalkSameWindows
  <2>7. ASSUME NEW f \in walk_folds
        PROVE  f.who \in Walkers /\ ~Walk!TooFew(Walk!RowsFor(f.who))' /\ (WalkWindowed(f)' \/ WalkHeldOut(f)')
    <3>1. f.who # c
      BY <1>1
    <3>2. \A g \in walk_folds' : g.who = f.who => g \in walk_folds
      BY <1>4, <2>4, <3>1
    <3>3. walk_walk'.who # f.who
      BY <1>1, <3>1
    <3> QED
      BY <1>1, <3>2, <3>3, WalkFoldsAgain DEF WalkIInv
  <2>8. WalkFolded'
    <3>1. walk_walk'.who # "none"
      BY <1>1
    <3> QED
      BY <1>4, <2>5, <2>6, <2>7, <3>1 DEF WalkFolded
  <2> QED
    BY <2>2, <2>8 DEF WalkIInv
<1> QED
  BY <1>2, <1>3, <1>4

LEMMA WalkSpecialistStep == ASSUME WalkIInv, NEW c \in walk_Coins, Walk!Specialist(c) PROVE WalkIInv'
<1>1. WalkStill /\ walk_folds' = walk_folds /\ c # "panel" /\ c # "none" /\ c \in Walkers
  BY WalkAssumption DEF Walk!Specialist, WalkStill, Walkers
<1>2. ~Walk!TooFew(Walk!RowsFor(c)) /\ \A f \in walk_folds : f.who # c
  BY <1>1 DEF Walk!Specialist, Walk!FoldsOf, Walk!RowsFor
<1>3. walk_walk.who # "none"
  BY WalkAssumption DEF Walk!Specialist, Walk!Done
<1>4. ~Walk!TooFew(Walk!Panel) /\ walk_walk.all = Walk!Windows(Walk!Panel)
  BY <1>3 DEF WalkIInv, Walks
<1>5. walk_walk' = [who |-> c, windows |-> WalkWindowsOf(c), all |-> walk_walk.all]
  <2>1. walk_walk' = [walk_walk EXCEPT !.who = c, !.windows = WalkWindowsOf(c)]
    <3>1. WalkWindowsOf(c) = IF walk_walk.all = <<>> THEN Walk!Windows(Walk!RowsOf(c)) ELSE walk_walk.all
      BY <1>1, <1>4 DEF WalkWindowsOf
    <3> QED
      BY <3>1 DEF Walk!Specialist
  <2>2. walk_walk = [who |-> walk_walk.who, windows |-> walk_walk.windows, all |-> walk_walk.all]
    BY DEF WalkIInv, WalkTyped
  <2> QED
    BY <2>1, <2>2
<1>6. walk_walk'.windows \in Seq({WalkWindowsOf(c)[k] : k \in DOMAIN WalkWindowsOf(c)})
  BY <1>1, <1>2, <1>4, <1>5, WalkWindowsOfAre DEF WalkIInv
<1>7. WalkTyped' /\ Walks'
  BY <1>1, <1>2, <1>4, <1>5, <1>6, WalkTypedAgain, WalksAgain DEF WalkIInv
<1>8. ASSUME NEW f \in walk_folds
      PROVE  f.who \in Walkers /\ ~Walk!TooFew(Walk!RowsFor(f.who))' /\ (WalkWindowed(f)' \/ WalkHeldOut(f)')
  <2>1. walk_walk'.who # f.who
    BY <1>2, <1>5
  <2> QED
    BY <1>1, <2>1, WalkFoldsAgain DEF WalkIInv
<1>9. WalkFolded'
  <2>1. walk_walk'.who # "none"
    BY <1>1, <1>5
  <2> QED
    BY <1>1, <1>8, <2>1 DEF WalkFolded
<1> QED
  BY <1>7, <1>9 DEF WalkIInv

LEMMA WalkStepInv == WalkIInv /\ [Walk!Next]_(Walk!vars) => WalkIInv'
<1> SUFFICES ASSUME WalkIInv, [Walk!Next]_(Walk!vars) PROVE WalkIInv'
  OBVIOUS
<1>1. CASE Walk!NotEnough
  BY <1>1, WalkUnmoved DEF Walk!NotEnough, WalkStill
<1>2. CASE Walk!WalkPanel
  BY <1>2, WalkPanelStep
<1>3. CASE Walk!Fold
  BY <1>3, WalkFoldStep
<1>4. CASE Walk!Break
  BY <1>4, WalkBreakStep
<1>5. CASE Walk!Holdout
  BY <1>5, WalkHoldoutStep
<1>6. CASE Walk!Finish
  BY <1>6, WalkUnmoved DEF Walk!Finish, WalkStill
<1>7. CASE \E c \in walk_Coins : Walk!Specialist(c)
  BY <1>7, WalkSpecialistStep
<1>8. CASE UNCHANGED Walk!vars
  BY <1>8, WalkUnmoved DEF Walk!vars, WalkStill
<1> QED
  BY <1>1, <1>2, <1>3, <1>4, <1>5, <1>6, <1>7, <1>8 DEF Walk!Next

-----------------------------------------------------------------------------
\* What a fold of either kind is.
LEMMA WalkFoldIs ==
  ASSUME WalkIInv, NEW f \in walk_folds
  PROVE  /\ f.start \in Nat /\ f.train = Walk!Train(Walk!RowsFor(f.who), f.start) /\ f.who \in Walkers
         /\ f.judged \subseteq {r \in Walk!RowsFor(f.who) : r.bar >= f.start}
<1>1. f.who \in Walkers /\ ~Walk!TooFew(Walk!RowsFor(f.who)) /\ (WalkWindowed(f) \/ WalkHeldOut(f))
  BY DEF WalkIInv, WalkFolded
<1>2. ~Walk!TooFew(Walk!Panel)
  BY DEF WalkIInv, WalkFolded, Walks
<1>3. CASE WalkWindowed(f)
  <2>1. PICK k \in DOMAIN WalkWindowsOf(f.who) : f = WalkFoldOf(f.who, WalkWindowsOf(f.who)[k])
    BY <1>3 DEF WalkWindowed
  <2>2. WalkWindowsOf(f.who)[k].start \in Nat
    BY <1>1, <1>2, WalkWindowsOfAre DEF WalkIInv
  <2> PICK w : w = WalkWindowsOf(f.who)[k]
    OBVIOUS
  <2>3. f.start = w.start /\ f.train = Walk!Train(Walk!RowsFor(f.who), w.start) /\ f.judged = Walk!Judged(Walk!RowsFor(f.who), w)
    BY <2>1 DEF WalkFoldOf
  <2>4. f.judged \subseteq {r \in Walk!RowsFor(f.who) : r.bar >= w.start}
    <3>1. \A r \in Walk!RowsFor(f.who) : r.bar \in Nat
      BY <1>1, WalkRowsAre DEF WalkIInv
    <3>2. \A r \in Walk!RowsFor(f.who) : w.start <= r.bar => r.bar >= w.start
      BY <2>2, <3>1
    <3> QED
      BY <2>3, <3>2 DEF Walk!Judged
  <2> QED
    BY <1>1, <2>2, <2>3, <2>4
<1>4. CASE WalkHeldOut(f)
  BY <1>1, <1>4 DEF WalkHeldOut
<1> QED
  BY <1>1, <1>3, <1>4

LEMMA WalkInvOut == WalkIInv => Walk!OutOfSample
<1> SUFFICES ASSUME WalkIInv PROVE Walk!OutOfSample
  OBVIOUS
<1>1. ASSUME NEW f \in walk_folds
      PROVE  /\ \A r \in f.train :
                  r.label + 1 <= f.start + Walk!LargerOf(0, Walk!Holes(r) - (Walk!LargerOf(walk_Embargo, walk_Horizon) - walk_Horizon))
             /\ f.train \cap f.judged = {}
  <2>1. /\ f.start \in Nat /\ f.train = Walk!Train(Walk!RowsFor(f.who), f.start)
        /\ f.judged \subseteq {r \in Walk!RowsFor(f.who) : r.bar >= f.start}
    BY WalkFoldIs
  <2>2. \A r \in Walk!RowsFor(f.who) : r.bar \in Nat /\ r.label \in Nat
    BY WalkFoldIs, WalkRowsAre DEF WalkIInv
  <2>3. Walk!LargerOf(walk_Embargo, walk_Horizon) \in Nat /\ walk_Horizon \in Nat
    BY WalkAssumption DEF Walk!LargerOf
  <2>4. \A r \in f.train : r \in Walk!RowsFor(f.who) /\ r.bar < f.start - Walk!LargerOf(walk_Embargo, walk_Horizon)
    BY <2>1 DEF Walk!Train, Walk!Cutoff
  <2>5. ASSUME NEW r \in f.train
        PROVE  r.label + 1 <= f.start + Walk!LargerOf(0, Walk!Holes(r) - (Walk!LargerOf(walk_Embargo, walk_Horizon) - walk_Horizon))
    <3> DEFINE L == Walk!LargerOf(walk_Embargo, walk_Horizon)
               H == r.label - r.bar - walk_Horizon
    <3>1. L \in Nat /\ r.bar \in Nat /\ r.label \in Nat /\ r.bar < f.start - L
      BY <2>2, <2>3, <2>4
    <3> HIDE DEF L
    <3>2. r.label + 1 <= f.start + (H - (L - walk_Horizon))
      BY <2>1, <2>3, <3>1
    <3>3. H - (L - walk_Horizon) \in Int
      BY <2>3, <3>1
    <3> HIDE DEF H
    <3>4. r.label + 1 <= f.start + Walk!LargerOf(0, H - (L - walk_Horizon))
      BY <2>1, <3>1, <3>2, <3>3 DEF Walk!LargerOf
    <3> QED
      BY <3>4 DEF L, H, Walk!Holes
  <2>6. f.train \cap f.judged = {}
    <3>1. \A r \in f.train : r.bar \in Nat /\ ~(r.bar >= f.start)
      BY <2>1, <2>2, <2>3, <2>4
    <3> QED
      BY <2>1, <3>1
  <2> QED
    BY <2>5, <2>6
<1>2. ASSUME NEW f \in walk_folds, NEW g \in walk_folds, f.who = g.who, f # g PROVE f.judged \cap g.judged = {}
  <2>1. WalkWindowed(f) /\ WalkWindowed(g)
    BY <1>2 DEF WalkIInv, WalkFolded, WalkHeldOut
  <2> PICK c : c = f.who
    OBVIOUS
  <2> PICK W : W = WalkWindowsOf(c)
    OBVIOUS
  <2>2. PICK j \in DOMAIN W, k \in DOMAIN W : f = WalkFoldOf(c, W[j]) /\ g = WalkFoldOf(c, W[k])
    BY <1>2, <2>1 DEF WalkWindowed
  <2>3. c \in Walkers /\ ~Walk!TooFew(Walk!RowsFor(c)) /\ ~Walk!TooFew(Walk!Panel)
    BY DEF WalkIInv, WalkFolded, Walks
  <2>4. /\ \A i \in DOMAIN W : i \in Nat /\ W[i].start \in Nat /\ W[i].end \in Nat
        /\ \A i, o \in DOMAIN W : i < o => W[i].end < W[o].start
    BY <2>3, WalkWindowsOfAre DEF WalkIInv
  <2>5. \A r \in Walk!RowsFor(c) : r.bar \in Nat
    BY <2>3, WalkRowsAre DEF WalkIInv
  <2>6. j < k \/ k < j
    BY <1>2, <2>2, <2>4
  <2>7. /\ \A r \in f.judged : r \in Walk!RowsFor(c) /\ W[j].start <= r.bar /\ r.bar <= W[j].end
        /\ \A r \in g.judged : r \in Walk!RowsFor(c) /\ W[k].start <= r.bar /\ r.bar <= W[k].end
    BY <2>2 DEF WalkFoldOf, Walk!Judged
  <2>8. W[j].end < W[k].start \/ W[k].end < W[j].start
    BY <2>4, <2>6
  <2> SUFFICES ASSUME NEW r \in f.judged, r \in g.judged PROVE FALSE
    OBVIOUS
  <2>9. W[j].start <= r.bar /\ r.bar <= W[j].end /\ W[k].start <= r.bar /\ r.bar <= W[k].end /\ r.bar \in Nat
    BY <2>5, <2>7
  <2> QED
    BY <2>4, <2>8, <2>9
<1>3. ASSUME NEW f \in walk_folds, NEW g \in walk_folds, f.who # "panel", g.who = "panel", f.start = g.start
      PROVE  f.train \subseteq g.train
  <2>1. /\ f.train = Walk!Train(Walk!RowsFor(f.who), f.start) /\ f.who \in Walkers
        /\ g.train = Walk!Train(Walk!RowsFor("panel"), f.start)
    BY <1>3, WalkFoldIs
  <2>2. Walk!RowsFor(f.who) \subseteq Walk!RowsFor("panel")
    BY <1>3, <2>1 DEF Walk!RowsFor, Walk!Panel, Walkers
  <2> QED
    BY <2>1, <2>2 DEF Walk!Train
<1> QED
  BY <1>1, <1>2, <1>3 DEF Walk!OutOfSample

\* Only its own steps touch WalkForward's variables.
LEMMA WalkSteps == [Next]_vars => [Walk!Next]_(Walk!vars)
BY DEF Next, vars, candleVars, storeVars, acceptVars, walkVars, quantVars, marketVars, macroVars,
    Walk!vars

-----------------------------------------------------------------------------
\* QuantArtifacts.

\* Artifacts counts as this module does.
LEMMA ArtifactsCounting ==
  \A S : Artifacts!Cardinality(S) = Cardinality(S) /\ Artifacts!IsFiniteSet(S) = IsFiniteSet(S)
BY DEF Artifacts!Cardinality, Cardinality, Artifacts!IsFiniteSet, IsFiniteSet

ArtifactsThreadT ==
  [pc : {"idle", "candles", "horizon", "load"}, since : Nat, at : Nat,
   read : Seq(Int), parts : Seq(Seq(Int))]

ArtifactsServedT == [since : Nat, parts : Seq(Seq(Int))]

ArtifactsTrainerT == [number : Nat, at : Nat, part : 0 .. 3]

ArtifactsTyped ==
  /\ quant_trainings \in Nat /\ quant_good \in 0 .. quant_trainings
  /\ quant_file \in [Artifacts!Names -> [1 .. 3 -> Int]]
  /\ quant_cache \in [Artifacts!Names -> Seq(Int)]
  /\ quant_trainer \in ArtifactsTrainerT
  /\ \/ quant_trainer = Artifacts!NoTrainer
     \/ quant_trainer.at \in DOMAIN quant_Horizons /\ quant_good < quant_trainer.number /\ quant_trainer.number <= quant_trainings
  /\ quant_thread \in [quant_Threads -> ArtifactsThreadT]
  /\ quant_served \in [quant_Threads -> ArtifactsServedT]

\* An artifact is of one training, not older than s.
ArtifactsWhole(a, s) == a[1] = a[2] /\ a[2] = a[3] /\ a[1] \in Int /\ a[1] >= s

\* What is written, but for what was torn.
ArtifactsWritten ==
  \A h \in Artifacts!Names \ quant_overlapped :
    /\ ~Artifacts!Saving(h) => ArtifactsWhole(quant_file[h], quant_good)
    /\ Artifacts!Saving(h) =>
         /\ \A k \in 1 .. 3 : k < quant_trainer.part => quant_file[h][k] = quant_trainer.number
         /\ quant_file[h][quant_trainer.part] \in {Artifacts!Torn, quant_trainer.number}

\* The horizons that the retraining has behind it.
ArtifactsTrained ==
  \A i \in DOMAIN quant_Horizons :
    i < quant_trainer.at /\ quant_Horizons[i] \notin quant_overlapped /\ ~Artifacts!Saving(quant_Horizons[i])
      => \A k \in 1 .. 3 : quant_file[quant_Horizons[i]][k] = quant_trainer.number

\* What is in memory.
ArtifactsKept == \A h \in Artifacts!Names \ quant_overlapped : quant_cache[h] # Artifacts!NoArtifact => ArtifactsWhole(quant_cache[h], quant_good)

\* A forecast in progress: what it has of the horizons before, and of the one that it loads.
ArtifactsAsked(c) ==
  /\ c.since <= quant_good
  /\ c.pc # "idle" => c.at >= 1 /\ c.at <= Len(quant_Horizons) + 1 /\ Len(c.parts) = c.at - 1
  /\ \A i \in DOMAIN c.parts : quant_Horizons[i] \notin quant_overlapped => ArtifactsWhole(c.parts[i], c.since)

ArtifactsLoaded(c) ==
  c.pc = "load" =>
    /\ c.at \in DOMAIN quant_Horizons /\ Len(c.read) <= 2
    /\ quant_Horizons[c.at] \notin quant_overlapped =>
         /\ ~Artifacts!Saving(quant_Horizons[c.at])
         /\ \A k \in DOMAIN c.read : c.read[k] = quant_file[quant_Horizons[c.at]][k]

ArtifactsAnswered(s) == \A i \in DOMAIN s.parts : quant_Horizons[i] \notin quant_overlapped => ArtifactsWhole(s.parts[i], s.since)

ArtifactsForecasts == \A t \in quant_Threads : ArtifactsAsked(quant_thread[t]) /\ ArtifactsLoaded(quant_thread[t]) /\ ArtifactsAnswered(quant_served[t])

ArtifactsIInv == ArtifactsTyped /\ ArtifactsWritten /\ ArtifactsTrained /\ ArtifactsKept /\ ArtifactsForecasts

-----------------------------------------------------------------------------
LEMMA ArtifactsNoTrainerIs == Artifacts!NoTrainer \in ArtifactsTrainerT /\ Artifacts!NoTrainer.part = 0 /\ Artifacts!NoTrainer.at = 0
BY DEF Artifacts!NoTrainer, ArtifactsTrainerT

LEMMA ArtifactsIdleIs ==
  /\ Artifacts!Idle \in ArtifactsThreadT /\ Artifacts!Idle.pc = "idle" /\ Artifacts!Idle.since = 0 /\ Artifacts!Idle.at = 1
  /\ Artifacts!Idle.read = <<>> /\ Artifacts!Idle.parts = <<>>
BY DEF Artifacts!Idle, ArtifactsThreadT

LEMMA ArtifactsNoForecastIs == Artifacts!NoForecast \in ArtifactsServedT /\ Artifacts!NoForecast.since = 0 /\ Artifacts!NoForecast.parts = <<>>
BY DEF Artifacts!NoForecast, ArtifactsServedT

LEMMA ArtifactsHorizonsAre ==
  /\ Len(quant_Horizons) \in Nat \ {0} /\ DOMAIN quant_Horizons = 1 .. Len(quant_Horizons)
  /\ \A i : i \in DOMAIN quant_Horizons <=> i \in Nat /\ 1 <= i /\ i <= Len(quant_Horizons)
BY ArtifactsAssumption

LEMMA ArtifactsHorizonIn == \A i \in 1 .. Len(quant_Horizons) : i \in DOMAIN quant_Horizons /\ quant_Horizons[i] \in Artifacts!Names
BY ArtifactsHorizonsAre DEF Artifacts!Names

LEMMA ArtifactsInitInv ==
  ASSUME Artifacts!Init PROVE ArtifactsIInv
<1>1. ArtifactsTyped
  <2>1. quant_file \in [Artifacts!Names -> [1 .. 3 -> Int]]
    BY DEF Artifacts!Init
  <2>2. quant_cache \in [Artifacts!Names -> Seq(Int)]
    BY DEF Artifacts!Init, Artifacts!NoArtifact
  <2> QED
    BY <2>1, <2>2, ArtifactsNoTrainerIs, ArtifactsIdleIs,
        ArtifactsNoForecastIs DEF Artifacts!Init, ArtifactsTyped
<1>2. quant_trainer.part = 0 /\ quant_trainer.at = 0
  BY ArtifactsNoTrainerIs DEF Artifacts!Init
<1>3. ArtifactsWritten /\ ArtifactsTrained /\ ArtifactsKept
  BY <1>2, ArtifactsHorizonsAre DEF Artifacts!Init, ArtifactsWritten, ArtifactsTrained,
      ArtifactsKept, Artifacts!Saving, ArtifactsWhole
<1>4. ArtifactsForecasts
  BY ArtifactsIdleIs, ArtifactsNoForecastIs DEF Artifacts!Init, ArtifactsForecasts,
      ArtifactsAsked, ArtifactsLoaded, ArtifactsAnswered
<1> QED
  BY <1>1, <1>3, <1>4 DEF ArtifactsIInv

-----------------------------------------------------------------------------
\* The retraining.
LEMMA ArtifactsRetrainInv ==
  ASSUME ArtifactsIInv, Artifacts!Retrain PROVE ArtifactsIInv'
<1>1. /\ quant_trainer = Artifacts!NoTrainer /\ quant_trainings' = quant_trainings + 1
      /\ quant_trainer' = [number |-> quant_trainings + 1, at |-> 1, part |-> 0]
      /\ UNCHANGED <<quant_file, quant_cache, quant_thread, quant_served, quant_good,
                     quant_overlapped, quant_forecasts>>
  BY DEF Artifacts!Retrain
<1>2. quant_trainer'.part = 0 /\ quant_trainer'.at = 1 /\ quant_trainer'.number = quant_trainings + 1 /\ quant_trainer.part = 0
  BY <1>1, ArtifactsNoTrainerIs
<1>3. 1 \in DOMAIN quant_Horizons
  BY ArtifactsHorizonsAre
<1>4. ArtifactsTyped'
  BY <1>1, <1>2, <1>3 DEF ArtifactsIInv, ArtifactsTyped, ArtifactsTrainerT
<1>5. \A h : Artifacts!Saving(h)' = FALSE /\ Artifacts!Saving(h) = FALSE
  BY <1>2 DEF Artifacts!Saving
<1>6. ArtifactsWritten' /\ ArtifactsKept'
  BY <1>1, <1>5 DEF ArtifactsIInv, ArtifactsWritten, ArtifactsKept
<1>7. ArtifactsTrained'
  BY <1>1, <1>2, ArtifactsHorizonsAre DEF ArtifactsTrained
<1>8. ArtifactsForecasts'
  BY <1>1, <1>5 DEF ArtifactsIInv, ArtifactsForecasts, ArtifactsAsked, ArtifactsLoaded,
      ArtifactsAnswered
<1> QED
  BY <1>4, <1>6, <1>7, <1>8 DEF ArtifactsIInv

LEMMA ArtifactsTrainFailsInv ==
  ASSUME ArtifactsIInv, Artifacts!TrainFails PROVE ArtifactsIInv'
<1>1. /\ quant_trainer.part = 0 /\ quant_trainer' = Artifacts!NoTrainer
      /\ UNCHANGED <<quant_file, quant_cache, quant_thread, quant_served, quant_good,
                     quant_overlapped, quant_trainings, quant_forecasts>>
  BY DEF Artifacts!TrainFails
<1>2. quant_trainer'.part = 0 /\ quant_trainer'.at = 0
  BY <1>1, ArtifactsNoTrainerIs
<1>3. ArtifactsTyped'
  BY <1>1, ArtifactsNoTrainerIs DEF ArtifactsIInv, ArtifactsTyped
<1>4. \A h : Artifacts!Saving(h)' = FALSE /\ Artifacts!Saving(h) = FALSE
  BY <1>1, <1>2 DEF Artifacts!Saving
<1>5. ArtifactsWritten' /\ ArtifactsKept'
  BY <1>1, <1>4 DEF ArtifactsIInv, ArtifactsWritten, ArtifactsKept
<1>6. ArtifactsTrained'
  BY <1>1, <1>2, ArtifactsHorizonsAre DEF ArtifactsTrained
<1>7. ArtifactsForecasts'
  BY <1>1, <1>4 DEF ArtifactsIInv, ArtifactsForecasts, ArtifactsAsked, ArtifactsLoaded,
      ArtifactsAnswered
<1> QED
  BY <1>3, <1>5, <1>6, <1>7 DEF ArtifactsIInv

\* What the forecasts have does not change while their files are written, but for
\* those of a horizon that one of them is loading.
LEMMA ArtifactsForecastsKept ==
  ASSUME ArtifactsIInv, quant_overlapped \subseteq quant_overlapped', quant_good' = quant_good,
         UNCHANGED <<quant_thread, quant_served>>,
         \A t \in quant_Threads :
           quant_thread[t].pc = "load" /\ quant_thread[t].at \in DOMAIN quant_Horizons /\ quant_Horizons[quant_thread[t].at] \notin quant_overlapped'
             => ~Artifacts!Saving(quant_Horizons[quant_thread[t].at])' /\ quant_file'[quant_Horizons[quant_thread[t].at]] = quant_file[quant_Horizons[quant_thread[t].at]]
  PROVE  ArtifactsForecasts'
<1>1. ASSUME NEW t \in quant_Threads PROVE ArtifactsAsked(quant_thread[t])' /\ ArtifactsLoaded(quant_thread[t])' /\ ArtifactsAnswered(quant_served[t])'
  <2>1. ArtifactsAsked(quant_thread[t]) /\ ArtifactsLoaded(quant_thread[t]) /\ ArtifactsAnswered(quant_served[t])
    BY DEF ArtifactsIInv, ArtifactsForecasts
  <2>2. ArtifactsAsked(quant_thread[t])'
    BY <2>1 DEF ArtifactsAsked
  <2>3. ArtifactsLoaded(quant_thread[t])'
    BY <2>1 DEF ArtifactsLoaded
  <2>4. ArtifactsAnswered(quant_served[t])'
    BY <2>1 DEF ArtifactsAnswered
  <2> QED
    BY <2>2, <2>3, <2>4
<1> QED
  BY <1>1 DEF ArtifactsForecasts

\* A part of the horizon in hand is written, and those of no other.
LEMMA ArtifactsPartWritten ==
  ASSUME ArtifactsIInv, quant_trainer # Artifacts!NoTrainer, NEW k \in 1 .. 3, NEW v \in Int,
         quant_file' = [quant_file EXCEPT ![quant_Horizons[quant_trainer.at]][k] = v]
  PROVE  /\ quant_Horizons[quant_trainer.at] \in Artifacts!Names
         /\ quant_file' \in [Artifacts!Names -> [1 .. 3 -> Int]]
         /\ \A g \in Artifacts!Names : g # quant_Horizons[quant_trainer.at] => quant_file'[g] = quant_file[g]
         /\ \A j \in 1 .. 3 : quant_file'[quant_Horizons[quant_trainer.at]][j] = IF j = k THEN v ELSE quant_file[quant_Horizons[quant_trainer.at]][j]
<1> DEFINE h == quant_Horizons[quant_trainer.at]
<1>1. h \in Artifacts!Names /\ quant_file \in [Artifacts!Names -> [1 .. 3 -> Int]]
  BY ArtifactsHorizonIn, ArtifactsHorizonsAre DEF ArtifactsIInv, ArtifactsTyped
<1>2. quant_file' = [quant_file EXCEPT ![h] = [quant_file[h] EXCEPT ![k] = v]]
  BY <1>1
<1>3. quant_file[h] \in [1 .. 3 -> Int]
  BY <1>1
<1> HIDE DEF h
<1>4. [quant_file[h] EXCEPT ![k] = v] \in [1 .. 3 -> Int]
      /\ \A j \in 1 .. 3 : [quant_file[h] EXCEPT ![k] = v][j] = IF j = k THEN v ELSE quant_file[h][j]
  BY <1>3
<1>5. /\ quant_file' \in [Artifacts!Names -> [1 .. 3 -> Int]] /\ \A g \in Artifacts!Names : g # h => quant_file'[g] = quant_file[g]
      /\ quant_file'[h] = [quant_file[h] EXCEPT ![k] = v]
  BY <1>1, <1>2, <1>4
<1> QED
  BY <1>1, <1>4, <1>5 DEF h

LEMMA ArtifactsSaveBeginInv ==
  ASSUME ArtifactsIInv, Artifacts!SaveBegin PROVE ArtifactsIInv'
<1> DEFINE h == quant_Horizons[quant_trainer.at]
           next == quant_trainer.part + 1
<1>1. /\ quant_trainer # Artifacts!NoTrainer /\ quant_trainer.part < 3 /\ \A k \in 1 .. quant_trainer.part : quant_file[h][k] # Artifacts!Torn
      /\ quant_file' = [quant_file EXCEPT ![h][next] = Artifacts!Torn]
      /\ quant_trainer' = [quant_trainer EXCEPT !.part = next]
      /\ quant_overlapped' = IF Artifacts!Loading(h) THEN quant_overlapped \cup {h} ELSE quant_overlapped
      /\ UNCHANGED <<quant_cache, quant_thread, quant_served, quant_good, quant_trainings,
                     quant_forecasts>>
  BY DEF Artifacts!SaveBegin
<1>2. /\ quant_trainer \in ArtifactsTrainerT /\ quant_trainer.at \in DOMAIN quant_Horizons /\ quant_good < quant_trainer.number
      /\ quant_trainer.number <= quant_trainings
  BY <1>1 DEF ArtifactsIInv, ArtifactsTyped
<1>3. /\ quant_trainer' \in ArtifactsTrainerT /\ quant_trainer'.part = next /\ quant_trainer'.at = quant_trainer.at
      /\ quant_trainer'.number = quant_trainer.number /\ next \in 1 .. 3
  BY <1>1, <1>2 DEF ArtifactsTrainerT
<1>4. /\ h \in Artifacts!Names /\ quant_file' \in [Artifacts!Names -> [1 .. 3 -> Int]]
      /\ \A g \in Artifacts!Names : g # h => quant_file'[g] = quant_file[g]
      /\ \A j \in 1 .. 3 : quant_file'[h][j] = IF j = next THEN Artifacts!Torn ELSE quant_file[h][j]
  <2>1. Artifacts!Torn \in Int
    BY DEF Artifacts!Torn
  <2> QED
    BY <1>1, <1>3, <2>1, ArtifactsPartWritten
<1>5. \A g : (Artifacts!Saving(g)' <=> g = h) /\ (g # h => ~Artifacts!Saving(g))
  BY <1>2, <1>3 DEF Artifacts!Saving
<1> HIDE DEF h
<1>6. quant_overlapped \subseteq quant_overlapped' /\ (Artifacts!Loading(h) => h \in quant_overlapped')
  BY <1>1
<1>7. ArtifactsTyped'
  BY <1>1, <1>2, <1>3, <1>4 DEF ArtifactsIInv, ArtifactsTyped
<1>8. \A k \in 1 .. 3 : k < next /\ h \notin quant_overlapped => quant_file[h][k] = quant_trainer.number
  <2>1. SUFFICES ASSUME NEW k \in 1 .. 3, k < next, h \notin quant_overlapped PROVE quant_file[h][k] = quant_trainer.number
    OBVIOUS
  <2>2. Artifacts!Saving(h) /\ k <= quant_trainer.part /\ quant_trainer.part \in 1 .. 3
    BY <1>2, <2>1 DEF Artifacts!Saving, ArtifactsTrainerT, h
  <2>3. quant_file[h][k] # Artifacts!Torn
    BY <1>1, <2>2
  <2>4. /\ \A j \in 1 .. 3 : j < quant_trainer.part => quant_file[h][j] = quant_trainer.number
        /\ quant_file[h][quant_trainer.part] \in {Artifacts!Torn, quant_trainer.number}
    BY <1>4, <2>1, <2>2 DEF ArtifactsIInv, ArtifactsWritten
  <2> QED
    BY <2>2, <2>3, <2>4
<1>9. ArtifactsWritten'
  <2>1. ASSUME NEW g \in Artifacts!Names \ quant_overlapped', g # h PROVE ~Artifacts!Saving(g)' /\ ArtifactsWhole(quant_file'[g], quant_good')
    BY <1>1, <1>4, <1>5, <1>6, <2>1 DEF ArtifactsIInv, ArtifactsWritten
  <2>2. ASSUME h \notin quant_overlapped'
        PROVE  /\ \A k \in 1 .. 3 : k < quant_trainer'.part => quant_file'[h][k] = quant_trainer'.number
               /\ quant_file'[h][quant_trainer'.part] = Artifacts!Torn
    BY <1>3, <1>4, <1>6, <1>8, <2>2
  <2> QED
    BY <1>5, <2>1, <2>2 DEF ArtifactsWritten
<1>10. ArtifactsTrained'
  <2>1. ASSUME NEW i \in DOMAIN quant_Horizons, i < quant_trainer'.at, quant_Horizons[i] \notin quant_overlapped', ~Artifacts!Saving(quant_Horizons[i])',
               NEW k \in 1 .. 3
        PROVE  quant_file'[quant_Horizons[i]][k] = quant_trainer'.number
    <3>1. quant_Horizons[i] # h /\ quant_Horizons[i] \in Artifacts!Names /\ ~Artifacts!Saving(quant_Horizons[i]) /\ quant_Horizons[i] \notin quant_overlapped
      BY <1>5, <1>6, <2>1, ArtifactsHorizonIn, ArtifactsHorizonsAre
    <3>2. quant_file[quant_Horizons[i]][k] = quant_trainer.number
      BY <1>3, <2>1, <3>1 DEF ArtifactsIInv, ArtifactsTrained
    <3> QED
      BY <1>3, <1>4, <3>1, <3>2
  <2> QED
    BY <2>1 DEF ArtifactsTrained
<1>11. ArtifactsKept'
  BY <1>1, <1>6 DEF ArtifactsIInv, ArtifactsKept
<1>12. ArtifactsForecasts'
  <2>1. ASSUME NEW t \in quant_Threads, quant_thread[t].pc = "load", quant_thread[t].at \in DOMAIN quant_Horizons,
               quant_Horizons[quant_thread[t].at] \notin quant_overlapped'
        PROVE  ~Artifacts!Saving(quant_Horizons[quant_thread[t].at])' /\ quant_file'[quant_Horizons[quant_thread[t].at]] = quant_file[quant_Horizons[quant_thread[t].at]]
    <3>1. quant_Horizons[quant_thread[t].at] # h /\ quant_Horizons[quant_thread[t].at] \in Artifacts!Names
      BY <1>6, <2>1, ArtifactsHorizonIn, ArtifactsHorizonsAre DEF Artifacts!Loading
    <3> QED
      BY <1>1, <1>4, <1>5, <3>1
  <2> QED
    BY <1>1, <1>6, <2>1, ArtifactsForecastsKept
<1> QED
  BY <1>7, <1>9, <1>10, <1>11, <1>12 DEF ArtifactsIInv

LEMMA ArtifactsSaveEndInv ==
  ASSUME ArtifactsIInv, Artifacts!SaveEnd PROVE ArtifactsIInv'
<1>0. PICK h : h = quant_Horizons[quant_trainer.at]
  OBVIOUS
<1>1. /\ quant_trainer.part > 0 /\ quant_file[h][quant_trainer.part] = Artifacts!Torn
      /\ quant_file' = [quant_file EXCEPT ![h][quant_trainer.part] = quant_trainer.number]
      /\ quant_trainer' = IF quant_trainer.part = 3 /\ quant_trainer.at < Len(quant_Horizons)
                          THEN [quant_trainer EXCEPT !.at = @ + 1, !.part = 0] ELSE quant_trainer
      /\ quant_overlapped' = IF Artifacts!Loading(h) THEN quant_overlapped \cup {h} ELSE quant_overlapped
      /\ UNCHANGED <<quant_cache, quant_thread, quant_served, quant_good, quant_trainings,
                     quant_forecasts>>
  BY <1>0 DEF Artifacts!SaveEnd
<1>2. /\ quant_trainer \in ArtifactsTrainerT /\ quant_trainer # Artifacts!NoTrainer /\ quant_trainer.at \in DOMAIN quant_Horizons /\ quant_good < quant_trainer.number
      /\ quant_trainer.number <= quant_trainings /\ quant_trainer.part \in 1 .. 3
  BY <1>1, ArtifactsNoTrainerIs DEF ArtifactsIInv, ArtifactsTyped, ArtifactsTrainerT
<1>3. \/ quant_trainer' = quant_trainer /\ ~(quant_trainer.part = 3 /\ quant_trainer.at < Len(quant_Horizons))
      \/ /\ quant_trainer' \in ArtifactsTrainerT /\ quant_trainer'.at = quant_trainer.at + 1 /\ quant_trainer'.part = 0
         /\ quant_trainer'.number = quant_trainer.number /\ quant_trainer.part = 3 /\ quant_trainer'.at \in DOMAIN quant_Horizons
  <2>1. CASE quant_trainer.part = 3 /\ quant_trainer.at < Len(quant_Horizons)
    <3>1. quant_trainer' = [number |-> quant_trainer.number, at |-> quant_trainer.at + 1, part |-> 0]
      BY <1>1, <1>2, <2>1 DEF ArtifactsTrainerT
    <3> QED
      BY <1>2, <2>1, <3>1, ArtifactsHorizonsAre DEF ArtifactsTrainerT
  <2>2. CASE ~(quant_trainer.part = 3 /\ quant_trainer.at < Len(quant_Horizons))
    BY <1>1, <2>2
  <2> QED
    BY <2>1, <2>2
<1>4. /\ h \in Artifacts!Names /\ quant_file' \in [Artifacts!Names -> [1 .. 3 -> Int]]
      /\ \A g \in Artifacts!Names : g # h => quant_file'[g] = quant_file[g]
      /\ \A j \in 1 .. 3 : quant_file'[h][j] = IF j = quant_trainer.part THEN quant_trainer.number ELSE quant_file[h][j]
  <2>1. quant_trainer.number \in Int
    BY <1>2 DEF ArtifactsTrainerT
  <2> QED
    BY <1>0, <1>1, <1>2, <2>1, ArtifactsPartWritten
<1>5. \A g : (Artifacts!Saving(g) <=> g = h) /\ (Artifacts!Saving(g)' => g = h)
  BY <1>0, <1>2, <1>3 DEF Artifacts!Saving
<1>6. quant_overlapped \subseteq quant_overlapped' /\ (Artifacts!Loading(h) => h \in quant_overlapped')
  BY <1>1
<1>7. ArtifactsTyped'
  BY <1>1, <1>2, <1>3, <1>4 DEF ArtifactsIInv, ArtifactsTyped
<1>8. h \notin quant_overlapped => \A k \in 1 .. 3 : k <= quant_trainer.part => quant_file'[h][k] = quant_trainer.number
  BY <1>2, <1>4, <1>5 DEF ArtifactsIInv, ArtifactsWritten
<1>9. ArtifactsWritten'
  <2>1. ASSUME NEW g \in Artifacts!Names \ quant_overlapped', g # h PROVE ~Artifacts!Saving(g)' /\ ArtifactsWhole(quant_file'[g], quant_good')
    BY <1>1, <1>4, <1>5, <1>6, <2>1 DEF ArtifactsIInv, ArtifactsWritten
  <2>2. ASSUME h \notin quant_overlapped', ~Artifacts!Saving(h)' PROVE ArtifactsWhole(quant_file'[h], quant_good')
    <3>1. quant_trainer.part = 3
      BY <1>0, <1>2, <1>3, <2>2 DEF Artifacts!Saving
    <3>2. \A k \in 1 .. 3 : quant_file'[h][k] = quant_trainer.number
      BY <1>6, <1>8, <2>2, <3>1
    <3> QED
      BY <1>1, <1>2, <3>2 DEF ArtifactsWhole, ArtifactsTrainerT, ArtifactsIInv, ArtifactsTyped
  <2>3. ASSUME h \notin quant_overlapped', Artifacts!Saving(h)'
        PROVE  /\ \A k \in 1 .. 3 : k < quant_trainer'.part => quant_file'[h][k] = quant_trainer'.number
               /\ quant_file'[h][quant_trainer'.part] = quant_trainer'.number
    <3>1. quant_trainer' = quant_trainer
      BY <1>3, <2>3 DEF Artifacts!Saving
    <3> QED
      BY <1>2, <1>6, <1>8, <2>3, <3>1
  <2> QED
    BY <1>5, <2>1, <2>2, <2>3 DEF ArtifactsWritten
<1>10. ArtifactsTrained'
  <2>1. ASSUME NEW i \in DOMAIN quant_Horizons, i < quant_trainer'.at, quant_Horizons[i] \notin quant_overlapped', ~Artifacts!Saving(quant_Horizons[i])',
               NEW k \in 1 .. 3
        PROVE  quant_file'[quant_Horizons[i]][k] = quant_trainer'.number
    <3>1. quant_Horizons[i] \in Artifacts!Names /\ quant_Horizons[i] \notin quant_overlapped /\ quant_trainer'.number = quant_trainer.number
      BY <1>3, <1>6, <2>1, ArtifactsHorizonIn, ArtifactsHorizonsAre
    <3>2. CASE quant_Horizons[i] = h
      <4>1. quant_trainer.part = 3
        BY <1>0, <1>2, <1>3, <2>1, <3>2 DEF Artifacts!Saving
      <4> QED
        BY <1>8, <3>1, <3>2, <4>1
    <3>3. CASE quant_Horizons[i] # h
      <4>1. i < quant_trainer.at
        BY <1>0, <1>2, <1>3, <2>1, <3>3, ArtifactsHorizonsAre DEF ArtifactsTrainerT
      <4>2. quant_file[quant_Horizons[i]][k] = quant_trainer.number
        BY <1>5, <3>1, <3>3, <4>1 DEF ArtifactsIInv, ArtifactsTrained
      <4> QED
        BY <1>4, <3>1, <3>3, <4>2
    <3> QED
      BY <3>2, <3>3
  <2> QED
    BY <2>1 DEF ArtifactsTrained
<1>11. ArtifactsKept'
  BY <1>1, <1>6 DEF ArtifactsIInv, ArtifactsKept
<1>12. ArtifactsForecasts'
  <2>1. ASSUME NEW t \in quant_Threads, quant_thread[t].pc = "load", quant_thread[t].at \in DOMAIN quant_Horizons,
               quant_Horizons[quant_thread[t].at] \notin quant_overlapped'
        PROVE  ~Artifacts!Saving(quant_Horizons[quant_thread[t].at])' /\ quant_file'[quant_Horizons[quant_thread[t].at]] = quant_file[quant_Horizons[quant_thread[t].at]]
    <3>1. quant_Horizons[quant_thread[t].at] # h /\ quant_Horizons[quant_thread[t].at] \in Artifacts!Names
      BY <1>6, <2>1, ArtifactsHorizonIn, ArtifactsHorizonsAre DEF Artifacts!Loading
    <3> QED
      BY <1>1, <1>4, <1>5, <3>1
  <2> QED
    BY <1>1, <1>6, <2>1, ArtifactsForecastsKept
<1> QED
  BY <1>7, <1>9, <1>10, <1>11, <1>12 DEF ArtifactsIInv

\* All horizons are written: none is older than this training.
LEMMA ArtifactsRetrainDoneInv ==
  ASSUME ArtifactsIInv, Artifacts!RetrainDone PROVE ArtifactsIInv'
<1> DEFINE h == quant_Horizons[quant_trainer.at]
<1>1. /\ quant_trainer.part = 3 /\ quant_trainer.at = Len(quant_Horizons) /\ quant_file[h][3] # Artifacts!Torn
      /\ quant_cache' = [g \in Artifacts!Names |-> Artifacts!NoArtifact] /\ quant_trainer' = Artifacts!NoTrainer /\ quant_good' = quant_trainer.number
      /\ quant_overlapped' = quant_overlapped \cup {g \in Artifacts!Names : Artifacts!Loading(g)}
      /\ UNCHANGED <<quant_file, quant_thread, quant_served, quant_trainings, quant_forecasts>>
  BY DEF Artifacts!RetrainDone, Artifacts!Cleared
<1>2. /\ quant_trainer \in ArtifactsTrainerT /\ quant_trainer.at \in DOMAIN quant_Horizons /\ quant_good < quant_trainer.number
      /\ quant_trainer.number <= quant_trainings /\ quant_good \in Nat
  BY <1>1, ArtifactsNoTrainerIs DEF ArtifactsIInv, ArtifactsTyped, ArtifactsTrainerT
<1>3. \A g : (Artifacts!Saving(g) <=> g = h) /\ Artifacts!Saving(g)' = FALSE
  BY <1>1, ArtifactsNoTrainerIs DEF Artifacts!Saving
<1>4. ArtifactsTyped'
  BY <1>1, <1>2, ArtifactsNoTrainerIs DEF ArtifactsIInv, ArtifactsTyped, ArtifactsTrainerT,
      Artifacts!NoArtifact
<1>5. ASSUME NEW g \in Artifacts!Names \ quant_overlapped PROVE \A k \in 1 .. 3 : quant_file[g][k] = quant_trainer.number
  <2>1. CASE g = h
    BY <1>1, <1>3, <1>5, <2>1 DEF ArtifactsIInv, ArtifactsWritten
  <2>2. CASE g # h
    <3>1. PICK i \in DOMAIN quant_Horizons : g = quant_Horizons[i]
      BY <1>5 DEF Artifacts!Names
    <3>2. i < quant_trainer.at
      BY <1>1, <2>2, <3>1, ArtifactsHorizonsAre
    <3> QED
      BY <1>3, <1>5, <2>2, <3>1, <3>2 DEF ArtifactsIInv, ArtifactsTrained
  <2> QED
    BY <2>1, <2>2
<1>6. ArtifactsWritten'
  BY <1>1, <1>2, <1>3, <1>5 DEF ArtifactsWritten, ArtifactsWhole, ArtifactsTrainerT
<1>7. ArtifactsTrained'
  BY <1>1, ArtifactsNoTrainerIs, ArtifactsHorizonsAre DEF ArtifactsTrained
<1>8. ArtifactsKept'
  BY <1>1 DEF ArtifactsKept
<1>9. ASSUME NEW t \in quant_Threads PROVE ArtifactsAsked(quant_thread[t])' /\ ArtifactsLoaded(quant_thread[t])' /\ ArtifactsAnswered(quant_served[t])'
  <2>1. ArtifactsAsked(quant_thread[t]) /\ ArtifactsLoaded(quant_thread[t]) /\ ArtifactsAnswered(quant_served[t]) /\ quant_thread[t] \in ArtifactsThreadT
    BY DEF ArtifactsIInv, ArtifactsForecasts, ArtifactsTyped
  <2>2. ArtifactsAsked(quant_thread[t])'
    BY <1>1, <1>2, <2>1 DEF ArtifactsAsked, ArtifactsThreadT, ArtifactsTrainerT
  <2>3. quant_thread[t].pc = "load" => quant_Horizons[quant_thread[t].at] \in quant_overlapped'
    BY <1>1, <2>1, ArtifactsHorizonIn, ArtifactsHorizonsAre DEF ArtifactsLoaded,
        Artifacts!Loading
  <2>4. ArtifactsLoaded(quant_thread[t])'
    BY <1>1, <2>1, <2>3 DEF ArtifactsLoaded
  <2>5. ArtifactsAnswered(quant_served[t])'
    BY <1>1, <2>1 DEF ArtifactsAnswered
  <2> QED
    BY <2>2, <2>4, <2>5
<1> QED
  BY <1>4, <1>6, <1>7, <1>8, <1>9 DEF ArtifactsIInv, ArtifactsForecasts

LEMMA ArtifactsRestartInv ==
  ASSUME ArtifactsIInv, Artifacts!Restart PROVE ArtifactsIInv'
<1>1. /\ quant_overlapped' = quant_overlapped \cup {h \in Artifacts!Names : Artifacts!Saving(h)}
      /\ quant_trainer' = Artifacts!NoTrainer /\ quant_cache' = [h \in Artifacts!Names |-> Artifacts!NoArtifact]
      /\ quant_thread' = [t \in quant_Threads |-> Artifacts!Idle] /\ quant_served' = [t \in quant_Threads |-> Artifacts!NoForecast]
      /\ UNCHANGED <<quant_file, quant_good, quant_trainings, quant_forecasts>>
  BY DEF Artifacts!Restart
<1>2. ArtifactsTyped'
  BY <1>1, ArtifactsNoTrainerIs, ArtifactsIdleIs, ArtifactsNoForecastIs DEF ArtifactsIInv,
      ArtifactsTyped, Artifacts!NoArtifact
<1>3. \A g : Artifacts!Saving(g)' = FALSE
  BY <1>1, ArtifactsNoTrainerIs DEF Artifacts!Saving
<1>4. ArtifactsWritten' /\ ArtifactsKept'
  BY <1>1, <1>3 DEF ArtifactsIInv, ArtifactsWritten, ArtifactsKept
<1>5. ArtifactsTrained'
  BY <1>1, ArtifactsNoTrainerIs, ArtifactsHorizonsAre DEF ArtifactsTrained
<1>6. ArtifactsForecasts'
  BY <1>1, ArtifactsIdleIs, ArtifactsNoForecastIs DEF ArtifactsIInv, ArtifactsTyped,
      ArtifactsForecasts, ArtifactsAsked, ArtifactsLoaded, ArtifactsAnswered
<1> QED
  BY <1>2, <1>4, <1>5, <1>6 DEF ArtifactsIInv

-----------------------------------------------------------------------------
\* The forecasts: what one of them does is of no account to the others, and the
\* artifacts in memory are whole.
LEMMA ArtifactsOneForecast ==
  ASSUME ArtifactsIInv, NEW t \in quant_Threads, NEW c \in ArtifactsThreadT, NEW a \in ArtifactsServedT,
         quant_thread' = [quant_thread EXCEPT ![t] = c], quant_served' = [quant_served EXCEPT ![t] = a],
         UNCHANGED <<quant_file, quant_trainer, quant_good, quant_trainings>>,
                     quant_overlapped \subseteq quant_overlapped',
         quant_cache' \in [Artifacts!Names -> Seq(Int)],
         \A h \in Artifacts!Names \ quant_overlapped' : quant_cache'[h] # Artifacts!NoArtifact => quant_cache'[h] = quant_cache[h] \/ ArtifactsWhole(quant_cache'[h], quant_good),
         ArtifactsAsked(c)', ArtifactsLoaded(c)', ArtifactsAnswered(a)'
  PROVE  ArtifactsIInv'
<1>1. ArtifactsTyped'
  BY DEF ArtifactsIInv, ArtifactsTyped
<1>2. \A h : Artifacts!Saving(h)' <=> Artifacts!Saving(h)
  BY DEF Artifacts!Saving
<1>3. ArtifactsWritten' /\ ArtifactsTrained' /\ ArtifactsKept'
  BY <1>2 DEF ArtifactsIInv, ArtifactsWritten, ArtifactsTrained, ArtifactsKept
<1>4. ASSUME NEW u \in quant_Threads PROVE ArtifactsAsked(quant_thread[u])' /\ ArtifactsLoaded(quant_thread[u])' /\ ArtifactsAnswered(quant_served[u])'
  <2>1. CASE u = t
    <3>1. quant_thread'[u] = c /\ quant_served'[u] = a
      BY <2>1 DEF ArtifactsIInv, ArtifactsTyped
    <3> QED
      BY <3>1 DEF ArtifactsAsked, ArtifactsLoaded, ArtifactsAnswered, Artifacts!Saving
  <2>2. CASE u # t
    <3>1. quant_thread'[u] = quant_thread[u] /\ quant_served'[u] = quant_served[u]
      BY <2>2 DEF ArtifactsIInv, ArtifactsTyped
    <3>2. ArtifactsAsked(quant_thread[u]) /\ ArtifactsLoaded(quant_thread[u]) /\ ArtifactsAnswered(quant_served[u])
      BY DEF ArtifactsIInv, ArtifactsForecasts
    <3>3. ArtifactsAsked(quant_thread[u])'
      BY <3>1, <3>2 DEF ArtifactsAsked
    <3>4. ArtifactsLoaded(quant_thread[u])'
      BY <1>2, <3>1, <3>2 DEF ArtifactsLoaded
    <3>5. ArtifactsAnswered(quant_served[u])'
      BY <3>1, <3>2 DEF ArtifactsAnswered
    <3> QED
      BY <3>3, <3>4, <3>5
  <2> QED
    BY <2>1, <2>2
<1> QED
  BY <1>1, <1>3, <1>4 DEF ArtifactsIInv, ArtifactsForecasts

LEMMA ArtifactsPredictInv ==
  ASSUME ArtifactsIInv, NEW t \in quant_Threads, Artifacts!Predict(t) PROVE ArtifactsIInv'
<1>1. /\ quant_thread' = [quant_thread EXCEPT ![t] = [Artifacts!Idle EXCEPT !.pc = "candles", !.since = quant_good]]
      /\ UNCHANGED <<quant_file, quant_cache, quant_trainer, quant_served, quant_good,
                     quant_overlapped, quant_trainings>>
  BY DEF Artifacts!Predict
<1>2. PICK c : c = [pc |-> "candles", since |-> quant_good, at |-> 1, read |-> <<>>,
                                                                                 parts |-> <<>>]
  OBVIOUS
<1>3. [Artifacts!Idle EXCEPT !.pc = "candles", !.since = quant_good] = c
  <2>1. [Artifacts!Idle EXCEPT !.pc = "candles"] = [pc |-> "candles", since |-> 0, at |-> 1, read |-> <<>>,
                                                                                                        parts |-> <<>>]
    BY DEF Artifacts!Idle
  <2>2. [Artifacts!Idle EXCEPT !.pc = "candles", !.since = quant_good] = [[Artifacts!Idle EXCEPT !.pc = "candles"] EXCEPT !.since = quant_good]
    OBVIOUS
  <2>3. [[pc |-> "candles", since |-> 0, at |-> 1, read |-> <<>>,
                                                              parts |-> <<>>] EXCEPT !.since = quant_good] = c
    BY <1>2
  <2> QED
    BY <2>1, <2>2, <2>3
<1>4. c \in ArtifactsThreadT
  BY <1>2 DEF ArtifactsThreadT, ArtifactsIInv, ArtifactsTyped
<1>5. c.pc = "candles" /\ c.since = quant_good /\ c.at = 1 /\ c.parts = <<>>
  BY <1>2
<1>6. ArtifactsAsked(c)' /\ ArtifactsLoaded(c)'
  BY <1>1, <1>5, ArtifactsHorizonsAre DEF ArtifactsAsked, ArtifactsLoaded, ArtifactsIInv,
      ArtifactsTyped
<1>7. ArtifactsAnswered(quant_served[t])'
  BY <1>1 DEF ArtifactsIInv, ArtifactsForecasts, ArtifactsAnswered
<1> QED
  BY <1>1, <1>3, <1>4, <1>6, <1>7, ArtifactsOneForecast DEF ArtifactsIInv, ArtifactsTyped

LEMMA ArtifactsCandlesInv ==
  ASSUME ArtifactsIInv, NEW t \in quant_Threads, NEW fetched \in BOOLEAN, Artifacts!Candles(t, fetched) PROVE ArtifactsIInv'
<1>1. /\ quant_thread[t].pc = "candles"
      /\ quant_thread' = [quant_thread EXCEPT ![t] = IF fetched THEN [quant_thread[t] EXCEPT !.pc = "horizon"] ELSE Artifacts!Idle]
      /\ UNCHANGED <<quant_file, quant_cache, quant_trainer, quant_served, quant_good,
                     quant_overlapped, quant_trainings>>
  BY DEF Artifacts!Candles, ArtifactsIInv, ArtifactsTyped
<1>2. PICK c : c = IF fetched THEN [quant_thread[t] EXCEPT !.pc = "horizon"] ELSE Artifacts!Idle
  OBVIOUS
<1>3. quant_thread[t] \in ArtifactsThreadT /\ ArtifactsAsked(quant_thread[t])
  BY DEF ArtifactsIInv, ArtifactsTyped, ArtifactsForecasts
<1>4. /\ c \in ArtifactsThreadT /\ c.pc \in {"horizon", "idle"}
      /\ \/ c = Artifacts!Idle
         \/ c.since = quant_thread[t].since /\ c.at = quant_thread[t].at /\ c.parts = quant_thread[t].parts
  <2>1. CASE fetched
    BY <1>2, <1>3, <2>1 DEF ArtifactsThreadT
  <2>2. CASE ~fetched
    BY <1>2, <2>2, ArtifactsIdleIs
  <2> QED
    BY <2>1, <2>2
<1>5. ArtifactsLoaded(c)'
  BY <1>4 DEF ArtifactsLoaded
<1>6. ArtifactsAsked(c)'
  BY <1>1, <1>3, <1>4, ArtifactsIdleIs DEF ArtifactsAsked, ArtifactsIInv, ArtifactsTyped
<1>7. ArtifactsAnswered(quant_served[t])'
  BY <1>1 DEF ArtifactsIInv, ArtifactsForecasts, ArtifactsAnswered
<1> QED
  BY <1>1, <1>2, <1>4, <1>5, <1>6, <1>7, ArtifactsOneForecast DEF ArtifactsIInv, ArtifactsTyped

\* One more artifact for the forecast, whole and of the newest training.
LEMMA ArtifactsOneMore ==
  ASSUME ArtifactsIInv, NEW t \in quant_Threads, NEW c \in ArtifactsThreadT, NEW a \in Seq(Int),
         quant_thread[t].pc # "idle", quant_thread[t].at \in DOMAIN quant_Horizons, UNCHANGED quant_good, quant_overlapped \subseteq quant_overlapped',
         quant_Horizons[quant_thread[t].at] \notin quant_overlapped' => ArtifactsWhole(a, quant_good),
         c.since = quant_thread[t].since, c.at = quant_thread[t].at + 1, c.parts = Append(quant_thread[t].parts, a)
  PROVE  ArtifactsAsked(c)'
<1>1. ArtifactsAsked(quant_thread[t]) /\ quant_thread[t] \in ArtifactsThreadT
  BY DEF ArtifactsIInv, ArtifactsTyped, ArtifactsForecasts
<1>2. PICK parts \in Seq(Seq(Int)) : parts = quant_thread[t].parts
  BY <1>1 DEF ArtifactsThreadT
<1>3. /\ Len(c.parts) = Len(parts) + 1 /\ DOMAIN c.parts = 1 .. Len(parts) + 1
      /\ c.parts[Len(parts) + 1] = a /\ \A i \in 1 .. Len(parts) : c.parts[i] = parts[i]
  BY <1>2
<1>4. Len(parts) = quant_thread[t].at - 1 /\ quant_thread[t].at \in 1 .. Len(quant_Horizons) /\ Len(parts) \in Nat
  <2>1. Len(quant_thread[t].parts) = quant_thread[t].at - 1
    BY <1>1 DEF ArtifactsAsked
  <2>2. quant_thread[t].at \in 1 .. Len(quant_Horizons)
    BY ArtifactsHorizonsAre
  <2>3. Len(parts) \in Nat
    OBVIOUS
  <2>4. Len(parts) = quant_thread[t].at - 1
    BY <1>2, <2>1
  <2> QED
    BY <2>2, <2>3, <2>4
<1>5. ASSUME NEW i \in DOMAIN c.parts, quant_Horizons[i] \notin quant_overlapped' PROVE ArtifactsWhole(c.parts[i], c.since)
  <2>1. CASE i = Len(parts) + 1
    <3>1. ArtifactsWhole(a, quant_good) /\ c.parts[i] = a
      BY <1>3, <1>4, <1>5, <2>1
    <3>2. quant_thread[t].since <= quant_good /\ quant_thread[t].since \in Nat /\ quant_good \in Nat
      BY <1>1 DEF ArtifactsAsked, ArtifactsThreadT, ArtifactsIInv, ArtifactsTyped
    <3>3. a[1] = a[2] /\ a[2] = a[3] /\ a[1] \in Int /\ a[1] >= quant_good
      BY <3>1 DEF ArtifactsWhole
    <3>4. a[1] >= c.since
      <4> c.since = quant_thread[t].since
        OBVIOUS
      <4> QED
        BY <3>2, <3>3
    <3>5. ArtifactsWhole(a, c.since)
      BY <3>3, <3>4 DEF ArtifactsWhole
    <3> QED
      BY <3>1, <3>5
  <2>2. CASE i # Len(parts) + 1
    <3>a. i \in 1 .. Len(parts) + 1
      BY <1>3, <1>5
    <3>b. i \in 1 .. Len(parts)
      BY <1>4, <2>2, <3>a
    <3>1. i \in DOMAIN parts /\ quant_Horizons[i] \notin quant_overlapped /\ c.parts[i] = parts[i]
      BY <1>3, <1>5, <3>b
    <3>2. \A k \in DOMAIN parts : quant_Horizons[k] \notin quant_overlapped => ArtifactsWhole(parts[k], quant_thread[t].since)
      BY <1>1, <1>2 DEF ArtifactsAsked
    <3> QED
      BY <1>2, <3>1, <3>2
  <2> QED
    BY <2>1, <2>2
<1>6. c.since <= quant_good /\ c.at >= 1 /\ c.at <= Len(quant_Horizons) + 1 /\ Len(c.parts) = c.at - 1
  <2>1. c.since <= quant_good /\ Len(c.parts) = Len(parts) + 1
    BY <1>1, <1>3 DEF ArtifactsAsked
  <2> QED
    <3>1. quant_thread[t].at \in Nat /\ 1 <= quant_thread[t].at /\ quant_thread[t].at <= Len(quant_Horizons) /\ Len(quant_Horizons) \in Nat
      BY ArtifactsHorizonsAre
    <3>2. c.at \in Nat /\ c.at >= 1 /\ c.at <= Len(quant_Horizons) + 1 /\ quant_thread[t].at = c.at - 1
      BY <3>1
    <3>3. Len(c.parts) = quant_thread[t].at
      BY <1>4, <2>1, <3>1
    <3> QED
      BY <2>1, <3>2, <3>3
<1> QED
  BY <1>5, <1>6 DEF ArtifactsAsked

\* The record of a forecast, its fields written out.
LEMMA ArtifactsLoads ==
  ASSUME NEW c \in ArtifactsThreadT
  PROVE  [c EXCEPT !.pc = "load", !.read = <<>>]
         = [pc |-> "load", since |-> c.since, at |-> c.at, read |-> <<>>, parts |-> c.parts]
<1>0. c = [pc |-> c.pc, since |-> c.since, at |-> c.at, read |-> c.read, parts |-> c.parts]
  BY DEF ArtifactsThreadT
<1>1. [c EXCEPT !.pc = "load", !.read = <<>>] = [[c EXCEPT !.pc = "load"] EXCEPT !.read = <<>>]
  OBVIOUS
<1>2. [c EXCEPT !.pc = "load"]
      = [pc |-> "load", since |-> c.since, at |-> c.at, read |-> c.read, parts |-> c.parts]
  BY <1>0
<1>3. [[pc |-> "load", since |-> c.since, at |-> c.at, read |-> c.read, parts |-> c.parts] EXCEPT !.read = <<>>]
      = [pc |-> "load", since |-> c.since, at |-> c.at, read |-> <<>>, parts |-> c.parts]
  OBVIOUS
<1> QED
  BY <1>1, <1>2, <1>3, Zenon

LEMMA ArtifactsGrows ==
  ASSUME NEW c \in ArtifactsThreadT, NEW v, NEW w
  PROVE  [c EXCEPT !.parts = v, !.at = w]
         = [pc |-> c.pc, since |-> c.since, at |-> w, read |-> c.read, parts |-> v]
<1>0. c = [pc |-> c.pc, since |-> c.since, at |-> c.at, read |-> c.read, parts |-> c.parts]
  BY DEF ArtifactsThreadT
<1>1. [c EXCEPT !.parts = v, !.at = w] = [[c EXCEPT !.parts = v] EXCEPT !.at = w]
  OBVIOUS
<1>2. [c EXCEPT !.parts = v] = [pc |-> c.pc, since |-> c.since, at |-> c.at, read |-> c.read, parts |-> v]
  BY <1>0
<1>3. [[pc |-> c.pc, since |-> c.since, at |-> c.at, read |-> c.read, parts |-> v] EXCEPT !.at = w]
      = [pc |-> c.pc, since |-> c.since, at |-> w, read |-> c.read, parts |-> v]
  OBVIOUS
<1> QED
  BY <1>1, <1>2, <1>3, Zenon

LEMMA ArtifactsEnds ==
  ASSUME NEW c \in ArtifactsThreadT, NEW v, NEW w
  PROVE  [c EXCEPT !.pc = "horizon", !.parts = v, !.at = w]
         = [pc |-> "horizon", since |-> c.since, at |-> w, read |-> c.read, parts |-> v]
<1>0. c = [pc |-> c.pc, since |-> c.since, at |-> c.at, read |-> c.read, parts |-> c.parts]
  BY DEF ArtifactsThreadT
<1>1. [c EXCEPT !.pc = "horizon", !.parts = v, !.at = w]
      = [[[c EXCEPT !.pc = "horizon"] EXCEPT !.parts = v] EXCEPT !.at = w]
  OBVIOUS
<1>2. [c EXCEPT !.pc = "horizon"]
      = [pc |-> "horizon", since |-> c.since, at |-> c.at, read |-> c.read, parts |-> c.parts]
  BY <1>0
<1>3. [[pc |-> "horizon", since |-> c.since, at |-> c.at, read |-> c.read, parts |-> c.parts] EXCEPT !.parts = v]
      = [pc |-> "horizon", since |-> c.since, at |-> c.at, read |-> c.read, parts |-> v]
  OBVIOUS
<1>4. [[pc |-> "horizon", since |-> c.since, at |-> c.at, read |-> c.read, parts |-> v] EXCEPT !.at = w]
      = [pc |-> "horizon", since |-> c.since, at |-> w, read |-> c.read, parts |-> v]
  OBVIOUS
<1> QED
  BY <1>1, <1>2, <1>3, <1>4, Zenon

LEMMA ArtifactsHorizonInv ==
  ASSUME ArtifactsIInv, NEW t \in quant_Threads, Artifacts!Horizon(t) PROVE ArtifactsIInv'
<1> DEFINE h == quant_Horizons[quant_thread[t].at]
<1>1. /\ quant_thread[t].pc = "horizon" /\ quant_thread[t].at <= Len(quant_Horizons)
      /\ quant_thread' = [quant_thread EXCEPT ![t] =
                      IF quant_cache[h] # Artifacts!NoArtifact
                        THEN [quant_thread[t] EXCEPT !.parts = Append(quant_thread[t].parts, quant_cache[h]), !.at = quant_thread[t].at + 1]
                        ELSE [quant_thread[t] EXCEPT !.pc = "load", !.read = <<>>]]
      /\ quant_overlapped' = IF quant_cache[h] = Artifacts!NoArtifact /\ Artifacts!Saving(h) THEN quant_overlapped \cup {h} ELSE quant_overlapped
      /\ UNCHANGED <<quant_file, quant_cache, quant_trainer, quant_served, quant_good,
                     quant_trainings>>
  BY DEF Artifacts!Horizon, ArtifactsIInv, ArtifactsTyped
<1>2. quant_thread[t] \in ArtifactsThreadT /\ ArtifactsAsked(quant_thread[t]) /\ ArtifactsAnswered(quant_served[t])
  BY DEF ArtifactsIInv, ArtifactsTyped, ArtifactsForecasts
<1>3. quant_thread[t].at \in DOMAIN quant_Horizons /\ h \in Artifacts!Names /\ quant_thread[t].at \in Nat
  <2>1. quant_thread[t].at >= 1 /\ quant_thread[t].at \in Nat
    BY <1>1, <1>2 DEF ArtifactsAsked, ArtifactsThreadT
  <2> QED
    BY <1>1, <2>1, ArtifactsHorizonIn, ArtifactsHorizonsAre
<1>4. quant_overlapped \subseteq quant_overlapped'
  BY <1>1
<1>5. ArtifactsAnswered(quant_served[t])'
  BY <1>1, <1>2, <1>4 DEF ArtifactsAnswered
<1>6. quant_served' = [quant_served EXCEPT ![t] = quant_served[t]] /\ quant_served[t] \in ArtifactsServedT /\ quant_cache \in [Artifacts!Names -> Seq(Int)]
  BY <1>1 DEF ArtifactsIInv, ArtifactsTyped
<1>7. CASE quant_cache[h] # Artifacts!NoArtifact
  <2>1. PICK c : c = [pc |-> quant_thread[t].pc, since |-> quant_thread[t].since, at |-> quant_thread[t].at + 1,
                      read |-> quant_thread[t].read, parts |-> Append(quant_thread[t].parts, quant_cache[h])]
    OBVIOUS
  <2>2. [quant_thread[t] EXCEPT !.parts = Append(quant_thread[t].parts, quant_cache[h]), !.at = quant_thread[t].at + 1] = c
    BY <1>2, <2>1, ArtifactsGrows, Zenon
  <2>3. quant_thread' = [quant_thread EXCEPT ![t] = c]
    BY <1>1, <1>7, <2>2
  <2>4. /\ c.pc = "horizon" /\ c.since = quant_thread[t].since /\ c.at = quant_thread[t].at + 1
        /\ c.parts = Append(quant_thread[t].parts, quant_cache[h])
    BY <1>1, <2>1
  <2>5. c \in ArtifactsThreadT
    <3>1. Append(quant_thread[t].parts, quant_cache[h]) \in Seq(Seq(Int))
      BY <1>2, <1>3, <1>6 DEF ArtifactsThreadT
    <3> QED
      BY <1>2, <1>3, <2>1, <3>1 DEF ArtifactsThreadT
  <2>6. h \notin quant_overlapped' => ArtifactsWhole(quant_cache[h], quant_good)
    BY <1>3, <1>4, <1>7 DEF ArtifactsIInv, ArtifactsKept
  <2>7. ArtifactsAsked(c)'
    BY <1>1, <1>3, <1>4, <1>6, <2>4, <2>5, <2>6, ArtifactsOneMore
  <2>8. ArtifactsLoaded(c)'
    BY <2>4 DEF ArtifactsLoaded
  <2> QED
    BY <1>1, <1>4, <1>5, <1>6, <2>3, <2>5, <2>7, <2>8, ArtifactsOneForecast
<1>8. CASE quant_cache[h] = Artifacts!NoArtifact
  <2>1. PICK c : c = [pc |-> "load", since |-> quant_thread[t].since, at |-> quant_thread[t].at,
                      read |-> <<>>, parts |-> quant_thread[t].parts]
    OBVIOUS
  <2>2. [quant_thread[t] EXCEPT !.pc = "load", !.read = <<>>] = c
    BY <1>2, <2>1, ArtifactsLoads, Zenon
  <2>3. quant_thread' = [quant_thread EXCEPT ![t] = c]
    BY <1>1, <1>8, <2>2
  <2>4. /\ c.pc = "load" /\ c.since = quant_thread[t].since /\ c.at = quant_thread[t].at
        /\ c.parts = quant_thread[t].parts /\ c.read = <<>>
    BY <2>1
  <2>5. c \in ArtifactsThreadT
    BY <1>2, <2>1 DEF ArtifactsThreadT
  <2>6. ArtifactsAsked(c)'
    BY <1>1, <1>2, <1>4, <2>4 DEF ArtifactsAsked
  <2>7. ArtifactsLoaded(c)'
    <3>1. quant_Horizons[c.at] \notin quant_overlapped' => ~Artifacts!Saving(h)
      BY <1>1, <1>8, <2>4
    <3>2. quant_Horizons[c.at] \notin quant_overlapped' => ~Artifacts!Saving(quant_Horizons[c.at])'
      BY <1>1, <2>4, <3>1 DEF Artifacts!Saving
    <3> QED
      BY <1>3, <2>4, <3>2 DEF ArtifactsLoaded
  <2> QED
    BY <1>1, <1>4, <1>5, <1>6, <2>3, <2>5, <2>6, <2>7, ArtifactsOneForecast
<1> QED
  BY <1>7, <1>8

LEMMA ArtifactsReadInv ==
  ASSUME ArtifactsIInv, NEW t \in quant_Threads, Artifacts!Read(t) PROVE ArtifactsIInv'
<1>0. PICK h : h = quant_Horizons[quant_thread[t].at]
  OBVIOUS
<1>1. PICK piece : piece = quant_file[h][Len(quant_thread[t].read) + 1]
  OBVIOUS
<1>2. PICK read : read = Append(quant_thread[t].read, piece)
  OBVIOUS
<1>3. /\ quant_thread[t].pc = "load"
      /\ IF piece = Artifacts!Torn
         THEN /\ quant_thread' = [quant_thread EXCEPT ![t] = Artifacts!Idle]
              /\ quant_served' = [quant_served EXCEPT ![t] = Artifacts!NoForecast] /\ UNCHANGED quant_cache
         ELSE IF Len(read) < 3 THEN quant_thread' = [quant_thread EXCEPT ![t].read = read] /\ UNCHANGED <<quant_cache,
                                                                                                          quant_served>>
         ELSE /\ quant_cache' = [quant_cache EXCEPT ![h] = read]
              /\ quant_thread' = [quant_thread EXCEPT ![t] = [quant_thread[t] EXCEPT !.pc = "horizon", !.parts = Append(quant_thread[t].parts, read),
                                                                 !.at = quant_thread[t].at + 1]]
              /\ UNCHANGED quant_served
      /\ UNCHANGED <<quant_file, quant_trainer, quant_good, quant_overlapped, quant_trainings>>
  BY <1>0, <1>1, <1>2 DEF Artifacts!Read
<1>4. quant_thread[t] \in ArtifactsThreadT /\ ArtifactsAsked(quant_thread[t]) /\ ArtifactsLoaded(quant_thread[t]) /\ ArtifactsAnswered(quant_served[t])
  BY DEF ArtifactsIInv, ArtifactsTyped, ArtifactsForecasts
<1>5. quant_thread[t].at \in DOMAIN quant_Horizons /\ h \in Artifacts!Names /\ quant_thread[t].at \in Nat
  BY <1>0, <1>3, <1>4, ArtifactsHorizonIn, ArtifactsHorizonsAre DEF ArtifactsLoaded,
      ArtifactsThreadT
<1>6. /\ quant_thread[t].read \in Seq(Int) /\ Len(quant_thread[t].read) \in Nat /\ Len(quant_thread[t].read) <= 2
      /\ quant_file[h] \in [1 .. 3 -> Int]
  <2>1. quant_thread[t].read \in Seq(Int)
    BY <1>4 DEF ArtifactsThreadT
  <2>2. Len(quant_thread[t].read) \in Nat /\ Len(quant_thread[t].read) <= 2
    BY <1>3, <1>4, <2>1 DEF ArtifactsLoaded
  <2>3. quant_file[h] \in [1 .. 3 -> Int]
    BY <1>5 DEF ArtifactsIInv, ArtifactsTyped
  <2> QED
    BY <2>1, <2>2, <2>3
<1>7. /\ piece \in Int /\ read \in Seq(Int) /\ Len(read) = Len(quant_thread[t].read) + 1
      /\ read[Len(read)] = piece /\ \A k \in 1 .. Len(quant_thread[t].read) : read[k] = quant_thread[t].read[k]
  <2>1. PICK r \in Seq(Int) : r = quant_thread[t].read
    BY <1>6
  <2>2. Len(r) \in Nat /\ Len(r) <= 2 /\ piece = quant_file[h][Len(r) + 1]
    BY <1>1, <1>6, <2>1
  <2>3. piece \in Int
    <3>1. Len(r) + 1 \in 1 .. 3
      BY <2>2
    <3> QED
      BY <1>6, <2>2, <3>1
  <2>4. /\ Append(r, piece) \in Seq(Int) /\ Len(Append(r, piece)) = Len(r) + 1
        /\ Append(r, piece)[Len(r) + 1] = piece /\ \A k \in 1 .. Len(r) : Append(r, piece)[k] = r[k]
    BY <2>3
  <2>5. read = Append(r, piece)
    BY <1>2, <2>1
  <2> QED
    BY <2>1, <2>3, <2>4, <2>5
<1>8. h \notin quant_overlapped => ~Artifacts!Saving(h) /\ \A k \in 1 .. Len(read) : read[k] = quant_file[h][k]
  <2>1. SUFFICES ASSUME h \notin quant_overlapped PROVE ~Artifacts!Saving(h) /\ \A k \in 1 .. Len(read) : read[k] = quant_file[h][k]
    OBVIOUS
  <2>2. PICK r \in Seq(Int) : r = quant_thread[t].read
    BY <1>6
  <2>3. ~Artifacts!Saving(h) /\ \A k \in DOMAIN r : r[k] = quant_file[h][k]
    BY <1>0, <1>3, <1>4, <2>1, <2>2 DEF ArtifactsLoaded
  <2>4. Len(read) = Len(r) + 1 /\ read[Len(r) + 1] = quant_file[h][Len(r) + 1] /\ \A k \in 1 .. Len(r) : read[k] = r[k]
    BY <1>1, <1>7, <2>2
  <2>5. Len(r) \in Nat /\ DOMAIN r = 1 .. Len(r)
    OBVIOUS
  <2> QED
    BY <2>3, <2>4, <2>5
<1>9. ArtifactsAnswered(quant_served[t])'
  BY <1>3, <1>4, ArtifactsNoForecastIs DEF ArtifactsAnswered, ArtifactsIInv, ArtifactsTyped
<1>10. quant_served \in [quant_Threads -> ArtifactsServedT] /\ quant_cache \in [Artifacts!Names -> Seq(Int)] /\ quant_served[t] \in ArtifactsServedT
       /\ quant_served = [quant_served EXCEPT ![t] = quant_served[t]]
  BY DEF ArtifactsIInv, ArtifactsTyped
<1>11. CASE piece = Artifacts!Torn
  <2>1. quant_thread' = [quant_thread EXCEPT ![t] = Artifacts!Idle] /\ quant_served' = [quant_served EXCEPT ![t] = Artifacts!NoForecast]
        /\ UNCHANGED <<quant_file, quant_cache, quant_trainer, quant_good, quant_overlapped,
                       quant_trainings>>
    BY <1>3, <1>11
  <2>2. ArtifactsAsked(Artifacts!Idle)' /\ ArtifactsLoaded(Artifacts!Idle)' /\ ArtifactsAnswered(Artifacts!NoForecast)'
    BY <2>1, ArtifactsIdleIs, ArtifactsNoForecastIs DEF ArtifactsAsked, ArtifactsLoaded,
        ArtifactsAnswered, ArtifactsIInv, ArtifactsTyped
  <2>3. Artifacts!Idle \in ArtifactsThreadT /\ Artifacts!NoForecast \in ArtifactsServedT
    BY ArtifactsIdleIs, ArtifactsNoForecastIs
  <2> QED
    BY <1>10, <2>1, <2>2, <2>3, ArtifactsOneForecast
<1>12. CASE piece # Artifacts!Torn /\ Len(read) < 3
  <2>1. PICK c : c = [pc |-> "load", since |-> quant_thread[t].since, at |-> quant_thread[t].at,
                      read |-> read, parts |-> quant_thread[t].parts]
    OBVIOUS
  <2>2. quant_thread' = [quant_thread EXCEPT ![t] = [quant_thread[t] EXCEPT !.read = read]]
        /\ UNCHANGED <<quant_file, quant_cache, quant_trainer, quant_served, quant_good,
                       quant_overlapped, quant_trainings>>
    BY <1>3, <1>12
  <2>3. [quant_thread[t] EXCEPT !.read = read] = c
    BY <1>3, <1>4, <2>1 DEF ArtifactsThreadT
  <2>4. /\ c.pc = "load" /\ c.since = quant_thread[t].since /\ c.at = quant_thread[t].at
        /\ c.parts = quant_thread[t].parts /\ c.read = read
    BY <2>1
  <2>5. c \in ArtifactsThreadT
    BY <1>4, <1>7, <2>1 DEF ArtifactsThreadT
  <2>6. ArtifactsAsked(c)'
    BY <1>3, <1>4, <2>2, <2>4 DEF ArtifactsAsked
  <2>7. quant_Horizons[c.at] = h
    BY <1>0, <2>4
  <2>8. ArtifactsLoaded(c)'
    <3>1. h \notin quant_overlapped' => ~Artifacts!Saving(h)'
      BY <1>8, <2>2 DEF Artifacts!Saving
    <3>2. DOMAIN c.read = 1 .. Len(read) /\ Len(read) <= 2
      BY <1>7, <1>12, <2>4
    <3> QED
      BY <1>5, <1>8, <2>2, <2>4, <2>7, <3>1, <3>2 DEF ArtifactsLoaded
  <2> QED
    BY <1>9, <1>10, <2>2, <2>3, <2>5, <2>6, <2>8, ArtifactsOneForecast
<1>13. CASE piece # Artifacts!Torn /\ ~(Len(read) < 3)
  <2>1. PICK c : c = [pc |-> "horizon", since |-> quant_thread[t].since, at |-> quant_thread[t].at + 1,
                      read |-> quant_thread[t].read, parts |-> Append(quant_thread[t].parts, read)]
    OBVIOUS
  <2>2. /\ quant_cache' = [quant_cache EXCEPT ![h] = read]
        /\ quant_thread' = [quant_thread EXCEPT ![t] = [quant_thread[t] EXCEPT !.pc = "horizon", !.parts = Append(quant_thread[t].parts, read),
                                                           !.at = quant_thread[t].at + 1]]
        /\ UNCHANGED <<quant_file, quant_trainer, quant_served, quant_good, quant_overlapped,
                       quant_trainings>>
    BY <1>3, <1>13
  <2>3. quant_thread' = [quant_thread EXCEPT ![t] = c]
    BY <1>4, <2>1, <2>2, ArtifactsEnds, Zenon
  <2>4. /\ c.pc = "horizon" /\ c.since = quant_thread[t].since /\ c.at = quant_thread[t].at + 1
        /\ c.parts = Append(quant_thread[t].parts, read)
    BY <2>1
  <2>5. c \in ArtifactsThreadT
    <3>1. Append(quant_thread[t].parts, read) \in Seq(Seq(Int))
      BY <1>4, <1>7 DEF ArtifactsThreadT
    <3> QED
      BY <1>4, <1>5, <2>1, <3>1 DEF ArtifactsThreadT
  <2>6. h \notin quant_overlapped => ArtifactsWhole(read, quant_good)
    <3>1. Len(read) = 3
      <4>1. Len(read) = Len(quant_thread[t].read) + 1 /\ Len(quant_thread[t].read) \in Nat /\ Len(quant_thread[t].read) <= 2
        BY <1>6, <1>7
      <4> QED
        BY <1>13, <4>1
    <3>2. h \notin quant_overlapped => ArtifactsWhole(quant_file[h], quant_good)
      BY <1>5, <1>8 DEF ArtifactsIInv, ArtifactsWritten
    <3> QED
      BY <1>8, <3>1, <3>2 DEF ArtifactsWhole
  <2>7. ArtifactsAsked(c)'
    BY <1>0, <1>3, <1>5, <1>7, <2>2, <2>4, <2>5, <2>6, ArtifactsOneMore
  <2>8. ArtifactsLoaded(c)'
    BY <2>4 DEF ArtifactsLoaded
  <2>9. quant_cache' \in [Artifacts!Names -> Seq(Int)]
        /\ \A g \in Artifacts!Names \ quant_overlapped' : quant_cache'[g] # Artifacts!NoArtifact => quant_cache'[g] = quant_cache[g] \/ ArtifactsWhole(quant_cache'[g], quant_good)
    BY <1>5, <1>7, <1>10, <2>2, <2>6
  <2> QED
    BY <1>9, <1>10, <2>2, <2>3, <2>5, <2>7, <2>8, <2>9, ArtifactsOneForecast
<1> QED
  BY <1>11, <1>12, <1>13

LEMMA ArtifactsServedInv ==
  ASSUME ArtifactsIInv, NEW t \in quant_Threads, Artifacts!Served(t) PROVE ArtifactsIInv'
<1>1. PICK a : a = [since |-> quant_thread[t].since, parts |-> quant_thread[t].parts]
  OBVIOUS
<1>2. /\ quant_served' = [quant_served EXCEPT ![t] = a] /\ quant_thread' = [quant_thread EXCEPT ![t] = Artifacts!Idle]
      /\ UNCHANGED <<quant_file, quant_cache, quant_trainer, quant_good, quant_overlapped,
                     quant_trainings>>
  BY <1>1 DEF Artifacts!Served
<1>3. quant_thread[t] \in ArtifactsThreadT /\ ArtifactsAsked(quant_thread[t]) /\ quant_cache \in [Artifacts!Names -> Seq(Int)]
  BY DEF ArtifactsIInv, ArtifactsTyped, ArtifactsForecasts
<1>4. a \in ArtifactsServedT /\ Artifacts!Idle \in ArtifactsThreadT
  BY <1>1, <1>3, ArtifactsIdleIs DEF ArtifactsServedT, ArtifactsThreadT
<1>5. ArtifactsAnswered(a)'
  BY <1>1, <1>2, <1>3 DEF ArtifactsAsked, ArtifactsAnswered
<1>6. ArtifactsAsked(Artifacts!Idle)' /\ ArtifactsLoaded(Artifacts!Idle)'
  BY <1>2, ArtifactsIdleIs DEF ArtifactsAsked, ArtifactsLoaded, ArtifactsIInv, ArtifactsTyped
<1> QED
  BY <1>2, <1>3, <1>4, <1>5, <1>6, ArtifactsOneForecast

-----------------------------------------------------------------------------
LEMMA ArtifactsStepInv ==
  ASSUME ArtifactsIInv, [Artifacts!Next]_(Artifacts!vars) PROVE ArtifactsIInv'
<1>1. CASE UNCHANGED Artifacts!vars
  BY <1>1 DEF Artifacts!vars, ArtifactsIInv, ArtifactsTyped, ArtifactsWritten, ArtifactsTrained,
      ArtifactsKept, ArtifactsForecasts, ArtifactsAsked, ArtifactsLoaded, ArtifactsAnswered,
      Artifacts!Saving
<1>2. CASE Artifacts!Next
  BY <1>2, ArtifactsRetrainInv, ArtifactsTrainFailsInv, ArtifactsSaveBeginInv,
      ArtifactsSaveEndInv, ArtifactsRetrainDoneInv, ArtifactsRestartInv, ArtifactsPredictInv,
     ArtifactsCandlesInv, ArtifactsHorizonInv, ArtifactsReadInv, ArtifactsServedInv DEF Artifacts!Next
<1> QED
  BY <1>1, <1>2

LEMMA ArtifactsInvOne ==
  ASSUME ArtifactsIInv PROVE Artifacts!OneTraining
<1>1. SUFFICES ASSUME NEW t \in quant_Threads, NEW i \in DOMAIN quant_served[t].parts, quant_Horizons[i] \notin quant_overlapped
               PROVE  /\ Cardinality(Artifacts!PartsOf(t, i)) = 1
                      /\ \A v \in Artifacts!PartsOf(t, i) : v >= quant_served[t].since
  BY ArtifactsCounting DEF Artifacts!OneTraining
<1>2. ArtifactsWhole(quant_served[t].parts[i], quant_served[t].since)
  BY <1>1 DEF ArtifactsIInv, ArtifactsForecasts, ArtifactsAnswered
<1>3. Artifacts!PartsOf(t, i) = {quant_served[t].parts[i][1]}
  BY <1>2 DEF Artifacts!PartsOf, ArtifactsWhole
<1>4. Cardinality({quant_served[t].parts[i][1]}) = 1
  BY FS_Singleton
<1> QED
  BY <1>2, <1>3, <1>4, ArtifactsCounting DEF ArtifactsWhole

\* Only its own steps touch QuantArtifacts's variables.
LEMMA ArtifactsSteps == [Next]_vars => [Artifacts!Next]_(Artifacts!vars)
BY DEF Next, vars, candleVars, storeVars, acceptVars, walkVars, quantVars, marketVars, macroVars,
    Artifacts!vars

-----------------------------------------------------------------------------
\* MacroPrices.

\* What the callers carry: a snapshot in the making has no value from before it was
\* asked for, and one that was given is recent.
PricesSnapshot == [at : Int, read : [macro_Series -> Int]]

PricesTyped ==
  /\ macro_now \in Nat
  /\ macro_cache \in PricesSnapshot
  /\ macro_caller \in [Callers -> [pc : {"idle", "fetch", "given"}, asked : Nat, snapshot : PricesSnapshot]]

PricesReadAfter(snapshot, t) == \A s \in macro_Series : snapshot.read[s] >= 0 => snapshot.read[s] >= t

PricesCacheInv == PricesReadAfter(macro_cache, macro_cache.at)

PricesFetchInv ==
  \A c \in Callers :
    macro_caller[c].pc = "fetch" => macro_caller[c].asked <= macro_now /\ PricesReadAfter(macro_caller[c].snapshot, macro_caller[c].asked)

PricesIInv == PricesTyped /\ PricesCacheInv /\ PricesFetchInv /\ Prices!GivenIsRecent

LEMMA PricesInitInv ==
  ASSUME Prices!Init PROVE PricesIInv
BY DEF Prices!Init, PricesIInv, PricesTyped, PricesSnapshot, Prices!Idle, Prices!Nothing,
    Prices!Failed, PricesCacheInv, PricesReadAfter, PricesFetchInv, Prices!GivenIsRecent

LEMMA PricesStepInv ==
  ASSUME PricesIInv, [Prices!Next]_(Prices!vars) PROVE PricesIInv'
<1> USE PricesAssumption DEF PricesIInv
<1>1. CASE Prices!Tick
  BY <1>1 DEF Prices!Tick, PricesTyped, PricesCacheInv, PricesFetchInv, Prices!GivenIsRecent,
      PricesReadAfter, PricesSnapshot
<1>2. ASSUME NEW c \in Callers, Prices!Collect(c) PROVE PricesIInv'
  <2>1. macro_caller[c].pc = "idle" /\ macro_now' = macro_now /\ macro_cache' = macro_cache
    BY <1>2 DEF Prices!Collect
  <2>2. CASE Prices!Recent
    <3>1. macro_caller' = [macro_caller EXCEPT ![c] = [pc |-> "given", asked |-> macro_now, snapshot |-> macro_cache]]
      BY <1>2, <2>2 DEF Prices!Collect
    <3>2. PricesTyped'
      BY <2>1, <3>1 DEF PricesTyped
    <3>3. PricesCacheInv' /\ PricesFetchInv'
      BY <2>1, <3>1 DEF PricesCacheInv, PricesFetchInv, PricesReadAfter, PricesTyped
    <3>4. \A s \in macro_Series : macro_cache.read[s] >= 0 => macro_now - macro_cache.read[s] < macro_Interval
      BY <2>2 DEF Prices!Recent, PricesCacheInv, PricesReadAfter, PricesTyped, PricesSnapshot
    <3>5. Prices!GivenIsRecent'
      BY <2>1, <3>1, <3>4 DEF Prices!GivenIsRecent, PricesTyped
    <3> QED
      BY <3>2, <3>3, <3>5
  <2>3. CASE ~Prices!Recent
    <3>1. macro_caller' = [macro_caller EXCEPT ![c] =
                       [pc |-> "fetch", asked |-> macro_now,
                        snapshot |-> [at |-> macro_now, read |-> [s \in macro_Series |-> Prices!NotAsked]]]]
      BY <1>2, <2>3 DEF Prices!Collect
    <3>2. PricesTyped'
      BY <2>1, <3>1 DEF PricesTyped, PricesSnapshot, Prices!NotAsked
    <3>3. PricesCacheInv' /\ PricesFetchInv' /\ Prices!GivenIsRecent'
      BY <2>1, <3>1 DEF PricesCacheInv, PricesFetchInv, Prices!GivenIsRecent, PricesReadAfter,
          PricesTyped, Prices!NotAsked
    <3> QED
      BY <3>2, <3>3
  <2> QED
    BY <2>2, <2>3
<1>3. ASSUME NEW c \in Callers, NEW s \in macro_Series, Prices!Quote(c, s) \/ Prices!Error(c, s) PROVE PricesIInv'
  <2> PICK value \in {macro_now, Prices!Failed} : Prices!Answer(c, s, value)
    BY <1>3 DEF Prices!Quote, Prices!Error
  <2>1. /\ macro_caller[c].pc = "fetch" /\ macro_now' = macro_now /\ macro_cache' = macro_cache
        /\ macro_caller' = [macro_caller EXCEPT ![c].snapshot.read[s] = value]
    BY DEF Prices!Answer
  <2>2. PricesTyped'
    <3>1. value \in Int /\ macro_caller[c].snapshot \in PricesSnapshot
      BY DEF PricesTyped, Prices!Failed
    <3>2. [macro_caller[c].snapshot.read EXCEPT ![s] = value] \in [macro_Series -> Int]
      BY <3>1 DEF PricesSnapshot
    <3>3. [macro_caller[c].snapshot EXCEPT !.read[s] = value] \in PricesSnapshot
      BY <3>1, <3>2 DEF PricesSnapshot
    <3> QED
      BY <2>1, <3>3 DEF PricesTyped
  <2>3. PricesFetchInv'
    BY <2>1 DEF PricesFetchInv, PricesReadAfter, PricesTyped, PricesSnapshot, Prices!Failed
  <2>4. PricesCacheInv' /\ Prices!GivenIsRecent'
    BY <2>1 DEF PricesCacheInv, Prices!GivenIsRecent, PricesReadAfter, PricesTyped,
        PricesSnapshot
  <2> QED
    BY <2>2, <2>3, <2>4
<1>4. ASSUME NEW c \in Callers, Prices!Store(c) PROVE PricesIInv'
  <2>1. /\ macro_caller[c].pc = "fetch" /\ macro_now' = macro_now
        /\ macro_cache' = [macro_caller[c].snapshot EXCEPT !.at = macro_caller[c].asked]
        /\ macro_caller' = [macro_caller EXCEPT ![c] = [@ EXCEPT !.pc = "given", !.snapshot = macro_cache']]
    BY <1>4 DEF Prices!Store, Prices!Stamp
  <2>2. macro_cache' \in PricesSnapshot /\ PricesReadAfter(macro_cache', macro_caller[c].asked) /\ macro_cache'.at = macro_caller[c].asked
    BY <2>1 DEF PricesTyped, PricesFetchInv, PricesReadAfter, PricesSnapshot
  <2>3. PricesTyped' /\ PricesCacheInv'
    BY <2>1, <2>2 DEF PricesTyped, PricesCacheInv, PricesReadAfter
  <2>4. PricesFetchInv'
    BY <2>1 DEF PricesFetchInv, PricesReadAfter, PricesTyped
  <2>5. Prices!GivenIsRecent'
    <3>1. macro_caller[c] \in [pc : {"idle", "fetch", "given"}, asked : Nat, snapshot : PricesSnapshot]
      BY DEF PricesTyped
    <3>2. \A s \in macro_Series : macro_cache'.read[s] >= 0 => macro_caller[c].asked - macro_cache'.read[s] < macro_Interval
      BY <2>2, <3>1 DEF PricesReadAfter, PricesSnapshot
    <3>3. macro_caller'[c].asked = macro_caller[c].asked /\ macro_caller'[c].snapshot = macro_cache'
      BY <2>1, <3>1 DEF PricesTyped
    <3>4. \A d \in Callers \ {c} : macro_caller'[d] = macro_caller[d]
      BY <2>1 DEF PricesTyped
    <3> QED
      BY <3>2, <3>3, <3>4 DEF Prices!GivenIsRecent
  <2> QED
    BY <2>3, <2>4, <2>5
<1>5. ASSUME NEW c \in Callers, Prices!Done(c) PROVE PricesIInv'
  BY <1>5 DEF Prices!Done, Prices!Idle, Prices!Nothing, Prices!Failed, PricesTyped,
      PricesCacheInv, PricesFetchInv, Prices!GivenIsRecent, PricesReadAfter, PricesSnapshot
<1>6. CASE UNCHANGED Prices!vars
  BY <1>6 DEF Prices!vars, PricesTyped, PricesCacheInv, PricesFetchInv, Prices!GivenIsRecent,
      PricesReadAfter
<1> QED
  BY <1>1, <1>2, <1>3, <1>4, <1>5, <1>6 DEF Prices!Next

\* Only its own steps touch MacroPrices's variables.
LEMMA PricesSteps == [Next]_vars => [Prices!Next]_(Prices!vars)
BY DEF Next, vars, candleVars, storeVars, acceptVars, walkVars, quantVars, marketVars, macroVars,
    Prices!vars

-----------------------------------------------------------------------------
\* AcceptancePolicy.

\* Policy counts as this module does.
LEMMA PolicyCounting ==
  \A S : Policy!Cardinality(S) = Cardinality(S) /\ Policy!IsFiniteSet(S) = IsFiniteSet(S)
BY DEF Policy!Cardinality, Cardinality, Policy!IsFiniteSet, IsFiniteSet

PolicyWeighting == Nat \X Nat

\* The policy a training keeps.
PolicyRanked(w) ==
  [mode |-> "score_rank", weights |-> w, min |-> Policy!Lowest(w),
   regimes |-> [g \in Policy!TakenRegimes(w) |-> Policy!Rounded(Policy!LowestOf(w, g))]]
PolicyFilters == [mode : {"threshold_filters"}, first : accept_Levels, second : accept_Levels]

PolicyTyped ==
  /\ accept_rows \in [1 .. accept_Size -> Policy!Row]
  /\ accept_config \in [caps : accept_Caps, override : {<<>>, <<1, 1>>}, ranked : BOOLEAN,
                                                          coverage : accept_Coverages]
  /\ accept_weights = <<>> \/ accept_weights \in PolicyWeighting
  /\ \/ accept_policy = Policy!NoPolicy
     \/ accept_weights \in PolicyWeighting /\ accept_policy = PolicyRanked(accept_weights)
     \/ accept_policy \in PolicyFilters

PolicyIInv == PolicyTyped /\ (accept_forecast.side = "flat" => accept_forecast.reasons # {})

-----------------------------------------------------------------------------
\* Arithmetic.
LEMMA PolicyHalves ==
  ASSUME NEW a \in Nat, NEW b \in Nat \ {0}
  PROVE  a \div b \in Nat /\ (a \div b) * b \in Nat /\ (a \div b) * b <= a
BY Z3

LEMMA PolicyProducts ==
  ASSUME NEW a \in Nat, NEW b \in Nat PROVE a * b \in Nat
BY Z3

LEMMA PolicyRoundedIs ==
  ASSUME NEW s \in Nat
  PROVE  Policy!Rounded(s) \in Nat /\ Policy!Rounded(s) <= s + accept_Grain \div 2 /\ accept_Grain \div 2 \in Nat
<1>1. accept_Grain \in Nat \ {0}
  BY PolicyAssumption
<1> DEFINE h == accept_Grain \div 2
<1>2. h \in Nat
  BY <1>1, PolicyHalves
<1> HIDE DEF h
<1>3. s + h \in Nat
  BY <1>2
<1>4. ((s + h) \div accept_Grain) * accept_Grain \in Nat /\ ((s + h) \div accept_Grain) * accept_Grain <= s + h
  BY <1>1, <1>3, PolicyHalves
<1> QED
  BY <1>2, <1>4 DEF Policy!Rounded, h

LEMMA PolicyNormalizedIs ==
  ASSUME NEW w \in PolicyWeighting PROVE Policy!Normalized(w) \in PolicyWeighting
<1>1. w[1] \in Nat /\ w[2] \in Nat /\ accept_Unit \in Nat
  BY PolicyAssumption DEF PolicyWeighting
<1> DEFINE total == w[1] + w[2]
<1>2. total \in Nat
  BY <1>1
<1>3. accept_Unit \div 2 \in Nat
  BY <1>1, PolicyHalves
<1>4. ASSUME total # 0 PROVE (accept_Unit * w[1]) \div total \in Nat /\ (accept_Unit * w[2]) \div total \in Nat
  <2> DEFINE a == accept_Unit * w[1]
             b == accept_Unit * w[2]
  <2>1. a \in Nat /\ b \in Nat
    BY <1>1, PolicyProducts
  <2> HIDE DEF a, b, total
  <2>2. total \in Nat \ {0}
    BY <1>2, <1>4
  <2>3. a \div total \in Nat /\ b \div total \in Nat
    BY <2>1, <2>2, PolicyHalves
  <2> QED
    BY <2>3 DEF a, b
<1>5. Policy!Normalized(w) = IF total = 0 THEN <<accept_Unit \div 2, accept_Unit \div 2>>
                             ELSE <<(accept_Unit * w[1]) \div total,
                                    (accept_Unit * w[2]) \div total>>
  BY DEF Policy!Normalized
<1> HIDE DEF total
<1> QED
  BY <1>3, <1>4, <1>5 DEF PolicyWeighting

LEMMA PolicyScoreIs ==
  ASSUME NEW w \in PolicyWeighting, NEW r \in Policy!Row PROVE Policy!Score(r, w) \in Nat
<1> PICK n : n = Policy!Normalized(w)
  OBVIOUS
<1>1. n[1] \in Nat /\ n[2] \in Nat
  BY PolicyNormalizedIs DEF PolicyWeighting
<1>2. r.first \in Nat /\ r.second \in Nat
  BY PolicyAssumption DEF Policy!Row
<1>3. n[1] * r.first \in Nat /\ n[2] * r.second \in Nat
  BY <1>1, <1>2, PolicyProducts
<1>4. n[1] * r.first + n[2] * r.second \in Nat
  BY <1>3
<1> QED
  BY <1>4 DEF Policy!Score

LEMMA PolicyMinIs ==
  ASSUME NEW T \in SUBSET Nat, T # {} PROVE Policy!Min(T) \in T /\ \A y \in T : Policy!Min(T) <= y
<1>1. \E x \in T : \A y \in T : x <= y
  BY Least
<1> QED
  BY <1>1 DEF Policy!Min

\* The greatest level is one of them.
LEMMA PolicyBestIs == Policy!Best \in Nat
<1>1. \E m \in accept_Levels : \A l \in accept_Levels : l <= m
  BY PolicyAssumption
<1>2. Policy!Max(accept_Levels) \in accept_Levels
  BY <1>1 DEF Policy!Max
<1> QED
  BY <1>2, PolicyAssumption, PolicyProducts DEF Policy!Best

-----------------------------------------------------------------------------
\* The rows that are taken from the best on, up to the part aimed at and the caps:
\* there is such a selection for the first rows, however many they are.
PolicyFits(w, D, some) ==
  some \subseteq D /\ \A i \in D : i \in some <=> Policy!Takes({j \in some : Policy!Before(w, j, i)}, i)

LEMMA PolicyOrdered ==
  ASSUME accept_rows \in [1 .. accept_Size -> Policy!Row], NEW w \in PolicyWeighting
  PROVE  /\ DOMAIN accept_rows = 1 .. accept_Size /\ IsFiniteSet(DOMAIN accept_rows)
         /\ \A i \in DOMAIN accept_rows : Policy!Score(accept_rows[i], w) \in Nat /\ i \in Nat /\ ~Policy!Before(w, i, i)
         /\ \A i, j \in DOMAIN accept_rows : i = j \/ Policy!Before(w, i, j) \/ Policy!Before(w, j, i)
         /\ \A i, j \in DOMAIN accept_rows : ~(Policy!Before(w, i, j) /\ Policy!Before(w, j, i))
         /\ \A i, j, k \in DOMAIN accept_rows : Policy!Before(w, i, j) /\ Policy!Before(w, j, k) => Policy!Before(w, i, k)
<1>1. DOMAIN accept_rows = 1 .. accept_Size /\ IsFiniteSet(DOMAIN accept_rows)
  BY PolicyAssumption, FS_Interval
<1>2. \A i \in DOMAIN accept_rows : Policy!Score(accept_rows[i], w) \in Nat /\ i \in Nat
  BY <1>1, PolicyScoreIs
<1> QED
  BY <1>1, <1>2 DEF Policy!Before

\* Of the first rows one is the last.
LEMMA PolicyLastOf ==
  ASSUME accept_rows \in [1 .. accept_Size -> Policy!Row], NEW w \in PolicyWeighting, NEW D \in SUBSET DOMAIN accept_rows, D # {}
  PROVE  \E m \in D : \A i \in D : i = m \/ Policy!Before(w, i, m)
<1>1. /\ DOMAIN accept_rows = 1 .. accept_Size /\ IsFiniteSet(DOMAIN accept_rows)
      /\ \A i \in DOMAIN accept_rows : Policy!Score(accept_rows[i], w) \in Nat /\ i \in Nat
  BY PolicyOrdered
<1> DEFINE scores == {Policy!Score(accept_rows[i], w) : i \in D}
<1>2. PICK low \in scores : \A s \in scores : low <= s
  <2>1. scores \in SUBSET Nat /\ scores # {}
    BY <1>1
  <2> QED
    BY <2>1, Least
<1> DEFINE back == {accept_Size - i : i \in {j \in D : Policy!Score(accept_rows[j], w) = low}}
<1>3. PICK x \in back : \A y \in back : x <= y
  <2>1. back \in SUBSET Nat
    BY <1>1, PolicyAssumption
  <2>2. back # {}
    BY <1>2
  <2> HIDE DEF back
  <2> QED
    BY <2>1, <2>2, Least
<1>4. PICK m \in D : x = accept_Size - m /\ Policy!Score(accept_rows[m], w) = low
  BY <1>3
<1>5. ASSUME NEW i \in D, i # m PROVE Policy!Before(w, i, m)
  <2>1. low <= Policy!Score(accept_rows[i], w) /\ Policy!Score(accept_rows[i], w) \in Nat /\ low \in Nat /\ i \in Nat /\ m \in Nat
    BY <1>1, <1>2, <1>4
  <2>2. CASE Policy!Score(accept_rows[i], w) = low
    <3>1. accept_Size - m <= accept_Size - i
      BY <1>3, <1>4, <2>2
    <3>2. i < m
      BY <1>5, <2>1, <3>1, PolicyAssumption
    <3> QED
      BY <1>4, <2>2, <3>2 DEF Policy!Before
  <2>3. CASE Policy!Score(accept_rows[i], w) # low
    BY <1>4, <2>1, <2>3 DEF Policy!Before
  <2> QED
    BY <2>2, <2>3
<1> QED
  BY <1>5

\* A selection of the rows before the last one becomes one of all.
LEMMA PolicyOneMore ==
  ASSUME accept_rows \in [1 .. accept_Size -> Policy!Row], NEW w \in PolicyWeighting, NEW D \in SUBSET DOMAIN accept_rows,
         NEW m \in D, \A i \in D : i = m \/ Policy!Before(w, i, m), NEW some, PolicyFits(w, D \ {m}, some)
  PROVE  \E more : PolicyFits(w, D, more)
<1> DEFINE more == IF Policy!Takes(some, m) THEN some \cup {m} ELSE some
<1>1. some \subseteq D \ {m} /\ more \subseteq D /\ m \notin some
  BY DEF PolicyFits
<1>2. {j \in more : Policy!Before(w, j, m)} = some
  BY <1>1, PolicyOrdered
<1>3. \A i \in D \ {m} : {j \in more : Policy!Before(w, j, i)} = {j \in some : Policy!Before(w, j, i)}
  <2> TAKE i \in D \ {m}
  <2>1. ~Policy!Before(w, m, i)
    BY PolicyOrdered
  <2> QED
    BY <1>1, <2>1
<1>4. ASSUME NEW i \in D PROVE i \in more <=> Policy!Takes({j \in more : Policy!Before(w, j, i)}, i)
  <2>1. CASE i = m
    BY <1>1, <1>2, <2>1
  <2>2. CASE i # m
    <3>1. i \in more <=> i \in some
      BY <2>2
    <3>2. i \in some <=> Policy!Takes({j \in some : Policy!Before(w, j, i)}, i)
      BY <2>2 DEF PolicyFits
    <3> QED
      BY <1>3, <2>2, <3>1, <3>2
  <2> QED
    BY <2>1, <2>2
<1> HIDE DEF more
<1>5. PolicyFits(w, D, more)
  BY <1>1, <1>4 DEF PolicyFits
<1> QED
  BY <1>5

\* The first rows: whatever stands before one of them is one of them.
PolicyFirst(w, D) == D \subseteq DOMAIN accept_rows /\ \A i \in D, j \in DOMAIN accept_rows : Policy!Before(w, j, i) => j \in D

LEMMA PolicySelectionExists ==
  ASSUME accept_rows \in [1 .. accept_Size -> Policy!Row], NEW w \in PolicyWeighting
  PROVE  \E some : PolicyFits(w, DOMAIN accept_rows, some)
<1> SUFFICES ASSUME \A some : ~PolicyFits(w, DOMAIN accept_rows, some) PROVE FALSE
  OBVIOUS
<1> DEFINE Bad(D) == PolicyFirst(w, D) /\ \A some : ~PolicyFits(w, D, some)
           sizes == {n \in Nat : \E D \in SUBSET DOMAIN accept_rows : Bad(D) /\ Policy!Cardinality(D) = n}
<1>1. IsFiniteSet(DOMAIN accept_rows)
  BY PolicyOrdered
<1>2. \A D \in SUBSET DOMAIN accept_rows : IsFiniteSet(D) /\ Policy!Cardinality(D) \in Nat
  BY <1>1, FS_Subset, FS_CardinalityType, PolicyCounting
<1>3. Bad(DOMAIN accept_rows)
  BY DEF PolicyFirst
<1>4. sizes \in SUBSET Nat /\ sizes # {}
  BY <1>2, <1>3
<1>5. PICK n \in sizes : \A k \in sizes : n <= k
  BY <1>4, Least
<1>6. PICK D \in SUBSET DOMAIN accept_rows : Bad(D) /\ Policy!Cardinality(D) = n
  BY <1>5
<1>7. D # {}
  <2>1. PolicyFits(w, {}, {})
    BY DEF PolicyFits
  <2> QED
    BY <1>6, <2>1
<1>8. PICK m \in D : \A i \in D : i = m \/ Policy!Before(w, i, m)
  BY <1>7, PolicyLastOf
<1>9. Bad(D \ {m})
  <2>1. PolicyFirst(w, D \ {m})
    <3> SUFFICES ASSUME NEW i \in D \ {m}, NEW j \in DOMAIN accept_rows, Policy!Before(w, j, i) PROVE j \in D \ {m}
      BY DEF PolicyFirst
    <3>1. j \in D
      BY <1>6 DEF PolicyFirst
    <3>2. Policy!Before(w, i, m) /\ i \in DOMAIN accept_rows /\ m \in DOMAIN accept_rows
      BY <1>8
    <3>3. j # m
      BY <3>2, PolicyOrdered
    <3> QED
      BY <3>1, <3>3
  <2>2. ASSUME NEW some PROVE ~PolicyFits(w, D \ {m}, some)
    BY <1>6, <1>8, PolicyOneMore
  <2> QED
    BY <2>1, <2>2
<1> HIDE DEF Bad
<1>10. Policy!Cardinality(D \ {m}) = Policy!Cardinality(D) - 1 /\ Policy!Cardinality(D) \in Nat /\ Policy!Cardinality(D \ {m}) \in Nat
  BY <1>2, FS_RemoveElement, PolicyCounting
<1>11. Policy!Cardinality(D \ {m}) \in sizes
  BY <1>9, <1>10
<1>12. n <= Policy!Cardinality(D \ {m})
  BY <1>5, <1>11
<1> HIDE DEF sizes
<1> QED
  BY <1>6, <1>10, <1>12

LEMMA PolicySelectedIs ==
  ASSUME accept_rows \in [1 .. accept_Size -> Policy!Row], NEW w \in PolicyWeighting
  PROVE  /\ Policy!Selected(w) \subseteq DOMAIN accept_rows
         /\ \A i \in DOMAIN accept_rows : i \in Policy!Selected(w) <=> Policy!Takes({j \in Policy!Selected(w) : Policy!Before(w, j, i)}, i)
<1>1. \E some \in SUBSET DOMAIN accept_rows :
        \A i \in DOMAIN accept_rows : i \in some <=> Policy!Takes({j \in some : Policy!Before(w, j, i)}, i)
  BY PolicySelectionExists DEF PolicyFits
<1> QED
  BY <1>1, Zenon DEF Policy!Selected

\* With fewer rows taken there is more room.
LEMMA PolicyRoomBefore ==
  ASSUME PolicyTyped, NEW T \in SUBSET DOMAIN accept_rows, NEW S \in SUBSET T, NEW i \in DOMAIN accept_rows, NEW j \in DOMAIN accept_rows,
         accept_rows[i].regime = accept_rows[j].regime, Policy!Takes(T, j)
  PROVE  Policy!Takes(S, i)
<1>1. IsFiniteSet(T)
  <2>1. DOMAIN accept_rows = 1 .. accept_Size /\ IsFiniteSet(1 .. accept_Size)
    BY PolicyAssumption, FS_Interval DEF PolicyTyped
  <2> QED
    BY <2>1, FS_Subset
<1> DEFINE A == {k \in S : accept_rows[k].regime = accept_rows[i].regime}
           B == {k \in T : accept_rows[k].regime = accept_rows[j].regime}
<1>2. IsFiniteSet(S) /\ IsFiniteSet(B) /\ Policy!Cardinality(S) <= Policy!Cardinality(T) /\ Policy!Cardinality(A) <= Policy!Cardinality(B)
  <2>1. A \in SUBSET B /\ B \in SUBSET T
    OBVIOUS
  <2>2. IsFiniteSet(B)
    BY <1>1, <2>1, FS_Subset
  <2> HIDE DEF A, B
  <2> QED
    BY <1>1, <2>1, <2>2, FS_Subset, PolicyCounting
<1>3. Policy!Cardinality(S) \in Nat /\ Policy!Cardinality(T) \in Nat /\ Policy!Cardinality(A) \in Nat /\ Policy!Cardinality(B) \in Nat
  <2>1. IsFiniteSet(A)
    BY <1>2, FS_Subset
  <2> HIDE DEF A, B
  <2> QED
    BY <1>1, <1>2, <2>1, FS_CardinalityType, PolicyCounting
<1>4. accept_config.coverage \in Nat
  BY PolicyAssumption DEF PolicyTyped
<1>5. accept_config.caps[accept_rows[i].regime] \in Nat
  <2>1. accept_config.caps \in [accept_Regimes -> Nat] /\ accept_rows[i].regime \in accept_Regimes
    BY PolicyAssumption DEF PolicyTyped, Policy!Row
  <2> QED
    BY <2>1
<1>6. Policy!Cardinality(T) < accept_config.coverage /\ Policy!Cardinality(B) < accept_config.caps[accept_rows[i].regime]
  BY PolicyCounting DEF Policy!Takes
<1> HIDE DEF A, B
<1>7. Policy!Cardinality(S) < accept_config.coverage /\ Policy!Cardinality(A) < accept_config.caps[accept_rows[i].regime]
  BY <1>2, <1>3, <1>4, <1>5, <1>6
<1> QED
  BY <1>7, PolicyCounting DEF Policy!Takes, A

-----------------------------------------------------------------------------
\* What the policy of a training asks of a row, next to the selection it is made of.
LEMMA PolicyKept ==
  ASSUME PolicyTyped, accept_weights \in PolicyWeighting, accept_policy = PolicyRanked(accept_weights), NEW i \in DOMAIN accept_rows
  PROVE  LET chosen == Policy!Selected(accept_weights)
             own == {j \in chosen : accept_rows[j].regime = accept_rows[i].regime}
             score == Policy!Score(accept_rows[i], accept_weights)
         IN  IF i \in chosen THEN Policy!Accepted(accept_policy, accept_rows[i]) \/ score - Policy!Min(Policy!ScoresOf(accept_weights, own)) < accept_Grain \div 2
             ELSE Policy!Accepted(accept_policy, accept_rows[i]) => own = {} \/ score \in Policy!Rounded(Policy!Min(Policy!ScoresOf(accept_weights, own))) .. Policy!Min(Policy!ScoresOf(accept_weights, own))
<1> PICK w : w = accept_weights
  OBVIOUS
<1>0. w \in PolicyWeighting /\ accept_rows \in [1 .. accept_Size -> Policy!Row] /\ accept_policy = PolicyRanked(w)
  BY DEF PolicyTyped
<1> DEFINE chosen == Policy!Selected(w)
           own == {j \in chosen : accept_rows[j].regime = accept_rows[i].regime}
           score == Policy!Score(accept_rows[i], w)
           scores == Policy!ScoresOf(w, own)
           low == Policy!Min(scores)
<1>1. chosen \subseteq DOMAIN accept_rows /\ \A k \in DOMAIN accept_rows : Policy!Score(accept_rows[k], w) \in Nat /\ k \in Nat
  BY <1>0, PolicySelectedIs, PolicyOrdered
<1>2. ASSUME own # {}
      PROVE  /\ low \in Nat /\ \A j \in own : low <= Policy!Score(accept_rows[j], w)
             /\ \E j \in own : Policy!Score(accept_rows[j], w) = low
             /\ Policy!Accepted(accept_policy, accept_rows[i]) <=> score >= Policy!Rounded(low)
  <2>1. scores \in SUBSET Nat /\ scores # {}
    BY <1>1, <1>2 DEF Policy!ScoresOf
  <2>2. low \in scores /\ \A s \in scores : low <= s
    BY <2>1, PolicyMinIs
  <2>3. accept_rows[i].regime \in Policy!TakenRegimes(w)
    BY <1>2 DEF Policy!TakenRegimes
  <2>4. Policy!Threshold(accept_policy, accept_rows[i].regime) = Policy!Rounded(Policy!LowestOf(w, accept_rows[i].regime))
    BY <1>0, <2>3 DEF Policy!Threshold, PolicyRanked
  <2>5. Policy!LowestOf(w, accept_rows[i].regime) = low
    BY DEF Policy!LowestOf
  <2>6. accept_policy.mode = "score_rank" /\ accept_policy.weights = w
    BY <1>0 DEF PolicyRanked
  <2> QED
    BY <2>1, <2>2, <2>4, <2>5, <2>6 DEF Policy!ScoresOf, Policy!Accepted
<1>3. ASSUME i \in chosen, ~Policy!Accepted(accept_policy, accept_rows[i]) PROVE score - low < accept_Grain \div 2
  <2>1. own # {}
    BY <1>3
  <2>2. ~(score >= Policy!Rounded(low)) /\ low \in Nat
    BY <1>2, <1>3, <2>1
  <2>3. score \in Nat
    BY <1>1
  <2> HIDE DEF score, low
  <2> QED
    BY <2>2, <2>3, PolicyRoundedIs
<1>4. ASSUME i \notin chosen, Policy!Accepted(accept_policy, accept_rows[i]), own # {} PROVE score \in Policy!Rounded(low) .. low
  <2>1. low \in Nat /\ score >= Policy!Rounded(low)
    BY <1>2, <1>4
  <2>2. PICK j \in own : Policy!Score(accept_rows[j], w) = low
    BY <1>2, <1>4
  <2>3. ASSUME score > low PROVE FALSE
    <3>1. Policy!Before(w, i, j) /\ j \in DOMAIN accept_rows /\ j \in chosen
      BY <1>1, <2>2, <2>3 DEF Policy!Before
    <3> DEFINE S == {k \in chosen : Policy!Before(w, k, i)}
               T == {k \in chosen : Policy!Before(w, k, j)}
    <3>2. S \in SUBSET T /\ T \in SUBSET DOMAIN accept_rows
      BY <1>0, <1>1, <3>1, PolicyOrdered
    <3>3. Policy!Takes(T, j)
      BY <1>0, <3>1, PolicySelectedIs
    <3>4. ~Policy!Takes(S, i)
      BY <1>0, <1>4, PolicySelectedIs
    <3>5. accept_rows[i].regime = accept_rows[j].regime
      OBVIOUS
    <3> HIDE DEF S, T
    <3> QED
      BY <3>1, <3>2, <3>3, <3>4, <3>5, PolicyRoomBefore
  <2>4. score \in Nat /\ Policy!Rounded(low) \in Nat
    BY <1>1, <2>1, PolicyRoundedIs
  <2> HIDE DEF score, low
  <2> QED
    BY <2>1, <2>3, <2>4
<1> HIDE DEF score, low, own
<1>5. IF i \in chosen THEN Policy!Accepted(accept_policy, accept_rows[i]) \/ score - low < accept_Grain \div 2
      ELSE Policy!Accepted(accept_policy, accept_rows[i]) => own = {} \/ score \in Policy!Rounded(low) .. low
  BY <1>3, <1>4
<1> QED
  BY <1>5 DEF score, low, own

LEMMA PolicyInvKept == ASSUME PolicyIInv PROVE Policy!PolicyKeepsSelection
<1>1. ASSUME accept_policy.mode = "score_rank" PROVE accept_weights \in PolicyWeighting /\ accept_policy = PolicyRanked(accept_weights)
  BY <1>1 DEF PolicyIInv, PolicyTyped, Policy!NoPolicy, PolicyFilters
<1> QED
  BY <1>1, PolicyKept DEF PolicyIInv, Policy!PolicyKeepsSelection

-----------------------------------------------------------------------------
LEMMA PolicyInitInv == ASSUME Policy!Init PROVE PolicyIInv
BY DEF Policy!Init, PolicyIInv, PolicyTyped, Policy!NoRow

LEMMA PolicyWeighInv == ASSUME PolicyIInv, NEW w \in Policy!Parts, Policy!Weigh(w) PROVE PolicyIInv'
<1>1. w \in PolicyWeighting /\ accept_weights' = Policy!Normalized(w) /\ accept_policy = Policy!NoPolicy /\ UNCHANGED <<accept_rows,
                                                                                                                        accept_config,
                                                                                                                        accept_policy,
                                                                                                                        accept_forecast>>
  BY DEF Policy!Weigh, Policy!Parts, PolicyWeighting
<1>2. accept_weights' \in PolicyWeighting
  BY <1>1, PolicyNormalizedIs
<1> QED
  BY <1>1, <1>2 DEF PolicyIInv, PolicyTyped

LEMMA PolicyBuildRankedInv == ASSUME PolicyIInv, Policy!BuildRanked PROVE PolicyIInv'
<1>1. /\ accept_weights \in PolicyWeighting /\ accept_policy' = PolicyRanked(accept_weights)
      /\ UNCHANGED <<accept_rows, accept_config, accept_weights, accept_forecast>>
  BY DEF Policy!BuildRanked, PolicyRanked, PolicyIInv, PolicyTyped
<1>2. PolicyRanked(accept_weights)' = PolicyRanked(accept_weights)
  BY <1>1 DEF PolicyRanked, Policy!Lowest, Policy!TakenRegimes, Policy!LowestOf, Policy!Selected,
      Policy!ScoresOf, Policy!Takes, Policy!Before
<1> QED
  BY <1>1, <1>2 DEF PolicyIInv, PolicyTyped

LEMMA PolicyBuildFiltersInv ==
  ASSUME PolicyIInv, NEW first \in accept_Levels, NEW second \in accept_Levels, Policy!BuildFilters(first, second) PROVE PolicyIInv'
<1>1. /\ accept_policy' = [mode |-> "threshold_filters", first |-> first, second |-> second]
      /\ UNCHANGED <<accept_rows, accept_config, accept_weights, accept_forecast>>
  BY DEF Policy!BuildFilters
<1>2. accept_policy' \in PolicyFilters
  BY <1>1 DEF PolicyFilters
<1> QED
  BY <1>1, <1>2 DEF PolicyIInv, PolicyTyped

\* Whatever is refused, a reason stands beside it.
LEMMA PolicyReasonIs ==
  ASSUME PolicyTyped, accept_policy # Policy!NoPolicy, NEW r \in Policy!Row, ~Policy!Accepted(accept_policy, r) PROVE Policy!Reasons(accept_policy, r) # {}
<1>1. CASE accept_weights \in PolicyWeighting /\ accept_policy = PolicyRanked(accept_weights)
  <2> PICK w : w = accept_weights
    OBVIOUS
  <2>0. w \in PolicyWeighting /\ accept_rows \in [1 .. accept_Size -> Policy!Row] /\ accept_policy = PolicyRanked(w)
    BY <1>1 DEF PolicyTyped
  <2>1. accept_policy.mode = "score_rank" /\ accept_policy.weights = w
        /\ Policy!Threshold(accept_policy, r.regime) \in {Policy!Lowest(w)} \cup {Policy!Rounded(Policy!LowestOf(w, g)) : g \in Policy!TakenRegimes(w)}
    BY <2>0 DEF PolicyRanked, Policy!Threshold
  <2>2. Policy!Selected(w) \subseteq DOMAIN accept_rows /\ \A k \in DOMAIN accept_rows : Policy!Score(accept_rows[k], w) \in Nat
    BY <2>0, PolicySelectedIs, PolicyOrdered
  <2>3. Policy!Lowest(w) \in Nat
    <3>1. ASSUME Policy!Selected(w) # {} PROVE Policy!Min(Policy!ScoresOf(w, Policy!Selected(w))) \in Nat
      <4>1. Policy!ScoresOf(w, Policy!Selected(w)) \in SUBSET Nat /\ Policy!ScoresOf(w, Policy!Selected(w)) # {}
        BY <2>2, <3>1 DEF Policy!ScoresOf
      <4> QED
        BY <4>1, PolicyMinIs
    <3> QED
      BY <3>1, PolicyBestIs, PolicyRoundedIs DEF Policy!Lowest
  <2>4. ASSUME NEW g \in Policy!TakenRegimes(w) PROVE Policy!Rounded(Policy!LowestOf(w, g)) \in Nat
    <3> DEFINE some == {i \in Policy!Selected(w) : accept_rows[i].regime = g}
    <3>1. some # {} /\ some \subseteq DOMAIN accept_rows
      BY <2>2 DEF Policy!TakenRegimes
    <3>2. Policy!ScoresOf(w, some) \in SUBSET Nat /\ Policy!ScoresOf(w, some) # {}
      BY <2>2, <3>1 DEF Policy!ScoresOf
    <3>3. Policy!Min(Policy!ScoresOf(w, some)) \in Nat
      BY <3>2, PolicyMinIs
    <3> QED
      BY <3>3, PolicyRoundedIs DEF Policy!LowestOf
  <2>5. Policy!Threshold(accept_policy, r.regime) \in Nat /\ Policy!Score(r, w) \in Nat
    BY <2>0, <2>1, <2>3, <2>4, PolicyScoreIs
  <2>6. ~(Policy!Score(r, w) >= Policy!Threshold(accept_policy, r.regime))
    BY <2>1 DEF Policy!Accepted
  <2>7. Policy!Threshold(accept_policy, r.regime) > Policy!Score(r, w)
    BY <2>5, <2>6
  <2> QED
    BY <2>1, <2>7 DEF Policy!Reasons
<1>2. CASE accept_policy \in PolicyFilters
  <2>1. /\ accept_policy.mode # "score_rank" /\ accept_policy.first \in Nat /\ accept_policy.second \in Nat
        /\ r.first \in Nat /\ r.second \in Nat
    BY <1>2, PolicyAssumption DEF PolicyFilters, Policy!Row
  <2>2. accept_policy.first > r.first \/ accept_policy.second > r.second
    BY <2>1 DEF Policy!Accepted, Policy!Passes
  <2> QED
    BY <2>1, <2>2 DEF Policy!Reasons
<1> QED
  BY <1>1, <1>2 DEF PolicyTyped

LEMMA PolicyServeInv == ASSUME PolicyIInv, NEW r \in Policy!Row, Policy!Serve(r) PROVE PolicyIInv'
<1>1. /\ accept_policy # Policy!NoPolicy /\ UNCHANGED <<accept_rows, accept_config,
                                                        accept_weights, accept_policy>>
      /\ accept_forecast'.side = IF Policy!Accepted(accept_policy, r) THEN "proposed" ELSE "flat"
      /\ accept_forecast'.reasons = IF Policy!Accepted(accept_policy, r) THEN {} ELSE Policy!Reasons(accept_policy, r)
  BY DEF Policy!Serve
<1>2. PolicyTyped'
  <2>1. PolicyRanked(accept_weights)' = PolicyRanked(accept_weights)
    BY <1>1 DEF PolicyRanked, Policy!Lowest, Policy!TakenRegimes, Policy!LowestOf,
        Policy!Selected, Policy!ScoresOf, Policy!Takes, Policy!Before
  <2> QED
    BY <1>1, <2>1 DEF PolicyIInv, PolicyTyped
<1>3. ~Policy!Accepted(accept_policy, r) => Policy!Reasons(accept_policy, r) # {}
  BY <1>1, PolicyReasonIs DEF PolicyIInv
<1> QED
  BY <1>1, <1>2, <1>3 DEF PolicyIInv

LEMMA PolicyStepInv == ASSUME PolicyIInv, [Policy!Next]_(Policy!vars) PROVE PolicyIInv'
<1>1. CASE \E w \in Policy!Parts : Policy!Weigh(w)
  BY <1>1, PolicyWeighInv
<1>2. CASE Policy!BuildRanked
  BY <1>2, PolicyBuildRankedInv
<1>3. CASE \E first, second \in accept_Levels : Policy!BuildFilters(first, second)
  BY <1>3, PolicyBuildFiltersInv
<1>4. CASE \E r \in Policy!Row : Policy!Serve(r)
  BY <1>4, PolicyServeInv
<1>5. CASE UNCHANGED Policy!vars
  <2>1. PolicyRanked(accept_weights)' = PolicyRanked(accept_weights)
    BY <1>5 DEF Policy!vars, PolicyRanked, Policy!Lowest, Policy!TakenRegimes, Policy!LowestOf,
        Policy!Selected, Policy!ScoresOf, Policy!Takes, Policy!Before
  <2> QED
    BY <1>5, <2>1 DEF Policy!vars, PolicyIInv, PolicyTyped
<1> QED
  BY <1>1, <1>2, <1>3, <1>4, <1>5 DEF Policy!Next

\* Only its own steps touch AcceptancePolicy's variables.
LEMMA PolicySteps == [Next]_vars => [Policy!Next]_(Policy!vars)
BY DEF Next, vars, candleVars, storeVars, acceptVars, walkVars, quantVars, marketVars, macroVars,
    Policy!vars

-----------------------------------------------------------------------------
\* MarketBundle.

BundleUpto == {"ready", "fetching", "done", "failed"}

BundleTyped ==
  /\ market_now \in Nat /\ market_now <= market_MaxNow /\ market_path \in market_Paths
  /\ market_cache.asked \in Int /\ market_cache.of \in Nat /\ market_cache.asked <= market_cache.of /\ market_cache.of <= market_now
  /\ market_bundle \in [pc : {"none", "collecting", "made", "failed"}, from : Nat, count : Nat] /\ market_bundle.from <= market_now
  /\ market_job \in [market_Calls -> [pc : BundleUpto, asked : Nat, got : Seq(Nat)]]

\* A reading of a call is no older than it may be, and in order with those before it;
\* what a call waits for was asked for after all it has.
BundleFreshBy(c, j, from, t) ==
  \A i \in 1 .. Len(j.got) :
    j.got[i] <= t /\ (IF Bundle!Program[c][i] = "product" THEN j.got[i] + market_TTL > from ELSE j.got[i] >= from)
BundleInOrder(j) == \A i, k \in 1 .. Len(j.got) : i < k => j.got[i] < j.got[k] + market_TTL
BundleGoes(c, j, from, t) ==
  /\ Len(j.got) <= Len(Bundle!Program[c])
  /\ j.pc = "done" => Len(j.got) = Len(Bundle!Program[c])
  /\ j.pc \in {"ready", "fetching"} => Len(j.got) < Len(Bundle!Program[c])
  /\ j.pc = "fetching" => /\ Bundle!Program[c][Len(j.got) + 1] = "product" /\ from <= j.asked /\ j.asked <= t
                          /\ \A i \in 1 .. Len(j.got) : j.got[i] <= j.asked
BundleReads(c, j, from, t) == BundleFreshBy(c, j, from, t) /\ BundleInOrder(j) /\ BundleGoes(c, j, from, t)

BundleIInv ==
  /\ BundleTyped
  /\ \A c \in market_Calls : BundleReads(c, market_job[c], market_bundle.from, market_now)
  /\ market_bundle.pc = "made" => \A c \in market_Calls : market_job[c].pc = "done"

\* The sums of the first closes of a series are a function like AboveMean's.
BundleIsSum(p, sum, n) ==
  /\ sum \in [0 .. n -> Int] /\ sum[0] = 0
  /\ \A k \in 1 .. n : sum[k] = sum[k - 1] + p[k]

\* Such a function, whatever else is known of it.
BundleSums(p, sum) ==
  sum[0] = 0 /\ \A k \in 1 .. Len(p) : sum[k] = sum[k - 1] + p[k]

LEMMA BundleSumExists ==
  ASSUME NEW p \in Seq(Nat), NEW n \in 0 .. Len(p) PROVE \E sum : BundleIsSum(p, sum, n)
<1> SUFFICES ASSUME \A sum : ~BundleIsSum(p, sum, n) PROVE FALSE
  OBVIOUS
<1> DEFINE bad == {k \in 0 .. Len(p) : \A sum : ~BundleIsSum(p, sum, k)}
<1>1. Len(p) \in Nat /\ DOMAIN p = 1 .. Len(p) /\ \A k \in 1 .. Len(p) : p[k] \in Nat
  OBVIOUS
<1>2. PICK k \in bad : \A l \in bad : k <= l
  <2>1. bad \in SUBSET Nat /\ bad # {}
    BY <1>1
  <2> QED
    BY <2>1, Least
<1>3. k # 0
  <2>1. BundleIsSum(p, [i \in 0 .. 0 |-> 0], 0)
    BY DEF BundleIsSum
  <2> QED
    BY <1>2, <2>1
<1>4. k - 1 \in 0 .. Len(p) /\ k \in 1 .. Len(p)
  BY <1>1, <1>2, <1>3
<1>5. PICK sum : BundleIsSum(p, sum, k - 1)
  BY <1>1, <1>2, <1>4
<1> DEFINE more == [i \in 0 .. k |-> IF i = k THEN sum[k - 1] + p[k] ELSE sum[i]]
<1>6. \A i \in 0 .. k - 1 : sum[i] \in Int
  BY <1>5 DEF BundleIsSum
<1>7. more \in [0 .. k -> Int]
  BY <1>1, <1>4, <1>6
<1>8. more[0] = 0
  BY <1>4, <1>5 DEF BundleIsSum
<1>9. ASSUME NEW i \in 1 .. k PROVE more[i] = more[i - 1] + p[i]
  <2>1. i \in 0 .. k /\ i - 1 \in 0 .. k /\ i - 1 # k
    BY <1>4
  <2>2. CASE i = k
    BY <2>1, <2>2
  <2>3. CASE i # k
    <3>1. i \in 1 .. k - 1
      BY <1>4, <2>3
    <3> QED
      BY <1>5, <2>1, <2>3, <3>1 DEF BundleIsSum
  <2> QED
    BY <2>2, <2>3
<1> HIDE DEF more
<1>10. BundleIsSum(p, more, k)
  BY <1>7, <1>8, <1>9 DEF BundleIsSum
<1> QED
  BY <1>2, <1>10

LEMMA BundleAboveMeanIs ==
  ASSUME NEW p \in Seq(Nat)
  PROVE  \E sum : BundleSums(p, sum) /\ (Bundle!AboveMean(p) <=> Bundle!Last(p) * Len(p) >= sum[Len(p)])
<1> DEFINE IsF(sum) == sum = [n \in 0 .. Len(p) |-> IF n = 0 THEN 0 ELSE sum[n - 1] + p[n]]
           f == CHOOSE sum : IsF(sum)
<1>1. Len(p) \in Nat
  OBVIOUS
<1>2. \E sum : IsF(sum)
  <2>1. PICK sum : BundleIsSum(p, sum, Len(p))
    BY <1>1, BundleSumExists
  <2>2. IsF(sum)
    BY <1>1, <2>1 DEF BundleIsSum
  <2> QED
    BY <2>2
<1>3. IsF(f)
  <2> HIDE DEF IsF
  <2> QED
    BY <1>2
<1>4. Bundle!AboveMean(p) <=> Bundle!Last(p) * Len(p) >= f[Len(p)]
  BY DEF Bundle!AboveMean
<1> HIDE DEF f
<1>5. BundleSums(p, f)
  <2>1. f[0] = 0
    BY <1>1, <1>3
  <2>2. ASSUME NEW k \in 1 .. Len(p) PROVE f[k] = f[k - 1] + p[k]
    <3>1. k \in 0 .. Len(p) /\ k # 0
      BY <1>1
    <3> QED
      BY <1>3, <3>1
  <2> QED
    BY <2>1, <2>2 DEF BundleSums
<1> QED
  BY <1>4, <1>5

LEMMA BundleMultiples ==
  ASSUME NEW x \in Nat, NEW n \in Nat
  PROVE  x * n \in Nat /\ x * (n + 1) = x * n + x /\ x * 0 = 0 /\ (n + 1) * x = n * x + x /\ n * x = x * n
BY Z3

\* A sum of closes lies between the multiples of their bounds.
LEMMA BundleBetween ==
  ASSUME NEW p \in Seq(Nat), NEW sum, BundleSums(p, sum), NEW m \in 0 .. Len(p), NEW low \in Nat, NEW high \in Nat,
         \A i \in 1 .. m : low <= p[i] /\ p[i] <= high
  PROVE  sum[m] \in Nat /\ low * m <= sum[m] /\ sum[m] <= high * m
<1> DEFINE Good(n) == sum[n] \in Nat /\ low * n <= sum[n] /\ sum[n] <= high * n
           bad == {n \in 0 .. m : ~Good(n)}
<1>1. Len(p) \in Nat /\ m \in Nat /\ m <= Len(p) /\ \A k \in 1 .. Len(p) : p[k] \in Nat
  OBVIOUS
<1> SUFFICES ASSUME ~Good(m) PROVE FALSE
  OBVIOUS
<1>2. PICK n \in bad : \A l \in bad : n <= l
  <2>1. bad \in SUBSET Nat /\ m \in bad
    BY <1>1
  <2> HIDE DEF bad
  <2> QED
    BY <2>1, Least
<1>3. n # 0
  <2>1. Good(0)
    BY BundleMultiples DEF BundleSums
  <2> QED
    BY <1>2, <2>1
<1>4. n \in 1 .. m /\ n \in 1 .. Len(p) /\ n - 1 \in 0 .. m /\ n - 1 \in Nat
  BY <1>1, <1>2, <1>3
<1>5. Good(n - 1)
  BY <1>1, <1>2, <1>4
<1>6. sum[n] = sum[n - 1] + p[n] /\ p[n] \in Nat /\ low <= p[n] /\ p[n] <= high
  BY <1>1, <1>4 DEF BundleSums
<1> PICK k \in Nat : k = n - 1
  BY <1>4
<1>7. low * n = low * k + low /\ high * n = high * k + high /\ low * k \in Nat /\ high * k \in Nat
  <2>1. n = k + 1
    BY <1>4
  <2> QED
    BY <2>1, BundleMultiples
<1> DEFINE a == low * k
           b == high * k
           c == low * n
           d == high * n
           e == sum[n]
           g == sum[k]
<1>8. /\ g \in Nat /\ a <= g /\ g <= b /\ e = g + p[n] /\ c = a + low /\ d = b + high
      /\ a \in Nat /\ b \in Nat
  BY <1>5, <1>6, <1>7
<1>9. ~(e \in Nat /\ c <= e /\ e <= d)
  BY <1>2
<1> HIDE DEF a, b, c, d, e, g, Good, bad
<1> PICK q \in Nat : q = p[n]
  BY <1>6
<1>10. e = g + q /\ low <= q /\ q <= high
  BY <1>6, <1>8
<1>11. e \in Nat /\ c <= e
  BY <1>8, <1>10
<1>12. e <= d
  BY <1>8, <1>10
<1> QED
  BY <1>9, <1>11, <1>12

\* The closes of a series have a highest and a lowest.
LEMMA BundleExtremes ==
  ASSUME NEW T \in SUBSET Nat, T # {}, NEW bound \in Nat, \A x \in T : x <= bound
  PROVE  /\ Bundle!Min(T) \in T /\ \A x \in T : Bundle!Min(T) <= x
         /\ Bundle!Max(T) \in T /\ \A x \in T : x <= Bundle!Max(T)
<1>1. \E m \in T : \A x \in T : m <= x
  BY Least
<1>2. \E m \in T : \A x \in T : x <= m
  <2> DEFINE below == {bound - x : x \in T}
  <2>1. below \in SUBSET Nat /\ below # {}
    <3>1. ASSUME NEW x \in T PROVE bound - x \in Nat
      <4>1. x \in Nat /\ x <= bound
        OBVIOUS
      <4> QED
        BY <4>1
    <3> QED
      BY <3>1
  <2>2. PICK y \in below : \A z \in below : y <= z
    BY <2>1, Least
  <2>3. PICK m \in T : y = bound - m
    BY <2>2
  <2>4. ASSUME NEW x \in T PROVE x <= m
    <3>1. bound - m <= bound - x
      BY <2>2, <2>3
    <3> QED
      BY <3>1
  <2> QED
    BY <2>4
<1> QED
  BY <1>1, <1>2 DEF Bundle!Min, Bundle!Max

\* The first closes are bounded.
LEMMA BundleBounded ==
  ASSUME NEW p \in Seq(Nat), NEW n \in 0 .. Len(p)
  PROVE  \E bound \in Nat : \A i \in 1 .. n : p[i] <= bound
<1> DEFINE Good(k) == \E bound \in Nat : \A i \in 1 .. k : p[i] <= bound
           bad == {k \in 0 .. n : ~Good(k)}
<1>1. Len(p) \in Nat /\ n \in Nat /\ n <= Len(p) /\ \A i \in 1 .. Len(p) : p[i] \in Nat
  OBVIOUS
<1> SUFFICES ASSUME ~Good(n) PROVE FALSE
  OBVIOUS
<1>2. PICK k \in bad : \A l \in bad : k <= l
  <2>1. bad \in SUBSET Nat /\ n \in bad
    BY <1>1
  <2> HIDE DEF bad
  <2> QED
    BY <2>1, Least
<1>3. k \in 0 .. n /\ ~Good(k)
  OBVIOUS
<1>4. k # 0
  <2>1. Good(0)
    <3>1. 0 \in Nat /\ \A i \in 1 .. 0 : p[i] <= 0
      OBVIOUS
    <3> QED
      BY <3>1
  <2> HIDE DEF Good
  <2> QED
    BY <1>3, <2>1
<1>5. k - 1 \in 0 .. n /\ k \in 1 .. Len(p) /\ k \in Nat /\ ~(k <= k - 1)
  BY <1>1, <1>3, <1>4
<1>6. Good(k - 1)
  <2>1. k - 1 \notin bad
    <3> HIDE DEF bad
    <3> QED
      BY <1>2, <1>5
  <2> HIDE DEF Good
  <2> QED
    BY <1>5, <2>1
<1>7. PICK bound \in Nat : \A i \in 1 .. k - 1 : p[i] <= bound
  BY <1>6
<1> HIDE DEF bad, Good
<1> PICK q \in Nat : q = p[k]
  BY <1>1, <1>5
<1>8. \A i \in 1 .. k : p[i] <= bound + q
  <2> TAKE i \in 1 .. k
  <2>1. i \in 1 .. Len(p) /\ (i = k \/ i \in 1 .. k - 1)
    BY <1>5
  <2> PICK x \in Nat : x = p[i]
    BY <1>1, <2>1
  <2>2. x = q \/ x <= bound
    BY <1>7, <2>1
  <2>3. x <= bound + q
    BY <2>2
  <2> QED
    BY <2>3
<1>9. bound + q \in Nat
  OBVIOUS
<1>10. Good(k)
  BY <1>8, <1>9 DEF Good
<1> QED
  BY <1>3, <1>10

\* What a break says of the rest of the shape.
LEMMA BundleShape ==
  ASSUME NEW p \in Seq(Nat)
  PROVE  /\ Bundle!Breakout(p) = "up_breakout" => Bundle!Trend(p) = "uptrend" /\ Bundle!AboveMean(p) /\ Bundle!Level(p).high = Bundle!Last(p)
         /\ Bundle!Breakout(p) = "down_breakout" => Bundle!Trend(p) = "downtrend" /\ ~Bundle!AboveMean(p) /\ Bundle!Level(p).low = Bundle!Last(p)
<1> DEFINE n == Len(p)
           last == Bundle!Last(p)
           before == {p[i] : i \in 1 .. n - 1}
           all == Bundle!ToSet(p)
<1>1. n \in Nat /\ \A i \in 1 .. n : p[i] \in Nat
  OBVIOUS
<1> SUFFICES ASSUME n >= 3 PROVE
      /\ last > Bundle!Max(before) => Bundle!Trend(p) = "uptrend" /\ Bundle!AboveMean(p) /\ Bundle!Max(all) = last
      /\ last < Bundle!Min(before) => Bundle!Trend(p) = "downtrend" /\ ~Bundle!AboveMean(p) /\ Bundle!Min(all) = last
  <2>1. Bundle!Level(p).high = Bundle!Max(all) /\ Bundle!Level(p).low = Bundle!Min(all)
    BY DEF Bundle!Level
  <2>2. /\ Bundle!Breakout(p) = "up_breakout" => n >= 3 /\ last > Bundle!Max(before)
        /\ Bundle!Breakout(p) = "down_breakout" => n >= 3 /\ last < Bundle!Min(before)
    BY <1>1 DEF Bundle!Breakout
  <2> QED
    BY <2>1, <2>2
<1>2. last = p[n] /\ last \in Nat /\ n \in 1 .. n /\ 1 \in 1 .. n - 1
  BY <1>1 DEF Bundle!Last
<1>3. PICK bound \in Nat : \A i \in 1 .. n : p[i] <= bound
  <2>1. n \in 0 .. n
    BY <1>1
  <2> QED
    BY <2>1, BundleBounded
<1>4. before \in SUBSET Nat /\ before # {} /\ p[1] \in before /\ \A x \in before : x <= bound
  BY <1>1, <1>2, <1>3
<1>5. /\ all = {p[i] : i \in 1 .. n}
      /\ all \in SUBSET Nat /\ last \in all /\ all = before \cup {last} /\ \A x \in all : x <= bound
  <2>1. all = {p[i] : i \in 1 .. n}
    BY DEF Bundle!ToSet
  <2>2. \A i \in 1 .. n : i = n \/ i \in 1 .. n - 1
    BY <1>1
  <2>3. all = before \cup {last}
    BY <1>1, <1>2, <2>1, <2>2
  <2> QED
    BY <1>1, <1>2, <1>3, <2>1, <2>3
<1>6. /\ Bundle!Min(before) \in before /\ \A x \in before : Bundle!Min(before) <= x
      /\ Bundle!Max(before) \in before /\ \A x \in before : x <= Bundle!Max(before)
  <2> HIDE DEF before
  <2> QED
    BY <1>4, BundleExtremes
<1>7. /\ Bundle!Min(all) \in all /\ \A x \in all : Bundle!Min(all) <= x
      /\ Bundle!Max(all) \in all /\ \A x \in all : x <= Bundle!Max(all)
  <2> HIDE DEF all, before
  <2> QED
    BY <1>5, BundleExtremes
<1>8. PICK sum : BundleSums(p, sum) /\ (Bundle!AboveMean(p) <=> last * n >= sum[n])
  BY BundleAboveMeanIs
<1>9. \A i \in 1 .. n - 1 : p[i] \in before
  OBVIOUS
<1> HIDE DEF before, all, last
<1>10. ASSUME last > Bundle!Max(before) PROVE Bundle!Trend(p) = "uptrend" /\ Bundle!AboveMean(p) /\ Bundle!Max(all) = last
  <2>1. \A x \in before : x \in Nat /\ x < last
    <3>1. Bundle!Max(before) \in Nat
      BY <1>4, <1>6
    <3> TAKE x \in before
    <3>2. x \in Nat /\ x <= Bundle!Max(before)
      BY <1>4, <1>6
    <3> QED
      BY <1>2, <1>10, <3>1, <3>2
  <2>2. last > p[1]
    BY <1>4, <2>1
  <2>3. Bundle!Max(all) = last
    <3> PICK x \in Nat : x = Bundle!Max(all)
      BY <1>5, <1>7
    <3>1. last <= x /\ (x = last \/ x < last)
      BY <1>5, <1>7, <2>1
    <3> QED
      BY <1>2, <3>1
  <2>4. \A i \in 1 .. n : 0 <= p[i] /\ p[i] <= last
    <3> TAKE i \in 1 .. n
    <3>1. i = n \/ i \in 1 .. n - 1
      BY <1>1
    <3> QED
      BY <1>1, <1>2, <1>9, <2>1, <3>1
  <2>5. sum[n] <= last * n /\ sum[n] \in Nat /\ last * n \in Nat
    <3>1. n \in 0 .. n /\ 0 \in Nat
      BY <1>1
    <3> QED
      BY <1>1, <1>2, <1>8, <2>4, <3>1, BundleBetween, BundleMultiples
  <2>6. Bundle!AboveMean(p)
    BY <1>8, <2>5
  <2> QED
    BY <2>2, <2>3, <2>6 DEF Bundle!Trend, last
<1>11. ASSUME last < Bundle!Min(before) PROVE Bundle!Trend(p) = "downtrend" /\ ~Bundle!AboveMean(p) /\ Bundle!Min(all) = last
  <2>1. \A x \in before : x \in Nat /\ last < x
    <3>1. Bundle!Min(before) \in Nat
      BY <1>4, <1>6
    <3> TAKE x \in before
    <3>2. x \in Nat /\ Bundle!Min(before) <= x
      BY <1>4, <1>6
    <3> QED
      BY <1>2, <1>11, <3>1, <3>2
  <2>2. ~(last > p[1])
    BY <1>2, <1>4, <2>1
  <2>3. Bundle!Min(all) = last
    <3> PICK x \in Nat : x = Bundle!Min(all)
      BY <1>5, <1>7
    <3>1. x <= last /\ (x = last \/ last < x)
      BY <1>5, <1>7, <2>1
    <3> QED
      BY <1>2, <3>1
  <2>4. n - 1 \in 0 .. n /\ n - 1 \in Nat
    BY <1>1
  <2>5. \A i \in 1 .. n - 1 : last + 1 <= p[i] /\ p[i] <= bound
    BY <1>1, <1>2, <1>3, <1>9, <2>1
  <2>6. last + 1 \in Nat
    BY <1>2
  <2>7. (last + 1) * (n - 1) <= sum[n - 1] /\ sum[n - 1] \in Nat
    BY <1>8, <2>4, <2>5, <2>6, BundleBetween
  <2>8. sum[n] = sum[n - 1] + last
    BY <1>2, <1>8 DEF BundleSums
  <2> PICK k \in Nat : k = n - 1
    BY <2>4
  <2>9. last * n = last * k + last /\ (last + 1) * k = last * k + k /\ last * k \in Nat
    <3>1. n = k + 1
      BY <1>1
    <3>2. last * (k + 1) = last * k + last /\ last * k \in Nat
      BY <1>2, BundleMultiples
    <3>3. (last + 1) * k = last * k + k
      BY <1>2, BundleMultiples
    <3> QED
      BY <3>1, <3>2, <3>3
  <2> DEFINE a == last * k
             b == last * n
             c == (last + 1) * k
             e == sum[n]
             g == sum[k]
  <2>10. /\ a \in Nat /\ b = a + last /\ c = a + k /\ c <= g /\ g \in Nat /\ e = g + last /\ k >= 2
    BY <1>1, <2>7, <2>8, <2>9
  <2> HIDE DEF a, b, c, e, g
  <2>11. ~(b >= e)
    BY <1>2, <2>10
  <2>12. ~Bundle!AboveMean(p)
    BY <1>8, <2>11 DEF b, e
  <2> QED
    BY <2>2, <2>3, <2>12 DEF Bundle!Trend, last
<1> QED
  BY <1>10, <1>11

LEMMA BundleProgramIs ==
  \A c \in market_Calls : Len(Bundle!Program[c]) \in Nat /\ Len(Bundle!Program[c]) >= 1 /\ DOMAIN Bundle!Program[c] = 1 .. Len(Bundle!Program[c])
<1> DEFINE Is(p) == Len(p) \in Nat /\ Len(p) >= 1 /\ DOMAIN p = 1 .. Len(p)
<1>1. Is(<<"product">>) /\ Is(<<"orders">>)
  OBVIOUS
<1>2. Is(<<"candles", "product">>) /\ Is(<<"product", "product">>)
  OBVIOUS
<1>3. Is(<<"equity", "position", "product">>) /\ Is(<<"equity", "position", "orders">>)
  OBVIOUS
<1> HIDE DEF Is
<1>4. /\ Bundle!Program["market"] = <<"product">> /\ Bundle!Program["history"] = <<"orders">>
      /\ Bundle!Program["context"] = <<"candles",
                                       "product">> /\ Bundle!Program["metadata"] = <<"product",
                                       "product">>
      /\ Bundle!Program["accounts"] = <<"equity", "position", "product">>
      /\ Bundle!Program["portfolio"] = <<"equity", "position", "orders">>
  BY DEF Bundle!Program
<1>5. \A c \in market_Calls : Is(Bundle!Program[c])
  BY <1>1, <1>2, <1>3, <1>4, BundleAssumption
<1> QED
  BY <1>5 DEF Is

LEMMA BundleWaitingReads ==
  ASSUME NEW c \in market_Calls, NEW from \in Nat, NEW t \in Nat
  PROVE  BundleReads(c, Bundle!Waiting, from, t) /\ Bundle!Waiting \in [pc : BundleUpto, asked : Nat, got : Seq(Nat)]
BY BundleProgramIs DEF BundleReads, BundleFreshBy, BundleInOrder, BundleGoes, Bundle!Waiting,
    BundleUpto

LEMMA BundleInitInv == ASSUME Bundle!Init PROVE BundleIInv
<1>1. BundleTyped
  BY BundleAssumption, BundleWaitingReads DEF Bundle!Init, BundleTyped, Bundle!NoProduct
<1>2. \A c \in market_Calls : BundleReads(c, market_job[c], market_bundle.from, market_now)
  BY BundleWaitingReads DEF Bundle!Init
<1> QED
  BY <1>1, <1>2 DEF BundleIInv, Bundle!Init

\* One call goes on.
LEMMA BundleOneCall ==
  ASSUME BundleIInv, NEW c \in market_Calls, NEW j \in [pc : BundleUpto, asked : Nat, got : Seq(Nat)],
         market_job' = [market_job EXCEPT ![c] = j], BundleReads(c, j, market_bundle.from, market_now),
         UNCHANGED <<market_now, market_path, market_bundle>>, market_bundle.pc # "made",
         market_cache'.asked \in Int, market_cache'.of \in Nat, market_cache'.asked <= market_cache'.of, market_cache'.of <= market_now
  PROVE  BundleIInv'
<1>1. BundleTyped'
  BY DEF BundleIInv, BundleTyped
<1>2. \A d \in market_Calls : market_job'[d] = IF d = c THEN j ELSE market_job[d]
  BY DEF BundleIInv, BundleTyped
<1>3. \A d \in market_Calls : BundleReads(d, market_job'[d], market_bundle.from, market_now)
  BY <1>2 DEF BundleIInv
<1> QED
  BY <1>1, <1>3 DEF BundleIInv

\* A reading comes to those a call has.
LEMMA BundleGotInv ==
  ASSUME BundleIInv, NEW c \in market_Calls, Bundle!Running(c), NEW at \in Nat, Bundle!Got(c, at), at <= market_now,
         IF Bundle!Wanted(c) = "product" THEN at + market_TTL > market_bundle.from ELSE at >= market_bundle.from,
         \A i \in 1 .. Len(market_job[c].got) : market_job[c].got[i] < at + market_TTL,
         UNCHANGED <<market_now, market_path, market_bundle>>,
         market_cache'.asked \in Int, market_cache'.of \in Nat, market_cache'.asked <= market_cache'.of, market_cache'.of <= market_now
  PROVE  BundleIInv'
<1> DEFINE x == market_job[c]
           n == Len(x.got)
           got == Append(x.got, at)
           j == [pc |-> IF Len(got) = Len(Bundle!Program[c]) THEN "done" ELSE "ready", asked |-> 0, got |-> got]
<1>1. x.got \in Seq(Nat) /\ n \in Nat /\ BundleReads(c, x, market_bundle.from, market_now) /\ x.pc \in {"ready", "fetching"}
  BY DEF BundleIInv, BundleTyped, Bundle!Running
<1>2. got \in Seq(Nat) /\ Len(got) = n + 1 /\ got[n + 1] = at /\ \A i \in 1 .. n : got[i] = x.got[i]
  BY <1>1
<1>3. Len(Bundle!Program[c]) \in Nat /\ n < Len(Bundle!Program[c]) /\ Bundle!Wanted(c) = Bundle!Program[c][n + 1]
  BY <1>1, BundleProgramIs DEF BundleReads, BundleGoes, Bundle!Wanted
<1> HIDE DEF got, n
<1>4. j \in [pc : BundleUpto, asked : Nat, got : Seq(Nat)] /\ j.got = got /\ market_job' = [market_job EXCEPT ![c] = j]
  BY <1>2 DEF BundleUpto, Bundle!Got, got
<1>5. \A i \in 1 .. n + 1 : i = n + 1 \/ i \in 1 .. n
  BY <1>1
<1>6. BundleFreshBy(c, j, market_bundle.from, market_now)
  <2> SUFFICES ASSUME NEW i \in 1 .. n + 1
               PROVE  got[i] <= market_now /\ (IF Bundle!Program[c][i] = "product" THEN got[i] + market_TTL > market_bundle.from ELSE got[i] >= market_bundle.from)
    BY <1>2, <1>4 DEF BundleFreshBy
  <2>1. CASE i = n + 1
    BY <1>2, <1>3, <2>1
  <2>2. CASE i \in 1 .. n
    BY <1>1, <1>2, <2>2 DEF BundleReads, BundleFreshBy, n
  <2> QED
    BY <1>5, <2>1, <2>2
<1>7. BundleInOrder(j)
  <2> SUFFICES ASSUME NEW i \in 1 .. n + 1, NEW k \in 1 .. n + 1, i < k PROVE got[i] < got[k] + market_TTL
    BY <1>2, <1>4 DEF BundleInOrder
  <2>1. i \in 1 .. n
    BY <1>1
  <2>2. CASE k = n + 1
    BY <1>2, <2>1, <2>2 DEF n
  <2>3. CASE k \in 1 .. n
    BY <1>1, <1>2, <2>1, <2>3 DEF BundleReads, BundleInOrder, n
  <2> QED
    BY <1>5, <2>2, <2>3
<1>8. BundleGoes(c, j, market_bundle.from, market_now)
  BY <1>1, <1>2, <1>3 DEF BundleGoes
<1>9. market_bundle.pc # "made"
  BY DEF Bundle!Running
<1> HIDE DEF j
<1> QED
  BY <1>4, <1>6, <1>7, <1>8, <1>9, BundleOneCall DEF BundleReads

LEMMA BundleTickInv == ASSUME BundleIInv, Bundle!Tick PROVE BundleIInv'
<1>1. market_now \in Nat /\ market_now' = market_now + 1 /\ market_now' <= market_MaxNow /\ UNCHANGED <<market_path,
                                                                                                        market_cache,
                                                                                                        market_job,
                                                                                                        market_bundle>>
  BY BundleAssumption DEF Bundle!Tick, BundleIInv, BundleTyped
<1>2. BundleTyped'
  BY <1>1 DEF BundleIInv, BundleTyped
<1>3. ASSUME NEW c \in market_Calls PROVE BundleReads(c, market_job[c], market_bundle.from, market_now')
  <2>1. BundleReads(c, market_job[c], market_bundle.from, market_now) /\ market_job[c].got \in Seq(Nat) /\ market_job[c].asked \in Nat
    BY DEF BundleIInv, BundleTyped
  <2>2. BundleFreshBy(c, market_job[c], market_bundle.from, market_now')
    <3>1. \A i \in 1 .. Len(market_job[c].got) : market_job[c].got[i] \in Nat
      BY <2>1
    <3> QED
      BY <1>1, <2>1, <3>1 DEF BundleReads, BundleFreshBy
  <2> QED
    BY <1>1, <2>1, <2>2 DEF BundleReads, BundleGoes
<1> QED
  BY <1>1, <1>2, <1>3 DEF BundleIInv

LEMMA BundleCollectInv == ASSUME BundleIInv, Bundle!Collect PROVE BundleIInv'
<1>1. /\ market_bundle' = [pc |-> "collecting", from |-> market_now, count |-> market_bundle.count + 1]
      /\ market_job' = [c \in market_Calls |-> Bundle!Waiting] /\ UNCHANGED <<market_now,
                                                                              market_path,
                                                                              market_cache>>
  BY DEF Bundle!Collect
<1>2. BundleTyped'
  <2>1. \A c \in market_Calls : Bundle!Waiting \in [pc : BundleUpto, asked : Nat, got : Seq(Nat)]
    BY BundleWaitingReads
  <2> QED
    BY <1>1, <2>1 DEF BundleIInv, BundleTyped
<1>3. \A c \in market_Calls : BundleReads(c, market_job'[c], market_bundle'.from, market_now)
  BY <1>1, BundleWaitingReads DEF BundleIInv, BundleTyped
<1> QED
  BY <1>1, <1>2, <1>3 DEF BundleIInv

LEMMA BundleReadInv == ASSUME BundleIInv, NEW c \in market_Calls, Bundle!Read(c) PROVE BundleIInv'
<1>1. Bundle!Running(c) /\ Bundle!Wanted(c) # "product" /\ Bundle!Got(c, market_now) /\ UNCHANGED <<market_now,
                                                                                                    market_path,
                                                                                                    market_cache,
                                                                                                    market_bundle>>
  BY DEF Bundle!Read
<1>2. market_now \in Nat /\ market_bundle.from <= market_now
  BY DEF BundleIInv, BundleTyped
<1>3. \A i \in 1 .. Len(market_job[c].got) : market_job[c].got[i] < market_now + market_TTL
  <2>1. \A i \in 1 .. Len(market_job[c].got) : market_job[c].got[i] \in Nat /\ market_job[c].got[i] <= market_now
    BY DEF BundleIInv, BundleTyped, BundleReads, BundleFreshBy
  <2> QED
    BY <1>2, <2>1, BundleAssumption
<1> QED
  BY <1>1, <1>2, <1>3, BundleGotInv DEF BundleIInv, BundleTyped

LEMMA BundleCachedInv == ASSUME BundleIInv, NEW c \in market_Calls, Bundle!Cached(c) PROVE BundleIInv'
<1>1. Bundle!Running(c) /\ Bundle!Wanted(c) = "product" /\ Bundle!Got(c, market_cache.of) /\ UNCHANGED <<market_now,
                                                                                                         market_path,
                                                                                                         market_cache,
                                                                                                         market_bundle>>
      /\ market_now - market_cache.asked < market_TTL
  BY DEF Bundle!Cached
<1>2. market_now \in Nat /\ market_bundle.from \in Nat /\ market_bundle.from <= market_now /\ market_cache.of \in Nat /\ market_cache.asked \in Int
      /\ market_cache.asked <= market_cache.of /\ market_cache.of <= market_now
  BY DEF BundleIInv, BundleTyped
<1>3. market_cache.of + market_TTL > market_now
  BY <1>1, <1>2, BundleAssumption
<1>4. \A i \in 1 .. Len(market_job[c].got) : market_job[c].got[i] < market_cache.of + market_TTL
  <2>1. \A i \in 1 .. Len(market_job[c].got) : market_job[c].got[i] \in Nat /\ market_job[c].got[i] <= market_now
    BY DEF BundleIInv, BundleTyped, BundleReads, BundleFreshBy
  <2> TAKE i \in 1 .. Len(market_job[c].got)
  <2> PICK x \in Nat : x = market_job[c].got[i]
    BY <2>1
  <2>2. x <= market_now
    BY <2>1
  <2>3. x < market_cache.of + market_TTL
    BY <1>2, <1>3, <2>2, BundleAssumption
  <2> QED
    BY <2>3
<1>5. market_cache.of + market_TTL > market_bundle.from
  BY <1>2, <1>3, BundleAssumption
<1> QED
  BY <1>1, <1>2, <1>4, <1>5, BundleGotInv

LEMMA BundleMissedInv == ASSUME BundleIInv, NEW c \in market_Calls, Bundle!Missed(c) PROVE BundleIInv'
<1> PICK x : x = market_job[c]
  OBVIOUS
<1> PICK j : j = [pc |-> "fetching", asked |-> market_now, got |-> x.got]
  OBVIOUS
<1>1. /\ Bundle!Running(c) /\ Bundle!Wanted(c) = "product" /\ x.pc = "ready" /\ UNCHANGED <<market_now,
                                                                                            market_path,
                                                                                            market_cache,
                                                                                            market_bundle>>
      /\ market_job' = [market_job EXCEPT ![c].pc = "fetching", ![c].asked = market_now]
  BY DEF Bundle!Missed
<1>2. x \in [pc : BundleUpto, asked : Nat, got : Seq(Nat)] /\ BundleReads(c, x, market_bundle.from, market_now) /\ market_now \in Nat
  BY DEF BundleIInv, BundleTyped
<1>3. market_job' = [market_job EXCEPT ![c] = j]
  <2>1. [[x EXCEPT !.pc = "fetching"] EXCEPT !.asked = market_now] = j
    <3>1. [x EXCEPT !.pc = "fetching"] = [pc |-> "fetching", asked |-> x.asked, got |-> x.got]
      BY <1>2
    <3>2. [[pc |-> "fetching", asked |-> x.asked, got |-> x.got] EXCEPT !.asked = market_now] = j
      OBVIOUS
    <3> QED
      BY <3>1, <3>2
  <2>2. [x EXCEPT !.pc = "fetching", !.asked = market_now] = [[x EXCEPT !.pc = "fetching"] EXCEPT !.asked = market_now]
    OBVIOUS
  <2>3. market_job' = [market_job EXCEPT ![c] = [x EXCEPT !.pc = "fetching", !.asked = market_now]]
    BY <1>1 DEF BundleIInv, BundleTyped
  <2> QED
    BY <2>1, <2>2, <2>3
<1>4. j \in [pc : BundleUpto, asked : Nat, got : Seq(Nat)]
  BY <1>2 DEF BundleUpto
<1>5. BundleReads(c, j, market_bundle.from, market_now)
  <2>1. BundleFreshBy(c, j, market_bundle.from, market_now) /\ BundleInOrder(j)
    BY <1>2 DEF BundleReads, BundleFreshBy, BundleInOrder
  <2>2. BundleGoes(c, j, market_bundle.from, market_now)
    BY <1>1, <1>2 DEF BundleReads, BundleGoes, BundleFreshBy, Bundle!Wanted, BundleIInv,
        BundleTyped
  <2> QED
    BY <2>1, <2>2 DEF BundleReads
<1>6. market_bundle.pc # "made"
  BY <1>1 DEF Bundle!Running
<1>7. market_cache'.asked \in Int /\ market_cache'.of \in Nat /\ market_cache'.asked <= market_cache'.of /\ market_cache'.of <= market_now
  BY <1>1 DEF BundleIInv, BundleTyped
<1>8. UNCHANGED <<market_now, market_path, market_bundle>>
  BY <1>1
<1> QED
  BY <1>3, <1>4, <1>5, <1>6, <1>7, <1>8, BundleOneCall

LEMMA BundleFetchedInv == ASSUME BundleIInv, NEW c \in market_Calls, Bundle!Fetched(c) PROVE BundleIInv'
<1>1. Bundle!Running(c) /\ market_job[c].pc = "fetching" /\ UNCHANGED <<market_now, market_path,
                                                                        market_bundle>>
  BY DEF Bundle!Fetched
<1>2. PICK at \in market_job[c].asked .. market_now : market_cache' = [asked |-> market_job[c].asked, of |-> at] /\ Bundle!Got(c, at)
  BY DEF Bundle!Fetched, Bundle!Stamp
<1>3. market_now \in Nat /\ market_job[c].asked \in Nat /\ market_bundle.from \in Nat /\ market_job[c].got \in Seq(Nat)
      /\ BundleReads(c, market_job[c], market_bundle.from, market_now)
  BY DEF BundleIInv, BundleTyped
<1>4. at \in Nat /\ market_job[c].asked <= at /\ at <= market_now
  BY <1>2, <1>3
<1>5. /\ Bundle!Wanted(c) = "product" /\ market_bundle.from <= market_job[c].asked
      /\ \A i \in 1 .. Len(market_job[c].got) : market_job[c].got[i] \in Nat /\ market_job[c].got[i] <= market_job[c].asked
  <2>1. BundleGoes(c, market_job[c], market_bundle.from, market_now)
    BY <1>3 DEF BundleReads
  <2>2. \A i \in 1 .. Len(market_job[c].got) : market_job[c].got[i] \in Nat
    BY <1>3
  <2> QED
    BY <1>1, <2>1, <2>2 DEF BundleGoes, Bundle!Wanted
<1>6. at + market_TTL > market_bundle.from /\ \A i \in 1 .. Len(market_job[c].got) : market_job[c].got[i] < at + market_TTL
  BY <1>3, <1>4, <1>5, BundleAssumption
<1>7. market_cache'.asked \in Int /\ market_cache'.of \in Nat /\ market_cache'.asked <= market_cache'.of /\ market_cache'.of <= market_now
  BY <1>2, <1>3, <1>4
<1> QED
  BY <1>1, <1>2, <1>4, <1>5, <1>6, <1>7, BundleGotInv

LEMMA BundleFailsInv == ASSUME BundleIInv, NEW c \in market_Calls, Bundle!Fails(c) PROVE BundleIInv'
<1> PICK x : x = market_job[c]
  OBVIOUS
<1> PICK j : j = [x EXCEPT !.pc = "failed"]
  OBVIOUS
<1>1. Bundle!Running(c) /\ UNCHANGED <<market_now, market_path, market_cache,
                                       market_bundle>> /\ market_job' = [market_job EXCEPT ![c].pc = "failed"]
  BY DEF Bundle!Fails
<1>2. x \in [pc : BundleUpto, asked : Nat, got : Seq(Nat)] /\ BundleReads(c, x, market_bundle.from, market_now)
  BY DEF BundleIInv, BundleTyped
<1>3. j = [pc |-> "failed", asked |-> x.asked, got |-> x.got]
  BY <1>2
<1>4. market_job' = [market_job EXCEPT ![c] = j] /\ j \in [pc : BundleUpto, asked : Nat, got : Seq(Nat)]
  BY <1>1, <1>2, <1>3 DEF BundleIInv, BundleTyped, BundleUpto
<1>5. BundleReads(c, j, market_bundle.from, market_now)
  BY <1>2, <1>3 DEF BundleReads, BundleFreshBy, BundleInOrder, BundleGoes
<1>6. market_bundle.pc # "made"
  BY <1>1 DEF Bundle!Running
<1> QED
  BY <1>1, <1>4, <1>5, <1>6, BundleOneCall DEF BundleIInv, BundleTyped

LEMMA BundleTogetherInv == ASSUME BundleIInv, Bundle!Together PROVE BundleIInv'
<1>1. /\ market_bundle.pc = "collecting" /\ \A c \in market_Calls : ~Bundle!Running(c)
      /\ market_bundle' = [market_bundle EXCEPT !.pc = IF \E c \in market_Calls : market_job[c].pc = "failed" THEN "failed" ELSE "made"]
      /\ UNCHANGED <<market_now, market_path, market_cache, market_job>>
  BY DEF Bundle!Together
<1>2. market_bundle'.from = market_bundle.from /\ BundleTyped'
  BY <1>1 DEF BundleIInv, BundleTyped
<1>3. market_bundle'.pc = "made" => \A c \in market_Calls : market_job[c].pc = "done"
  BY <1>1 DEF Bundle!Running, BundleIInv, BundleTyped, BundleUpto
<1> QED
  BY <1>1, <1>2, <1>3 DEF BundleIInv

LEMMA BundleStepInv == ASSUME BundleIInv, [Bundle!Next]_(Bundle!vars) PROVE BundleIInv'
<1>1. CASE Bundle!Tick
  BY <1>1, BundleTickInv
<1>2. CASE Bundle!Collect
  BY <1>2, BundleCollectInv
<1>3. CASE Bundle!Together
  BY <1>3, BundleTogetherInv
<1>4. CASE \E c \in market_Calls : Bundle!Read(c) \/ Bundle!Cached(c) \/ Bundle!Missed(c) \/ Bundle!Fetched(c) \/ Bundle!Fails(c)
  BY <1>4, BundleReadInv, BundleCachedInv, BundleMissedInv, BundleFetchedInv, BundleFailsInv
<1>5. CASE UNCHANGED Bundle!vars
  BY <1>5 DEF Bundle!vars, BundleIInv, BundleTyped
<1> QED
  BY <1>1, <1>2, <1>3, <1>4, <1>5 DEF Bundle!Next

LEMMA BundleInvFresh == ASSUME BundleIInv PROVE Bundle!BundleIsFresh
<1> SUFFICES ASSUME market_bundle.pc = "made" PROVE
      /\ \A c \in market_Calls : Len(market_job[c].got) = Len(Bundle!Program[c])
      /\ \A c \in market_Calls : \A i \in DOMAIN Bundle!Program[c] :
           IF Bundle!Program[c][i] = "product" THEN Bundle!Reading(c, i) + market_TTL > market_bundle.from ELSE Bundle!Reading(c, i) >= market_bundle.from
      /\ \A c \in market_Calls : \A i, k \in DOMAIN Bundle!Program[c] : i < k => Bundle!Reading(c, i) < Bundle!Reading(c, k) + market_TTL
      /\ Bundle!Closes \in Seq(Nat)
  BY BundleShape DEF Bundle!BundleIsFresh
<1>1. ASSUME NEW c \in market_Calls
      PROVE  /\ Len(market_job[c].got) = Len(Bundle!Program[c]) /\ DOMAIN Bundle!Program[c] = 1 .. Len(market_job[c].got)
             /\ BundleReads(c, market_job[c], market_bundle.from, market_now) /\ market_job[c].got \in Seq(Nat)
  BY BundleProgramIs DEF BundleIInv, BundleReads, BundleGoes, BundleTyped
<1>2. ASSUME NEW c \in market_Calls, NEW i \in DOMAIN Bundle!Program[c]
      PROVE  IF Bundle!Program[c][i] = "product" THEN Bundle!Reading(c, i) + market_TTL > market_bundle.from ELSE Bundle!Reading(c, i) >= market_bundle.from
  BY <1>1 DEF BundleReads, BundleFreshBy, Bundle!Reading
<1>3. ASSUME NEW c \in market_Calls, NEW i \in DOMAIN Bundle!Program[c], NEW k \in DOMAIN Bundle!Program[c], i < k
      PROVE  Bundle!Reading(c, i) < Bundle!Reading(c, k) + market_TTL
  BY <1>1, <1>3 DEF BundleReads, BundleInOrder, Bundle!Reading
<1>4. Bundle!Closes \in Seq(Nat)
  <2> DEFINE at == Bundle!Reading("context", 1)
  <2>1. "context" \in market_Calls
    BY BundleAssumption
  <2>2. 1 \in 1 .. Len(market_job["context"].got)
    BY <1>1, <2>1, BundleProgramIs
  <2>3. at \in Nat /\ at <= market_now
    BY <1>1, <2>1, <2>2 DEF Bundle!Reading, BundleReads, BundleFreshBy
  <2>4. market_now \in Nat /\ market_now <= market_MaxNow /\ market_path \in Seq(Nat) /\ Len(market_path) >= market_MaxNow + market_Lookback
        /\ Len(market_path) \in Nat /\ market_Lookback \in Nat /\ market_MaxNow \in Nat
    BY BundleAssumption DEF BundleIInv, BundleTyped
  <2> HIDE DEF at
  <2>5. at + 1 \in 1 .. Len(market_path) + 1 /\ at + market_Lookback \in (at + 1) - 1 .. Len(market_path)
    BY <2>3, <2>4
  <2>6. SubSeq(market_path, at + 1, at + market_Lookback) \in Seq(Nat)
    BY <2>4, <2>5, SubSeqProperties
  <2> QED
    BY <2>6 DEF Bundle!Closes, Bundle!Series, at
<1> QED
  BY <1>1, <1>2, <1>3, <1>4

\* Only its own steps touch MarketBundle's variables.
LEMMA BundleSteps == [Next]_vars => [Bundle!Next]_(Bundle!vars)
BY DEF Next, vars, candleVars, storeVars, acceptVars, walkVars, quantVars, marketVars, macroVars,
    Bundle!vars

-----------------------------------------------------------------------------
\* However long the sources take and whichever caller stores last, no price a refresh
\* is given was read an interval or more before it asked (collect_snapshot, which
\* takes an interval of at least one second).
THEOREM PricesRecent == Spec => []GivenIsRecent
<1>1. Init => PricesIInv
  BY PricesInitInv DEF Init
<1>2. PricesIInv /\ [Next]_vars => PricesIInv'
  BY PricesSteps, PricesStepInv
<1>3. PricesIInv => GivenIsRecent
  BY DEF PricesIInv, GivenIsRecent
<1> QED
  BY <1>1, <1>2, <1>3, PTL DEF Spec

\* Whichever forecasts and trainings overlap and wherever the process ends, what a
\* forecast of a horizon is made with is one training, none older than the newest that
\* had succeeded when it was asked for, but where its files were loaded while they were
\* written (_train_artifacts, _load_artifact).
THEOREM OneTrainingAlways == Spec => []OneTraining
<1>1. Init => ArtifactsIInv
  BY ArtifactsInitInv DEF Init
<1>2. ArtifactsIInv /\ [Next]_vars => ArtifactsIInv'
  BY ArtifactsSteps, ArtifactsStepInv
<1>3. ArtifactsIInv => OneTraining
  BY ArtifactsInvOne DEF OneTraining
<1> QED
  BY <1>1, <1>2, <1>3, PTL DEF Spec

\* However the candles of the coins are holed and whatever the sizes, no label a model
\* was trained on came to be known after the window it is judged by began, but for the
\* candles missing under it; no row is judged twice, or by a model trained on it; and a
\* specialist knows no label that the panel does not (walk_forward_predictions).
THEOREM OutOfSampleAlways == Spec => []OutOfSample
<1>1. Init => WalkIInv
  BY WalkInitInv DEF Init
<1>2. WalkIInv /\ [Next]_vars => WalkIInv'
  BY WalkSteps, WalkStepInv
<1>3. WalkIInv => OutOfSample
  BY WalkInvOut DEF OutOfSample
<1> QED
  BY <1>1, <1>2, <1>3, PTL DEF Spec

\* Whatever the rows, weights and caps, the rows a training counted on are those the
\* provider acts upon, but for ties, for what a score is rounded by and for a regime of
\* which nothing was selected; and a refusal says why (build_high_confidence_policy,
\* evaluate_high_confidence_policy).
THEOREM PolicyKeepsAlways == Spec => []PolicyKeepsSelection
<1>1. Init => PolicyIInv
  BY PolicyInitInv DEF Init
<1>2. PolicyIInv /\ [Next]_vars => PolicyIInv'
  BY PolicySteps, PolicyStepInv
<1>3. PolicyIInv => PolicyKeepsSelection
  BY PolicyInvKept DEF PolicyKeepsSelection
<1> QED
  BY <1>1, <1>2, <1>3, PTL DEF Spec

\* However the clock, the readings of the six calls and the shared memory of a product
\* interleave, a bundle is whole, nothing in it is older than it may be, a call's parts
\* are in order, and what it says of the candles is of one piece (collect, product).
THEOREM BundlesFresh == Spec => []BundleIsFresh
<1>1. Init => BundleIInv
  BY BundleInitInv DEF Init
<1>2. BundleIInv /\ [Next]_vars => BundleIInv'
  BY BundleSteps, BundleStepInv
<1>3. BundleIInv => BundleIsFresh
  BY BundleInvFresh DEF BundleIsFresh
<1> QED
  BY <1>1, <1>2, <1>3, PTL DEF Spec

\* Whoever writes the file of candles while a fetch pages through the exchange, the fetch
\* returns every candle after the newest it loaded, and with nothing loaded its whole
\* window, unless no bar traded for as long as a request; provided that a reply holds all
\* that lies between two times (fetch_candles).
THEOREM CaughtUpAlways ==
  ASSUME ~candle_Trims
  PROVE  Spec => []CaughtUp
<1>1. Init => CandlesIInv
  BY CandlesInitInv DEF Init
<1>2. CandlesIInv /\ [Next]_vars => CandlesIInv'
  BY CandlesSteps, CandlesStepInv
<1>3. CandlesIInv => CaughtUp
  BY CandlesInvCaughtUp DEF CaughtUp
<1> QED
  BY <1>1, <1>2, <1>3, PTL DEF Spec

\* Whatever windows came before and whatever failed or was cut off, a row of the window
\* that an exchange has and a training that asked for it is not given has a reason: the
\* file of its day was written short, or it is open interest the exchange keeps or is asked
\* for no more (_load_or_backfill_series, _load_or_fetch_binance_metric_days).
THEOREM GapsExplainedAlways == Spec => []GapsExplained
<1>1. Init => FeaturesIInv
  BY FeaturesInitInv DEF Init
<1>2. FeaturesIInv /\ [Next]_vars => FeaturesIInv'
  BY FeaturesSteps, FeaturesStepInv
<1>3. FeaturesIInv => GapsExplained
  BY FeaturesInvExplained DEF GapsExplained
<1> QED
  BY <1>1, <1>2, <1>3, PTL DEF Spec

=============================================================================
