---------------------------- MODULE OrderSizing ----------------------------
(***************************************************************************)
(* From a decision to the order that Coinbase fills: build_execution_plans *)
(* turns a share of the exposure budget into dollars, the broker turns     *)
(* dollars into contracts (execute_market_order).  RT's submissions and    *)
(* the risk brake's scans do so from threads of their own and on one       *)
(* position: it may have moved between the broker's look at it and the     *)
(* order's fill, and the price that sizes an order may be five seconds old.*)
(*                                                                         *)
(* One coin; quantities are counted in base increments and prices in       *)
(* dollars per increment.                                                  *)
(***************************************************************************)
EXTENDS Integers

CONSTANTS
  Marks,      \* the prices
  Shares,     \* the sizes RT may ask for, in percent of the budget; 0 is none
  Budget,     \* total equity times the maximal leverage
  OrderLimit, \* max_order_pct_of_exposure_budget
  MinBase,    \* the smallest order, in increments
  QuoteMin,   \* the smallest order, in dollars
  MaxPosition,\* bound: the position beyond which nobody adds
  MaxOrders   \* bound: orders

VARIABLES
  qty,     \* the position, negative when short
  mark,    \* the price the exchange values the position at
  cached,  \* the price of the product that was last fetched
  order,   \* each trader's order on its way
  orders

vars == <<qty, mark, cached, order, orders>>

Trader == {"rt", "brake"}
Side == {"long", "short", "flat"}
Reducing == {"reduce", "close"}

Abs(n) == IF n < 0 THEN -n ELSE n
Greater(m, n) == IF m > n THEN m ELSE n
Lesser(m, n) == IF m < n THEN m ELSE n
Sign(n) == IF n > 0 THEN 1 ELSE IF n < 0 THEN -1 ELSE 0
Facing(side) == IF side = "long" THEN 1 ELSE -1

NoOrder == [pc |-> "none", action |-> "none", side |-> "flat", notional |-> 0, read |-> 0, at |-> 0]

-----------------------------------------------------------------------------
\* pct_to_notional_usd.
Notional(share) == (Budget * share) \div 100

\* _base_size_for_notional: rounded down, and up to the least the product allows.
BaseSize(notional, price) ==
  LET base == Greater(notional \div price, MinBase)
      required == (QuoteMin + price - 1) \div price
  IN IF base * price < QuoteMin THEN Greater(base, required) ELSE base

\* A close takes the whole position, a reduction no more than it, and a flip the
\* position on top of what it asks for.
Target(o) ==
  LET held == Abs(o.read) * o.at
  IN CASE o.action = "close"  -> held
       [] o.action = "reduce" -> Lesser(o.notional, held)
       [] o.action = "flip"   -> held + o.notional
       [] OTHER               -> o.notional

\* Against the position for a reduction; otherwise whatever is not long sells.
Direction(o) == IF o.action \in Reducing THEN - Sign(o.read) ELSE Facing(o.side)

\* Mutant of ReduceOnly: the flag is not passed on.
ReduceOnlyNever(o) == FALSE

ReduceOnly(o) == o.action \in Reducing

\* The exchange: an order that may only reduce is cut to the position, and
\* refused when it would add to it.
Filled(o, price) ==
  LET base == BaseSize(Target(o), price)
  IN CASE ~ReduceOnly(o) -> qty + Direction(o) * base
       [] ReduceOnly(o) /\ Sign(qty) = - Direction(o) -> qty + Direction(o) * Lesser(base, Abs(qty))
       [] OTHER -> qty

-----------------------------------------------------------------------------
Init ==
  /\ qty = 0
  /\ mark \in Marks
  /\ cached = mark
  /\ order = [t \in Trader |-> NoOrder]
  /\ orders = 0

MarkMoves == /\ mark' \in Marks
             /\ UNCHANGED <<qty, cached, order, orders>>

Take(t, action, side, notional) ==
  /\ order[t].pc = "none"
  /\ orders < MaxOrders
  /\ orders' = orders + 1
  /\ order' = [order EXCEPT ![t] =
       [NoOrder EXCEPT !.pc = "planned", !.action = action, !.side = side, !.notional = notional]]
  /\ UNCHANGED <<qty, mark, cached>>

\* authorize_execution lets a reduction through at any size.
RTDecides(action, side, share) ==
  /\ action \in Reducing \/ (share <= OrderLimit /\ Abs(qty) < MaxPosition)
  /\ Take("rt", action, side, Notional(share))

\* The brake halves or closes the position of the snapshot it looks at.
BrakeDecides(action) ==
  /\ qty # 0
  /\ Take("brake", action, IF qty > 0 THEN "long" ELSE "short",
          IF action = "reduce" THEN (Abs(qty) * mark) \div 2 ELSE Abs(qty) * mark)

\* The broker looks up the position; without one there is nothing to reduce.
Look(t) ==
  /\ order[t].pc = "planned"
  /\ order' = IF order[t].action \in Reducing /\ qty = 0
                THEN [order EXCEPT ![t] = NoOrder]
                ELSE [order EXCEPT ![t].pc = "looked", ![t].read = qty, ![t].at = mark]
  /\ UNCHANGED <<qty, mark, cached, orders>>

\* The product is sized by its last price or by a new one, and the order filled.
Fill(t, price) ==
  /\ order[t].pc = "looked"
  /\ cached' = price
  /\ qty' = Filled(order[t], price)
  /\ order' = [order EXCEPT ![t] = NoOrder]
  /\ UNCHANGED <<mark, orders>>

\* The preview or the order is refused, or the call raises.
Refused(t) ==
  /\ order[t].pc = "looked"
  /\ order' = [order EXCEPT ![t] = NoOrder]
  /\ UNCHANGED <<qty, mark, cached, orders>>

Next ==
  \/ MarkMoves
  \/ \E action \in {"open", "add", "flip", "reduce", "close"}, side \in Side, share \in Shares :
       RTDecides(action, side, share)
  \/ \E action \in Reducing : BrakeDecides(action)
  \/ \E t \in Trader : Look(t) \/ Refused(t) \/ \E price \in {cached, mark} : Fill(t, price)

Spec == Init /\ [][Next]_vars

-----------------------------------------------------------------------------
Fills(t) == order[t].pc = "looked" /\ order'[t].pc = "none" /\ qty' # qty

Lot(price) == Greater(MinBase * price, QuoteMin + price)

\* Whoever else moves the position meanwhile, a reduction only shrinks it and
\* never turns it; a close leaves nothing unless it is sized by a price above the
\* one the position was valued at, or the position grew; a flip to the other side
\* gets there; and what is added is within the limit or is the least order
\* (execute_market_order, authorize_execution).
FillsAsDecided ==
  [][\A t \in Trader : Fills(t) =>
       LET o == order[t]
       IN /\ o.action \in Reducing => Abs(qty') <= Abs(qty) /\ Sign(qty') \in {0, Sign(qty)}
          /\ o.action = "close" /\ cached' <= o.at /\ Abs(qty) <= Abs(o.read) => qty' = 0
          /\ o.action = "flip" /\ qty = o.read /\ cached' <= o.at /\ Sign(qty) = - Facing(o.side)
               => Sign(qty') = Facing(o.side) \/ o.notional < cached'
          /\ o.action \in {"open", "add"}
               => Abs(qty' - qty) * cached' <= Greater(Notional(OrderLimit), Lot(cached'))]_vars

\* A flip adds no more than the limit beyond the position it leaves.  It does not
\* hold: nothing says that its side is not the one the position already has.
FlipWithinLimit ==
  [][\A t \in Trader : Fills(t) /\ order[t].action = "flip" /\ qty = order[t].read /\ cached' = order[t].at
       => Abs(qty') * cached' <= Greater(Notional(OrderLimit), Lot(cached'))]_vars
=============================================================================
