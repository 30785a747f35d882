\* A monitor and a pull reading side by side, over a publication and any lock changes.
SPECIFICATION Spec
CONSTANTS
  Coins = {btc}
  MaxRevision = 1
  Inputs = {i1}
  Monitor = monitor
  Pulls = {p1}
  NoInput = none
  Offered = {"open"}
  MaxFailures = 0
INVARIANTS OrdersAllowedWhenRead
