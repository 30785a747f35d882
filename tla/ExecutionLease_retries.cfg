\* Refreshes that fail or overtake each other, and submissions cut off and repeated.
SPECIFICATION FairSpec
CONSTANTS
  Coins = {btc}
  MaxRevision = 0
  Inputs = {i1}
  Monitor = monitor
  Pulls = {p1}
  NoInput = none
  Offered = {"open"}
  MaxFailures = 1
INVARIANTS RepeatedOnlyWhenCut
PROPERTIES LockReachesBridge
