\* One coin against the portfolio: two days, two strategy keys, one crash.
SPECIFICATION FairSpec
CONSTANTS
  Coins = {btc}
  PortfolioLevels = {0, 2, 3}
  CoinLevels = {0, 2, 3, 4}
  MaxRevision = 1
  MaxDay = 2
  MaxAborts = 1
INVARIANTS NoRepeatedOrders LockAnnounced
PROPERTIES KeepsPromise ExitLocks StaleLockReleased
