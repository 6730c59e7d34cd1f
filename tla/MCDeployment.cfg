\* The launch with two crashes, and four operations after a launch without a crash.
SPECIFICATION Spec
CONSTANTS
  Launch <- LaunchAll
  Listable = {"MCHC"}
  ReserveAssets <- Assets
  Rated <- Rates
  Collateral <- Kinds
  Deposits <- FirstPool
  MaxInstances = 5
  CrashIn <- TwoCrashes
  CrashAt <- Recorded
  MaxOperations = 4
INVARIANTS TypeOK NoDanglingReference OneMarket ReservesListed
PROPERTIES RevisionsGrow ImplementsMarket MarketComesUp
CHECK_DEADLOCK FALSE
