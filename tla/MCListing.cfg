\* A reserve that is no collateral is listed on a launched market while users deposit.
SPECIFICATION Spec
CONSTANTS
  Launch <- LaunchOne
  Listable = {"MCHC"}
  ReserveAssets <- Assets
  Rated <- Rates
  Collateral <- Kinds
  Deposits <- FirstPool
  MaxInstances = 1
  CrashIn <- NoCrash
  CrashAt = {}
  MaxOperations = 2
PROPERTY
  TemporaryAdminReturned
CHECK_DEADLOCK FALSE
