SPECIFICATION Spec
CONSTANTS
  a1 = a1
  a2 = a2
  b1 = b1
  Devices = {"a", "b"}
  Pages = {a1, b1}
  DeviceOf <- MCDeviceOf
  Creation = a1
  Owner = "a"
  Founders = {"a", "b"}
  Joiners = {"b"}
  Rejoin = TRUE
  Ops = {x}
  Rank <- MCRank
  Bootstrap = Bootstrap
  None = None
  PageSize = 1
  Quota = 3
  MaxFailures = 0
INVARIANT NoOperationLost
