SPECIFICATION FairSpec
CONSTANTS
  h1 = h1
  h2 = h2
  h3 = h3
  i1 = i1
  i2 = i2
  v1 = v1
  v2 = v2
  a1 = a1
  Unset = Unset
  Malformed = Malformed
  NoHandler = NoHandler
  Handlers <- MCHandlers
  Instances <- MCInstances
  InstanceOf <- MCInstanceOf
  DeviceOf <- MCDeviceOf
  Devices <- MCDevices
  Ips <- MCIps
  IpOf <- MCIpOf
  Days = {1, 2}
  Questions = {q1}
  Indexed = {}
  SEARCH_DAILY_BUDGET = 2
  DEFAULT_DEVICE_DAILY_CAP = 1
  SEARCH_IP_DAILY_CAP = Unset
  SEARCH_DEVICE_DAILY_CAP = Malformed
  MaxRequests = 3
  MaxFaults = 1
INVARIANTS OneCallPerQuestion BudgetHolds
PROPERTIES OnlyItsLeaderEndsAFlight EverySearchAnswered
CHECK_DEADLOCK FALSE
