SPECIFICATION ConnectSpec
CONSTANTS
  a1 = a1
  a2 = a2
  Loopback = Loopback
  Addrs = {a1, a2, Loopback}
  Lists <- McLists
  OneDigit = {a1}
  Elsewhere = Elsewhere
  NoAddr = NoAddr
  MaxPolls = 8
  MaxProxyPolls = 8
  Immediate = TRUE
  Signals = TRUE
CHECK_DEADLOCK FALSE
INVARIANTS
  TypeOK
  ResultHolds
  BoundedWait
PROPERTIES
  CallReturns
