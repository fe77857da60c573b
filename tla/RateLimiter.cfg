\* Calls of two connections, lost commands, expiries and restarts.
CONSTANTS
  Handlers = {h1, h2}
  Connections = {c1, c2}
  NoConnection = NoConnection
  Ip <- OneIp
  Limit = 2
  Window = 2
  MaxRetries = 1
  MaxCount = 4
SPECIFICATION FairSpec
INVARIANTS
  LimitHolds
  KeysExpire
  IInv
PROPERTY BlockedIsReleased
