\* Two connections of one IP address.
CONSTANTS
  Handlers = {h1}
  Connections = {c1, c2}
  NoConnection = NoConnection
  Ip <- OneIp
  Limit = 2
  Window = 2
  MaxRetries = 1
  MaxCount = 3
SPECIFICATION Spec
INVARIANT LimitPerIp
