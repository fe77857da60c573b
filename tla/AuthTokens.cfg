\* Two handlers, sessions of two users, the cleanup and time beside them.
CONSTANTS
  u1 = u1
  u2 = u2
  Users = {u1, u2}
  NoUser = NoUser
  Handlers = {h1, h2}
  NoHandler = NoHandler
  Limit = 1
  MaxToken = 4
  MaxExpired = 2
SPECIFICATION MCSpec
INVARIANTS
  OneLivePerSession
  RevocationCoversSeen
  CirclesAreReplays
  IInv
PROPERTIES
  ConsumedOnce
  WholeOperations
  EveryCallEnds
\* Expired tokens and no room for new ones: nothing is left to do.
CHECK_DEADLOCK FALSE
