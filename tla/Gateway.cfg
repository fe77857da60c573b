\* Calls of all routes through one breaker, with outages.
CONSTANTS
  u1 = u1
  u2 = u2
  Users = {u1, u2}
  HasAccount = {u1}
  NoUser = NoUser
  NotUuid = NotUuid
  Requests <- Mixed
  NoRequest = NoRequest
  Handlers = {h1, h2}
SPECIFICATION FairSpec
INVARIANTS
  StatusIsTrue
  OneProbe
  TripsWarranted
  IInv
PROPERTY Recovers
