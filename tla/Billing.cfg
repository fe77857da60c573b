\* Three handlers on a pool of two, calls that overlap on accounts and on keys.
CONSTANTS
  u1 = u1
  u2 = u2
  k1 = k1
  k2 = k2
  k3 = k3
  NoKey = NoKey
  Users = {u1, u2}
  Keys = {k1, k2, k3}
  Requests <- MixedRequests
  MaxBigint = 3
  Handlers = {h1, h2, h3}
  NoHandler = NoHandler
  NoRequest = NoRequest
  PoolSize = 2
SPECIFICATION Spec
SYMMETRY HandlerSymmetry
INVARIANTS
  NothingLeaks
  NoOverdraft
  BalanceIsHistory
  EventPerDeposit
  AckedIsBooked
  NoCircularWait
  IInv
PROPERTY LedgerSpec
