\* A withdrawal from an account that does not exist.
CONSTANTS
  u1 = u1
  u2 = u2
  k1 = k1
  k2 = k2
  k3 = k3
  NoKey = NoKey
  Users = {u1, u2}
  Keys = {k1, k2, k3}
  Requests <- FewRequests
  MaxBigint = 3
  Handlers = {h1, h2}
  NoHandler = NoHandler
  NoRequest = NoRequest
  PoolSize = 2
SPECIFICATION Spec
INVARIANT MissingAccountIsNotFound
