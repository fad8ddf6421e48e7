\* The pool on its own: two depths, six orders, up to four threads.
SPECIFICATION Spec
CONSTANTS
  e = e
  w1 = w1
  w2 = w2
  w3 = w3
  a1 = a1
  a2 = a2
  a3 = a3
  a4 = a4
  b1 = b1
  b2 = b2
  A = A
  B = B
  NoThread = NoThread
  Thread = {e, w1, w2, w3}
  Crew = {w1, w2}
  Joiner = {e}
  Order = {a1, a2, a3, a4, b1, b2}
  Client = {A, B}
  DepthOf <- MCDepthOf
  ClientOf <- MCClientOf
  Batch <- MCBatch
  MaxDepth = 2
  MaxBusy = 2
SYMMETRY Symmetry
INVARIANTS
  TypeOK
  BusyAccounting
  IdleAccounting
  DepthLimit
  ExclusiveOrders
  NoStrandedOrders
