SPECIFICATION Spec
CONSTANTS
  k1 = k1
  k2 = k2
  k3 = k3
  Keys <- Clients
  Cost = 3
  Rate = 2
  Cap = 6
  MaxBuckets = 2
  Sample = 1
  Idle = 1
  MaxNow = 3
INVARIANTS TypeOK MapCapped WithinBudget RetryAfterSuffices
PROPERTY ImplementsUnboundedBuckets
SYMMETRY Alike
