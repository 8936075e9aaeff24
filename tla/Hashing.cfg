\* The rate and word size of shake256.cpp, and two calls in a row.
CONSTANTS
  Rate = 136
  WordBytes = 8
  Domain <- MCDomain
  Requests <- MCRequests
  MaxCalls = 2
SPECIFICATION FairSpec
INVARIANTS TypeOK OutputIsSponge NoCollision
PROPERTIES EveryCallReturns
\* The callers stop calling.
CHECK_DEADLOCK FALSE
