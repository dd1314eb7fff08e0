CONSTANTS
  NDof = 3
  Requests <- MCRequests
  MaxControllers = 4
SPECIFICATION OrdersSpec
INVARIANTS TypeOK ExclusiveOwnership FiringRule RGraphComplete
PROPERTIES ActiveStaysActive Arbitrates
