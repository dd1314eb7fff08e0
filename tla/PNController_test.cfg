CONSTANTS
  NDof = 3
  Requests <- TestRequests
  MaxControllers = 10
SPECIFICATION TestSpec
INVARIANTS ControllerGranted
PROPERTIES CallbackReturns
