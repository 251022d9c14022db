CONSTANTS
  MaxCalls = 2
  RequireConnectivity = FALSE
  RequireProgress = FALSE
  RejectNew = FALSE
  KeepFailed = FALSE
SPECIFICATION Spec
CHECK_DEADLOCK FALSE
INVARIANTS
  TypeOK
  Accounted
  RetryAfterFailure
  CommittedIsProven
  ReturnIsEvidenced
  ClaimsSettled
