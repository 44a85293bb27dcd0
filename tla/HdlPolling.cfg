SPECIFICATION Spec
CONSTANTS
  Hook <- Probes
  EarlyChange = FALSE
  CallbackWrites = FALSE
  Restarts <- CalmOnly
INVARIANTS TypeOK ListAgrees ListIsServed
PROPERTY KeepsPromise
CHECK_DEADLOCK FALSE
