\* Two workers; a row may be dispatched by an analysis that is delivered twice; a retry
\* request is double clicked.
SPECIFICATION MCSpec
CONSTANTS
  p1 = p1
  p2 = p2
  a = a
  f1 = f1
  r1 = r1
  r2 = r2
  NoMessage = NoMessage
  w1 = w1
  w2 = w2
  Workers <- MCWorkers
  Messages <- MCMessages
  Redeliveries = 1
  Deaths = 1
  FromUpload = p1
  FromStartup = p2
  MaxRetries = 1
  Restarts = 1
  Analysis = a
  Fixes = {f1}
  Requests = {r1, r2}
INVARIANTS TypeOK ArchiveKept OneRetryPerFailure
PROPERTY TasksSettle
CHECK_DEADLOCK FALSE
