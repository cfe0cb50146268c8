------------------------------ MODULE MCLogTasks ------------------------------
\* LogTasks, with a log that is either processed or analysed.
EXTENDS LogTasks

CONSTANTS p1, p2, a, f1, r1, r2, w1, w2

MCWorkers == {w1, w2}
MCMessages == {p1, p2, a, f1, r1, r2}

\* A log is analysed when no processing was published for it.
OneFlow ==
  asking' /\ ~asking =>
    status = "pending" /\ restarts + dead + late = 0 /\ waiting[FromUpload] + unacked[FromUpload] = 0

\* Retry requests, and idle workers, differ in their names only.
InOrder ==
  /\ call'[r2] # "idle" => call'[r1] # "idle"
  /\ job'[w2] # job[w2] /\ job[w2] = NoMessage => job[w1] # NoMessage

Count(happened) == IF happened THEN 1 ELSE 0

\* Two at most of: a redelivery, a death, a restart, a second click, a deletion; while a log
\* is processed, one of the first two, and a restart with neither a redelivery nor a deletion.
Incidents ==
  /\ late' + dead' + restarts' + Count(call'[r2] # "idle") + Count(deletion' # "no") <= 2
  /\ late' + dead' = 2 => shown # "none"
  /\ shown = "none" => late' + restarts' <= 1 /\ restarts' + Count(deletion' # "no") <= 1

\* A deletion is tried once, with no redelivery under a running task, of a log that is not
\* analysed; an expiry leaves what a request does, and is looked at while there can be no request.
Deletion ==
  /\ deletion' # "no" => shown = "none" /\ ~asking
  /\ deletion' \in {"request", "expiry"} => deletion # "failed"
  /\ deletion' = "expiry" => boot # "up"
  /\ deletion' # "no" => late' = 0

MCSpec == Init /\ [][Next /\ OneFlow /\ InOrder /\ Incidents /\ Deletion]_vars /\ Fairness

=============================================================================
