-------------------------------- MODULE BugFix --------------------------------
(***************************************************************************)
(* The analysis of a log in a task (src/app/tasks/ai_analysis.py), the     *)
(* bug-fix tasks it dispatches (src/app/tasks/bug_fix.py over              *)
(* src/app/services/bug_fix_service.py) and the request that retries a     *)
(* failed one (src/app/api/bug_fixes.py).  What the agents do is an        *)
(* outcome.                                                                *)
(***************************************************************************)
EXTENDS TaskBroker

CONSTANTS
  Analysis,   \* the message of the analysis
  Fixes,      \* rows of bug_fix_task; also the message that dispatches each
  Requests    \* retry requests; also the message each publishes

ASSUME FixAssumption ==
  /\ Fixes # {}
  /\ {Analysis} \cup Fixes \cup Requests \subseteq Messages
  /\ Analysis \notin Fixes \cup Requests
  /\ Fixes \cap Requests = {}

VARIABLES
  shown,     \* status in the log's ai_analysis_task
  asking,    \* analyze_log: idle, or it has published and not yet written "queued"
  fix,       \* BugFixTask.status
  created,   \* the row a worker's analysis has created and not yet dispatched
  enqueued,  \* rows that are pending with a message published for it, or were taken up
  call,      \* how far a retry request has come
  asked,     \* the row it is about
  failures,  \* times a row became failed
  claims     \* times a retry turned a failed row into a pending one

fixVars == <<shown, asking, fix, created, enqueued, call, asked, failures, claims>>

-----------------------------------------------------------------------------
\* No code writes "cancelled".
FixStatuses == {"absent", "pending", "running", "succeeded", "partial", "failed"}
Finished == {"succeeded", "partial", "failed"}

FixSteps == {"analysing", "dispatching", "publishing", "checked", "repairing"}

FixTypeOK ==
  /\ shown \in {"none", "queued", "running", "completed", "failed"}
  /\ asking \in BOOLEAN
  /\ fix \in [Fixes -> FixStatuses]
  /\ created \in [Workers -> Fixes]
  /\ enqueued \subseteq Fixes
  /\ call \in [Requests -> {"idle", "read", "claimed", "ended"}]
  /\ asked \in [Requests -> Fixes]
  /\ failures \in [Fixes -> Nat]
  /\ claims \in [Fixes -> Nat]

FixInit ==
  /\ shown = "none"
  /\ asking = FALSE
  /\ fix = [f \in Fixes |-> "absent"]
  /\ created = [w \in Workers |-> CHOOSE f \in Fixes : TRUE]
  /\ enqueued = {}
  /\ call = [r \in Requests |-> "idle"]
  /\ asked = [r \in Requests |-> CHOOSE f \in Fixes : TRUE]
  /\ failures = [f \in Fixes |-> 0]
  /\ claims = [f \in Fixes |-> 0]

Analyses(w) == job[w] = Analysis
Repairs(w) == job[w] \in Fixes \cup Requests

\* The row of worker w's repair.
Row(w) == IF job[w] \in Fixes THEN job[w] ELSE asked[job[w]]

Mute == UNCHANGED <<waiting, unacked, job, late, dead, forsaken>>
Unposted == UNCHANGED <<unacked, job, late, dead, forsaken>>
RowsKept == UNCHANGED <<fix, enqueued, failures, claims>>
CallsKept == UNCHANGED <<call, asked>>

\* The row is written with s; how often it became failed is counted.
Write(f, s) ==
  /\ fix' = [fix EXCEPT ![f] = s]
  /\ failures' = IF s = "failed" THEN [failures EXCEPT ![f] = @ + 1] ELSE failures

-----------------------------------------------------------------------------
\* analyze_log publishes first and writes "queued" afterwards, over whatever the task
\* has written by then.
AskAnalysis ==
  /\ shown = "none" /\ ~asking /\ waiting[Analysis] = 0 /\ unacked[Analysis] = 0
  /\ Post(Analysis)
  /\ asking' = TRUE
  /\ UNCHANGED at /\ Unposted /\ RowsKept /\ CallsKept
  /\ UNCHANGED <<shown, created>>

WriteQueued ==
  /\ asking
  /\ asking' = FALSE
  /\ shown' = "queued"
  /\ UNCHANGED brokerVars /\ RowsKept /\ CallsKept
  /\ UNCHANGED created

AnalysisBegins(w) ==
  /\ Analyses(w)
  /\ Step(w, {"begin"}, "analysing")
  /\ shown' = "running"
  /\ Mute /\ RowsKept /\ CallsKept
  /\ UNCHANGED <<asking, created>>

AnalysisFails(w) ==
  /\ Analyses(w)
  /\ Step(w, {"analysing"}, "done")
  /\ shown' = "failed"
  /\ Mute /\ RowsKept /\ CallsKept
  /\ UNCHANGED <<asking, created>>

AnalysisCompletes(w) ==
  /\ Analyses(w)
  /\ Step(w, {"analysing"}, "dispatching")
  /\ shown' = "completed"
  /\ Mute /\ RowsKept /\ CallsKept
  /\ UNCHANGED <<asking, created>>

\* _maybe_dispatch_bug_fix: nothing to repair, ...
NoDispatch(w) ==
  /\ Analyses(w)
  /\ Step(w, {"dispatching"}, "done")
  /\ Mute /\ RowsKept /\ CallsKept
  /\ UNCHANGED <<shown, asking, created>>

\* ...or a pending row, committed, ...
CreateTask(w) ==
  /\ Analyses(w)
  /\ Step(w, {"dispatching"}, "publishing")
  /\ \E f \in Fixes : fix[f] = "absent"
  /\ LET f == CHOOSE g \in Fixes : fix[g] = "absent" IN
       /\ Write(f, "pending")
       /\ created' = [created EXCEPT ![w] = f]
  /\ Mute /\ CallsKept
  /\ UNCHANGED <<shown, asking, enqueued, claims>>

\* ...and then its message; that it cannot be published is only logged.
Dispatch(w) ==
  /\ Analyses(w)
  /\ Step(w, {"publishing"}, "done")
  /\ \/ /\ Post(created[w])
        /\ enqueued' = enqueued \cup {created[w]}
     \/ UNCHANGED <<waiting, enqueued>>
  /\ Unposted /\ CallsKept
  /\ UNCHANGED <<shown, asking, created, fix, failures, claims>>

-----------------------------------------------------------------------------
\* run_bug_fix_task leaves a finished row alone; a pending or running one goes on.
Check(w) ==
  /\ Repairs(w)
  /\ Step(w, {"begin"}, IF fix[Row(w)] \in Finished THEN "done" ELSE "checked")
  /\ Mute /\ RowsKept /\ CallsKept
  /\ UNCHANGED <<shown, asking, created>>

\* (mutant of MarkRunning) A row that is running already is taken to be another's.
MarkRunningOnce(w) ==
  /\ Repairs(w)
  /\ Step(w, {"checked"}, IF fix[Row(w)] = "running" THEN "done" ELSE "repairing")
  /\ Write(Row(w), "running")
  /\ Mute /\ CallsKept
  /\ UNCHANGED <<shown, asking, created, enqueued, claims>>

MarkRunning(w) ==
  /\ Repairs(w)
  /\ Step(w, {"checked"}, "repairing")
  /\ Write(Row(w), "running")
  /\ Mute /\ CallsKept
  /\ UNCHANGED <<shown, asking, created, enqueued, claims>>

\* The repository is gone, the workspace cannot be prepared, or a step raises.
RepairFails(w) ==
  /\ Repairs(w)
  /\ Step(w, {"checked", "repairing"}, "done")
  /\ Write(Row(w), "failed")
  /\ Mute /\ CallsKept
  /\ UNCHANGED <<shown, asking, created, enqueued, claims>>

\* finalize, over whatever the row says by then.
Finalize(w) ==
  /\ Repairs(w)
  /\ Step(w, {"repairing"}, "done")
  /\ \E s \in Finished : Write(Row(w), s)
  /\ Mute /\ CallsKept
  /\ UNCHANGED <<shown, asking, created, enqueued, claims>>

FixStep(w) ==
  \/ AnalysisBegins(w) \/ AnalysisFails(w) \/ AnalysisCompletes(w)
  \/ NoDispatch(w) \/ CreateTask(w) \/ Dispatch(w)
  \/ Check(w) \/ MarkRunning(w) \/ RepairFails(w) \/ Finalize(w)

-----------------------------------------------------------------------------
\* retry_bug_fix, of a failed row.  Its answers of 404 and 409 change nothing.
RetryReads(r, f) ==
  /\ call[r] = "idle"
  /\ fix[f] = "failed"
  /\ call' = [call EXCEPT ![r] = "read"]
  /\ asked' = [asked EXCEPT ![r] = f]
  /\ UNCHANGED brokerVars /\ RowsKept
  /\ UNCHANGED <<shown, asking, created>>

\* (mutant of Claim) The update has no condition on the status.
ClaimRegardless(r) ==
  /\ call[r] = "read"
  /\ call' = [call EXCEPT ![r] = "claimed"]
  /\ Write(asked[r], "pending")
  /\ enqueued' = enqueued \ {asked[r]}
  /\ claims' = [claims EXCEPT ![asked[r]] = @ + 1]
  /\ UNCHANGED brokerVars
  /\ UNCHANGED <<shown, asking, created, asked>>

\* The conditional UPDATE and its commit.
Claim(r) ==
  /\ call[r] = "read"
  /\ fix[asked[r]] = "failed"
  /\ call' = [call EXCEPT ![r] = "claimed"]
  /\ Write(asked[r], "pending")
  /\ enqueued' = enqueued \ {asked[r]}
  /\ claims' = [claims EXCEPT ![asked[r]] = @ + 1]
  /\ UNCHANGED brokerVars
  /\ UNCHANGED <<shown, asking, created, asked>>

LosesClaim(r) ==
  /\ call[r] = "read"
  /\ fix[asked[r]] # "failed"
  /\ call' = [call EXCEPT ![r] = "ended"]
  /\ UNCHANGED brokerVars /\ RowsKept
  /\ UNCHANGED <<shown, asking, created, asked>>

RetryPublishes(r) ==
  /\ call[r] = "claimed"
  /\ call' = [call EXCEPT ![r] = "ended"]
  /\ Post(r)
  /\ enqueued' = enqueued \cup {asked[r]}
  /\ UNCHANGED at /\ Unposted
  /\ UNCHANGED <<shown, asking, created, asked, fix, failures, claims>>

\* It cannot be published: a row that is still pending is failed again.
RetryGivesBack(r) ==
  /\ call[r] = "claimed"
  /\ call' = [call EXCEPT ![r] = "ended"]
  /\ IF fix[asked[r]] = "pending" THEN Write(asked[r], "failed") ELSE UNCHANGED <<fix, failures>>
  /\ UNCHANGED brokerVars
  /\ UNCHANGED <<shown, asking, created, asked, enqueued, claims>>

RetryStep(r) == Claim(r) \/ LosesClaim(r) \/ RetryPublishes(r) \/ RetryGivesBack(r)

\* What the API process was doing is gone with it.
RequestsDropped ==
  /\ asking' = FALSE
  /\ call' = [r \in Requests |-> IF call[r] = "idle" THEN "idle" ELSE "ended"]
  /\ UNCHANGED <<shown, fix, created, enqueued, asked, failures, claims>>

-----------------------------------------------------------------------------
\* However requests and copies of a task overlap, a failure is retried once: every retry
\* that was let through, and the one a failed row still offers, has a failure of its own
\* (retry_bug_fix: of a double click only one request enqueues).
OneRetryPerFailure ==
  \A f \in Fixes : claims[f] + (IF fix[f] = "failed" THEN 1 ELSE 0) <= failures[f]

=============================================================================
