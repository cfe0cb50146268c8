------------------------------- MODULE LogTasks -------------------------------
(***************************************************************************)
(* The background tasks of a log together: its processing (LogPipeline),   *)
(* its analysis and the repairs that follow (BugFix), on the same workers. *)
(***************************************************************************)
EXTENDS LogPipeline, BugFix

\* The tasks have names of their own.
ASSUME TaskAssumption == Processing \cap ({Analysis} \cup Fixes \cup Requests) = {}

vars == <<waiting, unacked, job, at, late, dead, forsaken,
          status, deletion, archive, backup, retries, boot, restarts, mishaps,
          shown, asking, fix, created, enqueued, call, asked, failures, claims>>

-----------------------------------------------------------------------------
TypeOK ==
  /\ BrokerTypeOK({"idle", "begin", "done"} \cup ProcessSteps \cup FixSteps)
  /\ PipelineTypeOK
  /\ FixTypeOK

Init == BrokerInit /\ PipelineInit /\ FixInit

-----------------------------------------------------------------------------
\* The worker's processes go on by themselves.
Work(w) ==
  \/ (ProcessStep(w) /\ UNCHANGED fixVars)
  \/ (FixStep(w) /\ UNCHANGED pipelineVars)
  \/ (Acknowledge(w) /\ UNCHANGED <<pipelineVars, fixVars>>)

Fault ==
  /\ \/ \E w \in Workers : WorkerDies(w) \/ TaskKilled(w)
     \/ \E m \in Messages : Redeliver(m)
  /\ UNCHANGED <<pipelineVars, fixVars>>

Delivery(m) ==
  /\ \/ Recover(m)
     \/ \E w \in Workers : Deliver(w, m)
  /\ UNCHANGED <<pipelineVars, fixVars>>

\* An analysis is of a log that is there (bound: and stays there).
Requested ==
  /\ boot = "up"
  /\ \/ AskAnalysis /\ status # "none" /\ deletion = "no" /\ archive # "none"
     \/ (\E r \in Requests, f \in Fixes : RetryReads(r, f))
  /\ UNCHANGED pipelineVars

Answers ==
  /\ boot = "up"
  /\ \/ WriteQueued
     \/ \E r \in Requests : RetryStep(r)
  /\ UNCHANGED pipelineVars

ApiRestarts == Restart /\ RequestsDropped /\ UNCHANGED brokerVars

Goes ==
  /\ shown = "none" /\ ~asking
  /\ DeleteFile \/ Expire
  /\ UNCHANGED fixVars

Starts == (ScanPublishes \/ ScanEnds \/ DeleteRow) /\ UNCHANGED fixVars

Next ==
  \/ \E w \in Workers : Work(w)
  \/ \E m \in Messages : Delivery(m)
  \/ Fault \/ Requested \/ Answers \/ ApiRestarts \/ Starts \/ Goes
  \/ (Upload /\ UNCHANGED fixVars)

\* A task ends by itself or at its time limit, a worker takes the next message when it
\* is idle and the visibility timeout passes; the API process answers.
Fairness ==
  /\ WF_vars((\E w \in Workers : Work(w)) \/ (\E m \in Messages : Delivery(m)))
  /\ WF_vars(Answers \/ Starts)

Spec == Init /\ [][Next]_vars /\ Fairness

-----------------------------------------------------------------------------
\* An execution of the task was lost with no copy of its message left.
LostFor(f) == f \in forsaken \/ \E r \in forsaken \cap Requests : asked[r] = f

\* A log does not stay in processing and an analysis not in running, and a repair that
\* was enqueued reaches its end, through deaths of workers and redeliveries, unless the
\* broker was made to forget the message (acks_late; bug_fix.py lets a running row be
\* taken up again for that).
TasksSettle ==
  /\ status = "processing" ~> (status # "processing" \/ forsaken \cap Processing # {})
  /\ shown = "running" ~> (shown # "running" \/ Analysis \in forsaken)
  /\ \A f \in Fixes :
       (fix[f] \in {"pending", "running"} /\ f \in enqueued) ~>
         (fix[f] \in Finished \/ LostFor(f) \/ f \notin enqueued)

=============================================================================
