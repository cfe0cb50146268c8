--------------------------- MODULE LogTasks_proofs ---------------------------
(***************************************************************************)
(* Proofs about LogTasks for every set of workers, messages, rows and       *)
(* retry requests, and any number of redeliveries, deaths and restarts.     *)
(***************************************************************************)
EXTENDS LogTasks, FiniteSetTheorems, TLAPS

-----------------------------------------------------------------------------
(* The inductive invariant.                                                 *)

\* A worker's task works on the log, and may still complete it.
Active(w) == Processes(w) /\ at[w] \in {"working", "replaced"} \cup Replacing

Whole == {"uploaded", "processed"}

\* Before the upload nothing is published for the log, delivered or scanned.
UploadInv ==
  status = "none" =>
    /\ deletion = "no" /\ boot = "up"
    /\ \A m \in Processing : waiting[m] = 0 /\ unacked[m] = 0
    /\ \A w \in Workers : ~Processes(w)

\* What a deletion has done so far.
DeletionInv ==
  /\ status = "gone" => deletion = "hard"
  /\ mishaps = {} /\ deletion # "no" =>
       /\ archive = "none"
       /\ \A w \in Workers : Active(w) => at[w] \notin Replacing

\* As long as nothing went wrong, one task works on the log at a time, ...
AloneInv ==
  mishaps = {} =>
    /\ \A v, w \in Workers : Active(v) /\ Active(w) => v = w
    /\ \A w \in Workers : Active(w) => status # "completed"

\* ...and its progress says where the log is.
ProgressInv ==
  mishaps = {} /\ deletion = "no" =>
    \A w \in Workers : Active(w) =>
      /\ at[w] \in {"packed", "copying", "backed"} => archive \in Whole
      /\ at[w] \in {"backed", "moving", "moved"} => backup \in Whole
      /\ at[w] = "moving" => archive = "torn"
      /\ at[w] \in {"moved", "replaced"} => archive = "processed"

\* Where no task works on it, the log is somewhere, and a completed one in its archive.
KeptInv ==
  mishaps = {} /\ deletion = "no" =>
    /\ status # "none" => archive \in Whole \/ backup \in Whole
    /\ status = "completed" => archive = "processed"

LogInv == UploadInv /\ DeletionInv /\ AloneInv /\ ProgressInv /\ KeptInv

IInv == TypeOK /\ LogInv /\ OneRetryPerFailure

-----------------------------------------------------------------------------
(* Lemmas.                                                                  *)

LEMMA RunningNat == ASSUME NEW m PROVE Running(m) \in Nat
<1>1. IsFiniteSet({w \in Workers : job[w] = m})
  BY BrokerAssumption, FS_Subset
<1> QED
  BY <1>1, FS_CardinalityType DEF Running

\* Names of messages say which task they start.
LEMMA Names ==
  /\ Processing \subseteq Messages /\ NoMessage \notin Messages
  /\ Analysis \in Messages /\ Fixes \subseteq Messages /\ Requests \subseteq Messages
  /\ Analysis \notin Processing /\ Fixes \cap Processing = {} /\ Requests \cap Processing = {}
  BY BrokerAssumption, PipelineAssumption, FixAssumption, TaskAssumption

\* A step that leaves the log and its row alone, starts no processing and advances none.
LEMMA ElsewhereKeepsLogInv ==
  ASSUME LogInv, UNCHANGED pipelineVars,
         \A w \in Workers : Active(w)' => Active(w) /\ at'[w] = at[w],
         status = "none" =>
           /\ \A m \in Processing : waiting'[m] = 0 /\ unacked'[m] = 0
           /\ \A w \in Workers : ~Processes(w)'
  PROVE  LogInv'
<1>1. UploadInv'
  BY DEF LogInv, UploadInv, pipelineVars
<1>2. DeletionInv' /\ AloneInv'
  BY DEF LogInv, DeletionInv, AloneInv, pipelineVars
<1>3. ProgressInv' /\ KeptInv'
  BY DEF LogInv, ProgressInv, KeptInv, pipelineVars
<1> QED
  BY <1>1, <1>2, <1>3 DEF LogInv

-----------------------------------------------------------------------------
(* Types.                                                                   *)

Steps == {"idle", "begin", "done"} \cup ProcessSteps \cup FixSteps

LEMMA ProcessTypes ==
  ASSUME TypeOK, NEW w \in Workers, ProcessStep(w), UNCHANGED fixVars PROVE TypeOK'
<1> USE DEF TypeOK, BrokerTypeOK, PipelineTypeOK, ProcessSteps, Step, Quiet, ApiIdle, Statuses, Contents
<1>1. FixTypeOK'
  BY DEF FixTypeOK, fixVars
<1>2. /\ Processing \subseteq Messages /\ job[w] \in Messages \cup {NoMessage}
      /\ MaxRetries \in Nat
  BY Names, PipelineAssumption
<1>3. CASE RowMissing(w)
  BY <1>3, <1>1, <1>2 DEF RowMissing
<1>4. CASE ProcessBegins(w)
  BY <1>4, <1>1, <1>2 DEF ProcessBegins
<1>5. CASE Pack(w)
  BY <1>5, <1>1, <1>2 DEF Pack
<1>6. CASE BackUp(w)
  BY <1>6, <1>1, <1>2 DEF BackUp
<1>7. CASE BackedUp(w)
  BY <1>7, <1>1, <1>2 DEF BackedUp
<1>8. CASE Move(w)
  BY <1>8, <1>1, <1>2 DEF Move
<1>9. CASE Moved(w)
  BY <1>9, <1>1, <1>2 DEF Moved
<1>10. CASE DropBackup(w)
  BY <1>10, <1>1, <1>2 DEF DropBackup
<1>11. CASE Restore(w)
  BY <1>11, <1>1, <1>2 DEF Restore
<1>12. CASE Complete(w)
  BY <1>12, <1>1, <1>2 DEF Complete
<1>13. CASE ProcessFails(w)
  BY <1>13, <1>1, <1>2 DEF ProcessFails
<1>14. CASE MarkFailed(w)
  BY <1>14, <1>1, <1>2 DEF MarkFailed
<1>15. CASE RetryLater(w)
  BY <1>15, <1>1, <1>2 DEF RetryLater, Post, Processes
<1> QED
  BY <1>3, <1>4, <1>5, <1>6, <1>7, <1>8, <1>9, <1>10, <1>11, <1>12, <1>13, <1>14, <1>15 DEF ProcessStep

LEMMA FixTypes ==
  ASSUME TypeOK, NEW w \in Workers, FixStep(w), UNCHANGED pipelineVars PROVE TypeOK'
<1> USE DEF TypeOK, BrokerTypeOK, FixTypeOK, FixSteps, FixStatuses, Step, Mute, Unposted, RowsKept, CallsKept
<1>1. PipelineTypeOK'
  BY DEF PipelineTypeOK, pipelineVars
<1>2. Fixes \subseteq Messages /\ (Repairs(w) => Row(w) \in Fixes)
  BY Names DEF Repairs, Row
<1>3. CASE AnalysisBegins(w)
  BY <1>3, <1>1, <1>2 DEF AnalysisBegins
<1>4. CASE AnalysisFails(w)
  BY <1>4, <1>1, <1>2 DEF AnalysisFails
<1>5. CASE AnalysisCompletes(w)
  BY <1>5, <1>1, <1>2 DEF AnalysisCompletes
<1>6. CASE NoDispatch(w)
  BY <1>6, <1>1, <1>2 DEF NoDispatch
<1>7. CASE CreateTask(w)
  BY <1>7, <1>1, <1>2 DEF CreateTask, Write
<1>8. CASE Dispatch(w)
  BY <1>8, <1>1, <1>2 DEF Dispatch, Post
<1>9. CASE Check(w)
  BY <1>9, <1>1, <1>2 DEF Check
<1>10. CASE MarkRunning(w)
  BY <1>10, <1>1, <1>2 DEF MarkRunning, Write
<1>11. CASE RepairFails(w)
  BY <1>11, <1>1, <1>2 DEF RepairFails, Write
<1>12. CASE Finalize(w)
  BY <1>12, <1>1, <1>2 DEF Finalize, Write, Finished
<1> QED
  BY <1>3, <1>4, <1>5, <1>6, <1>7, <1>8, <1>9, <1>10, <1>11, <1>12 DEF FixStep

LEMMA BrokerTypes ==
  ASSUME TypeOK, Broker, UNCHANGED <<pipelineVars, fixVars>> PROVE TypeOK'
<1> USE DEF TypeOK, BrokerTypeOK
<1>1. PipelineTypeOK' /\ FixTypeOK'
  BY DEF PipelineTypeOK, pipelineVars, FixTypeOK, fixVars
<1>2. \A m \in Messages : Running(m) \in Nat
  BY RunningNat
<1>3. Redeliveries \in Nat /\ Deaths \in Nat /\ NoMessage \notin Messages
  BY BrokerAssumption
<1>4. ASSUME NEW w \in Workers, NEW m \in Messages, Deliver(w, m) PROVE TypeOK'
  BY <1>1, <1>4 DEF Deliver
<1>5. ASSUME NEW w \in Workers, Acknowledge(w) PROVE TypeOK'
  BY <1>1, <1>5 DEF Acknowledge, OneLess
<1>6. ASSUME NEW w \in Workers, Stops(w), unacked' \in [Messages -> Nat] PROVE TypeOK'
  BY <1>1, <1>3, <1>6 DEF Stops
<1>7. ASSUME NEW w \in Workers, WorkerDies(w) PROVE TypeOK'
  BY <1>6, <1>7 DEF WorkerDies
<1>8. ASSUME NEW w \in Workers, TaskKilled(w) PROVE TypeOK'
  <2>1. unacked' \in [Messages -> Nat]
    BY <1>8 DEF TaskKilled, OneLess
  <2> QED
    BY <2>1, <1>6, <1>8 DEF TaskKilled
<1>9. ASSUME NEW m \in Messages, Recover(m) PROVE TypeOK'
  BY <1>1, <1>2, <1>9 DEF Recover, Requeue, Post
<1>10. ASSUME NEW m \in Messages, Redeliver(m) PROVE TypeOK'
  BY <1>1, <1>2, <1>3, <1>10 DEF Redeliver, Requeue, Post
<1> QED
  BY <1>4, <1>5, <1>7, <1>8, <1>9, <1>10 DEF Broker

LEMMA ApiTypes ==
  ASSUME TypeOK, Requested \/ Answers PROVE TypeOK'
<1> USE DEF TypeOK, BrokerTypeOK, FixTypeOK, FixStatuses, Unposted, RowsKept, CallsKept, brokerVars
<1>1. UNCHANGED pipelineVars /\ PipelineTypeOK'
  BY DEF Requested, Answers, PipelineTypeOK, pipelineVars
<1>2. Analysis \in Messages /\ Requests \subseteq Messages
  BY Names
<1>3. CASE AskAnalysis
  BY <1>1, <1>2, <1>3 DEF AskAnalysis, Post
<1>4. ASSUME NEW r \in Requests, NEW f \in Fixes, RetryReads(r, f) PROVE TypeOK'
  BY <1>1, <1>4 DEF RetryReads
<1>5. CASE WriteQueued
  BY <1>1, <1>5 DEF WriteQueued
<1>6. ASSUME NEW r \in Requests, Claim(r) PROVE TypeOK'
  BY <1>1, <1>6 DEF Claim, Write
<1>7. ASSUME NEW r \in Requests, LosesClaim(r) PROVE TypeOK'
  BY <1>1, <1>7 DEF LosesClaim
<1>8. ASSUME NEW r \in Requests, RetryPublishes(r) PROVE TypeOK'
  BY <1>1, <1>2, <1>8 DEF RetryPublishes, Post
<1>9. ASSUME NEW r \in Requests, RetryGivesBack(r) PROVE TypeOK'
  BY <1>1, <1>9 DEF RetryGivesBack, Write
<1> HIDE DEF TypeOK
<1> QED
  BY <1>3, <1>4, <1>5, <1>6, <1>7, <1>8, <1>9 DEF Requested, Answers, RetryStep

LEMMA RowTypes ==
  ASSUME TypeOK, ApiRestarts \/ Starts \/ Goes \/ (Upload /\ UNCHANGED fixVars) PROVE TypeOK'
<1> USE DEF TypeOK, BrokerTypeOK, PipelineTypeOK, FixTypeOK, Statuses, Deletions, Contents
<1>1. FromUpload \in Messages /\ FromStartup \in Messages /\ Restarts \in Nat
  BY PipelineAssumption DEF Processing
<1>2. CASE ApiRestarts
  <2>1. PipelineTypeOK'
    BY <1>1, <1>2 DEF ApiRestarts, Restart
  <2>2. FixTypeOK'
    BY <1>2 DEF ApiRestarts, RequestsDropped
  <2> QED
    BY <1>2, <2>1, <2>2 DEF ApiRestarts, brokerVars
<1>3. CASE ScanPublishes /\ UNCHANGED fixVars
  BY <1>1, <1>3 DEF ScanPublishes, Post, fixVars
<1>4. CASE ScanEnds /\ UNCHANGED fixVars
  BY <1>4 DEF ScanEnds, brokerVars, fixVars
<1>5. CASE DeleteRow /\ UNCHANGED fixVars
  BY <1>5 DEF DeleteRow, brokerVars, fixVars
<1>6. CASE Goes
  BY <1>6 DEF Goes, DeleteFile, Expire, Unlink, brokerVars, fixVars
<1>7. CASE Upload /\ UNCHANGED fixVars
  BY <1>1, <1>7 DEF Upload, Post, ApiIdle, fixVars
<1> QED
  BY <1>2, <1>3, <1>4, <1>5, <1>6, <1>7 DEF Starts

-----------------------------------------------------------------------------
(* The log.                                                                 *)

\* One step of a task that processes the log.
LEMMA ProcessKeepsLogInv ==
  ASSUME TypeOK, LogInv, NEW w \in Workers, ProcessStep(w) PROVE LogInv'
<1> USE DEF LogInv, Active, Processes, Replacing, Step, Quiet, ApiIdle, There
<1>1. /\ Processes(w) /\ job' = job /\ status # "none"
      /\ at \in [Workers -> Steps] /\ \A v \in Workers \ {w} : at'[v] = at[v]
  BY DEF ProcessStep, RowMissing, ProcessBegins, Pack, BackUp, BackedUp, Move, Moved, DropBackup, Restore,
     Complete, ProcessFails, MarkFailed, RetryLater, UploadInv, TypeOK, BrokerTypeOK, Steps
<1>2. UploadInv'
  BY <1>1 DEF UploadInv, ProcessStep, RowMissing, ProcessBegins, Pack, BackUp, BackedUp, Move, Moved,
     DropBackup, Restore, Complete, ProcessFails, MarkFailed, RetryLater
<1> HIDE DEF LogInv
<1>3. CASE RowMissing(w)
  BY <1>1, <1>2, <1>3 DEF LogInv, RowMissing, DeletionInv, AloneInv, ProgressInv, KeptInv, Whole
<1>4. CASE ProcessBegins(w)
  BY <1>1, <1>2, <1>4 DEF LogInv, ProcessBegins, DeletionInv, AloneInv, ProgressInv, KeptInv, Whole
<1>5. CASE Pack(w)
  BY <1>1, <1>2, <1>5 DEF LogInv, Pack, Extractable, DeletionInv, AloneInv, ProgressInv, KeptInv, Whole
<1>6. CASE BackUp(w)
  BY <1>1, <1>2, <1>6 DEF LogInv, BackUp, DeletionInv, AloneInv, ProgressInv, KeptInv, Whole
<1>7. CASE BackedUp(w)
  BY <1>1, <1>2, <1>7 DEF LogInv, BackedUp, DeletionInv, AloneInv, ProgressInv, KeptInv, Whole
<1>8. CASE Move(w)
  BY <1>1, <1>2, <1>8 DEF LogInv, Move, DeletionInv, AloneInv, ProgressInv, KeptInv, Whole
<1>9. CASE Moved(w)
  BY <1>1, <1>2, <1>9 DEF LogInv, Moved, DeletionInv, AloneInv, ProgressInv, KeptInv, Whole
<1>10. CASE DropBackup(w)
  BY <1>1, <1>2, <1>10 DEF LogInv, DropBackup, DeletionInv, AloneInv, ProgressInv, KeptInv, Whole
<1>11. CASE Restore(w)
  <2>1. mishaps' = {} => mishaps = {} /\ backup \in {"none"} \cup Whole
    BY <1>11 DEF Restore, TypeOK, PipelineTypeOK, Contents, Whole
  <2>2. DeletionInv' /\ AloneInv' /\ ProgressInv'
    BY <1>1, <1>11, <2>1 DEF LogInv, Restore, DeletionInv, AloneInv, ProgressInv
  <2>3. KeptInv'
    BY <1>1, <1>11, <2>1 DEF LogInv, Restore, AloneInv, KeptInv, Whole
  <2> QED
    BY <1>2, <2>2, <2>3 DEF LogInv
<1>12. CASE Complete(w)
  BY <1>1, <1>2, <1>12 DEF LogInv, Complete, DeletionInv, AloneInv, ProgressInv, KeptInv, Whole
<1>13. CASE ProcessFails(w)
  BY <1>1, <1>2, <1>13 DEF LogInv, ProcessFails, DeletionInv, AloneInv, ProgressInv, KeptInv, Whole
<1>14. CASE MarkFailed(w)
  BY <1>1, <1>2, <1>14 DEF LogInv, MarkFailed, DeletionInv, AloneInv, ProgressInv, KeptInv, Whole
<1>15. CASE RetryLater(w)
  BY <1>1, <1>2, <1>15 DEF LogInv, RetryLater, DeletionInv, AloneInv, ProgressInv, KeptInv, Whole
<1> QED
  BY <1>3, <1>4, <1>5, <1>6, <1>7, <1>8, <1>9, <1>10, <1>11, <1>12, <1>13, <1>14, <1>15 DEF ProcessStep

\* One step of an analysis or a repair.
LEMMA FixKeepsLogInv ==
  ASSUME TypeOK, LogInv, NEW w \in Workers, FixStep(w), UNCHANGED pipelineVars PROVE LogInv'
<1>1. ~Processes(w) /\ job' = job /\ unacked' = unacked /\ \A v \in Workers \ {w} : at'[v] = at[v]
  BY Names DEF FixStep, AnalysisBegins, AnalysisFails, AnalysisCompletes, NoDispatch, CreateTask, Dispatch,
     Check, MarkRunning, RepairFails, Finalize, Analyses, Repairs, Processes, Step, Mute, Unposted,
     TypeOK, BrokerTypeOK
<1>2. \A m \in Processing : waiting'[m] = waiting[m]
  BY Names DEF FixStep, AnalysisBegins, AnalysisFails, AnalysisCompletes, NoDispatch, CreateTask, Dispatch,
     Check, MarkRunning, RepairFails, Finalize, Mute, Unposted, Post, TypeOK, BrokerTypeOK, FixTypeOK
<1>3. \A v \in Workers : (Processes(v)' <=> Processes(v)) /\ (Active(v)' => Active(v) /\ at'[v] = at[v])
  BY <1>1 DEF Processes, Active
<1> QED
  BY <1>1, <1>2, <1>3, ElsewhereKeepsLogInv DEF LogInv, UploadInv

\* One step of the broker or a worker: nothing is delivered of what is not published.
LEMMA BrokerKeepsLogInv ==
  ASSUME TypeOK, LogInv, Broker, UNCHANGED pipelineVars PROVE LogInv'
<1> USE DEF TypeOK, BrokerTypeOK
<1>1. ASSUME NEW w \in Workers, NEW m \in Messages, Deliver(w, m) PROVE LogInv'
  <2>1. \A v \in Workers : Active(v)' => Active(v) /\ at'[v] = at[v]
    BY <1>1 DEF Deliver, Active, Processes, Replacing
  <2> QED
    BY <1>1, <2>1, Names, ElsewhereKeepsLogInv DEF LogInv, UploadInv, Deliver, Processes
<1>2. ASSUME NEW w \in Workers, job[w] # NoMessage, job' = [job EXCEPT ![w] = NoMessage],
             at' = [at EXCEPT ![w] = "idle"], waiting' = waiting,
             unacked' \in {unacked, [unacked EXCEPT ![job[w]] = OneLess(@)]}
      PROVE  LogInv'
  <2>1. \A v \in Workers : /\ Processes(v)' => Processes(v)
                           /\ Active(v)' => Active(v) /\ at'[v] = at[v]
    BY <1>2, Names DEF Active, Processes, Replacing
  <2>2. \A m \in Processing : unacked[m] = 0 => unacked'[m] = 0
    BY <1>2, Names DEF OneLess
  <2> QED
    BY <1>2, <2>1, <2>2, ElsewhereKeepsLogInv DEF LogInv, UploadInv
<1>3. ASSUME NEW w \in Workers, Acknowledge(w) \/ WorkerDies(w) \/ TaskKilled(w) PROVE LogInv'
  BY <1>2, <1>3 DEF Acknowledge, WorkerDies, TaskKilled, Stops
<1>4. ASSUME NEW m \in Messages, Recover(m) \/ Redeliver(m) PROVE LogInv'
  <2>1. unacked[m] > 0 /\ Requeue(m)
    BY <1>4, RunningNat DEF Recover, Redeliver
  <2>2. \A v \in Workers : (Processes(v)' <=> Processes(v)) /\ (Active(v)' => Active(v) /\ at'[v] = at[v])
    BY <2>1 DEF Requeue, Active, Processes
  <2>3. \A k \in Processing : unacked[k] = 0 => unacked'[k] = 0 /\ waiting'[k] = waiting[k]
    BY <2>1, Names DEF Requeue, Post
  <2> QED
    BY <2>2, <2>3, ElsewhereKeepsLogInv DEF LogInv, UploadInv
<1> QED
  BY <1>1, <1>3, <1>4 DEF Broker

\* A request for an analysis or a retry, and its answer.
LEMMA ApiKeepsLogInv ==
  ASSUME TypeOK, LogInv, Requested \/ Answers PROVE LogInv'
<1>1. UNCHANGED pipelineVars /\ UNCHANGED <<job, at, unacked>>
  BY DEF Requested, Answers, AskAnalysis, RetryReads, WriteQueued, RetryStep, Claim, LosesClaim,
     RetryPublishes, RetryGivesBack, Unposted, brokerVars
<1>2. \A m \in Processing : waiting'[m] = waiting[m]
  BY Names DEF Requested, Answers, AskAnalysis, RetryReads, WriteQueued, RetryStep, Claim, LosesClaim,
     RetryPublishes, RetryGivesBack, brokerVars, Post, TypeOK, BrokerTypeOK
<1>3. \A v \in Workers : (Processes(v)' <=> Processes(v)) /\ (Active(v)' => Active(v) /\ at'[v] = at[v])
  BY <1>1 DEF Processes, Active
<1> QED
  BY <1>1, <1>2, <1>3, ElsewhereKeepsLogInv DEF LogInv, UploadInv

\* The upload, restarts and deletions.
LEMMA RowKeepsLogInv ==
  ASSUME TypeOK, LogInv, ApiRestarts \/ Starts \/ Goes \/ Upload PROVE LogInv'
<1> USE DEF LogInv, UploadInv, DeletionInv, AloneInv, ProgressInv, KeptInv, Active, Processes
<1>1. CASE Upload
  BY <1>1 DEF Upload, ApiIdle, Whole
<1>2. CASE ApiRestarts
  BY <1>2 DEF ApiRestarts, Restart, brokerVars
<1>3. CASE ScanPublishes
  BY <1>3 DEF ScanPublishes
<1>4. CASE ScanEnds
  BY <1>4 DEF ScanEnds, brokerVars, There
<1>5. CASE DeleteRow
  BY <1>5 DEF DeleteRow, brokerVars
<1>6. CASE Goes
  BY <1>6 DEF Goes, DeleteFile, Expire, Unlink, brokerVars, There
<1> QED
  BY <1>1, <1>2, <1>3, <1>4, <1>5, <1>6 DEF Starts

-----------------------------------------------------------------------------
(* The retries.                                                             *)

LEMMA WriteKeepsRetries ==
  ASSUME TypeOK, OneRetryPerFailure, NEW f \in Fixes, NEW s \in FixStatuses, Write(f, s), claims' = claims
  PROVE  OneRetryPerFailure'
  BY DEF TypeOK, FixTypeOK, OneRetryPerFailure, Write

LEMMA FixKeepsRetries ==
  ASSUME TypeOK, OneRetryPerFailure, NEW w \in Workers, FixStep(w) PROVE OneRetryPerFailure'
<1>1. Repairs(w) => Row(w) \in Fixes
  BY DEF TypeOK, FixTypeOK, Repairs, Row
<1>2. CASE CreateTask(w)
  <2>1. PICK f \in Fixes : Write(f, "pending") /\ claims' = claims
    BY <1>2 DEF CreateTask
  <2> QED
    BY <2>1, WriteKeepsRetries DEF FixStatuses
<1>3. CASE MarkRunning(w) \/ RepairFails(w)
  BY <1>1, <1>3, WriteKeepsRetries DEF MarkRunning, RepairFails, FixStatuses
<1>4. CASE Finalize(w)
  BY <1>1, <1>4, WriteKeepsRetries DEF Finalize, Finished, FixStatuses
<1>5. CASE UNCHANGED <<fix, failures, claims>>
  BY <1>5 DEF OneRetryPerFailure
<1> QED
  BY <1>2, <1>3, <1>4, <1>5 DEF FixStep, AnalysisBegins, AnalysisFails, AnalysisCompletes, NoDispatch,
     Dispatch, Check, RowsKept

LEMMA ApiKeepsRetries ==
  ASSUME TypeOK, OneRetryPerFailure, Requested \/ Answers PROVE OneRetryPerFailure'
<1>1. ASSUME NEW r \in Requests, Claim(r) PROVE OneRetryPerFailure'
  BY <1>1 DEF TypeOK, FixTypeOK, OneRetryPerFailure, Claim, Write
<1>2. ASSUME NEW r \in Requests, RetryGivesBack(r) PROVE OneRetryPerFailure'
  <2>1. CASE fix[asked[r]] = "pending"
    BY <1>2, <2>1, WriteKeepsRetries DEF RetryGivesBack, TypeOK, FixTypeOK, FixStatuses
  <2>2. CASE fix[asked[r]] # "pending"
    BY <1>2, <2>2 DEF RetryGivesBack, OneRetryPerFailure
  <2> QED
    BY <2>1, <2>2
<1>3. CASE UNCHANGED <<fix, failures, claims>>
  BY <1>3 DEF OneRetryPerFailure
<1> QED
  BY <1>1, <1>2, <1>3 DEF Requested, Answers, AskAnalysis, RetryReads, WriteQueued, RetryStep,
     LosesClaim, RetryPublishes, RowsKept

-----------------------------------------------------------------------------
(* The invariant is inductive.                                              *)

LEMMA InitIInv == Init => IInv
<1> SUFFICES ASSUME Init PROVE IInv
  OBVIOUS
<1> USE DEF Init, BrokerInit, PipelineInit, FixInit
<1>1. MaxRetries \in Nat /\ Restarts \in Nat /\ Redeliveries \in Nat /\ Deaths \in Nat
      /\ Processing \subseteq Messages /\ NoMessage \notin Messages /\ (CHOOSE f \in Fixes : TRUE) \in Fixes
  BY BrokerAssumption, PipelineAssumption, FixAssumption
<1>2. BrokerTypeOK({"idle", "begin", "done"} \cup ProcessSteps \cup FixSteps)
  BY <1>1 DEF BrokerTypeOK
<1>3. PipelineTypeOK
  BY <1>1 DEF PipelineTypeOK, Statuses, Deletions, Contents
<1>4. FixTypeOK
  BY <1>1 DEF FixTypeOK, FixStatuses
<1>5. LogInv
  BY <1>1 DEF LogInv, UploadInv, DeletionInv, AloneInv, ProgressInv, KeptInv, Active, Processes
<1>6. OneRetryPerFailure
  BY DEF OneRetryPerFailure
<1> QED
  BY <1>2, <1>3, <1>4, <1>5, <1>6 DEF IInv, TypeOK

LEMMA NextIInv == ASSUME IInv, [Next]_vars PROVE IInv'
<1> USE DEF IInv
<1>1. ASSUME NEW w \in Workers, Work(w) PROVE IInv'
  <2>1. CASE ProcessStep(w) /\ UNCHANGED fixVars
    BY <2>1, ProcessTypes, ProcessKeepsLogInv DEF OneRetryPerFailure, fixVars
  <2>2. CASE FixStep(w) /\ UNCHANGED pipelineVars
    BY <2>2, FixTypes, FixKeepsLogInv, FixKeepsRetries
  <2>3. CASE Acknowledge(w) /\ UNCHANGED <<pipelineVars, fixVars>>
    BY <2>3, BrokerTypes, BrokerKeepsLogInv DEF Broker, OneRetryPerFailure, fixVars
  <2> QED
    BY <1>1, <2>1, <2>2, <2>3 DEF Work
<1>2. ASSUME Fault \/ \E m \in Messages : Delivery(m) PROVE IInv'
  <2>1. Broker /\ UNCHANGED <<pipelineVars, fixVars>>
    BY <1>2 DEF Fault, Delivery, Broker
  <2> QED
    BY <2>1, BrokerTypes, BrokerKeepsLogInv DEF OneRetryPerFailure, fixVars
<1>3. CASE Requested \/ Answers
  BY <1>3, ApiTypes, ApiKeepsLogInv, ApiKeepsRetries
<1>4. CASE ApiRestarts \/ Starts \/ Goes \/ (Upload /\ UNCHANGED fixVars)
  <2>1. UNCHANGED <<fix, failures, claims>>
    BY <1>4 DEF ApiRestarts, RequestsDropped, Starts, Goes, fixVars
  <2> QED
    BY <1>4, <2>1, RowTypes, RowKeepsLogInv DEF OneRetryPerFailure
<1>5. CASE UNCHANGED vars
  <2>1. UNCHANGED <<pipelineVars, fixVars, brokerVars>>
    BY <1>5 DEF vars, pipelineVars, fixVars, brokerVars
  <2>2. TypeOK'
    BY <2>1 DEF TypeOK, BrokerTypeOK, PipelineTypeOK, FixTypeOK, pipelineVars, fixVars, brokerVars
  <2>3. LogInv'
    BY <2>1, ElsewhereKeepsLogInv DEF LogInv, UploadInv, Active, Processes, brokerVars
  <2> QED
    BY <2>1, <2>2, <2>3 DEF OneRetryPerFailure, fixVars
<1> QED
  BY <1>1, <1>2, <1>3, <1>4, <1>5 DEF Next

THEOREM Invariance == Spec => []IInv
<1>1. Init => IInv
  BY InitIInv
<1>2. IInv /\ [Next]_vars => IInv'
  BY NextIInv
<1> QED
  BY <1>1, <1>2, PTL DEF Spec

\* Every variable stays in its range.
THEOREM TypeCorrect == Spec => []TypeOK
<1>1. IInv => TypeOK
  BY DEF IInv
<1> QED
  BY <1>1, Invariance, PTL

\* Wherever tasks die and however often they run again: while no two of them work on the
\* log at a time, no half-made backup is moved back and no archive is deleted under its
\* replacement, a log that is not deleted is in its archive or its backup, a completed one's
\* archive is the new one, and a deleted one's does not come back (_replace_original_file,
\* delete_log).
THEOREM LogNotLost == Spec => []ArchiveKept
<1>1. IInv => ArchiveKept
  BY DEF IInv, LogInv, DeletionInv, KeptInv, ArchiveKept, Whole
<1> QED
  BY <1>1, Invariance, PTL

\* However retry requests and copies of a repair overlap, no failure is retried twice
\* (retry_bug_fix).
THEOREM OneRetry == Spec => []OneRetryPerFailure
<1>1. IInv => OneRetryPerFailure
  BY DEF IInv
<1> QED
  BY <1>1, Invariance, PTL

=============================================================================
