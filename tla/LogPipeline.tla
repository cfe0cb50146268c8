----------------------------- MODULE LogPipeline -----------------------------
(***************************************************************************)
(* The processing of one uploaded log: process_protocol_stack_log          *)
(* (src/app/tasks/log_processing.py), what publishes it (upload, its own   *)
(* retry, the scan at start-up in src/app/services/log_service.py), the    *)
(* row it keeps, the archive it replaces in place, and the deletion of     *)
(* both on request or for their age.                                       *)
(*                                                                         *)
(* The temporary directory and the upload directory are two volumes        *)
(* (docker-compose.yml), so moving the new archive over the old one is a   *)
(* copy: a task that dies inside it leaves a torn archive.  The backup     *)
(* lies beside the archive; moving it back is a rename.                    *)
(***************************************************************************)
EXTENDS TaskBroker

CONSTANTS
  FromUpload,    \* the message the upload publishes
  FromStartup,   \* the message the scan at start-up publishes
  MaxRetries,    \* settings.max_retry_attempts
  Restarts       \* bound: restarts of the API process

Processing == {FromUpload, FromStartup}

ASSUME PipelineAssumption ==
  /\ Processing \subseteq Messages
  /\ FromUpload # FromStartup
  /\ MaxRetries \in Nat
  /\ Restarts \in Nat

VARIABLES
  status,    \* LogRecord.status; "none": not uploaded, "gone": the row is deleted
  deletion,  \* how far a deletion has come; "soft": is_deleted
  archive,   \* what file_path holds
  backup,    \* what file_path.backup holds
  retries,   \* request.retries of a message (its copies share it here)
  boot,      \* the API process: up, or how far its scan at start-up has come
  restarts,  \* restarts so far
  mishaps    \* two tasks worked on the log at a time, a half-made backup was moved back,
             \* the archive was deleted under a task that was replacing it

pipelineVars == <<status, deletion, archive, backup, retries, boot, restarts, mishaps>>

-----------------------------------------------------------------------------
Statuses == {"none", "pending", "processing", "completed", "failed", "gone"}

\* "request", "expiry": the file is unlinked, the row not yet written.
Deletions == {"no", "request", "expiry", "soft", "hard", "failed"}

\* "torn": a move was under way.
Contents == {"none", "uploaded", "processed", "torn"}

ProcessSteps == {"working", "packed", "copying", "backed", "moving", "moved", "replaced", "failing", "failed"}

\* Inside _replace_original_file.
Replacing == {"packed", "copying", "backed", "moving", "moved"}

PipelineTypeOK ==
  /\ status \in Statuses
  /\ deletion \in Deletions
  /\ archive \in Contents
  /\ backup \in Contents
  /\ retries \in [Processing -> 0..MaxRetries]
  /\ boot \in {"up", "scanning", "published"}
  /\ restarts \in 0..Restarts
  /\ mishaps \subseteq {"crowded", "half_backup", "undercut"}

PipelineInit ==
  /\ status = "none"
  /\ deletion = "no"
  /\ archive = "none"
  /\ backup = "none"
  /\ retries = [m \in Processing |-> 0]
  /\ boot = "up"
  /\ restarts = 0
  /\ mishaps = {}

Processes(w) == job[w] \in Processing

Quiet == UNCHANGED <<waiting, unacked, job, late, dead, forsaken>>
ApiIdle == UNCHANGED <<boot, restarts, deletion>>

\* A commit to a row that is gone raises.
There == status # "gone"

-----------------------------------------------------------------------------
\* A log whose name does not say "stack", or whose message cannot be published (only
\* logged), stays pending.
Upload ==
  /\ boot = "up"
  /\ status = "none"
  /\ status' = "pending"
  /\ archive' = "uploaded"
  /\ UNCHANGED waiting \/ Post(FromUpload)
  /\ UNCHANGED <<unacked, job, at, late, dead, forsaken, backup, retries, mishaps>>
  /\ ApiIdle

\* The row is gone: nothing to mark as failed.
RowMissing(w) ==
  /\ Processes(w)
  /\ ~There
  /\ Step(w, {"begin"}, "failed")
  /\ Quiet /\ ApiIdle
  /\ UNCHANGED <<status, archive, backup, retries, mishaps>>

\* Whatever the row's status was, deleted or not: there is no look at it first.
ProcessBegins(w) ==
  /\ Processes(w)
  /\ There
  /\ Step(w, {"begin"}, "working")
  /\ status' = "processing"
  /\ mishaps' = IF \E v \in Workers \ {w} : Processes(v)
                  THEN mishaps \cup {"crowded"} ELSE mishaps
  /\ Quiet /\ ApiIdle
  /\ UNCHANGED <<archive, backup, retries>>

\* A torn archive does not extract.
Extractable == archive \in {"uploaded", "processed"}

\* Extracting, the external tool and packing, in a directory of the task's own.
Pack(w) ==
  /\ Processes(w)
  /\ Extractable
  /\ Step(w, {"working"}, "packed")
  /\ Quiet /\ ApiIdle
  /\ UNCHANGED <<status, archive, backup, retries, mishaps>>

\* _replace_original_file, one step of it at a time.
BackUp(w) ==
  /\ Processes(w)
  /\ archive # "none"
  /\ Step(w, {"packed"}, "copying")
  /\ backup' = "torn"
  /\ Quiet /\ ApiIdle
  /\ UNCHANGED <<status, archive, retries, mishaps>>

\* (mutant of BackedUp) The backup is dropped before the archive is replaced.
BackedUpTooSoon(w) ==
  /\ Processes(w)
  /\ Step(w, {"copying"}, "backed")
  /\ backup' = "none"
  /\ Quiet /\ ApiIdle
  /\ UNCHANGED <<status, archive, retries, mishaps>>

BackedUp(w) ==
  /\ Processes(w)
  /\ Step(w, {"copying"}, "backed")
  /\ IF archive = "none" THEN backup' \in {"uploaded", "processed"} ELSE backup' = archive
  /\ Quiet /\ ApiIdle
  /\ UNCHANGED <<status, archive, retries, mishaps>>

Move(w) ==
  /\ Processes(w)
  /\ Step(w, {"backed"}, "moving")
  /\ archive' = "torn"
  /\ Quiet /\ ApiIdle
  /\ UNCHANGED <<status, backup, retries, mishaps>>

\* What is written to a file that is unlinked meanwhile is lost.
Moved(w) ==
  /\ Processes(w)
  /\ Step(w, {"moving"}, "moved")
  /\ archive' = IF archive = "none" THEN "none" ELSE "processed"
  /\ Quiet /\ ApiIdle
  /\ UNCHANGED <<status, backup, retries, mishaps>>

DropBackup(w) ==
  /\ Processes(w)
  /\ Step(w, {"moved"}, "replaced")
  /\ backup' = "none"
  /\ Quiet /\ ApiIdle
  /\ UNCHANGED <<status, archive, retries, mishaps>>

\* Any step of the replacement raises: a backup that is there is moved back, also one
\* that was being written.
Restore(w) ==
  /\ Processes(w)
  /\ Step(w, Replacing, "failing")
  /\ backup' = "none"
  /\ archive' = IF backup = "none" THEN archive ELSE backup
  /\ mishaps' = IF backup = "torn" THEN mishaps \cup {"half_backup"} ELSE mishaps
  /\ Quiet /\ ApiIdle
  /\ UNCHANGED <<status, retries>>

Complete(w) ==
  /\ Processes(w)
  /\ There /\ archive # "none"
  /\ Step(w, {"replaced"}, "done")
  /\ status' = "completed"
  /\ Quiet /\ ApiIdle
  /\ UNCHANGED <<archive, backup, retries, mishaps>>

ProcessFails(w) ==
  /\ Processes(w)
  /\ Step(w, {"working", "packed", "replaced"}, "failing")
  /\ Quiet /\ ApiIdle
  /\ UNCHANGED <<status, archive, backup, retries, mishaps>>

MarkFailed(w) ==
  /\ Processes(w)
  /\ Step(w, {"failing"}, "failed")
  /\ status' = IF There THEN "failed" ELSE status
  /\ Quiet /\ ApiIdle
  /\ UNCHANGED <<archive, backup, retries, mishaps>>

\* The row says failed before the retry is published.
RetryLater(w) ==
  /\ Processes(w)
  /\ Step(w, {"failed"}, "done")
  /\ IF retries[job[w]] < MaxRetries
       THEN Post(job[w]) /\ retries' = [retries EXCEPT ![job[w]] = @ + 1]
       ELSE UNCHANGED <<waiting, retries>>
  /\ ApiIdle
  /\ UNCHANGED <<unacked, job, late, dead, forsaken, status, archive, backup, mishaps>>

-----------------------------------------------------------------------------
\* The API process dies and starts again: the scan finds the failed log, publishes a
\* message for it, and only then commits the row as pending; the commit may fail.
Restart ==
  /\ boot = "up"
  /\ restarts < Restarts
  /\ restarts' = restarts + 1
  /\ boot' = IF status = "failed" /\ deletion # "soft" /\ archive # "none"
               THEN "scanning" ELSE "up"
  /\ deletion' = IF deletion = "request" THEN "failed" ELSE deletion
  /\ UNCHANGED <<status, archive, backup, retries, mishaps>>

ScanPublishes ==
  /\ boot = "scanning"
  /\ boot' = "published"
  /\ Post(FromStartup)
  /\ UNCHANGED <<unacked, job, at, late, dead, forsaken,
                 status, deletion, archive, backup, retries, restarts, mishaps>>

ScanEnds ==
  /\ boot \in {"scanning", "published"}
  /\ boot' = "up"
  /\ \/ boot = "published" /\ There /\ status' = "pending"
     \/ UNCHANGED status
  /\ UNCHANGED brokerVars
  /\ UNCHANGED <<deletion, archive, backup, retries, restarts, mishaps>>

-----------------------------------------------------------------------------
\* The file goes first, whatever works on it...
Unlink(by) ==
  /\ There /\ status # "none" /\ deletion \in {"no", "failed"}
  /\ deletion' = by
  /\ archive' = "none"
  /\ mishaps' = IF \E w \in Workers : Processes(w) /\ at[w] \in Replacing
                  THEN mishaps \cup {"undercut"} ELSE mishaps
  /\ UNCHANGED brokerVars
  /\ UNCHANGED <<status, backup, retries, boot, restarts>>

\* ...on request, or by its age, unless it was analysed by hand...
DeleteFile == boot = "up" /\ Unlink("request")

Expire == Unlink("expiry")

\* ...and the row is marked or deleted after that, or this fails: a request is rolled
\* back, the clean-up goes on with the next log.
DeleteRow ==
  /\ deletion \in {"request", "expiry"}
  /\ \/ deletion = "request" /\ deletion' = "soft" /\ UNCHANGED status
     \/ deletion' = "hard" /\ status' = "gone"
     \/ deletion' = "failed" /\ UNCHANGED status
  /\ UNCHANGED brokerVars
  /\ UNCHANGED <<archive, backup, retries, boot, restarts, mishaps>>

ProcessStep(w) ==
  \/ RowMissing(w) \/ ProcessBegins(w) \/ Pack(w) \/ BackUp(w) \/ BackedUp(w) \/ Move(w) \/ Moved(w) \/ DropBackup(w)
  \/ Restore(w) \/ Complete(w) \/ ProcessFails(w) \/ MarkFailed(w) \/ RetryLater(w)

-----------------------------------------------------------------------------
\* As long as no two tasks work on the log at a time, no half-made backup was moved
\* back and no archive deleted under its replacement, wherever a task dies: a log that
\* is not deleted is in its archive or in its backup, a completed one's archive is the
\* new one, and no retry, redelivery or scan brings the archive of a deleted one back
\* (_replace_original_file, delete_log).
ArchiveKept ==
  mishaps = {} =>
    /\ status # "none" /\ deletion = "no" => {archive, backup} \cap {"uploaded", "processed"} # {}
    /\ status = "completed" /\ deletion = "no" => archive = "processed"
    /\ deletion \in {"soft", "hard"} => archive = "none"

=============================================================================
