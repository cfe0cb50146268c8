---------------------------- MODULE WorkspaceJobs ----------------------------
(***************************************************************************)
(* The chat services that run an agent over a prepared workspace: log      *)
(* analysis, project expert and package search (src/app/services/          *)
(* *_chat_service.py).  Each keeps a table _jobs with one entry per        *)
(* session, drives a job by a background task, lets any number of SSE      *)
(* requests read its events, and projects it into the run registry (a      *)
(* "shadow") and into the chat_agent_runs table.                           *)
(*                                                                         *)
(* A turn is one POST of a chat stream; the job it may start has its name. *)
(* An action is what happens between two suspension points of the event    *)
(* loop; the agent itself works in a thread, which only appends events.    *)
(***************************************************************************)
EXTENDS Naturals, FiniteSets

CONSTANTS
  Turns,        \* stream requests, and the jobs they may start
  Services,     \* the chat services, each with a job table of its own
  Sessions,     \* session ids (of one owner)
  Uploads,      \* the turns that carry files
  NoJob,        \* what _jobs.get returns for a session without a job
  Packer        \* the service that also builds packages

ASSUME JobAssumption == NoJob \notin Turns
ASSUME UploadAssumption == Uploads \subseteq Turns

VARIABLES
  turn,         \* how far the stream request has come
  svc, sess,    \* the service and the session it addresses
  watch,        \* the job whose events it sends
  unsent,       \* sent < len(job.events): it has events yet to send
  table,        \* _jobs of each service
  job,          \* how far a job has come
  tail,         \* AgentJob.events[-1]: "final" is a done, cancelled or error event
  cancel,       \* AgentJob.cancel_requested
  result,       \* what the job ended with, as _finalize_chat_run maps it
  pointer,      \* ChatRunService._active_by_owner_session of the owner
  shadow,       \* the job's ChatRunJob in the registry
  row,          \* its committed chat_agent_runs.status
  dbLost        \* jobs whose last row write failed (logged and swallowed)

turnVars == <<turn, svc, sess, watch, unsent>>
jobVars  == <<table, job, tail, cancel, result>>
runVars  == <<pointer, shadow, row, dbLost>>
workVars == <<turn, svc, sess, watch, unsent, table, job, tail, cancel, result, pointer,
              shadow, row, dbLost>>

-----------------------------------------------------------------------------
\* "begun": past the eviction, at its first yield.  "preparing": project check,
\* upload, unpacking.  "registering": its job is in the table and its row is being
\* inserted.  "ended": it sent what there was.  "refused": it answered an error.
TurnPhases == {"unused", "begun", "preparing", "registering", "watching",
               "ended", "refused", "disconnected"}

\* "waiting": in the table, its task not yet created.  "closing": done, its row
\* being brought up to date.
JobPhases == {"none", "waiting", "running", "persisting", "closing", "over"}

Results == {"succeeded", "cancelled", "failed"}

WorkTypeOK ==
  /\ turn \in [Turns -> TurnPhases]
  /\ svc \in [Turns -> Services] /\ sess \in [Turns -> Sessions]
  /\ watch \in [Turns -> Turns \cup {NoJob}]
  /\ unsent \in [Turns -> BOOLEAN]
  /\ table \in [Services -> [Sessions -> Turns \cup {NoJob}]]
  /\ job \in [Turns -> JobPhases]
  /\ tail \in [Turns -> {"none", "open", "final"}]
  /\ cancel \in [Turns -> BOOLEAN]
  /\ result \in [Turns -> Results \cup {"none"}]
  /\ pointer \in [Sessions -> Turns \cup {NoJob}]
  /\ shadow \in [Turns -> {"none", "refused", "running", "terminal"}]
  /\ row \in [Turns -> {"none", "running"} \cup Results]
  /\ dbLost \subseteq Turns

WorkInit ==
  /\ turn = [t \in Turns |-> "unused"]
  /\ svc \in [Turns -> Services] /\ sess \in [Turns -> Sessions]
  /\ watch = [t \in Turns |-> NoJob]
  /\ unsent = [t \in Turns |-> FALSE]
  /\ table = [v \in Services |-> [s \in Sessions |-> NoJob]]
  /\ job = [t \in Turns |-> "none"]
  /\ tail = [t \in Turns |-> "none"]
  /\ cancel = [t \in Turns |-> FALSE]
  /\ result = [t \in Turns |-> "none"]
  /\ pointer = [s \in Sessions |-> NoJob]
  /\ shadow = [t \in Turns |-> "none"]
  /\ row = [t \in Turns |-> "none"]
  /\ dbLost = {}

-----------------------------------------------------------------------------
(* A stream request.                                                        *)

\* AgentJob.done
Done(j) == job[j] \in {"closing", "over"}

\* AgentJob.input_manifest: the job has files to package.
Packages(t) == t \in Uploads /\ svc[t] = Packer

\* The job _jobs has for the turn's session.
Current(t) == table[svc[t]][sess[t]]

\* Events are appended to the jobs js: those who watch one have more to send.
Append(js, kind) ==
  /\ tail' = [j \in Turns |-> IF j \in js THEN kind ELSE tail[j]]
  /\ unsent' = [t \in Turns |-> unsent[t] \/ watch[t] \in js]

\* _evict_old_jobs drops the jobs that were done half an hour ago; then the first
\* yield, the session frame.
Begin(t) ==
  /\ turn[t] = "unused"
  /\ turn' = [turn EXCEPT ![t] = "begun"]
  /\ \E old \in SUBSET {j \in Turns : Done(j)} :
       table' = [table EXCEPT ![svc[t]] =
                   [s \in Sessions |-> IF @[s] \in old THEN NoJob ELSE @[s]]]
  /\ UNCHANGED <<svc, sess, watch, unsent, job, tail, cancel, result, runVars>>

\* The request reads a job from its first event on.
Subscribe(t, j) ==
  /\ turn' = [turn EXCEPT ![t] = "watching"]
  /\ watch' = [watch EXCEPT ![t] = j]
  /\ unsent' = [unsent EXCEPT ![t] = TRUE]

\* A job is in flight: the request reads its events, whatever it asked.
Attach(t) ==
  /\ turn[t] = "begun" /\ Current(t) # NoJob /\ ~Done(Current(t))
  /\ Subscribe(t, Current(t))
  /\ UNCHANGED <<svc, sess, jobVars, runVars>>

\* New files for a running log analysis, or another project for a running expert.
Refuse(t) ==
  /\ turn[t] = "begun" /\ Current(t) # NoJob /\ ~Done(Current(t))
  /\ svc[t] # Packer
  /\ turn' = [turn EXCEPT ![t] = "refused"]
  /\ UNCHANGED <<svc, sess, watch, unsent, jobVars, runVars>>

\* The job is over and nothing is asked: its events are replayed.
Replay(t) ==
  /\ turn[t] = "begun" /\ Current(t) # NoJob /\ Done(Current(t))
  /\ Subscribe(t, Current(t))
  /\ UNCHANGED <<svc, sess, jobVars, runVars>>

\* No job in the way: the workspace is prepared, across many awaits.
Prepare(t) ==
  /\ turn[t] = "begun" /\ (Current(t) # NoJob => Done(Current(t)))
  /\ turn' = [turn EXCEPT ![t] = "preparing"]
  /\ UNCHANGED <<svc, sess, watch, unsent, jobVars, runVars>>

\* Unknown project, unreadable archive, no saved context: an error frame.
PrepareFails(t) ==
  /\ turn[t] = "preparing"
  /\ turn' = [turn EXCEPT ![t] = "refused"]
  /\ UNCHANGED <<svc, sess, watch, unsent, jobVars, runVars>>

\* (mutant of Shadow) Takes the pointer over instead of answering 409.
ShadowTakingOver(t) ==
  /\ pointer' = [pointer EXCEPT ![sess[t]] = t]
  /\ shadow' = [shadow EXCEPT ![t] = "running"]

\* register_external_job: a session that is taken answers 409, which is only
\* logged; the job then runs without a shadow.
Shadow(t) ==
  IF pointer[sess[t]] = NoJob
  THEN /\ pointer' = [pointer EXCEPT ![sess[t]] = t]
       /\ shadow' = [shadow EXCEPT ![t] = "running"]
  ELSE /\ shadow' = [shadow EXCEPT ![t] = "refused"]
       /\ UNCHANGED pointer

\* The job enters the table, over whatever the session has there by now, with its
\* session event, and then the registry.
Enter(t, phase) ==
  /\ turn[t] = "preparing"
  /\ table' = [table EXCEPT ![svc[t]][sess[t]] = t]
  /\ job' = [job EXCEPT ![t] = phase]
  /\ tail' = [tail EXCEPT ![t] = "open"]
  /\ Shadow(t)
  /\ turn' = [turn EXCEPT ![t] = "registering"]
  /\ UNCHANGED <<svc, sess, watch, unsent, cancel, result, row, dbLost>>

\* (mutant of Install) The task is created before the run is registered.
InstallRunning(t) == Enter(t, "running")

\* The task is created only after the INSERT of the row, which is awaited.
Install(t) == Enter(t, "waiting")

\* The row is committed, or its failure logged; the task is created.
Launch(t) ==
  /\ turn[t] = "registering"
  /\ row' = [row EXCEPT ![t] = "running"] \/ row' = row
  /\ job' = [job EXCEPT ![t] = IF @ = "waiting" THEN "running" ELSE @]
  /\ Subscribe(t, t)
  /\ UNCHANGED <<svc, sess, table, tail, cancel, result, pointer, shadow,
                 dbLost>>

\* The buffered events one by one, up to the one after which the loop of
\* _subscribe finds no further event.
Send(t) ==
  /\ turn[t] = "watching" /\ unsent[t]
  /\ unsent' = [unsent EXCEPT ![t] = FALSE]
  /\ UNCHANGED <<turn, svc, sess, watch, jobVars, runVars>>

\* (mutant of Leave) Returns once the job is done, with events still unsent.
LeaveAtOnce(t) ==
  /\ turn[t] = "watching" /\ Done(watch[t])
  /\ turn' = [turn EXCEPT ![t] = "ended"]
  /\ UNCHANGED <<svc, sess, watch, unsent, jobVars, runVars>>

\* (mutant of Leave) Polls on for a done event when the job failed.
LeaveOnSuccess(t) ==
  /\ turn[t] = "watching" /\ ~unsent[t] /\ Done(watch[t]) /\ result[watch[t]] # "failed"
  /\ turn' = [turn EXCEPT ![t] = "ended"]
  /\ UNCHANGED <<svc, sess, watch, unsent, jobVars, runVars>>

\* Nothing more to send and the job is done: the generator returns.
Leave(t) ==
  /\ turn[t] = "watching" /\ ~unsent[t] /\ Done(watch[t])
  /\ turn' = [turn EXCEPT ![t] = "ended"]
  /\ UNCHANGED <<svc, sess, watch, unsent, jobVars, runVars>>

\* The client goes away: CancelledError at the generator's await.  Thrown into
\* the INSERT, it may find the row committed or not; the task is not created.
Disconnect(t) ==
  /\ turn[t] \in {"begun", "preparing", "registering", "watching"}
  /\ turn' = [turn EXCEPT ![t] = "disconnected"]
  /\ watch' = [watch EXCEPT ![t] = NoJob]
  /\ unsent' = [unsent EXCEPT ![t] = FALSE]
  /\ \/ UNCHANGED row
     \/ turn[t] = "registering" /\ row' = [row EXCEPT ![t] = "running"]
  /\ UNCHANGED <<svc, sess, jobVars, pointer, shadow, dbLost>>

-----------------------------------------------------------------------------
(* The background task.                                                     *)

\* The agent's thread appends an event.
Emit(t) ==
  /\ job[t] = "running"
  /\ Append({t}, "open")
  /\ UNCHANGED <<turn, svc, sess, watch, table, job, cancel, result, runVars>>

\* mark_external_terminal clears the pointer only while it is this run's.
ReleaseShadow(t) ==
  /\ shadow' = [shadow EXCEPT ![t] = IF @ = "running" THEN "terminal" ELSE @]
  /\ pointer' = [s \in Sessions |-> IF pointer[s] = t THEN NoJob ELSE pointer[s]]

\* The jobs that cancel(session_id) of service v signals: the one in the table,
\* unless it is done or was signalled before.
Signalled(v, s) == {j \in Turns : table[v][s] = j /\ ~Done(j) /\ ~cancel[j]}

\* The jobs js are told that they are cancelled.
Signal(js) == cancel' = [j \in Turns |-> cancel[j] \/ j \in js]

\* The last event is appended, the job is done and its shadow terminal, before
\* the first await of _finalize_chat_run; the jobs hit are cancelled on the way.
Ends(t, r, hit) ==
  /\ job' = [job EXCEPT ![t] = "closing"]
  /\ result' = [result EXCEPT ![t] = r]
  /\ Signal(hit)
  /\ tail' = [j \in Turns |-> IF j = t THEN "final" ELSE IF j \in hit THEN "open" ELSE tail[j]]
  /\ unsent' = [w \in Turns |-> unsent[w] \/ watch[w] \in hit \cup {t}]
  /\ ReleaseShadow(t)
  /\ UNCHANGED <<turn, svc, sess, watch, table, row, dbLost>>

\* The agent has returned: its answer (or its note that it was cancelled) is
\* persisted, in a session of the job's own.
AgentReturns(t) ==
  /\ job[t] = "running" /\ ~Packages(t)
  /\ \E r \in Results \ {"failed"} :
       /\ r = "cancelled" => cancel[t]
       /\ result' = [result EXCEPT ![t] = r]
  /\ job' = [job EXCEPT ![t] = "persisting"]
  /\ UNCHANGED <<turnVars, table, tail, cancel, runVars>>

\* The agent raised.
AgentFails(t) ==
  /\ job[t] = "running" /\ ~Packages(t)
  /\ Ends(t, "failed", {})

\* Persisted, or the failure logged; a bug fix may have been dispatched.
Persisted(t) ==
  /\ job[t] = "persisting"
  /\ Ends(t, result[t], {})

\* The row takes the outcome if there is one; a failure is logged.
CloseRow(t) ==
  /\ job[t] = "closing"
  /\ job' = [job EXCEPT ![t] = "over"]
  /\ \/ /\ row' = [row EXCEPT ![t] = IF @ = "none" THEN @ ELSE result[t]]
        /\ UNCHANGED dbLost
     \/ dbLost' = dbLost \cup {t} /\ UNCHANGED row
  /\ UNCHANGED <<turnVars, table, tail, cancel, result, pointer, shadow>>

\* cancel(session_id), called by its endpoint, by the agent of a question that
\* timed out, or as the cancel_callback of the shadow: all name the session.
Cancel(v, s) ==
  /\ Signalled(v, s) # {}
  /\ Signal(Signalled(v, s)) /\ Append(Signalled(v, s), "open")
  /\ UNCHANGED <<turn, svc, sess, watch, table, job, result, runVars>>

-----------------------------------------------------------------------------
\* The steps of a request that the event loop and the database bring about.
Serve(t) ==
  \/ Attach(t)
  \/ Replay(t)
  \/ Prepare(t)
  \/ Install(t)
  \/ Launch(t)
  \/ Send(t)
  \/ Leave(t)

\* The steps of a job without a package.
Work(t) ==
  \/ AgentReturns(t)
  \/ Persisted(t)
  \/ CloseRow(t)

\* What may also happen, and need not.
Chance(t) ==
  \/ Begin(t)
  \/ Refuse(t)
  \/ PrepareFails(t)
  \/ Disconnect(t)
  \/ Emit(t)
  \/ AgentFails(t)

WorkNext ==
  \/ \E t \in Turns : Serve(t) \/ Work(t) \/ Chance(t)
  \/ \E v \in Services, s \in Sessions : Cancel(v, s)

\* Requests that have come are served and agents return; nobody has to come,
\* to cancel or to go.
WorkFairness == \A t \in Turns : WF_workVars(Serve(t)) /\ WF_workVars(Work(t))

WorkSpec == WorkInit /\ [][WorkNext]_workVars /\ WorkFairness

-----------------------------------------------------------------------------
(* Properties.                                                              *)

\* A stream that ends by itself has sent everything up to the job's last event,
\* its done, cancelled or error frame, and nothing comes after that frame: the
\* job is marked done after the frame is appended, and a cancel that comes later
\* appends nothing.
WatchersSeeTheEnd ==
  \A t \in Turns : turn[t] = "ended" => ~unsent[t] /\ tail[watch[t]] = "final"

\* A job that is over has left no mirror behind that says it runs: its shadow is
\* terminal and its row, if it has one, has its outcome, unless that write failed.  So the row is
\* inserted before the task that will update it exists.
MirrorsSettle ==
  \A t \in Turns : job[t] = "over" =>
    /\ shadow[t] # "running"
    /\ row[t] \in {"none", result[t]} \/ t \in dbLost

\* However many jobs a session's tables have seen, the registry holds at most one
\* running shadow for the session, the one its pointer names, and never that of a
\* job that is done.
ShadowsExclusive ==
  /\ \A t \in Turns : shadow[t] = "running" => pointer[sess[t]] = t /\ ~Done(t)
  /\ \A s \in Sessions : pointer[s] \in Turns => shadow[pointer[s]] = "running"

\* A turn is busy while its job works, or while it watches one that has started.
Busy(t) ==
  \/ job[t] \in {"running", "persisting", "closing"}
  \/ turn[t] = "watching" /\ job[watch[t]] # "waiting"

\* Every job whose task exists comes to its end, with or without a client, and
\* everyone who watches it is then sent home.
JobsAndStreamsEnd == \A t \in Turns : Busy(t) ~> ~Busy(t)

\* project-expert-agent/spec.md and the docstring of stream(): a client that
\* disconnects does not cancel the job, which runs to completion or until it is
\* cancelled.
JobRunsToCompletion ==
  \A t \in Turns : job[t] = "waiting" ~> job[t] = "over" \/ cancel[t]

\* A job whose task was not created has its request still inserting its row, or had a
\* client that left while it did.
OnlyADisconnectStrands ==
  \A t \in Turns : job[t] = "waiting" => turn[t] \in {"registering", "disconnected"}

\* Such a job stays as it is while the process lives: no cancel, no other turn and no end of
\* another job gives it a task, or frees the session that its shadow holds in the registry.
StrandedForGood ==
  [][\A t \in Turns : job[t] = "waiting" /\ turn[t] = "disconnected" =>
       /\ job'[t] = "waiting" /\ turn'[t] = "disconnected"
       /\ shadow[t] = "running" => pointer'[sess'[t]] = t /\ shadow'[t] = "running"]_workVars

=============================================================================
