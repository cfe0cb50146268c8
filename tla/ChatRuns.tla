------------------------------- MODULE ChatRuns -------------------------------
(***************************************************************************)
(* The run registry of the chat back end (src/app/services/                *)
(* chat_run_service.py) with the requests that start runs, the background  *)
(* task that drives each run to its end, the chat_agent_runs table that    *)
(* mirrors it, and a process that can crash and start again.               *)
(*                                                                         *)
(* An action is what one asyncio task does between two suspension points:  *)
(* the service is single-threaded, so nothing interleaves inside one.  A   *)
(* run is identified by the run_id its request mints; a key stands for an  *)
(* (owner_scope, session_id) pair, the only thing runs are looked up by.   *)
(***************************************************************************)
EXTENDS Naturals, FiniteSets

CONSTANTS
  Runs,         \* run ids a request may mint
  Keys,         \* (owner_scope, session_id) pairs
  AnonKeys,     \* the keys whose owner is an anonymous browser (user is None)
  TaskKinds,    \* the agent kinds ChatRunService drives itself: device, general
  NoRun,        \* what _active_by_owner_session.get returns for no entry
  NoKey,        \* the key of a run id no request has used yet
  MaxCrashes    \* bound: how often the process may die

ASSUME KeyAssumption == AnonKeys \subseteq Keys /\ NoKey \notin Keys
ASSUME RunAssumption == NoRun \notin Runs
ASSUME KindAssumption == TaskKinds \subseteq {"device", "general"}
ASSUME CrashAssumption == MaxCrashes \in Nat

VARIABLES
  kind,         \* ChatRunJob.agent_kind: "device", "general" or an external driver
  key,          \* (ChatRunJob.owner_scope, ChatRunJob.session_id)
  phase,        \* how far the run's request, then its background task, has come
  status,       \* ChatRunJob.status
  cancelEvent,  \* ChatRunJob.cancel_event: a cancel signal was sent
  jobs,         \* the run ids in ChatRunService._jobs
  active,       \* ChatRunService._active_by_owner_session
  brokers,      \* the run ids in ChatRunService._brokers
  expired,      \* terminal jobs finished longer ago than the retention window
  tx,           \* runs whose row is flushed in the request's open transaction
  row,          \* committed chat_agent_runs.status, "none" without a row
  write,        \* what _persist_terminal decided when it read the row
  server,       \* "up" or "down"
  crashes       \* how often the process has died

registryVars == <<jobs, active, brokers, expired>>
runVars      == <<kind, key, phase, status, cancelEvent>>
dbVars       == <<tx, row, write>>
serverVars   == <<server, crashes>>
vars == <<kind, key, phase, status, cancelEvent, jobs, active, brokers, expired,
          tx, row, write, server, crashes>>

-----------------------------------------------------------------------------
Outcomes  == {"succeeded", "failed"}
Terminal  == {"succeeded", "failed", "cancelled", "stale"}

\* "unused": no request has minted the id.  "starting": its request passed the
\* conflict check and awaits the database.  "streaming": the agent loop runs.
\* "unwinding": CancelledError was thrown into the loop, whose finally blocks
\* await.  "persisting" and "writing": inside _persist_terminal, before and
\* after it read the row.  "external": another service drives the run, whose agent
\* has come back once it is "returned".  "unlisted": another service drives a run
\* the registry refused.  "finished": the driver returned.  "lost": the process died
\* with the run.
Phases == {"unused", "starting", "streaming", "unwinding", "persisting", "writing",
           "external", "returned", "unlisted", "finished", "lost"}

TypeOK ==
  /\ kind \in [Runs -> TaskKinds \cup {"external", "none"}]
  /\ key \in [Runs -> Keys \cup {NoKey}]
  /\ phase \in [Runs -> Phases]
  /\ status \in [Runs -> {"none", "running", "lost"} \cup Terminal]
  /\ cancelEvent \in [Runs -> BOOLEAN]
  /\ jobs \subseteq Runs
  /\ active \in [Keys -> Runs \cup {NoRun}]
  /\ brokers \subseteq Runs
  /\ expired \subseteq Runs
  /\ tx \subseteq Runs
  /\ row \in [Runs -> {"none", "running"} \cup Terminal]
  /\ write \in [Runs -> {"none", "insert", "update"}]
  /\ server \in {"up", "down"}
  /\ crashes \in 0..MaxCrashes

Init ==
  /\ kind = [r \in Runs |-> "none"]
  /\ key = [r \in Runs |-> NoKey]
  /\ phase = [r \in Runs |-> "unused"]
  /\ status = [r \in Runs |-> "none"]
  /\ cancelEvent = [r \in Runs |-> FALSE]
  /\ jobs = {}
  /\ active = [k \in Keys |-> NoRun]
  /\ brokers = {}
  /\ expired = {}
  /\ tx = {}
  /\ row = [r \in Runs |-> "none"]
  /\ write = [r \in Runs |-> "none"]
  /\ server = "up"
  /\ crashes = 0

-----------------------------------------------------------------------------
(* The registry.                                                            *)

\* get_active_job_for_session: the pointer, unless its job is gone or terminal.
\* It is asked of the registry as _evict_finished has just left it.
ActiveRun(k, held, pointer) ==
  IF pointer[k] \in held /\ status[pointer[k]] \notin Terminal
  THEN pointer[k] ELSE NoRun

\* _evict_finished drops the expired jobs, and the pointers still at them.
KeptJobs == jobs \ expired
KeptActive == [k \in Keys |-> IF active[k] \in expired THEN NoRun ELSE active[k]]

HasConflict(k) == ActiveRun(k, KeptJobs, KeptActive) # NoRun

\* (mutant of ClearPointer) Pops the key's entry without asking whose it is.
ClearPointerBlindly(r) == active' = [active EXCEPT ![key[r]] = NoRun]

\* The pointer entry is removed only while it is still this run's own.
ClearPointer(r) ==
  active' = [k \in Keys |-> IF k = key[r] /\ active[k] = r THEN NoRun ELSE active[k]]

\* A job enters _jobs and takes its key's pointer, whoever holds it by then.
Register(r, k, held, pointer) ==
  /\ jobs' = held \cup {r}
  /\ active' = [pointer EXCEPT ![k] = r]
  /\ status' = [status EXCEPT ![r] = "running"]

-----------------------------------------------------------------------------
(* Requests: POST /chat/stream ends in start_device_run or start_general_run. *)

Evict ==
  /\ expired' = {}
  /\ brokers' = brokers \ expired

\* The owner has an active run: HTTP 409, after the eviction.
StartRejected(k) ==
  /\ server = "up" /\ HasConflict(k)
  /\ Evict /\ jobs' = KeptJobs /\ active' = KeptActive
  /\ UNCHANGED <<runVars, dbVars, serverVars>>

\* Nothing to persist (anonymous, or remember is off): no await between the
\* check and the registration.
StartDirect(r, k, ak) ==
  /\ server = "up" /\ phase[r] = "unused" /\ ~HasConflict(k)
  /\ Evict /\ Register(r, k, KeptJobs, KeptActive)
  /\ kind' = [kind EXCEPT ![r] = ak]
  /\ key' = [key EXCEPT ![r] = k]
  /\ phase' = [phase EXCEPT ![r] = "streaming"]
  /\ UNCHANGED <<cancelEvent, dbVars, serverVars>>

\* A remembered turn of a signed-in user: the check, then the first await of
\* append_message.
StartCheck(r, k, ak) ==
  /\ server = "up" /\ phase[r] = "unused" /\ k \notin AnonKeys /\ ~HasConflict(k)
  /\ Evict /\ jobs' = KeptJobs /\ active' = KeptActive
  /\ kind' = [kind EXCEPT ![r] = ak]
  /\ key' = [key EXCEPT ![r] = k]
  /\ phase' = [phase EXCEPT ![r] = "starting"]
  /\ UNCHANGED <<status, cancelEvent, dbVars, serverVars>>

\* The row is flushed, or the exception is swallowed; then the job is
\* registered and its task created without looking at the registry again.
StartRegister(r) ==
  /\ server = "up" /\ phase[r] = "starting"
  /\ Register(r, key[r], jobs, active)
  /\ phase' = [phase EXCEPT ![r] = "streaming"]
  /\ tx' = tx \cup {r} \/ tx' = tx
  /\ UNCHANGED <<kind, key, cancelEvent, brokers, expired, row, write, serverVars>>

\* `await db.commit()` of the request, which may fail with a warning.
RequestCommit(r) ==
  /\ server = "up" /\ r \in tx
  /\ tx' = tx \ {r}
  /\ row' = [row EXCEPT ![r] = "running"] \/ row' = row
  /\ UNCHANGED <<runVars, registryVars, write, serverVars>>

-----------------------------------------------------------------------------
(* The background task of a device or general run.                          *)

\* DeviceAgent.run_stream registers its PermissionBroker once it has one, an agent of
\* another service the broker of its questions, whether or not its run is registered.
RegisterBroker(r) ==
  /\ server = "up"
  /\ \/ phase[r] = "streaming" /\ kind[r] = "device" /\ ~cancelEvent[r]
     \/ phase[r] \in {"external", "unlisted"}
  /\ brokers' = brokers \cup {r}
  /\ UNCHANGED <<runVars, jobs, active, expired, dbVars, serverVars>>

\* (mutant of Settle) The agent's finally block forgets the broker.
SettleKeepingBroker(r, st) ==
  /\ status' = [status EXCEPT ![r] = st]
  /\ phase' = [phase EXCEPT ![r] = "persisting"]
  /\ UNCHANGED <<kind, key, cancelEvent, registryVars, dbVars, serverVars>>

\* mark_status, on the way into _persist_terminal: the agent's finally block has
\* already closed and unregistered the broker.
Settle(r, st) ==
  /\ brokers' = brokers \ {r}
  /\ status' = [status EXCEPT ![r] = st]
  /\ phase' = [phase EXCEPT ![r] = "persisting"]
  /\ UNCHANGED <<kind, key, cancelEvent, jobs, active, expired, dbVars, serverVars>>

\* (mutant of StreamEnds) The type of the last event is taken for a status.
StreamEndsWithEventType(r) ==
  /\ server = "up" /\ phase[r] = "streaming" /\ ~cancelEvent[r]
  /\ \E st \in {"done", "error"} : Settle(r, st)

\* The event stream runs dry.  From its last event to mark_status nothing
\* awaits, and a cancel sent before that is thrown at the stream's own await.
StreamEnds(r) ==
  /\ server = "up" /\ phase[r] = "streaming" /\ ~cancelEvent[r]
  /\ \E st \in Outcomes : Settle(r, st)

\* asyncio throws CancelledError into the stream; its finally blocks await.
CancelDelivered(r) ==
  /\ server = "up" /\ phase[r] = "streaming" /\ cancelEvent[r]
  /\ phase' = [phase EXCEPT ![r] = "unwinding"]
  /\ UNCHANGED <<kind, key, status, cancelEvent, registryVars, dbVars, serverVars>>

\* (mutant of StreamUnwound) The unwinding loop's last words decide the outcome.
StreamUnwoundAsEnded(r) ==
  /\ server = "up" /\ phase[r] = "unwinding"
  /\ \E st \in Outcomes : Settle(r, st)

StreamUnwound(r) ==
  /\ server = "up" /\ phase[r] = "unwinding"
  /\ Settle(r, "cancelled")

\* _persist_terminal looks for the row in a session of its own, which sees only
\* what is committed, and chooses between an INSERT and an UPDATE.
PersistRead(r) ==
  /\ server = "up" /\ phase[r] = "persisting"
  /\ write' = [write EXCEPT ![r] = IF row[r] = "none" THEN "insert" ELSE "update"]
  /\ phase' = [phase EXCEPT ![r] = "writing"]
  /\ UNCHANGED <<kind, key, status, cancelEvent, registryVars, tx, row, serverVars>>

\* After _persist_terminal returns: the done frame, and the pointer is cleared.
Finish(r) ==
  /\ phase' = [phase EXCEPT ![r] = "finished"]
  /\ write' = [write EXCEPT ![r] = "none"]
  /\ ClearPointer(r)
  /\ UNCHANGED <<kind, key, status, cancelEvent, jobs, brokers, expired, tx, serverVars>>

\* (mutant of PersistWrite) An INSERT that waits for nobody: the table has no
\* primary key on run_id.
PersistWriteAtOnce(r) ==
  /\ server = "up" /\ phase[r] = "writing"
  /\ row' = [row EXCEPT ![r] = status[r]]
  /\ Finish(r)

\* (mutant of PersistWrite) The rejected INSERT raises out of the driver, which
\* never reaches its end.
PersistWriteRaising(r) ==
  /\ server = "up" /\ phase[r] = "writing"
  /\ write[r] = "insert" => r \notin tx /\ row[r] = "none"
  /\ row' = [row EXCEPT ![r] = status[r]]
  /\ Finish(r)

\* An UPDATE succeeds.  An INSERT waits for the transaction that holds the same
\* primary key, and is rejected once that transaction has committed.
PersistWrite(r) ==
  /\ server = "up" /\ phase[r] = "writing"
  /\ write[r] = "insert" => r \notin tx
  /\ row' = IF write[r] = "insert" /\ row[r] # "none"
            THEN row ELSE [row EXCEPT ![r] = status[r]]
  /\ Finish(r)

\* Any other database error is logged and swallowed as well.
PersistFails(r) ==
  /\ server = "up" /\ phase[r] \in {"persisting", "writing"}
  /\ row' = row
  /\ Finish(r)

-----------------------------------------------------------------------------
(* Runs another service drives (log analysis, project expert, package search). *)

RegisterExternal(r, k) ==
  /\ server = "up" /\ phase[r] = "unused" /\ ~HasConflict(k)
  /\ Evict /\ Register(r, k, KeptJobs, KeptActive)
  /\ kind' = [kind EXCEPT ![r] = "external"]
  /\ key' = [key EXCEPT ![r] = k]
  /\ phase' = [phase EXCEPT ![r] = "external"]
  /\ UNCHANGED <<cancelEvent, dbVars, serverVars>>

\* register_external_job answers 409: the driver logs that and goes on, with a run
\* nobody finds in the registry.  Its end changes nothing there either:
\* mark_external_terminal returns at once for a run it does not know.
RegisterRefused(r, k) ==
  /\ server = "up" /\ phase[r] = "unused" /\ HasConflict(k)
  /\ Evict /\ jobs' = KeptJobs /\ active' = KeptActive
  /\ kind' = [kind EXCEPT ![r] = "external"]
  /\ key' = [key EXCEPT ![r] = k]
  /\ phase' = [phase EXCEPT ![r] = "unlisted"]
  /\ UNCHANGED <<status, cancelEvent, dbVars, serverVars>>

\* A question of its own is over (package search), or the agent's finally block ran.
UnregisterBroker(r) ==
  /\ server = "up" /\ phase[r] \in {"external", "unlisted"} /\ r \in brokers
  /\ brokers' = brokers \ {r}
  /\ UNCHANGED <<runVars, jobs, active, expired, dbVars, serverVars>>

\* The agent comes back to its driver.  Its finally block unregisters the broker, but
\* an agent whose SDK options cannot be built never enters that block.
AgentReturns(r) ==
  /\ server = "up" /\ phase[r] = "external"
  /\ brokers' \in {brokers, brokers \ {r}}
  /\ phase' = [phase EXCEPT ![r] = "returned"]
  /\ UNCHANGED <<kind, key, status, cancelEvent, jobs, active, expired, dbVars, serverVars>>

\* The driver reports the end of its job; a cancelled job that still produced an
\* answer is reported as succeeded.  The broker table is left alone.
MarkExternalTerminal(r) ==
  /\ server = "up" /\ phase[r] = "returned"
  /\ \E st \in Outcomes \cup {"cancelled"} : status' = [status EXCEPT ![r] = st]
  /\ ClearPointer(r)
  /\ phase' = [phase EXCEPT ![r] = "finished"]
  /\ UNCHANGED <<kind, key, cancelEvent, jobs, brokers, expired, dbVars, serverVars>>

-----------------------------------------------------------------------------
(* Cancel, retention, crash and restart.                                    *)

\* (mutant of Cancel) Says yes to a run that is already over.
CancelAnyJob(r) ==
  /\ server = "up" /\ r \in jobs /\ ~cancelEvent[r]
  /\ cancelEvent' = [cancelEvent EXCEPT ![r] = TRUE]
  /\ UNCHANGED <<kind, key, phase, status, registryVars, dbVars, serverVars>>

\* POST /chat/runs/{run_id}/cancel, or a clarification that timed out: answers
\* True and signals the task (or the external driver) of a non-terminal job.
Cancel(r) ==
  /\ server = "up" /\ r \in jobs /\ status[r] \notin Terminal /\ ~cancelEvent[r]
  /\ cancelEvent' = [cancelEvent EXCEPT ![r] = TRUE]
  /\ UNCHANGED <<kind, key, phase, status, registryVars, dbVars, serverVars>>

\* The retention window of a terminal job passes.
RetentionPasses(r) ==
  /\ server = "up" /\ r \in jobs \ expired /\ status[r] \in Terminal
  /\ expired' = expired \cup {r}
  /\ UNCHANGED <<runVars, jobs, active, brokers, dbVars, serverVars>>

\* The process dies: memory is gone, open transactions are rolled back.
Crash ==
  /\ server = "up" /\ crashes < MaxCrashes
  /\ server' = "down" /\ crashes' = crashes + 1
  /\ phase' = [r \in Runs |-> IF phase[r] \in {"unused", "finished"} THEN phase[r] ELSE "lost"]
  /\ status' = [r \in Runs |-> IF status[r] = "running" THEN "lost" ELSE status[r]]
  /\ jobs' = {} /\ brokers' = {} /\ expired' = {} /\ tx' = {}
  /\ active' = [k \in Keys |-> NoRun]
  /\ write' = [r \in Runs |-> "none"]
  /\ UNCHANGED <<kind, key, cancelEvent, row>>

\* The UPDATE the start-up code executes in a session of get_session().
MarkStale(rows) == [r \in Runs |-> IF rows[r] = "running" THEN "stale" ELSE rows[r]]

\* `break` leaves the session generator suspended at its yield.  Closing it
\* raises GeneratorExit there, which skips the commit: session.close() rolls back.
LeaveSession(before, pending) == before

Restart ==
  /\ server = "down" /\ server' = "up"
  /\ row' = LeaveSession(row, MarkStale(row))
  /\ UNCHANGED <<runVars, registryVars, tx, write, crashes>>

-----------------------------------------------------------------------------
Request(r) ==
  \/ \E k \in Keys, ak \in TaskKinds : StartDirect(r, k, ak) \/ StartCheck(r, k, ak)
  \/ \E k \in Keys : RegisterExternal(r, k) \/ RegisterRefused(r, k)
  \/ Cancel(r)
  \/ RetentionPasses(r)

\* The steps the event loop, the database and the agents bring about.
Progress(r) ==
  \/ StartRegister(r)
  \/ RequestCommit(r)
  \/ StreamEnds(r)
  \/ CancelDelivered(r)
  \/ StreamUnwound(r)
  \/ PersistRead(r)
  \/ PersistWrite(r)
  \/ AgentReturns(r)
  \/ MarkExternalTerminal(r)

Next ==
  \/ \E r \in Runs : Request(r) \/ Progress(r) \/ PersistFails(r)
                 \/ RegisterBroker(r) \/ UnregisterBroker(r)
  \/ \E k \in Keys : StartRejected(k)
  \/ Crash
  \/ Restart

Spec == Init /\ [][Next]_vars

\* The event loop runs every ready task, the database answers, an agent's stream
\* ends.  Nobody is obliged to send a request or a cancel.
Fairness ==
  /\ WF_vars(Restart)
  /\ \A r \in Runs : WF_vars(Progress(r))

FairSpec == Spec /\ Fairness

-----------------------------------------------------------------------------
(* Properties.                                                              *)

\* cancel() answers True for a running device or general run only if that run
\* ends cancelled: neither the agent's own last event nor an error raised while
\* its loop unwinds turns the answer the user was given into a lie.
CancelWins ==
  \A r \in Runs : kind[r] \in TaskKinds /\ cancelEvent[r] /\ status[r] \in Terminal
                    => status[r] = "cancelled"

\* A running run of an anonymous owner is the one its session routes to, so there
\* is one at most: check and registration are one step, and a run that is over
\* but still writing to the database never takes its successor's pointer away.
AnonymousExclusive ==
  \A r \in Runs : key[r] \in AnonKeys /\ status[r] = "running" => active[key[r]] = r

\* A run another service drives although the registry refused it.
Unlisted(r) == kind[r] = "external" /\ status[r] = "none"

\* The pointer a session's owner is routed by never outlives the run: it names a
\* registered run of that very key whose driver has not returned.  A running run is
\* always registered, so it can be watched, cancelled and marked terminal.  And in the
\* broker table, by which an answer to a permission card or a question is routed, an
\* entry of a device run is gone once the run's outcome is decided, and an entry of
\* another service's run goes with the run's registration at the latest.  Only a run
\* that was refused can leave an entry that no eviction removes.
RegistrySound ==
  /\ \A k \in Keys : active[k] # NoRun =>
       /\ active[k] \in jobs /\ key[active[k]] = k
       /\ phase[active[k]] \notin {"finished", "lost"}
  /\ \A r \in Runs : status[r] = "running" => r \in jobs
  /\ \A r \in brokers :
       /\ kind[r] # "general"
       /\ kind[r] = "device" => status[r] = "running"
       /\ r \in jobs \/ Unlisted(r)

\* What a run's row says once it is final stays: neither the late commit of the
\* request that started the run nor a second writer reopens it.
RowNeverReopens ==
  [][\A r \in Runs : row[r] \in Terminal => row'[r] = row[r]]_row

\* Every run that was registered is eventually over, its driver returned or lost
\* with the process: with RegistrySound, its session accepts a new message.
RunSettles ==
  \A r \in Runs : status[r] = "running" ~> phase[r] \in {"finished", "lost"}

\* The registry implements the life of a run that RunLifecycle specifies, its
\* liveness included.  The cancel of an external run is only a request.
Lifecycle == INSTANCE RunLifecycle WITH
  st    <- [r \in Runs |-> IF status[r] = "none" THEN "idle" ELSE status[r]],
  asked <- {r \in Runs : kind[r] \in TaskKinds /\ cancelEvent[r]}

\* An accepted cancel, an end that is never revised, and an end that comes.
RunsAreLifecycles == Lifecycle!FairSpec

\* chat-agent-session-runs/spec.md forbids several active runs of one
\* (owner_scope, session_id).
OneActiveRun ==
  \A r1, r2 \in Runs :
    key[r1] = key[r2] /\ status[r1] = "running" /\ status[r2] = "running" => r1 = r2

\* Between the conflict check of a request and its registration no other run of its
\* session is running.
StartsAlone ==
  \A r1, r2 \in Runs : phase[r1] = "starting" /\ status[r2] = "running" => key[r1] # key[r2]

\* chat-agent-session-runs/spec.md: once the service has started, no row of a
\* run that the previous process took with it says running.
InterruptedRunsAreStale ==
  server = "up" => \A r \in Runs : phase[r] = "lost" => row[r] # "running"

\* A row that says running of a run the process took with it says so for ever: no later
\* start, request or write comes to it.
InterruptedRowsStay ==
  [][\A r \in Runs : phase[r] = "lost" /\ row[r] = "running" =>
       phase'[r] = "lost" /\ row'[r] = "running"]_vars

=============================================================================
