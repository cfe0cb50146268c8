# A TLA+ model of the Raven AI service

RavenAIService is a FastAPI back end (`src/app`) that runs AI agents for a web
client: chats with a connected device, general questions, log analysis, project
questions and package search, together with a Celery pipeline that unpacks logs,
analyses them and opens merge requests with fixes.  This directory holds TLA+
modules of the parts of it in which order, failure and concurrency decide whether
it is right, the TLC runs that check them and the proofs TLAPS checks.

## 1. The system

| Part | State it keeps | Operations | What makes it correct |
|---|---|---|---|
| **Run registry** `services/chat_run_service.py` | `_jobs`, `_active_by_owner_session`, `_brokers`, one asyncio task per run, rows of `chat_agent_runs` | start device/general run, register/mark external run, cancel, evict, persist | one active run per session, an accepted cancel decides the outcome, pointers and brokers never outlive their run, a final row stays final, every run ends |
| **Run stream** same file, `api/ai_chat.py` | the buffer `ChatRunJob.events`, an index per SSE connection | append with a cap, replay, poll, leave | frames in order, from the first one, a connection leaves after the last event and does leave |
| **HITL broker** `agents/hitl_broker.py`, `agents/clarification.py`, `device_agent/permissions.py` | futures by request id | open, resolve from any thread, cancel, close, time out | one accepted answer per card, accepted means used, nobody waits for ever |
| **AI chat API** `api/ai_chat.py` | none of its own; an open database transaction per request | create-or-subscribe, resolve, snapshot, stream, cancel | the caller's view agrees with the registry's |
| **Start-up** `main.py`, `models/database.py` | rows left by the previous process | mark interrupted runs stale, retry failed logs | no row says running for a run that is gone |
| **Device link** `services/device_link_service.py`, `api/device_link.py` | device table, pending prompts, one lock, a WebSocket per device | register, heartbeat, prompt, result, disconnect, delete | a connected device is reachable, a prompt gets one result and its table entry goes |
| **Workspace jobs** `log_analysis_`, `project_expert_`, `package_search_chat_service.py` | `_jobs` by session, a thread per agent, a shadow in the run registry | stream (create or subscribe), cancel, result, evict | a job in the table ends; job and shadow agree |
| **Model router** `services/model_router.py`, `agents/routed_query.py` | breaker, probe token and outcome window in Redis; attempts of a query | candidates, record outcome, attempt, fail over | a consumer hears one endpoint, no attempt outlives its call unnoticed, a primary that has recovered is used again |
| **Log pipeline** `services/log_service.py`, `tasks/log_processing.py`, `tasks/cleanup_tasks.py` | `log_record.status`, files on disk, Celery messages | upload, process, retry, scan, delete | processing ends, and the archive survives its replacement |
| **Analysis and bug fix** `tasks/ai_analysis.py`, `tasks/bug_fix.py`, `services/bug_fix_service.py`, `api/bug_fixes.py` | `bug_fix_task`, merge requests, Celery messages | dispatch, run, finalize, retry | a failure is retried once, a repair that was enqueued ends |
| **Trace buffer** `services/agent_trace_redis.py` | a bounded Redis list per task | append, read after a sequence number | a reader sees each event once |
| **Package plan and build** `services/full_package_service.py` | the session's workspace, a draft, a confirmed plan | classify, ask, confirm, validate, build | what is packaged is what the user confirmed, and of a whole package no more than its one payload |
| **Package repository** `services/raven_package_service.py`, `api/packages.py` | a directory of files, an index in one JSON file, markers of unfinished uploads, a lock of threads and processes | upload, batch, publish, scan, list, search, edit, delete | entries describe complete files; what a writer was told stays true |
| History, sharing; users, projects, settings, skills, metrics; front end; `model-sentinel` | rows, files | mostly create/read/update/delete | access checks, integrity |

How they interact.  A request of the API creates a run in the registry and then
*subscribes* to it like any other connection; the run itself is a background task
(or, for workspace jobs, a thread of another service that registers a shadow of
its job).  The agent of a device run opens cards in its broker; the API routes
the answers there through the registry's broker table.  The device agent's tool calls go out over the
device link and wait for the device's result.  Every agent's model calls go
through the model router.  The package search confirms a plan with its user, builds it in its session's
workspace and publishes the result into the repository that uploads fill and other
searches read.  The end of a run is written to `chat_agent_runs` by
the driver, in a database session of its own, while the session of the request that
inserted the row may still be open.  At start-up the service repairs what the
previous process left.  The Celery workers share nothing with the API but the
database, Redis and the disk.

What is hard.  The back end is one asyncio loop plus threads: every `await` is a
point at which other requests run, so a check and the use of its result are atomic
only when no `await` lies between them.  Some state lives only in memory and
dies with the process while its row stays.  Celery messages are acknowledged late
and are therefore delivered again after a crash.  Humans answer late, twice, or never.

## 2. The modules

| Module | Models | Size of its run |
|---|---|---|
| `RunLifecycle` | what a run is, abstractly: begins once, ends once, an accepted cancel decides the end | - |
| `ChatRuns` (+ `MCChatRuns`) | the run registry, its drivers, the run's row, crash and start-up | 2 runs x 2 sessions |
| `ChatRuns_proofs` | the theorems about `ChatRuns` | any size |
| `RunStream` | the event buffer and its subscribers | 2 connections, buffer of 4 |
| `RunStream_proofs` | the theorems about `RunStream` | any size |
| `Decision` | what somebody who asks is promised, abstractly: one verdict, at most one accepted answer, before it | - |
| `HitlBroker` | one broker, its waiters, its callers | 2 cards x 2 tabs |
| `HitlBroker_proofs` | the theorems about `HitlBroker` | any size |
| `DeviceLink` | the device table, its lock, connection handlers, prompts | see `MCDeviceLink` |
| `MCDeviceLink` | `DeviceLink` with a prompted device and another that the connections may register too | 2 devices, 2 connections, 3 registrations, 1 prompt |
| `DeviceLink_proofs` | the theorems about `DeviceLink` | any size |
| `WorkspaceJobs` | the jobs of the three workspace services: stream requests, job table, shadow, row, watchers | with `PackageJobs` |
| `PackageJobs` (+ `MCPackageJobs`) | a `WorkspaceJobs` job that packages: cards, signing, build, publication | 2 streams of a session, 2 jobs |
| `PackageJobs_proofs` | the theorems about `WorkspaceJobs` and `PackageJobs` | any size |
| `ModelRouter` | routing, breaker, probe key and outcome window in a store shared by processes | with `RoutedQuery` |
| `RoutedQuery` (+ `MCRoutedQuery`) | a call and its attempts, over `ModelRouter` | 2 callers |
| `RoutedQuery_proofs` | the theorems about `ModelRouter` and `RoutedQuery` | any size |
| `TaskBroker` | Celery's queues with late acknowledgement, and its workers | with the next three |
| `LogPipeline` | the processing of a log, its archive, the scan at start-up | with `LogTasks` |
| `BugFix` | analysis, dispatch, repair, retry request | with `LogTasks` |
| `LogTasks` (+ `MCLogTasks`) | the three together | 2 workers, 1 log, 1 row, 2 retry requests |
| `LogTasks_proofs` | the theorems about `LogTasks` | any size |
| `PackagePlan` | classification, confirmation and build of a package from uploaded files | with `PackageRelease` |
| `PackageRepository` | the repository's files, index and lock under everybody who uses them | with `PackageRelease` |
| `PackageRelease` (+ `MCPackageRelease`) | the two together: a built package is published | 2 files, 3 components, 3 writers, 1 search |
| `PackageRelease_proofs` | the theorems about `PackagePlan`, `PackageRepository` and `PackageRelease` | any size |

### ChatRuns

One action is what one asyncio task does between two suspension points.  `kind`,
`key`, `status`, `cancelEvent` are fields of `ChatRunJob`; `jobs`, `active`,
`brokers` are the three dictionaries of the service; `expired` says which finished
jobs the retention window has passed; `phase` is the program counter of a run's request and
then of its driver; `row`, `tx` and `write` are the committed row, the
request's uncommitted insert and the choice `_persist_terminal` has made after
reading.  `_evict_finished` runs inside every start, so it is part of these
actions (`Evict`, `KeptJobs`, `KeptActive`) and not an action.

- `StartDirect` is a start with nothing to persist (anonymous, or `remember`
  off): no await between check and registration.  `StartCheck` and
  `StartRegister` are the same start with the awaits of `append_message` and the
  flush of the row in between.
- `Settle` is `mark_status`; the driver then awaits in `_persist_terminal`
  (`PersistRead`, `PersistWrite`, `PersistFails`) before `Finish` appends the
  done frame and clears the pointer.
- `CancelDelivered` and `StreamUnwound`: asyncio throws `CancelledError` at
  the stream's own await; `finally` blocks await before the driver sees it.
- `LeaveSession` is what closing the generator `get_session()` does when a
  caller leaves its loop with `break`: `GeneratorExit` is not an `Exception`,
  so neither commit nor rollback is executed and the session's close rolls back.
- `RegisterExternal`, `AgentReturns` and `MarkExternalTerminal` stand for the workspace
  jobs.  That their agent and driver end is assumed here (it is in the fairness); whether
  they do is a question for `WorkspaceJobs`.  A job whose registration is answered 409
  runs on all the same (`RegisterRefused`), and its agent registers a broker like any
  other: `register_broker` asks nothing.  Its cards cannot be answered, since the answer
  endpoints look the run up in `_jobs` first.
- Who registers a broker unregisters it; `mark_external_terminal` does not.  A package
  search agent that cannot build its SDK options raises between the two, so
  `AgentReturns` may leave the entry.  Eviction then takes it with the run, or never
  does if the run was refused.

A general run goes through the states of a device run that never reaches its
broker, so `MCTaskKinds` is `{"device"}`; the proofs cover both kinds.

### RunStream

`events` with ranks instead of payloads, the driver's three stages, and for
each connection the local index `sent` of `subscribe()` with what it has received.
Heartbeat frames are left out, as is the wording of frames.  A connection may
drop at any await and attach again from index 0.  A connection leaves when the status is
terminal and it has everything there is, so it may leave before the done frame, which
is appended after the run was persisted.

### HitlBroker

`pending` and `closed` are the broker's; `future` is the state of each asyncio
future; `wait` is the program counter of `can_use_tool` or of `_ask`.
`remote` is chosen initially: whether the waiters' loop is the API's own
(device runs) or a thread's (workspace jobs), where `resolve()` is two steps, the
pop under the lock and `call_soon_threadsafe`, and a third one in the waiter's loop.
`asyncio.wait_for` is external and modelled as Python 3.11 does it (the image
the Dockerfile builds on): when its timer fires it releases the waiter, which prefers a
finished future and otherwise cancels it and waits for that.

### DeviceLink

`states` are the `_DeviceState` objects ever created and `table` is `_devices` as
indices into them, because `send_prompt` keeps the object it looked up while
`register_device` may put another one in its place.  The lock is a FIFO
`asyncio.Lock` that a task takes without suspending when it is free and nobody is in
line; `Take` is `async with self._lock` (straight on, or into `line`), `Turn` is
the head of the line getting it, and `Hold` is what each coroutine does with it and
afterwards, up to its next suspension.  The lock is held across an await in one place
only, the close of a predecessor's WebSocket (`lock`, `PredecessorClosed`); everything
else queues behind that.  `open` is starlette's `application_state`, which a
disconnect of the peer does not change; `alive` is the peer.  A handler whose
WebSocket has been closed may still process the message it was about to
receive, and then leaves.

The endpoint takes any `register` message, so a connection may register another device
after the first (`Register`): the handler then goes by the later one (`named`), and when
the connection ends it reports the end of that one alone (`MarkOffline`).  The
first device keeps its entry, with a WebSocket that the peer has left, and what ends its prompts is the timer.

### WorkspaceJobs and PackageJobs

The three services are copies of one design, and `WorkspaceJobs` models what they
share; where they differ (who may attach, when the shadow is registered, who replays
a finished job) an action looks at the kind of the service.  A stream request is
split at its awaits: look-up (`Attach`, `Refuse`, `Replay`), set-up (`Prepare`,
`PrepareFails`), registration of the shadow (`Enter`, `Install`, `Launch`), and
then the polling of its watcher (`Send` to the last event there is, `Leave`).
`Disconnect` is the client going away at any of them.  A job's own side is `Emit`,
`AgentReturns` or `AgentFails`, and then persisting, closing the row and releasing
the shadow.  `Begin` evicts finished jobs first; which of them are old enough is an
input.  A session that a run of the registry holds answers 409 as one held by a
shadow does; the runs themselves are in `ChatRuns`.  Persistence is modelled for
the case that remembers.

`PackageJobs` replaces the agent's end by `_prepare_and_confirm_packaging`:
`Classify` offers one card or none, `Answer`, `CardTimesOut` or a cancel ends it,
`Recheck` asks a second time when the project changed, `Sign` fixes the plan that
`Build` and `Publish` work from.  A card's cancel names the session, not the job, and
may reach another job; the model lets it.

### ModelRouter and RoutedQuery

`routing`, `window`, `breaker` and `probe` are the store: what the settings ask for,
the outcomes of the last calls, and the two Redis keys, each as the ticks it has left
to live (a key with an expiry is a countdown that `Tick` moves and nobody has to
delete).  Each round trip to the store is an action, since several processes share
it: after a call `Push` writes the outcome, `Read` looks at the breaker, and depending on what was read
`Close` and `Clear`, or `Judge` and `Open`, follow.  There is one primary, always configured;
whether the backup can do what a call needs is an input of `Select`.  Outcomes are classes, and a
failure that is neither a rate limit nor a hard one ("error") is not bad to
the breaker, as in `_BAD_OUTCOMES`.

`RoutedQuery` is `routed_query`: `plan` the slots the router named, `at` the attempt
in force, `held` a text that looks like a rejection and is not yet passed on,
`alive` the attempts whose SDK generator has not ended, `detached` those being torn
down on the side, `overdue` those whose teardown was given up at its limit of 30 seconds
(`Overrun`): such a teardown returns like any other, and its subprocess may live on and
end at some later time (`Reap`) or never.  `Commit` is the first frame of the model that is passed on;
from then on there is no other attempt.  The deadline for the first frame exists while
there is a fallback and is a timer that may fire at any time.  Init and status frames
are left out; of the key pool only whether there is another key is kept.

Reading the two together with the code shows four things the models follow and no
document rules out.  A probe that fails with a plain "error" closes the breaker, and so does any
request that started before it was opened and succeeds late: both are taken for the
probe.  A run whose needs the backup does not meet clears the breaker for everyone.
`close_breaker` and `clear_samples` are two round trips, so another process may open the
breaker again from the old window.

### TaskBroker, LogPipeline, BugFix and LogTasks

`waiting` and `unacked` count the copies of each message in its queue and with the
workers, `job` is what a worker runs, `at` how far it is.  Celery acknowledges late here
(`task_acks_late`), so a message whose worker is gone comes back when the visibility
timeout has passed (`Recover`), and so does one whose task is still running
(`Redeliver`).  When only the process of the task dies, of memory or at the hard time
limit, Celery acknowledges the message for it, because `task_reject_on_worker_lost` is not
set (`TaskKilled`); the copies of a message share one delivery tag, so that the first
acknowledgement counts for all (`OneLess`).  `forsaken` collects the messages whose
task died with no copy left.

`LogPipeline` follows `process_protocol_stack_log`: no look at the status before it
begins, the work in a directory of its own, and `_replace_original_file` step by
step, because the archive and the temporary directory are different volumes and the
move between them is a copy: `archive` is "torn" while it lasts.  The row says failed
before the retry is published, and the scan at start-up publishes before it
commits.  A deletion (`DeleteFile` on request, single or in a batch; `Expire` for the
log's age) unlinks the archive first and marks or deletes the row afterwards (`DeleteRow`),
whatever task is at work; the task looks neither at `is_deleted` nor, once it has the
row, at whether it is still there until a commit raises (`There`).  `BugFix` has the analysis, which commits a row before it dispatches it,
the repair, which checks, marks and finalizes in three commits, and the retry
request with its conditional claim.  Merge requests are part of the outcome.
The copies of a message share their count of retries.  `LogTasks` puts them on the
same workers; a restart of the API drops what its requests were doing.

What these modules show beyond their properties.  *The handler that restores a
backup destroys the archive when the backup is what failed* (a full disk while
`shutil.copy2` writes it: `log_processing.py`, the `except` of
`_replace_original_file`, moves whatever is at the backup path over the archive); `mishaps`
records it.  *A deletion that falls into a replacement is undone*: the task moves its
result, or its backup, to the path that was just unlinked, the row stays deleted and no
clean-up looks at deleted rows again.  Two tasks for one log, which the scan and a pending retry make, share
the backup path and can lose the archive as well.  A killed task leaves its row in
"processing" or "running" for ever, since nothing retries these.  A row whose
dispatch failed stays "pending".  `analyze_log` writes "queued" after
publishing, over whatever a fast task has written by then.  The requests that cancel or retry
the processing of a log (`api/tasks.py`) call `query` on an asynchronous session,
which has none: they end in an error before they change anything, and are no actions here.

### PackagePlan, PackageRepository and PackageRelease

`PackagePlan` follows a turn of `full_package_service.py` from classification to build.  A
file is a record of what the rules, the file's name and the archive tools say of it
(`Kinds`); `kit` is what the files are now, `draft` what they were when the card was drawn, and a file may
change at any time until the build (`Outdate`); `answer` is what the user says of each file, which may be anything, not only what the
card offers; `plan` and `artifact` are the confirmed plan and the payloads in the
package.  The builder trusts nothing: `Current` compares hashes and digest with the draft's, `Valid` looks at files and catalog again and demands what
`Acceptable` demanded, and `Yields` looks at what was taken out.  Three things are only
true because several functions agree, and are what `PlanKeepsItsWord` is about: the options of
the card pass `confirm_plan` (`OptionsAreAcceptable`), a confirmed plan passes the validation of the
builder (`ConfirmedStaysValid`), and the package is the plan, made of the files the user was shown
(`BuiltAsConfirmed`).  A build is one step: a file that changes while the builder is at work is not modelled.

`PackageRepository` has every writer want the same path, since it is there that they meet.
`bytes` says whose file is at a path, `whole` which files are complete, `marker` which have an
`.uploading` marker, `index` the JSON file.  Uploads run on the event loop, write across awaits
and without the lock; publications and the search agents' pruning are threads that
hold it from step to step (`lock`); who takes it for one step only neither shows as its
holder nor enters while it is held (`Unlocked`).  A PATCH of a package is `List` and then
`Edit`, a download or a query is `List`.  Six history variables note what the
properties except.  `load_packages` answers "nothing" when the file cannot be
read, and the next change is saved on top of that (`Readings`, `BasedOn`).

`PackageRelease` publishes what was built, once (`PublishBuilt` is the `Claim` of the
repository), and has the turn die with the process unless its package is being published.

What these modules show beyond their properties.  *An index that cannot be read
once is replaced by one that lacks everything* but the change at hand (`forgotten`); a scan
brings the files back, without what users had edited.  *A package that is deleted while an
upload is about to register that very path* (a scan has indexed the file between its
completion and its registration) leaves an entry of the upload without a file, or over somebody
else's (`robbed`).  *An upload whose process is killed* leaves its marker and so a
torn file that no scan ever indexes and nobody removes.  *A registration of a path
forgets what was edited of the entry that was there.*

## 3. The runs

| Run | Module, configuration | Shows |
|---|---|---|
| `chat_runs` | `MCChatRuns`, `ChatRuns.cfg` | type, `CancelWins`, `AnonymousExclusive`, `RegistrySound`, `RowNeverReopens`, `RunSettles`, and that the registry implements `RunLifecycle!FairSpec` |
| `chat_runs_overlap` | `ChatRunsOverlap.cfg` | violation: two signed-in starts interleave between check and registration, and one session has two running runs |
| `chat_runs_restart` | `ChatRunsRestart.cfg` | violation: the start-up sweep is rolled back and the interrupted run's row still says running |
| `run_stream` | `RunStream`, `RunStream.cfg` | `ReplayInOrder`, `LeavesUpToDate`, `SubscribersLeave` |
| `hitl_broker` | `HitlBroker`, `HitlBroker.cfg` | `CardsMatchWaiters`, `WaitersGoOn`, and that the broker implements `Decision` (`CardsAreDecisions`) |
| `device_link` | `MCDeviceLink`, `DeviceLink.cfg` | `LatestRegistrationWins`, `LosesItToAPredecessorOnly`, `PendingMatchesSenders`, `PromptsEnd`, and that prompts are decided as `Decision` says (`PromptsAreDecisions`) |
| `device_link_reconnect` | `DeviceLink`, `DeviceLinkReconnect.cfg` | violation: after a reconnect the old handler takes the new WebSocket out of the table |
| `package_jobs` | `MCPackageJobs`, `PackageJobs.cfg` | `WatchersSeeTheEnd`, `MirrorsSettle`, `ShadowsExclusive`, `PublishedAsConfirmed`, `NoPackageAfterPromise`, `JobsAndStreamsEnd` |
| `workspace_disconnect` | `WorkspaceJobs`, `WorkspaceDisconnect.cfg` | violation: a client that leaves while the shadow is registered leaves a job that never runs |
| `routed_query` | `MCRoutedQuery`, `RoutedQuery.cfg` | `OneVoice`, `AttemptsReaped`, `PrimaryComesBack` |
| `log_tasks` | `MCLogTasks`, `LogTasks.cfg` | `ArchiveKept`, `OneRetryPerFailure`, `TasksSettle` |
| `package_release` | `MCPackageRelease`, `PackageRelease.cfg` | `PlanKeepsItsWord`, `RepositoryIsTrue`, `RequestsEnd` |

A property with several parts has a name for each: `RegistrySound` for pointers, jobs and
brokers, `CardsMatchWaiters`
for `AnswerableWhileWaiting` and `NoOrphanCard`, `RepositoryIsTrue` for `EntriesAreHonest` and `AnswersAreTrue`.

Bounds, and why they are enough.  *Runs*: two runs are what every conflict needs (a
predecessor still persisting and its successor, two starts that interleave); a
third only permutes them and does not finish in the time a run may take.  The
theorems hold for any number.  Run ids are minted in order (`InOrder`), which
renames runs and loses nothing.  *Keys*: one signed-in, one anonymous, since
only these two differ.  *Crashes*: one; a second finds the same rows.
*Frames*: a buffer of four with at most five agent frames, a last one and a
done frame overflows by several, so that a connection's index ends up beyond,
at and before the trimmed end.  *Cards*: one question and one
permission, which is one of each kind of waiter; two tabs race for each.
*Device*: two devices, because a connection may register one after the other; the
prompt goes to the first, which of the two connections registers first is a matter of names
(`FirstIsC1`), and only the prompted device is deleted (`DeletesD1`, `KeepsD2`), since a deletion touches
the entry and the prompts of its own device only.  Two connections and three
registrations give a predecessor, a successor and a re-registration of the first
while the second is being installed; `MaxStates` bounds the registrations, and heartbeats,
results and deletions are unbounded.  One prompt: prompts meet only in the line for the
lock, where handlers and deletions already stand.
*Workspace jobs*: two requests of one session and two jobs give every pair
that meets in the table; one of the services packages, another does not.
*Router*: two callers in two processes; a window, a threshold and a minimum of two
samples, a hard trip of one, keys that live two ticks.  One caller at a time goes
through the intricate part of a call, which the other cannot see (`OneIntricate`,
`Prompt`) - the other key and the outcomes that the router cannot tell from another one are
part of it; a teardown ends or runs into its limit while it is waited for, since nobody
looks before (`EndsWhenAwaited`), and the switch is not turned off (`SwitchedOn`).
*Tasks*: two workers, of which the second is used when the first is busy; one retry of a message
instead of three, which is enough to have a retry pending; one redelivery, one
death, one restart, one deletion and a second retry request, two of these in one behaviour, of
which a redelivery or a deletion does not go with a restart while a log is processed
(`Incidents`, `Deletion`); a log that is processed or analysed, since the two meet
on the workers only (`OneFlow`).  The theorems hold for any number of all of these.
*Packages*: two files of seven kinds each (plain, broken, ambiguous inside, documents
only, a package of several components, a package of one, one whose payload is not what
was validated) and three components, of which one is taken out of archives, one is the file itself and one is
never packaged: every pair of files that can compete for a component, every kind of
refusal.  Two uploads, one of them of a batch, one publication and one search are one of each
kind of user of the lock; one mishap (a crash, an unreadable index, a half deletion).  The
repository cannot tell packages apart, so it runs on after one plan only (`OneTurn`, a
constraint on states: it is quiet until the build, or the turn is the plain one).  One file
may change, into any other kind and again, beside an archive that stays and is excluded (`OneChange`).

Fairness.  The event loop runs every ready task, so a driver's own steps
(`Progress`, `Drive`, `WaiterLoop`, a begun `HandOver`) are weakly fair; a
client that stays connected reads on (`Follow`); a begun close of a WebSocket comes back
(the server has a close timeout) and timers fire (`Timeout`); an operator restarts a dead
server (`Restart`).  The agent's stream is assumed to end: it is bounded by the
turn limits and timeouts of the agents.  No user ever has to send, answer or cancel.
Workspace jobs: threads return and watchers poll.  Router: time passes (`Tick`), and
nothing else has to happen, calls included, for an open breaker to lapse.  Tasks:
one of the workers goes on (tasks have a hard time limit), messages are delivered, the
visibility timeout passes and the API answers; deaths, redeliveries, requests and
restarts need not happen.  Repository: requests and threads that have begun go on; a turn need
not.  The lock need not be fair: whoever holds it is a thread that lets it go, and there
are finitely many of them, so that weak fairness of the waiting request suffices.  An upload may fail
while it waits for the lock, but nothing is concluded from that.
`PersistFails` needs no fairness, `PersistWrite` covers it.

Deadlock is not checked (`CHECK_DEADLOCK FALSE`): once all the runs, cards or
connections of an instance are used up, the system really stops.

Nine properties are stated for less than one might expect, because the code
does less:
- `ArchiveKept` is about one task at a time and excepts a half-made backup that is moved back
  and a deletion in the middle of a replacement.
- `RepositoryIsTrue` excepts paths that were deleted under an upload, entries
  that outlived a deletion that could not be written, and what an unreadable index lost.
- `TasksSettle` is about rows that were enqueued and excepts messages the broker was
  made to forget: a killed task is not delivered again.
- `CancelWins` speaks of runs the registry drives itself; a workspace job that was
  cancelled and still produced an answer is reported as succeeded, by design.
- `CardsAreDecisions` has an accepted answer used by waiters in the API's own loop.  Across
  loops `True` means handed over, and the timer may still win.
- `PendingMatchesSenders` says that a prompt's handler is there, not that the device
  can be reached: see `device_link_reconnect`.  It excepts a connection that has registered another
  device since: its end is reported for that one, and the prompt ends by its timer.
- `AttemptsReaped` excepts calls that were cancelled in a teardown or waited too long in their last
  `finally`, and attempts whose own teardown ran into its limit: `_close_attempt` gives up after 30
  seconds, logs that the subprocess may be orphaned and returns, and nobody looks again.
- `RegistrySound` lets the broker of another service's run stay until the run is evicted,
  and that of a refused run for ever.
- `LeavesUpToDate` lets a connection go without the done frame, the one that carries the
  answer, if it polls while the driver is in `_persist_terminal`: the status is terminal
  from `mark_status` on, and the frame comes after the database.  The comment at
  `chat_run_service.py:737` ("so subscribers can exit their loop") and two tests
  (`test_chat_run_endpoints.py:192-194`, `test_chat_run_service_concurrent.py:7`) count on the frame; no
  test polls in that window.  A client that missed it has
  the run's own last event and can read the answer from the snapshot.
- `LeavesUpToDate` is about buffers that were never trimmed.  After trimming, a connection's index points further into
  the run than before and frames are skipped; at a full buffer a live
  connection receives nothing new.  The code says so by setting `trace_truncated`.

## 4. The proofs

`ChatRuns_proofs` proves, for every set of runs and keys and any number of
crashes, the type invariant, the three safety invariants and the action property of `chat_runs`, and that
`Spec` implements `RunLifecycle!Spec`.

None of the invariants is inductive by itself.  `CancelWins`, for
instance, is preserved by `Settle` only because a run that can still end by itself
has no cancel pending, and `ClearPointer` preserves `AnonymousExclusive` only
because a run whose driver is past `mark_status` is no longer running.  The
inductive invariant `IInv` adds, to the type invariant and
`AnonymousExclusive`:

- `PhaseInv`: what each phase says of status, key and kind (the driver's program
  counter and the job's status agree);
- `CancelInv`: only registered runs have a cancel pending, and past
  `streaming` it decides the status;
- `JobInv`: running runs are in `jobs`, expired jobs are terminal;
- `PointerInv`: a pointer names a registered run of its key that is not finished;
- `BrokerInv`: brokers belong to running device runs, and to registered or refused
  runs of other services;
- `RowInv`: a final row belongs to a run whose driver has written it, so
  that neither the request's commit nor a second write can follow.

`NextCases` splits a step into its actions, `InductiveStep` has one case per action
and, where one disturbs several conjuncts (`StartRegister`, `PersistWrite`), a
step per conjunct.  The refinement is proved from the same invariant, one lemma
per abstract action (`LifecycleBegin`, `LifecycleEnd`, `LifecycleAsk`,
`LifecycleLose`, `LifecycleStutter`).

`OneActiveRun`, which `chat_runs_overlap` violates, has one cause only: `OverlapIsTheOnlyWay` proves
it of every behaviour in which no run is running while another request of its session is between its
conflict check and its registration (`StartsAlone`).  The invariant is `SoleInv`, that
a running run is the one its session's pointer names, for signed-in sessions too; evictions, drivers that
finish late, external ends and crashes keep it.

`chat_runs_restart` shows one start that leaves an interrupted row running.  `InterruptedRowsAreLeft` adds
that nothing makes up for it: `LostStaysLost` goes through the steps, and none of them, a later start
included, writes the row of a run that went with its process.

`HitlBroker_proofs` proves the type invariant and `CardsMatchWaiters` of
`hitl_broker`, that one answer at most is accepted and used (`OneAcceptedAnswer`, `AcceptedIsUsed`), and
that `Spec` implements `Decision!Spec`, for every set of requests, questions and tabs.  `OneAcceptedAnswer` is
not inductive: two calls that had both taken the entry of a request would violate it
only when the second hands its decision over.  `IInv` adds

- `ClaimInv`: a tab *claims* a request from the moment its call pops the entry; a
  request has one claim at most, and none while its entry is in the table;
- `DecisionInv`: a decision handed over, in the future or in use was accepted;
- `WaiterInv`: what the waiter's progress says of its future (one that gives up
  has cancelled it; the future of an entry in the table is still pending);
- `LocalInv`: in the API's own loop an accepted answer is in the future at once and
  stays there until the waiter has gone on with it.

The refinement adds `VerdictInv`: the future of a waiter that has gone on takes no further answer, so
that nobody can be told yes after the decision.  In another loop that is all there is to it:
accepting does not bind there, and an accepted answer may lose against the timer, never against
another answer.

`RunStream_proofs` proves the type invariant, `ReplayInOrder`, that an untrimmed run is
replayed without a gap (`ReplayFromTheStart`) and the action property `LeavesUpToDate` of `run_stream`, for any number of connections, any limit of the buffer and any number of
frames.  `ReplayInOrder` alone says nothing of where a connection's index points after a
trim.  `IInv` adds

- `WindowInv`: the buffer holds the newest frames without a gap; `Trimmed` counts those
  that fell off the front;
- `CursorInv`: all a connection has received lies at or before `Trimmed + sent`, so
  that what its index points at is newer, wherever trimming has moved it (trimming makes a
  connection skip, and never repeat);
- `IndexInv`: without trimming, the index points into the buffer or right behind it;
- `SettledInv`: the status is terminal once the stream is over, and the done frame is the
  last one once the driver has returned.

`LeavesUpToDate` follows because a connection leaves by `Leave` alone (`LeavesByLeave`), at the end of
a buffer that holds everything.

`DeviceLink_proofs` proves the type invariant and the three safety invariants of
`device_link`, `AnswersAreUsed`, and that `Spec` implements `Decision!Spec`, for any devices, connections, prompts and registrations.  The service
itself holds only a table and futures; why they agree lies in who stands in line for the lock, so the
invariant is largely about the line:

- `QueueOK`: nobody stands in line twice, and what stands there for a handler, a sender or an
  administrator is something it may have asked for in its present state (`EntryOK`);
- `LockInv`: the registration that holds the lock over the close of its predecessor is
  that of a handler that is not in line and reads nothing meanwhile;
- `TableInv`: no two devices have the same state object;
- `LiveInv`: a state object whose WebSocket is open is the entry of some device, and if the handler of
  that WebSocket goes by this device, it is not gone: before it goes it takes
  the connection out of the table, and it does so under the lock;
- `PromptInv`: a sender's step, its future and its entry tell the same story, and a prompt on its
  way over a connection that still goes by its device has a handler that will report its end, or a
  deletion that will (`Way`);
- `OrderInv`: the last registration of a device in line, or else the one that holds the lock, or
  else the entry, is the one whose message came last.  `LatestRegistrationWins` by itself speaks only of the
  moments when nothing is under way.

A step is an operation together with what it does once it has the lock, which may be at
once.  So the proof has a lemma for each group of variables that says what a critical section does to
it, whichever operation runs (`HoldObjects`, `HoldSocks`, `HoldPromptsTyped`,
`HoldLine`), and the steps of handlers, senders and administrators only have to show that what they put
in line is in order.  The refinement goes the same way: what `Decision` sees of a section
(`SectionDecides`), of a request for the lock (`TakeDecides`), and of a step (`PromptsMove`).

`device_link_reconnect` shows one way to lose a WebSocket; `LosesItToAPredecessorOnly` says that for a device
that is not deleted there is no other.  For it `CauseInv` follows a device whose entry has none back to what took it: `HoldLoses` finds that
only the report of a connection's end does, the handler that reported it keeps its name
and asks for nothing more (`QuietInv`), and a device whose connections are all there has a registration
under way.

`PackageJobs_proofs` proves the type invariant and the five safety invariants of
`package_jobs`, for any turns, services, sessions and plans.  The inductive invariant has
a part about `WorkspaceJobs` and one about the packaging:

- `TurnInv`: a request's progress says how far the job it creates has come;
- `EndInv`: a job that is done has its last event, and one that is over its row; the
  shadow follows with `ShadowsExclusive`, since its pointer is that of a job not done;
- `PlanInv`: packaging goes on in running jobs only, one card at a time, and from the
  accepted card to the publication the plan of the job is the one agreed upon;
- `PromiseInv`: a promise was made while a card was shown and its cancel is still set, so
  that the job cannot have passed the look at `cancel_event` that precedes the publication.

`WorkspaceJobs` is a module of its own in the code of three services; so the proof first shows
that none of its steps touches what the packaging relies on (`PackInvStays`,
`ServeKeeps`), and then takes the packaging's own steps one at a time.

`workspace_disconnect` shows a client that leaves while the row of its job is inserted, and the job has no
task from then on.  Two theorems say how far that goes: only such a client leaves a job without a task
(`StrandedByItsClient`), and while the process lives nothing, no cancel and no other turn either, gives
the job a task or frees the session that its shadow holds in the registry (`StrandedStays`).

`RoutedQuery_proofs` proves the type invariant and the two safety invariants of
`routed_query`, for any callers, window, threshold and cooldown.  Every conjunct is about
one call, and no step of another call or of the breaker changes it (`OthersKeep`,
`WorldKeeps`), so each action is considered for its own call only:

- `PlanInv`: which round trip to the store a call may be in, and that its attempt is one
  of its plan;
- `VoiceInv`: only a committed attempt was heard; a call that may still change its attempt
  has passed nothing on;
- `ReapInv`: unless the call was hurried, whatever is alive is the attempt in force,
  is being torn down on the side or outlived its teardown, and a call that moves on has waited
  for the teardown of the attempt it leaves or remembers it.

`LogTasks_proofs` proves the type invariant and the two safety invariants of `log_tasks`,
for any workers, messages, rows and requests and any number of redeliveries, deaths and
restarts.  `ArchiveKept` speaks of the archive at every moment, and a task that is
killed in the middle of the replacement leaves the files as they are, so the
invariant has to say where the log is at each step of it:

- `UploadInv`: before the upload nothing is published, delivered or scanned for the log;
- `DeletionInv`: what a deletion has done; with no mishap, no task is in a replacement under it;
- `AloneInv`: with no mishap one task works on the log, and not on a completed one;
- `ProgressInv`: the step of that task says which of archive and backup is whole;
- `KeptInv`: where no task is, the log is in one of them, and a completed one in its archive.

The repair's part needs nothing beside the types: `OneRetryPerFailure` is inductive.
`ElsewhereKeepsLogInv` disposes of the steps that concern the other half.

`PackageRelease_proofs` begins with type correctness and `PlanKeepsItsWord` of the plan by itself,
for any inputs, components and kinds of file.  Its invariant, `ConfirmedInv`, is that from the
confirmation on the plan is the answers with a version for each component, and the answers were
acceptable for the files of the draft.  `Valid` follows if these are the files still, because a confirmed version is never "none" (`ChosenAreNamed`), and
what a step of the build puts in (`BuildArtifact`) is the payload of the one input that has the component.

It goes on to the type invariant and the two safety invariants of
`package_release`, for any writers, searches and files and any number of mishaps.  What files,
index and answers say can only stay true together if nobody writes where somebody else
is writing, although uploads do not hold the lock; `RepoInv` says who may be where:

- `PlaceInv`: a writer's path is the common one or its own, and its bytes are nowhere else;
- `WriteInv`: unless a path was deleted under an upload, it belongs to whoever is under
  way there, and has a marker until the file is complete and closed;
- `FileInv`: a file without a marker is complete, and what has an entry has none, so that a
  scan meets complete files only;
- `LockInv`: threads that work in several steps hold the lock, and a search's copy of the
  index is the index.

There is a lemma for each step that changes the repository.  The composition adds that the plan's steps
leave the repository alone, and that a turn whose process dies has failed.

Assumptions: only those the modules declare about their constants.  `ChatRuns`:
anonymous keys are keys, `NoRun` and `NoKey` are neither runs nor keys, the kinds the
registry drives are device and general, `MaxCrashes` is a natural number.
`HitlBroker`: questions are requests, `NoRequest` is none, and no tab has the name of a
state of a future or of an outcome.  `RunStream`: the limit of the buffer is positive.
`DeviceLink`: device ids, WebSockets and request ids are different things, `NoDevice` is no
device and `NoSocket` no connection.
`WorkspaceJobs`, `PackageJobs`: `NoJob` is no turn, `NoPlan` no plan.  `ModelRouter`,
`RoutedQuery`: the settings are positive, thresholds lie within the window (the settings'
validation does that), and there is a key.  `TaskBroker`, `LogPipeline`, `BugFix`,
`LogTasks`: finitely many workers, at least one row, and messages of different tasks
differ.  `PackagePlan`: what can be taken out of a package is publishable and found by a
pattern, and a package of one component is a package that can be opened.
`PackageRepository`: the kinds of users differ.  TLC evaluates them in the runs.

Only model-checked: everything under fairness (`RunSettles`, the liveness half
of `RunsAreLifecycles`, `SubscribersLeave`, `WaitersGoOn`, `PromptsEnd`,
`JobsAndStreamsEnd`, `PrimaryComesBack`, `TasksSettle`, `RequestsEnd`), which the
prover does not reach.

## 5. The plan

Modules, in order of importance to the service:

1. `ChatRuns`, `RunLifecycle` - done, with proofs.
2. `RunStream` - done, with proofs.
3. `HitlBroker` - done, with proofs and `Decision` as its specification, which
   `DeviceLink` implements too.
4. `DeviceLink` - done, with proofs.
5. `WorkspaceJobs`, `PackageJobs` - done, with proofs.
6. `ModelRouter`, `RoutedQuery` - done, with proofs; left: the store a process falls back to
   when Redis cannot be reached, and the key pool.
7. `LogPipeline`, `BugFix`, `LogTasks` - done, with proofs; left: groups and the sweep of temporary directories.
8. `PackagePlan`, `PackageRepository`, `PackageRelease` - done, with proofs; left: patch mode and
   several projects in one package.
9. The trace buffer; sharing of conversations; the key pool.

## 6. Not modelled

The agents' prompting and tools appear as streams that emit events, ask and end; what a
model says is any answer.  The formats of files (logs, archives, catalogs, `si.ini`) are records
of what the code tells apart.  The Vue front end is the subscriber of `RunStream`;
`model-sentinel` is a separate program.  Of the parts that are modelled these are left out:

- *Logs*: listing, groups and downloads, which only read; logs of OAM systems, which are
  complete when they are uploaded; the sweep of temporary directories; errors of the
  database at any commit; the retry count that Celery keeps per message.
- *Router*: the store of its own that a process falls back to when Redis cannot be
  reached, and which of its keys a provider is called with.
- *Packages*: several projects in one package, patch mode, the cached result of a second
  build; packages of other names than the one everybody wants, since they meet nowhere but in the
  index; a process that is told to exit while it writes (`CancelledError` skips the clean-up
  that `except Exception` does) and so leaves a torn file without a marker; a download that
  has looked up its entry when the file is replaced.
- *Jobs*: what is in a workspace, the titles of conversations, forks of a log analysis
  (copies into a new session) and an administrator's follow-up questions, which keep nothing.
- *Device link*: prompts of several devices at once (the proofs cover them).

The rest has little state that several actors change:

- *Trace buffer*: an append, a trim and an expiry in Redis, read by sequence number; the
  reader's part is the one of `RunStream`.
- *History and sharing*: rows that a request writes in one transaction.  Two requests that share
  the same conversation at the same time can create two active shares, of which a
  revocation takes one; a conversation's count of messages is read and written back.
- *Metrics*: one insert per event under an idempotency key (a step of `ChatRuns`), and queries.
- *Settings, prompts and skills*: files behind a cache that compares modification times.
- *Users, projects, members, announcements*: single rows behind access checks.
