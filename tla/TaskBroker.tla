------------------------------ MODULE TaskBroker ------------------------------
(***************************************************************************)
(* The Celery queues of src/app/celery_app.py and their worker processes.  *)
(* Messages are acknowledged late: one that was delivered stays            *)
(* unacknowledged while its task runs, and the broker delivers it again    *)
(* when nobody acknowledged it within the visibility timeout, because its  *)
(* worker died or because the task is still running.  A task's own process *)
(* that is killed (memory, the hard time limit) has its message            *)
(* acknowledged by the worker: task_reject_on_worker_lost is not set.      *)
(***************************************************************************)
EXTENDS Integers, FiniteSets

CONSTANTS
  Workers,       \* processes that run tasks
  Messages,      \* identities of published tasks
  NoMessage,
  Redeliveries,  \* bound: messages delivered again while their task runs
  Deaths         \* bound: workers and task processes that die

ASSUME BrokerAssumption ==
  /\ IsFiniteSet(Workers)
  /\ NoMessage \notin Messages
  /\ Redeliveries \in Nat
  /\ Deaths \in Nat

VARIABLES
  waiting,    \* copies of a message in its queue (or held back by a countdown)
  unacked,    \* copies that were delivered and not acknowledged
  job,        \* the message a worker runs
  at,         \* how far the worker's task has come
  late,       \* redeliveries so far
  dead,       \* deaths so far
  forsaken    \* messages whose task died with no copy left to be delivered

brokerVars == <<waiting, unacked, job, at, late, dead, forsaken>>

-----------------------------------------------------------------------------
BrokerTypeOK(steps) ==
  /\ waiting \in [Messages -> Nat]
  /\ unacked \in [Messages -> Nat]
  /\ job \in [Workers -> Messages \cup {NoMessage}]
  /\ at \in [Workers -> steps]
  /\ late \in 0..Redeliveries
  /\ dead \in 0..Deaths
  /\ forsaken \subseteq Messages

BrokerInit ==
  /\ waiting = [m \in Messages |-> 0]
  /\ unacked = [m \in Messages |-> 0]
  /\ job = [w \in Workers |-> NoMessage]
  /\ at = [w \in Workers |-> "idle"]
  /\ late = 0
  /\ dead = 0
  /\ forsaken = {}

-----------------------------------------------------------------------------
\* delay, apply_async and retry put one more copy into the queue.
Post(m) == waiting' = [waiting EXCEPT ![m] = @ + 1]

\* (mutant of OneLess) An acknowledgement is counted for each copy.
OneLessEach(n) == n - 1

OneLess(n) == IF n = 0 THEN 0 ELSE n - 1

\* Work of the task that worker w runs moves from one of its steps to another.
Step(w, from, to) ==
  /\ at[w] \in from
  /\ at' = [at EXCEPT ![w] = to]

Deliver(w, m) ==
  /\ job[w] = NoMessage
  /\ waiting[m] > 0
  /\ waiting' = [waiting EXCEPT ![m] = @ - 1]
  /\ unacked' = [unacked EXCEPT ![m] = @ + 1]
  /\ job' = [job EXCEPT ![w] = m]
  /\ at' = [at EXCEPT ![w] = "begin"]
  /\ UNCHANGED <<late, dead, forsaken>>

\* Two copies of a message carry one delivery tag: the first acknowledgement counts
\* for both.
Acknowledge(w) ==
  /\ job[w] # NoMessage
  /\ at[w] = "done"
  /\ unacked' = [unacked EXCEPT ![job[w]] = OneLess(@)]
  /\ job' = [job EXCEPT ![w] = NoMessage]
  /\ at' = [at EXCEPT ![w] = "idle"]
  /\ UNCHANGED <<waiting, late, dead, forsaken>>

Running(m) == Cardinality({w \in Workers : job[w] = m})

Requeue(m) ==
  /\ unacked' = [unacked EXCEPT ![m] = @ - 1]
  /\ Post(m)
  /\ UNCHANGED <<job, at, dead, forsaken>>

\* The visibility timeout of a message whose task died with its worker...
Recover(m) ==
  /\ unacked[m] > Running(m)
  /\ Requeue(m)
  /\ UNCHANGED late

\* ...and of one whose task is still running.
Redeliver(m) ==
  /\ unacked[m] \in 1..Running(m)
  /\ late < Redeliveries
  /\ late' = late + 1
  /\ Requeue(m)

Stops(w) ==
  /\ job[w] # NoMessage
  /\ dead < Deaths
  /\ dead' = dead + 1
  /\ job' = [job EXCEPT ![w] = NoMessage]
  /\ at' = [at EXCEPT ![w] = "idle"]
  /\ forsaken' = IF waiting[job[w]] = 0 /\ unacked'[job[w]] < Running(job[w])
                   THEN forsaken \cup {job[w]} ELSE forsaken
  /\ UNCHANGED <<waiting, late>>

\* The whole worker goes: nothing is acknowledged.
WorkerDies(w) == UNCHANGED unacked /\ Stops(w)

\* Only the process of the task goes: its worker acknowledges the message.
TaskKilled(w) ==
  /\ job[w] # NoMessage
  /\ unacked' = [unacked EXCEPT ![job[w]] = OneLess(@)]
  /\ Stops(w)

Broker ==
  \/ \E w \in Workers, m \in Messages : Deliver(w, m)
  \/ \E w \in Workers : Acknowledge(w) \/ WorkerDies(w) \/ TaskKilled(w)
  \/ \E m \in Messages : Recover(m) \/ Redeliver(m)

=============================================================================
