------------------------------ MODULE RunStream ------------------------------
(***************************************************************************)
(* One run's event buffer (ChatRunJob.events) and the SSE subscribers that  *)
(* replay it and then poll it.  The driver appends, trims the buffer at its *)
(* cap, settles the run, persists it and appends the done frame; a          *)
(* subscriber reads by index, sleeps, and leaves once the run is terminal   *)
(* and it has sent as much as the buffer holds.                             *)
(***************************************************************************)
EXTENDS Naturals, Sequences, SequencesExt

CONSTANTS
  Subscribers,   \* connections that may attach to the run
  BufferLimit,   \* _EVENT_BUFFER_LIMIT
  MaxFrames      \* bound: the frames the agent emits before its last one

ASSUME LimitAssumption == BufferLimit \in Nat \ {0}
ASSUME FramesAssumption == MaxFrames \in Nat

VARIABLES
  events,        \* ChatRunJob.events: [no |-> rank of production, type |-> ...]
  produced,      \* how many frames were ever appended
  truncated,     \* ChatRunJob.trace_truncated
  driver,        \* "streaming", "persisting" (in _persist_terminal), "finished"
  terminal,      \* ChatRunJob.status is terminal
  retained,      \* the job is still in ChatRunService._jobs
  stage,         \* per connection: "away", "reading", "asleep" or "left"
  sent,          \* subscribe's local index into the buffer
  got            \* the ranks the connection has received

runVars == <<events, produced, truncated, driver, terminal, retained>>
subVars == <<stage, sent, got>>
vars == <<events, produced, truncated, driver, terminal, retained, stage, sent, got>>

-----------------------------------------------------------------------------
Types == {"run_start_pending", "event", "terminal", "done"}

TypeOK ==
  /\ events \in Seq([no : Nat, type : Types]) /\ Len(events) <= BufferLimit
  /\ produced \in Nat
  /\ truncated \in BOOLEAN /\ terminal \in BOOLEAN /\ retained \in BOOLEAN
  /\ driver \in {"streaming", "persisting", "finished"}
  /\ stage \in [Subscribers -> {"away", "reading", "asleep", "left"}]
  /\ sent \in [Subscribers -> Nat]
  /\ got \in [Subscribers -> Seq(Nat)]

\* A registered run: its buffer starts with the synthetic run_start_pending.
Init ==
  /\ events = <<[no |-> 1, type |-> "run_start_pending"]>>
  /\ produced = 1
  /\ truncated = FALSE
  /\ driver = "streaming" /\ terminal = FALSE
  /\ retained = TRUE
  /\ stage = [s \in Subscribers |-> "away"]
  /\ sent = [s \in Subscribers |-> 0]
  /\ got = [s \in Subscribers |-> <<>>]

\* (mutant of AppendEvent) Trims only once the cap is passed by two.
AppendEventTrimmingLate(type) ==
  LET grown == Append(events, [no |-> produced + 1, type |-> type])
  IN  /\ events' = IF Len(grown) > BufferLimit + 1 THEN Tail(grown) ELSE grown
      /\ truncated' = (truncated \/ Len(grown) > BufferLimit + 1)
      /\ produced' = produced + 1

\* ChatRunJob.append_event: at the cap the oldest frames go.
AppendEvent(type) ==
  LET grown == Append(events, [no |-> produced + 1, type |-> type])
  IN  /\ events' = IF Len(grown) > BufferLimit THEN Tail(grown) ELSE grown
      /\ truncated' = (truncated \/ Len(grown) > BufferLimit)
      /\ produced' = produced + 1

-----------------------------------------------------------------------------
(* The driver of the run.                                                   *)

\* An agent event on its way to the subscribers.
Emit ==
  /\ driver = "streaming" /\ produced <= MaxFrames
  /\ AppendEvent("event")
  /\ UNCHANGED <<driver, terminal, retained, subVars>>

\* (mutant of Settle) The status is marked before the last frame is appended.
SettleBeforeLastFrame ==
  \/ /\ driver = "streaming" /\ ~terminal
     /\ terminal' = TRUE
     /\ UNCHANGED <<events, produced, truncated, driver, retained, subVars>>
  \/ /\ driver = "streaming" /\ terminal
     /\ AppendEvent("terminal") /\ driver' = "persisting"
     /\ UNCHANGED <<terminal, retained, subVars>>

\* The last frame (run_complete, error or cancelled; none follows an error the
\* agent reported earlier) and mark_status: nothing awaits between them.
Settle ==
  /\ driver = "streaming"
  /\ AppendEvent("terminal") \/ UNCHANGED <<events, produced, truncated>>
  /\ driver' = "persisting" /\ terminal' = TRUE
  /\ UNCHANGED <<retained, subVars>>

\* _persist_terminal has returned: metrics, the row, the answer and its title.
Done ==
  /\ driver = "persisting"
  /\ AppendEvent("done")
  /\ driver' = "finished"
  /\ UNCHANGED <<terminal, retained, subVars>>

\* _evict_finished drops the job once its retention is over.  Connections that
\* are attached keep the object.
Evict ==
  /\ terminal /\ retained
  /\ retained' = FALSE
  /\ UNCHANGED <<events, produced, truncated, driver, terminal, subVars>>

-----------------------------------------------------------------------------
(* subscribe(), one connection each.                                        *)

\* An unknown run is a 404: the client reads the stored snapshot instead.
Subscribe(s) ==
  /\ stage[s] = "away" /\ retained
  /\ stage' = [stage EXCEPT ![s] = "reading"]
  /\ sent' = [sent EXCEPT ![s] = 0]
  /\ got' = [got EXCEPT ![s] = <<>>]
  /\ UNCHANGED runVars

\* `yield self._sse_event(job.events[sent])`: the connection may be slow.
Deliver(s) ==
  /\ stage[s] = "reading" /\ sent[s] < Len(events)
  /\ got' = [got EXCEPT ![s] = Append(@, events[sent[s] + 1].no)]
  /\ sent' = [sent EXCEPT ![s] = @ + 1]
  /\ UNCHANGED <<runVars, stage>>

CaughtUp(s) == stage[s] = "reading" /\ sent[s] >= Len(events)

\* (mutant of Leave) Holds out for the done frame.
LeaveOnDone(s) ==
  /\ CaughtUp(s) /\ terminal
  /\ \E i \in 1..Len(events) : events[i].type = "done" /\ Contains(got[s], events[i].no)
  /\ stage' = [stage EXCEPT ![s] = "left"]
  /\ UNCHANGED <<runVars, sent, got>>

Leave(s) ==
  /\ CaughtUp(s) /\ terminal
  /\ stage' = [stage EXCEPT ![s] = "left"]
  /\ UNCHANGED <<runVars, sent, got>>

Sleep(s) ==
  /\ CaughtUp(s) /\ ~terminal
  /\ stage' = [stage EXCEPT ![s] = "asleep"]
  /\ UNCHANGED <<runVars, sent, got>>

\* (mutant of Wake) Every poll walks the buffer from its start.
WakeFromTheStart(s) ==
  /\ stage[s] = "asleep"
  /\ stage' = [stage EXCEPT ![s] = "reading"]
  /\ sent' = [sent EXCEPT ![s] = 0]
  /\ UNCHANGED <<runVars, got>>

Wake(s) ==
  /\ stage[s] = "asleep"
  /\ stage' = [stage EXCEPT ![s] = "reading"]
  /\ UNCHANGED <<runVars, sent, got>>

\* The client goes away in the middle; it may subscribe again.
Disconnect(s) ==
  /\ stage[s] \in {"reading", "asleep"}
  /\ stage' = [stage EXCEPT ![s] = "away"]
  /\ UNCHANGED <<runVars, sent, got>>

-----------------------------------------------------------------------------
Drive == Emit \/ Settle \/ Done

Follow(s) == Deliver(s) \/ Leave(s) \/ Sleep(s) \/ Wake(s)

Next == Drive \/ Evict \/ \E s \in Subscribers : Subscribe(s) \/ Follow(s) \/ Disconnect(s)

Spec == Init /\ [][Next]_vars

\* The event loop runs the driver, and a connected client keeps reading.
FairSpec == Spec /\ WF_vars(Drive) /\ \A s \in Subscribers : WF_vars(Follow(s))

-----------------------------------------------------------------------------
(* Properties.                                                              *)

\* Whatever is trimmed while a connection is between two frames, it never gets
\* a frame twice nor an older frame after a newer one: (run_id, seq) grows.
ReplayInOrder ==
  \A s \in Subscribers : \A i, j \in 1..Len(got[s]) : i < j => got[s][i] < got[s][j]

\* Without trimming, a connection has received exactly the first frames of the
\* run, however late it attached and however often it slept.
ReplayFromTheStart ==
  ~truncated => \A s \in Subscribers : stage[s] # "away" =>
                  got[s] = [i \in 1..sent[s] |-> i]

\* Who leaves an untrimmed run by itself leaves a settled run and has every frame
\* produced so far, the run's own last one included: status and last frame become
\* visible together.  The done frame is among them if the driver has returned.  It is
\* missing if the connection polls while the driver is in _persist_terminal: the
\* status is terminal by then, and the done frame is still to come.
LeavesUpToDate ==
  [][\A s \in Subscribers : stage[s] # "left" /\ stage'[s] = "left" /\ ~truncated =>
       /\ driver # "streaming"
       /\ got[s] = [i \in 1..produced |-> i]
       /\ driver = "finished" => Last(events).type = "done"]_vars

\* A connection that is not cut off is let go, also when the run overflowed the
\* buffer and its index points past the end.
SubscribersLeave ==
  \A s \in Subscribers : stage[s] \in {"reading", "asleep"} ~> stage[s] \in {"left", "away"}

=============================================================================
