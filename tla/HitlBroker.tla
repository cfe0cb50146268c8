------------------------------ MODULE HitlBroker ------------------------------
(***************************************************************************)
(* The human-in-the-loop broker of one run (src/app/agents/hitl_broker.py)  *)
(* with its two kinds of waiters, can_use_tool (permissions.py) and         *)
(* AskUserQuestion (clarification.py), the HTTP calls that answer a request *)
(* from several browser tabs, the timeout of a waiter and the end of a run. *)
(*                                                                         *)
(* A device run lives in the API's own event loop.  The log-analysis,       *)
(* project-expert and package-search runs live in a thread with a loop of   *)
(* its own (remote): there the API's thread runs between any two steps of   *)
(* the waiter, and hands its result over with call_soon_threadsafe.         *)
(*                                                                         *)
(* asyncio.wait_for is modelled as Python 3.11 (Dockerfile) implements it.  *)
(***************************************************************************)
EXTENDS FiniteSets

CONSTANTS
  Requests,   \* request ids the run may open
  Questions,  \* those of AskUserQuestion, the others ask for a permission
  Tabs,       \* clients answering: each request at most once
  NoRequest   \* a tab that has no call under way

ASSUME QuestionAssumption == Questions \subseteq Requests
ASSUME NoRequestAssumption == NoRequest \notin Requests
ASSUME TabAssumption ==
  Tabs \cap {"none", "pending", "deny", "timeout", "cancelled", "closed"} = {}

VARIABLES
  remote,     \* the waiters' loop is not the API's
  over,       \* the run's stream is being torn down
  wait,       \* the waiter of a request: idle, waiting, expired, givingUp, done
  future,     \* the future: none, pending, cancelled, deny, or a tab's decision
  pending,    \* PermissionBroker._pending
  closed,     \* PermissionBroker._closed
  closing,    \* requests close() has listed and not cancelled yet
  call,       \* the request whose entry a tab's call has popped
  handed,     \* tabs whose decision on a request is handed over, not applied
  told,       \* what the tab's call returned: none, accepted, refused
  outcome,    \* what the waiter went on with
  card        \* request frame sent, resolved frame sent: none, shown, resolved

brokerVars == <<pending, closed, closing>>
clientVars == <<call, handed, told>>
waiterVars == <<wait, outcome, card>>
vars == <<remote, over, wait, future, pending, closed, closing, call, handed, told,
          outcome, card>>

-----------------------------------------------------------------------------
Verdicts == Tabs \cup {"deny"}

TypeOK ==
  /\ remote \in BOOLEAN /\ over \in BOOLEAN /\ closed \in BOOLEAN
  /\ wait \in [Requests -> {"idle", "waiting", "expired", "givingUp", "done"}]
  /\ future \in [Requests -> {"none", "pending", "cancelled"} \cup Verdicts]
  /\ pending \subseteq Requests /\ closing \subseteq Requests
  /\ call \in [Tabs -> Requests \cup {NoRequest}]
  /\ handed \in [Requests -> SUBSET Tabs]
  /\ told \in [Requests -> [Tabs -> {"none", "accepted", "refused"}]]
  /\ outcome \in [Requests -> {"none", "timeout", "cancelled", "closed"} \cup Verdicts]
  /\ card \in [Requests -> {"none", "shown", "resolved"}]

Init ==
  /\ remote \in BOOLEAN
  /\ over = FALSE /\ closed = FALSE
  /\ wait = [r \in Requests |-> "idle"]
  /\ future = [r \in Requests |-> "none"]
  /\ pending = {} /\ closing = {}
  /\ call = [t \in Tabs |-> NoRequest]
  /\ handed = [r \in Requests |-> {}]
  /\ told = [r \in Requests |-> [t \in Tabs |-> "none"]]
  /\ outcome = [r \in Requests |-> "none"]
  /\ card = [r \in Requests |-> "none"]

FutureDone(r) == future[r] \notin {"none", "pending"}

\* Future.set_result, which a future that is done already does not accept.
SetResult(r, verdict) == future' = [future EXCEPT ![r] = IF FutureDone(r) THEN @ ELSE verdict]

Tell(r, t, answer) == told' = [told EXCEPT ![r][t] = answer]

-----------------------------------------------------------------------------
(* The waiter.                                                              *)

\* The request frame is sent and the entry registered, in one step.
Open(r) ==
  /\ wait[r] = "idle" /\ ~closed /\ ~over
  /\ wait' = [wait EXCEPT ![r] = "waiting"]
  /\ future' = [future EXCEPT ![r] = "pending"]
  /\ pending' = pending \cup {r}
  /\ card' = [card EXCEPT ![r] = "shown"]
  /\ UNCHANGED <<remote, over, closed, closing, clientVars, outcome>>

\* A tool call that comes after close(): the waiter is told at once.
OpenRefused(r) ==
  /\ wait[r] = "idle" /\ closed
  /\ wait' = [wait EXCEPT ![r] = "done"]
  /\ outcome' = [outcome EXCEPT ![r] = "closed"]
  /\ card' = [card EXCEPT ![r] = "resolved"]
  /\ UNCHANGED <<remote, over, future, brokerVars, clientVars>>

\* The waiter goes on with a verdict and sends the resolved frame.
Resume(r, verdict) ==
  /\ wait' = [wait EXCEPT ![r] = "done"]
  /\ outcome' = [outcome EXCEPT ![r] = verdict]
  /\ card' = [card EXCEPT ![r] = "resolved"]

\* (mutant of Wake) After the timer has fired the result is not looked at.
WakeUnlessExpired(r) ==
  /\ wait[r] = "waiting" /\ FutureDone(r)
  /\ Resume(r, future[r])
  /\ UNCHANGED <<remote, over, future, brokerVars, clientVars>>

\* wait_for returns the result of a finished future, even if the timer has fired
\* in the meantime.
Wake(r) ==
  /\ wait[r] \in {"waiting", "expired"} /\ FutureDone(r)
  /\ Resume(r, future[r])
  /\ UNCHANGED <<remote, over, future, brokerVars, clientVars>>

\* The timer releases the waiter, whose task runs later.
TimerFires(r) ==
  /\ wait[r] = "waiting"
  /\ wait' = [wait EXCEPT ![r] = "expired"]
  /\ UNCHANGED <<remote, over, future, brokerVars, clientVars, outcome, card>>

\* Nothing has arrived: wait_for cancels the future and waits for that.
GiveUp(r) ==
  /\ wait[r] = "expired" /\ ~FutureDone(r)
  /\ wait' = [wait EXCEPT ![r] = "givingUp"]
  /\ future' = [future EXCEPT ![r] = "cancelled"]
  /\ UNCHANGED <<remote, over, brokerVars, clientVars, outcome, card>>

\* except TimeoutError: broker.cancel, the resolved frame, and for a question
\* whose owner prefers it the cancel of the whole run.
TimedOut(r) ==
  /\ wait[r] = "givingUp"
  /\ Resume(r, "timeout")
  /\ pending' = pending \ {r}
  /\ \/ over' = over
     \/ r \in Questions /\ over' = TRUE
  /\ UNCHANGED <<remote, future, closed, closing, clientVars>>

\* except CancelledError, thrown into a waiter nobody has answered: broker.cancel,
\* and a permission (not a question) still sends its resolved frame.
CancelWaiter(r) ==
  /\ over
  /\ wait[r] = "givingUp" \/ (wait[r] \in {"waiting", "expired"} /\ ~FutureDone(r))
  /\ wait' = [wait EXCEPT ![r] = "done"]
  /\ outcome' = [outcome EXCEPT ![r] = "cancelled"]
  /\ future' = [future EXCEPT ![r] = "cancelled"]
  /\ pending' = pending \ {r}
  /\ card' = [card EXCEPT ![r] = IF r \in Questions THEN @ ELSE "resolved"]
  /\ UNCHANGED <<remote, over, closed, closing, clientVars>>

-----------------------------------------------------------------------------
(* POST /chat/permissions|clarifications/{request_id}/resolve.              *)

MayCall(r, t) == card[r] # "none" /\ told[r][t] = "none" /\ call[t] = NoRequest

\* Unknown, answered or timed out: HTTP 404.
ResolveMiss(r, t) ==
  /\ MayCall(r, t) /\ r \notin pending
  /\ Tell(r, t, "refused")
  /\ UNCHANGED <<remote, over, waiterVars, future, brokerVars, call, handed>>

\* In the waiter's own loop resolve() is one step.
ResolveLocal(r, t) ==
  /\ ~remote /\ MayCall(r, t) /\ r \in pending
  /\ pending' = pending \ {r}
  /\ SetResult(r, t)
  /\ Tell(r, t, IF FutureDone(r) THEN "refused" ELSE "accepted")
  /\ UNCHANGED <<remote, over, waiterVars, closed, closing, call, handed>>

\* (mutant of ResolvePop) The entry stays in the table for the next tab.
ResolvePeek(r, t) ==
  /\ remote /\ MayCall(r, t) /\ r \in pending
  /\ call' = [call EXCEPT ![t] = r]
  /\ UNCHANGED <<remote, over, waiterVars, future, brokerVars, handed, told>>

\* From another thread: the entry is popped under the lock ...
ResolvePop(r, t) ==
  /\ remote /\ MayCall(r, t) /\ r \in pending
  /\ pending' = pending \ {r}
  /\ call' = [call EXCEPT ![t] = r]
  /\ UNCHANGED <<remote, over, waiterVars, future, closed, closing, handed, told>>

\* (mutant of HandOver) Nothing wakes the other loop up.
HandOverNowhere(r, t) ==
  /\ call[t] = r
  /\ call' = [call EXCEPT ![t] = NoRequest]
  /\ Tell(r, t, IF FutureDone(r) THEN "refused" ELSE "accepted")
  /\ UNCHANGED <<remote, over, waiterVars, future, brokerVars, handed>>

\* (mutant of HandOver) The request is handed over, not the decision.
HandOverSwapped(r, t) ==
  /\ call[t] = r
  /\ call' = [call EXCEPT ![t] = NoRequest]
  /\ handed' = [handed EXCEPT ![r] = IF FutureDone(r) THEN @ ELSE @ \cup {r}]
  /\ Tell(r, t, IF FutureDone(r) THEN "refused" ELSE "accepted")
  /\ UNCHANGED <<remote, over, waiterVars, future, brokerVars>>

\* ... and the result is handed over, unless the future is seen to be done.
HandOver(r, t) ==
  /\ call[t] = r
  /\ call' = [call EXCEPT ![t] = NoRequest]
  /\ handed' = [handed EXCEPT ![r] = IF FutureDone(r) THEN @ ELSE @ \cup {t}]
  /\ Tell(r, t, IF FutureDone(r) THEN "refused" ELSE "accepted")
  /\ UNCHANGED <<remote, over, waiterVars, future, brokerVars>>

\* _apply, in the waiter's loop.
Apply(r, t) ==
  /\ t \in handed[r]
  /\ handed' = [handed EXCEPT ![r] = @ \ {t}]
  /\ SetResult(r, t)
  /\ UNCHANGED <<remote, over, waiterVars, brokerVars, call, told>>

-----------------------------------------------------------------------------
(* The end of the run.                                                      *)

\* The stream ends, fails or is cancelled.
RunEnds ==
  /\ ~over /\ over' = TRUE
  /\ UNCHANGED <<remote, waiterVars, future, brokerVars, clientVars>>

\* close(): no further open, and every request listed is settled as denied.
Close ==
  /\ over /\ ~closed
  /\ closed' = TRUE /\ closing' = pending
  /\ UNCHANGED <<remote, over, waiterVars, future, pending, clientVars>>

CloseOne(r) ==
  /\ r \in closing
  /\ closing' = closing \ {r}
  /\ pending' = pending \ {r}
  /\ IF r \in pending THEN SetResult(r, "deny") ELSE UNCHANGED future
  /\ UNCHANGED <<remote, over, waiterVars, closed, clientVars>>

-----------------------------------------------------------------------------
\* What the waiters' loop does by itself.
WaiterLoop(r) ==
  \/ Wake(r) \/ TimerFires(r) \/ GiveUp(r) \/ TimedOut(r) \/ CloseOne(r)
  \/ \E t \in Tabs : Apply(r, t)

Next ==
  \/ \E r \in Requests : Open(r) \/ OpenRefused(r) \/ WaiterLoop(r) \/ CancelWaiter(r)
  \/ \E r \in Requests, t \in Tabs :
       ResolveMiss(r, t) \/ ResolveLocal(r, t) \/ ResolvePop(r, t) \/ HandOver(r, t)
  \/ RunEnds
  \/ Close

Spec == Init /\ [][Next]_vars

\* The waiters' loop runs and the API's thread finishes a call it has begun.  No
\* user has to answer, and no run has to end.
FairSpec ==
  /\ Spec
  /\ \A r \in Requests : WF_vars(WaiterLoop(r))
  /\ \A r \in Requests, t \in Tabs : WF_vars(HandOver(r, t))

-----------------------------------------------------------------------------
(* Properties.                                                              *)

\* Of several tabs that answer the same card one at most is told it succeeded,
\* and the waiter never goes on with an answer whose sender was told otherwise.
OneAcceptedAnswer ==
  \A r \in Requests :
    /\ \A t1, t2 \in Tabs : told[r][t1] = "accepted" /\ told[r][t2] = "accepted" => t1 = t2
    /\ \A t \in Tabs : outcome[r] = t => told[r][t] = "accepted"

\* A tab that is told yes has accepted the request for everybody; in the waiter's own
\* loop that binds the agent.
Decisions == INSTANCE Decision WITH
  Answers  <- Tabs,
  Defaults <- {"deny", "timeout", "cancelled", "closed"},
  Withdrawn <- {},
  binding  <- ~remote,
  asked    <- {r \in Requests : card[r] # "none"},
  accepted <- [r \in Requests |-> {t \in Tabs : told[r][t] = "accepted"}],
  verdict  <- outcome

\* Whatever thread the answers, the timer, the end of the run and close() come from, a
\* card is decided once, no tab is told yes after that, and the agent never goes on with
\* another answer than the one that was told yes.
CardsAreDecisions == Decisions!Spec

\* In a device run an answer that was accepted is the one the agent goes on with,
\* whatever the timer and the end of the run do at that moment.
AcceptedIsUsed ==
  ~remote => \A r \in Requests, t \in Tabs :
    told[r][t] = "accepted" /\ wait[r] = "done" => outcome[r] = t

\* While the waiter waits for a verdict somebody can still give one: the entry is
\* in the table or a call that popped it is on its way.  Else the card would be
\* dead and the run blocked until the timeout.
AnswerableWhileWaiting ==
  \A r \in Requests : wait[r] = "waiting" /\ future[r] = "pending" =>
    \/ r \in pending
    \/ \E t \in Tabs : call[t] = r \/ t \in handed[r]

\* A card without its resolved frame has a waiter, or the run is over: no card of
\* a live run stays on the screen once the agent has gone on.
NoOrphanCard ==
  \A r \in Requests : card[r] = "shown" /\ wait[r] = "done" => over

\* Cards and waiters belong together: who waits can be answered, and who has gone on
\* has no card.
CardsMatchWaiters == AnswerableWhileWaiting /\ NoOrphanCard

\* An accepted answer lets the agent go on, and silence does not block it: under
\* no order of timer, answers and close() does a tool call hang.
WaitersGoOn == \A r \in Requests : wait[r] = "waiting" ~> wait[r] = "done"

=============================================================================
