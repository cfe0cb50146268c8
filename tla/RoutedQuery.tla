----------------------------- MODULE RoutedQuery -----------------------------
(***************************************************************************)
(* One call of routed_query (src/app/agents/routed_query.py) per caller:   *)
(* it tries the slots the router named, in order, moves on while nothing   *)
(* of the model has reached its consumer, reports every outcome to the     *)
(* router, and ends the SDK generators of the attempts it gave up.         *)
(*                                                                         *)
(* An attempt is a position in the plan.  Frames that are not model output *)
(* (init, status) are passed on and change nothing but the clock.          *)
(***************************************************************************)
EXTENDS ModelRouter

CONSTANT Keys   \* api keys of the primary's pool

ASSUME KeysAssumption == Keys \in Nat \ {0}

VARIABLES
  call,      \* how far the call has come
  at,        \* index: the attempt in force
  held,      \* pending_api_error: text that looks like a rejection is held back
  rekeyed,   \* rate_limit_key_retry_used
  cause,     \* why an attempt is being closed in line
  alive,     \* attempts whose generator, and with it the SDK subprocess, has not ended
  detached,  \* attempts whose teardown this call waits for before it returns
  overdue,   \* attempts whose teardown ran into its limit and was given up
  heard,     \* attempts whose model output the consumer was given
  hurried    \* the call was cancelled in a teardown, or waited too long for one

queryVars == <<call, at, held, rekeyed, cause, alive, detached, overdue, heard, hurried>>
vars == <<routing, window, breaker, probe, step, outcome, plan, call, at, held,
          rekeyed, cause, alive, detached, overdue, heard, hurried>>

-----------------------------------------------------------------------------
\* "routing": in candidates.  "asking": no model output yet.  "streaming": committed.
\* "switching": at the notice before the next attempt.  "closing": waiting for the
\* teardown of the attempt in force.  "draining": in the last finally.
Phases == {"idle", "routing", "asking", "streaming", "switching", "closing", "draining"}

\* A confirmed rejection is a rate limit or another one; the consumer may just leave.
Rejections == {"rate_limit", "hard_failure"}

Causes == Rejections \cup {"left", "none"}

\* A plan grows by one attempt at most: the other key.
Attempts == 1..3

TypeOK ==
  /\ RouterTypeOK
  /\ call \in [Callers -> Phases]
  /\ at \in [Callers -> Attempts]
  /\ held \in [Callers -> BOOLEAN]
  /\ rekeyed \in [Callers -> BOOLEAN]
  /\ cause \in [Callers -> Causes]
  /\ alive \in [Callers -> SUBSET Attempts]
  /\ detached \in [Callers -> SUBSET Attempts]
  /\ overdue \in [Callers -> SUBSET Attempts]
  /\ heard \in [Callers -> SUBSET Attempts]
  /\ hurried \in [Callers -> BOOLEAN]
  /\ \A c \in Callers : call[c] \notin {"idle", "routing"} => at[c] <= Len(plan[c])

Init ==
  /\ RouterInit
  /\ call = [c \in Callers |-> "idle"]
  /\ at = [c \in Callers |-> 1]
  /\ held = [c \in Callers |-> FALSE]
  /\ rekeyed = [c \in Callers |-> FALSE]
  /\ cause = [c \in Callers |-> "none"]
  /\ alive = [c \in Callers |-> {}]
  /\ detached = [c \in Callers |-> {}]
  /\ overdue = [c \in Callers |-> {}]
  /\ heard = [c \in Callers |-> {}]
  /\ hurried = [c \in Callers |-> FALSE]

-----------------------------------------------------------------------------
HasFallback(c) == at[c] < Len(plan[c])

Slot(c) == plan[c][at[c]]

\* In an attempt, with no report to the router under way (record_outcome is synchronous).
In(c, phase) == call[c] = phase /\ step[c] = "none"

Goto(c, phase) == call' = [call EXCEPT ![c] = phase]

\* The generator of the attempt in force: it ended by itself, or its teardown goes on in
\* a task of its own that the call remembers.
Gone(c) == alive' = [alive EXCEPT ![c] = @ \ {at[c]}] /\ UNCHANGED detached

\* (mutant of Detached) The teardown task is started and not remembered.
DetachedForgotten(c) == UNCHANGED <<alive, detached>>

Detached(c) == detached' = [detached EXCEPT ![c] = @ \cup {at[c]}] /\ UNCHANGED alive

\* A new call.  Its slot is taken again once what it left behind is gone.
Start(c) ==
  /\ In(c, "idle") /\ alive[c] = {}
  /\ \E able \in BOOLEAN : Select(c, able)
  /\ Goto(c, "routing")
  /\ hurried' = [hurried EXCEPT ![c] = FALSE]
  /\ UNCHANGED <<at, held, rekeyed, cause, alive, detached, overdue, heard>>

\* The loop's next attempt: options, generator and pump of its own.
Attempt(c) ==
  /\ In(c, "routing") \/ In(c, "switching")
  /\ Goto(c, "asking")
  /\ alive' = [alive EXCEPT ![c] = @ \cup {at[c]}]
  /\ held' = [held EXCEPT ![c] = FALSE]
  /\ UNCHANGED routerVars
  /\ UNCHANGED <<at, rekeyed, cause, detached, overdue, heard, hurried>>

\* Text that may be a rejection or the model's own prose.
Hold(c) ==
  /\ In(c, "asking") /\ ~held[c]
  /\ held' = [held EXCEPT ![c] = TRUE]
  /\ UNCHANGED routerVars
  /\ UNCHANGED <<call, at, rekeyed, cause, alive, detached, overdue, heard, hurried>>

\* The first frame that needed a model round trip, with whatever was held back before
\* it.  From here on the attempt is committed.
Commit(c) ==
  /\ In(c, "asking")
  /\ \E how \in {"ok", "slow"} : Report(c, Slot(c), how)
  /\ Goto(c, "streaming")
  /\ heard' = [heard EXCEPT ![c] = @ \cup {at[c]}]
  /\ held' = [held EXCEPT ![c] = FALSE]
  /\ UNCHANGED <<routing, window, breaker, probe, plan>>
  /\ UNCHANGED <<at, rekeyed, cause, alive, detached, overdue, hurried>>

\* The next slot, or the end of the list (AllEndpointsUnavailable).
Onwards(c) ==
  IF at[c] < Len(plan'[c])
    THEN Goto(c, "switching") /\ at' = [at EXCEPT ![c] = @ + 1]
    ELSE Goto(c, "draining") /\ UNCHANGED at

\* An attempt failed before its first token.  A rate limit is the key's, not the slot's:
\* the slot's other key is tried once before anything is reported.
Failed(c, why) ==
  /\ IF why = "rate_limit" /\ Slot(c) = "primary" /\ Keys > 1 /\ ~rekeyed[c]
       THEN /\ plan' = [plan EXCEPT ![c] = SubSeq(@, 1, at[c]) \o <<"primary">>
                                             \o SubSeq(@, at[c] + 1, Len(@))]
            /\ rekeyed' = [rekeyed EXCEPT ![c] = TRUE]
            /\ UNCHANGED <<step, outcome>>
       ELSE /\ Report(c, Slot(c), IF why = "rate_limit" THEN "hard_failure" ELSE why)
            /\ UNCHANGED <<plan, rekeyed>>
  /\ Onwards(c)
  /\ UNCHANGED <<routing, window, breaker, probe, held, overdue, heard, hurried>>

\* The first-token deadline, armed while there is somewhere to go.
Deadline(c) ==
  /\ In(c, "asking") /\ HasFallback(c)
  /\ IF held[c] THEN \E why \in Rejections : Failed(c, why)
                ELSE Failed(c, "timeout")
  /\ Detached(c)
  /\ UNCHANGED cause

\* A confirmed rejection: with another slot to go to its teardown is not waited for.
Reject(c, why) ==
  /\ In(c, "asking")
  /\ \/ /\ HasFallback(c)
        /\ Failed(c, why)
        /\ Detached(c)
        /\ UNCHANGED cause
     \/ /\ ~HasFallback(c)
        /\ Goto(c, "closing")
        /\ cause' = [cause EXCEPT ![c] = why]
        /\ UNCHANGED routerVars
        /\ UNCHANGED <<at, held, rekeyed, alive, detached, overdue, heard, hurried>>

\* The generator raised.  What was held back names the better cause.
Raise(c) ==
  /\ In(c, "asking")
  /\ \E why \in IF held[c] THEN Rejections ELSE {"hard_failure", "error"} : Failed(c, why)
  /\ Gone(c)
  /\ UNCHANGED cause

\* The generator ended without model output: a failure if text was held back.
EndEmpty(c) ==
  /\ In(c, "asking")
  /\ Gone(c)
  /\ \/ held[c] /\ \E why \in Rejections : Failed(c, why)
     \/ /\ ~held[c]
        /\ Report(c, Slot(c), "ok")
        /\ Goto(c, "draining")
        /\ UNCHANGED <<routing, window, breaker, probe, plan>>
        /\ UNCHANGED <<at, held, rekeyed, overdue, heard, hurried>>
  /\ UNCHANGED cause

\* (mutant of StreamEnds) An error after the commit is failed over like one before it.
StreamEndsOnwards(c) ==
  /\ In(c, "streaming")
  /\ Gone(c)
  /\ Failed(c, "hard_failure")
  /\ UNCHANGED cause

\* A committed stream ends or raises: the consumer owns the error.
StreamEnds(c) ==
  /\ In(c, "streaming")
  /\ Gone(c)
  /\ Goto(c, "draining")
  /\ UNCHANGED routerVars
  /\ UNCHANGED <<at, held, rekeyed, cause, overdue, heard, hurried>>

\* The consumer closes the generator or is cancelled, at a yield or at a frame.
Leave(c) ==
  /\ \/ /\ In(c, "asking") \/ In(c, "streaming")
        /\ Goto(c, "closing")
        /\ cause' = [cause EXCEPT ![c] = "left"]
     \/ /\ In(c, "switching")
        /\ Goto(c, "draining")
        /\ UNCHANGED cause
  /\ UNCHANGED routerVars
  /\ UNCHANGED <<at, held, rekeyed, alive, detached, overdue, heard, hurried>>

\* _close_attempt awaited in line has come back.
CloseReturns(c) ==
  /\ In(c, "closing") /\ at[c] \notin alive[c] \ overdue[c]
  /\ IF cause[c] = "left"
       THEN /\ Goto(c, "draining")
            /\ UNCHANGED routerVars
            /\ UNCHANGED <<at, held, rekeyed, overdue, heard, hurried>>
       ELSE Failed(c, cause[c])
  /\ cause' = [cause EXCEPT ![c] = "none"]
  /\ UNCHANGED <<alive, detached>>

\* An attempt is being torn down, or was.
Leaving(c, a) == a \in alive[c] /\ (a # at[c] \/ call[c] \in {"closing", "draining", "idle"})

\* An attempt's generator is unwound and its subprocess gone, in the teardown or, if that
\* was given up, some time after.
Reap(c) ==
  /\ \E a \in Attempts :
       /\ Leaving(c, a)
       /\ alive' = [alive EXCEPT ![c] = @ \ {a}]
       /\ detached' = [detached EXCEPT ![c] = @ \ {a}]
       /\ overdue' = [overdue EXCEPT ![c] = @ \ {a}]
  /\ UNCHANGED routerVars
  /\ UNCHANGED <<call, at, held, rekeyed, cause, heard, hurried>>

\* A teardown reaches its limit and returns: the subprocess may be orphaned.
Overrun(c) ==
  /\ \E a \in Attempts \ overdue[c] :
       /\ Leaving(c, a)
       /\ overdue' = [overdue EXCEPT ![c] = @ \cup {a}]
       /\ detached' = [detached EXCEPT ![c] = @ \ {a}]
  /\ UNCHANGED routerVars
  /\ UNCHANGED <<call, at, held, rekeyed, cause, alive, heard, hurried>>

\* Cancelled inside the teardown that is awaited: it goes on without the call.
CancelClose(c) ==
  /\ In(c, "closing")
  /\ Goto(c, "draining")
  /\ hurried' = [hurried EXCEPT ![c] = TRUE]
  /\ cause' = [cause EXCEPT ![c] = "none"]
  /\ UNCHANGED routerVars
  /\ UNCHANGED <<at, held, rekeyed, alive, detached, overdue, heard>>

\* The call and its local variables are gone.
Over(c) ==
  /\ Goto(c, "idle")
  /\ plan' = [plan EXCEPT ![c] = <<>>]
  /\ at' = [at EXCEPT ![c] = 1]
  /\ held' = [held EXCEPT ![c] = FALSE]
  /\ rekeyed' = [rekeyed EXCEPT ![c] = FALSE]
  /\ detached' = [detached EXCEPT ![c] = {}]
  /\ heard' = [heard EXCEPT ![c] = {}]
  /\ UNCHANGED <<routing, window, breaker, probe, step, outcome, cause, alive, overdue>>

\* The last finally: all teardowns this call waits for are over.
Return(c) ==
  /\ In(c, "draining") /\ detached[c] = {}
  /\ Over(c)
  /\ UNCHANGED hurried

\* Its time limit, or a cancellation, ends the wait.
GiveUp(c) ==
  /\ In(c, "draining") /\ detached[c] # {}
  /\ Over(c)
  /\ hurried' = [hurried EXCEPT ![c] = TRUE]

-----------------------------------------------------------------------------
Step(c) ==
  \/ Start(c) \/ Attempt(c) \/ Hold(c) \/ Commit(c)
  \/ Deadline(c) \/ (\E why \in Rejections : Reject(c, why)) \/ Raise(c) \/ EndEmpty(c)
  \/ StreamEnds(c) \/ Leave(c) \/ CloseReturns(c) \/ Reap(c) \/ Overrun(c)
  \/ CancelClose(c) \/ Return(c) \/ GiveUp(c)

Next ==
  \/ \E c \in Callers : Step(c)
  \/ (\E c \in Callers : RoundTrip(c)) /\ UNCHANGED queryVars
  \/ World /\ UNCHANGED queryVars

\* Time passes.  Nothing is asked of endpoints, consumers or processes.
Fairness == WF_vars(Tick /\ UNCHANGED queryVars)

Spec == Init /\ [][Next]_vars /\ Fairness

-----------------------------------------------------------------------------
\* What the consumer of a call hears as model output comes from the attempt in force
\* alone: no attempt follows a committed one, and text held back as a possible rejection
\* is never passed on by an attempt that is given up (module docstring of routed_query).
OneVoice ==
  \A c \in Callers : call[c] # "idle" => heard[c] \subseteq {at[c]}

\* A call that was neither cancelled in a teardown nor out of patience leaves no SDK
\* subprocess behind but those whose teardown was given the whole of its time, whichever
\* of its attempts were given up, failed or walked out on: the event loop of a Celery
\* worker closes as soon as the call is over.
AttemptsReaped ==
  \A c \in Callers : call[c] = "idle" /\ ~hurried[c] => alive[c] \subseteq overdue[c]

\* Some caller records a bad call of the primary.
BadSample == \E c \in Callers : step[c] = "push" /\ outcome[c] \in Bad /\ step'[c] # "push"

\* A primary that is no longer bad is routed to again for good: from the last bad sample
\* on, neither late samples, nor probes, nor old windows keep its breaker open.
PrimaryComesBack == []<><<BadSample>>_vars \/ <>[]~BreakerOpen

=============================================================================
